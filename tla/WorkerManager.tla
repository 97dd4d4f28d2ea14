---------------------------- MODULE WorkerManager ----------------------------
(***************************************************************************)
(* The registry of workers of internal/workermanager.go, with the connection *)
(* ids of internal/listener.go and the calls that BaseServer makes.          *)
(*                                                                          *)
(* Every server of the process has its own buckets; uidWidMap is a package   *)
(* variable that all servers share.  Every operation on a sync.Map is a step *)
(* of its own; size, which nothing reads, changes with the operation before  *)
(* it.  A worker id selects its bucket, so the buckets of a server act as    *)
(* one map here; the split only fixes the order in which Walk visits them.   *)
(***************************************************************************)
EXTENDS Integers

CONSTANTS
  Servers,    \* the servers of the process
  Workers,    \* the workers they create, one per connection
  Uids,       \* users
  NetType,    \* [Servers -> 0..15]: NetTypeTCP, NetTypeWebSocket, NetTypeKCP
  NoWorker

ASSUME ServersAssumption == NetType \in [Servers -> 0..15]

ASSUME NoWorkerAssumption == NoWorker \notin Workers

VARIABLES
  counter,     \* per server: the counter of its ConnIDGenerator
  buckets,     \* per server: worker id -> worker
  size,        \* per server
  uidWidMap,   \* key -> worker id, for all servers
  srv, uid,    \* per worker: its server, and its user (set by the handshake)
  wid, pc,     \* per worker: its id, where its goroutine (BaseServer.work) is
  past,        \* the workers that Disconnect has found, or that were put before
               \* another one of their user
  kick,        \* a call of Disconnect in progress
  lookup       \* a call of GetByUID or GetByUIDs in progress

maps == <<buckets, size, uidWidMap>>
work == <<srv, uid, wid, pc>>
vars == <<counter, maps, work, past, kick, lookup>>

EmptyMap == [k \in {} |-> k]

\* sync.Map.Store and sync.Map.Delete.
Store(m, k, v) == [x \in DOMAIN m \cup {k} |-> IF x = k THEN v ELSE m[x]]
Delete(m, k)   == [x \in DOMAIN m \ {k} |-> m[x]]

\* Keys of uidWidMap are interface values: an int64 never equals a uint64.
UidKey(u) == <<"int64", u>>
WidKey(i) == <<"uint64", i>>

\* Mutant of ConnID: ids without the net type.
ConnIDWithoutNet(n, s) == 16 * n

\* ConnIDGenerator.Next: counter<<4 | netType.
ConnID(n, s) == 16 * n + NetType[s]

NoKick == [pc |-> "idle", srv |-> NoWorker, wid |-> 0]

NoLookup == [pc |-> "idle", op |-> "one", srv |-> NoWorker, asked |-> {},
             due |-> {}, todo |-> {}, wids |-> {}, answer |-> {}]

Init ==
  /\ counter = [s \in Servers |-> 0]
  /\ buckets = [s \in Servers |-> EmptyMap]
  /\ size = [s \in Servers |-> 0]
  /\ uidWidMap = EmptyMap
  /\ srv \in [Workers -> Servers]
  /\ uid \in [Workers -> Uids]
  /\ wid = [w \in Workers |-> 0]
  /\ pc = [w \in Workers |-> "new"]
  /\ past = {}
  /\ kick = NoKick
  /\ lookup = NoLookup

\* The workers whose Put was the last of their user's, and which have neither left
\* nor been disconnected.
current == {w \in Workers \ past : pc[w] = "registered"}

Goto(w, label) == pc' = [pc EXCEPT ![w] = label] /\ UNCHANGED <<srv, uid, wid>>

-----------------------------------------------------------------------------
(* BaseServer.work of worker w.                                               *)

\* Listener.Accept names the connection, and the worker starts (the handshake
\* and OnConnected succeed: a worker that fails there is never registered).
Accept(w) ==
  /\ pc[w] = "new"
  /\ counter' = [counter EXCEPT ![srv[w]] = @ + 1]
  /\ wid' = [wid EXCEPT ![w] = ConnID(counter'[srv[w]], srv[w])]
  /\ pc' = [pc EXCEPT ![w] = "putBucket"]
  /\ UNCHANGED <<maps, srv, uid, past, kick, lookup>>

\* Put: LoadOrStore in the bucket.  A worker whose id is taken is not stored and
\* runs on (addWorker only stops the other one).
PutBucket(w) ==
  /\ pc[w] = "putBucket"
  /\ IF wid[w] \in DOMAIN buckets[srv[w]]
       THEN Goto(w, "registered") /\ past' = past \cup {w} /\ UNCHANGED buckets
       ELSE /\ buckets' = [buckets EXCEPT ![srv[w]] = Store(@, wid[w], w)]
            /\ Goto(w, "putUid") /\ UNCHANGED past
  /\ UNCHANGED <<counter, size, uidWidMap, kick, lookup>>

\* Put: uidWidMap.Store(w.UID(), w.WID()) and m.size.Add(1)
PutUid(w) ==
  /\ pc[w] = "putUid"
  /\ uidWidMap' = Store(uidWidMap, UidKey(uid[w]), wid[w])
  /\ size' = [size EXCEPT ![srv[w]] = @ + 1]
  /\ Goto(w, "registered")
  /\ past' = past \cup {v \in Workers : pc[v] = "registered" /\ uid[v] = uid[w]}
  /\ UNCHANGED <<counter, buckets, kick, lookup>>

\* Run returns (the peer closes, an error, a Stop): the deferred delWorker.
Leave(w) ==
  /\ pc[w] = "registered"
  /\ Goto(w, "delUid")
  /\ UNCHANGED <<counter, maps, past, kick, lookup>>

\* Mutant of DelUid: the entry of the worker's user is deleted.
DelUidOfUser(i) ==
  LET w == CHOOSE v \in Workers : wid[v] = i
  IN  uidWidMap' = Delete(uidWidMap, UidKey(uid[w])) /\ UNCHANGED <<buckets, size>>

\* Del: uidWidMap.Delete(wid)
DelUid(i) == uidWidMap' = Delete(uidWidMap, WidKey(i)) /\ UNCHANGED <<buckets, size>>

\* Del: m.getBucket(wid).Delete(wid) and m.size.Add(-1)
DelBucket(s, i) ==
  /\ buckets' = [buckets EXCEPT ![s] = Delete(@, i)]
  /\ size' = [size EXCEPT ![s] = @ - 1]
  /\ UNCHANGED uidWidMap

WorkDelUid(w) ==
  /\ pc[w] = "delUid"
  /\ DelUid(wid[w])
  /\ Goto(w, "delBucket")
  /\ UNCHANGED <<counter, past, kick, lookup>>

WorkDelBucket(w) ==
  /\ pc[w] = "delBucket"
  /\ DelBucket(srv[w], wid[w])
  /\ Goto(w, "gone")
  /\ UNCHANGED <<counter, past, kick, lookup>>

-----------------------------------------------------------------------------
(* BaseServer.Disconnect(wid), by an application goroutine.                    *)

\* Worker(wid) finds a worker; its Stop comes after the Del, and makes the
\* worker's own goroutine Leave.
DisconnectFind(s, i) ==
  /\ kick.pc = "idle"
  /\ i \in DOMAIN buckets[s]
  /\ kick' = [pc |-> "delUid", srv |-> s, wid |-> i]
  /\ past' = past \cup {buckets[s][i]}
  /\ UNCHANGED <<counter, maps, work, lookup>>

DisconnectDelUid ==
  /\ kick.pc = "delUid"
  /\ DelUid(kick.wid)
  /\ kick' = [kick EXCEPT !.pc = "delBucket"]
  /\ UNCHANGED <<counter, work, past, lookup>>

DisconnectDelBucket ==
  /\ kick.pc = "delBucket"
  /\ DelBucket(kick.srv, kick.wid)
  /\ kick' = NoKick
  /\ UNCHANGED <<counter, work, past, lookup>>

-----------------------------------------------------------------------------
(* GetByUID(uid) and GetByUIDs(uids) on server s.                              *)

\* The call; todo holds the uids whose worker id is still to be loaded, due the
\* workers that are current when it begins.
LookupCall(s, op, us) ==
  /\ lookup.pc = "idle"
  /\ lookup' = [NoLookup EXCEPT !.pc = IF us = {} THEN "workers" ELSE "uids",
                                !.op = op, !.srv = s, !.asked = us, !.todo = us,
                                !.due = current]
  /\ UNCHANGED <<counter, maps, work, past, kick>>

\* uidWidMap.Load(uid); the uids of GetByUIDs one after the other.
LookupUid ==
  /\ lookup.pc = "uids"
  /\ \E u \in lookup.todo :
       LET hit == UidKey(u) \in DOMAIN uidWidMap
       IN  lookup' = [lookup EXCEPT
             !.todo = @ \ {u},
             !.wids = IF hit THEN @ \cup {uidWidMap[UidKey(u)]} ELSE @,
             !.pc = IF lookup.todo = {u} THEN "workers" ELSE "uids"]
  /\ UNCHANGED <<counter, maps, work, past, kick>>

\* The key under which a worker found is answered: GetByUID answers the uid that
\* was asked for, GetByUIDs keys its result by the worker's own uid.
AnswerKey(w) == IF lookup.op = "one" THEN CHOOSE u \in lookup.asked : TRUE ELSE uid[w]

\* bucket.Load(wid), bucket by bucket, so in any order of the ids.
LookupWorker ==
  /\ lookup.pc = "workers"
  /\ \E i \in lookup.wids :
       LET bucket == buckets[lookup.srv]
       IN  lookup' = [lookup EXCEPT
             !.wids = @ \ {i},
             !.answer = IF i \in DOMAIN bucket
                          THEN @ \cup {<<AnswerKey(bucket[i]), bucket[i]>>} ELSE @]
  /\ UNCHANGED <<counter, maps, work, past, kick>>

LookupReturn ==
  /\ lookup.pc = "workers"
  /\ lookup.wids = {}
  /\ lookup' = NoLookup
  /\ UNCHANGED <<counter, maps, work, past, kick>>

Next ==
  \/ \E w \in Workers : \/ Accept(w) \/ PutBucket(w) \/ PutUid(w)
                        \/ Leave(w) \/ WorkDelUid(w) \/ WorkDelBucket(w)
  \/ \E s \in Servers : \/ \E i \in DOMAIN buckets[s] : DisconnectFind(s, i)
                        \/ \E u \in Uids : LookupCall(s, "one", {u})
                        \/ \E us \in SUBSET Uids : LookupCall(s, "many", us)
  \/ DisconnectDelUid \/ DisconnectDelBucket
  \/ LookupUid \/ LookupWorker \/ LookupReturn

Spec == Init /\ [][Next]_vars

-----------------------------------------------------------------------------
(***************************************************************************)
(* Properties.                                                              *)
(***************************************************************************)
WorkPcs == {"new", "putBucket", "putUid", "registered", "delUid", "delBucket", "gone"}

\* Type invariant.
TypeOK ==
  /\ counter \in [Servers -> Nat]
  /\ buckets = [s \in Servers |-> buckets[s]]
  /\ \A s \in Servers : \A i \in DOMAIN buckets[s] : i \in Nat /\ buckets[s][i] \in Workers
  /\ size \in [Servers -> Int]
  /\ \A k \in DOMAIN uidWidMap : uidWidMap[k] \in Nat
  /\ srv \in [Workers -> Servers] /\ uid \in [Workers -> Uids]
  /\ wid \in [Workers -> Nat] /\ pc \in [Workers -> WorkPcs]
  /\ past \subseteq Workers
  /\ kick = NoKick \/ kick \in [pc : {"delUid", "delBucket"}, srv : Servers, wid : Nat]
  /\ lookup \in [pc : {"idle", "uids", "workers"}, op : {"one", "many"},
                 srv : Servers \cup {NoWorker}, asked : SUBSET Uids,
                 due : SUBSET Workers, todo : SUBSET Uids,
                 wids : SUBSET Nat, answer : SUBSET (Uids \X Workers)]

\* A lookup by uid answers only workers of the users that were asked for, and
\* of the server that was asked: the id found in the shared uidWidMap cannot
\* name another user's worker, although workers come and go between the two
\* loads.  It rests on the net type in the id: with two servers of one net type,
\* as in the instance SameNets, it does not hold.
LookupAnswersOwner ==
  \A a \in lookup.answer : /\ uid[a[2]] = a[1]
                           /\ a[1] \in lookup.asked
                           /\ srv[a[2]] = lookup.srv

\* A lookup by uid that is about to return answers every worker of the server whose
\* user was asked for and which has been its user's current one since the call
\* began: no Del of another worker, an older connection of the same user included,
\* and no Put of another user's takes its entries away, in whatever order their
\* steps and the loads of the lookup happen.  It says nothing of an older
\* connection, which cannot be found by uid any more though it is registered.
LookupFinds ==
  lookup.pc = "workers" /\ lookup.wids = {} =>
    \A w \in lookup.due \cap current :
      srv[w] = lookup.srv /\ uid[w] \in lookup.asked => <<uid[w], w>> \in lookup.answer

\* Worker w is in its bucket.
InBucket(w) == wid[w] \in DOMAIN buckets[srv[w]] /\ buckets[srv[w]][wid[w]] = w

\* The worker that got id i.
WorkerOf(i) == CHOOSE w \in Workers : pc[w] # "new" /\ wid[w] = i

\* The registry that the maps stand for.
put == [w \in Workers |-> IF pc[w] \in {"new", "putBucket"} THEN "new"
                          ELSE IF pc[w] = "putUid" THEN "stored" ELSE "named"]
here == {w \in Workers : InBucket(w)}
latest == [u \in Uids |-> IF UidKey(u) \in DOMAIN uidWidMap
                            THEN WorkerOf(uidWidMap[UidKey(u)]) ELSE NoWorker]

Abstract == INSTANCE Registry

\* The ids, the buckets and the one uidWidMap of all servers are the registry that
\* ServerPush steps over: every worker's Put stores it and then names it, a user is
\* found by the connection whose Put named it last and by no older one, nothing
\* takes the name away when that connection has left, and the Del of one worker,
\* though it runs twice for a worker that Disconnect has deleted, never takes
\* another one away.
ImplementsRegistry == Abstract!Spec

\* The comment on uidWidMap: it is "put before buckets", so that whoever is in a
\* bucket is found by uid.
UidPutBeforeBucket ==
  \A w \in Workers : InBucket(w) => UidKey(uid[w]) \in DOMAIN uidWidMap

\* The comment on uidWidMap: its entry is deleted after the bucket's.
UidDeletedWithWorkers ==
  \A u \in Uids :
    UidKey(u) \in DOMAIN uidWidMap => \E w \in Workers : uid[w] = u /\ pc[w] # "gone"

-----------------------------------------------------------------------------
(***************************************************************************)
(* The inductive invariant behind LookupAnswersOwner.                        *)
(***************************************************************************)
\* The servers of the process are of different net types.
DistinctNetTypes == \A s, t \in Servers : NetType[s] = NetType[t] => s = t

Named(w) == pc[w] # "new"

\* The ids in use are those their server's counter has passed, and no two
\* workers of the process share one.
IdsUnique ==
  /\ \A w \in Workers : Named(w) => \E n \in 1..counter[srv[w]] : wid[w] = ConnID(n, srv[w])
  /\ \A v, w \in Workers : Named(v) /\ Named(w) /\ wid[v] = wid[w] => v = w

\* A bucket maps ids to the workers of its server that bear them.
BucketsSound ==
  \A s \in Servers : \A i \in DOMAIN buckets[s] :
    LET w == buckets[s][i] IN Named(w) /\ srv[w] = s /\ wid[w] = i

\* Id i was given to a worker of one of the users us.
IdOf(i, us) == \E w \in Workers : Named(w) /\ wid[w] = i /\ uid[w] \in us

UidMapSound ==
  \A u \in Uids : UidKey(u) \in DOMAIN uidWidMap => IdOf(uidWidMap[UidKey(u)], {u})

LookupSound ==
  /\ lookup.pc # "idle" => lookup.srv \in Servers
  /\ lookup.todo \subseteq lookup.asked
  /\ lookup.pc # "idle" /\ lookup.op = "one" => \E u \in Uids : lookup.asked = {u}
  /\ \A i \in lookup.wids : IdOf(i, lookup.asked)
  /\ LookupAnswersOwner
  /\ lookup.pc = "idle" => lookup.wids = {} /\ lookup.answer = {}

LookupInv == TypeOK /\ IdsUnique /\ BucketsSound /\ UidMapSound /\ LookupSound

\* What LookupFinds rests on: a Disconnect in progress is that of a past worker; one
\* that is not past is in its bucket from the first half of its Put on, and the
\* user's entry is its own from the second half on; and a worker that a lookup owes
\* is still to be found, or among the ids or the answers already.
Settled(w) == pc[w] \notin {"new", "putBucket", "putUid"}

StillFound(w) == \/ uid[w] \in lookup.todo \/ wid[w] \in lookup.wids
                 \/ <<uid[w], w>> \in lookup.answer

CurrentInv ==
  /\ kick.pc # "idle" => \E v \in past : Named(v) /\ wid[v] = kick.wid
  /\ \A w \in Workers \ past : pc[w] \in {"putUid", "registered"} => InBucket(w)
  /\ \A w \in current : /\ UidKey(uid[w]) \in DOMAIN uidWidMap
                         /\ uidWidMap[UidKey(uid[w])] = wid[w]
  /\ \A w \in lookup.due : Settled(w)
  /\ \A w \in lookup.due \cap current :
       srv[w] = lookup.srv /\ uid[w] \in lookup.asked => StillFound(w)
  /\ lookup.pc = "workers" => lookup.todo = {}

\* Only Put stores a worker: the id of a worker that is about to be stored is free.
Unstored == \A w \in Workers : pc[w] = "putBucket" => ~ InBucket(w)

=============================================================================
