------------------------- MODULE WorkerManager_proofs -------------------------
(***************************************************************************)
(* Proofs about WorkerManager for any number of servers of different net     *)
(* types, workers and users: lookups answer no wrong worker and no current   *)
(* one is missed, and the maps implement Registry.                           *)
(***************************************************************************)
EXTENDS WorkerManager, TLAPS

\* The net type in the low bits keeps the ids of two servers apart, the counter
\* those of one server.
LEMMA ConnIDInjective ==
  ASSUME DistinctNetTypes, NEW s \in Servers, NEW t \in Servers, NEW m \in Nat, NEW n \in Nat,
         ConnID(m, s) = ConnID(n, t)
  PROVE  s = t /\ m = n
<1>1. NetType[s] \in 0..15 /\ NetType[t] \in 0..15
  BY ServersAssumption
<1>2. NetType[s] = NetType[t] /\ m = n
  BY <1>1 DEF ConnID
<1>3. QED
  BY <1>2 DEF DistinctNetTypes

LEMMA ConnIDNat == \A n \in Nat, s \in Servers : ConnID(n, s) \in Nat
BY ServersAssumption DEF ConnID

LEMMA UidKeyInjective == \A u, v \in Uids : UidKey(u) = UidKey(v) => u = v
BY DEF UidKey

\* What replacing one server's bucket does.
LEMMA OneBucket ==
  ASSUME NEW f, NEW g, NEW s \in Servers, NEW b,
         f = [t \in Servers |-> f[t]], g = [f EXCEPT ![s] = b]
  PROVE  /\ g = [t \in Servers |-> g[t]] /\ g[s] = b
         /\ \A t \in Servers : t # s => g[t] = f[t]
OBVIOUS

LEMMA LookupInit == Init => LookupInv
BY DEF Init, LookupInv, TypeOK, IdsUnique, BucketsSound, UidMapSound, LookupSound,
       LookupAnswersOwner, Named, IdOf, EmptyMap, NoKick, NoLookup, WorkPcs

LEMMA LookupStep ==
  ASSUME DistinctNetTypes, LookupInv, [Next]_vars PROVE LookupInv'
<1> USE DEF LookupInv, TypeOK, IdsUnique, BucketsSound, UidMapSound, LookupSound,
            LookupAnswersOwner, Named, IdOf, WorkPcs, Goto, maps, work
<1>1. CASE UNCHANGED vars
  BY <1>1 DEF vars
<1>2. ASSUME NEW w \in Workers, Accept(w) PROVE LookupInv'
  <2> DEFINE s == srv[w]
             n == counter[s] + 1
  <2>1. s \in Servers /\ counter[s] \in Nat /\ n \in Nat /\ ConnID(n, s) \in Nat
    <3>1. s \in Servers /\ counter[s] \in Nat
      OBVIOUS
    <3>2. n \in Nat
      BY <3>1
    <3>3. QED
      BY <3>1, <3>2, ConnIDNat
  <2>2. /\ pc[w] = "new" /\ pc' = [pc EXCEPT ![w] = "putBucket"]
        /\ counter' = [counter EXCEPT ![s] = n]
        /\ wid' = [wid EXCEPT ![w] = ConnID(n, s)]
        /\ UNCHANGED <<maps, srv, uid, past, kick, lookup>>
    BY <1>2 DEF Accept
  <2>3. TypeOK'
    BY <2>1, <2>2
  <2>4. IdsUnique'
    <3>1. \A v \in Workers : Named(v)' => \E m \in 1..counter'[srv[v]] : wid'[v] = ConnID(m, srv[v])
      <4> SUFFICES ASSUME NEW v \in Workers, Named(v)'
                   PROVE  \E m \in 1..counter'[srv[v]] : wid'[v] = ConnID(m, srv[v])
        OBVIOUS
      <4>1. CASE v = w
        <5>1. n \in 1..counter'[s] /\ wid'[v] = ConnID(n, s)
          BY <2>1, <2>2, <4>1
        <5>2. QED
          BY <4>1, <5>1
      <4>2. CASE v # w
        <5>1. Named(v) /\ wid'[v] = wid[v] /\ counter[srv[v]] \in Nat /\ srv[v] \in Servers
          BY <2>2, <4>2
        <5>2. PICK m \in 1..counter[srv[v]] : wid[v] = ConnID(m, srv[v])
          BY <5>1
        <5>3. counter'[srv[v]] \in Nat /\ counter[srv[v]] <= counter'[srv[v]]
          BY <2>1, <2>2, <5>1
        <5>4. m \in 1..counter'[srv[v]]
          BY <5>1, <5>3
        <5>5. QED
          BY <5>1, <5>2, <5>4
      <4>3. QED
        BY <4>1, <4>2
    <3>2. ASSUME NEW v \in Workers, v # w, Named(v) PROVE wid[v] # ConnID(n, s)
      <4>1. PICK m \in 1..counter[srv[v]] : wid[v] = ConnID(m, srv[v])
        BY <3>2
      <4>2. SUFFICES ASSUME ConnID(m, srv[v]) = ConnID(n, s) PROVE FALSE
        BY <4>1
      <4>3. m \in Nat /\ srv[v] \in Servers /\ counter[srv[v]] \in Nat /\ m <= counter[srv[v]]
        OBVIOUS
      <4>4. srv[v] = s /\ m = n
        BY <2>1, <4>2, <4>3, ConnIDInjective
      <4>5. QED
        BY <2>1, <4>3, <4>4
    <3>3. \A v, x \in Workers : Named(v)' /\ Named(x)' /\ wid'[v] = wid'[x] => v = x
      BY <2>2, <3>2
    <3>4. QED
      BY <2>2, <3>1, <3>3
  <2>5. BucketsSound'
    BY <2>2
  <2>6. UidMapSound'
    BY <2>2
  <2>7. LookupSound'
    BY <2>2
  <2>8. QED
    BY <2>3, <2>4, <2>5, <2>6, <2>7
<1>3. ASSUME NEW w \in Workers, PutBucket(w) PROVE LookupInv'
  <2> DEFINE s == srv[w]
  <2>1. CASE wid[w] \in DOMAIN buckets[s]
    <3>1. /\ pc[w] = "putBucket" /\ pc' = [pc EXCEPT ![w] = "registered"]
          /\ past' = past \cup {w}
          /\ UNCHANGED <<buckets, srv, uid, wid, counter, size, uidWidMap, kick, lookup>>
      BY <1>3, <2>1 DEF PutBucket
    <3>2. TypeOK' /\ IdsUnique' /\ BucketsSound'
      BY <3>1
    <3>3. UidMapSound' /\ LookupSound'
      BY <3>1
    <3>4. QED
      BY <3>2, <3>3
  <2>2. CASE wid[w] \notin DOMAIN buckets[s]
    <3>1. /\ pc[w] = "putBucket" /\ pc' = [pc EXCEPT ![w] = "putUid"]
          /\ buckets' = [buckets EXCEPT ![s] = Store(buckets[s], wid[w], w)]
          /\ UNCHANGED <<srv, uid, wid, counter, size, uidWidMap, past, kick, lookup>>
      BY <1>3, <2>2 DEF PutBucket
    <3>2. /\ buckets' = [t \in Servers |-> buckets'[t]]
          /\ buckets'[s] = Store(buckets[s], wid[w], w)
          /\ \A t \in Servers : t # s => buckets'[t] = buckets[t]
      BY <3>1
    <3>3. ASSUME NEW t \in Servers, NEW i \in DOMAIN buckets'[t]
          PROVE  \/ i \in DOMAIN buckets[t] /\ buckets'[t][i] = buckets[t][i]
                 \/ t = s /\ i = wid[w] /\ buckets'[t][i] = w
      <4> DEFINE b == Store(buckets[s], wid[w], w)
      <4>1. /\ DOMAIN b = DOMAIN buckets[s] \cup {wid[w]}
            /\ b[wid[w]] = w
            /\ \A x \in DOMAIN buckets[s] : x # wid[w] => b[x] = buckets[s][x]
        BY DEF Store
      <4> HIDE DEF b
      <4>2. buckets'[s] = b
        BY <3>2 DEF b
      <4>3. CASE t = s
        BY <4>1, <4>2, <4>3
      <4>4. CASE t # s
        BY <3>2, <4>4
      <4>5. QED
        BY <4>3, <4>4
    <3> HIDE DEF s
    <3>4. TypeOK'
      BY <3>1, <3>2, <3>3
    <3>5. BucketsSound'
      <4> SUFFICES ASSUME NEW t \in Servers, NEW i \in DOMAIN buckets'[t]
                   PROVE  /\ pc'[buckets'[t][i]] # "new" /\ srv'[buckets'[t][i]] = t
                          /\ wid'[buckets'[t][i]] = i
        BY DEF BucketsSound
      <4>1. CASE i \in DOMAIN buckets[t] /\ buckets'[t][i] = buckets[t][i]
        BY <3>1, <4>1
      <4>2. CASE t = s /\ i = wid[w] /\ buckets'[t][i] = w
        BY <3>1, <4>2 DEF s
      <4>3. QED
        BY <3>3, <4>1, <4>2
    <3>6. IdsUnique' /\ UidMapSound' /\ LookupSound'
      BY <3>1
    <3>7. QED
      BY <3>4, <3>5, <3>6
  <2>3. QED
    BY <2>1, <2>2
<1>4. ASSUME NEW w \in Workers, PutUid(w) PROVE LookupInv'
  <2> DEFINE k == UidKey(uid[w])
  <2>1. /\ pc[w] = "putUid" /\ pc' = [pc EXCEPT ![w] = "registered"]
        /\ size' = [size EXCEPT ![srv[w]] = @ + 1]
        /\ past' \subseteq Workers
        /\ UNCHANGED <<srv, uid, wid, counter, buckets, kick, lookup>>
    BY <1>4 DEF PutUid
  <2>2. /\ DOMAIN uidWidMap' = DOMAIN uidWidMap \cup {k}
        /\ uidWidMap'[k] = wid[w]
        /\ \A x \in DOMAIN uidWidMap : x # k => uidWidMap'[x] = uidWidMap[x]
    BY <1>4 DEF PutUid, Store
  <2> HIDE DEF k
  <2>3. TypeOK'
    BY <2>1, <2>2
  <2>4. UidMapSound'
    <3> SUFFICES ASSUME NEW u \in Uids, UidKey(u) \in DOMAIN uidWidMap'
                 PROVE  \E x \in Workers : /\ pc'[x] # "new" /\ wid[x] = uidWidMap'[UidKey(u)]
                                           /\ uid[x] \in {u}
      BY <2>1
    <3>1. CASE u = uid[w]
      BY <2>1, <2>2, <3>1 DEF k
    <3>2. CASE u # uid[w]
      <4>1. UidKey(u) # k
        BY <3>2, UidKeyInjective DEF k
      <4>2. QED
        BY <2>1, <2>2, <4>1
    <3>3. QED
      BY <3>1, <3>2
  <2>5. IdsUnique' /\ BucketsSound' /\ LookupSound'
    BY <2>1
  <2>6. QED
    BY <2>3, <2>4, <2>5
<1>5. ASSUME NEW w \in Workers, Leave(w) PROVE LookupInv'
  <2>1. TypeOK'
    BY <1>5 DEF Leave
  <2>2. IdsUnique'
    BY <1>5 DEF Leave
  <2>3. BucketsSound'
    BY <1>5 DEF Leave
  <2>4. UidMapSound'
    BY <1>5 DEF Leave
  <2>5. LookupSound'
    BY <1>5 DEF Leave
  <2>6. QED
    BY <2>1, <2>2, <2>3, <2>4, <2>5
<1>6. ASSUME NEW w \in Workers, WorkDelUid(w) PROVE LookupInv'
  <2>1. TypeOK'
    BY <1>6 DEF WorkDelUid, DelUid, Delete
  <2>2. IdsUnique'
    BY <1>6 DEF WorkDelUid, DelUid, Delete
  <2>3. BucketsSound'
    BY <1>6 DEF WorkDelUid, DelUid, Delete
  <2>4. UidMapSound'
    BY <1>6 DEF WorkDelUid, DelUid, Delete
  <2>5. LookupSound'
    BY <1>6 DEF WorkDelUid, DelUid, Delete
  <2>6. QED
    BY <2>1, <2>2, <2>3, <2>4, <2>5
<1>7. ASSUME NEW w \in Workers, WorkDelBucket(w) PROVE LookupInv'
  <2> DEFINE i0 == wid[w]
             s0 == srv[w]
  <2>1. /\ buckets' = [buckets EXCEPT ![s0] = Delete(buckets[s0], i0)]
        /\ size' = [size EXCEPT ![s0] = @ - 1]
        /\ pc[w] = "delBucket" /\ pc' = [pc EXCEPT ![w] = "gone"]
        /\ UNCHANGED <<srv, uid, wid, uidWidMap, counter, past, kick, lookup>>
        /\ s0 \in Servers
    BY <1>7 DEF WorkDelBucket, DelBucket
  <2>2. /\ buckets' = [t \in Servers |-> buckets'[t]]
        /\ buckets'[s0] = Delete(buckets[s0], i0)
        /\ \A t \in Servers : t # s0 => buckets'[t] = buckets[t]
    <3>1. buckets = [t \in Servers |-> buckets[t]]
      OBVIOUS
    <3>2. QED
      BY ONLY <2>1, <3>1, OneBucket
  <2>3. \A t \in Servers : \A i \in DOMAIN buckets'[t] :
          i \in DOMAIN buckets[t] /\ buckets'[t][i] = buckets[t][i]
    <3> SUFFICES ASSUME NEW t \in Servers, NEW i \in DOMAIN buckets'[t]
                 PROVE  i \in DOMAIN buckets[t] /\ buckets'[t][i] = buckets[t][i]
      OBVIOUS
    <3>1. CASE t = s0
      BY <2>2, <3>1 DEF Delete
    <3>2. CASE t # s0
      BY <2>2, <3>2
    <3>3. QED
      BY <3>1, <3>2
  <2> HIDE DEF s0, i0
  <2>4. TypeOK'
    BY <2>1, <2>2, <2>3
  <2>5. BucketsSound'
    BY <2>1, <2>3
  <2>6. IdsUnique' /\ UidMapSound' /\ LookupSound'
    BY <2>1
  <2>7. QED
    BY <2>4, <2>5, <2>6
<1>8. ASSUME NEW s \in Servers, NEW i \in DOMAIN buckets[s], DisconnectFind(s, i) PROVE LookupInv'
  BY <1>8 DEF DisconnectFind
<1>9. ASSUME NEW s \in Servers, NEW u \in Uids, LookupCall(s, "one", {u}) PROVE LookupInv'
  <2>1. /\ lookup' = [pc |-> "uids", op |-> "one", srv |-> s, asked |-> {u},
                      due |-> current, todo |-> {u}, wids |-> {}, answer |-> {}]
        /\ UNCHANGED <<counter, maps, work, past, kick>>
    BY <1>9 DEF LookupCall, NoLookup
  <2>2. TypeOK'
    BY <2>1 DEF current
  <2>3. LookupSound'
    BY <2>1
  <2>4. IdsUnique' /\ BucketsSound' /\ UidMapSound'
    BY <2>1
  <2>5. QED
    BY <2>2, <2>3, <2>4
<1>10. ASSUME NEW s \in Servers, NEW us \in SUBSET Uids, LookupCall(s, "many", us)
       PROVE  LookupInv'
  <2>1. /\ lookup' = [pc |-> IF us = {} THEN "workers" ELSE "uids", op |-> "many",
                      srv |-> s, asked |-> us, due |-> current, todo |-> us,
                      wids |-> {}, answer |-> {}]
        /\ UNCHANGED <<counter, maps, work, past, kick>>
    BY <1>10 DEF LookupCall, NoLookup
  <2>2. TypeOK'
    BY <2>1 DEF current
  <2>3. LookupSound'
    BY <2>1
  <2>4. IdsUnique' /\ BucketsSound' /\ UidMapSound'
    BY <2>1
  <2>5. QED
    BY <2>2, <2>3, <2>4
<1>11. CASE DisconnectDelUid
  <2>1. /\ kick.pc = "delUid" /\ kick' = [kick EXCEPT !.pc = "delBucket"]
        /\ DOMAIN uidWidMap' \subseteq DOMAIN uidWidMap
        /\ \A k \in DOMAIN uidWidMap' : uidWidMap'[k] = uidWidMap[k]
        /\ UNCHANGED <<buckets, size, counter, work, past, lookup>>
    BY <1>11 DEF DisconnectDelUid, DelUid, Delete
  <2>2. kick' \in [pc : {"delUid", "delBucket"}, srv : Servers, wid : Nat]
    BY <2>1 DEF NoKick
  <2>3. TypeOK'
    BY <2>1, <2>2
  <2>4. UidMapSound'
    BY <2>1
  <2>5. IdsUnique' /\ BucketsSound' /\ LookupSound'
    BY <2>1
  <2>6. QED
    BY <2>3, <2>4, <2>5
<1>12. CASE DisconnectDelBucket
  <2> DEFINE i0 == kick.wid
             s0 == kick.srv
  <2>1. /\ buckets' = [buckets EXCEPT ![s0] = Delete(buckets[s0], i0)]
        /\ size' = [size EXCEPT ![s0] = @ - 1]
        /\ kick' = NoKick
        /\ UNCHANGED <<work, uidWidMap, counter, past, lookup>>
        /\ s0 \in Servers
    BY <1>12 DEF DisconnectDelBucket, NoKick, DelBucket
  <2>2. /\ buckets' = [t \in Servers |-> buckets'[t]]
        /\ buckets'[s0] = Delete(buckets[s0], i0)
        /\ \A t \in Servers : t # s0 => buckets'[t] = buckets[t]
    <3>1. buckets = [t \in Servers |-> buckets[t]]
      OBVIOUS
    <3>2. QED
      BY ONLY <2>1, <3>1, OneBucket
  <2>3. \A t \in Servers : \A i \in DOMAIN buckets'[t] :
          i \in DOMAIN buckets[t] /\ buckets'[t][i] = buckets[t][i]
    <3> SUFFICES ASSUME NEW t \in Servers, NEW i \in DOMAIN buckets'[t]
                 PROVE  i \in DOMAIN buckets[t] /\ buckets'[t][i] = buckets[t][i]
      OBVIOUS
    <3>1. CASE t = s0
      BY <2>2, <3>1 DEF Delete
    <3>2. CASE t # s0
      BY <2>2, <3>2
    <3>3. QED
      BY <3>1, <3>2
  <2> HIDE DEF s0, i0
  <2>4. TypeOK'
    <3>1. \A t \in Servers : \A i \in DOMAIN buckets'[t] : i \in Nat /\ buckets'[t][i] \in Workers
      BY <2>3
    <3>2. size' \in [Servers -> Int]
      BY <2>1
    <3>3. QED
      BY <2>1, <2>2, <3>1, <3>2
  <2>5. BucketsSound'
    <3> SUFFICES ASSUME NEW t \in Servers, NEW i \in DOMAIN buckets'[t]
                 PROVE  /\ pc'[buckets'[t][i]] # "new" /\ srv'[buckets'[t][i]] = t
                        /\ wid'[buckets'[t][i]] = i
      OBVIOUS
    <3>1. i \in DOMAIN buckets[t] /\ buckets'[t][i] = buckets[t][i]
      BY <2>3
    <3>2. UNCHANGED <<srv, uid, wid, pc>>
      BY <2>1
    <3>3. QED
      BY <3>1, <3>2
  <2>6. IdsUnique' /\ UidMapSound' /\ LookupSound'
    BY <2>1
  <2>7. QED
    BY <2>4, <2>5, <2>6
<1>13. CASE LookupUid
  <2>1. PICK u \in lookup.todo :
          lookup' = [lookup EXCEPT
            !.todo = lookup.todo \ {u},
            !.wids = IF UidKey(u) \in DOMAIN uidWidMap
                       THEN lookup.wids \cup {uidWidMap[UidKey(u)]} ELSE lookup.wids,
            !.pc = IF lookup.todo = {u} THEN "workers" ELSE "uids"]
    BY <1>13 DEF LookupUid
  <2>2. UNCHANGED <<counter, maps, work, past, kick>> /\ lookup.pc = "uids"
    BY <1>13 DEF LookupUid
  <2>3. u \in Uids /\ u \in lookup.asked
    OBVIOUS
  <2>4. /\ lookup'.op = lookup.op /\ lookup'.srv = lookup.srv /\ lookup'.asked = lookup.asked
        /\ lookup'.answer = lookup.answer /\ lookup'.todo = lookup.todo \ {u}
        /\ lookup'.pc \in {"workers", "uids"}
    BY <2>1
  <2>5. ASSUME NEW i \in lookup'.wids
        PROVE  \/ i \in lookup.wids
               \/ UidKey(u) \in DOMAIN uidWidMap /\ i = uidWidMap[UidKey(u)]
    BY <2>1
  <2>6. lookup'.wids \subseteq Nat
    BY <2>5
  <2>7. lookup' \in [pc : {"idle", "uids", "workers"}, op : {"one", "many"},
                     srv : Servers \cup {NoWorker}, asked : SUBSET Uids,
                     due : SUBSET Workers, todo : SUBSET Uids, wids : SUBSET Nat, answer : SUBSET (Uids \X Workers)]
    BY <2>1, <2>6
  <2>8. TypeOK'
    BY <2>2, <2>7
  <2>9. \A i \in lookup'.wids :
          \E w \in Workers : pc'[w] # "new" /\ wid'[w] = i /\ uid'[w] \in lookup'.asked
    <3> SUFFICES ASSUME NEW i \in lookup'.wids
                 PROVE  \E w \in Workers : pc[w] # "new" /\ wid[w] = i /\ uid[w] \in lookup.asked
      BY <2>2, <2>4
    <3>1. CASE i \in lookup.wids
      BY <3>1
    <3>2. CASE UidKey(u) \in DOMAIN uidWidMap /\ i = uidWidMap[UidKey(u)]
      BY <2>3, <3>2
    <3>3. QED
      BY <2>5, <3>1, <3>2
  <2>10. LookupSound'
    BY <2>2, <2>4, <2>9
  <2>11. IdsUnique' /\ BucketsSound' /\ UidMapSound'
    BY <2>2
  <2>12. QED
    BY <2>8, <2>10, <2>11
<1>14. CASE LookupWorker
  <2> DEFINE bucket == buckets[lookup.srv]
  <2>1. PICK i \in lookup.wids :
          lookup' = [lookup EXCEPT
            !.wids = lookup.wids \ {i},
            !.answer = IF i \in DOMAIN bucket
                         THEN lookup.answer \cup {<<AnswerKey(bucket[i]), bucket[i]>>}
                         ELSE lookup.answer]
    BY <1>14 DEF LookupWorker
  <2>2. UNCHANGED <<counter, maps, work, past, kick>> /\ lookup.pc = "workers"
    BY <1>14 DEF LookupWorker
  <2>3. /\ lookup'.op = lookup.op /\ lookup'.srv = lookup.srv /\ lookup'.asked = lookup.asked
        /\ lookup'.wids = lookup.wids \ {i} /\ lookup'.todo = lookup.todo
        /\ lookup'.pc = lookup.pc
    BY <2>1
  <2>4. lookup.srv \in Servers
    BY <2>2
  <2>5. ASSUME i \in DOMAIN bucket
        PROVE  LET w == bucket[i]
               IN  w \in Workers /\ srv[w] = lookup.srv /\ uid[w] = AnswerKey(w)
                   /\ uid[w] \in lookup.asked
    <3> DEFINE w == bucket[i]
    <3>1. w \in Workers /\ Named(w) /\ srv[w] = lookup.srv /\ wid[w] = i
      BY <2>4, <2>5
    <3>2. PICK v \in Workers : Named(v) /\ wid[v] = i /\ uid[v] \in lookup.asked
      OBVIOUS
    <3>3. v = w
      BY <3>1, <3>2
    <3>4. CASE lookup.op = "one"
      <4>1. PICK u \in Uids : lookup.asked = {u}
        BY <2>2, <3>4
      <4>2. AnswerKey(w) = u
        BY <3>4, <4>1 DEF AnswerKey
      <4>3. QED
        BY <3>1, <3>2, <3>3, <4>1, <4>2
    <3>5. CASE lookup.op # "one"
      BY <3>1, <3>2, <3>3, <3>5 DEF AnswerKey
    <3>6. QED
      BY <3>4, <3>5
  <2>6. ASSUME NEW a \in lookup'.answer
        PROVE  \/ a \in lookup.answer
               \/ i \in DOMAIN bucket /\ a = <<AnswerKey(bucket[i]), bucket[i]>>
    BY <2>1
  <2>7. ASSUME NEW a \in lookup'.answer
        PROVE  /\ a \in Uids \X Workers /\ uid[a[2]] = a[1]
               /\ a[1] \in lookup.asked /\ srv[a[2]] = lookup.srv
    <3>1. CASE a \in lookup.answer
      BY <3>1
    <3>2. CASE i \in DOMAIN bucket /\ a = <<AnswerKey(bucket[i]), bucket[i]>>
      BY <2>5, <3>2
    <3>3. QED
      BY <2>6, <3>1, <3>2
  <2>8. lookup'.answer \subseteq Uids \X Workers
    BY <2>7
  <2>9. lookup' \in [pc : {"idle", "uids", "workers"}, op : {"one", "many"},
                     srv : Servers \cup {NoWorker}, asked : SUBSET Uids,
                     due : SUBSET Workers, todo : SUBSET Uids, wids : SUBSET Nat, answer : SUBSET (Uids \X Workers)]
    BY <2>1, <2>8
  <2>10. TypeOK'
    BY <2>2, <2>9
  <2>11. LookupSound'
    BY <2>2, <2>3, <2>4, <2>7
  <2>12. IdsUnique' /\ BucketsSound' /\ UidMapSound'
    BY <2>2
  <2>13. QED
    BY <2>10, <2>11, <2>12
<1>15. CASE LookupReturn
  <2>1. TypeOK'
    BY <1>15 DEF LookupReturn, NoLookup
  <2>2. IdsUnique'
    BY <1>15 DEF LookupReturn, NoLookup
  <2>3. BucketsSound'
    BY <1>15 DEF LookupReturn, NoLookup
  <2>4. UidMapSound'
    BY <1>15 DEF LookupReturn, NoLookup
  <2>5. LookupSound'
    BY <1>15 DEF LookupReturn, NoLookup
  <2>6. QED
    BY <2>1, <2>2, <2>3, <2>4, <2>5
<1>16. QED
  BY <1>1, <1>2, <1>3, <1>4, <1>5, <1>6, <1>7, <1>8, <1>9, <1>10, <1>11, <1>12, <1>13, <1>14, <1>15 DEF Next

\* With servers of different net types, a lookup by uid never answers another
\* user's worker.
THEOREM LookupCorrect ==
  ASSUME DistinctNetTypes PROVE Spec => []LookupAnswersOwner
<1>1. LookupInv /\ [Next]_vars => LookupInv'
  BY LookupStep
<1>2. LookupInv => LookupAnswersOwner
  BY DEF LookupInv, LookupSound
<1>3. QED
  BY <1>1, <1>2, LookupInit, PTL DEF Spec

-----------------------------------------------------------------------------
(* Registry.                                                                  *)

RegistryInv == LookupInv /\ Unstored

\* What the steps rely on: the buckets as functions on the servers.
LEMMA BucketFacts ==
  ASSUME LookupInv, NEW s \in Servers, NEW i \in DOMAIN buckets[s]
  PROVE  /\ buckets[s][i] \in Workers /\ Named(buckets[s][i])
         /\ srv[buckets[s][i]] = s /\ wid[buckets[s][i]] = i
         /\ InBucket(buckets[s][i])
BY DEF LookupInv, TypeOK, BucketsSound, InBucket

\* An id is that of one worker.
LEMMA IdNamesWorker ==
  ASSUME LookupInv, NEW w \in Workers, Named(w)
  PROVE  WorkerOf(wid[w]) = w
BY DEF LookupInv, IdsUnique, WorkerOf, Named

\* A stored worker has a name.
LEMMA StoredIsNamed ==
  ASSUME LookupInv, NEW w \in Workers, InBucket(w)
  PROVE  Named(w)
BY DEF LookupInv, TypeOK, BucketsSound, InBucket

\* While workers keep their ids and users theirs in the map, everybody is found by
\* the same worker.
LEMMA LatestStable ==
  ASSUME LookupInv, LookupInv',
         \A w \in Workers : Named(w) => Named(w)' /\ wid'[w] = wid[w],
         NEW u \in Uids,
         (UidKey(u) \in DOMAIN uidWidMap') <=> (UidKey(u) \in DOMAIN uidWidMap),
         UidKey(u) \in DOMAIN uidWidMap => uidWidMap'[UidKey(u)] = uidWidMap[UidKey(u)]
  PROVE  latest'[u] = latest[u]
<1>1. CASE UidKey(u) \in DOMAIN uidWidMap
  <2>1. PICK w \in Workers : Named(w) /\ wid[w] = uidWidMap[UidKey(u)]
    BY <1>1 DEF LookupInv, UidMapSound, IdOf
  <2>2. Named(w)' /\ wid'[w] = uidWidMap'[UidKey(u)]
    BY <1>1, <2>1
  <2>3. WorkerOf(uidWidMap[UidKey(u)]) = w
    BY <2>1, IdNamesWorker
  <2>4. \A v \in Workers : Named(v)' /\ wid'[v] = wid'[w] => v = w
    BY <2>2 DEF LookupInv, IdsUnique
  <2>5. WorkerOf(uidWidMap[UidKey(u)])' = w
    BY <1>1, <2>2, <2>4 DEF WorkerOf, Named
  <2>6. QED
    BY <1>1, <2>3, <2>5 DEF latest
<1>2. CASE UidKey(u) \notin DOMAIN uidWidMap
  BY <1>2 DEF latest
<1>3. QED
  BY <1>1, <1>2

\* A step that leaves the maps, the names and the progress of every Put.
LEMMA Stutters ==
  ASSUME LookupInv, LookupInv',
         UNCHANGED <<buckets, uidWidMap, srv, uid, wid>>,
         \A w \in Workers : Named(w) => Named(w)', put' = put
  PROVE  UNCHANGED Abstract!registry
<1>1. \A u \in Uids : latest'[u] = latest[u]
  BY LatestStable
<1>2. latest' = latest
  BY <1>1 DEF latest
<1>3. here' = here
  BY DEF here, InBucket
<1>4. QED
  BY <1>2, <1>3 DEF Abstract!registry

-----------------------------------------------------------------------------
\* Deleting an id from a bucket removes the worker that is stored under it.
LEMMA DelBucketRemoves ==
  ASSUME LookupInv, LookupInv', NEW s \in Servers, NEW i \in Nat, DelBucket(s, i),
         UNCHANGED <<srv, uid, wid>>, \A w \in Workers : Named(w) => Named(w)', put' = put
  PROVE  [Abstract!Next]_(Abstract!registry)
<1>1. /\ buckets' = [buckets EXCEPT ![s] = Delete(buckets[s], i)] /\ uidWidMap' = uidWidMap
  BY DEF DelBucket
<1>2. \A u \in Uids : latest'[u] = latest[u]
  BY <1>1, LatestStable
<1>3. latest' = latest
  BY <1>2 DEF latest
<1>4. /\ \A t \in Servers \ {s} : buckets'[t] = buckets[t]
      /\ DOMAIN (buckets'[s]) = DOMAIN (buckets[s]) \ {i}
      /\ \A x \in DOMAIN (buckets[s]) \ {i} : buckets'[s][x] = buckets[s][x]
  BY <1>1 DEF LookupInv, TypeOK, Delete
<1>5. CASE i \in DOMAIN buckets[s]
  <2>1. PICK v \in Workers : /\ v = buckets[s][i]
                             /\ Named(v) /\ srv[v] = s /\ wid[v] = i /\ InBucket(v)
    BY <1>5, BucketFacts
  <2>2. ~ InBucket(v)'
    <3>1. i \notin DOMAIN (buckets'[s])
      BY <1>4
    <3>2. wid'[v] = i /\ srv'[v] = s
      BY <2>1
    <3>3. QED
      BY <3>1, <3>2 DEF InBucket
  <2>3. \A w \in Workers \ {v} : InBucket(w)' <=> InBucket(w)
    <3> SUFFICES ASSUME NEW w \in Workers, w # v PROVE InBucket(w)' <=> InBucket(w)
      OBVIOUS
    <3>1. srv[w] \in Servers
      BY DEF LookupInv, TypeOK
    <3>2. CASE srv[w] # s
      BY <1>4, <3>1, <3>2 DEF InBucket
    <3>3. CASE srv[w] = s /\ wid[w] # i
      BY <1>4, <3>3 DEF InBucket
    <3>4. CASE srv[w] = s /\ wid[w] = i
      <4>1. ~ InBucket(w)
        BY <2>1, <3>4 DEF InBucket
      <4>2. i \notin DOMAIN (buckets'[s]) /\ wid'[w] = i /\ srv'[w] = s
        BY <1>4, <3>4
      <4>3. ~ InBucket(w)'
        BY <4>2 DEF InBucket
      <4>4. QED
        BY <4>1, <4>3
    <3>5. QED
      BY <3>2, <3>3, <3>4
  <2>4. here' = here \ {v} /\ v \in here
    BY <2>1, <2>2, <2>3 DEF here
  <2>5. Abstract!Remove(v)
    BY <1>3, <2>4 DEF Abstract!Remove
  <2>6. QED
    BY <2>1, <2>5 DEF Abstract!Next
<1>6. CASE i \notin DOMAIN buckets[s]
  <2>1. \A w \in Workers : InBucket(w)' <=> InBucket(w)
    <3> SUFFICES ASSUME NEW w \in Workers PROVE InBucket(w)' <=> InBucket(w)
      OBVIOUS
    <3>1. srv[w] \in Servers
      BY DEF LookupInv, TypeOK
    <3>2. QED
      BY <1>4, <1>6, <3>1 DEF InBucket
  <2>2. here' = here
    BY <2>1 DEF here
  <2>3. QED
    BY <1>3, <2>2 DEF Abstract!registry
<1>7. QED
  BY <1>5, <1>6

-----------------------------------------------------------------------------
\* The id of a worker that is about to be stored stays free until it is.
LEMMA UnstoredStep ==
  ASSUME LookupInv, Unstored, [Next]_vars
  PROVE  Unstored'
<1> SUFFICES ASSUME NEW v \in Workers, pc'[v] = "putBucket" PROVE ~ InBucket(v)'
  BY DEF Unstored
<1> USE DEF Goto, maps, work
<1>1. ASSUME NEW w \in Workers, Accept(w) PROVE ~ InBucket(v)'
  <2>1. CASE v = w
    <3>1. pc[v] = "new" /\ buckets' = buckets /\ srv' = srv
      BY <1>1, <2>1 DEF Accept
    <3>2. srv[v] \in Servers
      BY DEF LookupInv, TypeOK
    <3>3. \A i \in DOMAIN buckets[srv[v]] : buckets[srv[v]][i] # v
      BY <3>1, <3>2, BucketFacts DEF Named
    <3>4. QED
      BY <3>1, <3>3 DEF InBucket
  <2>2. CASE v # w
    BY <1>1, <2>2 DEF Accept, Unstored, InBucket, LookupInv, TypeOK
  <2>3. QED
    BY <2>1, <2>2
<1>2. ASSUME NEW w \in Workers, PutBucket(w) PROVE ~ InBucket(v)'
  <2>1. v # w /\ pc[v] = "putBucket" /\ UNCHANGED <<srv, wid>>
    BY <1>2 DEF PutBucket, LookupInv, TypeOK
  <2>2. ~ InBucket(v) /\ srv[v] \in Servers /\ srv[w] \in Servers
    BY <2>1 DEF Unstored, LookupInv, TypeOK
  <2>3. CASE UNCHANGED buckets
    BY <2>1, <2>2, <2>3 DEF InBucket
  <2>4. CASE buckets' = [buckets EXCEPT ![srv[w]] = Store(buckets[srv[w]], wid[w], w)]
    <3>1. CASE srv[v] # srv[w]
      BY <2>1, <2>2, <2>4, <3>1 DEF InBucket, LookupInv, TypeOK
    <3>2. CASE srv[v] = srv[w]
      <4>1. buckets'[srv[v]] = Store(buckets[srv[v]], wid[w], w)
        BY <2>2, <2>4, <3>2 DEF LookupInv, TypeOK
      <4>2. QED
        BY <2>1, <2>2, <4>1 DEF InBucket, Store
    <3>3. QED
      BY <3>1, <3>2
  <2>5. QED
    BY <1>2, <2>3, <2>4 DEF PutBucket
<1>3. ASSUME NEW s \in Servers, NEW i, DelBucket(s, i), UNCHANGED <<srv, wid>>, pc[v] = "putBucket"
      PROVE  ~ InBucket(v)'
  <2>1. ~ InBucket(v) /\ srv[v] \in Servers
    BY <1>3 DEF Unstored, LookupInv, TypeOK
  <2>2. CASE srv[v] # s
    BY <1>3, <2>1, <2>2 DEF DelBucket, InBucket, LookupInv, TypeOK
  <2>3. CASE srv[v] = s
    <3>1. buckets'[srv[v]] = Delete(buckets[srv[v]], i)
      BY <1>3, <2>1, <2>3 DEF DelBucket, LookupInv, TypeOK
    <3>2. QED
      BY <1>3, <2>1, <3>1 DEF InBucket, Delete
  <2>4. QED
    BY <2>2, <2>3
<1>4. ASSUME NEW w \in Workers, WorkDelBucket(w) PROVE ~ InBucket(v)'
  <2>1. srv[w] \in Servers /\ UNCHANGED <<srv, wid>> /\ pc[v] = "putBucket"
    BY <1>4 DEF WorkDelBucket, LookupInv, TypeOK
  <2>2. QED
    BY <1>3, <1>4, <2>1 DEF WorkDelBucket
<1>5. CASE DisconnectDelBucket
  <2>1. kick.srv \in Servers /\ UNCHANGED <<srv, wid>> /\ pc[v] = "putBucket"
    BY <1>5 DEF DisconnectDelBucket, LookupInv, TypeOK, NoKick
  <2>2. QED
    BY <1>3, <1>5, <2>1 DEF DisconnectDelBucket
<1>6. ASSUME UNCHANGED <<buckets, srv, wid>>, pc[v] = "putBucket" PROVE ~ InBucket(v)'
  BY <1>6 DEF Unstored, InBucket
<1>7. ASSUME NEW w \in Workers, PutUid(w) \/ Leave(w) \/ WorkDelUid(w) PROVE ~ InBucket(v)'
  BY <1>6, <1>7 DEF PutUid, Leave, WorkDelUid, DelUid, LookupInv, TypeOK
<1>8. CASE DisconnectDelUid \/ LookupUid \/ LookupWorker \/ LookupReturn
  BY <1>6, <1>8 DEF DisconnectDelUid, DelUid, LookupUid, LookupWorker, LookupReturn
<1>9. ASSUME NEW s \in Servers,
             \/ \E i \in DOMAIN buckets[s] : DisconnectFind(s, i)
             \/ \E u \in Uids : LookupCall(s, "one", {u})
             \/ \E us \in SUBSET Uids : LookupCall(s, "many", us)
      PROVE  ~ InBucket(v)'
  BY <1>6, <1>9 DEF DisconnectFind, LookupCall
<1>10. CASE UNCHANGED vars
  BY <1>6, <1>10 DEF vars
<1>11. QED
  BY <1>1, <1>2, <1>4, <1>5, <1>7, <1>8, <1>9, <1>10 DEF Next

-----------------------------------------------------------------------------
\* Initially nobody is stored and nobody is found.
LEMMA RegistryInit == Init => Abstract!Init /\ Unstored
<1> SUFFICES ASSUME Init PROVE Abstract!Init /\ Unstored
  OBVIOUS
<1>1. put = [w \in Workers |-> "new"]
  BY DEF Init, put
<1>2. \A w \in Workers : ~ InBucket(w)
  BY DEF Init, InBucket, EmptyMap
<1>3. here = {}
  BY <1>2 DEF here
<1>4. latest = [u \in Uids |-> NoWorker]
  BY DEF Init, latest, EmptyMap
<1>5. QED
  BY <1>1, <1>2, <1>3, <1>4 DEF Init, Abstract!Init, Unstored

\* Accept gives a worker its id; nothing else changes.
LEMMA AcceptStutters ==
  ASSUME RegistryInv, RegistryInv', NEW w \in Workers, Accept(w)
  PROVE  UNCHANGED Abstract!registry
<1> USE DEF RegistryInv
<1>1. /\ pc[w] = "new" /\ pc' = [pc EXCEPT ![w] = "putBucket"]
      /\ UNCHANGED <<buckets, uidWidMap, srv, uid>>
      /\ \A v \in Workers \ {w} : wid'[v] = wid[v]
  BY DEF Accept, maps, LookupInv, TypeOK
<1>2. put' = put
  BY <1>1 DEF put, LookupInv, TypeOK
<1>3. \A v \in Workers : Named(v) => Named(v)' /\ wid'[v] = wid[v]
  BY <1>1 DEF Named, LookupInv, TypeOK
<1>4. \A u \in Uids : latest'[u] = latest[u]
  BY <1>1, <1>3, LatestStable
<1>5. latest' = latest
  BY <1>4 DEF latest
<1>6. ~ InBucket(w) /\ ~ InBucket(w)'
  <2>1. pc'[w] = "putBucket"
    BY <1>1 DEF LookupInv, TypeOK
  <2>2. ~ InBucket(w)'
    BY <2>1 DEF Unstored
  <2>3. QED
    BY <1>1, <2>2, StoredIsNamed DEF Named
<1>7. \A v \in Workers : InBucket(v)' <=> InBucket(v)
  BY <1>1, <1>6 DEF InBucket
<1>8. here' = here
  BY <1>7 DEF here
<1>9. QED
  BY <1>1, <1>2, <1>5, <1>8 DEF Abstract!registry

\* The first half of Put stores the worker: its id is free.
LEMMA PutBucketAdds ==
  ASSUME RegistryInv, RegistryInv', NEW w \in Workers, PutBucket(w)
  PROVE  Abstract!Add(w)
<1> USE DEF RegistryInv
<1>1. pc[w] = "putBucket" /\ srv[w] \in Servers /\ ~ InBucket(w)
  BY DEF PutBucket, Unstored, LookupInv, TypeOK
<1>2. wid[w] \notin DOMAIN buckets[srv[w]]
  <2> SUFFICES ASSUME wid[w] \in DOMAIN buckets[srv[w]] PROVE FALSE
    OBVIOUS
  <2>1. PICK v \in Workers : /\ v = buckets[srv[w]][wid[w]]
                             /\ Named(v) /\ wid[v] = wid[w] /\ InBucket(v)
    BY <1>1, BucketFacts
  <2>2. v = w
    BY <1>1, <2>1 DEF LookupInv, IdsUnique, Named
  <2>3. QED
    BY <1>1, <2>1, <2>2
<1>3. /\ buckets' = [buckets EXCEPT ![srv[w]] = Store(buckets[srv[w]], wid[w], w)]
      /\ pc' = [pc EXCEPT ![w] = "putUid"]
      /\ UNCHANGED <<uidWidMap, srv, uid, wid>>
  BY <1>2 DEF PutBucket, Goto
<1>4. put[w] = "new" /\ put' = [put EXCEPT ![w] = "stored"]
  BY <1>1, <1>3 DEF put, LookupInv, TypeOK
<1>5. \A v \in Workers : Named(v) => Named(v)' /\ wid'[v] = wid[v]
  BY <1>3 DEF Named, LookupInv, TypeOK
<1>6. \A u \in Uids : latest'[u] = latest[u]
  BY <1>3, <1>5, LatestStable
<1>7. latest' = latest
  BY <1>6 DEF latest
<1>8. /\ \A t \in Servers \ {srv[w]} : buckets'[t] = buckets[t]
      /\ DOMAIN (buckets'[srv[w]]) = DOMAIN (buckets[srv[w]]) \cup {wid[w]}
      /\ buckets'[srv[w]][wid[w]] = w
      /\ \A i \in DOMAIN (buckets[srv[w]]) : buckets'[srv[w]][i] = buckets[srv[w]][i]
  BY <1>1, <1>2, <1>3 DEF LookupInv, TypeOK, Store
<1>9. InBucket(w)'
  BY <1>3, <1>8 DEF InBucket
<1>10. \A v \in Workers \ {w} : InBucket(v)' <=> InBucket(v)
  <2> SUFFICES ASSUME NEW v \in Workers, v # w PROVE InBucket(v)' <=> InBucket(v)
    OBVIOUS
  <2>1. srv[v] \in Servers /\ UNCHANGED <<srv, wid>>
    BY <1>3 DEF LookupInv, TypeOK
  <2>2. CASE srv[v] # srv[w]
    BY <1>8, <2>1, <2>2 DEF InBucket
  <2>3. CASE srv[v] = srv[w]
    BY <1>2, <1>8, <2>1, <2>3 DEF InBucket
  <2>4. QED
    BY <2>2, <2>3
<1>11. here' = here \cup {w}
  BY <1>9, <1>10 DEF here
<1>12. QED
  BY <1>3, <1>4, <1>7, <1>11 DEF Abstract!Add

\* The second half of Put names it: the user is found by it from now on.
LEMMA PutUidNames ==
  ASSUME RegistryInv, RegistryInv', NEW w \in Workers, PutUid(w)
  PROVE  Abstract!Name(w)
<1> USE DEF RegistryInv
<1>1. /\ pc[w] = "putUid" /\ pc' = [pc EXCEPT ![w] = "registered"]
      /\ uidWidMap' = Store(uidWidMap, UidKey(uid[w]), wid[w])
      /\ UNCHANGED <<buckets, srv, uid, wid>>
  BY DEF PutUid, Goto
<1>2. put[w] = "stored" /\ put' = [put EXCEPT ![w] = "named"]
  BY <1>1 DEF put, LookupInv, TypeOK
<1>3. here' = here
  BY <1>1 DEF here, InBucket
<1>4. \A v \in Workers : Named(v) => Named(v)' /\ wid'[v] = wid[v]
  BY <1>1 DEF Named, LookupInv, TypeOK
<1>5. uid[w] \in Uids
  BY DEF LookupInv, TypeOK
<1>6. latest'[uid[w]] = w
  <2>1. UidKey(uid[w]) \in DOMAIN uidWidMap' /\ uidWidMap'[UidKey(uid[w])] = wid[w]
    BY <1>1 DEF Store
  <2>2. Named(w) /\ Named(w)'
    BY <1>1, <1>4 DEF Named
  <2>3. \A v \in Workers : Named(v)' /\ wid'[v] = wid'[w] => v = w
    BY <2>2 DEF LookupInv, IdsUnique
  <2>4. (CHOOSE v \in Workers : pc'[v] # "new" /\ wid'[v] = wid[w]) = w
    BY <1>1, <2>2, <2>3 DEF Named
  <2>5. QED
    BY <1>1, <1>5, <2>1, <2>4 DEF latest, WorkerOf
<1>7. \A u \in Uids \ {uid[w]} : latest'[u] = latest[u]
  <2> SUFFICES ASSUME NEW u \in Uids, u # uid[w] PROVE latest'[u] = latest[u]
    OBVIOUS
  <2>1. UidKey(u) # UidKey(uid[w])
    BY <1>5, UidKeyInjective
  <2>2. /\ (UidKey(u) \in DOMAIN uidWidMap') <=> (UidKey(u) \in DOMAIN uidWidMap)
        /\ UidKey(u) \in DOMAIN uidWidMap => uidWidMap'[UidKey(u)] = uidWidMap[UidKey(u)]
    BY <1>1, <2>1 DEF Store
  <2>3. QED
    BY <1>4, <2>2, LatestStable
<1>8. latest' = [latest EXCEPT ![uid[w]] = w]
  <2>1. latest = [u \in Uids |-> latest[u]] /\ latest' = [u \in Uids |-> latest'[u]]
    BY DEF latest
  <2>2. QED
    BY <1>5, <1>6, <1>7, <2>1
<1>9. QED
  BY <1>1, <1>2, <1>3, <1>8 DEF Abstract!Name

\* Del's uidWidMap.Delete(wid) finds no user's entry.
LEMMA DelUidKeepsUsers ==
  ASSUME NEW i, DelUid(i), NEW u \in Uids
  PROVE  /\ (UidKey(u) \in DOMAIN uidWidMap') <=> (UidKey(u) \in DOMAIN uidWidMap)
         /\ UidKey(u) \in DOMAIN uidWidMap => uidWidMap'[UidKey(u)] = uidWidMap[UidKey(u)]
<1>1. UidKey(u) # WidKey(i)
  BY DEF UidKey, WidKey
<1>2. QED
  BY <1>1 DEF DelUid, Delete

\* So it changes nothing that can be seen.
LEMMA DelUidStutters ==
  ASSUME LookupInv, LookupInv', NEW i, DelUid(i), UNCHANGED <<srv, uid, wid>>, put' = put,
         \A w \in Workers : Named(w) => Named(w)'
  PROVE  UNCHANGED Abstract!registry
<1>1. \A u \in Uids : latest'[u] = latest[u]
  BY DelUidKeepsUsers, LatestStable
<1>2. latest' = latest
  BY <1>1 DEF latest
<1>3. here' = here
  BY DEF here, InBucket, DelUid
<1>4. QED
  BY <1>2, <1>3 DEF Abstract!registry

-----------------------------------------------------------------------------
\* Every step of the maps is a step of the registry, or changes nothing of it.
LEMMA RegistryStep ==
  ASSUME RegistryInv, RegistryInv', [Next]_vars
  PROVE  [Abstract!Next]_(Abstract!registry)
<1> USE DEF Goto, maps, work
<1>1. ASSUME NEW w \in Workers, Accept(w) PROVE UNCHANGED Abstract!registry
  BY <1>1, AcceptStutters
<1>2. ASSUME NEW w \in Workers, PutBucket(w) PROVE Abstract!Next
  BY <1>2, PutBucketAdds DEF Abstract!Next
<1>3. ASSUME NEW w \in Workers, PutUid(w) PROVE Abstract!Next
  BY <1>3, PutUidNames DEF Abstract!Next
<1>4. ASSUME NEW w \in Workers, NEW from \in {"registered", "delUid", "delBucket"},
             NEW to \in {"delUid", "delBucket", "gone"}, pc[w] = from, Goto(w, to)
      PROVE  put' = put /\ \A v \in Workers : Named(v) => Named(v)'
  BY <1>4 DEF put, Named, RegistryInv, LookupInv, TypeOK
<1>5. ASSUME NEW w \in Workers, Leave(w) PROVE UNCHANGED Abstract!registry
  <2>1. put' = put /\ \A v \in Workers : Named(v) => Named(v)'
    BY <1>4, <1>5 DEF Leave
  <2>2. QED
    BY <1>5, <2>1, Stutters DEF Leave, RegistryInv
<1>6. ASSUME NEW w \in Workers, WorkDelUid(w) PROVE UNCHANGED Abstract!registry
  <2>1. put' = put /\ \A v \in Workers : Named(v) => Named(v)'
    BY <1>4, <1>6 DEF WorkDelUid
  <2>2. QED
    BY <1>6, <2>1, DelUidStutters DEF WorkDelUid, RegistryInv
<1>7. ASSUME NEW w \in Workers, WorkDelBucket(w) PROVE [Abstract!Next]_(Abstract!registry)
  <2>1. put' = put /\ \A v \in Workers : Named(v) => Named(v)'
    BY <1>4, <1>7 DEF WorkDelBucket
  <2>2. srv[w] \in Servers /\ wid[w] \in Nat
    BY DEF RegistryInv, LookupInv, TypeOK
  <2>3. DelBucket(srv[w], wid[w]) /\ UNCHANGED <<srv, uid, wid>>
    BY <1>7 DEF WorkDelBucket
  <2>4. QED
    BY <2>1, <2>2, <2>3, DelBucketRemoves DEF RegistryInv
<1>8. ASSUME UNCHANGED work PROVE put' = put /\ \A v \in Workers : Named(v) => Named(v)'
  BY <1>8 DEF put, Named
<1>9. ASSUME UNCHANGED <<maps, work>> PROVE UNCHANGED Abstract!registry
  BY <1>8, <1>9, Stutters DEF RegistryInv
<1>10. CASE DisconnectDelUid
  <2>1. DelUid(kick.wid) /\ UNCHANGED work
    BY <1>10 DEF DisconnectDelUid
  <2>2. QED
    BY <1>8, <2>1, DelUidStutters DEF RegistryInv
<1>11. CASE DisconnectDelBucket
  <2>1. kick.srv \in Servers /\ kick.wid \in Nat
    BY <1>11 DEF DisconnectDelBucket, RegistryInv, LookupInv, TypeOK, NoKick
  <2>2. DelBucket(kick.srv, kick.wid) /\ UNCHANGED work
    BY <1>11 DEF DisconnectDelBucket
  <2>3. QED
    BY <1>8, <2>1, <2>2, DelBucketRemoves DEF RegistryInv
<1>12. CASE LookupUid \/ LookupWorker \/ LookupReturn \/ UNCHANGED vars
  BY <1>9, <1>12 DEF LookupUid, LookupWorker, LookupReturn, vars
<1>13. ASSUME NEW s \in Servers,
              \/ \E i \in DOMAIN buckets[s] : DisconnectFind(s, i)
              \/ \E u \in Uids : LookupCall(s, "one", {u})
              \/ \E us \in SUBSET Uids : LookupCall(s, "many", us)
       PROVE  UNCHANGED Abstract!registry
  BY <1>9, <1>13 DEF DisconnectFind, LookupCall
<1>14. QED
  BY <1>1, <1>2, <1>3, <1>5, <1>6, <1>7, <1>10, <1>11, <1>12, <1>13 DEF Next

\* The maps of all servers implement the registry of workers that ServerPush steps
\* over, provided the net types differ: a user is found by the connection whose Put
\* named it last and by no older one, the name stays when that connection has left,
\* and the Del of one connection takes no other away.
THEOREM RegistryRefinement == ASSUME DistinctNetTypes PROVE Spec => ImplementsRegistry
<1>1. Init => RegistryInv /\ Abstract!Init
  BY LookupInit, RegistryInit DEF RegistryInv
<1>2. RegistryInv /\ [Next]_vars => RegistryInv'
  BY LookupStep, UnstoredStep DEF RegistryInv
<1>3. RegistryInv /\ RegistryInv' /\ [Next]_vars => [Abstract!Next]_(Abstract!registry)
  BY RegistryStep
<1>4. QED
  BY <1>1, <1>2, <1>3, PTL DEF Spec, ImplementsRegistry, Abstract!Spec

-----------------------------------------------------------------------------
(* What a lookup finds.                                                       *)

\* Deleting the id of another worker leaves a worker in its bucket.
LEMMA DelBucketKeeps ==
  ASSUME LookupInv, NEW s \in Servers, NEW i, DelBucket(s, i), UNCHANGED <<srv, wid>>,
         NEW w \in Workers, InBucket(w), wid[w] # i
  PROVE  InBucket(w)'
<1>1. srv[w] \in Servers /\ buckets = [t \in Servers |-> buckets[t]]
  BY DEF LookupInv, TypeOK
<1>2. /\ buckets'[s] = Delete(buckets[s], i)
      /\ \A t \in Servers : t # s => buckets'[t] = buckets[t]
  BY <1>1, OneBucket DEF DelBucket
<1>3. CASE srv[w] = s
  BY <1>2, <1>3 DEF InBucket, Delete
<1>4. CASE srv[w] # s
  BY <1>1, <1>2, <1>4 DEF InBucket
<1>5. QED
  BY <1>3, <1>4

\* Storing a worker under a free id leaves the others in their buckets.
LEMMA StoreKeeps ==
  ASSUME LookupInv, NEW v \in Workers, wid[v] \notin DOMAIN buckets[srv[v]],
         buckets' = [buckets EXCEPT ![srv[v]] = Store(buckets[srv[v]], wid[v], v)],
         UNCHANGED <<srv, wid>>
  PROVE  InBucket(v)' /\ \A w \in Workers : InBucket(w) => InBucket(w)'
<1>1. /\ srv[v] \in Servers /\ buckets = [t \in Servers |-> buckets[t]]
      /\ \A w \in Workers : srv[w] \in Servers
  BY DEF LookupInv, TypeOK
<1>2. /\ buckets'[srv[v]] = Store(buckets[srv[v]], wid[v], v)
      /\ \A t \in Servers : t # srv[v] => buckets'[t] = buckets[t]
  BY <1>1, OneBucket
<1>3. InBucket(v)'
  BY <1>2 DEF InBucket, Store
<1>4. ASSUME NEW w \in Workers, InBucket(w) PROVE InBucket(w)'
  <2>1. CASE srv[w] = srv[v]
    BY <1>2, <1>4, <2>1 DEF InBucket, Store
  <2>2. CASE srv[w] # srv[v]
    BY <1>1, <1>2, <1>4, <2>2 DEF InBucket
  <2>3. QED
    BY <2>1, <2>2
<1>5. QED
  BY <1>3, <1>4

\* A Disconnect in progress deletes no worker that is not past.
LEMMA KickIsPast ==
  ASSUME LookupInv, CurrentInv, kick.pc # "idle", NEW w \in Workers \ past, Named(w)
  PROVE  wid[w] # kick.wid
BY DEF LookupInv, TypeOK, IdsUnique, CurrentInv

LEMMA CurrentInit == Init => CurrentInv
BY DEF Init, CurrentInv, current, NoKick, NoLookup

\* The steps of the workers' goroutines.
LEMMA WorkKeepsCurrent ==
  ASSUME LookupInv, CurrentInv, NEW v \in Workers,
         Accept(v) \/ PutBucket(v) \/ PutUid(v) \/ Leave(v) \/ WorkDelUid(v) \/ WorkDelBucket(v)
  PROVE  CurrentInv'
<1> USE DEF Goto, maps, Settled, StillFound, Named
<1>0. TypeOK
  BY DEF LookupInv
<1>1. CASE Accept(v)
  <2>1. /\ pc[v] = "new" /\ pc' = [pc EXCEPT ![v] = "putBucket"]
        /\ \A w \in Workers \ {v} : wid'[w] = wid[w]
        /\ UNCHANGED <<buckets, uidWidMap, srv, uid, past, kick, lookup>>
    BY <1>0, <1>1 DEF Accept, TypeOK
  <2>2. current' = current /\ v \notin current
    BY <1>0, <2>1 DEF current, TypeOK
  <2>3. kick.pc # "idle" => \E x \in past : Named(x)' /\ wid'[x] = kick.wid
    BY <1>0, <2>1 DEF CurrentInv, TypeOK
  <2>4. \A w \in Workers \ past : pc'[w] \in {"putUid", "registered"} => InBucket(w)'
    <3> SUFFICES ASSUME NEW w \in Workers \ past, pc'[w] \in {"putUid", "registered"}
                 PROVE  InBucket(w)'
      OBVIOUS
    <3>1. w # v /\ pc'[w] = pc[w]
      BY <1>0, <2>1 DEF TypeOK
    <3>2. InBucket(w)
      BY <3>1 DEF CurrentInv
    <3>3. QED
      BY <2>1, <3>1, <3>2 DEF InBucket
  <2>5. \A w \in lookup.due : w # v /\ Settled(w)'
    BY <1>0, <2>1 DEF CurrentInv, TypeOK
  <2>6. \A w \in current : w \in Workers /\ w # v
    BY <2>2 DEF current
  <2>7. QED
    BY <2>1, <2>2, <2>3, <2>4, <2>5, <2>6 DEF CurrentInv
<1>2. CASE PutBucket(v)
  <2>1. /\ pc[v] = "putBucket" /\ UNCHANGED <<uidWidMap, srv, uid, wid, kick, lookup>>
        /\ \A w \in Workers \ {v} : pc'[w] = pc[w]
    BY <1>0, <1>2 DEF PutBucket, TypeOK
  <2>2. past \subseteq past' /\ pc'[v] \in {"registered", "putUid"}
    BY <1>0, <1>2 DEF PutBucket, TypeOK
  <2>3. \A w \in Workers \ past' : pc'[w] \in {"putUid", "registered"} => InBucket(w)'
    <3>1. CASE wid[v] \in DOMAIN buckets[srv[v]]
      <4>1. past' = past \cup {v} /\ buckets' = buckets
        BY <1>2, <3>1 DEF PutBucket
      <4>2. QED
        BY <2>1, <4>1 DEF CurrentInv, InBucket
    <3>2. CASE wid[v] \notin DOMAIN buckets[srv[v]]
      <4>1. /\ buckets' = [buckets EXCEPT ![srv[v]] = Store(buckets[srv[v]], wid[v], v)]
            /\ past' = past
        BY <1>2, <3>2 DEF PutBucket
      <4>2. InBucket(v)' /\ \A w \in Workers : InBucket(w) => InBucket(w)'
        BY <2>1, <3>2, <4>1, StoreKeeps
      <4>3. QED
        BY <2>1, <4>1, <4>2 DEF CurrentInv
    <3>3. QED
      BY <3>1, <3>2
  <2>4. current' \subseteq current
    <3>1. v \notin current'
      BY <1>0, <1>2 DEF PutBucket, current, TypeOK
    <3>2. QED
      BY <2>1, <2>2, <3>1 DEF current
  <2>5. \A w \in lookup.due : Settled(w)'
    BY <1>0, <2>1 DEF CurrentInv, TypeOK
  <2>6. kick.pc # "idle" => \E x \in past' : Named(x)' /\ wid'[x] = kick.wid
    BY <1>0, <2>1, <2>2 DEF CurrentInv, TypeOK
  <2>7. QED
    BY <2>1, <2>3, <2>4, <2>5, <2>6 DEF CurrentInv
<1>3. CASE PutUid(v)
  <2>1. /\ pc[v] = "putUid" /\ pc' = [pc EXCEPT ![v] = "registered"]
        /\ uidWidMap' = Store(uidWidMap, UidKey(uid[v]), wid[v])
        /\ past' = past \cup {w \in Workers : pc[w] = "registered" /\ uid[w] = uid[v]}
        /\ UNCHANGED <<buckets, srv, uid, wid, kick, lookup>>
    BY <1>3 DEF PutUid
  <2>2. \A w \in current' \ {v} : w \in current /\ uid[w] # uid[v]
    BY <1>0, <2>1 DEF current, TypeOK
  <2>3. \A w \in Workers \ past' : pc'[w] \in {"putUid", "registered"} => InBucket(w)'
    <3>1. \A w \in Workers : InBucket(w)' <=> InBucket(w)
      BY <2>1 DEF InBucket
    <3>2. \A w \in Workers : pc'[w] = pc[w] \/ (pc[w] = "putUid" /\ pc'[w] = "registered")
      BY <1>0, <2>1 DEF TypeOK
    <3>3. past \subseteq past'
      BY <2>1
    <3>4. QED
      BY <3>1, <3>2, <3>3 DEF CurrentInv
  <2>4. \A w \in current' : /\ UidKey(uid[w]) \in DOMAIN uidWidMap'
                            /\ uidWidMap'[UidKey(uid[w])] = wid[w]
    <3> SUFFICES ASSUME NEW w \in current'
                 PROVE  /\ UidKey(uid[w]) \in DOMAIN uidWidMap'
                        /\ uidWidMap'[UidKey(uid[w])] = wid[w]
      OBVIOUS
    <3>1. CASE w = v
      BY <2>1, <3>1 DEF Store
    <3>2. CASE w # v
      <4>1. w \in current /\ w \in Workers /\ uid[w] # uid[v]
        BY <2>2, <3>2 DEF current
      <4>2. UidKey(uid[w]) # UidKey(uid[v])
        BY <1>0, <4>1, UidKeyInjective DEF TypeOK
      <4>3. UidKey(uid[w]) \in DOMAIN uidWidMap /\ uidWidMap[UidKey(uid[w])] = wid[w]
        BY <4>1 DEF CurrentInv
      <4>4. QED
        BY <2>1, <4>2, <4>3 DEF Store
    <3>3. QED
      BY <3>1, <3>2
  <2>5. \A w \in lookup.due : w # v /\ Settled(w)'
    BY <1>0, <2>1 DEF CurrentInv, TypeOK
  <2>6. kick.pc # "idle" => \E x \in past' : Named(x)' /\ wid'[x] = kick.wid
    BY <1>0, <2>1 DEF CurrentInv, TypeOK
  <2>7. QED
    BY <2>1, <2>2, <2>3, <2>4, <2>5, <2>6 DEF CurrentInv
<1>4. ASSUME pc[v] \in {"registered", "delUid", "delBucket"},
             pc' = [pc EXCEPT ![v] = pc'[v]], pc'[v] \in {"delUid", "delBucket", "gone"},
             UNCHANGED <<srv, uid, wid, past, kick, lookup>>,
             \A w \in Workers \ {v} : Named(w) /\ InBucket(w) => InBucket(w)',
             \A u \in Uids : UidKey(u) \in DOMAIN uidWidMap =>
               UidKey(u) \in DOMAIN uidWidMap' /\ uidWidMap'[UidKey(u)] = uidWidMap[UidKey(u)]
      PROVE  CurrentInv'
  <2>1. current' \subseteq current /\ v \notin current'
    BY <1>0, <1>4 DEF current, TypeOK
  <2>2. \A w \in Workers \ past : pc'[w] \in {"putUid", "registered"} => InBucket(w)'
    BY <1>0, <1>4 DEF CurrentInv, TypeOK
  <2>3. \A w \in lookup.due : Settled(w)'
    BY <1>0, <1>4 DEF CurrentInv, TypeOK
  <2>4. kick.pc # "idle" => \E x \in past : Named(x)' /\ wid'[x] = kick.wid
    BY <1>0, <1>4 DEF CurrentInv, TypeOK
  <2>5. \A w \in current' : uid[w] \in Uids
    BY <1>0, <2>1 DEF current, TypeOK
  <2>6. QED
    BY <1>4, <2>1, <2>2, <2>3, <2>4, <2>5 DEF CurrentInv
<1>5. CASE Leave(v)
  BY <1>0, <1>4, <1>5 DEF Leave, InBucket, TypeOK
<1>6. CASE WorkDelUid(v)
  <2>1. DelUid(wid[v])
    BY <1>6 DEF WorkDelUid
  <2>2. \A u \in Uids : UidKey(u) \in DOMAIN uidWidMap =>
          UidKey(u) \in DOMAIN uidWidMap' /\ uidWidMap'[UidKey(u)] = uidWidMap[UidKey(u)]
    BY <2>1, DelUidKeepsUsers
  <2>3. QED
    BY <1>0, <1>4, <1>6, <2>2 DEF WorkDelUid, DelUid, InBucket, TypeOK
<1>7. CASE WorkDelBucket(v)
  <2>1. /\ pc[v] = "delBucket" /\ DelBucket(srv[v], wid[v]) /\ srv[v] \in Servers
        /\ pc' = [pc EXCEPT ![v] = "gone"] /\ UNCHANGED <<srv, uid, wid, past, kick, lookup>>
        /\ uidWidMap' = uidWidMap
    BY <1>0, <1>7 DEF WorkDelBucket, DelBucket, TypeOK
  <2>2. \A w \in Workers \ {v} : Named(w) => wid[w] # wid[v]
    BY <2>1 DEF LookupInv, IdsUnique
  <2>3. \A w \in Workers \ {v} : Named(w) /\ InBucket(w) => InBucket(w)'
    BY <2>1, <2>2, DelBucketKeeps
  <2>4. QED
    BY <1>0, <1>4, <2>1, <2>3 DEF TypeOK
<1>8. QED
  BY <1>1, <1>2, <1>3, <1>5, <1>6, <1>7

\* The steps of Disconnect: they touch only past workers.
LEMMA DisconnectKeepsCurrent ==
  ASSUME LookupInv, CurrentInv,
         \/ \E s \in Servers : \E i \in DOMAIN buckets[s] : DisconnectFind(s, i)
         \/ DisconnectDelUid \/ DisconnectDelBucket
  PROVE  CurrentInv'
<1> USE DEF maps, work, Settled, StillFound, Named
<1>0. TypeOK
  BY DEF LookupInv
<1>1. ASSUME NEW s \in Servers, NEW i \in DOMAIN buckets[s], DisconnectFind(s, i)
      PROVE  CurrentInv'
  <2>1. /\ kick' = [pc |-> "delUid", srv |-> s, wid |-> i]
        /\ past' = past \cup {buckets[s][i]}
        /\ UNCHANGED <<buckets, uidWidMap, srv, uid, wid, pc, lookup>>
    BY <1>1 DEF DisconnectFind
  <2>2. Named(buckets[s][i]) /\ wid[buckets[s][i]] = i
    BY BucketFacts
  <2>3. current' \subseteq current
    BY <2>1 DEF current
  <2>4. \E x \in past' : Named(x)' /\ wid'[x] = kick'.wid
    BY <2>1, <2>2
  <2>5. \A w \in Workers \ past' : pc'[w] \in {"putUid", "registered"} => InBucket(w)'
    BY <2>1 DEF CurrentInv, InBucket
  <2>6. QED
    BY <2>1, <2>3, <2>4, <2>5 DEF CurrentInv
<1>2. CASE DisconnectDelUid
  <2>1. /\ kick.pc = "delUid" /\ DelUid(kick.wid) /\ kick'.wid = kick.wid
        /\ UNCHANGED <<buckets, srv, uid, wid, pc, past, lookup>>
    BY <1>0, <1>2 DEF DisconnectDelUid, DelUid, TypeOK, NoKick
  <2>2. \A u \in Uids : UidKey(u) \in DOMAIN uidWidMap =>
          UidKey(u) \in DOMAIN uidWidMap' /\ uidWidMap'[UidKey(u)] = uidWidMap[UidKey(u)]
    BY <2>1, DelUidKeepsUsers
  <2>3. current' = current /\ \A w \in current : uid[w] \in Uids
    BY <1>0, <2>1 DEF current, TypeOK
  <2>4. \A w \in Workers : InBucket(w)' <=> InBucket(w)
    BY <2>1 DEF InBucket
  <2>5. \E x \in past' : Named(x)' /\ wid'[x] = kick'.wid
    BY <2>1 DEF CurrentInv
  <2>6. QED
    BY <2>1, <2>2, <2>3, <2>4, <2>5 DEF CurrentInv
<1>3. CASE DisconnectDelBucket
  <2>1. /\ kick.pc = "delBucket" /\ kick.srv \in Servers /\ DelBucket(kick.srv, kick.wid)
        /\ kick' = NoKick /\ UNCHANGED <<uidWidMap, srv, uid, wid, pc, past, lookup>>
    <3>1. kick.pc = "delBucket"
      BY <1>3 DEF DisconnectDelBucket
    <3>2. kick.srv \in Servers
      BY <1>0, <3>1 DEF TypeOK, NoKick
    <3>3. QED
      BY <1>3, <3>1, <3>2 DEF DisconnectDelBucket, DelBucket
  <2>2. \A w \in Workers \ past : pc[w] \in {"putUid", "registered"} => InBucket(w)'
    <3> SUFFICES ASSUME NEW w \in Workers \ past, pc[w] \in {"putUid", "registered"}
                 PROVE  InBucket(w)'
      OBVIOUS
    <3>1. InBucket(w) /\ Named(w)
      BY DEF CurrentInv
    <3>2. wid[w] # kick.wid
      BY <2>1, <3>1, KickIsPast
    <3>3. QED
      BY <2>1, <3>1, <3>2, DelBucketKeeps
  <2>3. current' = current
    BY <2>1 DEF current
  <2>4. QED
    BY <2>1, <2>2, <2>3 DEF CurrentInv, NoKick
<1>4. QED
  BY <1>1, <1>2, <1>3

\* The steps of a lookup: an owed worker goes from the uids to the ids, and from the
\* ids to the answer.
LEMMA LookupKeepsCurrent ==
  ASSUME LookupInv, CurrentInv,
         \/ \E s \in Servers : \/ \E u \in Uids : LookupCall(s, "one", {u})
                               \/ \E us \in SUBSET Uids : LookupCall(s, "many", us)
         \/ LookupUid \/ LookupWorker \/ LookupReturn
  PROVE  CurrentInv'
<1> USE DEF maps, work, Settled, Named
<1>0. TypeOK
  BY DEF LookupInv
<1>1. /\ UNCHANGED <<buckets, uidWidMap, srv, uid, wid, pc, past, kick>>
      /\ current' = current /\ \A w \in Workers : InBucket(w)' <=> InBucket(w)
  BY DEF LookupCall, LookupUid, LookupWorker, LookupReturn, current, InBucket
<1>2. SUFFICES /\ \A w \in lookup'.due : Settled(w)
               /\ \A w \in lookup'.due \cap current :
                    srv[w] = lookup'.srv /\ uid[w] \in lookup'.asked => StillFound(w)'
               /\ lookup'.pc = "workers" => lookup'.todo = {}
  BY <1>1 DEF CurrentInv
<1>3. ASSUME NEW s \in Servers, NEW op, NEW us, LookupCall(s, op, us)
      PROVE  /\ \A w \in lookup'.due : Settled(w)
             /\ \A w \in lookup'.due \cap current :
                  srv[w] = lookup'.srv /\ uid[w] \in lookup'.asked => StillFound(w)'
             /\ lookup'.pc = "workers" => lookup'.todo = {}
  <2>1. /\ lookup'.due = current /\ lookup'.asked = us /\ lookup'.todo = us
        /\ lookup'.pc = IF us = {} THEN "workers" ELSE "uids"
    BY <1>3 DEF LookupCall, NoLookup
  <2>2. QED
    BY <1>1, <2>1 DEF current, StillFound
<1>4. CASE LookupUid
  <2>1. PICK u \in lookup.todo :
          lookup' = [lookup EXCEPT
            !.todo = lookup.todo \ {u},
            !.wids = IF UidKey(u) \in DOMAIN uidWidMap
                       THEN lookup.wids \cup {uidWidMap[UidKey(u)]} ELSE lookup.wids,
            !.pc = IF lookup.todo = {u} THEN "workers" ELSE "uids"]
    BY <1>4 DEF LookupUid
  <2>2. /\ lookup'.due = lookup.due /\ lookup'.asked = lookup.asked
        /\ lookup'.srv = lookup.srv /\ lookup'.answer = lookup.answer
        /\ lookup'.todo = lookup.todo \ {u} /\ lookup.wids \subseteq lookup'.wids
        /\ UidKey(u) \in DOMAIN uidWidMap => uidWidMap[UidKey(u)] \in lookup'.wids
        /\ lookup'.pc = IF lookup.todo = {u} THEN "workers" ELSE "uids"
    BY <1>0, <2>1 DEF TypeOK
  <2>3. ASSUME NEW w \in lookup.due \cap current, srv[w] = lookup.srv, uid[w] \in lookup.asked
        PROVE  StillFound(w)'
    <3>1. StillFound(w) /\ UidKey(uid[w]) \in DOMAIN uidWidMap
          /\ uidWidMap[UidKey(uid[w])] = wid[w]
      BY <2>3 DEF CurrentInv
    <3>2. QED
      BY <1>1, <2>2, <3>1 DEF StillFound
  <2>4. QED
    BY <2>2, <2>3 DEF CurrentInv
<1>5. CASE LookupWorker
  <2> DEFINE bucket == buckets[lookup.srv]
  <2>1. PICK i \in lookup.wids :
          lookup' = [lookup EXCEPT
            !.wids = lookup.wids \ {i},
            !.answer = IF i \in DOMAIN bucket
                         THEN lookup.answer \cup {<<AnswerKey(bucket[i]), bucket[i]>>}
                         ELSE lookup.answer]
    BY <1>5 DEF LookupWorker
  <2>2. /\ lookup'.due = lookup.due /\ lookup'.asked = lookup.asked
        /\ lookup'.srv = lookup.srv /\ lookup'.todo = lookup.todo /\ lookup'.pc = lookup.pc
        /\ lookup'.wids = lookup.wids \ {i} /\ lookup.answer \subseteq lookup'.answer
        /\ i \in DOMAIN bucket => <<AnswerKey(bucket[i]), bucket[i]>> \in lookup'.answer
    BY <1>0, <2>1 DEF TypeOK
  <2>3. ASSUME NEW w \in lookup.due \cap current, srv[w] = lookup.srv, uid[w] \in lookup.asked
        PROVE  StillFound(w)'
    <3>1. StillFound(w) /\ InBucket(w)
      BY <2>3 DEF CurrentInv, current
    <3>2. CASE wid[w] = i
      <4>1. i \in DOMAIN bucket /\ bucket[i] = w
        BY <2>3, <3>1, <3>2 DEF InBucket
      <4>2. AnswerKey(w) = uid[w]
        <5>1. CASE lookup.op = "one"
          <6>1. PICK u \in Uids : lookup.asked = {u}
            BY <1>5, <5>1 DEF LookupWorker, LookupInv, LookupSound
          <6>2. QED
            BY <2>3, <5>1, <6>1 DEF AnswerKey
        <5>2. CASE lookup.op # "one"
          BY <5>2 DEF AnswerKey
        <5>3. QED
          BY <5>1, <5>2
      <4>3. <<uid[w], w>> \in lookup'.answer
        BY <2>2, <4>1, <4>2
      <4>4. QED
        BY <1>1, <4>3 DEF StillFound
    <3>3. CASE wid[w] # i
      BY <1>1, <2>2, <3>1, <3>3 DEF StillFound
    <3>4. QED
      BY <3>2, <3>3
  <2>4. QED
    BY <2>2, <2>3 DEF CurrentInv
<1>6. CASE LookupReturn
  BY <1>6 DEF LookupReturn, NoLookup
<1>7. QED
  BY <1>3, <1>4, <1>5, <1>6

\* With servers of different net types, a lookup by uid answers whoever has been its
\* user's current connection on that server since the call began.
THEOREM LookupComplete ==
  ASSUME DistinctNetTypes PROVE Spec => []LookupFinds
<1>1. LookupInv /\ CurrentInv /\ [Next]_vars => CurrentInv'
  <2> SUFFICES ASSUME LookupInv, CurrentInv, [Next]_vars PROVE CurrentInv'
    OBVIOUS
  <2>1. CASE UNCHANGED vars
    BY <2>1 DEF vars, maps, work, CurrentInv, current, InBucket, Settled, StillFound, Named
  <2>2. QED
    BY <2>1, WorkKeepsCurrent, DisconnectKeepsCurrent, LookupKeepsCurrent DEF Next
<1>2. LookupInv /\ [Next]_vars => LookupInv'
  BY LookupStep
<1>3. CurrentInv => LookupFinds
  BY DEF CurrentInv, LookupFinds, StillFound
<1>4. QED
  BY <1>1, <1>2, <1>3, LookupInit, CurrentInit, PTL DEF Spec

=============================================================================
