----------------------------- MODULE ServerPush -----------------------------
(***************************************************************************)
(* Push, Multicast and Broadcast of internal/server.go: the registry         *)
(* (Registry.tla) composed with the sendChan of every worker and the         *)
(* lifecycle that closes it (Worker.tla has the rest of the worker).         *)
(*                                                                          *)
(* A caller makes one call; its pack is named after it.  The lookups and the *)
(* pushes of a call are steps of their own, so that workers come, leave and  *)
(* are stopped between them.                                                 *)
(***************************************************************************)
EXTENDS Registry, Naturals

CONSTANTS
  Callers,   \* goroutines of the application
  Audiences, \* for the colors and sids broadcast to: the workers whose session has both
  UserMaps,  \* the users the workers may be of
  ChanSize,  \* conf.ReplyChanSize
  MaxOthers  \* bound: packs that tunnels push

ASSUME PushAssumption ==
  /\ Audiences \subseteq SUBSET Workers /\ UserMaps \subseteq [Workers -> Uids]
  /\ ChanSize \in Nat \ {0} /\ MaxOthers \in Nat

VARIABLES
  stopping,  \* OnStopping of the server
  off,       \* per worker: "no", "stopping" (OnStopping), "closed" (its sendChan)
  running,   \* per worker: its sendLoop has not ended
  queued,    \* per worker: how many packs are in its sendChan
  others,    \* number of packs that tunnels have pushed
  got,       \* per worker and caller: how often Push has accepted the pack
  call,      \* per caller: its call
  owed       \* per caller: who was to be reached when the call began, and ever since

workers == <<off, running, queued, others, got>>
vars == <<registry, stopping, workers, call, owed>>

Ops == {"push", "multicast", "broadcast"}

NoCall == [pc |-> "idle", op |-> "push", uids |-> {}, match |-> {}, todo |-> {},
           ids |-> {}, targets |-> {}, at |-> NoWorker]

PushInit ==
  /\ Init /\ uid \in UserMaps
  /\ stopping = FALSE
  /\ off = [w \in Workers |-> "no"]
  /\ running = [w \in Workers |-> TRUE]
  /\ queued = [w \in Workers |-> 0]
  /\ others = 0
  /\ got = [w \in Workers |-> [c \in Callers |-> 0]]
  /\ call = [c \in Callers |-> NoCall]
  /\ owed = [c \in Callers |-> {}]

\* The workers ws are no longer owed the packs of the calls that Concerned names.
Forgive(ws, Concerned(_)) ==
  owed' = [c \in Callers |-> IF Concerned(call[c].op) THEN owed[c] \ ws ELSE owed[c]]

AnyOp(op) == op \in Ops
ByUid(op) == op # "broadcast"

-----------------------------------------------------------------------------
(* The workers: BaseServer.work, Disconnect and Stop.                          *)

\* Put: the bucket, then the uid, which hides an older connection of the user.
WorkerAdds(w) == Add(w) /\ UNCHANGED <<stopping, workers, call, owed>>

WorkerNames(w) ==
  /\ Name(w)
  /\ Forgive({v \in Workers \ {w} : uid[v] = uid[w]}, ByUid)
  /\ UNCHANGED <<stopping, workers, call>>

\* sendLoop takes a pack from sendChan and writes it.
LoopWrites(w) ==
  /\ put[w] = "named" /\ running[w]
  /\ queued[w] > 0
  /\ queued' = [queued EXCEPT ![w] = @ - 1]
  /\ UNCHANGED <<registry, stopping, off, running, others, got, call, owed>>

\* sendLoop ends, or never starts: a write or the AfterConnect hook fails, the
\* peer leaves, the worker is stopped.
LoopEnds(w) ==
  /\ put[w] = "named" /\ running[w]
  /\ running' = [running EXCEPT ![w] = FALSE]
  /\ UNCHANGED <<registry, stopping, off, queued, others, got, call, owed>>

\* A tunnel of the worker pushes to it.
TunnelPushes(w) ==
  /\ put[w] = "named" /\ others < MaxOthers
  /\ off[w] = "no"
  /\ queued[w] < ChanSize
  /\ others' = others + 1
  /\ queued' = [queued EXCEPT ![w] = @ + 1]
  /\ UNCHANGED <<registry, stopping, off, running, got, call, owed>>

\* Del: by Disconnect at any time, or by work when Run has returned.
WorkerRemoved(w) ==
  /\ ~ running[w] \/ ~ stopping
  /\ Remove(w)
  /\ Forgive({w}, AnyOp)
  /\ UNCHANGED <<stopping, workers, call>>

\* Worker.Stop: after the Del of either, or by the Walk of the server's Stop.
WorkerStops(w) ==
  /\ put[w] # "new"
  /\ w \notin here \/ stopping
  /\ off[w] = "no"
  /\ off' = [off EXCEPT ![w] = "stopping"]
  /\ Forgive({w}, AnyOp)
  /\ UNCHANGED <<registry, stopping, running, queued, others, got, call>>

\* Worker.Stop: close(w.sendChan)
WorkerCloses(w) ==
  /\ off[w] = "stopping"
  /\ off' = [off EXCEPT ![w] = "closed"]
  /\ UNCHANGED <<registry, stopping, running, queued, others, got, call, owed>>

ServerStops ==
  /\ ~ stopping
  /\ stopping' = TRUE
  /\ UNCHANGED <<registry, workers, call, owed>>

-----------------------------------------------------------------------------
(* The calls.                                                                 *)

\* Only the addressing of a call that has ended is kept.
Ended(c, pc) ==
  [NoCall EXCEPT !.pc = pc, !.op = call[c].op, !.uids = call[c].uids, !.match = call[c].match]

Step(c, to) == call' = [call EXCEPT ![c] = to] /\ UNCHANGED <<registry, stopping, workers>>

\* The workers a call is for: those found by the uids, or those that match.
Addressees(op, us, ws) ==
  {w \in here : /\ off[w] = "no"
                /\ IF ByUid(op) THEN uid[w] \in us /\ latest[uid[w]] = w ELSE w \in ws}

\* The call is refused: the server is stopping, or the pack is empty.
Refuse(c) ==
  /\ call[c].pc = "idle"
  /\ Step(c, [NoCall EXCEPT !.pc = "refused"]) /\ UNCHANGED owed

First(op, us) == IF ~ ByUid(op) THEN "walk" ELSE IF us = {} THEN "buckets" ELSE "uids"

\* The call begins, for the users us or for the workers ws that match; targets of
\* a Walk are the workers there when it begins.
Begin(c, op, us, ws) ==
  /\ call[c].pc = "idle" /\ ~ stopping
  /\ Step(c, [NoCall EXCEPT !.pc = First(op, us),
                            !.op = op, !.uids = us, !.match = ws, !.todo = us,
                            !.targets = IF ByUid(op) THEN {} ELSE here])
  /\ owed' = [owed EXCEPT ![c] = Addressees(op, us, ws)]

\* GetByUID, GetByUIDs: uidWidMap.Load, for one uid after the other.
LoadUid(c, u) ==
  /\ call[c].pc = "uids"
  /\ u \in call[c].todo
  /\ Step(c, [call[c] EXCEPT !.todo = @ \ {u},
                             !.ids = @ \cup ({latest[u]} \ {NoWorker}),
                             !.pc = IF call[c].todo = {u} THEN "buckets" ELSE "uids"])
  /\ UNCHANGED owed

\* GetByUID, GetByUIDs: bucket.Load, for one id after the other.
LoadWorker(c, w) ==
  /\ call[c].pc = "buckets"
  /\ w \in call[c].ids
  /\ Step(c, [call[c] EXCEPT !.ids = @ \ {w}, !.targets = @ \cup ({w} \cap here)])
  /\ UNCHANGED owed

\* The next worker of the result, in any order: it is a map.
NextTarget(c, w) ==
  /\ call[c].pc = "buckets" /\ call[c].ids = {}
  /\ w \in call[c].targets
  /\ Step(c, [call[c] EXCEPT !.targets = @ \ {w}, !.at = w, !.pc = "check"])
  /\ UNCHANGED owed

\* Mutant of Found: Range may find a worker twice.
FoundAgain(c) == here

\* Whom Walk can still find; ids holds those it has found.
Found(c) == here \ call[c].ids

\* Broadcast: Walk finds a worker and pushes to it if its session matches.
WalkFinds(c, w) ==
  /\ call[c].pc = "walk"
  /\ w \in Found(c)
  /\ Step(c, [call[c] EXCEPT !.ids = @ \cup {w},
                             !.at = IF w \in call[c].match THEN w ELSE NoWorker,
                             !.pc = IF w \in call[c].match THEN "check" ELSE "walk"])
  /\ UNCHANGED owed

\* Where a call goes on after the push to one worker.
Onward(c) == IF ByUid(call[c].op) THEN "buckets" ELSE "walk"

\* Mutant of ErrorEnds: the loop over the workers ends at the first error.
ErrorEndsAll(c) == TRUE

\* A failed Push ends the call of Push; Multicast and Broadcast drop the error.
ErrorEnds(c) == call[c].op = "push"

\* Worker.Push looks at OnStopping.
PushChecks(c) ==
  /\ call[c].pc = "check"
  /\ Step(c, IF off[call[c].at] = "no" THEN [call[c] EXCEPT !.pc = "send"]
             ELSE IF ErrorEnds(c) THEN Ended(c, "returned")
             ELSE [call[c] EXCEPT !.pc = Onward(c), !.at = NoWorker])
  /\ UNCHANGED owed

\* Worker.Push: w.sendChan <- out, which waits while the channel is full ...
PushSends(c) ==
  LET w == call[c].at IN
  /\ call[c].pc = "send"
  /\ off[w] # "closed"
  /\ queued[w] < ChanSize
  /\ got' = [got EXCEPT ![w][c] = @ + 1]
  /\ queued' = [queued EXCEPT ![w] = @ + 1]
  /\ call' = [call EXCEPT ![c].pc = Onward(c), ![c].at = NoWorker]
  /\ UNCHANGED <<registry, stopping, off, running, others, owed>>

\* Mutant of SendPanics: the caller waits on.
SendNeverPanics(c) == FALSE

\* ... and panics when it is closed, or gets closed; the call ends there.
SendPanics(c) == off[call[c].at] = "closed"

PushPanics(c) ==
  /\ call[c].pc = "send"
  /\ SendPanics(c)
  /\ Step(c, Ended(c, "panicked"))
  /\ UNCHANGED owed

\* Every worker found has been pushed to, or Range has found whoever was there
\* from its beginning to its end.
Return(c) ==
  /\ \/ call[c].pc = "buckets" /\ call[c].ids = {} /\ call[c].targets = {}
     \/ call[c].pc = "walk" /\ call[c].targets \cap here \subseteq call[c].ids
  /\ Step(c, Ended(c, "returned"))
  /\ UNCHANGED owed

-----------------------------------------------------------------------------
WorkerSteps(w) ==
  \/ WorkerAdds(w) \/ WorkerNames(w) \/ LoopWrites(w) \/ LoopEnds(w) \/ TunnelPushes(w)
  \/ WorkerRemoved(w) \/ WorkerStops(w) \/ WorkerCloses(w)

CallSteps(c) ==
  \/ \E u \in Uids : LoadUid(c, u)
  \/ \E w \in Workers : LoadWorker(c, w) \/ NextTarget(c, w) \/ WalkFinds(c, w)
  \/ PushChecks(c) \/ PushSends(c) \/ PushPanics(c) \/ Return(c)

Calls(c) ==
  \/ Refuse(c)
  \/ \E u \in Uids : Begin(c, "push", {u}, {})
  \/ \E us \in SUBSET Uids : Begin(c, "multicast", us, {})
  \/ \E ws \in Audiences : Begin(c, "broadcast", {}, ws)

\* Bound: nothing happens any more when all calls have ended.
Over == \A c \in Callers : call[c].pc \in {"returned", "refused", "panicked"}

PushNext ==
  /\ ~ Over
  /\ \/ ServerStops
     \/ \E w \in Workers : WorkerSteps(w)
     \/ \E c \in Callers : Calls(c) \/ CallSteps(c)

PushSpec == PushInit /\ [][PushNext]_vars

\* The goroutine of a call runs on, and a Worker.Stop that has begun closes
\* sendChan: what comes before the close is bounded by timeouts.  Nothing is
\* assumed of the peers and of the services: a sendLoop may write or not, and a
\* worker whose sendLoop has ended may stay registered, held by its Handle.
Fairness ==
  /\ \A w \in Workers : WF_vars(WorkerCloses(w))
  /\ \A c \in Callers : WF_vars(CallSteps(c))

FairSpec == PushSpec /\ Fairness

-----------------------------------------------------------------------------
(***************************************************************************)
(* Properties.                                                              *)
(***************************************************************************)
\* Type invariant.
TypeOK ==
  /\ uid \in [Workers -> Uids] /\ put \in [Workers -> {"new", "stored", "named"}]
  /\ here \subseteq Workers /\ latest \in [Uids -> Workers \cup {NoWorker}]
  /\ stopping \in BOOLEAN
  /\ off \in [Workers -> {"no", "stopping", "closed"}]
  /\ running \in [Workers -> BOOLEAN] /\ others \in 0..MaxOthers
  /\ queued \in [Workers -> 0..ChanSize] /\ got \in [Workers -> [Callers -> Nat]]
  /\ call \in [Callers -> [pc : {"idle", "uids", "buckets", "walk", "check", "send",
                                 "returned", "refused", "panicked"},
                           op : Ops, uids : SUBSET Uids, match : SUBSET Workers,
                           todo : SUBSET Uids, ids : SUBSET Workers, targets : SUBSET Workers,
                           at : Workers \cup {NoWorker}]]
  /\ owed \in [Callers -> SUBSET Workers]

\* A pack reaches only connections it is for, and each at most once, though
\* connections come and go between the loads of a lookup and between the steps of
\* a Walk: Push and Multicast reach workers of the users named, Broadcast those
\* of the color and the sid.
OnlyAddressees ==
  \A w \in Workers, c \in Callers :
    /\ got[w][c] <= 1
    /\ got[w][c] = 1 => IF ByUid(call[c].op) THEN uid[w] \in call[c].uids ELSE w \in call[c].match

\* A call that returns has reached every connection it was for from its beginning
\* to its end: stored, the one its user is found by (or matching) and not
\* stopping.  The errors that Multicast and Broadcast drop hide only workers that
\* were leaving.
ReturnedHasReached ==
  \A c \in Callers : call[c].pc = "returned" => \A w \in owed[c] : got[w][c] = 1

\* The call waits for room in the sendChan of a worker that nobody has stopped.
Blocked(c) ==
  LET w == call[c].at
  IN  call[c].pc = "send" /\ off[w] = "no" /\ queued[w] = ChanSize

\* Every call ends, unless it waits for ever for room in the full sendChan of one
\* worker, whose sendLoop makes none and which nobody stops: the workers that come
\* and go do not keep a Multicast or a Broadcast going, and a stop of the worker it
\* waits for ends it, by a panic (Push of worker.go; Multicast and Broadcast pass
\* no deadline on to it).
CallsEnd ==
  \A c \in Callers :
    <>[](call[c].pc \in {"idle", "returned", "refused", "panicked"} \/ Blocked(c))

\* server.go:262-266 collects the errors of the pushes and goes on with the next
\* worker: no call ends by a panic.
BroadcastNeverPanics == \A c \in Callers : call[c].pc # "panicked"

=============================================================================
