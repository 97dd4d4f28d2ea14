-------------------------- MODULE ServerPush_proofs --------------------------
(***************************************************************************)
(* For any workers, users, callers and channel size: a pack reaches only whom *)
(* it is for, each at most once, and a call that returns has reached whoever  *)
(* stayed.                                                                    *)
(***************************************************************************)
EXTENDS ServerPush, TLAPS

\* A user is found by a worker of that user.
NamedInv == \A u \in Uids : latest[u] \in Workers => uid[latest[u]] = u

Active(c) == call[c].pc \in {"uids", "buckets", "walk", "check", "send"}

\* The worker that the call is pushing to.
Current(c) == IF call[c].pc \in {"check", "send"} THEN {call[c].at} ELSE {}

\* Before a call has begun nobody has its pack; while it runs, its kind says where it is.
BeginInv(c) ==
  /\ call[c].pc \in {"idle", "refused"} => \A w \in Workers : got[w][c] = 0
  /\ Active(c) /\ ByUid(call[c].op) => call[c].pc # "walk"
  /\ Active(c) /\ ~ ByUid(call[c].op) => call[c].pc \in {"walk", "check", "send"}
  /\ Current(c) \subseteq Workers

\* Push and Multicast: a worker is in one place on its way from the uids to the push, and
\* one whose uid is still to be loaded is in none.
LookupInv(c) == Active(c) /\ ByUid(call[c].op) =>
  /\ call[c].pc # "uids" => call[c].todo = {}
  /\ call[c].ids \cap call[c].targets = {}
  /\ Current(c) \cap (call[c].ids \cup call[c].targets) = {}
  /\ call[c].todo \subseteq call[c].uids
  /\ \A w \in call[c].ids \cup call[c].targets \cup Current(c) :
       uid[w] \in call[c].uids \ call[c].todo /\ got[w][c] = 0
  /\ \A w \in Workers : uid[w] \in call[c].todo => got[w][c] = 0

\* Push finds at most one worker.
SingleInv(c) == Active(c) /\ call[c].op = "push" =>
  /\ call[c].pc = "uids" => call[c].ids = {} /\ call[c].targets = {}
                            /\ \E u \in Uids : call[c].todo = {u}
  /\ \A v, w \in call[c].ids \cup call[c].targets : v = w
  /\ Current(c) # {} => call[c].ids = {} /\ call[c].targets = {}

\* Broadcast: whom the Walk has found is in ids.
RangeInv(c) == Active(c) /\ ~ ByUid(call[c].op) =>
  /\ \A w \in Workers : got[w][c] = 1 => w \in call[c].ids
  /\ \A w \in Current(c) : w \in call[c].ids /\ w \in call[c].match /\ got[w][c] = 0

\* A worker that is owed the pack is still to be found and pushed to, or has it.
OwedInv(c) == Active(c) => \A w \in owed[c] :
  /\ w \in here /\ off[w] = "no"
  /\ ByUid(call[c].op) =>
       /\ uid[w] \in call[c].uids /\ latest[uid[w]] = w
       /\ \/ uid[w] \in call[c].todo
          \/ w \in call[c].ids \cup call[c].targets \cup Current(c)
          \/ got[w][c] = 1
  /\ ~ ByUid(call[c].op) =>
       /\ w \in call[c].match /\ w \in call[c].targets
       /\ w \in call[c].ids => w \in Current(c) \/ got[w][c] = 1

\* OnlyAddressees and ReturnedHasReached for the call c.
Reaches(c) ==
  /\ \A w \in Workers :
       /\ got[w][c] <= 1
       /\ got[w][c] = 1 => IF ByUid(call[c].op) THEN uid[w] \in call[c].uids
                                                ELSE w \in call[c].match
  /\ call[c].pc = "returned" => \A w \in owed[c] : got[w][c] = 1

CallInv(c) ==
  BeginInv(c) /\ LookupInv(c) /\ SingleInv(c) /\ RangeInv(c) /\ OwedInv(c) /\ Reaches(c)

PushInv == TypeOK /\ NamedInv /\ \A c \in Callers : CallInv(c)

-----------------------------------------------------------------------------
(* Steps of the workers and of the server.                                    *)

\* Nothing a worker or the server does touches a call or what was pushed; whoever is
\* still owed a pack afterwards is still there, found and not stopping.
LEMMA WorkerFrame ==
  ASSUME TypeOK, ServerStops \/ \E w \in Workers : WorkerSteps(w)
  PROVE  /\ call' = call /\ got' = got /\ uid' = uid
         /\ \A c \in Callers : \A v \in owed'[c] :
              /\ v \in owed[c]
              /\ v \in here /\ off[v] = "no" => v \in here' /\ off'[v] = "no"
              /\ ByUid(call[c].op) /\ latest[uid[v]] = v => latest'[uid[v]] = v
<1> USE DEF TypeOK
<1>1. CASE ServerStops
  BY <1>1 DEF ServerStops, workers, registry
<1>2. ASSUME NEW w \in Workers,
             LoopWrites(w) \/ LoopEnds(w) \/ TunnelPushes(w) \/ WorkerCloses(w)
      PROVE  /\ call' = call /\ got' = got /\ registry' = registry /\ owed' = owed
             /\ \A v \in Workers : off[v] = "no" => off'[v] = "no"
  BY <1>2 DEF LoopWrites, LoopEnds, TunnelPushes, WorkerCloses
<1>3. CASE \E w \in Workers : WorkerAdds(w)
  BY <1>3 DEF WorkerAdds, Add, workers
<1>4. CASE \E w \in Workers : WorkerNames(w)
  BY <1>4 DEF WorkerNames, Name, Forgive, workers
<1>5. CASE \E w \in Workers : WorkerRemoved(w)
  BY <1>5 DEF WorkerRemoved, Remove, Forgive, AnyOp, workers
<1>6. CASE \E w \in Workers : WorkerStops(w)
  BY <1>6 DEF WorkerStops, Forgive, AnyOp, registry
<1>7. QED
  BY <1>1, <1>2, <1>3, <1>4, <1>5, <1>6 DEF WorkerSteps, registry

LEMMA WorkerKeepsCalls ==
  ASSUME TypeOK, ServerStops \/ \E w \in Workers : WorkerSteps(w), NEW c \in Callers,
         CallInv(c)
  PROVE  CallInv(c)'
<1>1. /\ call' = call /\ got' = got /\ uid' = uid
      /\ \A v \in owed'[c] :
           /\ v \in owed[c]
           /\ v \in here /\ off[v] = "no" => v \in here' /\ off'[v] = "no"
           /\ ByUid(call[c].op) /\ latest[uid[v]] = v => latest'[uid[v]] = v
  BY WorkerFrame
<1>2. Active(c)' = Active(c) /\ Current(c)' = Current(c)
  BY <1>1 DEF Active, Current
<1>3. BeginInv(c)' /\ LookupInv(c)' /\ SingleInv(c)' /\ RangeInv(c)'
  BY <1>1, <1>2 DEF CallInv, BeginInv, LookupInv, SingleInv, RangeInv
<1>4. OwedInv(c)'
  BY <1>1, <1>2 DEF CallInv, OwedInv
<1>5. Reaches(c)'
  BY <1>1 DEF CallInv, Reaches
<1>6. QED
  BY <1>3, <1>4, <1>5 DEF CallInv

LEMMA NamedStep ==
  ASSUME TypeOK, NamedInv, PushNext
  PROVE  NamedInv'
<1>1. CASE registry' = registry
  BY <1>1 DEF NamedInv, registry
<1>2. ASSUME NEW w \in Workers, Add(w) \/ Remove(w)
      PROVE  NamedInv'
  BY <1>2 DEF Add, Remove, NamedInv
<1>3. ASSUME NEW w \in Workers, Name(w)
      PROVE  NamedInv'
  BY <1>3 DEF Name, NamedInv, TypeOK
<1>4. registry' = registry \/ \E w \in Workers : Add(w) \/ Remove(w) \/ Name(w)
  BY ZenonT(60) DEF PushNext, ServerStops, WorkerSteps, WorkerAdds, WorkerNames, LoopWrites, LoopEnds,
         TunnelPushes, WorkerRemoved, WorkerStops, WorkerCloses, Calls, CallSteps, Refuse,
         Begin, LoadUid, LoadWorker, NextTarget, WalkFinds, PushChecks, PushSends, PushPanics,
         Return, Step
<1>5. QED
  BY <1>1, <1>2, <1>3, <1>4

-----------------------------------------------------------------------------
(* Steps of the calls.                                                        *)

\* A call changes nothing of another one.
LEMMA CallFrame ==
  ASSUME TypeOK, NEW c \in Callers, Calls(c) \/ CallSteps(c)
  PROVE  /\ registry' = registry /\ off' = off
         /\ \A d \in Callers \ {c} : /\ call'[d] = call[d] /\ owed'[d] = owed[d]
                                     /\ \A w \in Workers : got'[w][d] = got[w][d]
<1> USE DEF TypeOK
<1>1. CASE PushSends(c)
  BY <1>1 DEF PushSends
<1>2. CASE Calls(c)
  BY <1>2, Zenon DEF Calls, Refuse, Begin, Step, workers
<1>3. CASE CallSteps(c) /\ ~ PushSends(c)
  BY <1>3, Zenon DEF CallSteps, LoadUid, LoadWorker, NextTarget, WalkFinds, PushChecks, PushPanics,
              Return, Step, workers
<1>4. QED
  BY <1>1, <1>2, <1>3

LEMMA OtherCalls ==
  ASSUME TypeOK, NEW c \in Callers, Calls(c) \/ CallSteps(c), NEW d \in Callers \ {c},
         CallInv(d)
  PROVE  CallInv(d)'
<1>1. /\ uid' = uid /\ here' = here /\ latest' = latest /\ off' = off
      /\ call'[d] = call[d] /\ owed'[d] = owed[d]
      /\ \A w \in Workers : got'[w][d] = got[w][d]
  BY CallFrame DEF registry
<1>2. Active(d)' = Active(d) /\ Current(d)' = Current(d)
  BY <1>1 DEF Active, Current
<1>3. /\ call[d].ids \subseteq Workers /\ call[d].targets \subseteq Workers
      /\ owed[d] \subseteq Workers /\ Current(d) \subseteq Workers
  BY DEF TypeOK, CallInv, BeginInv
<1>4. BeginInv(d)' /\ SingleInv(d)' /\ RangeInv(d)' /\ Reaches(d)'
  BY <1>1, <1>2, <1>3 DEF CallInv, BeginInv, SingleInv, RangeInv, Reaches
<1>5. LookupInv(d)'
  BY <1>1, <1>2, <1>3 DEF CallInv, LookupInv
<1>6. OwedInv(d)'
  BY <1>1, <1>2, <1>3 DEF CallInv, OwedInv
<1>7. QED
  BY <1>4, <1>5, <1>6 DEF CallInv

LEMMA BeginKeeps ==
  ASSUME TypeOK, NamedInv, NEW c \in Callers, CallInv(c), Calls(c)
  PROVE  CallInv(c)'
<1>1. CASE Refuse(c)
  <2>1. call'[c].pc = "refused" /\ got' = got /\ call[c].pc = "idle"
    BY <1>1 DEF Refuse, NoCall, Step, workers, TypeOK
  <2>2. \A w \in Workers : got'[w][c] = 0
    BY <2>1 DEF CallInv, BeginInv
  <2>3. ~ Active(c)' /\ Current(c)' = {}
    BY <2>1 DEF Active, Current
  <2>4. BeginInv(c)' /\ Reaches(c)'
    BY <2>1, <2>2, <2>3 DEF BeginInv, Reaches
  <2>5. LookupInv(c)' /\ SingleInv(c)' /\ RangeInv(c)' /\ OwedInv(c)'
    BY <2>3, Zenon DEF LookupInv, SingleInv, RangeInv, OwedInv
  <2>6. QED
    BY <2>4, <2>5 DEF CallInv
<1>2. ASSUME NEW op \in Ops, NEW us \in SUBSET Uids, NEW ws \in SUBSET Workers,
             Begin(c, op, us, ws),
             op = "push" => \E u \in Uids : us = {u}
      PROVE  CallInv(c)'
  <2>1. /\ call'[c].pc = First(op, us) /\ call'[c].match = ws
        /\ call'[c].op = op /\ call'[c].uids = us /\ call'[c].todo = us /\ call'[c].ids = {}
        /\ call'[c].targets = IF ByUid(op) THEN {} ELSE here
        /\ uid' = uid /\ here' = here /\ latest' = latest /\ off' = off /\ got' = got
    BY <1>2 DEF Begin, NoCall, Step, registry, workers, TypeOK
  <2>2. call[c].pc = "idle"
    BY <1>2 DEF Begin
  <2>3. owed'[c] = Addressees(op, us, ws)
    BY <1>2 DEF Begin, TypeOK
  <2>4. \A w \in Workers : got'[w][c] = 0
    BY <2>1, <2>2 DEF CallInv, BeginInv
  <2>5. Active(c)' /\ Current(c)' = {}
    BY <2>1 DEF Active, Current, First
  <2>6. BeginInv(c)' /\ LookupInv(c)' /\ RangeInv(c)' /\ Reaches(c)'
    BY <2>1, <2>4, <2>5 DEF BeginInv, LookupInv, RangeInv, Reaches, First
  <2>7. SingleInv(c)'
    BY <1>2, <2>1, <2>5 DEF SingleInv, ByUid, First
  <2>8. OwedInv(c)'
    BY <2>1, <2>3, <2>5 DEF OwedInv, Addressees
  <2>9. QED
    BY <2>6, <2>7, <2>8 DEF CallInv
<1>3. ASSUME NEW u \in Uids, Begin(c, "push", {u}, {})
      PROVE  CallInv(c)'
  BY <1>2, <1>3 DEF Ops
<1>4. ASSUME NEW us \in SUBSET Uids, Begin(c, "multicast", us, {})
      PROVE  CallInv(c)'
  BY <1>2, <1>4 DEF Ops
<1>5. ASSUME NEW ws \in Audiences, Begin(c, "broadcast", {}, ws)
      PROVE  CallInv(c)'
  BY <1>2, <1>5, PushAssumption DEF Ops
<1>6. QED
  BY <1>1, <1>3, <1>4, <1>5, Zenon DEF Calls

\* The load of a uid finds a worker of that user, which is nowhere yet.
LEMMA LoadUidKeeps ==
  ASSUME TypeOK, NamedInv, NEW c \in Callers, CallInv(c), NEW u \in Uids, LoadUid(c, u)
  PROVE  CallInv(c)'
<1> DEFINE new == {latest[u]} \ {NoWorker}
<1>1. call[c].pc = "uids" /\ u \in call[c].todo /\ owed' = owed
  BY DEF LoadUid
<1>2. /\ call'[c].pc = IF call[c].todo = {u} THEN "buckets" ELSE "uids"
      /\ call'[c].op = call[c].op /\ call'[c].uids = call[c].uids /\ call'[c].match = call[c].match
      /\ call'[c].todo = call[c].todo \ {u} /\ call'[c].ids = call[c].ids \cup new
      /\ call'[c].targets = call[c].targets
      /\ uid' = uid /\ here' = here /\ latest' = latest /\ off' = off /\ got' = got
  BY DEF LoadUid, Step, registry, workers, TypeOK
<1>3. Active(c) /\ Active(c)' /\ Current(c) = {} /\ Current(c)' = {}
  BY <1>1, <1>2 DEF Active, Current
<1>4. ByUid(call[c].op)
  BY <1>1, <1>3 DEF CallInv, BeginInv
<1>5. new \subseteq Workers /\ \A w \in new : uid[w] = u
  BY DEF TypeOK, NamedInv
<1>6. BeginInv(c)' /\ RangeInv(c)' /\ Reaches(c)'
  BY <1>1, <1>2, <1>3, <1>4 DEF CallInv, BeginInv, RangeInv, Reaches
<1>7. LookupInv(c)'
  <2>1. /\ call[c].todo \subseteq call[c].uids /\ call[c].ids \cap call[c].targets = {}
        /\ \A w \in call[c].ids \cup call[c].targets :
             uid[w] \in call[c].uids \ call[c].todo /\ got[w][c] = 0
        /\ \A w \in Workers : uid[w] \in call[c].todo => got[w][c] = 0
    BY <1>3, <1>4, Zenon DEF CallInv, LookupInv
  <2>2. call'[c].pc # "uids" => call'[c].todo = {}
    BY <1>2
  <2>3. call'[c].ids \cap call'[c].targets = {} /\ call'[c].todo \subseteq call'[c].uids
    BY <1>1, <1>2, <1>5, <2>1
  <2>4. \A w \in call'[c].ids \cup call'[c].targets :
          uid'[w] \in call'[c].uids \ call'[c].todo /\ got'[w][c] = 0
    BY <1>1, <1>2, <1>5, <2>1
  <2>5. \A w \in Workers : uid'[w] \in call'[c].todo => got'[w][c] = 0
    BY <1>2, <2>1
  <2>6. QED
    BY <1>3, <2>2, <2>3, <2>4, <2>5 DEF LookupInv
<1>8. SingleInv(c)'
  BY <1>1, <1>2, <1>3 DEF CallInv, SingleInv
<1>9. OwedInv(c)'
  <2> SUFFICES ASSUME NEW w \in owed[c]
               PROVE  /\ w \in here /\ off[w] = "no"
                      /\ uid[w] \in call[c].uids /\ latest[uid[w]] = w
                      /\ \/ uid[w] \in call[c].todo \ {u}
                         \/ w \in call[c].ids \cup new \cup call[c].targets
                         \/ got[w][c] = 1
    BY <1>1, <1>2, <1>3, <1>4 DEF OwedInv
  <2>1. w # NoWorker
    BY RegistryAssumption DEF TypeOK
  <2>2. QED
    BY <1>3, <1>4, <2>1 DEF CallInv, OwedInv
<1>10. QED
  BY <1>6, <1>7, <1>8, <1>9 DEF CallInv

LEMMA LoadWorkerKeeps ==
  ASSUME TypeOK, NEW c \in Callers, CallInv(c), NEW v \in Workers, LoadWorker(c, v)
  PROVE  CallInv(c)'
<1>1. call[c].pc = "buckets" /\ v \in call[c].ids /\ owed' = owed
  BY DEF LoadWorker
<1>2. /\ call'[c].pc = "buckets" /\ call'[c].op = call[c].op /\ call'[c].uids = call[c].uids
      /\ call'[c].match = call[c].match
      /\ call'[c].todo = call[c].todo /\ call'[c].ids = call[c].ids \ {v}
      /\ call'[c].targets = call[c].targets \cup ({v} \cap here)
      /\ uid' = uid /\ here' = here /\ latest' = latest /\ off' = off /\ got' = got
  BY DEF LoadWorker, Step, registry, workers, TypeOK
<1>3. Active(c) /\ Active(c)' /\ Current(c) = {} /\ Current(c)' = {}
  BY <1>1, <1>2 DEF Active, Current
<1>4. ByUid(call[c].op)
  BY <1>1, <1>3 DEF CallInv, BeginInv
<1>5. BeginInv(c)' /\ RangeInv(c)' /\ Reaches(c)'
  BY <1>1, <1>2, <1>3, <1>4 DEF CallInv, BeginInv, RangeInv, Reaches
<1>6. LookupInv(c)'
  BY <1>1, <1>2, <1>3, <1>4 DEF CallInv, LookupInv
<1>7. SingleInv(c)'
  BY <1>1, <1>2, <1>3 DEF CallInv, SingleInv
<1>8. OwedInv(c)'
  BY <1>1, <1>2, <1>3, <1>4 DEF CallInv, OwedInv
<1>9. QED
  BY <1>5, <1>6, <1>7, <1>8 DEF CallInv

LEMMA NextTargetKeeps ==
  ASSUME TypeOK, NEW c \in Callers, CallInv(c), NEW v \in Workers, NextTarget(c, v)
  PROVE  CallInv(c)'
<1>1. call[c].pc = "buckets" /\ call[c].ids = {} /\ v \in call[c].targets /\ owed' = owed
  BY DEF NextTarget
<1>2. /\ call'[c].pc = "check" /\ call'[c].op = call[c].op /\ call'[c].uids = call[c].uids
      /\ call'[c].match = call[c].match
      /\ call'[c].todo = call[c].todo /\ call'[c].ids = {} /\ call'[c].at = v
      /\ call'[c].targets = call[c].targets \ {v}
      /\ uid' = uid /\ here' = here /\ latest' = latest /\ off' = off /\ got' = got
  BY <1>1 DEF NextTarget, Step, registry, workers, TypeOK
<1>3. Active(c) /\ Active(c)' /\ Current(c) = {} /\ Current(c)' = {v}
  BY <1>1, <1>2 DEF Active, Current
<1>4. ByUid(call[c].op)
  BY <1>1, <1>3 DEF CallInv, BeginInv
<1>5. BeginInv(c)' /\ RangeInv(c)' /\ Reaches(c)'
  BY <1>1, <1>2, <1>3, <1>4 DEF CallInv, BeginInv, RangeInv, Reaches
<1>6. LookupInv(c)'
  BY <1>1, <1>2, <1>3, <1>4 DEF CallInv, LookupInv
<1>7. SingleInv(c)'
  BY <1>1, <1>2, <1>3, ZenonT(40) DEF CallInv, SingleInv
<1>8. OwedInv(c)'
  BY <1>1, <1>2, <1>3, <1>4 DEF CallInv, OwedInv
<1>9. QED
  BY <1>5, <1>6, <1>7, <1>8 DEF CallInv

LEMMA WalkFindsKeeps ==
  ASSUME TypeOK, NEW c \in Callers, CallInv(c), NEW v \in Workers, WalkFinds(c, v)
  PROVE  CallInv(c)'
<1>1. call[c].pc = "walk" /\ v \in here /\ v \notin call[c].ids /\ owed' = owed
  BY DEF WalkFinds, Found
<1>2. /\ call'[c].pc = IF v \in call[c].match THEN "check" ELSE "walk"
      /\ call'[c].op = call[c].op /\ call'[c].uids = call[c].uids /\ call'[c].match = call[c].match
      /\ call'[c].ids = call[c].ids \cup {v} /\ call'[c].targets = call[c].targets
      /\ v \in call[c].match => call'[c].at = v
      /\ uid' = uid /\ here' = here /\ latest' = latest /\ off' = off /\ got' = got
  BY DEF WalkFinds, Step, registry, workers, TypeOK
<1>3. Active(c) /\ Active(c)' /\ Current(c) = {} /\ Current(c)' = {v} \cap call[c].match
  BY <1>1, <1>2 DEF Active, Current
<1>4. ~ ByUid(call[c].op)
  BY <1>1, <1>3 DEF CallInv, BeginInv
<1>5. got[v][c] = 0
  <2>1. got[v][c] \in Nat /\ got[v][c] <= 1 /\ got[v][c] # 1
    BY <1>1, <1>3, <1>4 DEF CallInv, RangeInv, Reaches, TypeOK
  <2>2. QED
    BY <2>1
<1>6. BeginInv(c)' /\ LookupInv(c)' /\ Reaches(c)'
  BY <1>1, <1>2, <1>3, <1>4 DEF CallInv, BeginInv, LookupInv, Reaches
<1>7. SingleInv(c)' /\ RangeInv(c)'
  BY <1>2, <1>3, <1>4, <1>5 DEF CallInv, SingleInv, RangeInv, ByUid
<1>8. OwedInv(c)'
  BY <1>1, <1>2, <1>3, <1>4 DEF CallInv, OwedInv
<1>9. QED
  BY <1>6, <1>7, <1>8 DEF CallInv

\* A call that has ended keeps its addressing, and what it has reached.
LEMMA EndKeeps ==
  ASSUME TypeOK, NEW c \in Callers, CallInv(c), NEW pc \in {"returned", "panicked"},
         Step(c, Ended(c, pc)), UNCHANGED owed,
         pc = "returned" => \A w \in owed[c] : got[w][c] = 1
  PROVE  CallInv(c)'
<1>1. /\ call'[c].pc = pc /\ call'[c].op = call[c].op /\ call'[c].uids = call[c].uids
      /\ call'[c].match = call[c].match
      /\ uid' = uid /\ got' = got
  BY DEF Step, Ended, NoCall, registry, workers, TypeOK
<1>2. ~ Active(c)' /\ Current(c)' = {}
  BY <1>1 DEF Active, Current
<1>3. QED
  BY <1>1, <1>2 DEF CallInv, BeginInv, LookupInv, SingleInv, RangeInv, OwedInv, Reaches

\* A worker that refuses the push is stopping, so it is not owed the pack.
LEMMA PushChecksKeeps ==
  ASSUME TypeOK, NEW c \in Callers, CallInv(c), PushChecks(c)
  PROVE  CallInv(c)'
<1> DEFINE v == call[c].at
<1>1. call[c].pc = "check" /\ owed' = owed
  BY DEF PushChecks
<1>2. Active(c) /\ Current(c) = {v}
  BY <1>1 DEF Active, Current
<1>3. CASE off[v] = "no"
  <2>1. /\ call'[c].pc = "send" /\ call'[c].op = call[c].op /\ call'[c].uids = call[c].uids
        /\ call'[c].match = call[c].match
        /\ call'[c].todo = call[c].todo /\ call'[c].ids = call[c].ids /\ call'[c].at = v
        /\ call'[c].targets = call[c].targets
        /\ uid' = uid /\ here' = here /\ latest' = latest /\ off' = off /\ got' = got
    BY <1>3 DEF PushChecks, Step, registry, workers, TypeOK
  <2>2. Active(c)' /\ Current(c)' = {v}
    BY <2>1 DEF Active, Current
  <2>3. BeginInv(c)' /\ LookupInv(c)' /\ SingleInv(c)' /\ RangeInv(c)'
    BY <1>1, <1>2, <2>1, <2>2, Zenon DEF CallInv, BeginInv, LookupInv, SingleInv, RangeInv
  <2>4. OwedInv(c)' /\ Reaches(c)'
    BY <1>1, <1>2, <2>1, <2>2 DEF CallInv, OwedInv, Reaches
  <2>5. QED
    BY <2>3, <2>4 DEF CallInv
<1>4. CASE off[v] # "no" /\ call[c].op = "push"
  <2>1. Step(c, Ended(c, "returned"))
    BY <1>4 DEF PushChecks, ErrorEnds
  <2>2. call[c].todo = {} /\ call[c].ids = {} /\ call[c].targets = {}
    BY <1>1, <1>2, <1>4, Zenon DEF CallInv, LookupInv, SingleInv, ByUid
  <2>3. \A w \in owed[c] : got[w][c] = 1
    BY <1>2, <1>4, <2>2 DEF CallInv, OwedInv, ByUid
  <2>4. QED
    BY <1>1, <2>1, <2>3, EndKeeps
<1>5. CASE off[v] # "no" /\ call[c].op # "push"
  <2>1. /\ call'[c].pc = Onward(c) /\ call'[c].op = call[c].op /\ call'[c].uids = call[c].uids
        /\ call'[c].match = call[c].match
        /\ call'[c].todo = call[c].todo /\ call'[c].ids = call[c].ids
        /\ call'[c].targets = call[c].targets
        /\ uid' = uid /\ here' = here /\ latest' = latest /\ off' = off /\ got' = got
    BY <1>5 DEF PushChecks, ErrorEnds, Step, registry, workers, TypeOK
  <2>2. Active(c)' /\ Current(c)' = {}
    BY <2>1 DEF Active, Current, Onward
  <2>3. BeginInv(c)' /\ LookupInv(c)' /\ RangeInv(c)' /\ Reaches(c)'
    BY <1>1, <1>2, <2>1, <2>2 DEF CallInv, BeginInv, LookupInv, RangeInv, Reaches, Onward
  <2>4. SingleInv(c)'
    BY <1>5, <2>1, Zenon DEF SingleInv
  <2>5. v \notin owed[c]
    BY <1>2, <1>5 DEF CallInv, OwedInv
  <2>6. OwedInv(c)'
    BY <1>1, <1>2, <2>1, <2>2, <2>5, Zenon DEF CallInv, OwedInv
  <2>7. QED
    BY <2>3, <2>4, <2>6 DEF CallInv
<1>6. QED
  BY <1>3, <1>4, <1>5

LEMMA PushSendsKeeps ==
  ASSUME TypeOK, NEW c \in Callers, CallInv(c), PushSends(c)
  PROVE  CallInv(c)'
<1> DEFINE v == call[c].at
<1>1. call[c].pc = "send" /\ owed' = owed
  BY DEF PushSends
<1>2. Active(c) /\ Current(c) = {v} /\ v \in Workers
  BY <1>1 DEF Active, Current, CallInv, BeginInv
<1>3. /\ call'[c].pc = Onward(c) /\ call'[c].op = call[c].op /\ call'[c].uids = call[c].uids
      /\ call'[c].match = call[c].match
      /\ call'[c].todo = call[c].todo /\ call'[c].ids = call[c].ids
      /\ call'[c].targets = call[c].targets
      /\ uid' = uid /\ here' = here /\ latest' = latest /\ off' = off
  BY DEF PushSends, registry, TypeOK
<1>4. Active(c)' /\ Current(c)' = {}
  BY <1>3 DEF Active, Current, Onward
<1>5. got[v][c] = 0
  BY <1>2 DEF CallInv, LookupInv, RangeInv
<1>6. \A w \in Workers : got'[w][c] = IF w = v THEN 1 ELSE got[w][c]
  BY <1>2, <1>5 DEF PushSends, TypeOK
<1>7. BeginInv(c)'
  BY <1>3, <1>4 DEF BeginInv, Onward
<1>8. LookupInv(c)'
  <2>1. call[c].ids \subseteq Workers /\ call[c].targets \subseteq Workers
    BY DEF TypeOK
  <2>2. QED
    BY <1>1, <1>2, <1>3, <1>4, <1>6, <2>1, Zenon DEF CallInv, LookupInv
<1>9. SingleInv(c)' /\ RangeInv(c)'
  BY <1>1, <1>2, <1>3, <1>4, <1>6, Zenon DEF CallInv, SingleInv, RangeInv, Onward
<1>10. OwedInv(c)'
  <2> SUFFICES ASSUME NEW w \in owed[c]
               PROVE  /\ w \in here /\ off[w] = "no"
                      /\ ByUid(call[c].op) =>
                           /\ uid[w] \in call[c].uids /\ latest[uid[w]] = w
                           /\ \/ uid[w] \in call[c].todo
                              \/ w \in call[c].ids \cup call[c].targets
                              \/ got'[w][c] = 1
                      /\ ~ ByUid(call[c].op) =>
                           /\ w \in call[c].match /\ w \in call[c].targets
                           /\ w \in call[c].ids => got'[w][c] = 1
    BY <1>1, <1>3, <1>4 DEF OwedInv
  <2>1. got'[w][c] = IF w = v THEN 1 ELSE got[w][c]
    BY <1>6 DEF TypeOK
  <2>2. OwedInv(c)
    BY DEF CallInv
  <2>3. QED
    BY <1>2, <2>1, <2>2, Zenon DEF OwedInv
<1>11. Reaches(c)'
  <2>1. IF ByUid(call[c].op) THEN uid[v] \in call[c].uids ELSE v \in call[c].match
    BY <1>2 DEF CallInv, LookupInv, RangeInv
  <2>2. call'[c].pc # "returned"
    BY <1>3 DEF Onward
  <2>3. QED
    BY <1>3, <1>6, <2>1, <2>2 DEF CallInv, Reaches
<1>12. QED
  BY <1>7, <1>8, <1>9, <1>10, <1>11 DEF CallInv

\* Whoever is owed the pack when the lookup or the Walk is over has it.
LEMMA ReturnKeeps ==
  ASSUME TypeOK, NEW c \in Callers, CallInv(c), Return(c)
  PROVE  CallInv(c)'
<1>1. Active(c) /\ Current(c) = {}
  BY DEF Return, Active, Current
<1>2. \A w \in owed[c] : got[w][c] = 1
  BY <1>1 DEF Return, CallInv, BeginInv, LookupInv, OwedInv
<1>3. QED
  BY <1>2, EndKeeps DEF Return

-----------------------------------------------------------------------------
LEMMA TypeStep ==
  ASSUME TypeOK, \A c \in Callers : CallInv(c), PushNext
  PROVE  TypeOK'
<1> DEFINE CallType == [pc : {"idle", "uids", "buckets", "walk", "check", "send",
                              "returned", "refused", "panicked"},
                        op : Ops, uids : SUBSET Uids, match : SUBSET Workers,
                        todo : SUBSET Uids, ids : SUBSET Workers, targets : SUBSET Workers,
                        at : Workers \cup {NoWorker}]
<1>1. CASE ServerStops
  BY <1>1 DEF ServerStops, TypeOK, registry, workers
<1>2. ASSUME NEW w \in Workers, WorkerSteps(w)
      PROVE  TypeOK'
  <2>1. CASE WorkerAdds(w)
    BY <2>1 DEF WorkerAdds, Add, TypeOK, workers
  <2>2. CASE WorkerNames(w)
    BY <2>2 DEF WorkerNames, Name, Forgive, TypeOK, workers
  <2>3. CASE LoopWrites(w)
    BY <2>3, PushAssumption DEF LoopWrites, TypeOK, registry
  <2>4. CASE LoopEnds(w)
    BY <2>4 DEF LoopEnds, TypeOK, registry
  <2>5. CASE TunnelPushes(w)
    BY <2>5, PushAssumption DEF TunnelPushes, TypeOK, registry
  <2>6. CASE WorkerRemoved(w)
    BY <2>6 DEF WorkerRemoved, Remove, Forgive, TypeOK, workers
  <2>7. CASE WorkerStops(w)
    BY <2>7 DEF WorkerStops, Forgive, TypeOK, registry
  <2>8. CASE WorkerCloses(w)
    BY <2>8 DEF WorkerCloses, TypeOK, registry
  <2>9. QED
    BY <1>2, <2>1, <2>2, <2>3, <2>4, <2>5, <2>6, <2>7, <2>8 DEF WorkerSteps
<1>3. ASSUME NEW c \in Callers, NEW r \in CallType, Step(c, r), owed' \in [Callers -> SUBSET Workers]
      PROVE  TypeOK'
  BY <1>3 DEF Step, TypeOK, registry, workers
<1>4. ASSUME NEW c \in Callers, Calls(c)
      PROVE  TypeOK'
  <2>1. CASE Refuse(c)
    <3>1. [NoCall EXCEPT !.pc = "refused"] \in CallType
      BY DEF NoCall, Ops
    <3>2. QED
      BY <1>3, <2>1, <3>1, Zenon DEF Refuse, TypeOK
  <2>2. ASSUME NEW op \in Ops, NEW us \in SUBSET Uids, NEW ws \in SUBSET Workers,
             Begin(c, op, us, ws)
        PROVE  TypeOK'
    <3>1. [NoCall EXCEPT !.pc = First(op, us), !.op = op, !.uids = us, !.match = ws,
                         !.todo = us, !.targets = IF ByUid(op) THEN {} ELSE here] \in CallType
      BY Zenon DEF NoCall, TypeOK, First
    <3>2. owed' \in [Callers -> SUBSET Workers]
      BY <2>2 DEF Begin, Addressees, TypeOK
    <3>3. QED
      BY <1>3, <2>2, <3>1, <3>2, Zenon DEF Begin
  <2>3. ASSUME NEW u \in Uids, Begin(c, "push", {u}, {})
        PROVE  TypeOK'
    BY <2>2, <2>3 DEF Ops
  <2>4. ASSUME NEW us \in SUBSET Uids, Begin(c, "multicast", us, {})
        PROVE  TypeOK'
    BY <2>2, <2>4 DEF Ops
  <2>5. ASSUME NEW ws \in Audiences, Begin(c, "broadcast", {}, ws)
        PROVE  TypeOK'
    BY <2>2, <2>5, PushAssumption DEF Ops
  <2>6. QED
    BY <1>4, <2>1, <2>3, <2>4, <2>5, Zenon DEF Calls
<1>5. ASSUME NEW c \in Callers, CallSteps(c)
      PROVE  TypeOK'
  <2> call[c] \in CallType
    BY DEF TypeOK
  <2>1. ASSUME NEW pc \in {"returned", "panicked"}, Step(c, Ended(c, pc)), owed' = owed
        PROVE  TypeOK'
    <3>1. Ended(c, pc) \in CallType
      BY Zenon DEF Ended, NoCall
    <3>2. QED
      BY <1>3, <2>1, <3>1, Zenon DEF TypeOK
  <2>2. ASSUME NEW u \in Uids, LoadUid(c, u)
        PROVE  TypeOK'
    <3>1. {latest[u]} \ {NoWorker} \subseteq Workers
      BY DEF TypeOK
    <3>2. [call[c] EXCEPT !.todo = @ \ {u}, !.ids = @ \cup ({latest[u]} \ {NoWorker}),
                          !.pc = IF call[c].todo = {u} THEN "buckets" ELSE "uids"] \in CallType
      BY <3>1, Zenon
    <3>3. QED
      BY <1>3, <2>2, <3>2, Zenon DEF LoadUid, TypeOK
  <2>3. ASSUME NEW w \in Workers, LoadWorker(c, w)
        PROVE  TypeOK'
    <3>1. [call[c] EXCEPT !.ids = @ \ {w}, !.targets = @ \cup ({w} \cap here)] \in CallType
      BY Zenon
    <3>2. QED
      BY <1>3, <2>3, <3>1, Zenon DEF LoadWorker, TypeOK
  <2>4. ASSUME NEW w \in Workers, NextTarget(c, w)
        PROVE  TypeOK'
    <3>1. [call[c] EXCEPT !.targets = @ \ {w}, !.at = w, !.pc = "check"] \in CallType
      BY Zenon
    <3>2. QED
      BY <1>3, <2>4, <3>1, Zenon DEF NextTarget, TypeOK
  <2>5. ASSUME NEW w \in Workers, WalkFinds(c, w)
        PROVE  TypeOK'
    <3>1. [call[c] EXCEPT !.ids = @ \cup {w}, !.at = IF w \in call[c].match THEN w ELSE NoWorker,
                          !.pc = IF w \in call[c].match THEN "check" ELSE "walk"] \in CallType
      BY Zenon
    <3>2. QED
      BY <1>3, <2>5, <3>1, Zenon DEF WalkFinds, TypeOK
  <2>6. CASE PushChecks(c)
    <3>1. /\ [call[c] EXCEPT !.pc = "send"] \in CallType
          /\ [call[c] EXCEPT !.pc = Onward(c), !.at = NoWorker] \in CallType
      BY Zenon DEF Onward
    <3>2. QED
      BY <1>3, <2>1, <2>6, <3>1, Zenon DEF PushChecks, TypeOK
  <2>7. CASE PushSends(c)
    <3>1. call[c].at \in Workers
      BY <2>7 DEF PushSends, CallInv, BeginInv, Current
    <3>2. got' \in [Workers -> [Callers -> Nat]] /\ queued' \in [Workers -> 0..ChanSize]
      BY <2>7, <3>1, PushAssumption DEF PushSends, TypeOK
    <3>3. call' \in [Callers -> CallType]
      <4>1. [call[c] EXCEPT !.pc = Onward(c), !.at = NoWorker] \in CallType
        BY Zenon DEF Onward
      <4>2. call' = [call EXCEPT ![c] = [call[c] EXCEPT !.pc = Onward(c), !.at = NoWorker]]
        BY <2>7, Zenon DEF PushSends, TypeOK
      <4>3. QED
        BY <4>1, <4>2 DEF TypeOK
    <3>4. QED
      BY <2>7, <3>2, <3>3 DEF PushSends, TypeOK, registry
  <2>8. CASE PushPanics(c) \/ Return(c)
    BY <2>1, <2>8 DEF PushPanics, Return
  <2>9. QED
    BY <1>5, <2>2, <2>3, <2>4, <2>5, <2>6, <2>7, <2>8 DEF CallSteps
<1>6. QED
  BY <1>1, <1>2, <1>4, <1>5 DEF PushNext

LEMMA PushInvInit == PushInit => PushInv
<1> SUFFICES ASSUME PushInit
             PROVE  PushInv
  OBVIOUS
<1>1. TypeOK
  <2>1. stopping \in BOOLEAN /\ running \in [Workers -> BOOLEAN]
    BY Zenon DEF PushInit
  <2>2. NoCall.op \in Ops
    BY DEF NoCall, Ops
  <2>3. QED
    <3>1. NoCall \in [pc : {"idle", "uids", "buckets", "walk", "check", "send",
                            "returned", "refused", "panicked"},
                      op : Ops, uids : SUBSET Uids, match : SUBSET Workers,
                      todo : SUBSET Uids, ids : SUBSET Workers, targets : SUBSET Workers,
                      at : Workers \cup {NoWorker}]
      BY <2>2 DEF NoCall
    <3>2. /\ uid \in [Workers -> Uids] /\ put \in [Workers -> {"new", "stored", "named"}]
          /\ here \subseteq Workers /\ latest \in [Uids -> Workers \cup {NoWorker}]
      BY DEF PushInit, Init
    <3>3. /\ off \in [Workers -> {"no", "stopping", "closed"}] /\ others \in 0..MaxOthers
          /\ queued \in [Workers -> 0..ChanSize] /\ got \in [Workers -> [Callers -> Nat]]
          /\ owed \in [Callers -> SUBSET Workers]
      BY PushAssumption DEF PushInit
    <3>4. QED
      BY <2>1, <3>1, <3>2, <3>3 DEF PushInit, TypeOK
<1>2. NamedInv
  BY RegistryAssumption DEF PushInit, Init, NamedInv
<1>3. ASSUME NEW c \in Callers
      PROVE  CallInv(c)
  <2>1. call[c].pc = "idle" /\ \A w \in Workers : got[w][c] = 0
    BY DEF PushInit, NoCall
  <2>2. ~ Active(c) /\ Current(c) = {}
    BY <2>1 DEF Active, Current
  <2>3. BeginInv(c) /\ Reaches(c)
    BY <2>1, <2>2 DEF BeginInv, Reaches
  <2>4. LookupInv(c) /\ SingleInv(c) /\ RangeInv(c) /\ OwedInv(c)
    BY <2>2, Zenon DEF LookupInv, SingleInv, RangeInv, OwedInv
  <2>5. QED
    BY <2>3, <2>4 DEF CallInv
<1>4. QED
  BY <1>1, <1>2, <1>3 DEF PushInv

LEMMA PushInvStep == PushInv /\ [PushNext]_vars => PushInv'
<1> SUFFICES ASSUME PushInv, [PushNext]_vars
             PROVE  PushInv'
  OBVIOUS
<1>1. CASE PushNext
  <2>1. TypeOK' /\ NamedInv'
    BY <1>1, TypeStep, NamedStep DEF PushInv
  <2>2. ASSUME NEW d \in Callers
        PROVE  CallInv(d)'
    <3>1. CASE \E w \in Workers : WorkerSteps(w)
      BY <3>1, WorkerKeepsCalls DEF PushInv
    <3>2. CASE ServerStops
      BY <3>2, WorkerKeepsCalls DEF PushInv
    <3>3. ASSUME NEW c \in Callers, Calls(c) \/ CallSteps(c)
          PROVE  CallInv(d)'
      <4>1. CASE d # c
        BY <3>3, <4>1, OtherCalls DEF PushInv
      <4>2. CASE d = c /\ Calls(c)
        BY <4>2, BeginKeeps DEF PushInv
      <4>3. CASE d = c /\ CallSteps(c)
        <5>1. CASE PushPanics(c)
          BY <4>3, <5>1, EndKeeps DEF PushPanics, PushInv
        <5>2. QED
          BY <4>3, <5>1, LoadUidKeeps, LoadWorkerKeeps, NextTargetKeeps, WalkFindsKeeps,
             PushChecksKeeps, PushSendsKeeps, ReturnKeeps DEF CallSteps, PushInv
      <4>4. QED
        BY <3>3, <4>1, <4>2, <4>3
    <3>4. QED
      BY <1>1, <3>1, <3>2, <3>3 DEF PushNext
  <2>3. QED
    BY <2>1, <2>2 DEF PushInv
<1>2. CASE UNCHANGED vars
  <2>1. /\ uid' = uid /\ put' = put /\ here' = here /\ latest' = latest /\ stopping' = stopping
        /\ off' = off /\ running' = running /\ queued' = queued /\ others' = others
        /\ got' = got /\ call' = call /\ owed' = owed
    BY <1>2 DEF vars, workers, registry
  <2>2. TypeOK' /\ NamedInv'
    BY <2>1 DEF PushInv, TypeOK, NamedInv
  <2>3. ASSUME NEW c \in Callers
        PROVE  CallInv(c)'
    <3>1. Active(c)' = Active(c) /\ Current(c)' = Current(c) /\ CallInv(c)
      BY <2>1 DEF Active, Current, PushInv
    <3>2. BeginInv(c)' /\ LookupInv(c)'
      BY <2>1, <3>1, Zenon DEF CallInv, BeginInv, LookupInv
    <3>3. SingleInv(c)' /\ RangeInv(c)'
      BY <2>1, <3>1, Zenon DEF CallInv, SingleInv, RangeInv
    <3>4. OwedInv(c)' /\ Reaches(c)'
      BY <2>1, <3>1, Zenon DEF CallInv, OwedInv, Reaches
    <3>5. QED
      BY <3>2, <3>3, <3>4 DEF CallInv
  <2>4. QED
    BY <2>2, <2>3 DEF PushInv
<1>3. QED
  BY <1>1, <1>2

\* The inductive invariant of the pushes: where each worker is on its way from the
\* registry to the push, in each call.
THEOREM PushInvariant == PushSpec => []PushInv
BY PushInvInit, PushInvStep, PTL DEF PushSpec

\* Push, Multicast and Broadcast reach only workers they are for, and each at most once.
THEOREM Addressed == PushSpec => []OnlyAddressees
<1>1. PushInv => OnlyAddressees
  BY DEF PushInv, CallInv, Reaches, OnlyAddressees
<1>2. QED
  BY <1>1, PushInvariant, PTL

\* A call that returns has reached every worker that stayed in the registry, found by its
\* user or matching and not stopping, while it ran.
THEOREM Reached == PushSpec => []ReturnedHasReached
<1>1. PushInv => ReturnedHasReached
  BY DEF PushInv, CallInv, Reaches, ReturnedHasReached
<1>2. QED
  BY <1>1, PushInvariant, PTL

=============================================================================
