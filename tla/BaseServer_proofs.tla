-------------------------- MODULE BaseServer_proofs --------------------------
(***************************************************************************)
(* For any accept loops, connections and callers of Disconnect: a served     *)
(* connection has its goroutine, and Stop reaches whoever was registered.    *)
(***************************************************************************)
EXTENDS BaseServer, TLAPS

\* A connection gets its goroutine when it is accepted.  Until it is registered nobody
\* else knows it, so its phase is that of its handshake.
AcceptInv == \A c \in Conns :
  /\ phase[c] \in {"dialing", "refused"} => work[c] = "none"
  /\ work[c] = "start" => phase[c] = "handshake"
  /\ c \in workers \cup toVisit \cup visited => work[c] \notin {"none", "start"}

\* Disconnect holds a worker it has found.
KickInv == \A k \in Kickers :
  kick[k].pc \in {"del", "stop"} => kick[k].conn \in Conns /\ work[kick[k].conn] \notin {"none", "start"}

\* A worker that Stop was the first to stop is waited for until it is closed.
ClosingInv == \A c \in closing : ~ Served(c) /\ (c \in waiting \/ phase[c] = "closed")

\* c is closed, or somebody other than Stop is taking it out.
Out(c) ==
  \/ phase[c] = "closed"
  \/ phase[c] = "leaving" /\ c \notin closing
  \/ work[c] = "stop"
  \/ \E k \in Kickers : kick[k] = [pc |-> "stop", conn |-> c]

\* Whom the Walk has found Stop waits for, unless that one is out; whoever was there
\* at its beginning it is still to find, unless that one is out.
WalkInv ==
  /\ \A c \in visited : c \in waiting \/ Out(c)
  /\ stopPc # "none" => \A c \in toVisit : \/ stopPc = "walk" /\ c \in workers
                                           \/ c \in waiting
                                           \/ Out(c)
  /\ stopPc = "done" => waiting = {}

ServerInv == TypeOK /\ AcceptInv /\ KickInv /\ ClosingInv /\ WalkInv /\ ServedHasGoroutine

-----------------------------------------------------------------------------
\* A connection that is out stays out, whoever takes the next step, or Stop waits
\* for it.
LEMMA OutStays ==
  ASSUME TypeOK, AcceptInv, KickInv, ClosingInv, Next, NEW c \in Conns, Out(c),
         work[c] \notin {"none", "start"}
  PROVE  Out(c)' \/ c \in waiting'
<1> USE DEF Out, TypeOK, Served
<1>1. CASE CancelContext \/ StopCall \/ StopWalked \/ \E d \in Conns : StopVisits(d)
  BY <1>1 DEF CancelContext, StopCall, TurnOff, StopWalked, StopVisits, serving, stop
<1>2. CASE StopListener
  BY <1>2 DEF StopListener
<1>3. ASSUME NEW l \in Loops, LoopSteps(l)
      PROVE  Out(c)'
  <2>1. CASE LoopChecks(l) \/ LoopAcceptFails(l) \/ LoopStops(l)
    BY <2>1 DEF LoopChecks, LoopAcceptFails, LoopStops, TurnOff, serving, stop
  <2>2. ASSUME NEW d \in Conns, LoopAccepts(l, d) \/ LoopRefuses(l, d)
        PROVE  Out(c)'
    <3>1. d # c
      BY <2>2 DEF LoopAccepts, LoopRefuses, AcceptInv
    <3>2. phase'[c] = phase[c] /\ work'[c] = work[c] /\ kick' = kick /\ closing' = closing
      BY <2>2, <3>1 DEF LoopAccepts, LoopRefuses, stop
    <3>3. QED
      BY <3>2
  <2>3. QED
    BY <1>3, <2>1, <2>2 DEF LoopSteps
<1>4. ASSUME NEW d \in Conns, WorkSteps(d) \/ WorkLeaves(d)
      PROVE  Out(c)' \/ c \in waiting'
  <2>1. CASE d # c
    <3>1. phase'[c] = phase[c] /\ work'[c] = work[c] /\ kick' = kick /\ closing' = closing
      BY <1>4, <2>1 DEF WorkSteps, WorkLeaves, WorkStarts, WorkAdds, WorkDeletes, WorkStops,
                        GoWork, LeavePhase, stop
    <3>2. QED
      BY <3>1
  <2>2. CASE d = c /\ WorkStops(c)
    <3>1. kick' = kick /\ closing' = closing /\ waiting' = waiting
      BY <2>2 DEF WorkStops, stop
    <3>2. phase'[c] = IF Served(c) THEN "leaving" ELSE phase[c]
      BY <2>2 DEF WorkStops, LeavePhase
    <3>3. phase[c] \notin {"dialing", "refused"}
      BY DEF AcceptInv
    <3>4. QED
      BY <3>1, <3>2, <3>3 DEF ClosingInv
  <2>3. CASE d = c /\ ~ WorkStops(c)
    <3>1. phase' = phase /\ kick' = kick /\ closing' = closing
      BY <1>4, <2>3 DEF WorkSteps, WorkLeaves, WorkStarts, WorkAdds, WorkDeletes, stop
    <3>2. work[c] # "stop"
      BY <1>4, <2>3 DEF WorkSteps, WorkLeaves, WorkStarts, WorkAdds, WorkDeletes
    <3>3. QED
      BY <3>1, <3>2
  <2>4. QED
    BY <1>4, <2>1, <2>2, <2>3
<1>5. ASSUME NEW d \in Conns, WorkerCloses(d) \/ StopWorkerSteps(d)
      PROVE  Out(c)'
  <2>1. work' = work /\ kick' = kick
    BY <1>5 DEF WorkerCloses, StopWorkerSteps, StopStopsWorker, StopWorkerReturns, serving
  <2>2. CASE WorkerCloses(d)
    <3>1. closing' = closing /\ phase'[c] = IF c = d THEN "closed" ELSE phase[c]
      BY <2>2 DEF WorkerCloses, stop
    <3>2. QED
      BY <2>1, <3>1
  <2>3. CASE StopStopsWorker(d)
    <3>1. /\ closing' = closing \cup {d} /\ Served(d)
          /\ phase'[c] = IF c = d THEN "leaving" ELSE phase[c]
      BY <2>3 DEF StopStopsWorker, LeavePhase
    <3>2. QED
      BY <2>1, <3>1
  <2>4. CASE StopWorkerReturns(d)
    BY <2>1, <2>4 DEF StopWorkerReturns, serving
  <2>5. QED
    BY <1>5, <2>2, <2>3, <2>4 DEF StopWorkerSteps
<1>6. ASSUME NEW k \in Kickers,
             KickCalls(k) \/ KickSteps(k)
      PROVE  Out(c)' \/ c \in waiting'
  <2>1. work' = work /\ closing' = closing /\ waiting' = waiting
    BY <1>6 DEF KickSteps, KickDeletes, KickStops, KickFinds, KickCalls, KickMisses, serving, stop
  <2>2. \A j \in Kickers \ {k} : kick'[j] = kick[j]
    BY <1>6 DEF KickSteps, KickDeletes, KickStops, KickFinds, KickCalls, KickMisses
  <2>3. CASE KickDeletes(k) \/ KickCalls(k) \/ KickMisses(k) \/ \E d \in Conns : KickFinds(k, d)
    <3>1. phase' = phase /\ kick[k].pc # "stop"
      BY <2>3 DEF KickDeletes, KickFinds, KickCalls, KickMisses, serving
    <3>2. QED
      BY <2>1, <2>2, <3>1
  <2>4. CASE KickStops(k)
    <3>1. CASE kick[k].conn = c
      <4>1. phase'[c] = IF Served(c) THEN "leaving" ELSE phase[c]
        BY <2>4, <3>1 DEF KickStops, LeavePhase
      <4>2. phase[c] \notin {"dialing", "refused"}
        BY DEF AcceptInv
      <4>3. QED
        BY <2>1, <4>1, <4>2 DEF ClosingInv
    <3>2. CASE kick[k].conn # c
      <4>1. phase'[c] = phase[c] /\ kick[k] # [pc |-> "stop", conn |-> c]
        BY <2>4, <3>2 DEF KickStops, LeavePhase
      <4>2. QED
        BY <2>1, <2>2, <4>1
    <3>3. QED
      BY <3>1, <3>2
  <2>5. QED
    BY <1>6, <2>3, <2>4 DEF KickSteps
<1>7. QED
  BY <1>1, <1>2, <1>3, <1>4, <1>5, <1>6 DEF Next, StopSteps

\* Stop waits for a worker until that one is out.
LEMMA WaitingStays ==
  ASSUME TypeOK, AcceptInv, Next, NEW c \in Conns, c \in waiting
  PROVE  Out(c)' \/ c \in waiting'
<1>1. CASE StopWorkerReturns(c)
  <2>1. /\ phase'[c] = phase[c] /\ closing' = closing /\ ~ Served(c)
        /\ c \in closing => phase[c] = "closed"
    BY <1>1 DEF StopWorkerReturns, serving
  <2>2. work[c] # "none"
    BY DEF AcceptInv, TypeOK
  <2>3. QED
    BY <2>1, <2>2 DEF AcceptInv, TypeOK, Served, Out
<1>2. CASE ~ StopWorkerReturns(c)
  BY <1>2 DEF Next, CancelContext, StopCall, TurnOff, StopSteps, StopWalked, StopListener,
              StopVisits, LoopSteps, LoopChecks, LoopAcceptFails, LoopStops, LoopAccepts,
              LoopRefuses, WorkSteps, WorkStarts, WorkAdds, WorkDeletes, WorkStops, WorkLeaves,
              WorkerCloses, StopWorkerSteps, StopStopsWorker, StopWorkerReturns, KickSteps, KickDeletes,
              KickStops, KickFinds, KickCalls, KickMisses, stop
<1>3. QED
  BY <1>1, <1>2

\* Whoever deletes a worker is about to stop it.
LEMMA RegisteredStays ==
  ASSUME TypeOK, Next, NEW c \in workers
  PROVE  Out(c)' \/ c \in workers'
<1>1. CASE WorkDeletes(c)
  BY <1>1 DEF WorkDeletes, GoWork, Out, TypeOK
<1>2. ASSUME NEW k \in Kickers, KickDeletes(k), kick[k].conn = c
      PROVE  Out(c)'
  <2>1. kick'[k] = [kick[k] EXCEPT !.pc = "stop"]
    BY <1>2 DEF KickDeletes, TypeOK
  <2>2. kick[k] \in [pc : {"idle", "find", "del", "stop"}, conn : Conns \cup {NoConn}]
    BY DEF TypeOK
  <2>3. kick'[k] = [pc |-> "stop", conn |-> c]
    BY <1>2, <2>1, <2>2
  <2>4. QED
    BY <2>3 DEF Out
<1>3. CASE ~ WorkDeletes(c) /\ \A k \in Kickers : ~ (KickDeletes(k) /\ kick[k].conn = c)
  BY <1>3 DEF Next, CancelContext, StopCall, StopSteps, StopWalked, StopListener,
              StopVisits, LoopSteps, LoopChecks, LoopAcceptFails, LoopStops, LoopAccepts,
              LoopRefuses, WorkSteps, WorkStarts, WorkAdds, WorkDeletes, WorkStops, WorkLeaves,
              WorkerCloses, StopWorkerSteps, StopStopsWorker, StopWorkerReturns, KickSteps, KickDeletes,
              KickStops, KickFinds, KickCalls, KickMisses, serving
<1>4. QED
  BY <1>1, <1>2, <1>3

\* How far Stop is changes only by Stop's own steps.
LEMMA StopFrame ==
  ASSUME TypeOK, Next
  PROVE  \/ stopPc' = stopPc /\ toVisit' = toVisit /\ visited' = visited /\ waiting' \subseteq waiting
         \/ stopPc' = "walk" /\ toVisit' = workers /\ workers' = workers /\ visited' = visited
            /\ waiting' = waiting
         \/ StopWalked \/ StopListener \/ \E c \in Conns : StopVisits(c)
BY DEF Next, CancelContext, StopCall, TurnOff, StopSteps, LoopSteps, LoopChecks,
       LoopAcceptFails, LoopStops, LoopAccepts, LoopRefuses, WorkSteps, WorkStarts, WorkAdds,
       WorkDeletes, WorkStops, WorkLeaves, WorkerCloses, StopWorkerSteps, StopStopsWorker,
       StopWorkerReturns, KickSteps, KickDeletes, KickStops, KickFinds, KickCalls, KickMisses, serving, stop

LEMMA WalkStep ==
  ASSUME ServerInv, Next
  PROVE  WalkInv'
<1> USE DEF ServerInv
<1> DEFINE Kept(c) == c \in waiting \/ Out(c)
<1>1. ASSUME NEW c \in toVisit \cup visited, Kept(c)
      PROVE  Out(c)' \/ c \in waiting'
  <2>1. c \in Conns
    BY DEF TypeOK
  <2>2. CASE c \in waiting
    BY <2>1, <2>2, WaitingStays
  <2>3. CASE Out(c)
    <3>1. work[c] \notin {"none", "start"}
      BY <2>1 DEF AcceptInv
    <3>2. QED
      BY <2>1, <2>3, <3>1, OutStays
  <2>4. QED
    BY <1>1, <2>2, <2>3
<1>2. CASE /\ stopPc' = stopPc /\ toVisit' = toVisit /\ visited' = visited
           /\ waiting' \subseteq waiting
  <2>1. \A c \in visited' : c \in waiting' \/ Out(c)'
    BY <1>1, <1>2 DEF WalkInv
  <2>2. ASSUME stopPc' # "none", NEW c \in toVisit'
        PROVE  \/ stopPc' = "walk" /\ c \in workers'
               \/ c \in waiting'
               \/ Out(c)'
    <3>1. CASE stopPc = "walk" /\ c \in workers
      BY <1>2, <3>1, RegisteredStays
    <3>2. CASE Kept(c)
      BY <1>1, <1>2, <2>2, <3>2
    <3>3. QED
      BY <1>2, <2>2, <3>1, <3>2 DEF WalkInv
  <2>3. stopPc' = "done" => waiting' = {}
    BY <1>2 DEF WalkInv
  <2>4. QED
    BY <2>1, <2>2, <2>3 DEF WalkInv
<1>3. CASE /\ stopPc' = "walk" /\ toVisit' = workers /\ workers' = workers
           /\ visited' = visited /\ waiting' = waiting
  BY <1>1, <1>3 DEF WalkInv
<1>4. CASE StopWalked \/ StopListener
  <2>1. /\ toVisit' = toVisit /\ visited' = visited /\ waiting' = waiting
        /\ stopPc' # "none" /\ stopPc' # "walk" /\ stopPc # "none"
    BY <1>4 DEF StopWalked, StopListener
  <2>2. \A c \in toVisit : Kept(c)
    BY <1>4 DEF StopWalked, StopListener, WalkInv
  <2>3. stopPc' = "done" => waiting' = {}
    BY <1>4 DEF StopWalked, StopListener
  <2>4. QED
    BY <1>1, <2>1, <2>2, <2>3 DEF WalkInv
<1>5. ASSUME NEW d \in Conns, StopVisits(d)
      PROVE  WalkInv'
  <2>1. /\ visited' = visited \cup {d} /\ d \in waiting' /\ toVisit' = toVisit
        /\ stopPc' = "walk" /\ stopPc = "walk" /\ workers' = workers
    BY <1>5 DEF StopVisits, serving
  <2>2. QED
    BY <1>1, <2>1 DEF WalkInv
<1>6. QED
  BY <1>2, <1>3, <1>4, <1>5, StopFrame

-----------------------------------------------------------------------------
LEMMA TypeStep ==
  ASSUME TypeOK, KickInv, Next
  PROVE  TypeOK'
<1> USE DEF TypeOK
<1>1. CASE CancelContext \/ StopCall \/ StopWalked \/ \E d \in Conns : StopVisits(d)
  BY <1>1 DEF CancelContext, StopCall, TurnOff, StopWalked, StopVisits, serving, stop
<1>2. CASE StopListener
  BY <1>2 DEF StopListener
<1>3. ASSUME NEW l \in Loops, LoopSteps(l)
      PROVE  TypeOK'
  <2>1. CASE LoopChecks(l) \/ LoopAcceptFails(l)
    BY <2>1 DEF LoopChecks, LoopAcceptFails, serving, stop
  <2>2. CASE LoopStops(l)
    BY <2>2 DEF LoopStops, TurnOff, serving, stop
  <2>3. ASSUME NEW d \in Conns, LoopAccepts(l, d) \/ LoopRefuses(l, d)
        PROVE  TypeOK'
    BY <2>3 DEF LoopAccepts, LoopRefuses, stop
  <2>4. QED
    BY <1>3, <2>1, <2>2, <2>3 DEF LoopSteps
<1>4. ASSUME NEW d \in Conns, WorkSteps(d) \/ WorkLeaves(d)
      PROVE  TypeOK'
  BY <1>4 DEF WorkSteps, WorkLeaves, WorkStarts, WorkAdds, WorkDeletes, WorkStops,
              GoWork, LeavePhase, stop
<1>5. ASSUME NEW d \in Conns, WorkerCloses(d) \/ StopWorkerSteps(d)
      PROVE  TypeOK'
  BY <1>5 DEF WorkerCloses, StopWorkerSteps, StopStopsWorker, StopWorkerReturns, LeavePhase,
              serving, stop
<1>6. ASSUME NEW k \in Kickers, KickDeletes(k)
      PROVE  TypeOK'
  BY <1>6 DEF KickDeletes, stop
<1>7. ASSUME NEW k \in Kickers, KickStops(k)
      PROVE  TypeOK'
  BY <1>7 DEF KickStops, LeavePhase, stop
<1>8. ASSUME NEW k \in Kickers, NEW d \in Conns, KickFinds(k, d)
      PROVE  TypeOK'
  BY <1>8 DEF KickFinds, serving, stop
<1>9. ASSUME NEW k \in Kickers, KickCalls(k) \/ KickMisses(k)
      PROVE  TypeOK'
  BY <1>9 DEF KickCalls, KickMisses, serving, stop
<1>10. QED
  BY <1>1, <1>2, <1>3, <1>4, <1>5, <1>6, <1>7, <1>8, <1>9 DEF Next, StopSteps, KickSteps

\* What the steps do to the phase and the goroutine of one connection.
LEMMA ConnStep ==
  ASSUME TypeOK, AcceptInv, KickInv, Next, NEW c \in Conns
  PROVE  \/ phase'[c] = phase[c] /\ work'[c] = work[c]
         \/ phase[c] = "dialing" /\ phase'[c] = "handshake" /\ work'[c] = "start"
         \/ phase[c] = "dialing" /\ phase'[c] = "refused" /\ work'[c] = work[c]
         \/ work[c] = "start" /\ phase'[c] = "connected" /\ work'[c] = "add"
         \/ work[c] \in {"start", "run", "del"} /\ phase'[c] = phase[c]
            /\ work'[c] \in {"del", "stop"}
         \/ work[c] = "add" /\ phase'[c] = phase[c] /\ work'[c] = "run"
         \/ work[c] = "stop" /\ work'[c] = "done"
            /\ phase'[c] = IF Served(c) THEN "leaving" ELSE phase[c]
         \/ work[c] \notin {"none", "start"} /\ Served(c) /\ phase'[c] = "leaving"
            /\ work'[c] = work[c]
         \/ phase[c] = "leaving" /\ phase'[c] = "closed" /\ work'[c] = work[c]
<1> USE DEF TypeOK
<1>1. CASE CancelContext \/ StopCall \/ StopWalked \/ \E d \in Conns : StopVisits(d)
  BY <1>1 DEF CancelContext, StopCall, StopWalked, StopVisits, serving
<1>2. CASE StopListener
  BY <1>2 DEF StopListener
<1>3. ASSUME NEW l \in Loops, LoopSteps(l)
      PROVE  \/ phase'[c] = phase[c] /\ work'[c] = work[c]
             \/ phase[c] = "dialing" /\ phase'[c] = "handshake" /\ work'[c] = "start"
             \/ phase[c] = "dialing" /\ phase'[c] = "refused" /\ work'[c] = work[c]
  BY <1>3 DEF LoopSteps, LoopChecks, LoopAcceptFails, LoopStops, LoopAccepts, LoopRefuses,
              serving
<1>4. ASSUME NEW d \in Conns, WorkSteps(d) \/ WorkLeaves(d)
      PROVE  \/ phase'[c] = phase[c] /\ work'[c] = work[c]
             \/ work[c] = "start" /\ phase'[c] = "connected" /\ work'[c] = "add"
             \/ work[c] \in {"start", "run", "del"} /\ phase'[c] = phase[c]
                /\ work'[c] \in {"del", "stop"}
             \/ work[c] = "add" /\ phase'[c] = phase[c] /\ work'[c] = "run"
             \/ work[c] = "stop" /\ work'[c] = "done"
                /\ phase'[c] = IF Served(c) THEN "leaving" ELSE phase[c]
  BY <1>4 DEF WorkSteps, WorkLeaves, WorkStarts, WorkAdds, WorkDeletes, WorkStops, GoWork,
              LeavePhase
<1>5. ASSUME NEW d \in Conns, WorkerCloses(d) \/ StopWorkerSteps(d)
      PROVE  \/ phase'[c] = phase[c] /\ work'[c] = work[c]
             \/ work[c] \notin {"none", "start"} /\ Served(c) /\ phase'[c] = "leaving"
                /\ work'[c] = work[c]
             \/ phase[c] = "leaving" /\ phase'[c] = "closed" /\ work'[c] = work[c]
  BY <1>5 DEF WorkerCloses, StopWorkerSteps, StopStopsWorker, StopWorkerReturns, LeavePhase,
              serving, AcceptInv
<1>6. ASSUME NEW k \in Kickers,
             KickCalls(k) \/ KickSteps(k)
      PROVE  \/ phase'[c] = phase[c] /\ work'[c] = work[c]
             \/ work[c] \notin {"none", "start"} /\ Served(c) /\ phase'[c] = "leaving"
                /\ work'[c] = work[c]
  BY <1>6 DEF KickSteps, KickDeletes, KickStops, KickFinds, KickCalls, KickMisses, LeavePhase, serving, KickInv
<1>7. QED
  BY <1>1, <1>2, <1>3, <1>4, <1>5, <1>6 DEF Next, StopSteps

\* A worker is registered by its own goroutine, after the handshake; Walk and Disconnect
\* find registered ones.
LEMMA AcceptStep ==
  ASSUME TypeOK, AcceptInv, KickInv, Next
  PROVE  AcceptInv'
<1> SUFFICES ASSUME NEW c \in Conns
             PROVE  /\ phase'[c] \in {"dialing", "refused"} => work'[c] = "none"
                    /\ work'[c] = "start" => phase'[c] = "handshake"
                    /\ c \in workers' \cup toVisit' \cup visited'
                         => work'[c] \notin {"none", "start"}
  BY DEF AcceptInv
<1>1. c \in workers' \cup toVisit' \cup visited'
        => c \in workers \cup toVisit \cup visited \/ work[c] = "add"
  BY DEF Next, CancelContext, StopCall, TurnOff, StopSteps, StopWalked, StopListener,
         StopVisits, LoopSteps, LoopChecks, LoopAcceptFails, LoopStops, LoopAccepts,
         LoopRefuses, WorkSteps, WorkStarts, WorkAdds, WorkDeletes, WorkStops, WorkLeaves,
         WorkerCloses, StopWorkerSteps, StopStopsWorker, StopWorkerReturns, KickSteps, KickDeletes,
         KickStops, KickFinds, KickCalls, KickMisses, serving, stop
<1>2. QED
  BY <1>1, ConnStep DEF AcceptInv, Served

LEMMA GoroutineStep ==
  ASSUME TypeOK, AcceptInv, KickInv, ServedHasGoroutine, Next
  PROVE  ServedHasGoroutine'
<1> SUFFICES ASSUME NEW c \in Conns, Served(c)'
             PROVE  work'[c] \notin {"none", "done"}
  BY DEF ServedHasGoroutine
<1> QED
  BY ConnStep DEF ServedHasGoroutine, Served

LEMMA KickStep ==
  ASSUME TypeOK, AcceptInv, KickInv, Next
  PROVE  KickInv'
<1> SUFFICES ASSUME NEW k \in Kickers, kick'[k].pc \in {"del", "stop"}
             PROVE  kick'[k].conn \in Conns /\ work'[kick'[k].conn] \notin {"none", "start"}
  BY DEF KickInv
<1>1. /\ kick'[k].conn \in Conns
      /\ work[kick'[k].conn] \notin {"none", "start"}
  <2>1. CASE kick'[k] = kick[k]
    BY <2>1 DEF KickInv
  <2>2. CASE KickDeletes(k)
    <3>1. kick'[k] = [kick[k] EXCEPT !.pc = "stop"]
      BY <2>2 DEF KickDeletes, TypeOK
    <3>2. kick[k] \in [pc : {"idle", "find", "del", "stop"}, conn : Conns \cup {NoConn}]
      BY DEF TypeOK
    <3>3. kick'[k].conn = kick[k].conn /\ kick[k].pc = "del"
      BY <2>2, <3>1, <3>2 DEF KickDeletes
    <3>4. QED
      BY <3>3 DEF KickInv
  <2>3. CASE KickStops(k)
    BY <2>3 DEF KickStops, TypeOK
  <2>4. ASSUME NEW d \in Conns, KickFinds(k, d)
        PROVE  /\ kick'[k].conn \in Conns
               /\ work[kick'[k].conn] \notin {"none", "start"}
    BY <2>4 DEF KickFinds, TypeOK, AcceptInv
  <2>5. \/ kick'[k] = kick[k] \/ KickDeletes(k) \/ KickStops(k) \/ KickCalls(k) \/ KickMisses(k)
        \/ \E d \in Conns : KickFinds(k, d)
    BY DEF Next, CancelContext, StopCall, StopSteps, StopWalked, StopListener,
           StopVisits, LoopSteps, LoopChecks, LoopAcceptFails, LoopStops, LoopAccepts,
           LoopRefuses, WorkSteps, WorkStarts, WorkAdds, WorkDeletes, WorkStops, WorkLeaves,
           WorkerCloses, StopWorkerSteps, StopStopsWorker, StopWorkerReturns, KickSteps, KickDeletes,
           KickStops, KickFinds, KickCalls, KickMisses, TypeOK
  <2>6. CASE KickCalls(k) \/ KickMisses(k)
    BY <2>6 DEF KickCalls, KickMisses, TypeOK
  <2>7. QED
    BY <2>1, <2>2, <2>3, <2>4, <2>5, <2>6
<1>2. QED
  BY <1>1, ConnStep DEF AcceptInv

LEMMA ClosingStep ==
  ASSUME TypeOK, AcceptInv, KickInv, ClosingInv, Next
  PROVE  ClosingInv'
<1> SUFFICES ASSUME NEW c \in closing'
             PROVE  ~ Served(c)' /\ (c \in waiting' \/ phase'[c] = "closed")
  BY DEF ClosingInv
<1>1. c \in Conns
  BY TypeStep DEF TypeOK
<1>2. CASE c \in closing
  <2>1. ~ Served(c)'
    BY <1>1, <1>2, ConnStep DEF ClosingInv, Served, AcceptInv, TypeOK
  <2>2. phase[c] = "closed" => phase'[c] = "closed"
    BY <1>1, <1>2, ConnStep DEF Served, AcceptInv, TypeOK
  <2>3. CASE c \in waiting
    <3>1. CASE StopWorkerReturns(c)
      BY <1>2, <2>1, <3>1 DEF StopWorkerReturns, serving
    <3>2. CASE ~ StopWorkerReturns(c)
      <4>1. c \in waiting'
        BY <2>3, <3>2
        DEF Next, CancelContext, StopCall, TurnOff, StopSteps, StopWalked, StopListener,
            StopVisits, LoopSteps, LoopChecks, LoopAcceptFails, LoopStops, LoopAccepts,
            LoopRefuses, WorkSteps, WorkStarts, WorkAdds, WorkDeletes, WorkStops, WorkLeaves,
            WorkerCloses, StopWorkerSteps, StopStopsWorker, StopWorkerReturns, KickSteps, KickDeletes,
            KickStops, KickFinds, KickCalls, KickMisses, stop
      <4>2. QED
        BY <2>1, <4>1
    <3>3. QED
      BY <3>1, <3>2
  <2>4. QED
    BY <1>2, <2>1, <2>2, <2>3 DEF ClosingInv
<1>3. CASE c \notin closing
  <2>1. StopStopsWorker(c)
    BY <1>3
    DEF Next, CancelContext, StopCall, TurnOff, StopSteps, StopWalked, StopListener,
        StopVisits, LoopSteps, LoopChecks, LoopAcceptFails, LoopStops, LoopAccepts,
        LoopRefuses, WorkSteps, WorkStarts, WorkAdds, WorkDeletes, WorkStops, WorkLeaves,
        WorkerCloses, StopWorkerSteps, StopStopsWorker, StopWorkerReturns, KickSteps, KickDeletes,
        KickStops, KickFinds, KickCalls, KickMisses, stop
  <2>2. c \in waiting' /\ phase'[c] = "leaving"
    BY <1>1, <2>1 DEF StopStopsWorker, LeavePhase, TypeOK
  <2>3. QED
    BY <2>2 DEF Served
<1>4. QED
  BY <1>2, <1>3

-----------------------------------------------------------------------------
LEMMA ServerInit == Init => ServerInv
<1> SUFFICES ASSUME Init
             PROVE  ServerInv
  OBVIOUS
<1>1. TypeOK
  <2>1. ctxDone \in BOOLEAN /\ listening \in BOOLEAN /\ stopping \in BOOLEAN
    BY DEF Init
  <2>2. QED
    BY <2>1 DEF Init, TypeOK
<1>2. AcceptInv /\ KickInv /\ ClosingInv /\ WalkInv
  BY DEF Init, AcceptInv, KickInv, ClosingInv, WalkInv
<1>3. ServedHasGoroutine
  BY DEF Init, ServedHasGoroutine, Served
<1>4. QED
  BY <1>1, <1>2, <1>3 DEF ServerInv

LEMMA ServerStep == ServerInv /\ [Next]_vars => ServerInv'
<1> SUFFICES ASSUME ServerInv, [Next]_vars
             PROVE  ServerInv'
  OBVIOUS
<1>1. CASE Next
  BY <1>1, TypeStep, AcceptStep, KickStep, ClosingStep, WalkStep, GoroutineStep DEF ServerInv
<1>2. CASE UNCHANGED vars
  BY <1>2 DEF vars, serving, stop, ServerInv, TypeOK, AcceptInv, KickInv, ClosingInv, WalkInv,
              Out, ServedHasGoroutine, Served
<1>3. QED
  BY <1>1, <1>2

\* The inductive invariant of the server: who knows a connection, and what Stop has
\* found of the registry.
THEOREM ServerInvariant == Spec => []ServerInv
BY ServerInit, ServerStep, PTL DEF Spec

\* A connection that is being served has its goroutine, whatever fails and whoever stops
\* or disconnects it.
THEOREM HasGoroutine == Spec => []ServedHasGoroutine
<1>1. ServerInv => ServedHasGoroutine
  BY DEF ServerInv
<1>2. QED
  BY <1>1, ServerInvariant, PTL

\* When Stop returns, whoever was registered at its beginning is closed or somebody else
\* is taking it out, however many connections come, leave and are disconnected
\* during the Walk.
THEOREM StopReaches == Spec => []StopReachesRegistered
<1>1. ServerInv => StopReachesRegistered
  BY DEF ServerInv, WalkInv, Out, StopReachesRegistered
<1>2. QED
  BY <1>1, ServerInvariant, PTL

=============================================================================
