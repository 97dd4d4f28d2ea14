----------------------------- MODULE BaseServer -----------------------------
(***************************************************************************)
(* BaseServer of internal/server.go on the listener of tcp/server: accept    *)
(* loops, the goroutines that serve the connections, Disconnect and Stop.    *)
(*                                                                          *)
(* A worker is reduced to its lifecycle (Worker.tla has the rest): Run ends  *)
(* once the worker is stopped, its peer is gone or the context is done.      *)
(* External: TurnOff(f) runs f for its first caller only; GoAndStop(run,     *)
(* stop) runs stop when run has returned.                                    *)
(***************************************************************************)
EXTENDS Naturals, FiniteSets

CONSTANTS
  Loops,    \* accept loops: conf.Worker.WorkerSize of them
  Conns,    \* connections that clients open
  Kickers,  \* goroutines that call Disconnect
  NoConn

ASSUME NoConnAssumption == NoConn \notin Conns

VARIABLES
  ctxDone,    \* the context given to Start is done
  listening,  \* the listener has not been closed
  loop,       \* per accept loop: where it is
  phase,      \* per connection: "dialing", "refused", or the worker's lifecycle
  work,       \* per connection: where BaseServer.work is
  workers,    \* the connections in the workerManager
  stopping,   \* OnStopping of the server
  stopPc,     \* where the function given to TurnOff is
  toVisit,    \* the workers that were there when Walk began
  visited,    \* the workers Walk has found; each has a goroutine that stops it
  waiting,    \* those whose Stop has not returned
  closing,    \* those that Stop was the first to stop
  kick        \* per kicker: where it is, and the worker it holds

serving == <<phase, work, workers>>
stop    == <<stopping, stopPc, toVisit, visited, waiting, closing>>
vars    == <<ctxDone, listening, loop, serving, stop, kick>>

Served(c) == phase[c] \in {"handshake", "connected"}

\* Start: the listener listens, the accept loops run.
Init ==
  /\ ctxDone = FALSE /\ listening = TRUE
  /\ loop = [l \in Loops |-> "check"]
  /\ phase = [c \in Conns |-> "dialing"]
  /\ work = [c \in Conns |-> "none"]
  /\ workers = {}
  /\ stopping = FALSE /\ stopPc = "none"
  /\ toVisit = {} /\ visited = {} /\ waiting = {} /\ closing = {}
  /\ kick = [k \in Kickers |-> [pc |-> "idle", conn |-> NoConn]]

\* The application cancels the context given to Start.
CancelContext ==
  /\ ~ ctxDone
  /\ ctxDone' = TRUE
  /\ UNCHANGED <<listening, loop, serving, stop, kick>>

\* Stop: the first caller of TurnOff starts the Walk, over the workers of now.
TurnOff ==
  IF stopping
    THEN UNCHANGED stop
    ELSE /\ stopping' = TRUE /\ stopPc' = "walk" /\ toVisit' = workers
         /\ UNCHANGED <<visited, waiting, closing>>

-----------------------------------------------------------------------------
(* acceptLoop.                                                                *)

LoopChecks(l) ==
  /\ loop[l] = "check"
  /\ loop' = [loop EXCEPT ![l] = IF stopping \/ ctxDone THEN "stop" ELSE "accept"]
  /\ UNCHANGED <<ctxDone, listening, serving, stop, kick>>

\* accept: a connection of the backlog gets a goroutine that serves it.
LoopAccepts(l, c) ==
  /\ loop[l] = "accept"
  /\ listening
  /\ phase[c] = "dialing"
  /\ phase' = [phase EXCEPT ![c] = "handshake"]
  /\ work' = [work EXCEPT ![c] = "start"]
  /\ loop' = [loop EXCEPT ![l] = "check"]
  /\ UNCHANGED <<ctxDone, listening, workers, stop, kick>>

\* Accept cannot configure the connection and closes it.
LoopRefuses(l, c) ==
  /\ loop[l] = "accept"
  /\ listening
  /\ phase[c] = "dialing"
  /\ phase' = [phase EXCEPT ![c] = "refused"]
  /\ loop' = [loop EXCEPT ![l] = "check"]
  /\ UNCHANGED <<ctxDone, listening, work, workers, stop, kick>>

\* accept fails: the listener is closed, or the done context has set a deadline.
LoopAcceptFails(l) ==
  /\ loop[l] = "accept"
  /\ ~ listening \/ ctxDone
  /\ loop' = [loop EXCEPT ![l] = "check"]
  /\ UNCHANGED <<ctxDone, listening, serving, stop, kick>>

\* GoAndStop: the loop has returned, s.Stop(ctx).
LoopStops(l) ==
  /\ loop[l] = "stop"
  /\ TurnOff
  /\ loop' = [loop EXCEPT ![l] = "done"]
  /\ UNCHANGED <<ctxDone, listening, serving, kick>>

-----------------------------------------------------------------------------
(* work, for connection c.                                                    *)

GoWork(c, label) == work' = [work EXCEPT ![c] = label]

\* Worker.Stop by its first caller: it leaves (Worker.tla has the steps).
LeavePhase(c) ==
  phase' = [phase EXCEPT ![c] = IF Served(c) THEN "leaving" ELSE @]

\* Mutant of WorkStarts: a failed Start returns before the deferred Stop is set up.
WorkStartsBeforeDefer(c, ok) ==
  /\ work[c] = "start"
  /\ IF ok THEN phase' = [phase EXCEPT ![c] = "connected"] /\ GoWork(c, "add")
           ELSE UNCHANGED phase /\ GoWork(c, "done")
  /\ UNCHANGED <<ctxDone, listening, loop, workers, stop, kick>>

\* Start: the handshake and OnConnected.
WorkStarts(c, ok) ==
  /\ work[c] = "start"
  /\ IF ok THEN phase' = [phase EXCEPT ![c] = "connected"] /\ GoWork(c, "add")
           ELSE UNCHANGED phase /\ GoWork(c, "stop")
  /\ UNCHANGED <<ctxDone, listening, loop, workers, stop, kick>>

WorkAdds(c) ==
  /\ work[c] = "add"
  /\ workers' = workers \cup {c}
  /\ GoWork(c, "run")
  /\ UNCHANGED <<ctxDone, listening, loop, phase, stop, kick>>

\* Run returns, or the AfterConnect hook fails.
WorkLeaves(c) ==
  /\ work[c] = "run"
  /\ GoWork(c, "del")
  /\ UNCHANGED <<ctxDone, listening, loop, phase, workers, stop, kick>>

\* The deferred delWorker.
WorkDeletes(c) ==
  /\ work[c] = "del"
  /\ workers' = workers \ {c}
  /\ GoWork(c, "stop")
  /\ UNCHANGED <<ctxDone, listening, loop, phase, stop, kick>>

\* The deferred w.Stop(ctx), then the AfterDisconnect hook.
WorkStops(c) ==
  /\ work[c] = "stop"
  /\ LeavePhase(c)
  /\ GoWork(c, "done")
  /\ UNCHANGED <<ctxDone, listening, loop, workers, stop, kick>>

\* The function of the worker's TurnOff ends with the connection closed.
WorkerCloses(c) ==
  /\ phase[c] = "leaving"
  /\ phase' = [phase EXCEPT ![c] = "closed"]
  /\ UNCHANGED <<ctxDone, listening, loop, work, workers, stop, kick>>

-----------------------------------------------------------------------------
(* Disconnect(wid).                                                           *)

\* if s.OnStopping() { return xsync.ErrIsStopped }
KickCalls(k) ==
  /\ kick[k].pc = "idle"
  /\ ~ stopping
  /\ kick' = [kick EXCEPT ![k].pc = "find"]
  /\ UNCHANGED <<ctxDone, listening, loop, serving, stop>>

\* Worker(wid) answers a worker, or nil.
KickFinds(k, c) ==
  /\ kick[k].pc = "find"
  /\ c \in workers
  /\ kick' = [kick EXCEPT ![k] = [pc |-> "del", conn |-> c]]
  /\ UNCHANGED <<ctxDone, listening, loop, serving, stop>>

KickMisses(k) ==
  /\ kick[k].pc = "find"
  /\ kick' = [kick EXCEPT ![k].pc = "idle"]
  /\ UNCHANGED <<ctxDone, listening, loop, serving, stop>>

KickDeletes(k) ==
  /\ kick[k].pc = "del"
  /\ workers' = workers \ {kick[k].conn}
  /\ kick' = [kick EXCEPT ![k].pc = "stop"]
  /\ UNCHANGED <<ctxDone, listening, loop, phase, work, stop>>

KickStops(k) ==
  /\ kick[k].pc = "stop"
  /\ LeavePhase(kick[k].conn)
  /\ kick' = [kick EXCEPT ![k] = [pc |-> "idle", conn |-> NoConn]]
  /\ UNCHANGED <<ctxDone, listening, loop, work, workers, stop>>

-----------------------------------------------------------------------------
(* Stop.                                                                      *)

\* The application stops the server.
StopCall ==
  /\ ~ stopping
  /\ TurnOff
  /\ UNCHANGED <<ctxDone, listening, loop, serving, kick>>

\* Walk finds a worker and starts a goroutine that stops it.  sync.Map.Range may
\* or may not find a worker that is added while it runs.
StopVisits(c) ==
  /\ stopPc = "walk"
  /\ c \in workers \ visited
  /\ visited' = visited \cup {c}
  /\ waiting' = waiting \cup {c}
  /\ UNCHANGED <<ctxDone, listening, loop, serving, stopping, stopPc, toVisit, closing, kick>>


\* Range has found whoever was there from its beginning to its end.
StopWalked ==
  /\ stopPc = "walk"
  /\ toVisit \cap workers \subseteq visited
  /\ stopPc' = "wait"
  /\ UNCHANGED <<ctxDone, listening, loop, serving, stopping, toVisit, visited, waiting,
                 closing, kick>>

\* The goroutine of a visited worker: w.Stop(ctx).  The first caller of the
\* worker's TurnOff returns when the connection is closed, a later one may return
\* before.
StopStopsWorker(c) ==
  /\ c \in waiting
  /\ Served(c)
  /\ LeavePhase(c)
  /\ closing' = closing \cup {c}
  /\ UNCHANGED <<ctxDone, listening, loop, work, workers, stopping, stopPc, toVisit,
                 visited, waiting, kick>>

StopWorkerReturns(c) ==
  /\ c \in waiting
  /\ ~ Served(c)
  /\ c \in closing => phase[c] = "closed"
  /\ waiting' = waiting \ {c}
  /\ UNCHANGED <<ctxDone, listening, loop, serving, stopping, stopPc, toVisit, visited,
                 closing, kick>>

\* Mutant of StopListener: no wg.Wait.
StopListenerAtOnce ==
  /\ stopPc = "wait"
  /\ listening' = FALSE
  /\ phase' = [c \in Conns |-> IF phase[c] = "dialing" THEN "refused" ELSE phase[c]]
  /\ stopPc' = "done"
  /\ UNCHANGED <<ctxDone, loop, work, workers, stopping, toVisit, visited, waiting, closing,
                 kick>>

\* Mutant of StopListener: the listener is not closed.
StopLeavesListener ==
  /\ stopPc = "wait"
  /\ waiting = {}
  /\ stopPc' = "done"
  /\ UNCHANGED <<ctxDone, listening, loop, serving, stopping, toVisit, visited, waiting,
                 closing, kick>>

\* wg.Wait has returned: listener.Stop, and whoever still waits in the backlog is
\* refused.
StopListener ==
  /\ stopPc = "wait"
  /\ waiting = {}
  /\ listening' = FALSE
  /\ phase' = [c \in Conns |-> IF phase[c] = "dialing" THEN "refused" ELSE phase[c]]
  /\ stopPc' = "done"
  /\ UNCHANGED <<ctxDone, loop, work, workers, stopping, toVisit, visited, waiting, closing,
                 kick>>

-----------------------------------------------------------------------------
LoopSteps(l) ==
  \/ LoopChecks(l) \/ LoopAcceptFails(l) \/ LoopStops(l)
  \/ \E c \in Conns : LoopAccepts(l, c) \/ LoopRefuses(l, c)

WorkSteps(c) ==
  \/ \E ok \in BOOLEAN : WorkStarts(c, ok)
  \/ WorkAdds(c) \/ WorkDeletes(c) \/ WorkStops(c)

StopSteps == StopWalked \/ StopListener \/ \E c \in Conns : StopVisits(c)

StopWorkerSteps(c) == StopStopsWorker(c) \/ StopWorkerReturns(c)

KickSteps(k) ==
  KickMisses(k) \/ KickDeletes(k) \/ KickStops(k) \/ \E c \in Conns : KickFinds(k, c)

Next ==
  \/ CancelContext \/ StopCall \/ StopSteps
  \/ \E l \in Loops : LoopSteps(l)
  \/ \E c \in Conns : WorkSteps(c) \/ WorkLeaves(c) \/ WorkerCloses(c) \/ StopWorkerSteps(c)
  \/ \E k \in Kickers : KickCalls(k) \/ KickSteps(k)

Spec == Init /\ [][Next]_vars

\* Goroutines run on, and Run returns once the worker is stopped or the context
\* is done (StopEndsWorker of Worker.tla).  A peer need not leave.
Fairness ==
  /\ WF_vars(StopSteps)
  /\ \A l \in Loops : WF_vars(LoopChecks(l) \/ LoopAcceptFails(l) \/ LoopStops(l))
  /\ \A c \in Conns : /\ WF_vars(WorkSteps(c))
                      /\ WF_vars((~ Served(c) \/ ctxDone) /\ WorkLeaves(c))
                      /\ WF_vars(WorkerCloses(c))
                      /\ WF_vars(StopWorkerSteps(c))
  /\ \A k \in Kickers : WF_vars(KickSteps(k))

FairSpec == Spec /\ Fairness

-----------------------------------------------------------------------------
(***************************************************************************)
(* Properties.                                                              *)
(***************************************************************************)
\* Type invariant.
TypeOK ==
  /\ ctxDone \in BOOLEAN /\ listening \in BOOLEAN /\ stopping \in BOOLEAN
  /\ loop \in [Loops -> {"check", "accept", "stop", "done"}]
  /\ phase \in [Conns -> {"dialing", "refused", "handshake", "connected", "leaving", "closed"}]
  /\ work \in [Conns -> {"none", "start", "add", "run", "del", "stop", "done"}]
  /\ workers \subseteq Conns
  /\ stopPc \in {"none", "walk", "wait", "done"}
  /\ toVisit \subseteq Conns /\ visited \subseteq Conns /\ waiting \subseteq visited
  /\ closing \subseteq visited
  /\ kick \in [Kickers -> [pc : {"idle", "find", "del", "stop"}, conn : Conns \cup {NoConn}]]

\* A connection that is being served is always in somebody's hands: its own
\* goroutine has not ended.  So no path (a failed handshake, a Disconnect, a stop
\* in the middle of the registration) leaves a connection open with nobody to
\* close it.
ServedHasGoroutine == \A c \in Conns : Served(c) => work[c] \notin {"none", "done"}

\* Whoever was registered when the server's Stop began is closed when Stop
\* returns, or somebody else is taking it out: its own goroutine, or a Disconnect
\* (which deletes the worker, so that the Walk misses it, before it stops it).
StopReachesRegistered ==
  stopPc = "done" =>
    \A c \in toVisit : \/ phase[c] = "closed"
                       \/ phase[c] = "leaving" /\ c \notin closing
                       \/ work[c] = "stop"
                       \/ \E k \in Kickers : kick[k] = [pc |-> "stop", conn |-> c]

\* Once the server stops or its context is done, Stop returns and every accept
\* loop ends, also those that wait in Accept.
ServerStops ==
  <>[](stopping \/ ctxDone => stopPc = "done" /\ \A l \in Loops : loop[l] = "done")


\* README.md:40, "Timeout-controlled shutdown with connection draining": when Stop
\* has returned the connections come to their end.
StopEndsService == stopPc = "done" ~> \A c \in Conns : ~ Served(c)

=============================================================================
