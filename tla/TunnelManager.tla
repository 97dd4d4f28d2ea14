---------------------------- MODULE TunnelManager ----------------------------
(***************************************************************************)
(* The tunnels of one worker: internal/tunnelmanager.go, internal/tunnel.go, *)
(* and what of the worker they wait for (internal/worker.go): its sendChan,  *)
(* its sendLoop and the order of its Stop.                                   *)
(*                                                                          *)
(* External: xsync.Stoppable and the application's AppTunnel.  Stop(ctx) of  *)
(* a tunnel closes StopTriggered and waits until the function of TurnOff has *)
(* run, or for the stop timeout; whether OnStopping holds between the        *)
(* trigger and TurnOff is left open.                                         *)
(***************************************************************************)
EXTENDS Naturals, FiniteSets

CONSTANTS
  Callers,   \* calls of Worker.Tunnel, each of which forwards a message
  Keys,      \* (tunnel type, object id)
  TypeOf,    \* the tunnel type of a key
  Tunnels,   \* identities of the tunnels that get created, in this order
  None,
  CsSize,    \* capacity of a tunnel's csChan
  ChanSize   \* capacity of the worker's sendChan

ASSUME TunnelsAssumption == Tunnels \subseteq Nat

ASSUME NoneAssumption ==
  /\ None \notin Tunnels /\ None \notin Keys /\ None \notin Callers
  /\ None # "stop" /\ "stop" \notin Callers

ASSUME SizeAssumption == CsSize \in Nat \ {0} /\ ChanSize \in Nat \ {0}

VARIABLES
  tunnelGroups,  \* per key: the tunnel in its group, or None
  mu,            \* who holds the write lock: a caller, "stop" or None
  call,          \* per caller: where it is, its key, the tunnel it got
  key,           \* per tunnel: its key; None when not created yet
  trig,          \* tunnels whose StopTriggered is closed
  off,           \* tunnels whose TurnOff has begun
  cs, sc,        \* per tunnel: csLoop and scLoop
  egDone,        \* tunnels whose errgroup context is done
  csLen,         \* per tunnel: messages in csChan
  onStop,        \* per tunnel: calls of OnStop; csChan is closed with the first
  stopPc,        \* where Worker.Stop is
  batch,         \* tunnels whose Stop tunnelManager.stop waits for
  ctxDone,       \* the context of the worker's Run is done
  sending,       \* the worker's sendLoop runs
  chanLen,       \* packs in sendChan
  chanClosed

loops  == <<cs, sc, egDone>>
tunnel == <<key, trig, off, loops, csLen, onStop>>
worker == <<ctxDone, sending, chanLen, chanClosed>>
vars   == <<tunnelGroups, mu, call, tunnel, stopPc, batch, worker>>

Created == {t \in Tunnels : key[t] # None}

NoCall == [pc |-> "idle", key |-> None, t |-> None]

Returned == [NoCall EXCEPT !.pc = "returned"]

Init ==
  /\ tunnelGroups = [k \in Keys |-> None]
  /\ mu = None
  /\ call = [c \in Callers |-> NoCall]
  /\ key = [t \in Tunnels |-> None]
  /\ trig = {} /\ off = {} /\ egDone = {}
  /\ cs = [t \in Tunnels |-> "none"] /\ sc = [t \in Tunnels |-> "none"]
  /\ csLen = [t \in Tunnels |-> 0] /\ onStop = [t \in Tunnels |-> 0]
  /\ stopPc = "none" /\ batch = {}
  /\ ctxDone = FALSE /\ sending = TRUE /\ chanLen = 0 /\ chanClosed = FALSE

\* The values OnStopping of tunnel t may have.
OnStopping(t) == IF t \in off THEN {TRUE}
                 ELSE IF t \in trig THEN BOOLEAN ELSE {FALSE}

\* What a lookup of key k may answer: its tunnel, unless there is none or it is
\* stopping.
Answers(k) ==
  LET t == tunnelGroups[k]
  IN  IF t = None THEN {None} ELSE {IF s THEN None ELSE t : s \in OnStopping(t)}

-----------------------------------------------------------------------------
(* Worker.Tunnel(key), then Forward on the tunnel it answers.                 *)

\* tunnelManager.tunnel, under the read lock.
Lookup(c, k) ==
  /\ call[c].pc = "idle"
  /\ mu = None
  /\ \E t \in Answers(k) :
       call' = [call EXCEPT ![c] = [pc |-> IF t = None THEN "create" ELSE "forward",
                                    key |-> k, t |-> t]]
  /\ UNCHANGED <<tunnelGroups, mu, tunnel, stopPc, batch, worker>>

\* Mutant of CreateLocks: createTunnel does not look again under the lock.
CreateSkipsRecheck(c) ==
  /\ call[c].pc = "create"
  /\ mu = None
  /\ mu' = c /\ call' = [call EXCEPT ![c].pc = "make"]
  /\ UNCHANGED <<tunnelGroups, tunnel, stopPc, batch, worker>>

\* createTunnel: under the lock, look again.
CreateLocks(c) ==
  /\ call[c].pc = "create"
  /\ mu = None
  /\ \E t \in Answers(call[c].key) :
       IF t = None
         THEN mu' = c /\ call' = [call EXCEPT ![c].pc = "make"]
         ELSE /\ call' = [call EXCEPT ![c] = [pc |-> "forward", key |-> @.key, t |-> t]]
              /\ UNCHANGED mu
  /\ UNCHANGED <<tunnelGroups, tunnel, stopPc, batch, worker>>

\* create fails: svc.CreateAppTunnel returned an error.
CreateFails(c) ==
  /\ call[c].pc = "make"
  /\ mu' = None
  /\ call' = [call EXCEPT ![c] = Returned]
  /\ UNCHANGED <<tunnelGroups, tunnel, stopPc, batch, worker>>

\* newTunnel starts the goroutines of run; the tunnel enters its group.
CreateMakes(c, t) ==
  /\ call[c].pc = "make"
  /\ t \notin Created /\ \A u \in Tunnels \ Created : t <= u
  /\ key' = [key EXCEPT ![t] = call[c].key]
  /\ cs' = [cs EXCEPT ![t] = "select"]
  /\ sc' = [sc EXCEPT ![t] = "check"]
  /\ tunnelGroups' = [tunnelGroups EXCEPT ![call[c].key] = t]
  /\ mu' = None
  /\ call' = [call EXCEPT ![c] = [pc |-> "forward", key |-> @.key, t |-> t]]
  /\ UNCHANGED <<trig, off, egDone, csLen, onStop, stopPc, batch, worker>>

\* Forward: if t.OnStopping() { return xsync.ErrIsStopped }
ForwardChecks(c) ==
  /\ call[c].pc = "forward"
  /\ \E s \in OnStopping(call[c].t) :
       call' = [call EXCEPT ![c] = IF s THEN Returned ELSE [@ EXCEPT !.pc = "send"]]
  /\ UNCHANGED <<tunnelGroups, mu, tunnel, stopPc, batch, worker>>

\* Forward: t.csChan <- p, which waits for room and panics on the closed channel.
ForwardSends(c) ==
  /\ call[c].pc = "send"
  /\ onStop[call[c].t] = 0
  /\ csLen[call[c].t] < CsSize
  /\ csLen' = [csLen EXCEPT ![call[c].t] = @ + 1]
  /\ call' = [call EXCEPT ![c] = Returned]
  /\ UNCHANGED <<tunnelGroups, mu, key, trig, off, loops, onStop, stopPc, batch, worker>>

ForwardPanics(c) ==
  /\ call[c].pc = "send"
  /\ onStop[call[c].t] > 0
  /\ call' = [call EXCEPT ![c].pc = "panicked"]
  /\ UNCHANGED <<tunnelGroups, mu, tunnel, stopPc, batch, worker>>

-----------------------------------------------------------------------------
(* Tunnel.run of tunnel t.                                                    *)

\* Mutant of Watch: run watches StopTriggered only.
WatchIgnoresContext(t) ==
  /\ t \in Created \ egDone
  /\ t \in trig
  /\ egDone' = egDone \cup {t}
  /\ UNCHANGED <<tunnelGroups, mu, call, key, trig, off, cs, sc, csLen, onStop, stopPc,
                 batch, worker>>

\* The goroutine that watches StopTriggered and the worker's context.
Watch(t) ==
  /\ t \in Created \ egDone
  /\ t \in trig \/ ctxDone
  /\ egDone' = egDone \cup {t}
  /\ UNCHANGED <<tunnelGroups, mu, call, key, trig, off, cs, sc, csLen, onStop, stopPc,
                 batch, worker>>

\* csLoop takes a message and calls CSHandle.
CsTakes(t) ==
  /\ cs[t] = "select"
  /\ csLen[t] > 0
  /\ csLen' = [csLen EXCEPT ![t] = @ - 1]
  /\ cs' = [cs EXCEPT ![t] = "handle"]
  /\ UNCHANGED <<tunnelGroups, mu, call, key, trig, off, sc, egDone, onStop, stopPc, batch,
                 worker>>

\* CSHandle returns; its error ends the loop.
CsHandles(t, ok) ==
  /\ cs[t] = "handle"
  /\ cs' = [cs EXCEPT ![t] = IF ok THEN "select" ELSE "done"]
  /\ egDone' = IF ok THEN egDone ELSE egDone \cup {t}
  /\ UNCHANGED <<tunnelGroups, mu, call, key, trig, off, sc, csLen, onStop, stopPc, batch,
                 worker>>

CsReturns(t) ==
  /\ cs[t] = "select"
  /\ t \in egDone
  /\ cs' = [cs EXCEPT ![t] = "done"]
  /\ UNCHANGED <<tunnelGroups, mu, call, key, trig, off, sc, egDone, csLen, onStop, stopPc,
                 batch, worker>>

\* scLoop looks at ctx, then calls SCHandle.
ScChecks(t) ==
  /\ sc[t] = "check"
  /\ sc' = [sc EXCEPT ![t] = IF t \in egDone THEN "done" ELSE "handle"]
  /\ UNCHANGED <<tunnelGroups, mu, call, key, trig, off, cs, egDone, csLen, onStop, stopPc,
                 batch, worker>>

\* SCHandle answers a message, or it (or TunnelMsgToPack) fails.
ScHandles(t, ok) ==
  /\ sc[t] = "handle"
  /\ sc' = [sc EXCEPT ![t] = IF ok THEN "push" ELSE "done"]
  /\ egDone' = IF ok THEN egDone ELSE egDone \cup {t}
  /\ UNCHANGED <<tunnelGroups, mu, call, key, trig, off, cs, csLen, onStop, stopPc, batch,
                 worker>>

\* Worker.Push passes its tests, or refuses: the worker stops, or the pack is empty.
\* After a refusal recordPushErr lets the loop go on or, after too many, ends it
\* (PushErrorWindow has the count).
ScPushChecks(t) ==
  /\ sc[t] = "push"
  /\ \/ /\ stopPc = "none"
        /\ sc' = [sc EXCEPT ![t] = "send"]
        /\ UNCHANGED egDone
     \/ \E overload \in BOOLEAN :
          /\ sc' = [sc EXCEPT ![t] = IF overload THEN "done" ELSE "check"]
          /\ egDone' = IF overload THEN egDone \cup {t} ELSE egDone
  /\ UNCHANGED <<tunnelGroups, mu, call, key, trig, off, cs, csLen, onStop, stopPc, batch,
                 worker>>

\* Worker.Push: w.sendChan <- out.
ScPushSends(t) ==
  /\ sc[t] = "send"
  /\ ~ chanClosed
  /\ chanLen < ChanSize
  /\ chanLen' = chanLen + 1
  /\ sc' = [sc EXCEPT ![t] = "check"]
  /\ UNCHANGED <<tunnelGroups, mu, call, key, trig, off, cs, egDone, csLen, onStop, stopPc,
                 batch, ctxDone, sending, chanClosed>>

\* The send panics; xsync.Run makes it the error of the loop.
ScPushPanics(t) ==
  /\ sc[t] = "send"
  /\ chanClosed
  /\ sc' = [sc EXCEPT ![t] = "done"]
  /\ egDone' = egDone \cup {t}
  /\ UNCHANGED <<tunnelGroups, mu, call, key, trig, off, cs, csLen, onStop, stopPc, batch,
                 worker>>

\* Mutant of TurnOff: stop without waiting for the loops.
TurnOffWithoutWait(t) ==
  /\ t \in egDone \ off
  /\ off' = off \cup {t}
  /\ UNCHANGED <<tunnelGroups, mu, call, key, trig, loops, csLen, onStop, stopPc, batch, worker>>

\* eg.Wait has returned: the deferred stop enters TurnOff.
TurnOff(t) ==
  /\ t \in egDone \ off
  /\ cs[t] = "done" /\ sc[t] = "done"
  /\ off' = off \cup {t}
  /\ UNCHANGED <<tunnelGroups, mu, call, key, trig, loops, csLen, onStop, stopPc, batch, worker>>

\* close(t.csChan) and OnStop.
TunnelStops(t) ==
  /\ t \in off
  /\ onStop[t] = 0
  /\ onStop' = [onStop EXCEPT ![t] = @ + 1]
  /\ UNCHANGED <<tunnelGroups, mu, call, key, trig, off, loops, csLen, stopPc, batch, worker>>

-----------------------------------------------------------------------------
(* The worker: its context, its sendLoop, and Worker.Stop.                    *)

\* A loop of Run fails, or the worker's Stop reaches the watcher.
WorkerFails ==
  /\ ~ ctxDone
  /\ ctxDone' = TRUE
  /\ UNCHANGED <<tunnelGroups, mu, call, tunnel, stopPc, batch, sending, chanLen, chanClosed>>

SendLoopTakes ==
  /\ sending /\ chanLen > 0
  /\ chanLen' = chanLen - 1
  /\ UNCHANGED <<tunnelGroups, mu, call, tunnel, stopPc, batch, ctxDone, sending, chanClosed>>

SendLoopReturns ==
  /\ sending /\ ctxDone
  /\ sending' = FALSE
  /\ UNCHANGED <<tunnelGroups, mu, call, tunnel, stopPc, batch, ctxDone, chanLen, chanClosed>>

\* Worker.Stop begins: OnStopping holds, OnDisconnect runs.
StopBegins ==
  /\ stopPc = "none"
  /\ stopPc' = "lock"
  /\ UNCHANGED <<tunnelGroups, mu, call, tunnel, batch, worker>>

\* tunnelManager.stop takes the lock, which a createTunnel may hold.
StopLocks ==
  /\ stopPc = "lock"
  /\ mu = None
  /\ mu' = "stop"
  /\ stopPc' = "groups"
  /\ UNCHANGED <<tunnelGroups, call, tunnel, batch, worker>>

\* The next group: it is deleted, and its tunnels are stopped side by side.
StopGroup(tp) ==
  /\ stopPc = "groups" /\ batch = {}
  /\ LET group == {k \in Keys : TypeOf[k] = tp /\ tunnelGroups[k] # None}
     IN  /\ group # {}
         /\ batch' = {tunnelGroups[k] : k \in group}
         /\ tunnelGroups' = [k \in Keys |-> IF k \in group THEN None ELSE tunnelGroups[k]]
  /\ UNCHANGED <<mu, call, tunnel, stopPc, worker>>

\* t.Stop(ctx) of a tunnel of the group triggers the stop.
StopTriggers(t) ==
  /\ t \in batch \ trig
  /\ trig' = trig \cup {t}
  /\ UNCHANGED <<tunnelGroups, mu, call, key, off, loops, csLen, onStop, stopPc, batch, worker>>

\* t.Stop(ctx) returns: the tunnel has stopped.
StopTunnelReturns(t) ==
  /\ t \in batch \cap trig
  /\ onStop[t] > 0
  /\ batch' = batch \ {t}
  /\ UNCHANGED <<tunnelGroups, mu, call, tunnel, stopPc, worker>>

\* Mutant of StopTunnelTimesOut: a Stop that waits without a timeout.
StopWithoutTimeout(t) == StopTunnelReturns(t)

\* t.Stop(ctx) returns: the timeout of its stopper has passed.
StopTunnelTimesOut(t) ==
  /\ t \in batch \cap trig
  /\ batch' = batch \ {t}
  /\ UNCHANGED <<tunnelGroups, mu, call, tunnel, stopPc, worker>>

\* tunnelManager.stop returns and gives the lock back.
StopUnlocks ==
  /\ stopPc = "groups" /\ batch = {}
  /\ \A k \in Keys : tunnelGroups[k] = None
  /\ mu' = None
  /\ stopPc' = "close"
  /\ UNCHANGED <<tunnelGroups, call, tunnel, batch, worker>>

\* Worker.Stop: close(w.sendChan), and the connection.
StopCloses ==
  /\ stopPc = "close"
  /\ chanClosed' = TRUE
  /\ stopPc' = "done"
  /\ UNCHANGED <<tunnelGroups, mu, call, tunnel, batch, ctxDone, sending, chanLen>>

-----------------------------------------------------------------------------
CallSteps(c) ==
  \/ CreateLocks(c) \/ CreateFails(c) \/ \E t \in Tunnels : CreateMakes(c, t)
  \/ ForwardChecks(c) \/ ForwardSends(c) \/ ForwardPanics(c)

CsSteps(t) == CsTakes(t) \/ CsReturns(t)

ScSteps(t) == ScChecks(t) \/ ScPushChecks(t) \/ ScPushSends(t) \/ ScPushPanics(t)

\* The application's CSHandle and SCHandle return.
HandleSteps(t) == \E ok \in BOOLEAN : CsHandles(t, ok) \/ ScHandles(t, ok)

StopSteps ==
  \/ StopLocks \/ StopUnlocks \/ StopCloses
  \/ \E k \in Keys : StopGroup(TypeOf[k])

StopTunnelSteps(t) == StopTriggers(t) \/ StopTunnelReturns(t) \/ StopTunnelTimesOut(t)

RunSteps(t) == Watch(t) \/ TurnOff(t) \/ TunnelStops(t)

SendLoop == SendLoopTakes \/ SendLoopReturns

Next ==
  \/ WorkerFails \/ SendLoop \/ StopBegins \/ StopSteps
  \/ \E c \in Callers : CallSteps(c) \/ \E k \in Keys : Lookup(c, k)
  \/ \E t \in Tunnels :
       RunSteps(t) \/ CsSteps(t) \/ ScSteps(t) \/ HandleSteps(t) \/ StopTunnelSteps(t)

Spec == Init /\ [][Next]_vars

\* Goroutines run on, CreateAppTunnel and OnStop return, the watcher of a stopped
\* worker ends its context, and a tunnel's Stop returns by its timeout.  Nothing
\* is assumed of CSHandle and SCHandle: neither gets a context that a stop would
\* cancel, and those of example/service/tunnel.go wait on a channel for ever.
Fairness ==
  /\ WF_vars(StopSteps)
  /\ WF_vars(stopPc # "none" /\ WorkerFails)
  /\ \A c \in Callers : WF_vars(CallSteps(c))
  /\ \A t \in Tunnels : /\ WF_vars(RunSteps(t)) /\ WF_vars(CsSteps(t)) /\ WF_vars(ScSteps(t))
                        /\ WF_vars(StopTunnelSteps(t))

FairSpec == Spec /\ Fairness

-----------------------------------------------------------------------------
(***************************************************************************)
(* Properties.                                                              *)
(***************************************************************************)
\* Type invariant.
TypeOK ==
  /\ tunnelGroups \in [Keys -> Tunnels \cup {None}]
  /\ mu \in Callers \cup {"stop", None}
  /\ call \in [Callers -> [pc : {"idle", "create", "make", "forward", "send", "returned", "panicked"},
                           key : Keys \cup {None}, t : Tunnels \cup {None}]]
  /\ key \in [Tunnels -> Keys \cup {None}]
  /\ trig \subseteq Created /\ off \subseteq Created /\ egDone \subseteq Created
  /\ cs \in [Tunnels -> {"none", "select", "handle", "done"}]
  /\ sc \in [Tunnels -> {"none", "check", "handle", "push", "send", "done"}]
  /\ csLen \in [Tunnels -> 0..CsSize] /\ onStop \in [Tunnels -> Nat]
  /\ stopPc \in {"none", "lock", "groups", "close", "done"}
  /\ batch \subseteq Created
  /\ ctxDone \in BOOLEAN /\ sending \in BOOLEAN /\ chanClosed \in BOOLEAN
  /\ chanLen \in 0..ChanSize

\* As long as tunnelManager.stop has not begun, there is at most one tunnel of a
\* key that has not stopped, and it is the one in the group: two goroutines that
\* both miss the tunnel in the lookup do not create it twice.
OneTunnelPerKey ==
  stopPc \in {"none", "lock"} =>
    \A t \in Created \ off : tunnelGroups[key[t]] = t

\* The application's OnStop is called once per tunnel, and only when neither
\* CSHandle nor SCHandle can still run: both loops have ended, be it by an error, a
\* panic of a push on the closed sendChan, or the stop.
OnStopAfterLoops ==
  \A t \in Tunnels : /\ onStop[t] <= 1
                     /\ onStop[t] = 1 => cs[t] = "done" /\ sc[t] = "done"

\* Worker.Stop returns, although tunnelManager.stop waits, with the lock held and
\* before sendChan is closed, for tunnels that may be blocked in a send on
\* sendChan with no sendLoop to make room: the timeouts of the tunnels break the
\* circle.
StopReturns == stopPc # "none" ~> stopPc = "done"

\* Every tunnel of a stopped worker ends, unless the application's CSHandle or
\* SCHandle holds one of its loops for ever: those stop waited for, those whose
\* stop timed out, those blocked in a send on the full sendChan, and those that a
\* late call created after stop had passed.
TunnelsEnd ==
  \A t \in Tunnels :
    <>[](stopPc # "none" /\ t \in Created =>
           onStop[t] = 1 \/ cs[t] = "handle" \/ sc[t] = "handle")

\* tunnel.go:139-141 answers a Forward on a stopping tunnel with ErrIsStopped.
ForwardNeverPanics == \A c \in Callers : call[c].pc # "panicked"

=============================================================================
