------------------------------- MODULE Worker -------------------------------
(***************************************************************************)
(* One connection of a server: Worker of internal/worker.go, driven by       *)
(* BaseServer.work of internal/server.go.                                    *)
(*                                                                          *)
(* The goroutines are work (handshake, registration, Run, and the deferred   *)
(* calls), the four of Run (watch, sendLoop, readLoop, tickLoop), those that *)
(* call Push, and those that call Stop because of a Disconnect or of the     *)
(* server's Stop.  A step is one operation on what they share.               *)
(*                                                                          *)
(* External: xsync.Stoppable.  TurnOff(f) runs f for its first caller only,  *)
(* after it has set OnStopping and closed StopTriggered; whether a later     *)
(* caller waits for f is left open.  xsync.Run turns a panic into an error.  *)
(***************************************************************************)
EXTENDS Naturals, Sequences, FiniteSets

CONSTANTS
  Pushers,        \* goroutines that push to the worker: tunnels, BaseServer.Push
  Reader,         \* readLoop, when the service's Handle pushes
  Stoppers,       \* goroutines that stop the worker from outside
  ChanSize,       \* conf.ReplyChanSize
  HandlerPushes,  \* whether the service's Handle calls Push
  MaxPushes       \* bound: calls of Push by one goroutine

ASSUME ReaderAssumption == Reader \notin Pushers

ASSUME SizeAssumption == ChanSize \in Nat \ {0} /\ MaxPushes \in Nat

ASSUME HandlerAssumption == HandlerPushes \in BOOLEAN

Senders == Pushers \cup {Reader}

VARIABLES
  work,        \* where BaseServer.work is
  registered,  \* the worker is in the server's buckets
  connected,   \* w.connected
  stopping,    \* OnStopping, and StopTriggered is closed
  stopPc,      \* where the function given to TurnOff is
  notified,    \* how often OnDisconnect was called
  sendChan, chanClosed,
  connOpen,    \* w.conn has not been closed
  watch, send, read, tick,  \* the goroutines of Run
  egErr,       \* the error of Run's errgroup; its ctx is done when there is one
  writing,     \* the pack sendLoop is writing, or failed to write
  wire,        \* the packs written to the connection
  push,        \* per sender: where its Push is
  pushed,      \* per sender: number of calls of Push
  accepted,    \* the packs Push has accepted, in order
  stopper      \* per stopper: where it is

loops   == <<watch, send, read, tick>>
channel == <<sendChan, chanClosed>>
out     == <<writing, wire>>
pushes  == <<push, pushed, accepted>>
life    == <<work, registered, connected>>
turnOff == <<stopping, stopPc, notified>>
vars == <<life, turnOff, channel, connOpen, loops, egErr, out, pushes, stopper>>

ctxDone == egErr # "nil"

\* A goroutine of the errgroup returns err: the first error is kept.
Fail(err) == egErr' = IF egErr = "nil" THEN err ELSE egErr

Init ==
  /\ work = "handshake" /\ registered = FALSE /\ connected = FALSE
  /\ stopping = FALSE /\ stopPc = "none" /\ notified = 0
  /\ sendChan = <<>> /\ chanClosed = FALSE /\ connOpen = TRUE
  /\ watch = "off" /\ send = "off" /\ read = "off" /\ tick = "off"
  /\ egErr = "nil"
  /\ writing = <<>> /\ wire = <<>>
  /\ push = [p \in Senders |-> "idle"] /\ pushed = [p \in Senders |-> 0]
  /\ accepted = <<>>
  /\ stopper = [s \in Stoppers |-> "idle"]

-----------------------------------------------------------------------------
(* BaseServer.work and its deferred calls.                                    *)

\* handshake: Decode, Auth or Encode fails, or the deadline passes.
HandshakeFails ==
  /\ work = "handshake"
  /\ work' = "stop"
  /\ UNCHANGED <<registered, connected, turnOff, channel, connOpen, loops, egErr,
                 out, pushes, stopper>>

HandshakeOk ==
  /\ work = "handshake"
  /\ work' = "onConnected"
  /\ UNCHANGED <<registered, connected, turnOff, channel, connOpen, loops, egErr,
                 out, pushes, stopper>>

\* Start: svc.OnConnected, then w.connected.Store(true) when it succeeds.
OnConnected(ok) ==
  /\ work = "onConnected"
  /\ connected' = ok
  /\ work' = IF ok THEN "add" ELSE "stop"
  /\ UNCHANGED <<registered, turnOff, channel, connOpen, loops, egErr,
                 out, pushes, stopper>>

\* addWorker: the id is new, so Put replaces nobody.
AddWorker ==
  /\ work = "add"
  /\ registered' = TRUE
  /\ work' = "afterConnect"
  /\ UNCHANGED <<connected, turnOff, channel, connOpen, loops, egErr,
                 out, pushes, stopper>>

\* The AfterConnect hook, then Run starts its four goroutines.
AfterConnect(ok) ==
  /\ work = "afterConnect"
  /\ IF ok
       THEN /\ work' = "run"
            /\ watch' = "select" /\ send' = "select" /\ read' = "check" /\ tick' = "select"
       ELSE work' = "del" /\ UNCHANGED loops
  /\ UNCHANGED <<registered, connected, turnOff, channel, connOpen, egErr,
                 out, pushes, stopper>>

\* Mutant of RunReturns: Run returns with the first error.
RunReturnsEarly ==
  /\ work = "run"
  /\ ctxDone
  /\ work' = "del"
  /\ UNCHANGED <<registered, connected, turnOff, channel, connOpen, loops, egErr,
                 out, pushes, stopper>>

\* eg.Wait returns when the four goroutines have.
RunReturns ==
  /\ work = "run"
  /\ watch = "done" /\ send = "done" /\ read = "done" /\ tick = "done"
  /\ work' = "del"
  /\ UNCHANGED <<registered, connected, turnOff, channel, connOpen, loops, egErr,
                 out, pushes, stopper>>

\* The deferred delWorker.
DelWorker ==
  /\ work = "del"
  /\ registered' = FALSE
  /\ work' = "stop"
  /\ UNCHANGED <<connected, turnOff, channel, connOpen, loops, egErr,
                 out, pushes, stopper>>

\* TurnOff: the first caller runs the function, from its first step on.
TurnOff ==
  /\ IF stopping THEN UNCHANGED <<stopping, stopPc>>
                 ELSE stopping' = TRUE /\ stopPc' = "disconnect"
  /\ UNCHANGED notified

\* The deferred w.Stop(ctx).
WorkStop ==
  /\ work = "stop"
  /\ TurnOff
  /\ work' = IF stopping THEN "afterDisconnect" ELSE "stopping"
  /\ UNCHANGED <<registered, connected, channel, connOpen, loops, egErr,
                 out, pushes, stopper>>

WorkStopReturns ==
  /\ work = "stopping"
  /\ stopPc = "done"
  /\ work' = "afterDisconnect"
  /\ UNCHANGED <<registered, connected, turnOff, channel, connOpen, loops, egErr,
                 out, pushes, stopper>>

\* The AfterDisconnect hook; the worker's goroutine ends.
AfterDisconnect ==
  /\ work = "afterDisconnect"
  /\ work' = "done"
  /\ UNCHANGED <<registered, connected, turnOff, channel, connOpen, loops, egErr,
                 out, pushes, stopper>>

-----------------------------------------------------------------------------
(* Worker.Stop, in the goroutine that came first.                             *)

\* Mutant of StopDisconnect: OnDisconnect without asking Connected.
StopAlwaysNotifies ==
  /\ stopPc = "disconnect"
  /\ notified' = notified + 1
  /\ stopPc' = "tunnels"
  /\ UNCHANGED <<life, stopping, channel, connOpen, loops, egErr, out, pushes, stopper>>

\* if w.Connected() { svc.OnDisconnect }
StopDisconnect ==
  /\ stopPc = "disconnect"
  /\ notified' = IF connected THEN notified + 1 ELSE notified
  /\ stopPc' = "tunnels"
  /\ UNCHANGED <<life, stopping, channel, connOpen, loops, egErr, out, pushes, stopper>>

\* tunnelManager.stop: bounded by the stop timeout of each tunnel.
StopTunnels ==
  /\ stopPc = "tunnels"
  /\ stopPc' = "closeChan"
  /\ UNCHANGED <<life, stopping, notified, channel, connOpen, loops, egErr, out,
                 pushes, stopper>>

\* Mutant of StopCloseChan: sendChan is not closed.
StopLeavesChanOpen ==
  /\ stopPc = "closeChan"
  /\ stopPc' = "closeConn"
  /\ UNCHANGED <<life, stopping, notified, channel, connOpen, loops, egErr, out,
                 pushes, stopper>>

\* close(w.sendChan)
StopCloseChan ==
  /\ stopPc = "closeChan"
  /\ chanClosed' = TRUE
  /\ stopPc' = "closeConn"
  /\ UNCHANGED <<life, stopping, notified, sendChan, connOpen, loops, egErr, out,
                 pushes, stopper>>

\* w.conn.Close().  The close of a TCP, a KCP and a WebSocket connection ends its
\* reads and writes also when it answers an error; the deadline that Stop asks for
\* in that case is set when its ctx is done, and changes nothing any more.
StopCloseConn ==
  /\ stopPc = "closeConn"
  /\ connOpen' = FALSE
  /\ stopPc' = "done"
  /\ UNCHANGED <<life, stopping, notified, channel, loops, egErr, out, pushes, stopper>>

\* Disconnect finds the worker by its id and deletes it; the server's Stop finds
\* it in its Walk.
StopperFinds(s, deletes) ==
  /\ stopper[s] = "idle"
  /\ registered
  /\ registered' = ~ deletes
  /\ stopper' = [stopper EXCEPT ![s] = "stop"]
  /\ UNCHANGED <<work, connected, turnOff, channel, connOpen, loops, egErr, out, pushes>>

StopperStops(s) ==
  /\ stopper[s] = "stop"
  /\ TurnOff
  /\ stopper' = [stopper EXCEPT ![s] = "done"]
  /\ UNCHANGED <<life, channel, connOpen, loops, egErr, out, pushes>>

-----------------------------------------------------------------------------
(* The goroutines of Run.                                                     *)

\* The application cancels the context it gave to the server's Start, from which
\* the one of the errgroup derives; the handshake does not look at it.
CancelContext ==
  /\ egErr = "nil"
  /\ egErr' = "cancelled"
  /\ UNCHANGED <<life, turnOff, channel, connOpen, loops, out, pushes, stopper>>

WatchReturns ==
  /\ watch = "select"
  /\ stopping \/ ctxDone
  /\ watch' = "done"
  /\ Fail("stopped")
  /\ UNCHANGED <<life, turnOff, channel, connOpen, send, read, tick, out, pushes, stopper>>

\* Mutant of SendTakes: a pack taken with the context done is dropped.
SendDropsWhenDone ==
  /\ send = "select"
  /\ sendChan # <<>>
  /\ writing' = IF ctxDone THEN <<>> ELSE <<Head(sendChan)>>
  /\ sendChan' = Tail(sendChan)
  /\ send' = IF ctxDone THEN "select" ELSE "write"
  /\ UNCHANGED <<life, turnOff, chanClosed, connOpen, watch, read, tick, egErr, wire,
                 pushes, stopper>>

\* sendLoop: case pack, ok := <-w.sendChan
SendTakes ==
  /\ send = "select"
  /\ sendChan # <<>>
  /\ writing' = <<Head(sendChan)>>
  /\ sendChan' = Tail(sendChan)
  /\ send' = "write"
  /\ UNCHANGED <<life, turnOff, chanClosed, connOpen, watch, read, tick, egErr, wire,
                 pushes, stopper>>

\* sendLoop: ctx.Done(), or the closed channel is empty.
SendReturns ==
  /\ send = "select"
  /\ ctxDone \/ (chanClosed /\ sendChan = <<>>)
  /\ send' = "done"
  /\ Fail("stopped")
  /\ UNCHANGED <<life, turnOff, channel, connOpen, watch, read, tick, out, pushes, stopper>>

\* write: the filter, Encrypt and Encode succeed.
SendWrites ==
  /\ send = "write"
  /\ connOpen
  /\ wire' = wire \o writing
  /\ writing' = <<>>
  /\ send' = "select"
  /\ UNCHANGED <<life, turnOff, channel, connOpen, watch, read, tick, egErr, pushes, stopper>>

\* write fails: the filter, Encrypt, the peer, the deadline, a closed connection.
SendFails ==
  /\ send = "write"
  /\ send' = "done"
  /\ Fail(IF connOpen THEN "failed" ELSE "stopped")
  /\ UNCHANGED <<life, turnOff, channel, connOpen, watch, read, tick, out, pushes, stopper>>

\* Mutant of ReadChecks: readLoop does not look at ctx.
ReadIgnoresContext ==
  /\ read = "check"
  /\ IF stopping
       THEN read' = "done" /\ Fail("stopped")
       ELSE read' = "decode" /\ UNCHANGED egErr
  /\ UNCHANGED <<life, turnOff, channel, connOpen, watch, send, tick, out, pushes, stopper>>

\* readLoop looks at ctx, read at OnStopping and sets the deadline.
ReadChecks ==
  /\ read = "check"
  /\ IF ctxDone \/ stopping
       THEN read' = "done" /\ Fail("stopped")
       ELSE read' = "decode" /\ UNCHANGED egErr
  /\ UNCHANGED <<life, turnOff, channel, connOpen, watch, send, tick, out, pushes, stopper>>

\* Decode returns a pack, and the service's Handle begins.
ReadHandles ==
  /\ read = "decode"
  /\ connOpen
  /\ read' = "handle"
  /\ UNCHANGED <<life, turnOff, channel, connOpen, watch, send, tick, egErr, out,
                 pushes, stopper>>

\* Handle answers on the connection.
HandlePushes ==
  /\ read = "handle"
  /\ HandlerPushes
  /\ push[Reader] = "idle"
  /\ pushed[Reader] < MaxPushes
  /\ push' = [push EXCEPT ![Reader] = "check"]
  /\ UNCHANGED <<life, turnOff, channel, connOpen, loops, egErr, out,
                 pushed, accepted, stopper>>

\* Handle returns nil or an error, that of its Push or its own.
HandleReturns(ok) ==
  /\ read = "handle"
  /\ push[Reader] \in {"idle", "refused"}
  /\ IF ok
       THEN read' = "check" /\ UNCHANGED egErr
       ELSE read' = "done" /\ Fail(IF stopping THEN "stopped" ELSE "failed")
  /\ push' = [push EXCEPT ![Reader] = "idle"]
  /\ UNCHANGED <<life, turnOff, channel, connOpen, watch, send, tick, out,
                 pushed, accepted, stopper>>

\* Handle's Push has panicked, which ends the loop.
HandlePanics ==
  /\ read = "handle"
  /\ push[Reader] = "panicked"
  /\ read' = "done"
  /\ Fail("stopped")
  /\ UNCHANGED <<life, turnOff, channel, connOpen, watch, send, tick, out, pushes, stopper>>

\* Decode, Decrypt or the filter fails: the peer has gone, no request came before
\* the deadline, the connection was closed.
ReadFails ==
  /\ read = "decode"
  /\ read' = "done"
  /\ Fail(IF connOpen THEN "failed" ELSE "stopped")
  /\ UNCHANGED <<life, turnOff, channel, connOpen, watch, send, tick, out, pushes, stopper>>

\* tickLoop: svc.Tick fails.
TickFails ==
  /\ tick = "select"
  /\ tick' = "done"
  /\ Fail("failed")
  /\ UNCHANGED <<life, turnOff, channel, connOpen, watch, send, read, out, pushes, stopper>>

\* tickLoop: ctx.Done().
TickReturns ==
  /\ tick = "select"
  /\ ctxDone
  /\ tick' = "done"
  /\ UNCHANGED egErr
  /\ UNCHANGED <<life, turnOff, channel, connOpen, watch, send, read, out, pushes, stopper>>

-----------------------------------------------------------------------------
(* Push.                                                                      *)

\* A pusher gets hold of the worker while it is registered (a lookup by uid, or
\* as a tunnel that Handle creates) and keeps it from then on.
PusherFinds(p) ==
  /\ push[p] = "idle"
  /\ registered \/ pushed[p] > 0
  /\ pushed[p] < MaxPushes
  /\ push' = [push EXCEPT ![p] = "check"]
  /\ UNCHANGED <<life, turnOff, channel, connOpen, loops, egErr, out,
                 pushed, accepted, stopper>>

\* Push refuses when OnStopping holds, or when the pack is empty.
PushChecks(p, empty) ==
  /\ push[p] = "check"
  /\ push' = [push EXCEPT ![p] = IF ~ stopping /\ ~ empty THEN "send"
                                 ELSE IF p = Reader THEN "refused" ELSE "idle"]
  /\ pushed' = [pushed EXCEPT ![p] = @ + 1]
  /\ UNCHANGED <<life, turnOff, channel, connOpen, loops, egErr, out, accepted, stopper>>

\* w.sendChan <- out: waits while the channel is full and panics when it is, or
\* gets, closed.
PushSends(p) ==
  /\ push[p] = "send"
  /\ ~ chanClosed
  /\ Len(sendChan) < ChanSize
  /\ sendChan' = Append(sendChan, <<p, pushed[p]>>)
  /\ accepted' = Append(accepted, <<p, pushed[p]>>)
  /\ push' = [push EXCEPT ![p] = "idle"]
  /\ UNCHANGED <<life, turnOff, chanClosed, connOpen, loops, egErr, out, pushed, stopper>>

PushPanics(p) ==
  /\ push[p] = "send"
  /\ chanClosed
  /\ push' = [push EXCEPT ![p] = "panicked"]
  /\ UNCHANGED <<life, turnOff, channel, connOpen, loops, egErr, out,
                 pushed, accepted, stopper>>

-----------------------------------------------------------------------------
WorkSteps ==
  \/ HandshakeFails \/ HandshakeOk \/ AddWorker
  \/ \E ok \in BOOLEAN : OnConnected(ok) \/ AfterConnect(ok)
  \/ RunReturns \/ DelWorker \/ WorkStop \/ WorkStopReturns \/ AfterDisconnect

StopSteps == StopDisconnect \/ StopTunnels \/ StopCloseChan \/ StopCloseConn

SendSteps == SendTakes \/ SendReturns \/ SendWrites \/ SendFails
ReadSteps == ReadChecks \/ ReadHandles \/ ReadFails \/ HandlePanics
HandleSteps == HandlePushes \/ \E ok \in BOOLEAN : HandleReturns(ok)

PushSteps(p) ==
  PushSends(p) \/ PushPanics(p) \/ \E empty \in BOOLEAN : PushChecks(p, empty)

Next ==
  \/ WorkSteps \/ StopSteps \/ CancelContext
  \/ WatchReturns \/ SendSteps \/ ReadSteps \/ HandleSteps
  \/ TickFails \/ TickReturns
  \/ \E s \in Stoppers : StopperStops(s) \/ \E d \in BOOLEAN : StopperFinds(s, d)
  \/ \E p \in Pushers : PusherFinds(p)
  \/ \E p \in Senders : PushSteps(p)

Spec == Init /\ [][Next]_vars

\* Every goroutine runs on: OnConnected, OnDisconnect, Tick and the hooks return,
\* the handshake, a read and a write end by their deadlines (a write once no read
\* moves the deadline on, that is when the context is done or the worker stops),
\* and a blocked Push waits for room or for the close.  Nothing forces a Handle to
\* return, a Tick to fail, the context to be cancelled, a call of Push, or a Stop
\* from outside.
Fairness ==
  /\ WF_vars(WorkSteps) /\ WF_vars(StopSteps)
  /\ WF_vars(WatchReturns) /\ WF_vars(SendSteps) /\ WF_vars(ReadSteps)
  /\ WF_vars(TickReturns)
  /\ \A p \in Senders : WF_vars(PushSteps(p))
  /\ \A s \in Stoppers : WF_vars(StopperStops(s))

FairSpec == Spec /\ Fairness

-----------------------------------------------------------------------------
(***************************************************************************)
(* Properties.                                                              *)
(***************************************************************************)
Packs == Senders \X (1..MaxPushes)

\* Type invariant.
TypeOK ==
  /\ work \in {"handshake", "onConnected", "add", "afterConnect", "run", "del", "stop",
               "stopping", "afterDisconnect", "done"}
  /\ registered \in BOOLEAN /\ connected \in BOOLEAN /\ stopping \in BOOLEAN
  /\ stopPc \in {"none", "disconnect", "tunnels", "closeChan", "closeConn", "done"}
  /\ notified \in Nat
  /\ sendChan \in Seq(Packs) /\ Len(sendChan) <= ChanSize
  /\ chanClosed \in BOOLEAN /\ connOpen \in BOOLEAN
  /\ watch \in {"off", "select", "done"} /\ tick \in {"off", "select", "done"}
  /\ send \in {"off", "select", "write", "done"}
  /\ read \in {"off", "check", "decode", "handle", "done"}
  /\ egErr \in {"nil", "cancelled", "stopped", "failed"}
  /\ writing \in Seq(Packs) /\ Len(writing) <= 1
  /\ wire \in Seq(Packs) /\ accepted \in Seq(Packs)
  /\ push \in [Senders -> {"idle", "check", "send", "refused", "panicked"}]
  /\ pushed \in [Senders -> 0..MaxPushes]
  /\ stopper \in [Stoppers -> {"idle", "stop", "done"}]

\* Every pack that Push accepted is on the wire, in the hands of sendLoop or in
\* the channel, in the order of acceptance: the peer gets a prefix of what was
\* accepted, with none missing in between, doubled or overtaken.  What the channel
\* holds when sendLoop ends stays there and is never written (sendLoop, Push).
AcceptedInOrder == accepted = wire \o writing \o sendChan

\* When BaseServer.work ends, the worker is out of the registry, its four loops
\* have ended and a stop is under way or over: no later Push is accepted once
\* the channel is closed, and no goroutine of Run outlives it.
NothingLeftRunning ==
  work = "done" =>
    /\ stopping /\ ~ registered
    /\ {watch, send, read, tick} \in {{"off"}, {"done"}}

\* What a worker is to the outside.
Lifecycle == INSTANCE WorkerLifecycle WITH
  phase <- IF ~ connOpen THEN "closed"
           ELSE IF stopping THEN "leaving"
           ELSE IF connected THEN "connected" ELSE "handshake",
  welcomed <- connected

\* The worker keeps the lifecycle that the service is promised.
ImplementsLifecycle == Lifecycle!Spec

\* Handle is busy with something else than Push, which only the service can end.
HandleBusy == read = "handle" /\ push[Reader] \in {"idle", "refused"}

\* Handle is in Push on the full sendChan.
HandleBlocked == push[Reader] = "send" /\ Len(sendChan) = ChanSize

\* Once anybody stops the worker, its connection is closed and all its goroutines
\* end, even when a Handle is blocked in Push at that moment (Stop closes sendChan,
\* which ends that Push); they stay only for a Handle that never returns of its own.
StopEndsWorker ==
  /\ stopping ~> ~ connOpen
  /\ (stopping ~> work = "done") \/ <>[]HandleBusy

\* Once one of the loops has failed (the peer is gone, a write or a Tick failed) or
\* the context is cancelled, the worker leaves by itself.  Only a Handle can hold
\* it: one that never returns of its own, such as in Forward on a full csChan, or
\* one in Push on the full sendChan, which no sendLoop empties any more.
FailureEndsWorker == (ctxDone ~> work = "done") \/ <>[](HandleBusy \/ HandleBlocked)

\* worker.go:215-217 answers a Push on a stopping worker with an error.
PushNeverPanics == \A p \in Pushers : push[p] # "panicked"

\* README.md:568, "Connection draining prevents data loss during restarts": a
\* worker that leaves because it was stopped has written what Push accepted.
DrainedAtStop == work = "done" /\ egErr = "stopped" => wire = accepted

=============================================================================
