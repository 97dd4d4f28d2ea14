-------------------------- MODULE WebSocketListener --------------------------
(***************************************************************************)
(* The listener of websocket/server/listener.go under the accept loops and   *)
(* the Stop of BaseServer (internal/server.go): HTTP handlers upgrade their  *)
(* connections and queue them on connChan, Accept takes them from there.     *)
(*                                                                          *)
(* External: http.Server.  Shutdown closes the net.Listener and makes Serve  *)
(* return; it does not wait for a handler that has upgraded (hijacked) its   *)
(* connection, and a handler that panics is recovered.  Of the workers only  *)
(* the handing over is modelled; BaseServer.tla has the rest.                *)
(***************************************************************************)
EXTENDS Naturals, Sequences

CONSTANTS
  Conns,    \* connections that clients open
  Loops,    \* accept loops of the server
  ChanSize  \* capacity of connChan

ASSUME SizeAssumption == ChanSize \in Nat \ {0}

\* The two calls of Stop: in BaseServer.Stop, and after Serve has returned.
Callers == {"server", "serve"}

VARIABLES
  handler,    \* per connection: where handleWebSocket is
  connChan, chanClosed,
  listening,  \* the net.Listener is open
  stopping,   \* StopTriggered of the server
  ctxDone,    \* the context of the server's Start
  stop,       \* per caller of the listener's Stop: where it is
  loop,       \* per accept loop: where it is
  handed,     \* per connection: how often Accept has returned it
  zero        \* Accept has returned a zero ConnCarrier without an error

queue == <<connChan, chanClosed>>
ends  == <<listening, stopping, ctxDone, stop>>
vars  == <<handler, queue, ends, loop, handed, zero>>

Init ==
  /\ handler = [c \in Conns |-> "dialing"]
  /\ connChan = <<>> /\ chanClosed = FALSE
  /\ listening = TRUE /\ stopping = FALSE /\ ctxDone = FALSE
  /\ stop = [w \in Callers |-> "none"]
  /\ loop = [l \in Loops |-> "check"]
  /\ handed = [c \in Conns |-> 0] /\ zero = FALSE

-----------------------------------------------------------------------------
(* handleWebSocket.                                                           *)

Request(c) ==
  /\ handler[c] = "dialing"
  /\ listening
  /\ handler' = [handler EXCEPT ![c] = "upgrade"]
  /\ UNCHANGED <<queue, ends, loop, handed, zero>>

\* Shutdown waits for a request that is being upgraded only as long as its context
\* lasts, so this step may come at any time.
Upgrade(c, ok) ==
  /\ handler[c] = "upgrade"
  /\ handler' = [handler EXCEPT ![c] = IF ok THEN "send" ELSE "refused"]
  /\ UNCHANGED <<queue, ends, loop, handed, zero>>

\* Mutant of HandlerSends: a retry of the send queues the connection twice.
HandlerSendsTwice(c) ==
  /\ handler[c] \in {"send", "queued"}
  /\ ~ chanClosed /\ Len(connChan) < ChanSize
  /\ connChan' = Append(connChan, c)
  /\ handler' = [handler EXCEPT ![c] = "queued"]
  /\ UNCHANGED <<chanClosed, ends, loop, handed, zero>>

\* select { case l.connChan <- carrier: default: }.  A send on the closed channel
\* panics; neither that nor the default case closes the connection.
HandlerSends(c) ==
  /\ handler[c] = "send"
  /\ LET room == ~ chanClosed /\ Len(connChan) < ChanSize
     IN  /\ handler' = [handler EXCEPT ![c] = IF chanClosed THEN "panicked"
                                              ELSE IF room THEN "queued" ELSE "dropped"]
         /\ connChan' = IF room THEN Append(connChan, c) ELSE connChan
  /\ UNCHANGED <<chanClosed, ends, loop, handed, zero>>

-----------------------------------------------------------------------------
(* BaseServer.acceptLoop and Accept.                                          *)

\* The first caller of BaseServer.Stop; the listener's Stop comes at its end.
TurnOff ==
  /\ stopping' = TRUE
  /\ stop' = [stop EXCEPT !["server"] = IF stopping THEN @ ELSE "close"]
  /\ UNCHANGED <<listening, ctxDone>>

LoopChecks(l) ==
  /\ loop[l] = "check"
  /\ loop' = [loop EXCEPT ![l] = IF stopping \/ ctxDone THEN "stop" ELSE "accept"]
  /\ UNCHANGED <<handler, queue, ends, handed, zero>>

\* case wrapper := <-l.connChan
AcceptTakes(l) ==
  /\ loop[l] = "accept"
  /\ connChan # <<>>
  /\ handed' = [handed EXCEPT ![Head(connChan)] = @ + 1]
  /\ connChan' = Tail(connChan)
  /\ loop' = [loop EXCEPT ![l] = "check"]
  /\ UNCHANGED <<handler, chanClosed, ends, zero>>

\* The same case on the closed and empty channel: a zero carrier, and no error.
AcceptTakesZero(l) ==
  /\ loop[l] = "accept"
  /\ connChan = <<>> /\ chanClosed
  /\ zero' = TRUE
  /\ loop' = [loop EXCEPT ![l] = "check"]
  /\ UNCHANGED <<handler, queue, ends, handed>>

\* case <-ctx.Done()
AcceptFails(l) ==
  /\ loop[l] = "accept"
  /\ ctxDone
  /\ loop' = [loop EXCEPT ![l] = "check"]
  /\ UNCHANGED <<handler, queue, ends, handed, zero>>

\* GoAndStop of the loop: BaseServer.Stop.
LoopStops(l) ==
  /\ loop[l] = "stop"
  /\ TurnOff
  /\ loop' = [loop EXCEPT ![l] = "done"]
  /\ UNCHANGED <<handler, queue, handed, zero>>

-----------------------------------------------------------------------------
(* Stop, by caller w.                                                         *)

CancelContext ==
  /\ ~ ctxDone
  /\ ctxDone' = TRUE
  /\ UNCHANGED <<handler, queue, listening, stopping, stop, loop, handed, zero>>

\* The application stops the server.
StopCall ==
  /\ ~ stopping
  /\ TurnOff
  /\ UNCHANGED <<handler, queue, loop, handed, zero>>

\* Serve returns, because of Shutdown or of an error of its own, and GoAndStop
\* calls Stop.
ServeReturns ==
  /\ stop["serve"] = "none"
  /\ stop' = [stop EXCEPT !["serve"] = "close"]
  /\ UNCHANGED <<handler, queue, listening, stopping, ctxDone, loop, handed, zero>>

\* Mutant of StopCloses: connChan is left open.
StopLeavesOpen(w) ==
  /\ stop[w] = "close"
  /\ stop' = [stop EXCEPT ![w] = "shutdown"]
  /\ UNCHANGED <<handler, queue, listening, stopping, ctxDone, loop, handed, zero>>

\* close(l.connChan), which panics the second time.
StopCloses(w) ==
  /\ stop[w] = "close"
  /\ stop' = [stop EXCEPT ![w] = IF chanClosed THEN "panicked" ELSE "shutdown"]
  /\ chanClosed' = TRUE
  /\ UNCHANGED <<handler, connChan, listening, stopping, ctxDone, loop, handed, zero>>

\* server.Shutdown, then listener.Close, which Shutdown has done already.
StopShutsDown(w) ==
  /\ stop[w] = "shutdown"
  /\ stop' = [stop EXCEPT ![w] = "done"]
  /\ listening' = FALSE
  /\ UNCHANGED <<handler, queue, stopping, ctxDone, loop, handed, zero>>

-----------------------------------------------------------------------------
StopSteps(w) == StopCloses(w) \/ StopShutsDown(w)

LoopSteps(l) ==
  LoopChecks(l) \/ AcceptTakes(l) \/ AcceptTakesZero(l) \/ AcceptFails(l) \/ LoopStops(l)

Next ==
  \/ CancelContext \/ StopCall \/ ServeReturns
  \/ \E c \in Conns : Request(c) \/ HandlerSends(c) \/ \E ok \in BOOLEAN : Upgrade(c, ok)
  \/ \E l \in Loops : LoopSteps(l)
  \/ \E w \in Callers : StopSteps(w)

Spec == Init /\ [][Next]_vars

\* Goroutines run on, and Serve returns once the listener is closed.
Fairness ==
  /\ \A c \in Conns : WF_vars(HandlerSends(c))
  /\ \A l \in Loops : WF_vars(LoopSteps(l))
  /\ \A w \in Callers : WF_vars(StopSteps(w))
  /\ WF_vars(~ listening /\ ServeReturns)

FairSpec == Spec /\ Fairness

-----------------------------------------------------------------------------
(***************************************************************************)
(* Properties.                                                              *)
(***************************************************************************)
\* Type invariant.
TypeOK ==
  /\ handler \in [Conns -> {"dialing", "upgrade", "refused", "send", "queued", "dropped", "panicked"}]
  /\ connChan \in Seq(Conns) /\ Len(connChan) <= ChanSize
  /\ chanClosed \in BOOLEAN /\ listening \in BOOLEAN /\ stopping \in BOOLEAN
  /\ ctxDone \in BOOLEAN /\ zero \in BOOLEAN
  /\ stop \in [Callers -> {"none", "close", "shutdown", "done", "panicked"}]
  /\ loop \in [Loops -> {"check", "accept", "stop", "done"}]
  /\ handed \in [Conns -> Nat]

Phase(c) ==
  CASE handler[c] \in {"dialing", "upgrade", "refused"} -> "outside"
    [] handler[c] = "send"                              -> "pending"
    [] handler[c] \in {"dropped", "panicked"}           -> "dropped"
    [] handler[c] = "queued"                            -> IF handed[c] > 0 THEN "served" ELSE "queued"

HandOver == INSTANCE HandOver WITH
  Carriers <- Conns, Size <- ChanSize, Waits <- FALSE,
  phase <- [c \in Conns |-> Phase(c)], queue <- connChan, closed <- chanClosed

\* The listener hands its connections over as HandOver says: whichever accept loops
\* race and whoever closes connChan, a connection that a handler has queued goes to one
\* worker, in the order of queueing, and one is dropped only when connChan is full or
\* closed.
ImplementsHandOver == HandOver!Spec

\* Accept has no case for the stop of the server: its loops end because Stop
\* closes connChan.
LoopsEnd == (stopping \/ ctxDone) ~> \A l \in Loops : loop[l] = "done"

\* internal/listener.go:19, "Stop stops the listener gracefully": neither call of
\* Stop panics.
StopNeverPanics == \A w \in Callers : stop[w] # "panicked"

\* internal/listener.go:22, "Accept accepts a new connection and returns it as
\* net.Conn": an Accept without an error returns a connection.
AcceptReturnsConn == ~ zero

=============================================================================
