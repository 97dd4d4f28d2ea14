----------------------------- MODULE KcpListener -----------------------------
(***************************************************************************)
(* The listener of kcp/server/listener.go and its smux sessions              *)
(* (kcp/server/smux.go) under the accept loops of BaseServer: the start loop *)
(* accepts KCP sessions; without smux it queues each on streamChan, with     *)
(* smux a loop per session queues its streams; Accept takes from streamChan. *)
(*                                                                          *)
(* External: AcceptKCP fails once the listener is closed; AcceptStream fails *)
(* when its session breaks, surely once the session or the listener is       *)
(* closed; Stoppable.TurnOff runs its function for the first caller only.    *)
(***************************************************************************)
EXTENDS Naturals, Sequences

CONSTANTS
  Sessions,    \* KCP sessions that clients open
  Loops,       \* accept loops of the server
  ChanSize,    \* capacity of streamChan
  Streams      \* bound: the streams clients open; <<s, n>> is the n-th of session s

ASSUME SizeAssumption == ChanSize \in Nat \ {0}

ASSUME StreamsAssumption ==
  /\ Streams \subseteq Sessions \X (Nat \ {0})
  /\ \A s \in Sessions : <<s, 1>> \in Streams

VARIABLES
  smux,          \* conf.Smux
  conn,          \* per session: what the start loop has done with it
  start,         \* where the start loop is
  session,       \* per session: where Smux.start is
  taken,         \* per session: streams AcceptStream has returned
  streamChan,
  smuxSessions,  \* keys of the session table
  smuxStop,      \* sessions that are stopped
  stopping, stop, due,  \* StopTriggered of the listener; its Stop, and what Range must visit
  listening, ctxDone,
  serverStop,    \* the server's Stop: "none", "walk" (its workers), "done"
  loop, handed

sessVars == <<session, taken>>
stopVars == <<stopping, stop, due, listening>>
srvVars  == <<serverStop, loop, handed>>
vars == <<smux, conn, start, sessVars, streamChan, smuxSessions, smuxStop, stopVars, ctxDone, srvVars>>

Init ==
  /\ smux \in BOOLEAN
  /\ conn = [s \in Sessions |-> "dialing"] /\ start = "check"
  /\ session = [s \in Sessions |-> "none"]
  /\ taken = [s \in Sessions |-> 0]
  /\ streamChan = <<>> /\ smuxSessions = {} /\ smuxStop = {}
  /\ stopping = FALSE /\ stop = "none" /\ due = {}
  /\ listening = TRUE /\ ctxDone = FALSE
  /\ serverStop = "none"
  /\ loop = [l \in Loops |-> "check"] /\ handed = [x \in Streams |-> 0]

\* streamChan <- carrier, which blocks while the channel is full.
Queue(x) ==
  /\ Len(streamChan) < ChanSize
  /\ streamChan' = Append(streamChan, x)

\* The first caller of Stop triggers the stop; Range starts on what is stored.
TurnOff ==
  /\ stopping' = TRUE
  /\ stop' = IF stopping THEN stop ELSE "range"
  /\ due' = IF stopping THEN due ELSE smuxSessions
  /\ UNCHANGED listening

-----------------------------------------------------------------------------
(* Listener.start: accept, and with smux startSmux.                           *)

StartChecks ==
  /\ start = "check"
  /\ start' = IF stopping \/ ctxDone THEN "stop" ELSE "accept"
  /\ UNCHANGED <<smux, conn, sessVars, streamChan, smuxSessions, smuxStop, stopVars, ctxDone, srvVars>>

StartAccepts(s) ==
  /\ start = "accept"
  /\ listening /\ conn[s] = "dialing"
  /\ conn' = [conn EXCEPT ![s] = "held"]
  /\ start' = "serve"
  /\ UNCHANGED <<smux, sessVars, streamChan, smuxSessions, smuxStop, stopVars, ctxDone, srvVars>>

StartAcceptFails ==
  /\ start = "accept"
  /\ ~ listening
  /\ start' = "check"
  /\ UNCHANGED <<smux, conn, sessVars, streamChan, smuxSessions, smuxStop, stopVars, ctxDone, srvVars>>

\* Without smux the session is the stream.
StartQueues(s) ==
  /\ ~ smux /\ conn[s] = "held"
  /\ Queue(<<s, 1>>)
  /\ conn' = [conn EXCEPT ![s] = "up"]
  /\ start' = "check"
  /\ UNCHANGED <<smux, sessVars, smuxSessions, smuxStop, stopVars, ctxDone, srvVars>>

NewSmuxFails(s) ==
  /\ smux /\ conn[s] = "held"
  /\ conn' = [conn EXCEPT ![s] = "refused"]
  /\ start' = "check"
  /\ UNCHANGED <<smux, sessVars, streamChan, smuxSessions, smuxStop, stopVars, ctxDone, srvVars>>

\* smux.GoAndStop: the loop of the session runs from here on.
StartSmux(s) ==
  /\ smux /\ conn[s] = "held"
  /\ conn' = [conn EXCEPT ![s] = "started"]
  /\ session' = [session EXCEPT ![s] = "check"]
  /\ UNCHANGED <<smux, start, taken, streamChan, smuxSessions, smuxStop, stopVars, ctxDone, srvVars>>

\* l.smuxSessions.Store, after the loop may have ended already.
StoreSmux(s) ==
  /\ conn[s] = "started"
  /\ smuxSessions' = smuxSessions \cup {s}
  /\ conn' = [conn EXCEPT ![s] = "up"]
  /\ start' = "check"
  /\ UNCHANGED <<smux, sessVars, streamChan, smuxStop, stopVars, ctxDone, srvVars>>

\* GoAndStop of the start loop.
StartStops ==
  /\ start = "stop"
  /\ TurnOff
  /\ start' = "done"
  /\ UNCHANGED <<smux, conn, sessVars, streamChan, smuxSessions, smuxStop, ctxDone, srvVars>>

-----------------------------------------------------------------------------
(* Smux.start of session s.                                                   *)

SessionChecks(s) ==
  /\ session[s] = "check"
  /\ session' = [session EXCEPT ![s] = IF s \in smuxStop \/ ctxDone THEN "delete" ELSE "accept"]
  /\ UNCHANGED <<smux, conn, start, taken, streamChan, smuxSessions, smuxStop, stopVars, ctxDone, srvVars>>

\* AcceptStream returns a stream that the client has opened.
SessionAccepts(s) ==
  /\ session[s] = "accept"
  /\ <<s, taken[s] + 1>> \in Streams
  /\ taken' = [taken EXCEPT ![s] = @ + 1]
  /\ session' = [session EXCEPT ![s] = "send"]
  /\ UNCHANGED <<smux, conn, start, streamChan, smuxSessions, smuxStop, stopVars, ctxDone, srvVars>>

SessionFails(s) ==
  /\ session[s] = "accept"
  /\ session' = [session EXCEPT ![s] = "delete"]
  /\ UNCHANGED <<smux, conn, start, taken, streamChan, smuxSessions, smuxStop, stopVars, ctxDone, srvVars>>

\* Mutant of SessionSends: the stream is dropped when the channel is full.
SessionDrops(s) ==
  /\ session[s] = "send"
  /\ streamChan' = IF Len(streamChan) < ChanSize THEN Append(streamChan, <<s, taken[s]>>) ELSE streamChan
  /\ session' = [session EXCEPT ![s] = "check"]
  /\ UNCHANGED <<smux, conn, start, taken, smuxSessions, smuxStop, stopVars, ctxDone, srvVars>>

SessionSends(s) ==
  /\ session[s] = "send"
  /\ Queue(<<s, taken[s]>>)
  /\ session' = [session EXCEPT ![s] = "check"]
  /\ UNCHANGED <<smux, conn, start, taken, smuxSessions, smuxStop, stopVars, ctxDone, srvVars>>

\* GoAndStop of the session: smuxSessions.Delete, and Stop of the Stoppable.
SessionEnds(s) ==
  /\ session[s] = "delete"
  /\ smuxSessions' = smuxSessions \ {s}
  /\ smuxStop' = smuxStop \cup {s}
  /\ session' = [session EXCEPT ![s] = "done"]
  /\ UNCHANGED <<smux, conn, start, taken, streamChan, stopVars, ctxDone, srvVars>>

-----------------------------------------------------------------------------
(* Listener.Stop.                                                             *)

CancelContext ==
  /\ ~ ctxDone
  /\ ctxDone' = TRUE
  /\ UNCHANGED <<smux, conn, start, sessVars, streamChan, smuxSessions, smuxStop, stopVars, srvVars>>

\* Smux.stop, which closes the session.  Range visits what was stored when it began
\* and may visit what is stored meanwhile.
StopVisits(s) ==
  /\ stop = "range"
  /\ s \in smuxSessions
  /\ smuxStop' = smuxStop \cup {s}
  /\ due' = due \ {s}
  /\ UNCHANGED <<smux, conn, start, sessVars, streamChan, smuxSessions, stopping, stop, listening, ctxDone, srvVars>>

\* Mutant of StopCloses: the listener is not closed.
StopKeepsListening ==
  /\ stop = "range"
  /\ due \cap smuxSessions = {}
  /\ stop' = "done"
  /\ UNCHANGED <<smux, conn, start, sessVars, streamChan, smuxSessions, smuxStop, stopping, due, listening, ctxDone, srvVars>>

\* l.listener.Close
StopCloses ==
  /\ stop = "range"
  /\ due \cap smuxSessions = {}
  /\ stop' = "done"
  /\ listening' = FALSE
  /\ UNCHANGED <<smux, conn, start, sessVars, streamChan, smuxSessions, smuxStop, stopping, due, ctxDone, srvVars>>

-----------------------------------------------------------------------------
(* BaseServer: its accept loops, and its Stop, which ends with listener.Stop.  *)

LoopChecks(l) ==
  /\ loop[l] = "check"
  /\ LET ends == serverStop # "none" \/ ctxDone
     IN  /\ loop' = [loop EXCEPT ![l] = IF ends THEN "done" ELSE "accept"]
         /\ serverStop' = IF ends /\ serverStop = "none" THEN "walk" ELSE serverStop
  /\ UNCHANGED <<smux, conn, start, sessVars, streamChan, smuxSessions, smuxStop, stopVars, ctxDone, handed>>

\* Mutant of AcceptTakes: the loop runs the worker itself and does not come back.
AcceptTakesLast(l) ==
  /\ loop[l] = "accept"
  /\ streamChan # <<>>
  /\ handed' = [handed EXCEPT ![Head(streamChan)] = @ + 1]
  /\ streamChan' = Tail(streamChan)
  /\ loop' = [loop EXCEPT ![l] = "work"]
  /\ UNCHANGED <<smux, conn, start, sessVars, smuxSessions, smuxStop, stopVars, ctxDone, serverStop>>

AcceptTakes(l) ==
  /\ loop[l] = "accept"
  /\ streamChan # <<>>
  /\ handed' = [handed EXCEPT ![Head(streamChan)] = @ + 1]
  /\ streamChan' = Tail(streamChan)
  /\ loop' = [loop EXCEPT ![l] = "check"]
  /\ UNCHANGED <<smux, conn, start, sessVars, smuxSessions, smuxStop, stopVars, ctxDone, serverStop>>

\* Mutant of AcceptFails: Accept has no case for StopTriggered.
AcceptIgnoresStop(l) ==
  /\ loop[l] = "accept"
  /\ ctxDone
  /\ loop' = [loop EXCEPT ![l] = "check"]
  /\ UNCHANGED <<smux, conn, start, sessVars, streamChan, smuxSessions, smuxStop, stopVars, ctxDone, serverStop, handed>>

\* case <-l.StopTriggered() or case <-ctx.Done()
AcceptFails(l) ==
  /\ loop[l] = "accept"
  /\ stopping \/ ctxDone
  /\ loop' = [loop EXCEPT ![l] = "check"]
  /\ UNCHANGED <<smux, conn, start, sessVars, streamChan, smuxSessions, smuxStop, stopVars, ctxDone, serverStop, handed>>

ServerStopCall ==
  /\ serverStop = "none"
  /\ serverStop' = "walk"
  /\ UNCHANGED <<smux, conn, start, sessVars, streamChan, smuxSessions, smuxStop, stopVars, ctxDone, loop, handed>>

ServerStopsListener ==
  /\ serverStop = "walk"
  /\ TurnOff
  /\ serverStop' = "done"
  /\ UNCHANGED <<smux, conn, start, sessVars, streamChan, smuxSessions, smuxStop, ctxDone, loop, handed>>

-----------------------------------------------------------------------------
StartSteps ==
  \/ StartChecks \/ StartAcceptFails \/ StartStops
  \/ \E s \in Sessions : StartQueues(s) \/ NewSmuxFails(s) \/ StartSmux(s) \/ StoreSmux(s)

SessionSteps(s) == SessionChecks(s) \/ SessionSends(s) \/ SessionEnds(s)

LoopSteps(l) == LoopChecks(l) \/ AcceptTakes(l) \/ AcceptFails(l)

Next ==
  \/ StartSteps
  \/ \E s \in Sessions : \/ StartAccepts(s) \/ SessionAccepts(s) \/ SessionFails(s)
                         \/ SessionSteps(s) \/ StopVisits(s)
  \/ \E l \in Loops : LoopSteps(l)
  \/ StopCloses \/ CancelContext \/ ServerStopCall \/ ServerStopsListener

Spec == Init /\ [][Next]_vars

\* Goroutines run on; a sender blocked on streamChan gets its turn, as Go's channels
\* queue their senders; the AcceptStream of a closed session returns.  Clients owe
\* neither a session nor a stream.
Fairness ==
  /\ WF_vars(StartSteps)
  /\ \A s \in Sessions :
       /\ WF_vars(SessionSteps(s) \/ ((s \in smuxStop \/ ~ listening) /\ SessionFails(s)))
  /\ \A l \in Loops : WF_vars(LoopSteps(l))
  /\ WF_vars(StopCloses \/ \E s \in due : StopVisits(s))
  /\ WF_vars(ServerStopsListener)

FairSpec == Spec /\ Fairness

-----------------------------------------------------------------------------
(***************************************************************************)
(* Properties.                                                              *)
(***************************************************************************)
\* Type invariant.
TypeOK ==
  /\ smux \in BOOLEAN
  /\ conn \in [Sessions -> {"dialing", "held", "refused", "started", "up"}]
  /\ start \in {"check", "accept", "serve", "stop", "done"}
  /\ session \in [Sessions -> {"none", "check", "accept", "send", "delete", "done"}]
  /\ taken \in [Sessions -> Nat]
  /\ streamChan \in Seq(Streams) /\ Len(streamChan) <= ChanSize
  /\ smuxSessions \subseteq Sessions /\ smuxStop \subseteq Sessions /\ due \subseteq Sessions
  /\ stopping \in BOOLEAN /\ stop \in {"none", "range", "done"}
  /\ listening \in BOOLEAN /\ ctxDone \in BOOLEAN
  /\ serverStop \in {"none", "walk", "done"}
  /\ loop \in [Loops -> {"check", "accept", "done"}] /\ handed \in [Streams -> Nat]

\* What has been accepted from the network: with smux the streams AcceptStream
\* returned, otherwise the sessions.
Accepted(x) == IF smux THEN x[2] <= taken[x[1]]
               ELSE x[2] = 1 /\ conn[x[1]] \in {"held", "up"}

\* The loop that accepted x is at its send.
Pending(x) == IF smux THEN session[x[1]] = "send" /\ x[2] = taken[x[1]]
              ELSE x[2] = 1 /\ conn[x[1]] = "held"

Phase(x) ==
  IF ~ Accepted(x) THEN "outside"
  ELSE IF handed[x] > 0 THEN "served"
  ELSE IF Pending(x) THEN "pending" ELSE "queued"

HandOver == INSTANCE HandOver WITH
  Carriers <- Streams, Size <- ChanSize, Waits <- TRUE,
  phase <- [x \in Streams |-> Phase(x)], queue <- streamChan, closed <- FALSE

\* The listener hands its streams over as HandOver says: whichever sessions and accept
\* loops race, and whenever it is stopped, an accepted stream is queued once, when
\* there is room, and those that Accept takes go to one loop each, in the order of
\* queueing.  (What is in streamChan or before it at the stop may stay there.)
ImplementsHandOver == HandOver!Spec

\* The accept loops end once the server stops, although the server's own trigger is
\* not among the cases of Accept: the listener's is.
LoopsEnd == <>[](serverStop # "none" \/ ctxDone => \A l \in Loops : loop[l] = "done")

\* An accepted stream is handed to a worker unless the server ends, however full
\* streamChan is.
AcceptedIsServed ==
  <>[](\A x \in Streams : Accepted(x) => handed[x] = 1 \/ serverStop # "none" \/ ctxDone)

\* Session s has no loop, or its loop has ended or is at its send on a full streamChan.
AtRest(s) ==
  \/ session[s] \in {"none", "done"}
  \/ session[s] = "send" /\ Len(streamChan) = ChanSize

\* Once the listener is stopped, its goroutines end: the start loop, and the loop of
\* every session, also of one that was stored after Range had begun.  The exception is
\* a loop at its send on the full streamChan, from which nobody may take any more.
StopEndsListener ==
  <>[](stopping => /\ start = "done" \/ (start = "serve" /\ ~ smux /\ Len(streamChan) = ChanSize)
                   /\ \A s \in Sessions : AtRest(s))

=============================================================================
