----------------------------- MODULE Kcp_proofs -----------------------------
(***************************************************************************)
(* For any sessions, streams, accept loops and channel size, with and without*)
(* smux: the KCP listener implements the abstract hand-over.  For every set of*)
(* valid base configurations and every history of measurements, the tuner   *)
(* hands out valid configurations near its base.                            *)
(***************************************************************************)
EXTENDS KcpListener, KcpTuner, TLAPS

(***************************************************************************)
(* KcpListener.                                                             *)
(***************************************************************************)

\* A session has a loop only with smux and after the start loop made it one; the loop
\* is at its send with a stream that it has accepted.
SessionInv ==
  /\ \A s \in Sessions : session[s] # "none" => smux /\ conn[s] \in {"started", "up"}
  /\ \A s \in Sessions : conn[s] = "started" => smux
  /\ \A s \in Sessions : session[s] = "send" => <<s, taken[s]>> \in Streams

\* streamChan holds each stream once, has it from a loop that is done with it, and none
\* that was handed out; only such streams are handed out.
StreamInv ==
  /\ \A i \in 1..Len(streamChan) : handed[streamChan[i]] = 0
  /\ \A i \in 1..Len(streamChan) : Accepted(streamChan[i]) /\ ~ Pending(streamChan[i])
  /\ \A i, j \in 1..Len(streamChan) : streamChan[i] = streamChan[j] => i = j
  /\ \A x \in Streams : ~ Accepted(x) \/ Pending(x) => handed[x] = 0

ListenerInv == TypeOK /\ SessionInv /\ StreamInv

-----------------------------------------------------------------------------
(* What a step does to the streams, in the listener and in HandOver.          *)

\* The steps keep what HandOver sees of a stream.
Same(x) == (Accepted(x)' <=> Accepted(x)) /\ (Pending(x)' <=> Pending(x))

\* HandOver's phase of a stream, case by case.
LEMMA PhaseCases ==
  ASSUME NEW x \in Streams
  PROVE  /\ ~ Accepted(x) => Phase(x) = "outside"
         /\ Accepted(x) /\ handed[x] > 0 /\ handed[x] # 0 => Phase(x) = "served"
         /\ Accepted(x) /\ ~ (handed[x] > 0) /\ handed[x] = 0 /\ Pending(x) => Phase(x) = "pending"
         /\ Accepted(x) /\ ~ (handed[x] > 0) /\ handed[x] = 0 /\ ~ Pending(x) => Phase(x) = "queued"
BY Zenon DEF Phase

LEMMA PhaseSame ==
  ASSUME NEW x \in Streams, Same(x), handed'[x] = handed[x]
  PROVE  Phase(x)' = Phase(x)
BY Zenon DEF Phase, Same, Accepted, Pending

\* A step that moves one stream in the listener moves it in HandOver.
LEMMA MoveOf ==
  ASSUME NEW x \in Streams, \A y \in Streams : y # x => Phase(y)' = Phase(y)
  PROVE  HandOver!Move(x, Phase(x), Phase(x)')
<1>1. [y \in Streams |-> Phase(y)]' = [[y \in Streams |-> Phase(y)] EXCEPT ![x] = Phase(x)']
  OBVIOUS
<1>2. QED
  BY <1>1 DEF HandOver!Move

\* A step that changes nothing of what HandOver sees.
LEMMA StutterKeeps ==
  ASSUME TypeOK, StreamInv, UNCHANGED <<streamChan, handed>>, \A x \in Streams : Same(x)
  PROVE  StreamInv' /\ UNCHANGED HandOver!vars
<1>1. \A i \in 1..Len(streamChan) : streamChan[i] \in Streams
  BY DEF TypeOK
<1>2. StreamInv'
  BY <1>1 DEF StreamInv, Same
<1>3. \A x \in Streams : Phase(x)' = Phase(x)
  BY PhaseSame
<1>4. [x \in Streams |-> Phase(x)]' = [x \in Streams |-> Phase(x)]
  BY <1>3
<1>5. QED
  BY <1>2, <1>4 DEF HandOver!vars

\* A loop accepts a stream: it is new, and is not in streamChan.
LEMMA ArriveKeeps ==
  ASSUME TypeOK, StreamInv, UNCHANGED <<streamChan, handed>>,
         NEW x \in Streams, ~ Accepted(x), Accepted(x)', Pending(x)',
         \A y \in Streams : y # x => Same(y)
  PROVE  StreamInv' /\ HandOver!Next
<1>1. \A i \in 1..Len(streamChan) : streamChan[i] \in Streams /\ streamChan[i] # x
  BY DEF TypeOK, StreamInv
<1>2. handed[x] = 0 /\ handed'[x] = 0 /\ ~ (handed'[x] > 0)
  BY DEF StreamInv
<1>3. StreamInv'
  BY <1>1, <1>2 DEF StreamInv, Same
<1>4. Phase(x) = "outside"
  BY PhaseCases
<1>5. Phase(x)' = "pending"
  BY <1>2, Zenon DEF Phase, Accepted, Pending
<1>6. \A y \in Streams : y # x => Phase(y)' = Phase(y)
  BY PhaseSame
<1>7. HandOver!Arrive(x)
  BY <1>4, <1>5, <1>6, MoveOf DEF HandOver!Arrive
<1>8. QED
  BY <1>3, <1>7 DEF HandOver!Next

\* A loop queues the stream it has accepted.
LEMMA QueueKeeps ==
  ASSUME TypeOK, StreamInv, UNCHANGED handed,
         NEW x \in Streams, Queue(x), Accepted(x), Pending(x), Accepted(x)', ~ Pending(x)',
         \A y \in Streams : y # x => Same(y)
  PROVE  /\ StreamInv' /\ HandOver!Next
         /\ streamChan' \in Seq(Streams) /\ Len(streamChan') <= ChanSize
<1>1. \A i \in 1..Len(streamChan) : streamChan[i] \in Streams /\ streamChan[i] # x
  BY DEF TypeOK, StreamInv
<1>2. handed[x] = 0 /\ handed'[x] = 0 /\ ~ (handed[x] > 0) /\ ~ (handed'[x] > 0)
  BY DEF StreamInv
<1>3. /\ streamChan' \in Seq(Streams) /\ Len(streamChan') = Len(streamChan) + 1
      /\ Len(streamChan) \in Nat /\ Len(streamChan) < ChanSize
      /\ \A i \in 1..Len(streamChan) : streamChan'[i] = streamChan[i]
      /\ streamChan'[Len(streamChan) + 1] = x
  BY DEF TypeOK, Queue
<1>4. \A i \in 1..Len(streamChan') : i \in 1..Len(streamChan) \/ i = Len(streamChan) + 1
  BY <1>3
<1>5. ASSUME NEW i \in 1..Len(streamChan')
      PROVE  /\ handed'[streamChan'[i]] = 0
             /\ Accepted(streamChan[i])' /\ ~ Pending(streamChan[i])'
  <2>1. CASE i \in 1..Len(streamChan)
    <3>1. PICK y \in Streams : y = streamChan[i] /\ y = streamChan'[i] /\ y # x
      BY <1>1, <1>3, <2>1
    <3>2. handed[y] = 0 /\ Accepted(y) /\ ~ Pending(y)
      BY <2>1, <3>1 DEF StreamInv
    <3>3. handed'[y] = 0 /\ Accepted(y)' /\ ~ Pending(y)'
      BY <3>1, <3>2 DEF Same
    <3>4. QED
      BY <3>1, <3>3
  <2>2. CASE i = Len(streamChan) + 1
    <3>1. streamChan'[i] = x
      BY <1>3, <2>2
    <3>2. QED
      BY <1>2, <3>1
  <2>3. QED
    BY <1>4, <2>1, <2>2
<1>6. ASSUME NEW i \in 1..Len(streamChan'), NEW j \in 1..Len(streamChan'), streamChan'[i] = streamChan'[j]
      PROVE  i = j
  <2>1. CASE i \in 1..Len(streamChan) /\ j \in 1..Len(streamChan)
    BY <1>3, <1>6, <2>1 DEF StreamInv
  <2>2. CASE i = Len(streamChan) + 1 \/ j = Len(streamChan) + 1
    BY <1>1, <1>3, <1>4, <1>6, <2>2
  <2>3. QED
    BY <1>4, <2>1, <2>2
<1>7. \A y \in Streams : ~ Accepted(y)' \/ Pending(y)' => handed'[y] = 0
  BY <1>2 DEF StreamInv, Same
<1>8. StreamInv'
  BY <1>5, <1>6, <1>7 DEF StreamInv
<1>9. Phase(x) = "pending"
  BY <1>2, PhaseCases
<1>10. Phase(x)' = "queued"
  BY <1>2, Zenon DEF Phase, Accepted, Pending
<1>11. \A y \in Streams : y # x => Phase(y)' = Phase(y)
  BY PhaseSame
<1>12. HandOver!Enqueue(x)
  BY <1>9, <1>10, <1>11, MoveOf DEF HandOver!Enqueue, Queue
<1>13. QED
  BY <1>3, <1>8, <1>12, SizeAssumption DEF HandOver!Next

\* Accept takes the first stream of streamChan: it is not there any more.
LEMMA ServeKeeps ==
  ASSUME TypeOK, StreamInv, streamChan # <<>>, streamChan' = Tail(streamChan),
         handed' = [handed EXCEPT ![Head(streamChan)] = @ + 1],
         \A x \in Streams : Same(x)
  PROVE  /\ StreamInv' /\ HandOver!Next
         /\ streamChan' \in Seq(Streams) /\ Len(streamChan') <= ChanSize
         /\ handed' \in [Streams -> Nat]
<1>1. PICK x \in Streams : x = Head(streamChan) /\ x = streamChan[1]
  BY DEF TypeOK
<1>2. /\ Len(streamChan) \in Nat \ {0}
      /\ streamChan' \in Seq(Streams) /\ Len(streamChan') = Len(streamChan) - 1
      /\ \A i \in 1..Len(streamChan') : streamChan'[i] = streamChan[i + 1]
  BY DEF TypeOK
<1>3. \A i \in 1..Len(streamChan') : i + 1 \in 1..Len(streamChan) /\ i + 1 # 1 /\ 1 \in 1..Len(streamChan)
  BY <1>2
<1>4. /\ handed' \in [Streams -> Nat] /\ handed[x] = 0 /\ handed'[x] = 1
      /\ \A y \in Streams : y # x => handed'[y] = handed[y]
  BY <1>1, <1>2 DEF TypeOK, StreamInv
<1>5. Accepted(x) /\ ~ Pending(x) /\ Accepted(x)' /\ ~ Pending(x)'
  BY <1>1, <1>2 DEF StreamInv, Same
<1>6. ASSUME NEW i \in 1..Len(streamChan')
      PROVE  handed'[streamChan'[i]] = 0 /\ Accepted(streamChan[i])' /\ ~ Pending(streamChan[i])'
  <2>1. PICK y \in Streams : y = streamChan'[i] /\ y = streamChan[i + 1] /\ y # x
    BY <1>1, <1>2, <1>3 DEF TypeOK, StreamInv
  <2>2. handed[y] = 0 /\ Accepted(y) /\ ~ Pending(y)
    BY <1>3, <2>1 DEF StreamInv
  <2>3. handed'[y] = 0 /\ Accepted(y)' /\ ~ Pending(y)'
    BY <1>4, <2>1, <2>2 DEF Same
  <2>4. QED
    BY <2>1, <2>3
<1>7. ASSUME NEW i \in 1..Len(streamChan'), NEW j \in 1..Len(streamChan'), streamChan'[i] = streamChan'[j]
      PROVE  i = j
  <2>1. i + 1 = j + 1
    BY <1>2, <1>3, <1>7 DEF StreamInv
  <2>2. QED
    BY <1>2, <2>1
<1>8. \A y \in Streams : ~ Accepted(y)' \/ Pending(y)' => handed'[y] = 0
  BY <1>4, <1>5 DEF StreamInv, Same
<1>9. StreamInv'
  BY <1>6, <1>7, <1>8 DEF StreamInv
<1>10. ~ (handed[x] > 0) /\ handed'[x] > 0 /\ handed'[x] # 0
  BY <1>4
<1>11. Phase(x) = "queued"
  BY <1>4, <1>5, <1>10, PhaseCases
<1>12. Phase(x)' = "served"
  BY <1>5, <1>10, Zenon DEF Phase, Accepted, Pending
<1>13. \A y \in Streams : y # x => Phase(y)' = Phase(y)
  BY <1>4, PhaseSame
<1>14. HandOver!Move(x, "queued", "served")
  BY <1>11, <1>12, <1>13, MoveOf
<1>15. HandOver!Serve
  BY <1>1, <1>14 DEF HandOver!Serve
<1>16. Len(streamChan') <= ChanSize
  BY <1>2, SizeAssumption DEF TypeOK
<1>17. QED
  BY <1>2, <1>4, <1>9, <1>15, <1>16 DEF HandOver!Next

-----------------------------------------------------------------------------
(* Which actions do that.                                                     *)

\* What an action shows: the invariants are kept, and HandOver makes a step or none.
Kept == ListenerInv' /\ [HandOver!Next]_(HandOver!vars)

\* The steps that leave the sessions, streamChan and the count of deliveries alone.
QuietSteps ==
  \/ StartChecks \/ StartAcceptFails \/ StartStops
  \/ \E s \in Sessions : StopVisits(s)
  \/ \E l \in Loops : LoopChecks(l) \/ AcceptFails(l)
  \/ StopCloses \/ CancelContext \/ ServerStopCall \/ ServerStopsListener

\* The steps of sessions with smux in which no stream moves.
TableSteps(s) ==
  \/ smux /\ StartAccepts(s)
  \/ NewSmuxFails(s) \/ StartSmux(s) \/ StoreSmux(s)
  \/ SessionChecks(s) \/ SessionFails(s) \/ SessionEnds(s)

LEMMA NextSplits ==
  ASSUME Next
  PROVE  \/ QuietSteps
         \/ \E s \in Sessions : TableSteps(s)
         \/ \E s \in Sessions : (~ smux /\ StartAccepts(s)) \/ StartQueues(s)
         \/ \E s \in Sessions : SessionAccepts(s) \/ SessionSends(s)
         \/ \E l \in Loops : AcceptTakes(l)
BY DEF Next, StartSteps, SessionSteps, LoopSteps, QuietSteps, TableSteps

\* A stream is a session and an index.
LEMMA StreamParts ==
  ASSUME NEW x \in Streams
  PROVE  x = <<x[1], x[2]>> /\ x[1] \in Sessions /\ x[2] \in Nat \ {0}
BY StreamsAssumption

LEMMA QuietFrame ==
  ASSUME QuietSteps
  PROVE  UNCHANGED <<smux, conn, session, taken, streamChan, handed>>
BY DEF QuietSteps, StartChecks, StartAcceptFails, StartStops, StopVisits, LoopChecks,
       AcceptFails, StopCloses, CancelContext, ServerStopCall, ServerStopsListener,
       sessVars, srvVars

\* Whoever calls Stop first.
LEMMA TurnOffTypes ==
  ASSUME TypeOK, TurnOff
  PROVE  /\ stopping' \in BOOLEAN /\ stop' \in {"none", "range", "done"}
         /\ due' \subseteq Sessions /\ listening' = listening
BY DEF TurnOff, TypeOK

LEMMA QuietTypes ==
  ASSUME TypeOK, QuietSteps
  PROVE  TypeOK'
<1>1. UNCHANGED <<smux, conn, session, taken, streamChan, handed>>
  BY QuietFrame
<1> SUFFICES /\ start' \in {"check", "accept", "serve", "stop", "done"}
             /\ smuxSessions' \subseteq Sessions /\ smuxStop' \subseteq Sessions /\ due' \subseteq Sessions
             /\ stopping' \in BOOLEAN /\ stop' \in {"none", "range", "done"}
             /\ listening' \in BOOLEAN /\ ctxDone' \in BOOLEAN
             /\ serverStop' \in {"none", "walk", "done"}
             /\ loop' \in [Loops -> {"check", "accept", "done"}]
  BY <1>1 DEF TypeOK
<1>2. CASE StartChecks \/ StartAcceptFails
  BY <1>2 DEF StartChecks, StartAcceptFails, sessVars, stopVars, srvVars, TypeOK
<1>3. CASE StartStops
  BY <1>3, TurnOffTypes DEF StartStops, sessVars, srvVars, TypeOK
<1>4. ASSUME NEW s \in Sessions, StopVisits(s)
      PROVE  /\ smuxStop' \subseteq Sessions /\ due' \subseteq Sessions
             /\ UNCHANGED <<start, smuxSessions, stopping, stop, listening, ctxDone,
                            serverStop, loop>>
  BY <1>4 DEF StopVisits, sessVars, srvVars, TypeOK
<1>5. ASSUME NEW l \in Loops, LoopChecks(l) \/ AcceptFails(l)
      PROVE  /\ loop' \in [Loops -> {"check", "accept", "done"}] /\ serverStop' \in {"none", "walk", "done"}
             /\ UNCHANGED <<start, smuxSessions, smuxStop, due, stopping, stop, listening, ctxDone>>
  BY <1>5 DEF LoopChecks, AcceptFails, sessVars, stopVars, srvVars, TypeOK
<1>6. CASE StopCloses
  BY <1>6 DEF StopCloses, sessVars, srvVars, TypeOK
<1>7. CASE CancelContext
  BY <1>7 DEF CancelContext, sessVars, stopVars, srvVars, TypeOK
<1>8. CASE ServerStopCall
  BY <1>8 DEF ServerStopCall, sessVars, stopVars, srvVars, TypeOK
<1>9. CASE ServerStopsListener
  BY <1>9, TurnOffTypes DEF ServerStopsListener, sessVars, srvVars, TypeOK
<1>10. QED
  BY <1>2, <1>3, <1>4, <1>5, <1>6, <1>7, <1>8, <1>9 DEF QuietSteps, TypeOK

LEMMA QuietKeeps ==
  ASSUME ListenerInv, QuietSteps
  PROVE  Kept
<1>1. UNCHANGED <<smux, conn, session, taken, streamChan, handed>>
  BY QuietFrame
<1>2. \A x \in Streams : Same(x)
  BY <1>1 DEF Same, Accepted, Pending
<1>3. SessionInv'
  BY <1>1 DEF ListenerInv, SessionInv
<1>4. StreamInv' /\ UNCHANGED HandOver!vars
  BY <1>1, <1>2, StutterKeeps DEF ListenerInv
<1>5. TypeOK'
  BY QuietTypes DEF ListenerInv
<1>6. QED
  BY <1>3, <1>4, <1>5 DEF Kept, ListenerInv

LEMMA TableKeeps ==
  ASSUME ListenerInv, NEW s \in Sessions, TableSteps(s)
  PROVE  Kept
<1>1. /\ UNCHANGED <<smux, taken, streamChan, handed, stopping, stop, due, listening, ctxDone,
                     serverStop, loop>>
      /\ start' \in {start, "check", "serve"}
      /\ smuxSessions' \subseteq smuxSessions \cup {s} /\ smuxStop' \subseteq smuxStop \cup {s}
  BY DEF TableSteps, StartAccepts, NewSmuxFails, StartSmux, StoreSmux, SessionChecks,
         SessionFails, SessionEnds, sessVars, stopVars, srvVars
<1>2. smux
  BY DEF TableSteps, NewSmuxFails, StartSmux, StoreSmux, SessionChecks, SessionFails, SessionEnds,
         ListenerInv, SessionInv
<1> DEFINE Moved ==
      /\ conn' \in [Sessions -> {"dialing", "held", "refused", "started", "up"}]
      /\ session' \in [Sessions -> {"none", "check", "accept", "send", "delete", "done"}]
      /\ \A t \in Sessions : session'[t] # "none" => conn'[t] \in {"started", "up"}
      /\ \A t \in Sessions : session'[t] = "send" <=> session[t] = "send"
<1> SUFFICES Moved
  <2>1. ASSUME Moved
        PROVE  Kept
    <3>1. \A x \in Streams : Same(x)
      BY <1>1, <1>2, <2>1, StreamParts DEF Same, Accepted, Pending
    <3>2. SessionInv'
      BY <1>1, <1>2, <2>1 DEF ListenerInv, SessionInv
    <3>3. StreamInv' /\ UNCHANGED HandOver!vars
      BY <1>1, <3>1, StutterKeeps DEF ListenerInv
    <3>4. TypeOK'
      BY <1>1, <2>1 DEF ListenerInv, TypeOK
    <3>5. QED
      BY <3>2, <3>3, <3>4 DEF Kept, ListenerInv
  <2>2. QED
    BY <2>1
<1>3. CASE (smux /\ StartAccepts(s)) \/ NewSmuxFails(s)
  <2>1. /\ session' = session /\ session[s] = "none"
        /\ \E c \in {"held", "refused"} : conn' = [conn EXCEPT ![s] = c]
    BY <1>3 DEF StartAccepts, NewSmuxFails, sessVars, ListenerInv, SessionInv, TypeOK
  <2>2. Moved
    BY <2>1 DEF ListenerInv, TypeOK, SessionInv
  <2>3. QED
    BY <2>2
<1>4. CASE StartSmux(s)
  <2>1. /\ session' = [session EXCEPT ![s] = "check"] /\ session[s] = "none"
        /\ conn' = [conn EXCEPT ![s] = "started"]
    BY <1>4 DEF StartSmux, ListenerInv, SessionInv, TypeOK
  <2>2. Moved
    BY <2>1 DEF ListenerInv, TypeOK, SessionInv
  <2>3. QED
    BY <2>2
<1>5. CASE StoreSmux(s)
  <2>1. session' = session /\ conn' = [conn EXCEPT ![s] = "up"]
    BY <1>5 DEF StoreSmux, sessVars
  <2>2. Moved
    BY <2>1 DEF ListenerInv, TypeOK, SessionInv
  <2>3. QED
    BY <2>2
<1>6. CASE SessionChecks(s) \/ SessionFails(s) \/ SessionEnds(s)
  <2>1. /\ conn' = conn /\ session[s] \in {"check", "accept", "delete"}
        /\ \E c \in {"delete", "accept", "done"} : session' = [session EXCEPT ![s] = c]
    BY <1>6 DEF SessionChecks, SessionFails, SessionEnds
  <2>2. Moved
    BY <2>1 DEF ListenerInv, TypeOK, SessionInv
  <2>3. QED
    BY <2>2
<1>7. QED
  BY <1>3, <1>4, <1>5, <1>6 DEF TableSteps

\* Without smux a session is its own stream: the start loop accepts it, and queues it.
LEMMA StartKeeps ==
  ASSUME ListenerInv, NEW s \in Sessions, (~ smux /\ StartAccepts(s)) \/ StartQueues(s)
  PROVE  Kept
<1>1. /\ ~ smux /\ UNCHANGED <<smux, session, taken, handed, smuxSessions, smuxStop, stopping,
                               stop, due, listening, ctxDone, serverStop, loop>>
      /\ start' \in {"check", "serve"} /\ conn[s] \in {"dialing", "held"}
      /\ \E c \in {"held", "up"} : conn' = [conn EXCEPT ![s] = c]
  BY DEF StartAccepts, StartQueues, sessVars, stopVars, srvVars
<1>2. /\ conn' \in [Sessions -> {"dialing", "held", "refused", "started", "up"}]
      /\ \A t \in Sessions : t # s => conn'[t] = conn[t]
      /\ conn'[s] \in {"held", "up"}
  BY <1>1 DEF ListenerInv, TypeOK
<1>3. SessionInv'
  BY <1>1, <1>2 DEF ListenerInv, SessionInv
<1>4. <<s, 1>> \in Streams /\ <<s, 1>>[1] = s /\ <<s, 1>>[2] = 1
  BY StreamsAssumption
<1>5. ASSUME NEW y \in Streams, y # <<s, 1>>
      PROVE  Same(y)
  <2>1. y[2] # 1 \/ y[1] # s
    BY <1>5, StreamParts
  <2>2. y[1] \in Sessions
    BY StreamParts
  <2>3. CASE y[2] # 1
    BY <1>1, <2>3 DEF Same, Accepted, Pending
  <2>4. CASE y[1] # s
    BY <1>1, <1>2, <2>2, <2>4 DEF Same, Accepted, Pending
  <2>5. QED
    BY <2>1, <2>3, <2>4
<1>6. PICK x \in Streams : x = <<s, 1>> /\ x[1] = s /\ x[2] = 1
  BY <1>4
<1>7. StreamInv' /\ HandOver!Next /\ streamChan' \in Seq(Streams) /\ Len(streamChan') <= ChanSize
  <2>1. CASE ~ smux /\ StartAccepts(s)
    <3>1. streamChan' = streamChan /\ conn[s] = "dialing" /\ conn'[s] = "held"
      BY <2>1 DEF StartAccepts, ListenerInv, TypeOK
    <3>2. ~ Accepted(x) /\ Accepted(x)' /\ Pending(x)'
      BY <1>1, <1>6, <3>1 DEF Accepted, Pending
    <3>3. StreamInv' /\ HandOver!Next
      BY <1>1, <1>5, <1>6, <3>1, <3>2, ArriveKeeps DEF ListenerInv
    <3>4. QED
      BY <3>1, <3>3 DEF ListenerInv, TypeOK
  <2>2. CASE StartQueues(s)
    <3>1. Queue(x) /\ conn[s] = "held" /\ conn'[s] = "up"
      BY <1>6, <2>2 DEF StartQueues, ListenerInv, TypeOK
    <3>2. Accepted(x) /\ Pending(x) /\ Accepted(x)' /\ ~ Pending(x)'
      BY <1>1, <1>6, <3>1 DEF Accepted, Pending
    <3>3. QED
      BY <1>1, <1>5, <1>6, <3>1, <3>2, QueueKeeps DEF ListenerInv
  <2>3. QED
    BY <2>1, <2>2
<1>8. TypeOK'
  BY <1>1, <1>2, <1>7 DEF ListenerInv, TypeOK
<1>9. QED
  BY <1>3, <1>7, <1>8 DEF Kept, ListenerInv

\* With smux the loop of a session accepts its next stream, and queues it.
LEMMA SessionKeeps ==
  ASSUME ListenerInv, NEW s \in Sessions, SessionAccepts(s) \/ SessionSends(s)
  PROVE  Kept
<1>1. /\ UNCHANGED <<smux, conn, start, handed, smuxSessions, smuxStop, stopping,
                     stop, due, listening, ctxDone, serverStop, loop>>
      /\ smux /\ session[s] \in {"accept", "send"}
      /\ \E c \in {"send", "check"} : session' = [session EXCEPT ![s] = c]
  BY DEF SessionAccepts, SessionSends, stopVars, srvVars, ListenerInv, SessionInv
<1>2. /\ session' \in [Sessions -> {"none", "check", "accept", "send", "delete", "done"}]
      /\ \A t \in Sessions : t # s => session'[t] = session[t]
  BY <1>1 DEF ListenerInv, TypeOK
<1>3. CASE SessionAccepts(s)
  <2>1. /\ session[s] = "accept" /\ session'[s] = "send" /\ streamChan' = streamChan
        /\ taken[s] \in Nat /\ <<s, taken[s] + 1>> \in Streams
        /\ taken' = [taken EXCEPT ![s] = @ + 1]
    BY <1>3 DEF SessionAccepts, ListenerInv, TypeOK
  <2>2. /\ taken'[s] = taken[s] + 1
        /\ \A t \in Sessions : t # s => taken'[t] = taken[t]
    BY <2>1 DEF ListenerInv, TypeOK
  <2>3. taken' \in [Sessions -> Nat]
    BY <2>1, <2>2 DEF ListenerInv, TypeOK
  <2>4. SessionInv'
    BY <1>1, <1>2, <2>1, <2>2 DEF ListenerInv, SessionInv
  <2>5. PICK x \in Streams : x = <<s, taken[s] + 1>> /\ x[1] = s /\ x[2] = taken[s] + 1
    BY <2>1
  <2>6. ~ Accepted(x) /\ Accepted(x)' /\ Pending(x)'
    BY <1>1, <2>1, <2>2, <2>5 DEF Accepted, Pending
  <2>7. ASSUME NEW y \in Streams, y # x
        PROVE  Same(y)
    <3>1. y[1] \in Sessions /\ y[2] \in Nat /\ (y[1] # s \/ y[2] # taken[s] + 1)
      BY <2>5, <2>7, StreamParts
    <3>2. CASE y[1] # s
      BY <1>1, <1>2, <2>2, <3>1, <3>2 DEF Same, Accepted, Pending
    <3>3. CASE y[1] = s
      BY <1>1, <2>1, <2>2, <3>1, <3>3, SizeAssumption DEF Same, Accepted, Pending
    <3>4. QED
      BY <3>2, <3>3
  <2>8. StreamInv' /\ HandOver!Next
    BY <1>1, <2>1, <2>6, <2>7, ArriveKeeps DEF ListenerInv
  <2>9. TypeOK'
    BY <1>1, <1>2, <2>1, <2>3 DEF ListenerInv, TypeOK
  <2>10. QED
    BY <2>4, <2>8, <2>9 DEF Kept, ListenerInv
<1>4. CASE SessionSends(s)
  <2>1. /\ session[s] = "send" /\ session'[s] = "check" /\ taken' = taken
        /\ taken[s] \in Nat /\ <<s, taken[s]>> \in Streams /\ Queue(<<s, taken[s]>>)
    BY <1>4 DEF SessionSends, ListenerInv, TypeOK, SessionInv
  <2>2. SessionInv'
    BY <1>1, <1>2, <2>1 DEF ListenerInv, SessionInv
  <2>3. PICK x \in Streams : x = <<s, taken[s]>> /\ x[1] = s /\ x[2] = taken[s]
    BY <2>1
  <2>4. Accepted(x) /\ Pending(x) /\ Accepted(x)' /\ ~ Pending(x)'
    BY <1>1, <2>1, <2>3 DEF Accepted, Pending
  <2>5. ASSUME NEW y \in Streams, y # x
        PROVE  Same(y)
    <3>1. y[1] \in Sessions /\ (y[1] # s \/ y[2] # taken[s])
      BY <2>3, <2>5, StreamParts
    <3>2. CASE y[1] # s
      BY <1>1, <1>2, <2>1, <3>1, <3>2 DEF Same, Accepted, Pending
    <3>3. CASE y[1] = s
      BY <1>1, <2>1, <3>1, <3>3 DEF Same, Accepted, Pending
    <3>4. QED
      BY <3>2, <3>3
  <2>6. StreamInv' /\ HandOver!Next /\ streamChan' \in Seq(Streams) /\ Len(streamChan') <= ChanSize
    BY <1>1, <2>1, <2>3, <2>4, <2>5, QueueKeeps DEF ListenerInv
  <2>7. TypeOK'
    BY <1>1, <1>2, <2>1, <2>6 DEF ListenerInv, TypeOK
  <2>8. QED
    BY <2>2, <2>6, <2>7 DEF Kept, ListenerInv
<1>5. QED
  BY <1>3, <1>4

LEMMA TakeKeeps ==
  ASSUME ListenerInv, NEW l \in Loops, AcceptTakes(l)
  PROVE  Kept
<1>1. /\ UNCHANGED <<smux, conn, start, session, taken, smuxSessions, smuxStop, stopping,
                     stop, due, listening, ctxDone, serverStop>>
      /\ streamChan # <<>> /\ streamChan' = Tail(streamChan)
      /\ handed' = [handed EXCEPT ![Head(streamChan)] = @ + 1]
  BY DEF AcceptTakes, sessVars, stopVars
<1>2. \A x \in Streams : Same(x)
  BY <1>1 DEF Same, Accepted, Pending
<1>3. SessionInv'
  BY <1>1 DEF ListenerInv, SessionInv
<1>4. /\ StreamInv' /\ HandOver!Next
      /\ streamChan' \in Seq(Streams) /\ Len(streamChan') <= ChanSize
      /\ handed' \in [Streams -> Nat]
  BY <1>1, <1>2, ServeKeeps DEF ListenerInv
<1>5. loop' \in [Loops -> {"check", "accept", "done"}]
  BY DEF AcceptTakes, ListenerInv, TypeOK
<1>6. TypeOK'
  BY <1>1, <1>4, <1>5 DEF ListenerInv, TypeOK
<1>7. QED
  BY <1>3, <1>4, <1>6 DEF Kept, ListenerInv

LEMMA ListenerStep == ListenerInv /\ [Next]_vars => ListenerInv' /\ [HandOver!Next]_(HandOver!vars)
<1> SUFFICES ASSUME ListenerInv, [Next]_vars
             PROVE  Kept
  BY DEF Kept
<1>1. CASE Next
  BY <1>1, NextSplits, QuietKeeps, TableKeeps, StartKeeps, SessionKeeps, TakeKeeps
<1>2. CASE UNCHANGED vars
  <2>1. UNCHANGED <<smux, conn, start, session, taken, streamChan, smuxSessions, smuxStop,
                    stopping, stop, due, listening, ctxDone, serverStop, loop, handed>>
    BY <1>2 DEF vars, sessVars, stopVars, srvVars
  <2>2. \A x \in Streams : Same(x)
    BY <2>1 DEF Same, Accepted, Pending
  <2>3. StreamInv' /\ UNCHANGED HandOver!vars
    BY <2>1, <2>2, StutterKeeps DEF ListenerInv
  <2>4. SessionInv'
    BY <2>1 DEF ListenerInv, SessionInv
  <2>5. TypeOK'
    BY <2>1 DEF ListenerInv, TypeOK
  <2>6. QED
    BY <2>3, <2>4, <2>5 DEF Kept, ListenerInv
<1>3. QED
  BY <1>1, <1>2

\* Before the first session nothing has been accepted.
LEMMA ListenerInit == Init => ListenerInv /\ HandOver!Init
<1> SUFFICES ASSUME Init
             PROVE  ListenerInv /\ HandOver!Init
  OBVIOUS
<1>1. TypeOK
  <2>1. /\ streamChan \in Seq(Streams) /\ Len(streamChan) <= ChanSize
        /\ taken \in [Sessions -> Nat]
        /\ handed \in [Streams -> Nat]
    BY SizeAssumption DEF Init
  <2>2. stopping \in BOOLEAN /\ listening \in BOOLEAN /\ ctxDone \in BOOLEAN
    BY DEF Init
  <2>3. QED
    BY <2>1, <2>2 DEF Init, TypeOK
<1>2. SessionInv
  BY DEF Init, SessionInv
<1>3. \A x \in Streams : ~ Accepted(x)
  BY StreamParts, SizeAssumption DEF Init, Accepted
<1>4. StreamInv
  BY DEF Init, StreamInv
<1>5. \A x \in Streams : Phase(x) = "outside"
  BY <1>3, PhaseCases
<1>6. [x \in Streams |-> Phase(x)] = [x \in Streams |-> "outside"]
  BY <1>5
<1>7. QED
  BY <1>1, <1>2, <1>4, <1>6 DEF Init, ListenerInv, HandOver!Init

\* Whatever the start loop, the sessions' loops, the accept loops and Stop do,
\* streamChan holds each accepted stream once, and none that has been handed out.
THEOREM ListenerInvariant == Spec => []ListenerInv
<1>1. QED
  BY ListenerInit, ListenerStep, PTL DEF Spec

\* The KCP listener implements HandOver without ever dropping, with smux and without,
\* for any sessions, streams, accept loops and capacity of streamChan.
THEOREM ListenerHandsOver == Spec => ImplementsHandOver
<1>1. QED
  BY ListenerInit, ListenerStep, ListenerInvariant, PTL DEF Spec, ImplementsHandOver, HandOver!Spec

(***************************************************************************)
(* KcpTuner.                                                                *)
(***************************************************************************)

\* What the inductive step needs of a configuration c made from the base b.
Near(b, c) ==
  /\ c \in Configs
  /\ Validate(c)
  /\ c.parity - b.parity \in -1..1
  /\ b.data = 0 => c.parity <= b.parity

\* The inductive invariant: the current configuration is near the base one.
NearBase == TunerTypeOK /\ Near(baseConfig, currentConfig)

\* Setting the window leaves the other fields.
LEMMA WindowFacts ==
  ASSUME NEW c \in Configs, NEW size \in Int
  PROVE  /\ Window(c, size) \in Configs /\ Window(c, size).window = size
         /\ Window(c, size).mtu = c.mtu /\ Window(c, size).data = c.data
         /\ Window(c, size).parity = c.parity
BY DEF Configs, Window

\* Each adjustment of TuneConfig keeps a valid configuration valid; only the one for
\* the loss touches the parity, and by at most one.
LEMMA ForRTTFacts ==
  ASSUME NEW c \in Configs, Validate(c)
  PROVE  /\ ForRTT(c) \in Configs /\ Validate(ForRTT(c))
         /\ ForRTT(c).parity = c.parity /\ ForRTT(c).data = c.data
<1>1. CASE ForRTT(c) = c
  BY <1>1
<1>2. CASE ForRTT(c) = [Window(c, 512) EXCEPT !.noDelay = "high"]
  BY <1>2, WindowFacts DEF Configs, Validate, ConfigNotValid
<1>3. CASE ForRTT(c) = [Window(c, 128) EXCEPT !.noDelay = "low"]
  BY <1>3, WindowFacts DEF Configs, Validate, ConfigNotValid
<1>4. QED
  BY <1>1, <1>2, <1>3 DEF ForRTT

\* The adjustment for the loss moves the parity by at most one, never up without data
\* shards, and never out of the limits of Validate.
LEMMA ForLossFacts ==
  ASSUME NEW c \in Configs, Validate(c)
  PROVE  Near(c, ForLoss(c))
<1>1. CASE ForLoss(c) = c
  BY <1>1 DEF Near, Configs
<1>2. CASE c.data > 0 /\ c.parity < 5 /\ ForLoss(c) = [c EXCEPT !.parity = @ + 1]
  BY <1>2 DEF Near, Configs, Validate, ConfigNotValid
<1>3. CASE c.parity > 1 /\ ForLoss(c) = [c EXCEPT !.parity = @ - 1]
  BY <1>3 DEF Near, Configs, Validate, ConfigNotValid
<1>4. QED
  BY <1>1, <1>2, <1>3 DEF ForLoss

\* The adjustment for the throughput sets an MTU and a window within the limits.
LEMMA ForThroughputFacts ==
  ASSUME NEW b \in Configs, NEW c, Near(b, c)
  PROVE  Near(b, ForThroughput(c))
<1>1. CASE ForThroughput(c) = c
  BY <1>1
<1>2. CASE ForThroughput(c) = [Window(c, 512) EXCEPT !.mtu = 1400]
  BY <1>2, WindowFacts DEF Near, Configs, Validate, ConfigNotValid
<1>3. QED
  BY <1>1, <1>2 DEF ForThroughput

\* TuneConfig's result is near the base configuration.
LEMMA TunedNear ==
  ASSUME BaseAssumption, NEW b \in BaseConfigs
  PROVE  Near(b, Tuned(b))
<1>1. b \in Configs /\ Validate(b)
  BY DEF BaseAssumption
<1>2. /\ ForRTT(b) \in Configs /\ Validate(ForRTT(b))
      /\ ForRTT(b).parity = b.parity /\ ForRTT(b).data = b.data
  BY <1>1, ForRTTFacts
<1>3. Near(ForRTT(b), ForLoss(ForRTT(b)))
  BY <1>2, ForLossFacts
<1>4. Near(b, ForLoss(ForRTT(b)))
  BY <1>2, <1>3 DEF Near
<1>5. QED
  BY <1>1, <1>4, ForThroughputFacts DEF Tuned

\* A configuration that is the base itself is near it.
LEMMA BaseNear ==
  ASSUME BaseAssumption, NEW b \in BaseConfigs
  PROVE  Near(b, b)
BY DEF BaseAssumption, Near, Configs

\* NearBase holds from NewAdaptiveConfigTuner on, through every call.
THEOREM NearInvariant ==
  ASSUME BaseAssumption, SampleAssumption
  PROVE  TunerSpec => []NearBase
<1>1. TunerInit => NearBase
  <2> SUFFICES ASSUME TunerInit PROVE NearBase
    OBVIOUS
  <2>1. Near(baseConfig, currentConfig)
    BY BaseNear DEF TunerInit
  <2>2. QED
    BY <2>1 DEF SampleAssumption, TunerInit, NearBase, TunerTypeOK, Near
<1>2. NearBase /\ [TunerNext]_tunerVars => NearBase'
  <2> SUFFICES ASSUME NearBase, [TunerNext]_tunerVars PROVE NearBase'
    OBVIOUS
  <2>1. ASSUME NEW rtt \in RTTs, AddRTTSample(rtt) PROVE NearBase'
    <3>1. rttSamples' \in Seq(RTTs) /\ Len(rttSamples') <= MaxRTTSamples
      BY <2>1 DEF SampleAssumption, NearBase, TunerTypeOK, AddRTTSample
    <3>2. QED
      BY <2>1, <3>1 DEF NearBase, TunerTypeOK, AddRTTSample
  <2>2. ASSUME NEW loss \in Losses, UpdatePacketLoss(loss) PROVE NearBase'
    BY <2>2 DEF NearBase, TunerTypeOK, UpdatePacketLoss
  <2>3. ASSUME NEW t \in Throughputs, UpdateThroughput(t) PROVE NearBase'
    BY <2>3 DEF NearBase, TunerTypeOK, UpdateThroughput
  <2>4. CASE TuneConfig
    <3>1. Near(baseConfig, Tuned(baseConfig))
      BY TunedNear DEF NearBase, TunerTypeOK
    <3>2. QED
      BY <2>4, <3>1 DEF SampleAssumption, NearBase, TunerTypeOK, TuneConfig, Near
  <2>5. CASE Reset
    <3>1. Near(baseConfig, baseConfig)
      BY BaseNear DEF NearBase, TunerTypeOK
    <3>2. QED
      BY <2>5, <3>1 DEF SampleAssumption, NearBase, TunerTypeOK, Reset, Near
  <2>6. CASE Tick
    BY <2>6 DEF SampleAssumption, NearBase, TunerTypeOK, Tick
  <2>7. CASE UNCHANGED tunerVars
    BY <2>7 DEF NearBase, TunerTypeOK, tunerVars
  <2>8. QED
    BY <2>1, <2>2, <2>3, <2>4, <2>5, <2>6, <2>7 DEF TunerNext
<1>3. QED
  BY <1>1, <1>2, PTL DEF TunerSpec

\* Every configuration TuneConfig, GetCurrentConfig or Reset leaves is one Validate
\* accepts, for any set of valid base configurations.
THEOREM AlwaysValid ==
  ASSUME BaseAssumption, SampleAssumption
  PROVE  TunerSpec => []TunedIsValid
<1>1. NearBase => TunedIsValid
  BY DEF NearBase, Near, TunedIsValid
<1>2. QED
  BY <1>1, NearInvariant, PTL

\* The parity stays within one shard of the base configuration's.
THEOREM ParityNeverDrifts ==
  ASSUME BaseAssumption, SampleAssumption
  PROVE  TunerSpec => []ParityNearBase
<1>1. NearBase => ParityNearBase
  BY DEF NearBase, Near, ParityNearBase
<1>2. QED
  BY <1>1, NearInvariant, PTL

=============================================================================
