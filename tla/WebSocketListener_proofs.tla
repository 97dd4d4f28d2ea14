---------------------- MODULE WebSocketListener_proofs ----------------------
EXTENDS WebSocketListener, TLAPS

\* What is on connChan is queued, is there once and has not been handed out; only a
\* queued connection is ever handed out.
QueueInv ==
  /\ \A i \in 1..Len(connChan) : handler[connChan[i]] = "queued" /\ handed[connChan[i]] = 0
  /\ \A i, j \in 1..Len(connChan) : connChan[i] = connChan[j] => i = j
  /\ \A c \in Conns : handler[c] # "queued" => handed[c] = 0

ListenerInv == TypeOK /\ QueueInv

\* The steps that leave the connections and connChan as they are.
QuietSteps ==
  \/ CancelContext \/ StopCall \/ ServeReturns
  \/ \E l \in Loops : LoopChecks(l) \/ AcceptTakesZero(l) \/ AcceptFails(l) \/ LoopStops(l)
  \/ \E w \in Callers : StopSteps(w)

\* They leave the connections, connChan and the count of deliveries alone.
LEMMA QuietFrame ==
  ASSUME QuietSteps
  PROVE  /\ UNCHANGED <<handler, connChan, handed>>
         /\ chanClosed' = chanClosed \/ chanClosed' = TRUE
BY DEF QuietSteps, CancelContext, StopCall, ServeReturns, LoopChecks, AcceptTakesZero, AcceptFails,
       LoopStops, StopSteps, StopCloses, StopShutsDown, queue, ends, TurnOff

LEMMA QuietTypes ==
  ASSUME TypeOK, QuietSteps
  PROVE  TypeOK'
<1>1. UNCHANGED <<handler, connChan, handed>>
  BY QuietFrame
<1> SUFFICES /\ chanClosed' \in BOOLEAN /\ listening' \in BOOLEAN /\ stopping' \in BOOLEAN
             /\ ctxDone' \in BOOLEAN /\ zero' \in BOOLEAN
             /\ stop' \in [Callers -> {"none", "close", "shutdown", "done", "panicked"}]
             /\ loop' \in [Loops -> {"check", "accept", "stop", "done"}]
  BY <1>1 DEF TypeOK
<1>2. CASE CancelContext
  BY <1>2 DEF CancelContext, queue, TypeOK
<1>3. CASE StopCall
  BY <1>3 DEF StopCall, TurnOff, queue, TypeOK, Callers
<1>4. CASE ServeReturns
  BY <1>4 DEF ServeReturns, queue, TypeOK, Callers
<1>5. ASSUME NEW l \in Loops, LoopChecks(l) \/ AcceptFails(l)
      PROVE  loop' \in [Loops -> {"check", "accept", "stop", "done"}] /\ UNCHANGED <<queue, ends, zero>>
  BY <1>5 DEF LoopChecks, AcceptFails, TypeOK
<1>6. ASSUME NEW l \in Loops, AcceptTakesZero(l)
      PROVE  /\ loop' \in [Loops -> {"check", "accept", "stop", "done"}]
             /\ zero' = TRUE /\ UNCHANGED <<queue, ends>>
  BY <1>6 DEF AcceptTakesZero, TypeOK
<1>7. ASSUME NEW l \in Loops, LoopStops(l)
      PROVE  /\ loop' \in [Loops -> {"check", "accept", "stop", "done"}]
             /\ TurnOff /\ UNCHANGED <<queue, zero>>
  BY <1>7 DEF LoopStops, TypeOK
<1>8. ASSUME NEW w \in Callers, StopSteps(w)
      PROVE  /\ stop' \in [Callers -> {"none", "close", "shutdown", "done", "panicked"}]
             /\ chanClosed' \in BOOLEAN /\ listening' \in BOOLEAN
             /\ UNCHANGED <<stopping, ctxDone, zero, loop>>
  BY <1>8 DEF StopSteps, StopCloses, StopShutsDown, queue, TypeOK
<1>9. TurnOff => /\ stop' \in [Callers -> {"none", "close", "shutdown", "done", "panicked"}]
                 /\ stopping' \in BOOLEAN /\ listening' \in BOOLEAN /\ ctxDone' \in BOOLEAN
  BY DEF TurnOff, TypeOK, Callers
<1>10. QED
  BY <1>2, <1>3, <1>4, <1>5, <1>6, <1>7, <1>8, <1>9 DEF QuietSteps, TypeOK, queue, ends

LEMMA QuietKeeps ==
  ASSUME ListenerInv, QuietSteps
  PROVE  ListenerInv'
BY QuietFrame, QuietTypes DEF ListenerInv, QueueInv

\* A request comes in and is upgraded, or not: the connection is not queued yet.
LEMMA RequestKeeps ==
  ASSUME ListenerInv, NEW c \in Conns, Request(c) \/ \E ok \in BOOLEAN : Upgrade(c, ok)
  PROVE  ListenerInv'
<1>1. /\ UNCHANGED <<queue, ends, loop, handed, zero>> /\ handler[c] # "queued"
      /\ \E h \in {"upgrade", "send", "refused"} : handler' = [handler EXCEPT ![c] = h]
  BY DEF Request, Upgrade
<1>2. TypeOK'
  BY <1>1 DEF ListenerInv, TypeOK, queue, ends
<1>3. QueueInv'
  BY <1>1 DEF ListenerInv, TypeOK, QueueInv, queue
<1>4. QED
  BY <1>2, <1>3 DEF ListenerInv

\* A send puts a connection on connChan that is not there yet.
LEMMA SendKeeps ==
  ASSUME ListenerInv, NEW c \in Conns, HandlerSends(c)
  PROVE  ListenerInv'
<1>1. /\ handler[c] = "send" /\ UNCHANGED <<chanClosed, ends, loop, handed, zero>> /\ handed[c] = 0
      /\ \A i \in 1..Len(connChan) : connChan[i] # c
  BY DEF HandlerSends, ListenerInv, QueueInv
<1>2. CASE ~ chanClosed /\ Len(connChan) < ChanSize
  <2>1. handler' = [handler EXCEPT ![c] = "queued"] /\ connChan' = Append(connChan, c)
    BY <1>2 DEF HandlerSends
  <2>2. /\ connChan' \in Seq(Conns) /\ Len(connChan') = Len(connChan) + 1 /\ Len(connChan) \in Nat
        /\ \A i \in 1..Len(connChan) : connChan'[i] = connChan[i]
        /\ connChan'[Len(connChan) + 1] = c
    BY <2>1 DEF ListenerInv, TypeOK
  <2>3. TypeOK'
    BY <1>1, <1>2, <2>1, <2>2, SizeAssumption DEF ListenerInv, TypeOK, ends
  <2>4. QueueInv'
    <3>1. \A i \in 1..Len(connChan') : i \in 1..Len(connChan) \/ i = Len(connChan) + 1
      BY <2>2
    <3>2. \A d \in Conns : handler'[d] = IF d = c THEN "queued" ELSE handler[d]
      BY <2>1 DEF ListenerInv, TypeOK
    <3>3. \A i \in 1..Len(connChan) : connChan[i] \in Conns
      BY DEF ListenerInv, TypeOK
    <3>4. ASSUME NEW i \in 1..Len(connChan')
          PROVE  handler'[connChan'[i]] = "queued" /\ handed'[connChan'[i]] = 0
      <4>1. CASE i \in 1..Len(connChan)
        BY <1>1, <2>2, <3>2, <3>3, <4>1 DEF ListenerInv, QueueInv
      <4>2. CASE i = Len(connChan) + 1
        BY <1>1, <2>2, <3>2, <4>2
      <4>3. QED
        BY <3>1, <4>1, <4>2
    <3>5. ASSUME NEW i \in 1..Len(connChan'), NEW j \in 1..Len(connChan'), connChan'[i] = connChan'[j]
          PROVE  i = j
      <4>1. CASE i \in 1..Len(connChan) /\ j \in 1..Len(connChan)
        BY <2>2, <3>5, <4>1 DEF ListenerInv, QueueInv
      <4>2. CASE i = Len(connChan) + 1 \/ j = Len(connChan) + 1
        BY <1>1, <2>2, <3>1, <3>5, <4>2
      <4>3. QED
        BY <3>1, <4>1, <4>2
    <3>6. \A d \in Conns : handler'[d] # "queued" => handed'[d] = 0
      BY <1>1, <3>2 DEF ListenerInv, QueueInv
    <3>7. QED
      BY <3>4, <3>5, <3>6 DEF QueueInv
  <2>5. QED
    BY <2>3, <2>4 DEF ListenerInv
<1>3. CASE ~ (~ chanClosed /\ Len(connChan) < ChanSize)
  <2>1. /\ connChan' = connChan
        /\ \E h \in {"panicked", "dropped"} : handler' = [handler EXCEPT ![c] = h]
    BY <1>3 DEF HandlerSends
  <2>2. TypeOK'
    BY <1>1, <2>1 DEF ListenerInv, TypeOK, ends
  <2>3. QueueInv'
    BY <1>1, <2>1 DEF ListenerInv, TypeOK, QueueInv
  <2>4. QED
    BY <2>2, <2>3 DEF ListenerInv
<1>4. QED
  BY <1>2, <1>3

\* Accept takes the first connection of connChan: it is not there any more.
LEMMA TakeKeeps ==
  ASSUME ListenerInv, NEW l \in Loops, AcceptTakes(l)
  PROVE  ListenerInv'
<1>1. /\ connChan \in Seq(Conns) /\ connChan # <<>> /\ connChan' = Tail(connChan)
      /\ handed' = [handed EXCEPT ![Head(connChan)] = @ + 1]
      /\ UNCHANGED <<handler, chanClosed, ends, zero>>
  BY DEF AcceptTakes, ListenerInv, TypeOK
<1>2. /\ Len(connChan) \in Nat \ {0} /\ Head(connChan) = connChan[1] /\ Head(connChan) \in Conns
      /\ connChan' \in Seq(Conns) /\ Len(connChan') = Len(connChan) - 1
      /\ \A i \in 1..Len(connChan') : connChan'[i] = connChan[i + 1]
  BY <1>1
<1>3. \A i \in 1..Len(connChan') : i + 1 \in 1..Len(connChan) /\ i + 1 # 1 /\ 1 \in 1..Len(connChan)
  BY <1>2
<1>4. \A d \in Conns : handed'[d] = IF d = Head(connChan) THEN handed[d] + 1 ELSE handed[d]
  BY <1>1, <1>2 DEF ListenerInv, TypeOK
<1>5. TypeOK'
  <2>1. handed' \in [Conns -> Nat]
    BY <1>1, <1>2 DEF ListenerInv, TypeOK
  <2>2. loop' \in [Loops -> {"check", "accept", "stop", "done"}]
    BY DEF AcceptTakes, ListenerInv, TypeOK
  <2>3. Len(connChan') <= ChanSize
    BY <1>2, SizeAssumption DEF ListenerInv, TypeOK
  <2>4. QED
    BY <1>1, <1>2, <2>1, <2>2, <2>3 DEF ListenerInv, TypeOK, ends
<1>6. QueueInv'
  <2>1. ASSUME NEW i \in 1..Len(connChan')
        PROVE  handler'[connChan'[i]] = "queued" /\ handed'[connChan'[i]] = 0
    <3>1. connChan'[i] \in Conns /\ connChan'[i] # Head(connChan)
      BY <1>1, <1>2, <1>3 DEF ListenerInv, QueueInv
    <3>2. QED
      BY <1>1, <1>2, <1>3, <1>4, <3>1 DEF ListenerInv, QueueInv
  <2>2. ASSUME NEW i \in 1..Len(connChan'), NEW j \in 1..Len(connChan'), connChan'[i] = connChan'[j]
        PROVE  i = j
    <3>1. i + 1 = j + 1
      BY <1>2, <1>3, <2>2 DEF ListenerInv, QueueInv
    <3>2. QED
      BY <1>2, <3>1
  <2>3. \A d \in Conns : handler'[d] # "queued" => handed'[d] = 0
    <3>1. handler[Head(connChan)] = "queued"
      BY <1>2 DEF ListenerInv, QueueInv
    <3>2. QED
      BY <1>1, <1>4, <3>1 DEF ListenerInv, QueueInv
  <2>4. QED
    BY <2>1, <2>2, <2>3 DEF QueueInv
<1>7. QED
  BY <1>5, <1>6 DEF ListenerInv

\* Every step is one of these.
LEMMA NextSplits ==
  ASSUME Next
  PROVE  \/ QuietSteps
         \/ \E c \in Conns : Request(c) \/ HandlerSends(c) \/ \E ok \in BOOLEAN : Upgrade(c, ok)
         \/ \E l \in Loops : AcceptTakes(l)
BY DEF Next, LoopSteps, QuietSteps

LEMMA ListenerStep == ListenerInv /\ [Next]_vars => ListenerInv'
<1> SUFFICES ASSUME ListenerInv, [Next]_vars
             PROVE  ListenerInv'
  OBVIOUS
<1>1. CASE Next
  BY <1>1, NextSplits, QuietKeeps, RequestKeeps, SendKeeps, TakeKeeps
<1>2. CASE UNCHANGED vars
  <2>1. UNCHANGED <<handler, connChan, chanClosed, listening, stopping, ctxDone, stop, loop, handed, zero>>
    BY <1>2 DEF vars, queue, ends
  <2>2. TypeOK'
    BY <2>1 DEF ListenerInv, TypeOK
  <2>3. QueueInv'
    BY <2>1 DEF ListenerInv, QueueInv
  <2>4. QED
    BY <2>2, <2>3 DEF ListenerInv
<1>3. QED
  BY <1>1, <1>2

LEMMA ListenerInit == Init => ListenerInv
<1> SUFFICES ASSUME Init
             PROVE  ListenerInv
  OBVIOUS
<1>1. TypeOK
  <2>1. connChan \in Seq(Conns) /\ Len(connChan) <= ChanSize
    BY SizeAssumption DEF Init
  <2>2. handed \in [Conns -> Nat] /\ zero \in BOOLEAN /\ chanClosed \in BOOLEAN
    BY DEF Init
  <2>3. listening \in BOOLEAN /\ stopping \in BOOLEAN /\ ctxDone \in BOOLEAN
    BY DEF Init
  <2>4. QED
    BY <2>1, <2>2, <2>3 DEF Init, TypeOK
<1>2. QueueInv
  BY DEF Init, QueueInv
<1>3. QED
  BY <1>1, <1>2 DEF ListenerInv

\* Whatever the handlers, the accept loops and the calls of Stop do, connChan holds
\* each connection once, and none that has been handed out.
THEOREM ListenerInvariant == Spec => []ListenerInv
<1>1. QED
  BY ListenerInit, ListenerStep, PTL DEF Spec

-----------------------------------------------------------------------------
\* HandOver's phase of a connection, case by case.
LEMMA PhaseCases ==
  ASSUME TypeOK, NEW c \in Conns
  PROVE  /\ handler[c] \in {"dialing", "upgrade", "refused"} => Phase(c) = "outside"
         /\ handler[c] = "send" => Phase(c) = "pending"
         /\ handler[c] \in {"dropped", "panicked"} => Phase(c) = "dropped"
         /\ handler[c] = "queued" /\ handed[c] > 0 => Phase(c) = "served"
         /\ handler[c] = "queued" /\ ~ (handed[c] > 0) => Phase(c) = "queued"
BY DEF TypeOK, Phase

\* A step that moves one connection in the listener moves it in HandOver.
LEMMA MoveOf ==
  ASSUME NEW c \in Conns, \A d \in Conns : d # c => Phase(d)' = Phase(d)
  PROVE  HandOver!Move(c, Phase(c), Phase(c)')
<1>1. [d \in Conns |-> Phase(d)]' = [[d \in Conns |-> Phase(d)] EXCEPT ![c] = Phase(c)']
  OBVIOUS
<1>2. QED
  BY <1>1 DEF HandOver!Move

\* Every step of the listener is one of HandOver, or none.
LEMMA ListenerRefines == ListenerInv /\ ListenerInv' /\ [Next]_vars => [HandOver!Next]_(HandOver!vars)
<1> SUFFICES ASSUME ListenerInv, ListenerInv', [Next]_vars
             PROVE  [HandOver!Next]_(HandOver!vars)
  OBVIOUS
<1>1. TypeOK /\ TypeOK'
  BY DEF ListenerInv
<1>2. ASSUME UNCHANGED <<handler, handed>>
      PROVE  \A d \in Conns : Phase(d)' = Phase(d)
  BY <1>2 DEF Phase
<1>3. CASE QuietSteps
  <2>1. UNCHANGED connChan /\ (chanClosed' = chanClosed \/ chanClosed' = TRUE)
    BY <1>3, QuietFrame
  <2>2. [d \in Conns |-> Phase(d)]' = [d \in Conns |-> Phase(d)]
    BY <1>2, <1>3, QuietFrame
  <2>3. QED
    BY <2>1, <2>2 DEF HandOver!Next, HandOver!Close, HandOver!vars
<1>4. ASSUME NEW c \in Conns, Request(c) \/ \E ok \in BOOLEAN : Upgrade(c, ok)
      PROVE  [HandOver!Next]_(HandOver!vars)
  <2>1. /\ UNCHANGED <<connChan, chanClosed, handed>> /\ handler[c] \in {"dialing", "upgrade"}
        /\ \E h \in {"upgrade", "send", "refused"} : handler' = [handler EXCEPT ![c] = h]
    BY <1>4 DEF Request, Upgrade, queue
  <2>2. \A d \in Conns : d # c => Phase(d)' = Phase(d)
    BY <1>1, <2>1 DEF TypeOK, Phase
  <2>3. Phase(c) = "outside" /\ handler'[c] \in {"upgrade", "send", "refused"}
    BY <1>1, <2>1, PhaseCases DEF TypeOK
  <2>4. CASE handler'[c] = "send"
    <3>1. Phase(c)' = "pending"
      BY <2>4 DEF Phase
    <3>2. HandOver!Arrive(c)
      BY <2>1, <2>2, <2>3, <3>1, MoveOf DEF HandOver!Arrive
    <3>3. QED
      BY <3>2 DEF HandOver!Next
  <2>5. CASE handler'[c] # "send"
    <3>1. Phase(c)' = "outside"
      BY <2>3, <2>5 DEF Phase
    <3>2. [d \in Conns |-> Phase(d)]' = [d \in Conns |-> Phase(d)]
      BY <2>2, <2>3, <3>1
    <3>3. QED
      BY <2>1, <3>2 DEF HandOver!vars
  <2>6. QED
    BY <2>4, <2>5
<1>5. ASSUME NEW c \in Conns, HandlerSends(c)
      PROVE  [HandOver!Next]_(HandOver!vars)
  <2>1. /\ UNCHANGED <<chanClosed, handed>> /\ handler[c] = "send" /\ handed[c] = 0
        /\ \E h \in {"panicked", "dropped", "queued"} : handler' = [handler EXCEPT ![c] = h]
    BY <1>5 DEF HandlerSends, ListenerInv, QueueInv
  <2>2. \A d \in Conns : d # c => Phase(d)' = Phase(d)
    BY <1>1, <2>1 DEF TypeOK, Phase
  <2>3. Phase(c) = "pending"
    BY <2>1 DEF Phase
  <2>4. CASE ~ chanClosed /\ Len(connChan) < ChanSize
    <3>1. connChan' = Append(connChan, c) /\ handler'[c] = "queued"
      BY <1>1, <1>5, <2>4 DEF HandlerSends, TypeOK
    <3>2. Phase(c)' = "queued"
      BY <2>1, <3>1 DEF Phase
    <3>3. HandOver!Enqueue(c)
      BY <2>1, <2>2, <2>3, <2>4, <3>1, <3>2, MoveOf DEF HandOver!Enqueue
    <3>4. QED
      BY <3>3 DEF HandOver!Next
  <2>5. CASE ~ (~ chanClosed /\ Len(connChan) < ChanSize)
    <3>1. connChan' = connChan /\ handler'[c] \in {"panicked", "dropped"}
      BY <1>1, <1>5, <2>5 DEF HandlerSends, TypeOK
    <3>2. Phase(c)' = "dropped"
      BY <3>1 DEF Phase
    <3>3. chanClosed \/ Len(connChan) = ChanSize
      BY <1>1, <2>5, SizeAssumption DEF TypeOK
    <3>4. HandOver!Drop(c)
      BY <2>1, <2>2, <2>3, <3>1, <3>2, <3>3, MoveOf DEF HandOver!Drop
    <3>5. QED
      BY <3>4 DEF HandOver!Next
  <2>6. QED
    BY <2>4, <2>5
<1>6. ASSUME NEW l \in Loops, AcceptTakes(l)
      PROVE  [HandOver!Next]_(HandOver!vars)
  <2> DEFINE c == Head(connChan)
  <2>1. /\ connChan # <<>> /\ connChan' = Tail(connChan) /\ UNCHANGED <<handler, chanClosed>>
        /\ handed' = [handed EXCEPT ![c] = @ + 1]
    BY <1>6 DEF AcceptTakes
  <2>2. c \in Conns /\ c = connChan[1] /\ 1 \in 1..Len(connChan)
    BY <1>1, <2>1 DEF TypeOK
  <2>3. handler[c] = "queued" /\ handed[c] = 0
    BY <2>2 DEF ListenerInv, QueueInv
  <2> HIDE DEF c
  <2>4. handed'[c] = 1
    BY <1>1, <2>1, <2>2, <2>3 DEF TypeOK
  <2>5. Phase(c) = "queued"
    BY <2>3 DEF Phase
  <2>6. \A d \in Conns : d # c => Phase(d)' = Phase(d)
    BY <1>1, <2>1, <2>2 DEF TypeOK, Phase
  <2>7. PICK x \in Conns : x = c
    BY <2>2
  <2>8. Phase(x)' = "served"
    BY <2>1, <2>3, <2>4, <2>7 DEF Phase
  <2>9. HandOver!Move(x, "queued", "served")
    BY <2>5, <2>6, <2>7, <2>8, MoveOf
  <2>10. HandOver!Serve
    BY <2>1, <2>7, <2>9 DEF HandOver!Serve, c
  <2>11. QED
    BY <2>10 DEF HandOver!Next
<1>7. CASE UNCHANGED vars
  <2>1. UNCHANGED <<handler, connChan, chanClosed, handed>>
    BY <1>7 DEF vars, queue
  <2>2. [d \in Conns |-> Phase(d)]' = [d \in Conns |-> Phase(d)]
    BY <1>2, <2>1
  <2>3. QED
    BY <2>1, <2>2 DEF HandOver!vars
<1>8. CASE Next
  BY <1>3, <1>4, <1>5, <1>6, <1>8, NextSplits
<1>9. QED
  BY <1>7, <1>8

\* No connection has come in before the listener starts.
LEMMA ListenerInitRefines == Init => HandOver!Init
<1> SUFFICES ASSUME Init
             PROVE  HandOver!Init
  OBVIOUS
<1>1. \A c \in Conns : Phase(c) = "outside"
  BY DEF Init, Phase
<1>2. [c \in Conns |-> Phase(c)] = [c \in Conns |-> "outside"]
  BY <1>1
<1>3. QED
  BY <1>2 DEF Init, HandOver!Init

\* The WebSocket listener implements HandOver, for any connections, accept loops and
\* capacity of connChan.
THEOREM ListenerHandsOver == Spec => ImplementsHandOver
<1>1. QED
  BY ListenerInitRefines, ListenerRefines, ListenerInvariant, PTL
     DEF Spec, ImplementsHandOver, HandOver!Spec

=============================================================================
