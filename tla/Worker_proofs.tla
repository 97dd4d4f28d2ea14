---------------------------- MODULE Worker_proofs ----------------------------
(***************************************************************************)
(* For any pushers, stoppers and channel size: what Push accepts keeps its    *)
(* order, nothing of Run outlives BaseServer.work, and a worker keeps the     *)
(* lifecycle that the service is promised.                                    *)
(***************************************************************************)
EXTENDS Worker, SequenceTheorems, TLAPS

\* The steps of work before the worker is in the registry.
Before == {"handshake", "onConnected", "add"}

\* Nobody can stop a worker before it is registered, so OnConnected has returned by
\* then, and what Stop has done follows from where it is.
StopInv ==
  /\ work \in Before =>
       /\ registered = FALSE /\ stopping = FALSE
       /\ \A s \in Stoppers : stopper[s] = "idle"
  /\ work \in {"handshake", "onConnected"} => connected = FALSE
  /\ stopping = FALSE => stopPc = "none"
  /\ stopping = TRUE => stopPc # "none"
  /\ connOpen = FALSE <=> stopPc = "done"
  /\ stopPc \in {"none", "disconnect"} \/ connected = FALSE => notified = 0
  /\ stopPc \notin {"none", "disconnect"} /\ connected = TRUE => notified = 1

\* Where Worker.stop is.
StopPcs == {"none", "disconnect", "tunnels", "closeChan", "closeConn", "done"}

\* Run's goroutines are there from AfterConnect to the return of Run.
Idle == watch = "off" /\ send = "off" /\ read = "off" /\ tick = "off"
Over == watch = "done" /\ send = "done" /\ read = "done" /\ tick = "done"

RunInv ==
  /\ work \in Before \cup {"afterConnect"} => Idle
  /\ work \in {"del", "stop", "stopping", "afterDisconnect", "done"} => Idle \/ Over
  /\ work \in {"stop", "stopping", "afterDisconnect", "done"} => registered = FALSE
  /\ work \in {"stopping", "afterDisconnect", "done"} => stopping = TRUE

\* sendLoop holds a pack only while it writes it, or when the write has failed.
FlowInv ==
  /\ AcceptedInOrder
  /\ send \in {"off", "select"} => writing = <<>>

\* A pack has the number of its call of Push, which is within the bound.
PushInv == \A p \in Senders :
  /\ push[p] = "check" => pushed[p] < MaxPushes
  /\ push[p] = "send" => pushed[p] > 0

WorkerInv == TypeOK /\ StopInv /\ RunInv /\ FlowInv /\ PushInv

-----------------------------------------------------------------------------
(* Sequences.                                                                 *)

\* Taking the head of the channel, writing it, and appending to the channel move or
\* extend what lies between the accepted packs and the wire.
LEMMA TakeHead ==
  ASSUME NEW S, NEW w \in Seq(S), NEW c \in Seq(S), c # <<>>
  PROVE  (w \o <<Head(c)>>) \o Tail(c) = (w \o <<>>) \o c
<1>1. c = <<Head(c)>> \o Tail(c) /\ Head(c) \in S /\ Tail(c) \in Seq(S)
  BY HeadTailProperties, SMT
<1>2. <<Head(c)>> \in Seq(S)
  BY <1>1
<1>3. (w \o <<Head(c)>>) \o Tail(c) = w \o (<<Head(c)>> \o Tail(c))
  BY <1>1, <1>2, ConcatAssociative
<1>4. QED
  BY <1>1, <1>3, ConcatEmptySeq

LEMMA WriteOut ==
  ASSUME NEW S, NEW w \in Seq(S), NEW h \in Seq(S), NEW c \in Seq(S)
  PROVE  ((w \o h) \o <<>>) \o c = (w \o h) \o c
BY ConcatEmptySeq, ConcatProperties

LEMMA AppendLast ==
  ASSUME NEW S, NEW w \in Seq(S), NEW c \in Seq(S), NEW e \in S
  PROVE  w \o Append(c, e) = Append(w \o c, e)
BY SMT

-----------------------------------------------------------------------------
(* The steps.                                                                 *)

\* The steps of Run's goroutines, of Push and of the context, which move neither
\* work nor Stop nor a stopper.
LoopStep ==
  \/ CancelContext \/ WatchReturns \/ SendSteps \/ ReadSteps \/ HandleSteps
  \/ TickFails \/ TickReturns
  \/ \E p \in Pushers : PusherFinds(p)
  \/ \E p \in Senders : PushSteps(p)

StopperStep ==
  \E s \in Stoppers : StopperStops(s) \/ \E d \in BOOLEAN : StopperFinds(s, d)

LEMMA NextSplits == Next <=> WorkSteps \/ StopSteps \/ LoopStep \/ StopperStep
BY DEF Next, LoopStep, StopperStep

LEMMA LoopFrame == LoopStep => UNCHANGED <<life, turnOff, chanClosed, connOpen, stopper>>
<1>1. SendSteps => UNCHANGED <<life, turnOff, chanClosed, connOpen, stopper>>
  BY DEF SendSteps, SendTakes, SendReturns, SendWrites, SendFails, channel
<1>2. ReadSteps \/ HandleSteps => UNCHANGED <<life, turnOff, chanClosed, connOpen, stopper>>
  BY DEF ReadSteps, HandleSteps, ReadChecks, ReadHandles, ReadFails, HandlePushes,
         HandleReturns, HandlePanics, channel, pushes
<1>3. ASSUME NEW p, PushSteps(p)
      PROVE  UNCHANGED <<life, turnOff, chanClosed, connOpen, stopper>>
  BY <1>3 DEF PushSteps, PushSends, PushPanics, PushChecks, channel
<1>4. ASSUME NEW p, PusherFinds(p)
      PROVE  UNCHANGED <<life, turnOff, chanClosed, connOpen, stopper>>
  BY <1>4 DEF PusherFinds, channel
<1>5. CancelContext \/ WatchReturns \/ TickFails \/ TickReturns
        => UNCHANGED <<life, turnOff, chanClosed, connOpen, stopper>>
  BY DEF CancelContext, WatchReturns, TickFails, TickReturns, channel
<1>6. QED
  BY <1>1, <1>2, <1>3, <1>4, <1>5 DEF LoopStep

\* Everything else leaves Run's goroutines alone, but for AfterConnect, and the packs.
LEMMA OtherFrame ==
  WorkSteps \/ StopSteps \/ StopperStep => UNCHANGED <<sendChan, out, pushes, egErr>>
<1>1. WorkSteps => UNCHANGED <<sendChan, out, pushes, egErr>>
  BY DEF WorkSteps, HandshakeFails, HandshakeOk, AddWorker, OnConnected, AfterConnect,
         RunReturns, DelWorker, WorkStop, WorkStopReturns, AfterDisconnect, channel
<1>2. StopSteps => UNCHANGED <<sendChan, out, pushes, egErr>>
  BY DEF StopSteps, StopDisconnect, StopTunnels, StopCloseChan, StopCloseConn, channel
<1>3. StopperStep => UNCHANGED <<sendChan, out, pushes, egErr>>
  BY DEF StopperStep, StopperStops, StopperFinds, channel
<1>4. QED
  BY <1>1, <1>2, <1>3

\* A step of a stopper keeps the type of stopper.
LEMMA StopperTypes ==
  ASSUME TypeOK, NEW s \in Stoppers, NEW v \in {"idle", "stop", "done"},
         stopper' = [stopper EXCEPT ![s] = v]
  PROVE  stopper' \in [Stoppers -> {"idle", "stop", "done"}]
BY DEF TypeOK

\* Each of the steps outside LoopStep keeps the types and StopInv.
LEMMA WorkKeepsStop ==
  ASSUME TypeOK, StopInv, WorkSteps
  PROVE  TypeOK' /\ StopInv'
<1>1. UNCHANGED <<sendChan, out, pushes, egErr>>
  BY OtherFrame
<1> USE <1>1 DEF TypeOK, StopInv, Before, out, pushes, turnOff, channel, loops
<1>2. CASE HandshakeFails
  BY <1>2 DEF HandshakeFails
<1>3. CASE HandshakeOk
  BY <1>3 DEF HandshakeOk
<1>4. ASSUME NEW ok \in BOOLEAN, OnConnected(ok) PROVE TypeOK' /\ StopInv'
  BY <1>4 DEF OnConnected
<1>5. CASE AddWorker
  BY <1>5 DEF AddWorker
<1>6. ASSUME NEW ok \in BOOLEAN, AfterConnect(ok) PROVE TypeOK' /\ StopInv'
  BY <1>6 DEF AfterConnect
<1>7. CASE RunReturns
  BY <1>7 DEF RunReturns
<1>8. CASE DelWorker
  <2>1. StopInv' /\ registered' \in BOOLEAN
    BY <1>8 DEF DelWorker
  <2>2. work' = "stop" /\ UNCHANGED <<connected, turnOff, channel, connOpen, loops, stopper>>
    BY <1>8 DEF DelWorker
  <2>3. QED
    BY <2>1, <2>2
<1>9. CASE WorkStop
  <2>1. StopInv'
    BY <1>9 DEF WorkStop, TurnOff
  <2>2. stopping' \in BOOLEAN /\ stopPc' \in StopPcs
    BY <1>9 DEF WorkStop, TurnOff, StopPcs
  <2>3. /\ work' \in {"afterDisconnect", "stopping"}
        /\ UNCHANGED <<registered, connected, notified, channel, connOpen, loops, stopper>>
    BY <1>9 DEF WorkStop, TurnOff
  <2>4. TypeOK'
    BY <2>2, <2>3 DEF StopPcs
  <2>5. QED
    BY <2>1, <2>4
<1>10. CASE WorkStopReturns
  BY <1>10 DEF WorkStopReturns
<1>11. CASE AfterDisconnect
  BY <1>11 DEF AfterDisconnect
<1>12. QED
  BY <1>2, <1>3, <1>4, <1>5, <1>6, <1>7, <1>8, <1>9, <1>10, <1>11 DEF WorkSteps

LEMMA StopKeepsStop ==
  ASSUME TypeOK, StopInv, StopSteps
  PROVE  TypeOK' /\ StopInv'
<1>1. UNCHANGED <<sendChan, out, pushes, egErr>>
  BY OtherFrame
<1> USE <1>1 DEF TypeOK, StopInv, Before, out, pushes, life, channel, loops
<1>2. CASE StopDisconnect
  BY <1>2 DEF StopDisconnect
<1>3. CASE StopTunnels
  BY <1>3 DEF StopTunnels
<1>4. CASE StopCloseChan
  BY <1>4 DEF StopCloseChan
<1>5. CASE StopCloseConn
  <2>1. StopInv' /\ connOpen' \in BOOLEAN
    BY <1>5 DEF StopCloseConn
  <2>2. stopPc' = "done" /\ UNCHANGED <<life, stopping, notified, channel, loops, stopper>>
    BY <1>5 DEF StopCloseConn
  <2>3. TypeOK'
    BY <2>1, <2>2
  <2>4. QED
    BY <2>1, <2>3
<1>6. QED
  BY <1>2, <1>3, <1>4, <1>5 DEF StopSteps

LEMMA StopperKeepsStop ==
  ASSUME TypeOK, StopInv, StopperStep
  PROVE  TypeOK' /\ StopInv'
<1>1. UNCHANGED <<sendChan, out, pushes, egErr>>
  BY OtherFrame
<1>2. ASSUME NEW s \in Stoppers, NEW d \in BOOLEAN, StopperFinds(s, d)
      PROVE  TypeOK' /\ StopInv'
  <2>1. stopper' \in [Stoppers -> {"idle", "stop", "done"}]
    BY <1>2, StopperTypes DEF StopperFinds
  <2>2. QED
    BY <1>1, <1>2, <2>1 DEF StopperFinds, TypeOK, StopInv, Before, out, pushes, turnOff,
       channel, loops
<1>3. ASSUME NEW s \in Stoppers, StopperStops(s)
      PROVE  TypeOK' /\ StopInv'
  <2>1. stopper' \in [Stoppers -> {"idle", "stop", "done"}]
    BY <1>3, StopperTypes DEF StopperStops
  <2>2. work \notin Before
    BY <1>3 DEF StopperStops, StopInv
  <2>3. StopInv'
    BY <1>1, <1>3, <2>2 DEF StopperStops, TurnOff, TypeOK, StopInv, Before, life
  <2>4. stopping' \in BOOLEAN /\ stopPc' \in StopPcs
    BY <1>3 DEF StopperStops, TurnOff, TypeOK, StopPcs
  <2>5. UNCHANGED <<life, notified, channel, connOpen, loops>>
    BY <1>3 DEF StopperStops, TurnOff
  <2>6. TypeOK'
    BY <1>1, <2>1, <2>4, <2>5 DEF TypeOK, StopPcs, out, pushes, life, channel, loops
  <2>7. QED
    BY <2>3, <2>6
<1>4. QED
  BY <1>2, <1>3 DEF StopperStep

\* The other steps leave what StopInv is about.
LEMMA LoopKeepsStop == ASSUME StopInv, LoopStep PROVE StopInv'
BY LoopFrame DEF StopInv, life, turnOff

-----------------------------------------------------------------------------
(* Types and numbers of the packs, in the steps of Run's goroutines.          *)

LEMMA FailTypes ==
  ASSUME TypeOK, NEW e \in {"stopped", "failed"}, Fail(e)
  PROVE  egErr' \in {"nil", "cancelled", "stopped", "failed"}
BY DEF TypeOK, Fail

LEMMA SendKeepsTypes ==
  ASSUME TypeOK, PushInv, SendSteps
  PROVE  TypeOK' /\ PushInv'
<1> USE DEF TypeOK, PushInv, life, turnOff, channel, loops, out, pushes
<1>1. CASE SendTakes
  <2>1. sendChan \in Seq(Packs) /\ sendChan # <<>>
    BY <1>1 DEF SendTakes
  <2>2. /\ Head(sendChan) \in Packs /\ Tail(sendChan) \in Seq(Packs)
        /\ Len(Tail(sendChan)) = Len(sendChan) - 1 /\ Len(sendChan) \in Nat
    BY <2>1, HeadTailProperties, LenProperties
  <2>3. <<Head(sendChan)>> \in Seq(Packs) /\ Len(<<Head(sendChan)>>) = 1
    BY <2>2
  <2>4. Len(Tail(sendChan)) <= ChanSize
    BY <2>2, SizeAssumption
  <2>5. QED
    BY <1>1, <2>2, <2>3, <2>4 DEF SendTakes
<1>2. CASE SendReturns
  BY <1>2, FailTypes DEF SendReturns
<1>3. CASE SendWrites
  <2>1. wire \o writing \in Seq(Packs)
    BY ConcatProperties
  <2>2. <<>> \in Seq(Packs) /\ Len(<<>>) = 0
    OBVIOUS
  <2>3. QED
    BY <1>3, <2>1, <2>2 DEF SendWrites
<1>4. CASE SendFails
  BY <1>4, FailTypes DEF SendFails
<1>5. QED
  BY <1>1, <1>2, <1>3, <1>4 DEF SendSteps

LEMMA ReadKeepsTypes ==
  ASSUME TypeOK, PushInv, ReadSteps \/ HandleSteps
  PROVE  TypeOK' /\ PushInv'
<1> USE DEF TypeOK, PushInv, life, turnOff, channel, loops, out, pushes, Senders
<1>1. CASE ReadChecks
  BY <1>1, FailTypes DEF ReadChecks
<1>2. CASE ReadHandles
  BY <1>2 DEF ReadHandles
<1>3. CASE ReadFails
  BY <1>3, FailTypes DEF ReadFails
<1>4. CASE HandlePushes
  BY <1>4 DEF HandlePushes
<1>5. ASSUME NEW ok \in BOOLEAN, HandleReturns(ok) PROVE TypeOK' /\ PushInv'
  BY <1>5, FailTypes DEF HandleReturns
<1>6. CASE HandlePanics
  BY <1>6, FailTypes DEF HandlePanics
<1>7. QED
  BY <1>1, <1>2, <1>3, <1>4, <1>5, <1>6 DEF ReadSteps, HandleSteps

LEMMA PushKeepsTypes ==
  ASSUME TypeOK, PushInv, NEW p \in Senders, PushSteps(p)
  PROVE  TypeOK' /\ PushInv'
<1> USE DEF TypeOK, PushInv, life, turnOff, channel, loops, out, pushes
<1>1. CASE PushSends(p)
  <2>1. <<p, pushed[p]>> \in Packs
    BY <1>1, SizeAssumption DEF PushSends, Packs
  <2>2. /\ Append(sendChan, <<p, pushed[p]>>) \in Seq(Packs)
        /\ Append(accepted, <<p, pushed[p]>>) \in Seq(Packs)
        /\ Len(Append(sendChan, <<p, pushed[p]>>)) = Len(sendChan) + 1
        /\ Len(sendChan) \in Nat
    BY <2>1, AppendProperties, LenProperties
  <2>3. Len(sendChan) + 1 <= ChanSize
    BY <1>1, <2>2, SizeAssumption DEF PushSends
  <2>4. push' = [push EXCEPT ![p] = "idle"] /\ pushed' = pushed
    BY <1>1 DEF PushSends
  <2>5. PushInv' /\ push' \in [Senders -> {"idle", "check", "send", "refused", "panicked"}]
    BY <2>4
  <2>6. QED
    BY <1>1, <2>2, <2>3, <2>5 DEF PushSends
<1>2. CASE PushPanics(p)
  BY <1>2 DEF PushPanics
<1>3. ASSUME NEW empty \in BOOLEAN, PushChecks(p, empty) PROVE TypeOK' /\ PushInv'
  <2>1. pushed[p] + 1 \in 1..MaxPushes
    BY <1>3, SizeAssumption DEF PushChecks
  <2>2. QED
    BY <1>3, <2>1, SizeAssumption DEF PushChecks
<1>4. QED
  BY <1>1, <1>2, <1>3 DEF PushSteps

LEMMA LoopKeepsTypes ==
  ASSUME TypeOK, PushInv, LoopStep
  PROVE  TypeOK' /\ PushInv'
<1> USE DEF TypeOK, PushInv, life, turnOff, channel, loops, out, pushes
<1>1. ASSUME NEW p \in Pushers, PusherFinds(p) PROVE TypeOK' /\ PushInv'
  BY <1>1 DEF PusherFinds, Senders
<1>2. CASE CancelContext
  BY <1>2 DEF CancelContext
<1>3. CASE WatchReturns
  BY <1>3, FailTypes DEF WatchReturns
<1>4. CASE TickFails
  BY <1>4, FailTypes DEF TickFails
<1>5. CASE TickReturns
  BY <1>5 DEF TickReturns
<1>6. QED
  BY <1>1, <1>2, <1>3, <1>4, <1>5, SendKeepsTypes, ReadKeepsTypes, PushKeepsTypes
     DEF LoopStep

-----------------------------------------------------------------------------
(* Run's goroutines and the order of the packs.                               *)

\* A goroutine that has not started, or has ended, takes no step.
LEMMA LoopKeepsRun == ASSUME TypeOK, RunInv, LoopStep PROVE RunInv'
<1>1. UNCHANGED <<work, registered, stopping>>
  BY LoopFrame DEF life, turnOff
<1>2. (Idle => Idle') /\ (Over => Over')
  <2> USE DEF Idle, Over, loops
  <2>1. SendSteps => (Idle => Idle') /\ (Over => Over')
    BY DEF SendSteps, SendTakes, SendReturns, SendWrites, SendFails
  <2>2. ReadSteps \/ HandleSteps => (Idle => Idle') /\ (Over => Over')
    BY DEF ReadSteps, HandleSteps, ReadChecks, ReadHandles, ReadFails, HandlePushes,
         HandleReturns, HandlePanics
  <2>3. ASSUME NEW p, PushSteps(p) PROVE (Idle => Idle') /\ (Over => Over')
    BY <2>3 DEF PushSteps, PushSends, PushPanics, PushChecks
  <2>4. ASSUME NEW p, PusherFinds(p) PROVE (Idle => Idle') /\ (Over => Over')
    BY <2>4 DEF PusherFinds
  <2>5. CancelContext \/ WatchReturns \/ TickFails \/ TickReturns
          => (Idle => Idle') /\ (Over => Over')
    BY DEF CancelContext, WatchReturns, TickFails, TickReturns
  <2>6. QED
    BY <2>1, <2>2, <2>3, <2>4, <2>5 DEF LoopStep
<1>3. QED
  BY <1>1, <1>2 DEF RunInv

LEMMA WorkKeepsRun == ASSUME TypeOK, StopInv, RunInv, WorkSteps PROVE RunInv'
<1> USE DEF TypeOK, StopInv, RunInv, Before, Idle, Over, loops, turnOff
<1>1. CASE HandshakeFails \/ HandshakeOk \/ AddWorker
  BY <1>1 DEF HandshakeFails, HandshakeOk, AddWorker
<1>2. ASSUME NEW ok \in BOOLEAN, OnConnected(ok) \/ AfterConnect(ok) PROVE RunInv'
  BY <1>2 DEF OnConnected, AfterConnect
<1>3. CASE RunReturns \/ DelWorker
  BY <1>3 DEF RunReturns, DelWorker
<1>4. CASE WorkStop
  BY <1>4 DEF WorkStop, TurnOff
<1>5. CASE WorkStopReturns \/ AfterDisconnect
  BY <1>5 DEF WorkStopReturns, AfterDisconnect
<1>6. QED
  BY <1>1, <1>2, <1>3, <1>4, <1>5 DEF WorkSteps

LEMMA OthersKeepRun ==
  ASSUME TypeOK, StopInv, RunInv, StopSteps \/ StopperStep
  PROVE  RunInv'
<1> USE DEF TypeOK, RunInv, Idle, Over, loops, life
<1>1. CASE StopSteps
  BY <1>1 DEF StopSteps, StopDisconnect, StopTunnels, StopCloseChan, StopCloseConn
<1>2. ASSUME NEW s \in Stoppers, NEW d \in BOOLEAN, StopperFinds(s, d) PROVE RunInv'
  BY <1>2 DEF StopperFinds, turnOff
<1>3. ASSUME NEW s \in Stoppers, StopperStops(s) PROVE RunInv'
  BY <1>3 DEF StopperStops, TurnOff
<1>4. QED
  BY <1>1, <1>2, <1>3 DEF StopperStep

\* Only sendLoop and Push touch the packs: sendLoop moves the head of the channel to
\* its hands and from there to the wire, and Push extends both ends of the equation.
LEMMA LoopKeepsFlow == ASSUME TypeOK, FlowInv, PushInv, LoopStep PROVE FlowInv'
<1> USE DEF FlowInv, AcceptedInOrder, out, pushes, channel, loops
<1>1. sendChan \in Seq(Packs) /\ writing \in Seq(Packs) /\ wire \in Seq(Packs)
  BY DEF TypeOK
<1>2. CASE SendTakes
  <2>1. writing = <<>> /\ sendChan # <<>>
    BY <1>2 DEF SendTakes
  <2>2. (wire \o <<Head(sendChan)>>) \o Tail(sendChan) = (wire \o <<>>) \o sendChan
    BY <1>1, <2>1, TakeHead
  <2>3. QED
    BY <1>2, <2>1, <2>2 DEF SendTakes
<1>3. CASE SendWrites
  BY <1>1, <1>3, WriteOut DEF SendWrites
<1>4. CASE SendReturns \/ SendFails
  BY <1>4 DEF SendReturns, SendFails
<1>5. ASSUME NEW p \in Senders, PushSends(p) PROVE FlowInv'
  <2>1. <<p, pushed[p]>> \in Packs
    BY <1>5, SizeAssumption DEF PushSends, Packs, PushInv, TypeOK
  <2>2. wire \o writing \in Seq(Packs)
    BY <1>1, ConcatProperties
  <2>3. (wire \o writing) \o Append(sendChan, <<p, pushed[p]>>)
          = Append((wire \o writing) \o sendChan, <<p, pushed[p]>>)
    BY <1>1, <2>1, <2>2, AppendLast
  <2>4. QED
    BY <1>5, <2>3 DEF PushSends
<1>6. ASSUME NEW p \in Senders,
             PushPanics(p) \/ \E empty \in BOOLEAN : PushChecks(p, empty)
      PROVE  FlowInv'
  BY <1>6 DEF PushPanics, PushChecks
<1>7. ASSUME NEW p \in Pushers, PusherFinds(p) PROVE FlowInv'
  BY <1>7 DEF PusherFinds
<1>8. CASE ReadSteps \/ HandleSteps
  BY <1>8 DEF ReadSteps, HandleSteps, ReadChecks, ReadHandles, ReadFails, HandlePushes,
         HandleReturns, HandlePanics
<1>9. CASE CancelContext \/ WatchReturns \/ TickFails \/ TickReturns
  BY <1>9 DEF CancelContext, WatchReturns, TickFails, TickReturns
<1>10. QED
  BY <1>2, <1>3, <1>4, <1>5, <1>6, <1>7, <1>8, <1>9 DEF LoopStep, SendSteps, PushSteps

LEMMA OthersKeepFlow ==
  ASSUME RunInv, FlowInv, PushInv, WorkSteps \/ StopSteps \/ StopperStep
  PROVE  FlowInv' /\ PushInv'
<1>1. UNCHANGED <<sendChan, writing, wire, push, pushed, accepted>>
  BY OtherFrame DEF out, pushes
<1>2. send' = send \/ send = "off"
  <2>1. WorkSteps => send' = send \/ send = "off"
    BY DEF WorkSteps, HandshakeFails, HandshakeOk, AddWorker, OnConnected, AfterConnect,
           RunReturns, DelWorker, WorkStop, WorkStopReturns, AfterDisconnect, loops,
           RunInv, Idle
  <2>2. StopSteps => send' = send
    BY DEF StopSteps, StopDisconnect, StopTunnels, StopCloseChan, StopCloseConn, loops
  <2>3. StopperStep => send' = send
    BY DEF StopperStep, StopperStops, StopperFinds, loops
  <2>4. QED
    BY <2>1, <2>2, <2>3
<1>3. QED
  BY <1>1, <1>2 DEF FlowInv, AcceptedInOrder, PushInv

-----------------------------------------------------------------------------
LEMMA WorkerInit == Init => WorkerInv
<1> SUFFICES ASSUME Init PROVE WorkerInv
  OBVIOUS
<1>1. <<>> \in Seq(Packs) /\ Len(<<>>) = 0
  OBVIOUS
<1>2. TypeOK
  <2>1. /\ registered \in BOOLEAN /\ connected \in BOOLEAN /\ stopping \in BOOLEAN
        /\ chanClosed \in BOOLEAN /\ connOpen \in BOOLEAN
    BY DEF Init
  <2>2. /\ push \in [Senders -> {"idle", "check", "send", "refused", "panicked"}]
        /\ pushed \in [Senders -> 0..MaxPushes]
        /\ stopper \in [Stoppers -> {"idle", "stop", "done"}]
    BY SizeAssumption DEF Init
  <2>3. /\ work = "handshake" /\ stopPc = "none" /\ notified = 0 /\ egErr = "nil" /\ Idle
        /\ sendChan = <<>> /\ writing = <<>> /\ wire = <<>> /\ accepted = <<>>
    BY DEF Init, Idle
  <2>4. QED
    BY <1>1, <2>1, <2>2, <2>3, SizeAssumption DEF TypeOK, Idle
<1>3. StopInv /\ RunInv /\ PushInv
  BY DEF Init, StopInv, RunInv, PushInv, Before, Idle, Over, Senders
<1>4. FlowInv
  BY DEF Init, FlowInv, AcceptedInOrder
<1>5. QED
  BY <1>2, <1>3, <1>4 DEF WorkerInv

LEMMA WorkerStep == WorkerInv /\ [Next]_vars => WorkerInv'
<1> SUFFICES ASSUME WorkerInv, [Next]_vars PROVE WorkerInv'
  OBVIOUS
<1> USE DEF WorkerInv
<1>1. CASE WorkSteps
  BY <1>1, WorkKeepsStop, WorkKeepsRun, OthersKeepFlow
<1>2. CASE StopSteps
  BY <1>2, StopKeepsStop, OthersKeepRun, OthersKeepFlow
<1>3. CASE StopperStep
  BY <1>3, StopperKeepsStop, OthersKeepRun, OthersKeepFlow
<1>4. CASE LoopStep
  BY <1>4, LoopKeepsTypes, LoopKeepsStop, LoopKeepsRun, LoopKeepsFlow
<1>5. CASE UNCHANGED vars
  <2>1. TypeOK' /\ PushInv'
    BY <1>5 DEF vars, TypeOK, PushInv, life, turnOff, channel, loops, out, pushes
  <2>2. StopInv'
    BY <1>5 DEF vars, StopInv, life, turnOff, channel, loops, out, pushes
  <2>3. RunInv'
    BY <1>5 DEF vars, RunInv, Idle, Over, life, turnOff, channel, loops, out, pushes
  <2>4. FlowInv'
    BY <1>5 DEF vars, FlowInv, AcceptedInOrder, life, turnOff, channel, loops, out, pushes
  <2>5. QED
    BY <2>1, <2>2, <2>3, <2>4
<1>6. QED
  BY <1>1, <1>2, <1>3, <1>4, <1>5, NextSplits

\* WorkerInv is inductive.
THEOREM WorkerInvariant == Spec => []WorkerInv
BY WorkerInit, WorkerStep, PTL DEF Spec

\* Every pack that Push accepted is on the wire, in the hands of sendLoop or in
\* sendChan, in the order in which Push accepted it.
THEOREM Order == Spec => []AcceptedInOrder
<1>1. WorkerInv => AcceptedInOrder
  BY DEF WorkerInv, FlowInv
<1>2. QED
  BY <1>1, WorkerInvariant, PTL

\* BaseServer.work returns with the worker out of the registry, Stop called and the
\* four goroutines of Run over.
THEOREM Ends == Spec => []NothingLeftRunning
<1>1. WorkerInv => NothingLeftRunning
  BY DEF WorkerInv, RunInv, Idle, Over, NothingLeftRunning
<1>2. QED
  BY <1>1, WorkerInvariant, PTL

-----------------------------------------------------------------------------
(* The lifecycle.                                                             *)

\* What the lifecycle sees of a worker.
seen == <<connOpen, stopping, connected, notified>>

LEMMA SeenStutters == UNCHANGED seen => UNCHANGED Lifecycle!vars
BY DEF seen, Lifecycle!vars

\* The first TurnOff finds the connection open and is Leave; a later one is not seen.
LEMMA TurnOffLeaves ==
  ASSUME TypeOK, StopInv, TurnOff, UNCHANGED <<connOpen, connected>>
  PROVE  Lifecycle!Leave \/ UNCHANGED seen
<1>1. CASE stopping
  BY <1>1 DEF TurnOff, seen
<1>2. CASE ~ stopping
  <2>1. connOpen /\ stopping'
    BY <1>2 DEF TurnOff, StopInv, TypeOK
  <2>2. QED
    BY <1>2, <2>1 DEF TurnOff, Lifecycle!Leave
<1>3. QED
  BY <1>1, <1>2

LEMMA WorkLifecycle ==
  ASSUME WorkerInv, WorkSteps
  PROVE  Lifecycle!Next \/ UNCHANGED seen
<1> USE DEF WorkerInv, turnOff
<1>1. ASSUME NEW ok \in BOOLEAN, OnConnected(ok)
      PROVE  Lifecycle!Connect \/ UNCHANGED seen
  <2>1. ~ connected /\ ~ stopping /\ connOpen
    BY <1>1 DEF OnConnected, StopInv, TypeOK, Before
  <2>2. UNCHANGED <<stopping, connOpen, notified>> /\ connected' = ok
    BY <1>1 DEF OnConnected
  <2>3. CASE ok
    BY <2>1, <2>2, <2>3 DEF Lifecycle!Connect
  <2>4. CASE ~ ok
    BY <2>1, <2>2, <2>4 DEF seen, TypeOK
  <2>5. QED
    BY <2>3, <2>4
<1>2. ASSUME NEW ok \in BOOLEAN, AfterConnect(ok) PROVE UNCHANGED seen
  BY <1>2 DEF AfterConnect, seen
<1>3. CASE WorkStop
  BY <1>3, TurnOffLeaves DEF WorkStop, Lifecycle!Next
<1>4. CASE HandshakeFails \/ HandshakeOk \/ AddWorker
  BY <1>4 DEF HandshakeFails, HandshakeOk, AddWorker, seen
<1>5. CASE RunReturns \/ DelWorker \/ WorkStopReturns \/ AfterDisconnect
  BY <1>5 DEF RunReturns, DelWorker, WorkStopReturns, AfterDisconnect, seen
<1>6. QED
  BY <1>1, <1>2, <1>3, <1>4, <1>5 DEF WorkSteps, Lifecycle!Next

\* OnDisconnect is Notify, and the connection is closed after it.
LEMMA StopLifecycle ==
  ASSUME WorkerInv, StopSteps
  PROVE  Lifecycle!Next \/ UNCHANGED seen
<1> USE DEF WorkerInv, life
<1>1. CASE StopDisconnect
  <2>1. stopping /\ connOpen /\ notified = 0
    BY <1>1 DEF StopDisconnect, StopInv, TypeOK
  <2>2. UNCHANGED <<stopping, connOpen, connected>>
    BY <1>1 DEF StopDisconnect
  <2>3. CASE connected
    BY <1>1, <2>1, <2>2, <2>3 DEF StopDisconnect, Lifecycle!Notify, Lifecycle!Next
  <2>4. CASE ~ connected
    BY <1>1, <2>2, <2>4 DEF StopDisconnect, seen
  <2>5. QED
    BY <2>3, <2>4
<1>2. CASE StopTunnels \/ StopCloseChan
  BY <1>2 DEF StopTunnels, StopCloseChan, seen
<1>3. CASE StopCloseConn
  <2>1. stopping /\ connOpen /\ ~ connOpen' /\ UNCHANGED <<stopping, connected, notified>>
    BY <1>3 DEF StopCloseConn, StopInv, TypeOK
  <2>2. connected => notified = 1
    BY <1>3 DEF StopCloseConn, StopInv, TypeOK
  <2>3. QED
    BY <2>1, <2>2 DEF Lifecycle!Close, Lifecycle!Next
<1>4. QED
  BY <1>1, <1>2, <1>3 DEF StopSteps

LEMMA LifecycleStep ==
  ASSUME WorkerInv, [Next]_vars
  PROVE  [Lifecycle!Next]_(Lifecycle!vars)
<1>1. CASE StopperStep
  <2>1. ASSUME NEW s \in Stoppers, NEW d \in BOOLEAN, StopperFinds(s, d)
        PROVE  UNCHANGED seen
    BY <2>1 DEF StopperFinds, seen, turnOff
  <2>2. ASSUME NEW s \in Stoppers, StopperStops(s) PROVE Lifecycle!Leave \/ UNCHANGED seen
    BY <2>2, TurnOffLeaves DEF StopperStops, WorkerInv, life
  <2>3. QED
    BY <1>1, <2>1, <2>2, SeenStutters DEF StopperStep, Lifecycle!Next
<1>2. CASE LoopStep
  BY <1>2, LoopFrame, SeenStutters DEF seen, life, turnOff
<1>3. CASE UNCHANGED vars
  BY <1>3, SeenStutters DEF seen, vars, life, turnOff
<1>4. QED
  BY <1>1, <1>2, <1>3, NextSplits, WorkLifecycle, StopLifecycle, SeenStutters

LEMMA LifecycleInit == Init => Lifecycle!Init
BY DEF Init, Lifecycle!Init

\* Whoever stops a worker and whenever, the service sees the lifecycle: OnConnected
\* once, OnDisconnect once for a connection it welcomed and before the connection is
\* closed, and nothing after that.
THEOREM LifecycleRefinement == Spec => ImplementsLifecycle
BY WorkerInvariant, LifecycleInit, LifecycleStep, PTL
   DEF Spec, ImplementsLifecycle, Lifecycle!Spec

=============================================================================
