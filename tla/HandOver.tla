------------------------------ MODULE HandOver ------------------------------
(***************************************************************************)
(* What a server may rely on in a listener that accepts connections in        *)
(* goroutines of its own and hands them to Accept through a channel: each is  *)
(* queued at most once, served in the order of queueing by one worker, and    *)
(* given up only for want of room or because the channel is closed.           *)
(* KcpListener (which waits for room) and WebSocketListener (which does not)  *)
(* implement it.                                                             *)
(***************************************************************************)
EXTENDS Naturals, Sequences

CONSTANTS
  Carriers,  \* the connections, or streams, that get accepted
  Size,      \* capacity of the channel
  Waits      \* whether whoever has accepted one waits for room

VARIABLES
  phase,   \* per carrier: "outside", "pending", "queued", "served" or "dropped"
  queue,   \* the channel
  closed   \* the channel is closed

vars == <<phase, queue, closed>>

Init == phase = [c \in Carriers |-> "outside"] /\ queue = <<>> /\ closed = FALSE

Move(c, from, to) == phase[c] = from /\ phase' = [phase EXCEPT ![c] = to]

Arrive(c) == UNCHANGED <<queue, closed>> /\ Move(c, "outside", "pending")

Enqueue(c) ==
  /\ ~ closed /\ Len(queue) < Size
  /\ queue' = Append(queue, c)
  /\ Move(c, "pending", "queued")
  /\ UNCHANGED closed

Drop(c) ==
  /\ ~ Waits
  /\ closed \/ Len(queue) = Size
  /\ Move(c, "pending", "dropped")
  /\ UNCHANGED <<queue, closed>>

Serve ==
  /\ queue # <<>>
  /\ queue' = Tail(queue)
  /\ Move(Head(queue), "queued", "served")
  /\ UNCHANGED closed

Close == closed' = TRUE /\ UNCHANGED <<phase, queue>>

Next == Serve \/ Close \/ \E c \in Carriers : Arrive(c) \/ Enqueue(c) \/ Drop(c)

Spec == Init /\ [][Next]_vars

=============================================================================
