---------------------------- MODULE BufferLender ----------------------------
(***************************************************************************)
(* What the Pool interface of internal/ringpool promises to its clients: a  *)
(* buffer is lent to one client at a time, is all zeros when it is lent, and *)
(* changes only when the client that holds it writes.                       *)
(***************************************************************************)
CONSTANTS Clients, Bufs, Heap, NoBuf

VARIABLES
  lent,   \* per client: the buffer it holds, Heap for an unpooled one, NoBuf
  seen    \* per client: what it reads in its pooled buffer

Init ==
  /\ lent = [c \in Clients |-> NoBuf]
  /\ seen = [c \in Clients |-> "zero"]

\* Alloc returns buffer b.
Lend(c, b) ==
  /\ lent[c] = NoBuf
  /\ b = Heap \/ \A other \in Clients : lent[other] # b
  /\ lent' = [lent EXCEPT ![c] = b]
  /\ UNCHANGED seen

Write(c) ==
  /\ lent[c] \in Bufs
  /\ seen' = [seen EXCEPT ![c] = "data"]
  /\ UNCHANGED lent

\* Free is called.
TakeBack(c) ==
  /\ lent[c] # NoBuf
  /\ lent' = [lent EXCEPT ![c] = NoBuf]
  /\ seen' = [seen EXCEPT ![c] = "zero"]

Next ==
  \E c \in Clients :
    \/ \E b \in Bufs \cup {Heap} : Lend(c, b)
    \/ Write(c)
    \/ TakeBack(c)

Spec == Init /\ [][Next]_<<lent, seen>>

=============================================================================
