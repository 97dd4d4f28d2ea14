--------------------------- MODULE WorkerLifecycle ---------------------------
(***************************************************************************)
(* What a service may rely on for one connection: OnConnected (welcomed) and *)
(* OnDisconnect (notified) come in pairs around the time the connection is   *)
(* open, and a connection that began to leave never comes back.              *)
(***************************************************************************)
EXTENDS Naturals

VARIABLES
  phase,     \* "handshake", "connected", "leaving", "closed"
  welcomed,  \* OnConnected succeeded
  notified   \* number of calls of OnDisconnect

vars == <<phase, welcomed, notified>>

Init == phase = "handshake" /\ welcomed = FALSE /\ notified = 0

Connect ==
  /\ phase = "handshake"
  /\ phase' = "connected" /\ welcomed' = TRUE
  /\ UNCHANGED notified

Leave ==
  /\ phase \in {"handshake", "connected"}
  /\ phase' = "leaving"
  /\ UNCHANGED <<welcomed, notified>>

\* The last word to the service, while the connection is still open.
Notify ==
  /\ phase = "leaving" /\ welcomed /\ notified = 0
  /\ notified' = 1
  /\ UNCHANGED <<phase, welcomed>>

Close ==
  /\ phase = "leaving"
  /\ welcomed => notified = 1
  /\ phase' = "closed"
  /\ UNCHANGED <<welcomed, notified>>

Next == Connect \/ Leave \/ Notify \/ Close

Spec == Init /\ [][Next]_vars

=============================================================================
