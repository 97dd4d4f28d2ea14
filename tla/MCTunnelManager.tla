--------------------------- MODULE MCTunnelManager ---------------------------
(* An instance of TunnelManager for TLC. *)
EXTENDS TunnelManager

\* Every key has a tunnel type, so a group, of its own.
OwnType == [k \in Keys |-> k]

=============================================================================
