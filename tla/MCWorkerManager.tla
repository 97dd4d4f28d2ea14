--------------------------- MODULE MCWorkerManager ---------------------------
(* WorkerManager on small instances: a TCP server beside a WebSocket server    *)
(* (DistinctNets), or two TCP servers (SameNets).                              *)
EXTENDS WorkerManager, TLC

CONSTANTS s1, s2

DistinctNets == s1 :> 0 @@ s2 :> 1

SameNets == s1 :> 0 @@ s2 :> 0

Symmetry == Permutations(Workers) \cup Permutations(Uids)

=============================================================================
