----------------------- MODULE MCRingBufferPoolStats ------------------------
(* RingBufferPoolStats on a small instance, with interchangeable clients.     *)
EXTENDS RingBufferPoolStats, TLC

Symmetry == Permutations(Clients) \cup Permutations(Spare)

=============================================================================
