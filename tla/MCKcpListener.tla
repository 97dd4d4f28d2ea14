---------------------------- MODULE MCKcpListener ----------------------------
(* KcpListener for two sessions, one of which has two streams: with a           *)
(* streamChan of two, both may have queued one and a third wait for room.       *)
EXTENDS KcpListener

CONSTANTS s1, s2

TwoAndOne == {<<s1, 1>>, <<s1, 2>>, <<s2, 1>>}

=============================================================================
