---------------------------- MODULE MCServerPush ----------------------------
(* ServerPush for two connections, of one user or of two, and a Broadcast for  *)
(* one of them or for both.                                                    *)
EXTENDS ServerPush, TLC

CONSTANTS w1, w2, u1, u2

OneOrTwoUsers == {w1 :> u1 @@ w2 :> u1, w1 :> u1 @@ w2 :> u2}

OneOrBoth == {{w1}, {w1, w2}}

=============================================================================
