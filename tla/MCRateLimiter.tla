---------------------------- MODULE MCRateLimiter ----------------------------
(* A small instance of RateLimiter: one key allows a single request in the  *)
(* window, the other two.                                                   *)
EXTENDS RateLimiter, TLC

CONSTANTS k1, k2
MCKeys  == {k1, k2}
MCLimit == k1 :> 1 @@ k2 :> 2
=============================================================================
