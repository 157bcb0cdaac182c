----------------------------- MODULE MCRequests -----------------------------
(* A few clients and boxes, with names as long as they may be.             *)
EXTENDS Requests, TLC

WorkersAreAlike == Permutations(Workers)
=============================================================================
