----------------------------- MODULE MCScripts -----------------------------
(* Values for the constants of Scripts that a .cfg cannot write.           *)
EXTENDS Scripts, TLC

CONSTANTS w1, w2, c1, c2, m1

\* A process with a consumer and a mover, and one with a single goroutine.
TwoAndOne == (c1 :> w1) @@ (m1 :> w1) @@ (c2 :> w2)
=============================================================================
