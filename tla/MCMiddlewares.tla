--------------------------- MODULE MCMiddlewares ---------------------------
(* Values for the constants of Middlewares that a .cfg cannot write.       *)
EXTENDS Middlewares, TLC

CONSTANTS qa, qb, a1, a2, b1

\* Two consumers of one queue and one of another.
TwoAndOne == (a1 :> qa) @@ (a2 :> qa) @@ (b1 :> qb)
=============================================================================
