------------------------------ MODULE MCGateway ------------------------------
(* Gateway with two trades of one underlying.                         *)
EXTENDS Gateway, TLC

CONSTANTS t1, t2, u1

OneUnderlying == (t1 :> u1) @@ (t2 :> u1)
=============================================================================
