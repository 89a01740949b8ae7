---------------------------- MODULE MCWheelCycle ----------------------------
(* WheelCycle with two puts that may be sold at the same strike and expiry, *)
(* which the first covered call also has.                                   *)
EXTENDS WheelCycle, TLC

CONSTANTS put1, put2, call1, call2

\* The two puts can be swapped.
Twins == Permutations({put1, put2})

SameLegs == (put1 :> "A") @@ (put2 :> "A") @@ (call1 :> "A") @@ (call2 :> "B")
=============================================================================
