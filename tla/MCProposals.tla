---------------------------- MODULE MCProposals -----------------------------
(* Proposals with one ticker, watched in one list until an edit.            *)
EXTENDS Proposals, TLC

CONSTANTS p1, p2, aaa

Symmetry == Permutations({p1, p2})
WatchLists == ("Core" :> {aaa}) @@ ("Tactical" :> {}) @@ ("Momentum" :> {})
=============================================================================
