--------------------------- MODULE MCPositionDesk ---------------------------
(* PositionDesk with one trade, of any strategy.                            *)
EXTENDS PositionDesk

CONSTANT t1
=============================================================================
