----------------------------- MODULE FillLedger -----------------------------
(***************************************************************************)
(* What the order life cycle promises about one order, seen from the       *)
(* books: an order is written down before it exists at the broker, it ends *)
(* filled or void, and a fill is booked once, as a trade, and stays booked.*)
(***************************************************************************)
CONSTANT Orders

VARIABLE stage

Stages == {"unknown", "intended", "working", "filled", "void", "booked"}

Init == stage = [o \in Orders |-> "unknown"]

Move(o, from, to) ==
    /\ stage[o] = from
    /\ stage' = [stage EXCEPT ![o] = to]

\* The order's row is committed.
Intend(o) == Move(o, "unknown", "intended")

\* The broker has the order.
Send(o) == Move(o, "intended", "working")

Fill(o) == Move(o, "working", "filled")

\* The order will never fill: cancelled, rejected, or never sent.
Void(o) == Move(o, "working", "void") \/ Move(o, "intended", "void")

\* A crash before placeOrder: what was written down is never sent.
Lose ==
    \E S \in SUBSET {o \in Orders : stage[o] = "intended"} :
        stage' = [o \in Orders |-> IF o \in S THEN "void" ELSE stage[o]]

\* The fill becomes a trade.
Book(o) == Move(o, "filled", "booked")

Next ==
    \/ \E o \in Orders : Intend(o) \/ Send(o) \/ Fill(o) \/ Void(o) \/ Book(o)
    \/ Lose

Spec == Init /\ [][Next]_stage
=============================================================================
