---------------------------- MODULE CloseLedger ----------------------------
(***************************************************************************)
(* What closing promises, seen from the books: an attempt sends an order   *)
(* and at most one more, an order ends filled or void, a fill is booked at *)
(* most once, a trade is closed by a booked fill only and stays closed.    *)
(***************************************************************************)
CONSTANTS Attempts, Trades

VARIABLES order, closed

Orders == {1, 2}

Init ==
    /\ order = [a \in Attempts |-> [i \in Orders |-> "unsent"]]
    /\ closed = {}

Move(a, i, from, to) ==
    /\ order[a][i] = from
    /\ order' = [order EXCEPT ![a][i] = to]

Send(a) == Move(a, 1, "unsent", "working") /\ UNCHANGED closed

\* Once only, and not after a booked fill.
Retry(a) ==
    /\ order[a][1] \notin {"unsent", "booked"}
    /\ Move(a, 2, "unsent", "working")
    /\ UNCHANGED closed

Fill(a, i) == Move(a, i, "working", "filled") /\ UNCHANGED closed

Void(a, i) == Move(a, i, "working", "void") /\ UNCHANGED closed

\* No order of the attempt was booked before.
Book(a, i) ==
    /\ \A j \in Orders : order[a][j] # "booked"
    /\ Move(a, i, "filled", "booked")
    /\ \E t \in Trades : closed' = closed \cup {t}

Next ==
    \E a \in Attempts :
        \/ Send(a)
        \/ Retry(a)
        \/ \E i \in Orders : Fill(a, i) \/ Void(a, i) \/ Book(a, i)

Spec == Init /\ [][Next]_<<order, closed>>
=============================================================================
