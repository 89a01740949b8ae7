---------------------------- MODULE MCRiskEngine ----------------------------
(* RiskEngine on small instances, in units of $100 with the percentages of  *)
(* config.yaml where they matter; weeks and months are cut to a few days.   *)
EXTENDS RiskEngine, TLC

CONSTANTS t1, t2, t3

\* Two puts that do not fit the Core bucket together, a call on the first's
\* underlying.
PutsAndCall == (t1 :> "CSP") @@ (t2 :> "CSP") @@ (t3 :> "CoveredCall")
TwoNames    == (t1 :> "AAA") @@ (t2 :> "BBB") @@ (t3 :> "AAA")
PutSizes    == [t \in Trades |-> 190]

Shares   == ("Core" :> 550) @@ ("Tactical" :> 200) @@ ("Momentum" :> 100)
Caps     == ("Core" :> 600) @@ ("Tactical" :> 330) @@ ("Momentum" :> 500)
Limits   == ("daily" :> 15) @@ ("weekly" :> 30) @@ ("monthly" :> 80)
OneFault == [f \in Faults |-> 1]
NewLimits == ("daily" :> {100}) @@ ("weekly" :> {}) @@ ("monthly" :> {})
Pnls      == {-30}
MarkSet   == {-10}
=============================================================================
