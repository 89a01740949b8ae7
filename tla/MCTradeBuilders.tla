--------------------------- MODULE MCTradeBuilders ---------------------------
(* TradeBuilders with five prices and a chain that lacks some strikes.        *)
EXTENDS TradeBuilders

Above(i) == IF i > 0 THEN i ELSE 0

\* Intrinsic value, and a time value that fades with the distance.
PutOf == [p \in Spots \X Strikes |->
            Above(p[2] - p[1]) + Above(320 - (Dist(p[1], p[2]) * 3) \div 10)]

DeltaOf == [p \in Spots \X Strikes |->
              LET d == 500 + (p[1] - p[2]) \div 3
              IN  IF d < 20 THEN 20 ELSE IF d > 980 THEN 980 ELSE d]

MinusDelta == -270
=============================================================================
