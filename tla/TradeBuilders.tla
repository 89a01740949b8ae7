---------------------------- MODULE TradeBuilders ----------------------------
(***************************************************************************)
(* The four trade builders (bot/builder/csp.py, spread.py, cc.py and       *)
(* leap.py): expiry, strike, price and the checks, with the market moving  *)
(* while the builder waits for quotes.                                     *)
(*                                                                         *)
(* Prices and strikes are in cents, deltas in thousandths.  The market is  *)
(* the price of the underlying; the value of an option follows from it,    *)
(* for one expiry as for another, and is quoted with a spread that may     *)
(* differ from quote to quote.  Scores, tags and trade cards are left out. *)
(***************************************************************************)
EXTENDS Integers, FiniteSets

CONSTANTS
    Spots,              \* prices of the underlying
    Strikes,            \* chain.strikes
    Dtes,               \* days to the expirations a chain may offer
    Put,                \* value of a put, by price and strike
    CallDelta,          \* delta of a call, by price and strike
    Halves,             \* half of a quote's spread
    Caps, NoCap,        \* per-position caps; NoCap: account value unknown
    DteMin, DteMax, MaxCandidates,
    SpreadWidth, MaxSpreadLoss, MinCreditPercent,
    TargetPut, TargetCall, CallTolerance, TargetLeap, LeapTolerance,
    MaxExtrinsicPercent

WideSpread == 15    \* "bid if spread > $0.15, else mid"
Puts  == {"CSP", "BullPutSpread"}
Calls == {"CoveredCall", "LEAPCall"}
Kinds == Puts \cup Calls

\* Candidate strikes, in percent of the price.
Low    == [CSP |-> 70, BullPutSpread |-> 70, CoveredCall |-> 99, LEAPCall |-> 70]
High   == [CSP |-> 101, BullPutSpread |-> 101, CoveredCall |-> 110, LEAPCall |-> 95]
Centre == [CSP |-> 90, BullPutSpread |-> 88]

ASSUME MarketAssumption ==
    /\ Spots \subseteq Nat \ {0} /\ IsFiniteSet(Spots)
    /\ Strikes \subseteq Nat \ {0} /\ IsFiniteSet(Strikes)
    /\ Dtes \subseteq Nat \ {0} /\ IsFiniteSet(Dtes)
    /\ Put \in [Spots \X Strikes -> Nat]
    /\ CallDelta \in [Spots \X Strikes -> 0..1000]
    /\ Halves \subseteq Nat /\ Caps \subseteq Nat

\* No free money: a put is worth less at a lower strike, by less than the
\* distance, and not more at a higher price.
ASSUME NoArbitrageAssumption ==
    \A S \in Spots, K \in Strikes :
        /\ \A L \in Strikes : L < K =>
             /\ Put[<<S, L>>] <= Put[<<S, K>>]
             /\ Put[<<S, K>>] - Put[<<S, L>>] < K - L
        /\ \A R \in Spots : R < S => Put[<<S, K>>] <= Put[<<R, K>>]

\* The delta of a call that is not out of the money is 0.5 at least, and the
\* configured one stays below that.
ASSUME DeltaAssumption ==
    /\ \A S \in Spots, K \in Strikes : K <= S => CallDelta[<<S, K>>] >= 500
    /\ TargetCall + CallTolerance < 500

ASSUME ConfigAssumption ==
    /\ {DteMin, DteMax, MaxCandidates, SpreadWidth, MaxSpreadLoss, MinCreditPercent,
        TargetCall, CallTolerance, TargetLeap, LeapTolerance, MaxExtrinsicPercent} \subseteq Nat
    /\ SpreadWidth > 0
    /\ TargetPut \in Int
    /\ NoCap \notin Caps

VARIABLES
    spot,
    build,      \* the builder at work
    proposal    \* what the last one returned

vars == <<spot, build, proposal>>

NoStrike == 0
Build == [kind : Kinds, step : {"idle", "chain", "puts", "long", "calls"},
          price : Spots,                \* candidate.current_price or td_stock.last
          todo : SUBSET (Dtes \X Strikes),
          short : Strikes \cup {NoStrike}, long : Strikes \cup {NoStrike},
          credit : Int,
          at : Spots]                   \* the market at the short leg's quote
Proposal == [kind : Kinds \cup {"none"},
             strike : Strikes \cup {NoStrike}, long : Strikes \cup {NoStrike},
             value : Int,               \* credit, ask, or maximum loss of a spread
             at : Spots, spot : Spots]  \* the market at the first and the last reading

TypeOK ==
    /\ spot \in Spots
    /\ build \in Build
    /\ proposal \in Proposal

NoProposal(S) == [kind |-> "none", strike |-> NoStrike, long |-> NoStrike, value |-> 0,
                  at |-> S, spot |-> S]

Init ==
    /\ spot \in Spots
    /\ build = [kind |-> "CSP", step |-> "idle", price |-> spot, todo |-> {},
                short |-> NoStrike, long |-> NoStrike, credit |-> 0, at |-> spot]
    /\ proposal = NoProposal(spot)

Dist(i, j) == IF i < j THEN j - i ELSE i - j

\* Quotes.  A call's value follows from the put's.
PutDelta(K)   == CallDelta[<<spot, K>>] - 1000
CallValue(K)  == Put[<<spot, K>>] + spot - K
Credit(v, h)  == IF 2 * h > WideSpread THEN v - h ELSE v
Debit(v, h)   == IF 2 * h > WideSpread THEN v + h ELSE v
Intrinsic(S, K) == IF S > K THEN S - K ELSE 0

InRange(kind, price) ==
    {K \in Strikes :
        /\ 100 * K >= Low[kind] * price
                        - (IF kind = "BullPutSpread" THEN 100 * SpreadWidth ELSE 0)
        /\ 100 * K <= High[kind] * price}

\* The puts are cut to the ones nearest to where the delta is expected.
Candidates(kind, price) ==
    IF kind \in Calls THEN InRange(kind, price)
    ELSE {K \in InRange(kind, price) :
            Cardinality({J \in InRange(kind, price) :
                Dist(100 * J, Centre[kind] * price) < Dist(100 * K, Centre[kind] * price)})
              < MaxCandidates}

TargetDte == (DteMin + DteMax) \div 2

Nearest(dtes) == {d \in dtes : \A e \in dtes : Dist(d, TargetDte) <= Dist(e, TargetDte)}

-----------------------------------------------------------------------------
(***************************************************************************)
(* A build.  The scan has read the price; every wait lets the market move. *)
(***************************************************************************)
Begin(kind) ==
    /\ build.step = "idle"
    /\ build' = [build EXCEPT !.kind = kind, !.step = "chain", !.price = spot,
                             !.short = NoStrike, !.long = NoStrike]
    /\ proposal' = NoProposal(spot)
    /\ UNCHANGED spot

\* An expiry in the middle of the range, the earlier of two for a put; the
\* covered call goes through them all.
ChainArrives ==
    LET kind == build.kind
        strikes == Candidates(kind, build.price)
    IN  /\ build.step = "chain"
        /\ strikes # {}
        /\ \E offered \in SUBSET Dtes :
             LET valid == {d \in offered : DteMin <= d /\ d <= DteMax}
             IN  \E dte \in Nearest(valid) :
                   /\ kind \in Puts => \A d \in Nearest(valid) : dte <= d
                   /\ build' = [build EXCEPT
                        !.step = IF kind \in Puts THEN "puts" ELSE "calls",
                        !.todo = (IF kind = "CoveredCall" THEN valid ELSE {dte}) \X strikes]
        /\ UNCHANGED <<spot, proposal>>

\* No chain, expiry, strike, quote or greeks, a check that fails, or an error:
\* no proposal.  The calls are tried one by one, an error passes one over.
Refuse ==
    /\ \/ build.step \in {"chain", "puts", "long"}
       \/ build.step = "calls" /\ build.todo = {}
    /\ build' = [build EXCEPT !.step = "idle", !.todo = {}]
    /\ UNCHANGED <<spot, proposal>>

Propose(strike, value, at) ==
    /\ build' = [build EXCEPT !.step = "idle", !.todo = {}]
    /\ proposal' = [kind |-> build.kind, strike |-> strike, long |-> build.long, value |-> value,
                    at |-> at, spot |-> spot]
    /\ UNCHANGED spot

\* Of the puts that have greeks, the one with the best delta, however far.
BestPut(K) ==
    /\ build.step = "puts"
    /\ \E greeks \in SUBSET build.todo :
         /\ \E pair \in greeks : pair[2] = K
         /\ \A pair \in greeks :
              Dist(PutDelta(K), TargetPut) <= Dist(PutDelta(pair[2]), TargetPut)

BuildCsp(K, half) ==
    LET value == Put[<<spot, K>>]
    IN  /\ build.kind = "CSP"
        /\ BestPut(K)
        /\ value - half > 0
        /\ \E cap \in Caps \cup {NoCap} :
             /\ cap # NoCap => 100 * K <= cap
             /\ Propose(K, Credit(value, half), build.price)

\* Mutant of LongStrike: whether the chain has the strike is not looked up.
LongStrikeUnchecked(K) == {K - SpreadWidth}

\* One width below, or the closest strike there is below.
LongStrike(K) ==
    IF K - SpreadWidth \in Strikes THEN {K - SpreadWidth}
    ELSE {L \in Strikes : L < K /\ \A J \in Strikes : J < K => J <= L}

ShortLeg(K, half) ==
    LET value == Put[<<spot, K>>]
    IN  /\ build.kind = "BullPutSpread"
        /\ BestPut(K)
        /\ value - half > 0
        /\ \E L \in LongStrike(K) :
             build' = [build EXCEPT !.step = "long", !.short = K, !.long = L,
                                    !.credit = Credit(value, half), !.at = spot]
        /\ UNCHANGED <<spot, proposal>>

\* Mutant of LongLeg: the configured width is taken for the actual one.
LongLegOfWidth(half) ==
    LET credit == build.credit - Debit(Put[<<spot, build.long>>], half)
        loss   == SpreadWidth - credit
    IN  /\ build.step = "long"
        /\ credit > 0
        /\ loss # 0
        /\ 100 * loss <= MaxSpreadLoss
        /\ 100 * credit >= MinCreditPercent * SpreadWidth
        /\ Propose(build.short, loss, build.at)

\* Mutant of LongLeg: the long leg is bought at the bid.
LongLegAtBid(half) ==
    LET credit == build.credit - Credit(Put[<<spot, build.long>>], half)
        width  == build.short - build.long
        loss   == width - credit
    IN  /\ build.step = "long"
        /\ credit > 0
        /\ loss # 0
        /\ 100 * loss <= MaxSpreadLoss
        /\ 100 * credit >= MinCreditPercent * width
        /\ Propose(build.short, loss, build.at)

\* The long leg is quoted three seconds after the short one.
LongLeg(half) ==
    LET value  == Put[<<spot, build.long>>]
        credit == build.credit - Debit(value, half)
        width  == build.short - build.long
        loss   == width - credit
    IN  /\ build.step = "long"
        /\ value + half > 0
        /\ credit > 0
        /\ loss # 0             \* credit / loss is computed
        /\ 100 * loss <= MaxSpreadLoss
        /\ 100 * credit >= MinCreditPercent * width
        /\ Propose(build.short, loss, build.at)

\* Strike by strike within an expiry: covered calls from the money outwards,
\* LEAP calls from the money inwards; nearest expiry first.
NextCall(d, K) ==
    /\ build.step = "calls"
    /\ <<d, K>> \in build.todo
    /\ d \in Nearest({pair[1] : pair \in build.todo})
    /\ \A pair \in build.todo :
          pair[1] = d => IF build.kind = "LEAPCall" THEN pair[2] <= K ELSE K <= pair[2]

\* Mutant of SellCall: any candidate strike with a bid will do.
SellCallAnyDelta(d, K, half) ==
    /\ build.kind = "CoveredCall"
    /\ NextCall(d, K)
    /\ CallValue(K) - half > 0
    /\ Propose(K, CallValue(K) - half, build.price)

SellCall(d, K, half) ==
    /\ build.kind = "CoveredCall"
    /\ NextCall(d, K)
    /\ CallValue(K) - half > 0
    /\ Dist(CallDelta[<<spot, K>>], TargetCall) <= CallTolerance
    /\ Propose(K, CallValue(K) - half, build.price)

\* The intrinsic value is that of the price at the scan.
BuyLeap(d, K, half) ==
    LET ask == CallValue(K) + half
    IN  /\ build.kind = "LEAPCall"
        /\ NextCall(d, K)
        /\ ask > 0
        /\ Dist(CallDelta[<<spot, K>>], TargetLeap) <= LeapTolerance
        /\ 100 * (ask - Intrinsic(build.price, K)) <= MaxExtrinsicPercent * ask
        /\ Propose(K, ask, build.price)

\* No quote or greeks, an error, or a check that fails.
PassOver(d, K) ==
    /\ NextCall(d, K)
    /\ build' = [build EXCEPT !.todo = @ \ {<<d, K>>}]
    /\ UNCHANGED <<spot, proposal>>

Move ==
    /\ spot' \in Spots \ {spot}
    /\ UNCHANGED <<build, proposal>>

-----------------------------------------------------------------------------
Quote(half) ==
    \/ \E K \in Strikes : BuildCsp(K, half) \/ ShortLeg(K, half)
    \/ LongLeg(half)
    \/ \E d \in Dtes, K \in Strikes : SellCall(d, K, half) \/ BuyLeap(d, K, half)

Builder ==
    \/ ChainArrives
    \/ Refuse
    \/ \E half \in Halves : Quote(half)
    \/ \E d \in Dtes, K \in Strikes : PassOver(d, K)

Next ==
    \/ \E kind \in Kinds : Begin(kind)
    \/ Builder
    \/ Move

Spec == Init /\ [][Next]_vars

-----------------------------------------------------------------------------
\* The maximum loss on which a spread is judged is that of its own two legs:
\* it is less than the distance of their strikes, whichever strike the chain
\* had for the long one, and it is above zero, that is, the spread is not taken
\* for a sure gain, unless the underlying rose between the quotes of its legs.
SpreadLossIsReal ==
    proposal.kind = "BullPutSpread" =>
        /\ proposal.value < proposal.strike - proposal.long
        /\ proposal.value <= 0 => proposal.at < proposal.spot

\* A covered call is out of the money when it is proposed, however the
\* price moved since the candidate strikes were chosen: its delta is checked
\* on the same quote.  (A put's is not: the best one is taken.)
SoldCallIsOutOfTheMoney ==
    proposal.kind = "CoveredCall" => proposal.spot < proposal.strike
=============================================================================
