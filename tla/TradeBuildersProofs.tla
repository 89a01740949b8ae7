------------------------- MODULE TradeBuildersProofs -------------------------
(***************************************************************************)
(* Proofs about the trade builders, for any market without free money.     *)
(* SpreadLossIsReal needs to know, while the long leg is waited for, that  *)
(* the legs are the right way round and that the credit is no more than    *)
(* the short leg was worth when it was quoted.                             *)
(***************************************************************************)
EXTENDS TradeBuilders, TLAPS

\* What holds between the two quotes of a spread.
LegsInOrder ==
    build.step = "long" =>
        /\ build.kind = "BullPutSpread"
        /\ build.short \in Strikes /\ build.long \in Strikes
        /\ build.long < build.short
        /\ build.credit <= Put[<<build.at, build.short>>]

ProposalsHold ==
    /\ SpreadLossIsReal
    /\ SoldCallIsOutOfTheMoney

IInv == TypeOK /\ LegsInOrder /\ ProposalsHold

-----------------------------------------------------------------------------
LEMMA PutIsNat ==
    ASSUME NEW S \in Spots, NEW K \in Strikes PROVE Put[<<S, K>>] \in Nat
<1>1. <<S, K>> \in Spots \X Strikes
  OBVIOUS
<1>2. QED
  BY <1>1, MarketAssumption

\* Option values and quotes are integers.
LEMMA Values ==
    ASSUME spot \in Spots, NEW K \in Strikes
    PROVE  /\ Put[<<spot, K>>] \in Nat
           /\ CallDelta[<<spot, K>>] \in 0..1000
           /\ CallValue(K) \in Int
<1>1. spot \in Nat /\ K \in Nat /\ <<spot, K>> \in Spots \X Strikes
  BY MarketAssumption
<1>2. Put[<<spot, K>>] \in Nat /\ CallDelta[<<spot, K>>] \in 0..1000
  BY <1>1, MarketAssumption
<1>3. QED
  BY <1>1, <1>2 DEF CallValue

\* Selling brings no more than the value, buying costs no less.
LEMMA Prices ==
    ASSUME NEW v \in Int, NEW h \in Halves
    PROVE  /\ h \in Nat
           /\ Credit(v, h) \in Int /\ Credit(v, h) <= v
           /\ Debit(v, h) \in Int /\ Debit(v, h) >= v
<1>1. h \in Nat
  BY MarketAssumption
<1>2. QED
  BY <1>1 DEF Credit, Debit, WideSpread

\* At a fixed price of the underlying two puts differ by less than the
\* distance of their strikes, and so do they when the price of the short one
\* was read at a higher price.
LEMMA WidthBoundsValue ==
    ASSUME NEW S \in Spots, NEW R \in Spots, NEW K \in Strikes, NEW L \in Strikes,
           L < K, S <= R
    PROVE  Put[<<R, K>>] - Put[<<S, L>>] < K - L
<1>1. /\ S \in Nat /\ R \in Nat /\ K \in Nat /\ L \in Nat
      /\ Put[<<R, K>>] \in Nat /\ Put[<<S, K>>] \in Nat /\ Put[<<S, L>>] \in Nat
  BY MarketAssumption
<1>2. Put[<<S, K>>] - Put[<<S, L>>] < K - L
  BY NoArbitrageAssumption
<1>3. Put[<<R, K>>] <= Put[<<S, K>>]
  <2>1. CASE S = R
    BY <1>1, <2>1
  <2>2. CASE S < R
    BY <2>2, NoArbitrageAssumption
  <2>3. QED
    BY <1>1, <2>1, <2>2
<1>4. QED
  BY <1>1, <1>2, <1>3

-----------------------------------------------------------------------------
LEMMA InitIInv == Init => IInv
<1> SUFFICES ASSUME Init PROVE IInv
  OBVIOUS
<1>1. build \in Build
  BY DEF Init, Build, Kinds, Puts, Calls
<1>2. proposal \in Proposal /\ proposal.kind = "none"
  BY DEF Init, NoProposal, Proposal
<1>3. QED
  BY <1>1, <1>2 DEF Init, IInv, TypeOK, LegsInOrder, ProposalsHold, SpreadLossIsReal,
     SoldCallIsOutOfTheMoney

LEMMA BeginIInv ==
    ASSUME IInv, NEW kind \in Kinds, Begin(kind) PROVE IInv'
<1>1. build' \in Build /\ build'.step = "chain"
  BY DEF IInv, TypeOK, Begin, Build
<1>2. proposal' \in Proposal /\ proposal'.kind = "none"
  BY DEF IInv, TypeOK, Begin, NoProposal, Proposal
<1>3. QED
  BY <1>1, <1>2 DEF Begin, IInv, TypeOK, LegsInOrder, ProposalsHold, SpreadLossIsReal,
     SoldCallIsOutOfTheMoney

\* The expiries a chain offers and the candidate strikes are those of the chain.
LEMMA ChainIInv ==
    ASSUME IInv, ChainArrives PROVE IInv'
<1>1. Candidates(build.kind, build.price) \subseteq Strikes
  BY DEF Candidates, InRange
<1>2. PICK offered \in SUBSET Dtes :
        \E dte \in Nearest({d \in offered : DteMin <= d /\ d <= DteMax}) :
            build' = [build EXCEPT
                !.step = IF build.kind \in Puts THEN "puts" ELSE "calls",
                !.todo = (IF build.kind = "CoveredCall"
                          THEN {d \in offered : DteMin <= d /\ d <= DteMax} ELSE {dte})
                         \X Candidates(build.kind, build.price)]
  BY DEF ChainArrives
<1>3. PICK dte \in offered :
        build' = [build EXCEPT
            !.step = IF build.kind \in Puts THEN "puts" ELSE "calls",
            !.todo = (IF build.kind = "CoveredCall"
                      THEN {d \in offered : DteMin <= d /\ d <= DteMax} ELSE {dte})
                     \X Candidates(build.kind, build.price)]
  BY <1>2 DEF Nearest
<1> DEFINE dtes == IF build.kind = "CoveredCall"
                   THEN {d \in offered : DteMin <= d /\ d <= DteMax} ELSE {dte}
<1>4. dtes \X Candidates(build.kind, build.price) \in SUBSET (Dtes \X Strikes)
  <2>1. dtes \subseteq Dtes
    OBVIOUS
  <2>2. QED
    BY <1>1, <2>1
<1>5. build' \in Build /\ build'.step # "long"
  <2> HIDE DEF dtes
  <2>1. build' = [build EXCEPT
            !.step = IF build.kind \in Puts THEN "puts" ELSE "calls",
            !.todo = dtes \X Candidates(build.kind, build.price)]
    BY <1>3 DEF dtes
  <2>2. QED
    BY <2>1, <1>4 DEF IInv, TypeOK, Build
<1>6. QED
  BY <1>5 DEF ChainArrives, IInv, TypeOK, LegsInOrder, ProposalsHold, SpreadLossIsReal,
     SoldCallIsOutOfTheMoney

\* A proposal ends the build; what it says is left to the caller.
LEMMA ProposeType ==
    ASSUME IInv, NEW K \in Strikes, NEW v \in Int, NEW S \in Spots, Propose(K, v, S)
    PROVE  /\ TypeOK' /\ LegsInOrder'
           /\ proposal' = [kind |-> build.kind, strike |-> K, long |-> build.long, value |-> v,
                           at |-> S, spot |-> spot]
<1>1. build' \in Build /\ build'.step = "idle"
  BY DEF IInv, TypeOK, Propose, Build
<1>2. proposal' \in Proposal
  BY DEF IInv, TypeOK, Propose, Build, Proposal
<1>3. QED
  BY <1>1, <1>2 DEF Propose, IInv, TypeOK, LegsInOrder

LEMMA ShortLegIInv ==
    ASSUME IInv, NEW K \in Strikes, NEW half \in Halves, ShortLeg(K, half) PROVE IInv'
<1>1. PICK L \in LongStrike(K) :
        build' = [build EXCEPT !.step = "long", !.short = K, !.long = L,
                               !.credit = Credit(Put[<<spot, K>>], half), !.at = spot]
  BY DEF ShortLeg
<1>2. L \in Strikes /\ L < K
  <2>1. K \in Nat /\ SpreadWidth \in Nat /\ SpreadWidth > 0
    BY MarketAssumption, ConfigAssumption
  <2>2. QED
    BY <1>1, <2>1 DEF LongStrike
<1>3. Credit(Put[<<spot, K>>], half) \in Int /\ Credit(Put[<<spot, K>>], half) <= Put[<<spot, K>>]
  BY Values, Prices DEF IInv, TypeOK
<1>4. build' \in Build
  BY <1>1, <1>2, <1>3 DEF IInv, TypeOK, Build
<1>5. LegsInOrder'
  <2>1. /\ build'.kind = "BullPutSpread" /\ build'.short = K /\ build'.long = L
        /\ build'.credit = Credit(Put[<<spot, K>>], half) /\ build'.at = spot
    BY <1>1 DEF ShortLeg, IInv, TypeOK, Build
  <2>2. QED
    BY <2>1, <1>2, <1>3 DEF LegsInOrder
<1>6. QED
  BY <1>4, <1>5 DEF ShortLeg, IInv, TypeOK, ProposalsHold, SpreadLossIsReal,
     SoldCallIsOutOfTheMoney

LEMMA CspIInv ==
    ASSUME IInv, NEW K \in Strikes, NEW half \in Halves, BuildCsp(K, half) PROVE IInv'
<1>1. Credit(Put[<<spot, K>>], half) \in Int
  BY Values, Prices DEF IInv, TypeOK
<1>2. Propose(K, Credit(Put[<<spot, K>>], half), build.price) /\ build.kind = "CSP"
  BY DEF BuildCsp
<1>3. build.price \in Spots
  BY DEF IInv, TypeOK, Build
<1>4. QED
  BY <1>1, <1>2, <1>3, ProposeType DEF IInv, ProposalsHold, SpreadLossIsReal,
     SoldCallIsOutOfTheMoney

LEMMA LongLegIInv ==
    ASSUME IInv, NEW half \in Halves, LongLeg(half) PROVE IInv'
<1> DEFINE K == build.short
           L == build.long
           debit == Debit(Put[<<spot, L>>], half)
           loss == (K - L) - (build.credit - debit)
<1>1. /\ K \in Strikes /\ L \in Strikes /\ L < K
      /\ build.credit \in Int /\ build.credit <= Put[<<build.at, K>>]
      /\ build.at \in Spots /\ spot \in Spots
  BY DEF LongLeg, IInv, TypeOK, Build, LegsInOrder
<1>2. /\ K \in Nat /\ L \in Nat /\ spot \in Nat /\ build.at \in Nat
      /\ Put[<<build.at, K>>] \in Nat /\ Put[<<spot, L>>] \in Nat
  <2>0. Strikes \subseteq Nat /\ Spots \subseteq Nat
    BY MarketAssumption
  <2>1. K \in Nat /\ L \in Nat /\ spot \in Nat /\ build.at \in Nat
    BY <1>1, <2>0
  <2>2. Put[<<build.at, K>>] \in Nat /\ Put[<<spot, L>>] \in Nat
    BY <1>1, PutIsNat
  <2>3. QED
    BY <2>1, <2>2
<1>3. debit \in Int /\ debit >= Put[<<spot, L>>]
  BY <1>2, Prices
<1>4. loss \in Int
  BY <1>1, <1>2, <1>3
<1>5. Propose(K, loss, build.at)
  BY DEF LongLeg
<1>6. spot <= build.at => loss > 0
  <2>1. SUFFICES ASSUME spot <= build.at PROVE loss > 0
    OBVIOUS
  <2>2. Put[<<build.at, K>>] - Put[<<spot, L>>] < K - L
    BY <1>1, <2>1, WidthBoundsValue
  <2>3. QED
    BY <1>1, <1>2, <1>3, <2>2
<1>7. loss < K - L
  <2>1. build.credit - debit > 0
    BY DEF LongLeg
  <2>2. QED
    BY <1>1, <1>2, <1>3, <2>1
<1> HIDE DEF K, L, debit, loss
<1>8. /\ TypeOK' /\ LegsInOrder'
      /\ proposal' = [kind |-> build.kind, strike |-> K, long |-> build.long, value |-> loss,
                      at |-> build.at, spot |-> spot]
  BY <1>1, <1>4, <1>5, ProposeType
<1>9. build.kind = "BullPutSpread" /\ build.long = L
  BY DEF LongLeg, IInv, LegsInOrder, L
<1>10. QED
  BY <1>2, <1>4, <1>6, <1>7, <1>8, <1>9 DEF IInv, ProposalsHold, SpreadLossIsReal,
     SoldCallIsOutOfTheMoney
\* Any delta within the tolerance of the configured one is that of a call
\* out of the money.
LEMMA SellCallIInv ==
    ASSUME IInv, NEW d \in Dtes, NEW K \in Strikes, NEW half \in Halves, SellCall(d, K, half)
    PROVE  IInv'
<1>1. CallValue(K) - half \in Int
  <2>1. spot \in Spots /\ half \in Nat
    BY MarketAssumption DEF IInv, TypeOK
  <2>2. CallValue(K) \in Int
    BY <2>1, Values
  <2>3. QED
    BY <2>1, <2>2
<1>2. /\ Propose(K, CallValue(K) - half, build.price) /\ build.kind = "CoveredCall"
      /\ Dist(CallDelta[<<spot, K>>], TargetCall) <= CallTolerance
  BY DEF SellCall
<1>3. build.price \in Spots /\ spot \in Spots
  BY DEF IInv, TypeOK, Build
<1>4. spot < K
  <2> DEFINE delta == CallDelta[<<spot, K>>]
  <2>1. SUFFICES ASSUME K <= spot PROVE FALSE
    BY <1>3, MarketAssumption
  <2>2. delta >= 500 /\ TargetCall + CallTolerance < 500
    BY <1>3, <2>1, DeltaAssumption
  <2>3. delta \in Nat /\ TargetCall \in Nat /\ CallTolerance \in Nat
    <3>1. delta \in 0..1000
      BY <1>3, Values
    <3>2. QED
      BY <3>1, ConfigAssumption
  <2>4. Dist(delta, TargetCall) <= CallTolerance
    BY <1>2
  <2> HIDE DEF delta
  <2>5. QED
    BY <2>2, <2>3, <2>4 DEF Dist
<1>5. /\ TypeOK' /\ LegsInOrder'
      /\ proposal' = [kind |-> build.kind, strike |-> K, long |-> build.long, value |-> CallValue(K) - half,
                      at |-> build.price, spot |-> spot]
  BY <1>1, <1>2, <1>3, ProposeType
<1>6. QED
  BY <1>2, <1>4, <1>5 DEF IInv, ProposalsHold, SpreadLossIsReal,
     SoldCallIsOutOfTheMoney

LEMMA BuyLeapIInv ==
    ASSUME IInv, NEW d \in Dtes, NEW K \in Strikes, NEW half \in Halves, BuyLeap(d, K, half)
    PROVE  IInv'
<1> DEFINE ask == CallValue(K) + half
<1>1. ask \in Int
  <2>1. spot \in Spots /\ half \in Nat
    BY MarketAssumption DEF IInv, TypeOK
  <2>2. CallValue(K) \in Int
    BY <2>1, Values
  <2>3. QED
    BY <2>1, <2>2
<1>2. Propose(K, ask, build.price) /\ build.kind = "LEAPCall"
  BY DEF BuyLeap
<1>3. build.price \in Spots
  BY DEF IInv, TypeOK, Build
<1> HIDE DEF ask
<1>4. TypeOK' /\ LegsInOrder' /\ proposal'.kind = "LEAPCall"
  BY <1>1, <1>2, <1>3, ProposeType
<1>5. QED
  BY <1>4 DEF IInv, ProposalsHold, SpreadLossIsReal, SoldCallIsOutOfTheMoney

\* The steps that leave the last proposal as it is.
LEMMA OtherIInv ==
    ASSUME IInv, Refuse \/ Move \/ \E d \in Dtes, K \in Strikes : PassOver(d, K)
    PROVE  IInv'
<1>1. CASE Refuse
  <2>1. build' \in Build /\ build'.step = "idle"
    BY <1>1 DEF Refuse, IInv, TypeOK, Build
  <2>2. QED
    BY <1>1, <2>1 DEF Refuse, IInv, TypeOK, LegsInOrder, ProposalsHold, SpreadLossIsReal,
       SoldCallIsOutOfTheMoney
<1>2. CASE Move
  BY <1>2 DEF Move, IInv, TypeOK, LegsInOrder, ProposalsHold, SpreadLossIsReal,
     SoldCallIsOutOfTheMoney
<1>3. ASSUME NEW d \in Dtes, NEW K \in Strikes, PassOver(d, K) PROVE IInv'
  <2>1. build' \in Build /\ build'.step = "calls"
    BY <1>3 DEF PassOver, NextCall, IInv, TypeOK, Build
  <2>2. QED
    BY <1>3, <2>1 DEF PassOver, IInv, TypeOK, LegsInOrder, ProposalsHold, SpreadLossIsReal,
       SoldCallIsOutOfTheMoney
<1>4. QED
  BY <1>1, <1>2, <1>3

LEMMA NextIInv == IInv /\ [Next]_vars => IInv'
<1> SUFFICES ASSUME IInv, [Next]_vars PROVE IInv'
  OBVIOUS
<1>1. ASSUME NEW kind \in Kinds, Begin(kind) PROVE IInv'
  BY <1>1, BeginIInv
<1>2. CASE ChainArrives
  BY <1>2, ChainIInv
<1>3. CASE Refuse \/ Move \/ \E d \in Dtes, K \in Strikes : PassOver(d, K)
  BY <1>3, OtherIInv
<1>4. ASSUME NEW half \in Halves, Quote(half) PROVE IInv'
  BY <1>4, CspIInv, ShortLegIInv, LongLegIInv, SellCallIInv, BuyLeapIInv DEF Quote
<1>5. CASE UNCHANGED vars
  BY <1>5 DEF vars, IInv, TypeOK, LegsInOrder, ProposalsHold, SpreadLossIsReal,
     SoldCallIsOutOfTheMoney
<1>6. QED
  BY <1>1, <1>2, <1>3, <1>4, <1>5 DEF Next, Builder

LEMMA Invariance == Spec => []IInv
<1>1. QED
  BY InitIInv, NextIInv, PTL DEF Spec

-----------------------------------------------------------------------------
\* Every state of the builders is of its type.
THEOREM TypeCorrect == Spec => []TypeOK
<1>1. IInv => TypeOK
  BY DEF IInv
<1>2. QED
  BY <1>1, Invariance, PTL

\* In a market without free money a proposed spread has a maximum loss below
\* the distance of its own strikes and above zero, unless the underlying rose
\* between the quotes of its two legs: build_spread's checks need no other
\* defence against crossed quotes or a chain that lacks a strike.
THEOREM SpreadsCanLose == Spec => []SpreadLossIsReal
<1>1. IInv => SpreadLossIsReal
  BY DEF IInv, ProposalsHold
<1>2. QED
  BY <1>1, Invariance, PTL

\* A proposed covered call is out of the money, for every target delta and
\* tolerance that stay below 0.5 together.
THEOREM CallsOutOfTheMoney == Spec => []SoldCallIsOutOfTheMoney
<1>1. IInv => SoldCallIsOutOfTheMoney
  BY DEF IInv, ProposalsHold
<1>2. QED
  BY <1>1, Invariance, PTL
=============================================================================
