-------------------------- MODULE RiskEngineProofs --------------------------
(***************************************************************************)
(* Proofs about the circuit breaker, for any trades, limits and faults.    *)
(* HaltSurvives is not inductive: what the operator was told must also     *)
(* have reached bot_state, and while a pause is on its way there the       *)
(* process must neither be down nor be clearing one.  NoOrderInBreach      *)
(* needs that a command whose flag `moved' is not set still sees the       *)
(* account value it read and the losses it judged.  The budgets need what  *)
(* the checks found of the open trades, which only become fewer while a    *)
(* command is under way, and the arithmetic of sums over finite sets.      *)
(***************************************************************************)
EXTENDS RiskEngine, FiniteSetTheorems, TLAPS

-----------------------------------------------------------------------------
(***************************************************************************)
(* Sums over finite sets.  SumFunctionOnSet is a CHOOSE of a recursive     *)
(* function; that one exists, and what it returns, follows from a smallest *)
(* set for which it would not: strict inclusion is well-founded on the     *)
(* subsets of a finite set.                                                *)
(***************************************************************************)
PickOf(S) == CHOOSE x \in S : TRUE

\* g sums w over each subset of S, one element after the other.
SumsUp(w, S, g) ==
    g = [s \in SUBSET S |-> IF s = {} THEN 0 ELSE w[PickOf(s)] + g[s \ {PickOf(s)}]]

LEMMA LibrarySum == \A w, S : SumFunctionOnSet(w, S) = (CHOOSE g : SumsUp(w, S, g))[S]
BY DEF SumFunctionOnSet, FoldFunctionOnSet, MapThenFoldSet, SumsUp, PickOf

\* A set of subsets of a finite set has a member none of whose strict subsets
\* is in the set.
LEMMA Least ==
    ASSUME NEW S, IsFiniteSet(S), NEW Bad, Bad \subseteq SUBSET S, Bad # {}
    PROVE  \E U \in Bad : \A V \in SUBSET U : V # U => V \notin Bad
<1>1. FiniteSubsetsOf(S) = SUBSET S
  BY FS_FiniteSubsetsOfFinite
<1>2. IsWellFoundedOn(StrictSubsetOrdering(S), SUBSET S)
  BY <1>1, FS_StrictSubsetOrderingWellFounded
<1>3. PICK U \in Bad : \A V \in Bad : <<V, U>> \notin StrictSubsetOrdering(S)
  BY <1>2, WFMin
<1>. QED
  BY <1>3 DEF StrictSubsetOrdering

LEMMA PickIn == ASSUME NEW S, S # {} PROVE PickOf(S) \in S
BY DEF PickOf

LEMMA SumsUpAt ==
    ASSUME NEW w, NEW S, NEW g, SumsUp(w, S, g), NEW s \in SUBSET S
    PROVE  g[s] = IF s = {} THEN 0 ELSE w[PickOf(s)] + g[s \ {PickOf(s)}]
<1> DEFINE f == [r \in SUBSET S |-> IF r = {} THEN 0 ELSE w[PickOf(r)] + g[r \ {PickOf(r)}]]
<1>1. g = f
  BY DEF SumsUp
<1>2. f[s] = IF s = {} THEN 0 ELSE w[PickOf(s)] + g[s \ {PickOf(s)}]
  OBVIOUS
<1> HIDE DEF f
<1>. QED
  BY <1>1, <1>2

LEMMA SumUnique ==
    ASSUME NEW w, NEW S, IsFiniteSet(S), NEW T \in SUBSET S, NEW g, NEW h,
           SumsUp(w, S, g), SumsUp(w, T, h)
    PROVE  \A s \in SUBSET T : g[s] = h[s]
<1> DEFINE Bad == {s \in SUBSET T : g[s] # h[s]}
<1> SUFFICES ASSUME Bad # {} PROVE FALSE
  OBVIOUS
<1>0. IsFiniteSet(T)
  BY FS_Subset
<1>1. PICK U \in Bad : \A V \in SUBSET U : V # U => V \notin Bad
  <2>1. Bad \subseteq SUBSET T
    OBVIOUS
  <2> HIDE DEF Bad
  <2>. QED
    BY <1>0, <2>1, Least
<1>2. g[U] = IF U = {} THEN 0 ELSE w[PickOf(U)] + g[U \ {PickOf(U)}]
  BY SumsUpAt
<1>3. h[U] = IF U = {} THEN 0 ELSE w[PickOf(U)] + h[U \ {PickOf(U)}]
  BY SumsUpAt
<1>4. U # {}
  BY <1>2, <1>3
<1>5. U \ {PickOf(U)} \in SUBSET U /\ U \ {PickOf(U)} # U
  BY <1>4, PickIn
<1>6. g[U \ {PickOf(U)}] = h[U \ {PickOf(U)}]
  BY <1>1, <1>5
<1>. QED
  BY <1>2, <1>3, <1>4, <1>6

LEMMA SumExists ==
    ASSUME NEW w, NEW S, IsFiniteSet(S) PROVE \E g : SumsUp(w, S, g)
<1> DEFINE Bad == {s \in SUBSET S : ~\E g : SumsUp(w, s, g)}
<1> SUFFICES ASSUME Bad # {} PROVE FALSE
  OBVIOUS
<1>1. PICK U \in Bad : \A V \in SUBSET U : V # U => V \notin Bad
  <2>1. Bad \subseteq SUBSET S
    OBVIOUS
  <2> HIDE DEF Bad
  <2>. QED
    BY <2>1, Least
<1> DEFINE G(s) == CHOOSE g : SumsUp(w, s, g)
           V(s) == G(s)[s]
           h == [s \in SUBSET U |->
                   IF s = {} THEN 0
                   ELSE IF s = U THEN w[PickOf(U)] + V(U \ {PickOf(U)})
                   ELSE V(s)]
<1>2. \A s \in SUBSET U : s # U => SumsUp(w, s, G(s))
  BY <1>1
<1>3. IsFiniteSet(U)
  BY FS_Subset
<1>4. V({}) = 0 \/ U = {}
  <2>1. U # {} => SumsUp(w, {}, G({}))
    BY <1>2
  <2> HIDE DEF G
  <2>. QED
    BY <2>1, SumsUpAt
<1> HIDE DEF G
<1>5. ASSUME NEW s \in SUBSET U, s # {}
      PROVE h[s] = w[PickOf(s)] + h[s \ {PickOf(s)}]
  <2> DEFINE r == s \ {PickOf(s)}
  <2>1. r \in SUBSET s /\ r # s /\ r # U /\ r \in SUBSET U
    BY <1>5, PickIn
  <2>2. h[r] = V(r)
    BY <2>1, <1>4
  <2>3. CASE s = U
    BY <1>5, <2>2, <2>3
  <2>4. CASE s # U
    <3>1. SumsUp(w, s, G(s)) /\ SumsUp(w, r, G(r))
      BY <1>2, <2>1, <2>4
    <3>2. IsFiniteSet(s)
      BY <1>3, FS_Subset
    <3>3. G(s)[r] = G(r)[r]
      BY <2>1, <3>1, <3>2, SumUnique
    <3>4. G(s)[s] = w[PickOf(s)] + G(s)[r]
      BY <1>5, <3>1, SumsUpAt
    <3>. QED
      BY <1>5, <2>2, <2>4, <3>3, <3>4
  <2>. QED
    BY <2>3, <2>4
<1>6. h[{}] = 0
  OBVIOUS
<1>7. SumsUp(w, U, h)
  <2>1. h = [s \in SUBSET U |-> h[s]]
    OBVIOUS
  <2>2. \A s \in SUBSET U : h[s] = IF s = {} THEN 0 ELSE w[PickOf(s)] + h[s \ {PickOf(s)}]
    BY <1>5, <1>6
  <2> HIDE DEF h
  <2>. QED
    BY <2>1, <2>2 DEF SumsUp
<1>. QED
  BY <1>7

LEMMA SumDefined ==
    ASSUME NEW w, NEW S, IsFiniteSet(S)
    PROVE  \A s \in SUBSET S : SumFunctionOnSet(w, s) = (CHOOSE g : SumsUp(w, S, g))[s]
<1> TAKE s \in SUBSET S
<1>1. IsFiniteSet(s)
  BY FS_Subset
<1>2. SumsUp(w, S, CHOOSE g : SumsUp(w, S, g)) /\ SumsUp(w, s, CHOOSE g : SumsUp(w, s, g))
  BY <1>1, SumExists
<1>3. (CHOOSE g : SumsUp(w, S, g))[s] = (CHOOSE g : SumsUp(w, s, g))[s]
  BY <1>2, SumUnique
<1>4. SumFunctionOnSet(w, s) = (CHOOSE g : SumsUp(w, s, g))[s]
  BY LibrarySum
<1>. QED
  BY <1>3, <1>4

\* The sum over no element, and by one element that CHOOSE picks.
LEMMA SumEmpty == \A w : SumFunctionOnSet(w, {}) = 0
<1> TAKE w
<1>1. SumsUp(w, {}, CHOOSE g : SumsUp(w, {}, g))
  BY SumExists, FS_EmptySet
<1>. QED
  BY <1>1, LibrarySum, SumsUpAt

LEMMA SumPick ==
    ASSUME NEW w, NEW S, IsFiniteSet(S), S # {}
    PROVE  SumFunctionOnSet(w, S) = w[PickOf(S)] + SumFunctionOnSet(w, S \ {PickOf(S)})
<1>1. SumsUp(w, S, CHOOSE g : SumsUp(w, S, g))
  BY SumExists
<1>2. S \in SUBSET S /\ S \ {PickOf(S)} \in SUBSET S
  OBVIOUS
<1>. QED
  BY <1>1, <1>2, SumDefined, SumsUpAt

\* A sum of members of a set of numbers closed under addition is a member.
LEMMA SumClosed ==
    ASSUME NEW w, NEW S, IsFiniteSet(S), NEW N \in SUBSET Int,
           0 \in N, \A a, b \in N : a + b \in N, \A x \in S : w[x] \in N
    PROVE  SumFunctionOnSet(w, S) \in N
<1> DEFINE Bad == {s \in SUBSET S : SumFunctionOnSet(w, s) \notin N}
<1> SUFFICES ASSUME Bad # {} PROVE FALSE
  OBVIOUS
<1>1. PICK U \in Bad : \A V \in SUBSET U : V # U => V \notin Bad
  <2>1. Bad \subseteq SUBSET S
    OBVIOUS
  <2> HIDE DEF Bad
  <2>. QED
    BY <2>1, Least
<1>2. U # {}
  BY SumEmpty
<1>3. IsFiniteSet(U)
  BY FS_Subset
<1>4. SumFunctionOnSet(w, U) = w[PickOf(U)] + SumFunctionOnSet(w, U \ {PickOf(U)})
  BY <1>2, <1>3, SumPick
<1>5. PickOf(U) \in U
  BY <1>2, PickIn
<1>6. SumFunctionOnSet(w, U \ {PickOf(U)}) \in N
  BY <1>1, <1>5
<1>7. w[PickOf(U)] \in N
  BY <1>5
<1>. QED
  BY <1>4, <1>6, <1>7

LEMMA SumNat ==
    ASSUME NEW w, NEW S, IsFiniteSet(S), \A x \in S : w[x] \in Nat
    PROVE  SumFunctionOnSet(w, S) \in Nat
<1>1. Nat \in SUBSET Int /\ 0 \in Nat /\ \A a, b \in Nat : a + b \in Nat
  OBVIOUS
<1>. QED
  BY <1>1, SumClosed

LEMMA SumInt ==
    ASSUME NEW w, NEW S, IsFiniteSet(S), \A x \in S : w[x] \in Int
    PROVE  SumFunctionOnSet(w, S) \in Int
<1>1. Int \in SUBSET Int /\ 0 \in Int /\ \A a, b \in Int : a + b \in Int
  OBVIOUS
<1>. QED
  BY <1>1, SumClosed

\* What a window has realized is a number.
LEMMA RealizedType ==
    ASSUME TypeOK, NEW w, NEW d PROVE Realized(w, d) \in Int
<1> DEFINE S == {t \in Booked("closed") : exitDay[t] >= PeriodStart(w, d)}
<1>1. S \subseteq Trades /\ IsFiniteSet(S)
  BY KindAssumption, FS_Subset DEF Booked
<1>2. \A t \in S : pnl[t] \in Int
  BY <1>1 DEF TypeOK
<1> HIDE DEF S
<1>3. SumFunctionOnSet(pnl, S) \in Int
  BY <1>1, <1>2, SumInt
<1>. QED
  BY <1>3 DEF Realized, S

-----------------------------------------------------------------------------
CommandRecs == [step : Steps, trade : Trades \cup {NoTrade},
                pv : AccountValues \cup {0}, day : 0..LastDay,
                loss : [Windows -> Int], moved : BOOLEAN]

\* The idle command, the next check and the flag Moved sets are commands.
LEMMA IdleCmdType == IdleCmd \in CommandRecs
BY CalendarAssumption DEF IdleCmd, NoLoss, CommandRecs, Steps, LossSteps

LEMMA NextCheckType ==
    ASSUME TypeOK, NEW s \in Steps, NextCheck(s) PROVE cmd' \in CommandRecs
<1>1. cmd \in CommandRecs /\ account \in AccountValues \cup {0}
  BY DEF TypeOK, CommandRecs
<1>2. NoLoss \in [Windows -> Int] /\ 0 \in 0..LastDay
  BY CalendarAssumption DEF NoLoss
<1>4. [cmd EXCEPT !.step = s, !.pv = account, !.day = 0, !.loss = NoLoss] \in CommandRecs
  BY <1>1, <1>2 DEF CommandRecs
<1>3. QED
  BY <1>4, IdleCmdType DEF NextCheck

\* A sum read goes into the command, which turns to the next one.
LEMMA ReadLossStep ==
    ASSUME TypeOK, NEW w \in Windows, ReadLoss(w)
    PROVE  /\ cmd.step = w
           /\ \E s \in {"weekly", "monthly", "marks"} :
                /\ cmd' = [cmd EXCEPT !.loss = [cmd.loss EXCEPT ![w] = Realized(w, cmd.day)],
                                      !.step = s]
                /\ s = IF w = "daily" THEN "weekly" ELSE IF w = "weekly" THEN "monthly" ELSE "marks"
<1>1. w \in {"daily", "weekly", "monthly"}
  BY DEF Windows
<1>. QED
  BY <1>1 DEF ReadLoss

LEMMA MovedType ==
    ASSUME TypeOK, Moved PROVE cmd' \in CommandRecs
<1>1. cmd \in CommandRecs
  BY DEF TypeOK, CommandRecs
<1>2. [cmd EXCEPT !.moved = TRUE] \in CommandRecs
  BY <1>1 DEF CommandRecs
<1>3. QED
  BY <1>1, <1>2 DEF Moved

LEMMA SpendType ==
    ASSUME TypeOK, NEW f \in Faults, Spend(f) PROVE used' \in [Faults -> Nat]
BY DEF TypeOK, Spend

LEMMA InitType == Init => TypeOK
<1> SUFFICES ASSUME Init PROVE TypeOK
  OBVIOUS
<1>1. cmd \in CommandRecs
  BY IdleCmdType DEF Init
<1>2. limit \in [Windows -> Nat] /\ used \in [Faults -> Nat]
  BY LimitAssumption DEF Init
<1>3. today \in 0..LastDay /\ exitDay \in [Trades -> 0..LastDay]
  BY CalendarAssumption DEF Init
<1>4. pnl \in [Trades -> Int] /\ mark \in [Trades -> Int]
  BY DEF Init
<1>5. status \in [Trades -> {"none", "working", "open", "closed", "void"}]
  BY DEF Init
<1>6. QED
  BY <1>1, <1>2, <1>3, <1>4, <1>5 DEF Init, TypeOK, CommandRecs

LEMMA CommandType ==
    ASSUME TypeOK, Command PROVE TypeOK'
<1> USE DEF TypeOK, bookVars, worldVars
<1>1. ASSUME NEW t \in Trades, Approve(t) PROVE TypeOK'
  <2>1. [IdleCmd EXCEPT !.step = "daily", !.trade = t, !.pv = account, !.day = today] \in CommandRecs
    BY IdleCmdType DEF CommandRecs, Steps, LossSteps
  <2>2. QED
    BY <1>1, <2>1 DEF Approve, CommandRecs
<1>2. CASE CheckLoss
  <2>1. cmd' \in CommandRecs /\ paused' \in BOOLEAN
    <3>1. [IdleCmd EXCEPT !.step = "persist"] \in CommandRecs
      BY IdleCmdType DEF CommandRecs, Steps, LossSteps
    <3>2. CASE Breaches(cmd.pv, cmd.loss, Marks)
      BY <1>2, <3>1, <3>2 DEF CheckLoss
    <3>3. CASE ~Breaches(cmd.pv, cmd.loss, Marks)
      <4>1. NextCheck("exposure") /\ paused' = paused
        BY <1>2, <3>3 DEF CheckLoss
      <4>2. QED
        BY <4>1, NextCheckType DEF Steps, LossSteps
    <3>4. QED
      BY <3>2, <3>3
  <2>2. QED
    BY <1>2, <2>1 DEF CheckLoss, CommandRecs
<1>3. CASE CheckExposure
  <2>1. cmd' \in CommandRecs
    BY <1>3, IdleCmdType, NextCheckType DEF CheckExposure, Steps, LossSteps
  <2>2. QED
    BY <1>3, <2>1 DEF CheckExposure, CommandRecs
<1>4. CASE CheckCapacity
  <2>1. cmd \in CommandRecs => [cmd EXCEPT !.step = "building"] \in CommandRecs
    BY DEF CommandRecs, Steps, LossSteps
  <2>2. cmd' \in CommandRecs
    BY <1>4, <2>1, IdleCmdType DEF CheckCapacity, CommandRecs
  <2>3. QED
    BY <1>4, <2>2 DEF CheckCapacity, CommandRecs
<1>5. CASE Submit \/ SubmitRefused
  BY <1>5, IdleCmdType DEF Submit, SubmitRefused, CommandRecs
<1>6. CASE Pause \/ PersistPause
  <2>1. \A s \in Steps : [IdleCmd EXCEPT !.step = s] \in CommandRecs
    BY IdleCmdType DEF CommandRecs
  <2>2. \/ cmd' = [IdleCmd EXCEPT !.step = "persist"]
        \/ cmd' = [IdleCmd EXCEPT !.step = "notify"]
    BY <1>6 DEF Pause, PersistPause
  <2>3. cmd' \in CommandRecs
    BY <2>1, <2>2 DEF Steps, LossSteps
  <2>4. QED
    BY <1>6, <2>3 DEF Pause, PersistPause, CommandRecs
<1>7. CASE NotifyPause \/ ClearPause
  BY <1>7, IdleCmdType DEF NotifyPause, ClearPause, CommandRecs
<1>8. CASE Resume
  <2>1. \A s \in Steps : [IdleCmd EXCEPT !.step = s] \in CommandRecs
    BY IdleCmdType DEF CommandRecs
  <2>2. QED
    BY <1>8, <2>1 DEF Resume, CommandRecs, Steps, LossSteps
<1>9. CASE SetConfig
  BY <1>9, LimitAssumption DEF SetConfig, Windows
<1>10. ASSUME NEW w \in Windows, ReadLoss(w) PROVE TypeOK'
  <2>1. cmd \in CommandRecs /\ Realized(w, cmd.day) \in Int
    BY RealizedType DEF CommandRecs
  <2> DEFINE sums == [cmd.loss EXCEPT ![w] = Realized(w, cmd.day)]
  <2>3. PICK s \in {"weekly", "monthly", "marks"} : cmd' = [cmd EXCEPT !.loss = sums, !.step = s]
    BY <1>10, ReadLossStep
  <2>4. sums \in [Windows -> Int] /\ s \in Steps
    BY <2>1 DEF CommandRecs, Steps, LossSteps
  <2> HIDE DEF sums
  <2>2. cmd' \in CommandRecs
    BY <2>1, <2>3, <2>4 DEF CommandRecs
  <2>. QED
    BY <1>10, <2>2 DEF ReadLoss, CommandRecs
<1>11. QED
  BY <1>1, <1>2, <1>3, <1>4, <1>5, <1>6, <1>7, <1>8, <1>9, <1>10 DEF Command, Check

LEMMA FaultType ==
    ASSUME TypeOK, Fault PROVE TypeOK'
<1> USE DEF TypeOK, bookVars, worldVars
<1>1. CASE PersistFails
  <2>1. [IdleCmd EXCEPT !.step = "notify"] \in CommandRecs
    BY IdleCmdType DEF CommandRecs, Steps, LossSteps
  <2>2. used' \in [Faults -> Nat]
    BY <1>1, SpendType DEF PersistFails, Faults
  <2>3. QED
    BY <1>1, <2>1, <2>2 DEF PersistFails, CommandRecs
<1>2. CASE ClearFails
  <2>1. used' \in [Faults -> Nat]
    BY <1>2, SpendType DEF ClearFails, Faults
  <2>2. QED
    BY <1>2, <2>1, IdleCmdType DEF ClearFails, CommandRecs
<1>3. CASE Crash
  <2>1. used' \in [Faults -> Nat]
    BY <1>3, SpendType DEF Crash, Faults
  <2>2. QED
    BY <1>3, <2>1, IdleCmdType, LimitAssumption DEF Crash, CommandRecs
<1>4. QED
  BY <1>1, <1>2, <1>3 DEF Fault

LEMMA OutsideType ==
    ASSUME TypeOK, Outside PROVE TypeOK'
<1> USE DEF TypeOK, bookVars, worldVars
<1>1. ASSUME NEW t \in Trades, Fill(t) PROVE TypeOK'
  BY <1>1 DEF Fill
<1>2. ASSUME NEW t \in Trades, Mark(t) PROVE TypeOK'
  <2>1. cmd' \in CommandRecs
    BY <1>2, MovedType DEF Mark, CommandRecs
  <2>2. mark' \in [Trades -> Int]
    BY <1>2, ValueAssumption DEF Mark
  <2>3. QED
    BY <1>2, <2>1, <2>2 DEF Mark, CommandRecs
<1>3. ASSUME NEW t \in Trades, Close(t) PROVE TypeOK'
  <2>1. cmd' \in CommandRecs
    BY <1>3, MovedType DEF Close
  <2>2. exitDay' \in [Trades -> 0..LastDay]
    BY <1>3 DEF Close
  <2>3. pnl' \in [Trades -> Int] /\ mark' \in [Trades -> Int]
    BY <1>3, ValueAssumption DEF Close
  <2>4. status' \in [Trades -> {"none", "working", "open", "closed", "void"}]
    BY <1>3 DEF Close
  <2>5. QED
    BY <1>3, <2>1, <2>2, <2>3, <2>4 DEF Close, CommandRecs
<1>4. CASE PollStart
  BY <1>4 DEF PollStart, Booked
<1>5. CASE AccountMoves
  BY <1>5, MovedType DEF AccountMoves, CommandRecs
<1>6. CASE Midnight
  BY <1>6, MovedType, CalendarAssumption DEF Midnight, CommandRecs
<1>7. CASE Restart
  BY <1>7 DEF Restart
<1>8. QED
  BY <1>1, <1>2, <1>3, <1>4, <1>5, <1>6, <1>7 DEF Outside

\* Type correctness of the risk engine and of the commands that consult it.
THEOREM TypeCorrect == Spec => []TypeOK
<1>1. ASSUME TypeOK, [Next]_vars PROVE TypeOK'
  <2>1. CASE Command
    BY <1>1, <2>1, CommandType
  <2>2. CASE Fault
    BY <1>1, <2>2, FaultType
  <2>3. CASE Outside
    BY <1>1, <2>3, OutsideType
  <2>4. CASE UNCHANGED vars
    BY <1>1, <2>4 DEF TypeOK, vars, bookVars, worldVars
  <2>5. QED
    BY <1>1, <2>1, <2>2, <2>3, <2>4 DEF Next
<1>2. QED
  BY <1>1, InitType, PTL DEF Spec

-----------------------------------------------------------------------------
\* A pause on its way to bot_state holds in memory; one the operator knows of
\* has arrived, unless a persist failed; and none is announced while a resume
\* clears the saved one.
PauseReachesState ==
    /\ ~up => cmd.step = "idle"
    /\ cmd.step \in {"persist", "notify"} => paused
    /\ cmd.step = "clear" => ~halted
    /\ used["persist"] = 0 => (cmd.step = "notify" => saved)
    /\ used["persist"] = 0 => (halted => saved)

HaltInv == PauseReachesState /\ HaltSurvives

LEMMA InitHalt == Init => HaltInv
BY DEF Init, HaltInv, PauseReachesState, HaltSurvives, IdleCmd

LEMMA NextCheckStep ==
    ASSUME TypeOK, NEW s \in Steps, NextCheck(s)
    PROVE  cmd'.step \in {"idle", s}
BY DEF TypeOK, NextCheck, IdleCmd

LEMMA CommandHalt ==
    ASSUME TypeOK, HaltInv, Command PROVE HaltInv'
<1> USE DEF TypeOK, HaltInv, PauseReachesState, HaltSurvives, bookVars,
            worldVars, IdleCmd
<1>1. ASSUME NEW t \in Trades, Approve(t) PROVE HaltInv'
  BY <1>1 DEF Approve
<1>2. CASE CheckLoss
  <2>1. CASE Breaches(cmd.pv, cmd.loss, Marks)
    BY <1>2, <2>1 DEF CheckLoss
  <2>2. CASE ~Breaches(cmd.pv, cmd.loss, Marks)
    <3>1. cmd'.step \in {"idle", "exposure"} /\ cmd.step = "marks"
      BY <1>2, <2>2, NextCheckStep DEF CheckLoss, Steps, LossSteps
    <3>2. QED
      BY <1>2, <2>2, <3>1 DEF CheckLoss
  <2>3. QED
    BY <2>1, <2>2
<1>3. CASE CheckExposure
  <2>1. cmd'.step \in {"idle", "capacity"} /\ cmd.step = "exposure"
    BY <1>3, NextCheckStep DEF CheckExposure, Steps, LossSteps
  <2>2. QED
    BY <1>3, <2>1 DEF CheckExposure
<1>4. CASE CheckCapacity
  BY <1>4 DEF CheckCapacity
<1>5. CASE Submit \/ SubmitRefused
  BY <1>5 DEF Submit, SubmitRefused
<1>6. CASE Pause
  BY <1>6 DEF Pause
<1>7. CASE PersistPause
  BY <1>7 DEF PersistPause
<1>8. CASE NotifyPause
  BY <1>8 DEF NotifyPause
<1>9. CASE Resume
  BY <1>9 DEF Resume
<1>10. CASE ClearPause
  BY <1>10 DEF ClearPause
<1>11. CASE SetConfig
  BY <1>11 DEF SetConfig
<1>12. ASSUME NEW w \in Windows, ReadLoss(w) PROVE HaltInv'
  <2>1. cmd.step = w /\ cmd'.step \in {"weekly", "monthly", "marks"}
    BY <1>12, ReadLossStep
  <2>. QED
    BY <1>12, <2>1 DEF ReadLoss, Windows
<1>13. QED
  BY <1>1, <1>2, <1>3, <1>4, <1>5, <1>6, <1>7, <1>8, <1>9, <1>10, <1>11, <1>12
  DEF Command, Check

LEMMA FaultHalt ==
    ASSUME TypeOK, HaltInv, Fault PROVE HaltInv'
<1> USE DEF TypeOK, HaltInv, PauseReachesState, HaltSurvives, bookVars,
            worldVars, IdleCmd, Spend, Faults
<1>1. CASE PersistFails
  BY <1>1 DEF PersistFails
<1>2. CASE ClearFails
  BY <1>2 DEF ClearFails
<1>3. CASE Crash
  BY <1>3 DEF Crash
<1>4. QED
  BY <1>1, <1>2, <1>3 DEF Fault

LEMMA OutsideHalt ==
    ASSUME TypeOK, HaltInv, Outside PROVE HaltInv'
<1> USE DEF TypeOK, HaltInv, PauseReachesState, HaltSurvives, bookVars,
            worldVars
<1>1. ASSUME Moved PROVE cmd'.step = cmd.step
  BY <1>1 DEF Moved
<1>2. ASSUME NEW t \in Trades, Fill(t) \/ Mark(t) \/ Close(t) PROVE HaltInv'
  BY <1>1, <1>2 DEF Fill, Mark, Close
<1>3. CASE PollStart
  BY <1>3 DEF PollStart
<1>4. CASE AccountMoves \/ Midnight
  BY <1>1, <1>4 DEF AccountMoves, Midnight
<1>5. CASE Restart
  BY <1>5 DEF Restart
<1>6. QED
  BY <1>2, <1>3, <1>4, <1>5 DEF Outside

LEMMA HaltInvHolds == Spec => []HaltInv
<1>1. ASSUME TypeOK, HaltInv, [Next]_vars PROVE HaltInv'
  <2>1. CASE Command
    BY <1>1, <2>1, CommandHalt
  <2>2. CASE Fault
    BY <1>1, <2>2, FaultHalt
  <2>3. CASE Outside
    BY <1>1, <2>3, OutsideHalt
  <2>4. CASE UNCHANGED vars
    BY <1>1, <2>4 DEF HaltInv, PauseReachesState, HaltSurvives, vars, bookVars,
                      worldVars
  <2>5. QED
    BY <1>1, <2>1, <2>2, <2>3, <2>4 DEF Next
<1>2. QED
  BY <1>1, InitHalt, TypeCorrect, PTL DEF Spec

\* Once the operator has been told of a pause the running bot is paused until
\* /resume, over any number of restarts, if no persist of bot_state failed.
THEOREM HaltSurvivesHolds == Spec => []HaltSurvives
<1>1. HaltInv => HaltSurvives
  BY DEF HaltInv
<1>2. QED
  BY <1>1, HaltInvHolds, PTL

-----------------------------------------------------------------------------
(***************************************************************************)
(* NoOrderInBreach.  The account value a check works with and the sums it  *)
(* has read are the current ones, and past the loss check no window is in  *)
(* breach, until something moves: the sums need no arithmetic, only that   *)
(* nothing they read changed.                                              *)
(***************************************************************************)
PastLoss == {"exposure", "capacity", "building"}

\* The windows whose sum the check under way has read.
WasRead(w) ==
    \/ cmd.step = "marks"
    \/ cmd.step = "monthly" /\ w \in {"daily", "weekly"}
    \/ cmd.step = "weekly" /\ w = "daily"

SumsAreCurrent ==
    /\ cmd.day = today
    /\ \A w \in Windows : WasRead(w) => cmd.loss[w] = Realized(w, today)

PictureIsCurrent ==
    /\ cmd.step \in PastLoss \cup LossSteps => cmd.moved \/ cmd.pv = account
    /\ cmd.step \in LossSteps => cmd.moved \/ SumsAreCurrent
    /\ cmd.step \in PastLoss => cmd.moved \/ ~Breached(account)

\* What the loss windows are computed from.
lossVars == <<exitDay, pnl, mark, account, today, limit>>

LEMMA SameRealized ==
    ASSUME UNCHANGED lossVars, Booked("closed")' = Booked("closed")
    PROVE  \A w, d : Realized(w, d)' = Realized(w, d)
<1> TAKE w, d
<1>1. PeriodStart(w, d)' = PeriodStart(w, d)
  BY DEF PeriodStart
<1>2. {t \in Booked("closed") : exitDay[t] >= PeriodStart(w, d)}'
        = {t \in Booked("closed") : exitDay[t] >= PeriodStart(w, d)}
  BY <1>1 DEF lossVars
<1>. QED
  BY <1>2 DEF Realized, lossVars

\* Without a closed trade more, and with the same figures, a breach stays one.
LEMMA SameLosses ==
    ASSUME UNCHANGED lossVars, Booked("closed")' = Booked("closed")
    PROVE  Breached(account)' <=> Breached(account)
<1>1. [w \in Windows |-> Realized(w, today)]' = [w \in Windows |-> Realized(w, today)]
  <2>1. \A w \in Windows : Realized(w, today)' = Realized(w, today)
    BY SameRealized DEF lossVars
  <2>. QED
    BY <2>1
<1>2. Marks' = Marks /\ account' = account /\ limit' = limit
  BY DEF Marks, lossVars
<1> DEFINE sums == [w \in Windows |-> Realized(w, today)]
<1>3. sums' = sums
  BY <1>1
<1> HIDE DEF sums
<1>4. Breaches(account, sums, Marks)' <=> Breaches(account, sums, Marks)
  BY <1>2, <1>3 DEF Breaches
<1>. QED
  BY <1>4 DEF Breached, sums

\* A step that leaves the command and all it was told alone.
LEMMA SamePicture ==
    ASSUME PictureIsCurrent, UNCHANGED <<lossVars, cmd>>, Booked("closed")' = Booked("closed")
    PROVE  PictureIsCurrent'
<1>1. Breached(account)' <=> Breached(account)
  BY SameLosses
<1>2. SumsAreCurrent => SumsAreCurrent'
  BY SameRealized DEF SumsAreCurrent, WasRead, lossVars
<1>. QED
  BY <1>1, <1>2 DEF PictureIsCurrent, lossVars

LEMMA MovedPicture ==
    ASSUME TypeOK, Moved
    PROVE  PictureIsCurrent'
<1>1. cmd.step \in PastLoss \cup LossSteps => cmd'.moved
  BY DEF TypeOK, Moved, PastLoss, LossSteps
<1>2. cmd.step \notin PastLoss \cup LossSteps => cmd' = cmd
  BY DEF Moved, PastLoss, LossSteps
<1>. QED
  BY <1>1, <1>2 DEF PictureIsCurrent, TypeOK

\* The next check reads the account value anew.
LEMMA NextCheckPicture ==
    ASSUME TypeOK, UNCHANGED <<status, lossVars>>, NEW s \in PastLoss, NextCheck(s),
           cmd.moved \/ ~Breached(account)
    PROVE  PictureIsCurrent'
<1>1. Breached(account)' <=> Breached(account)
  BY SameLosses DEF Booked
<1>2. CASE account = 0
  BY <1>2 DEF NextCheck, IdleCmd, PictureIsCurrent, PastLoss, LossSteps
<1>3. CASE account # 0
  <2>1. cmd' = [cmd EXCEPT !.step = s, !.pv = account, !.day = 0, !.loss = NoLoss]
    BY <1>3 DEF NextCheck
  <2>2. cmd'.step = s /\ cmd'.pv = account /\ cmd'.moved = cmd.moved
    BY <2>1 DEF TypeOK
  <2>. QED
    BY <2>2, <1>1 DEF PictureIsCurrent, PastLoss, LossSteps, lossVars
<1>. QED
  BY <1>2, <1>3

\* A window read while nothing moved is as it is now.
LEMMA ReadPicture ==
    ASSUME TypeOK, PictureIsCurrent, NEW w \in Windows, ReadLoss(w)
    PROVE  PictureIsCurrent'
<1>1. UNCHANGED <<lossVars, status>>
  BY DEF ReadLoss, lossVars, bookVars, worldVars
<1>2. \A v, d : Realized(v, d)' = Realized(v, d)
  BY <1>1, SameRealized DEF Booked
<1>t. cmd \in CommandRecs /\ w \in {"daily", "weekly", "monthly"}
  BY DEF TypeOK, CommandRecs, Windows
<1>3. PICK s \in {"weekly", "monthly", "marks"} :
        /\ cmd' = [cmd EXCEPT !.loss = [cmd.loss EXCEPT ![w] = Realized(w, cmd.day)], !.step = s]
        /\ s = IF w = "daily" THEN "weekly" ELSE IF w = "weekly" THEN "monthly" ELSE "marks"
  BY ReadLossStep
<1>4. /\ cmd'.step = s /\ cmd'.pv = cmd.pv /\ cmd'.day = cmd.day /\ cmd'.moved = cmd.moved
      /\ cmd'.loss = [cmd.loss EXCEPT ![w] = Realized(w, cmd.day)] /\ cmd.step = w
  BY <1>3, <1>t, ReadLossStep DEF CommandRecs
<1>5. SumsAreCurrent => SumsAreCurrent'
  <2> SUFFICES ASSUME SumsAreCurrent, NEW v \in Windows, WasRead(v)'
               PROVE  cmd'.loss[v] = Realized(v, today)
    BY <1>1, <1>2, <1>4 DEF SumsAreCurrent, lossVars
  <2>1. cmd.loss \in [Windows -> Int]
    BY <1>t DEF CommandRecs
  <2>2. v = w \/ WasRead(v)
    BY <1>3, <1>4, <1>t DEF WasRead, Windows
  <2>. QED
    BY <2>1, <2>2, <1>4 DEF SumsAreCurrent
<1>. QED
  BY <1>1, <1>4, <1>5, <1>t DEF PictureIsCurrent, PastLoss, LossSteps, lossVars

LEMMA CommandPicture ==
    ASSUME TypeOK, PictureIsCurrent, Command
    PROVE  PictureIsCurrent'
<1> USE DEF bookVars, worldVars
<1>1. ASSUME NEW t \in Trades, Approve(t) PROVE PictureIsCurrent'
  BY <1>1 DEF Approve, IdleCmd, PictureIsCurrent, SumsAreCurrent, WasRead, PastLoss, LossSteps
<1>2. CASE CheckLoss
  <2>1. CASE Breaches(cmd.pv, cmd.loss, Marks)
    BY <1>2, <2>1 DEF CheckLoss, IdleCmd, PictureIsCurrent, PastLoss, LossSteps
  <2>2. CASE ~Breaches(cmd.pv, cmd.loss, Marks)
    <3>1. NextCheck("exposure") /\ UNCHANGED <<status, lossVars>>
      BY <1>2, <2>2 DEF CheckLoss, lossVars
    <3>2. cmd.moved \/ ~Breached(account)
      <4> SUFFICES ASSUME ~cmd.moved PROVE ~Breached(account)
        OBVIOUS
      <4>1. cmd.step = "marks" /\ cmd.pv = account /\ SumsAreCurrent
        BY <1>2 DEF CheckLoss, PictureIsCurrent, LossSteps
      <4>2. cmd.loss = [w \in Windows |-> Realized(w, today)]
        BY <4>1 DEF SumsAreCurrent, WasRead, TypeOK
      <4>. QED
        BY <2>2, <4>1, <4>2 DEF Breached
    <3>. QED
      BY <3>1, <3>2, NextCheckPicture DEF PastLoss, LossSteps
  <2>. QED
    BY <2>1, <2>2
<1>3. CASE CheckExposure
  <2>1. UNCHANGED <<status, lossVars>> /\ (cmd.moved \/ ~Breached(account))
    BY <1>3 DEF CheckExposure, lossVars, PictureIsCurrent, PastLoss, LossSteps
  <2>2. cmd' = IdleCmd \/ NextCheck("capacity")
    BY <1>3 DEF CheckExposure
  <2>3. cmd' = IdleCmd => PictureIsCurrent'
    BY DEF IdleCmd, PictureIsCurrent, PastLoss, LossSteps
  <2>. QED
    BY <2>1, <2>2, <2>3, NextCheckPicture DEF PastLoss, LossSteps
<1>4. CASE CheckCapacity
  <2>1. Breached(account)' <=> Breached(account)
    BY <1>4, SameLosses DEF CheckCapacity, lossVars, Booked
  <2>2. cmd' = IdleCmd \/ cmd' = [cmd EXCEPT !.step = "building"]
    BY <1>4 DEF CheckCapacity
  <2>3. cmd' = IdleCmd => PictureIsCurrent'
    BY DEF IdleCmd, PictureIsCurrent, PastLoss, LossSteps
  <2>4. cmd' = [cmd EXCEPT !.step = "building"] =>
          cmd'.step = "building" /\ cmd'.pv = cmd.pv /\ cmd'.moved = cmd.moved
    BY DEF TypeOK
  <2>. QED
    BY <1>4, <2>1, <2>2, <2>3, <2>4 DEF CheckCapacity, PictureIsCurrent, PastLoss, LossSteps
<1>7. ASSUME NEW w \in Windows, ReadLoss(w) PROVE PictureIsCurrent'
  BY <1>7, ReadPicture
<1>5. CASE cmd'.step \notin PastLoss \cup LossSteps
  BY <1>5 DEF PictureIsCurrent
<1>6. Submit \/ SubmitRefused \/ Pause \/ PersistPause \/ NotifyPause \/ Resume \/ ClearPause \/ SetConfig
        => cmd'.step \notin PastLoss \cup LossSteps
  BY DEF Submit, SubmitRefused, Pause, PersistPause, NotifyPause, Resume, ClearPause, SetConfig,
         IdleCmd, PastLoss, LossSteps
<1>. QED
  BY <1>1, <1>2, <1>3, <1>4, <1>5, <1>6, <1>7 DEF Command, Check

LEMMA OtherPicture ==
    ASSUME TypeOK, HaltInv, PictureIsCurrent, Fault \/ Outside
    PROVE  PictureIsCurrent'
<1> USE DEF bookVars, worldVars
<1>1. CASE Fault
  BY <1>1 DEF Fault, PersistFails, ClearFails, Crash, IdleCmd, PictureIsCurrent, PastLoss, LossSteps
<1>2. ASSUME NEW t \in Trades, Fill(t) PROVE PictureIsCurrent'
  <2>1. Booked("closed")' = Booked("closed")
    BY <1>2 DEF Fill, Booked, TypeOK
  <2>. QED
    BY <1>2, <2>1, SamePicture DEF Fill, lossVars
<1>3. ASSUME NEW t \in Trades, Mark(t) PROVE PictureIsCurrent'
  <2>1. CASE UNCHANGED <<mark, cmd>>
    BY <1>3, <2>1, SamePicture DEF Mark, lossVars, Booked
  <2>2. CASE Moved
    BY <2>2, MovedPicture
  <2>. QED
    BY <1>3, <2>1, <2>2 DEF Mark
<1>4. ASSUME NEW t \in Trades, Close(t) PROVE PictureIsCurrent'
  BY <1>4, MovedPicture DEF Close
<1>5. CASE AccountMoves \/ Midnight
  BY <1>5, MovedPicture DEF AccountMoves, Midnight
<1>6. CASE PollStart
  BY <1>6, SamePicture DEF PollStart, lossVars, Booked
<1>7. CASE Restart
  <2>1. cmd' = cmd /\ cmd.step = "idle"
    BY <1>7 DEF Restart, HaltInv, PauseReachesState
  <2>. QED
    BY <2>1 DEF PictureIsCurrent, PastLoss, LossSteps
<1>. QED
  BY <1>1, <1>2, <1>3, <1>4, <1>5, <1>6, <1>7 DEF Outside

\* No order is sent while a loss window is in breach unless the account, a
\* mark, a close or midnight moved after /approve began its checks, for any
\* limits, values and faults.
THEOREM SentOutOfBreach == Spec => NoOrderInBreach
<1>1. Init => PictureIsCurrent
  BY DEF Init, IdleCmd, PictureIsCurrent, PastLoss, LossSteps
<1>2. TypeOK /\ HaltInv /\ PictureIsCurrent /\ [Next]_vars => PictureIsCurrent'
  <2> SUFFICES ASSUME TypeOK, HaltInv, PictureIsCurrent, [Next]_vars
               PROVE  PictureIsCurrent'
    OBVIOUS
  <2>1. CASE UNCHANGED vars
    BY <2>1, SamePicture DEF vars, bookVars, worldVars, lossVars, Booked
  <2>. QED
    BY <2>1, CommandPicture, OtherPicture DEF Next
<1>3. TypeOK /\ PictureIsCurrent /\ [Next]_vars
        => [\A t \in Trades :
              status[t] = "none" /\ status'[t] = "working" /\ Breached(account)
                  => cmd.moved]_vars
  <2> SUFFICES ASSUME TypeOK, PictureIsCurrent, Next, NEW t \in Trades,
                      status[t] = "none", status'[t] = "working", Breached(account)
               PROVE  cmd.moved
    OBVIOUS
  <2> USE DEF bookVars, worldVars
  <2>1. CASE Submit
    BY <2>1 DEF Submit, PictureIsCurrent, PastLoss, LossSteps
  <2>2. Command /\ ~Submit => UNCHANGED status
    BY DEF Command, Check, Approve, ReadLoss, CheckLoss, CheckExposure, CheckCapacity, SubmitRefused,
           Pause, PersistPause, NotifyPause, Resume, ClearPause, SetConfig
  <2>3. Fault => UNCHANGED status
    BY DEF Fault, PersistFails, ClearFails, Crash
  <2>4. ASSUME NEW s \in Trades, Fill(s) \/ Close(s) PROVE status'[t] # "working" \/ status[t] = "working"
    BY <2>4 DEF Fill, Close, TypeOK
  <2>5. Outside => UNCHANGED status \/ \E s \in Trades : Fill(s) \/ Close(s)
    BY DEF Outside, Mark, PollStart, AccountMoves, Midnight, Restart
  <2>. QED
    BY <2>1, <2>2, <2>3, <2>4, <2>5 DEF Next
<1>. QED
  BY <1>1, <1>2, <1>3, HaltInvHolds, TypeCorrect, PTL DEF Spec, NoOrderInBreach

-----------------------------------------------------------------------------
(***************************************************************************)
(* The budgets: sums of what trades take, element by element.              *)
(***************************************************************************)
LEMMA SumRemove ==
    ASSUME NEW w, NEW S, IsFiniteSet(S), \A x \in S : w[x] \in Nat, NEW y \in S
    PROVE  SumFunctionOnSet(w, S) = w[y] + SumFunctionOnSet(w, S \ {y})
<1> DEFINE Sum(s) == SumFunctionOnSet(w, s)
           Bad == {s \in SUBSET S : \E x \in s : Sum(s) # w[x] + Sum(s \ {x})}
<1> SUFFICES ASSUME Bad # {} PROVE FALSE
  OBVIOUS
<1>1. PICK U \in Bad : \A V \in SUBSET U : V # U => V \notin Bad
  <2>1. Bad \subseteq SUBSET S
    OBVIOUS
  <2> HIDE DEF Bad
  <2>. QED
    BY <2>1, Least
<1>2. PICK x \in U : Sum(U) # w[x] + Sum(U \ {x})
  OBVIOUS
<1> DEFINE p == PickOf(U)
<1>3. p \in U
  BY PickIn
<1>4. IsFiniteSet(U) /\ \A V \in SUBSET U : Sum(V) \in Nat
  BY FS_Subset, SumNat
<1>5. Sum(U) = w[p] + Sum(U \ {p})
  BY <1>2, <1>4, SumPick
<1>6. p # x
  BY <1>2, <1>5
<1>7. Sum(U \ {p}) = w[x] + Sum((U \ {p}) \ {x})
  <2>1. U \ {p} \in SUBSET U /\ U \ {p} # U /\ x \in U \ {p}
    BY <1>3, <1>6
  <2>. QED
    BY <1>1, <2>1
<1>8. Sum(U \ {x}) = w[p] + Sum((U \ {x}) \ {p})
  <2>1. U \ {x} \in SUBSET U /\ U \ {x} # U /\ p \in U \ {x}
    BY <1>3, <1>6
  <2>. QED
    BY <1>1, <2>1
<1>9. (U \ {x}) \ {p} = (U \ {p}) \ {x}
  OBVIOUS
<1>10. Sum((U \ {p}) \ {x}) \in Nat /\ w[x] \in Nat /\ w[p] \in Nat
  BY <1>3, <1>4
<1>11. Sum(U \ {x}) = w[p] + Sum((U \ {p}) \ {x})
  BY <1>8, <1>9
<1>12. Sum(U) = w[p] + (w[x] + Sum((U \ {p}) \ {x}))
  BY <1>5, <1>7
<1> DEFINE R == Sum((U \ {p}) \ {x})
<1> HIDE DEF Sum, p, R
<1>13. R \in Nat /\ Sum(U \ {x}) = w[p] + R /\ Sum(U) = w[p] + (w[x] + R)
  BY <1>10, <1>11, <1>12 DEF R
<1>14. Sum(U) = w[x] + Sum(U \ {x})
  BY <1>10, <1>13
<1>. QED
  BY <1>2, <1>14

LEMMA SumMonotone ==
    ASSUME NEW w, NEW S, IsFiniteSet(S), \A x \in S : w[x] \in Nat, NEW T \in SUBSET S
    PROVE  SumFunctionOnSet(w, T) <= SumFunctionOnSet(w, S)
<1> DEFINE Sum(s) == SumFunctionOnSet(w, s)
           Bad == {s \in SUBSET S : \E V \in SUBSET s : ~(Sum(V) <= Sum(s))}
<1> SUFFICES ASSUME Bad # {} PROVE FALSE
  <2>1. S \notin Bad => Sum(T) <= Sum(S)
    OBVIOUS
  <2>. QED
    BY <2>1
<1>1. PICK U \in Bad : \A V \in SUBSET U : V # U => V \notin Bad
  <2>1. Bad \subseteq SUBSET S
    OBVIOUS
  <2> HIDE DEF Bad
  <2>. QED
    BY <2>1, Least
<1>2. PICK V \in SUBSET U : ~(Sum(V) <= Sum(U))
  OBVIOUS
<1>3. IsFiniteSet(U) /\ \A W \in SUBSET U : Sum(W) \in Nat
  BY FS_Subset, SumNat
<1>4. V # U
  BY <1>2, <1>3
<1>5. PICK y \in U : y \notin V
  BY <1>4
<1>6. Sum(V) <= Sum(U \ {y})
  <2>1. U \ {y} \in SUBSET U /\ U \ {y} # U /\ V \in SUBSET (U \ {y})
    BY <1>5
  <2>. QED
    BY <1>1, <2>1
<1>7. Sum(U) = w[y] + Sum(U \ {y})
  BY <1>3, SumRemove
<1>8. w[y] \in Nat /\ Sum(V) \in Nat /\ Sum(U) \in Nat /\ Sum(U \ {y}) \in Nat
  BY <1>3
<1> HIDE DEF Sum
<1>. QED
  BY <1>2, <1>6, <1>7, <1>8

-----------------------------------------------------------------------------
(***************************************************************************)
(* The budgets.  From the approval to the order no order works and the     *)
(* trade is not booked, so the open trades can only become fewer; a check  *)
(* that was passed stays passed against the best account value.            *)
(***************************************************************************)
LEMMA CapitalIsNat == \A t \in Trades : CapitalFromLegs[t] \in Nat
BY SizeAssumption DEF CapitalFromLegs

LEMMA ExposureGrows ==
    ASSUME NEW u, NEW T \in SUBSET Trades, NEW S \in SUBSET T
    PROVE  /\ Exposure(u, S) \in Nat /\ Exposure(u, T) \in Nat
           /\ Exposure(u, S) <= Exposure(u, T)
<1> DEFINE A == {t \in S : Underlying[t] = u}
           B == {t \in T : Underlying[t] = u}
<1>1. A \in SUBSET B /\ IsFiniteSet(A) /\ IsFiniteSet(B)
  BY KindAssumption, FS_Subset
<1>2. \A t \in B : CapitalFromLegs[t] \in Nat
  BY CapitalIsNat
<1>3. \A t \in A : CapitalFromLegs[t] \in Nat
  BY CapitalIsNat
<1> HIDE DEF A, B
<1>4. SumFunctionOnSet(CapitalFromLegs, A) \in Nat /\ SumFunctionOnSet(CapitalFromLegs, B) \in Nat
  BY <1>1, <1>2, <1>3, SumNat
<1>5. SumFunctionOnSet(CapitalFromLegs, A) <= SumFunctionOnSet(CapitalFromLegs, B)
  BY <1>1, <1>2, SumMonotone
<1>. QED
  BY <1>4, <1>5 DEF Exposure, A, B

LEMMA BucketUseGrows ==
    ASSUME NEW b, NEW T \in SUBSET Trades, NEW S \in SUBSET T
    PROVE  /\ BucketUse(b, S) \in Nat /\ BucketUse(b, T) \in Nat
           /\ BucketUse(b, S) <= BucketUse(b, T)
<1> DEFINE A == {t \in S : Bucket(t) = b /\ Kind[t] # "CoveredCall"}
           B == {t \in T : Bucket(t) = b /\ Kind[t] # "CoveredCall"}
<1>1. A \in SUBSET B /\ IsFiniteSet(A) /\ IsFiniteSet(B)
  BY KindAssumption, FS_Subset
<1>2. \A t \in B : CapitalFromLegs[t] \in Nat
  BY CapitalIsNat
<1>3. \A t \in A : CapitalFromLegs[t] \in Nat
  BY CapitalIsNat
<1> HIDE DEF A, B
<1>4. SumFunctionOnSet(CapitalFromLegs, A) \in Nat /\ SumFunctionOnSet(CapitalFromLegs, B) \in Nat
  BY <1>1, <1>2, <1>3, SumNat
<1>5. SumFunctionOnSet(CapitalFromLegs, A) <= SumFunctionOnSet(CapitalFromLegs, B)
  BY <1>1, <1>2, SumMonotone
<1>. QED
  BY <1>4, <1>5 DEF BucketUse, A, B

\* The capital a booked trade counts for in its bucket is at most what was
\* required for it.
LEMMA BucketUseAdds ==
    ASSUME NEW S \in SUBSET Trades, NEW t \in Trades, t \notin S
    PROVE  /\ BucketUse(Bucket(t), S \cup {t}) <= BucketUse(Bucket(t), S) + Required(t)
           /\ \A b : b # Bucket(t) => BucketUse(b, S \cup {t}) = BucketUse(b, S)
           /\ Required(t) \in Nat
<1> DEFINE c == Bucket(t)
           A == {s \in S : Bucket(s) = c /\ Kind[s] # "CoveredCall"}
           B == {s \in S \cup {t} : Bucket(s) = c /\ Kind[s] # "CoveredCall"}
<1>1. IsFiniteSet(B) /\ \A s \in B : CapitalFromLegs[s] \in Nat
  BY KindAssumption, FS_Subset, CapitalIsNat
<1>2. BucketUse(c, S) \in Nat /\ BucketUse(c, S \cup {t}) \in Nat
  <2>1. S \in SUBSET (S \cup {t}) /\ S \cup {t} \in SUBSET Trades
    OBVIOUS
  <2>. QED
    BY <2>1, BucketUseGrows
<1>3. Required(t) \in Nat
  BY SizeAssumption DEF Required
<1>4. BucketUse(c, S) = SumFunctionOnSet(CapitalFromLegs, A)
      /\ BucketUse(c, S \cup {t}) = SumFunctionOnSet(CapitalFromLegs, B)
  BY DEF BucketUse
<1>5. Kind[t] = "CoveredCall" => B = A
  OBVIOUS
<1>6. Kind[t] # "CoveredCall" => t \in B /\ B \ {t} = A
  OBVIOUS
<1>7. Kind[t] # "CoveredCall" => CapitalFromLegs[t] \in Nat /\ CapitalFromLegs[t] <= Required(t)
  BY SizeAssumption DEF CapitalFromLegs, Required
<1> HIDE DEF A, B
<1>8. Kind[t] # "CoveredCall" =>
        SumFunctionOnSet(CapitalFromLegs, B) = CapitalFromLegs[t] + SumFunctionOnSet(CapitalFromLegs, A)
  BY <1>1, <1>6, SumRemove
<1>9. BucketUse(c, S \cup {t}) <= BucketUse(c, S) + Required(t)
  <2> HIDE DEF c
  <2>. QED
    BY <1>2, <1>3, <1>4, <1>5, <1>7, <1>8
<1>10. ASSUME NEW b, b # Bucket(t) PROVE BucketUse(b, S \cup {t}) = BucketUse(b, S)
  <2>1. {s \in S \cup {t} : Bucket(s) = b /\ Kind[s] # "CoveredCall"}
          = {s \in S : Bucket(s) = b /\ Kind[s] # "CoveredCall"}
    BY <1>10
  <2>. QED
    BY <2>1 DEF BucketUse
<1>. QED
  BY <1>3, <1>9, <1>10

\* No reported account value exceeds Best.
LEMMA BestValue ==
    /\ Best \in Nat
    /\ \A v \in AccountValues \cup {0} : v \in Nat /\ v <= Best
<1>1. Best \in AccountValues /\ \A v \in AccountValues : Best >= v
  BY ValueAssumption DEF Best, Max
<1>. QED
  BY <1>1, ValueAssumption

LEMMA TimesGrows ==
    ASSUME NEW a \in Nat, NEW b \in Nat, NEW c \in Nat, a <= b
    PROVE  a * c <= b * c
<1>1. PICK d \in Nat : b = a + d
  <2>1. b - a \in Nat /\ b = a + (b - a)
    OBVIOUS
  <2>. QED
    BY <2>1
<1>2. (a + d) * c = a * c + d * c
  OBVIOUS
<1>3. a * c \in Nat /\ d * c \in Nat
  OBVIOUS
<1>. QED
  BY <1>1, <1>2, <1>3

ClearToOrder ==
    cmd.step \in PastLoss \cup LossSteps =>
        /\ cmd.trade \in Trades /\ status[cmd.trade] = "none"
        /\ Booked("working") = {}

ExposureFound ==
    cmd.step \in {"capacity", "building"} =>
        1000 * Exposure(Underlying[cmd.trade], Booked("open")) < Best * UnderlyingPct

CapacityFound ==
    cmd.step = "building" =>
        1000 * (BucketUse(Bucket(cmd.trade), Booked("open")) + Required(cmd.trade))
            <= Best * BucketPct[Bucket(cmd.trade)]

ChecksHold == ClearToOrder /\ ExposureFound /\ CapacityFound

\* What a check found still holds when trades closed since.
LEMMA FindingsLast ==
    ASSUME TypeOK, ChecksHold, cmd'.step = cmd.step, cmd'.trade = cmd.trade,
           Booked("open")' \subseteq Booked("open"),
           cmd.step \in PastLoss \cup LossSteps =>
               status'[cmd.trade] = "none" /\ Booked("working")' = {}
    PROVE  ChecksHold'
<1>1. ClearToOrder'
  BY DEF ChecksHold, ClearToOrder
<1>2. Booked("open") \in SUBSET Trades /\ Booked("open")' \in SUBSET Booked("open")
  BY DEF Booked
<1>3. ExposureFound'
  <2> SUFFICES ASSUME cmd.step \in {"capacity", "building"}
               PROVE  1000 * Exposure(Underlying[cmd.trade], Booked("open")') < Best * UnderlyingPct
    BY DEF ExposureFound
  <2> DEFINE new == Exposure(Underlying[cmd.trade], Booked("open")')
             old == Exposure(Underlying[cmd.trade], Booked("open"))
  <2>1. new \in Nat /\ old \in Nat /\ new <= old
    BY <1>2, ExposureGrows
  <2>2. 1000 * old < Best * UnderlyingPct
    BY DEF ChecksHold, ExposureFound
  <2>3. Best * UnderlyingPct \in Nat
    BY BestValue, LimitAssumption
  <2> HIDE DEF new, old
  <2>4. 1000 * new < Best * UnderlyingPct
    <3> DEFINE most == Best * UnderlyingPct
    <3> HIDE DEF most
    <3>1. 1000 * old < most /\ most \in Nat
      BY <2>2, <2>3 DEF most
    <3>2. 1000 * new < most
      BY <2>1, <3>1
    <3>. QED
      BY <3>2 DEF most
  <2>. QED
    BY <2>4 DEF new
<1>4. CapacityFound'
  <2> SUFFICES ASSUME cmd.step = "building"
               PROVE  1000 * (BucketUse(Bucket(cmd.trade), Booked("open")') + Required(cmd.trade))
                          <= Best * BucketPct[Bucket(cmd.trade)]
    BY DEF CapacityFound
  <2> DEFINE new  == BucketUse(Bucket(cmd.trade), Booked("open")')
             old  == BucketUse(Bucket(cmd.trade), Booked("open"))
             most == Best * BucketPct[Bucket(cmd.trade)]
             req  == Required(cmd.trade)
  <2>1. new \in Nat /\ old \in Nat /\ new <= old
    BY <1>2, BucketUseGrows
  <2>2. 1000 * (old + req) <= most
    BY DEF ChecksHold, CapacityFound
  <2>3. cmd.trade \in Trades
    BY DEF ChecksHold, ClearToOrder, PastLoss, LossSteps
  <2>4. req \in Nat
    BY <2>3, SizeAssumption DEF Required
  <2>5. most \in Nat
    <3>1. Bucket(cmd.trade) \in Buckets
      BY <2>3, KindAssumption DEF Bucket, Buckets, Strategy
    <3>. QED
      BY <3>1, BestValue, LimitAssumption
  <2> HIDE DEF new, old, most, req
  <2>6. 1000 * (new + req) <= most
    BY <2>1, <2>2, <2>4, <2>5
  <2>. QED
    BY <2>6 DEF new, most, req
<1>. QED
  BY <1>1, <1>3, <1>4 DEF ChecksHold

\* A command that has left the checks, or is at the first, has found nothing.
LEMMA NothingFound ==
    ASSUME cmd'.step \notin PastLoss \cup LossSteps
    PROVE  ChecksHold'
BY DEF ChecksHold, ClearToOrder, ExposureFound, CapacityFound, PastLoss, LossSteps

\* The next check is for the same trade, unless the account value is not there.
LEMMA NextCheckTrade ==
    ASSUME TypeOK, NEW s, NextCheck(s)
    PROVE  \/ cmd'.step = "idle"
           \/ cmd'.step = s /\ cmd'.trade = cmd.trade
<1>1. cmd \in CommandRecs
  BY DEF TypeOK, CommandRecs
<1>2. LET c == [cmd EXCEPT !.step = s, !.pv = account, !.day = 0, !.loss = NoLoss]
      IN  c.step = s /\ c.trade = cmd.trade
  BY <1>1 DEF CommandRecs
<1>. QED
  BY <1>2 DEF NextCheck, IdleCmd

LEMMA CheckFinds ==
    ASSUME TypeOK, ChecksHold, Check
    PROVE  ChecksHold'
<1>1. Booked("open")' = Booked("open") /\ Booked("working")' = Booked("working")
  BY DEF Check, ReadLoss, Windows, CheckLoss, CheckExposure, CheckCapacity, Booked, bookVars
<1>2. status' = status
  BY DEF Check, ReadLoss, Windows, CheckLoss, CheckExposure, CheckCapacity, bookVars
<1>3. cmd.pv \in Nat /\ cmd.pv <= Best
  BY BestValue DEF TypeOK
<1>4. cmd.step \in PastLoss \cup LossSteps
  BY DEF Check, ReadLoss, Windows, CheckLoss, CheckExposure, CheckCapacity, PastLoss, LossSteps
<1>5. cmd.trade \in Trades /\ status[cmd.trade] = "none" /\ Booked("working") = {}
  BY <1>4 DEF ChecksHold, ClearToOrder
<1>6. cmd'.trade = cmd.trade => ClearToOrder'
  BY <1>1, <1>2, <1>5 DEF ClearToOrder
<1>7. CASE CheckLoss
  <2>1. \/ cmd'.step \in {"idle", "persist"}
        \/ cmd'.step = "exposure" /\ cmd'.trade = cmd.trade
    BY <1>7, NextCheckTrade DEF CheckLoss, IdleCmd
  <2>2. cmd'.step = "exposure" => ExposureFound' /\ CapacityFound'
    BY DEF ExposureFound, CapacityFound
  <2>3. cmd'.step \in {"idle", "persist"} => ChecksHold'
    BY NothingFound DEF PastLoss, LossSteps
  <2>. QED
    BY <1>6, <2>1, <2>2, <2>3 DEF ChecksHold
<1>8. CASE CheckExposure
  <2>1. CASE cmd'.step = "idle"
    BY <2>1, NothingFound DEF PastLoss, LossSteps
  <2>2. CASE cmd'.step # "idle"
    <3>1. cmd'.step = "capacity" /\ cmd'.trade = cmd.trade /\ ~AtMaxExposure(cmd.trade, cmd.pv)
      BY <1>8, <2>2, NextCheckTrade DEF CheckExposure, IdleCmd
    <3>2. ExposureFound'
      <4> DEFINE now  == Exposure(Underlying[cmd.trade], Booked("open"))
                 seen == cmd.pv * UnderlyingPct
                 most == Best * UnderlyingPct
      <4>1. now \in Nat
        <5>1. Booked("open") \in SUBSET Trades /\ Booked("open") \in SUBSET Booked("open")
          BY DEF Booked
        <5>. QED
          BY <5>1, ExposureGrows
      <4>2. ~(1000 * now >= seen)
        BY <3>1 DEF AtMaxExposure
      <4>3. seen <= most /\ seen \in Nat /\ most \in Nat
        BY <1>3, TimesGrows, BestValue, LimitAssumption
      <4> HIDE DEF now, seen, most
      <4>4. 1000 * now < most
        BY <4>1, <4>2, <4>3
      <4>. QED
        BY <1>1, <3>1, <4>4 DEF ExposureFound, now, most
    <3>3. CapacityFound'
      BY <3>1 DEF CapacityFound
    <3>. QED
      BY <1>6, <3>1, <3>2, <3>3 DEF ChecksHold
  <2>. QED
    BY <2>1, <2>2
<1>9. CASE CheckCapacity
  <2>1. CASE cmd'.step = "idle"
    BY <2>1, NothingFound DEF PastLoss, LossSteps
  <2>2. CASE cmd'.step # "idle"
    <3>1. cmd'.step = "building" /\ cmd'.trade = cmd.trade /\ HasCapacity(cmd.trade, cmd.pv)
      BY <1>9, <2>2 DEF CheckCapacity, IdleCmd, TypeOK
    <3>2. ExposureFound'
      BY <1>1, <1>9, <3>1 DEF CheckCapacity, ChecksHold, ExposureFound
    <3>3. CapacityFound'
      <4> DEFINE b    == Bucket(cmd.trade)
                 need == 1000 * (BucketUse(b, Booked("open")) + Required(cmd.trade))
                 seen == cmd.pv * BucketPct[b]
                 most == Best * BucketPct[b]
      <4>1. need <= seen
        BY <3>1 DEF HasCapacity
      <4>2. b \in Buckets
        BY <1>5, KindAssumption DEF Bucket, Buckets, Strategy
      <4>3. BucketPct[b] \in Nat
        BY <4>2, LimitAssumption
      <4>4. seen <= most /\ seen \in Nat /\ most \in Nat
        BY <1>3, <4>3, TimesGrows, BestValue
      <4>5. need \in Nat
        <5>1. Booked("open") \in SUBSET Trades /\ Booked("open") \in SUBSET Booked("open")
          BY DEF Booked
        <5>2. BucketUse(b, Booked("open")) \in Nat
          BY <5>1, BucketUseGrows
        <5>3. Required(cmd.trade) \in Nat
          BY <1>5, SizeAssumption DEF Required
        <5>. QED
          BY <5>2, <5>3
      <4> HIDE DEF need, seen, most
      <4>6. need <= most
        BY <4>1, <4>4, <4>5
      <4>. QED
        BY <1>1, <3>1, <4>6 DEF CapacityFound, need, most
    <3>. QED
      BY <1>6, <3>1, <3>2, <3>3 DEF ChecksHold
  <2>. QED
    BY <2>1, <2>2
<1>10. ASSUME NEW w \in Windows, ReadLoss(w) PROVE ChecksHold'
  <2>1. cmd'.step \in LossSteps /\ cmd'.trade = cmd.trade
    BY <1>10, ReadLossStep DEF LossSteps, TypeOK
  <2>. QED
    BY <2>1, <1>6 DEF ChecksHold, ExposureFound, CapacityFound, LossSteps
<1>. QED
  BY <1>7, <1>8, <1>9, <1>10 DEF Check

LEMMA CommandFinds ==
    ASSUME TypeOK, ~Overlap, ChecksHold, Command
    PROVE  ChecksHold'
<1>1. ASSUME NEW t \in Trades, Approve(t) PROVE ChecksHold'
  <2>1. cmd'.step = "daily" /\ cmd'.trade = t
    BY <1>1 DEF Approve, IdleCmd
  <2>2. status'[t] = "none" /\ Booked("working")' = {}
    BY <1>1 DEF Approve, bookVars, Booked
  <2>. QED
    BY <2>1, <2>2 DEF ChecksHold, ClearToOrder, ExposureFound, CapacityFound, LossSteps
<1>2. CASE Check
  BY <1>2, CheckFinds
<1>3. Submit \/ SubmitRefused \/ Pause \/ PersistPause \/ NotifyPause \/ Resume \/ ClearPause
        => cmd'.step \notin PastLoss \cup LossSteps
  BY DEF Submit, SubmitRefused, Pause, PersistPause, NotifyPause, Resume, ClearPause, IdleCmd, PastLoss, LossSteps
<1>4. SetConfig => cmd'.step \notin PastLoss \cup LossSteps
  BY DEF SetConfig, IdleCmd, PastLoss, LossSteps
<1>. QED
  BY <1>1, <1>2, <1>3, <1>4, NothingFound DEF Command

LEMMA OtherFinds ==
    ASSUME TypeOK, ~Overlap, ChecksHold, Fault \/ Outside
    PROVE  ChecksHold'
<1>1. CASE Fault
  <2>1. cmd'.step \notin PastLoss \cup LossSteps
    BY <1>1 DEF Fault, PersistFails, ClearFails, Crash, IdleCmd, PastLoss, LossSteps
  <2>. QED
    BY <2>1, NothingFound
<1>2. CASE cmd.step \notin PastLoss \cup LossSteps /\ Outside
  <2>1. cmd' = cmd \/ Moved
    BY <1>2 DEF Outside, Fill, Mark, Close, PollStart, AccountMoves, Midnight, Restart
  <2>2. cmd' = cmd
    BY <1>2, <2>1 DEF Moved, PastLoss, LossSteps
  <2>. QED
    BY <1>2, <2>2, NothingFound
<1>3. CASE cmd.step \in PastLoss \cup LossSteps /\ Outside
  <2>1. cmd'.step = cmd.step /\ cmd'.trade = cmd.trade
    <3>1. cmd' = cmd \/ Moved
      BY <1>3 DEF Outside, Fill, Mark, Close, PollStart, AccountMoves, Midnight, Restart
    <3>. QED
      BY <3>1 DEF Moved, TypeOK
  <2>2. cmd.trade \in Trades /\ status[cmd.trade] = "none" /\ Booked("working") = {}
    BY <1>3 DEF ChecksHold, ClearToOrder
  <2>3. \A t \in Trades : ~Fill(t)
    BY <2>2 DEF Fill, Booked
  <2>4. status' = status \/ \E t \in Trades : Close(t)
    BY <1>3, <2>3 DEF Outside, Mark, PollStart, AccountMoves, Midnight, Restart, bookVars
  <2>5. Booked("open")' \subseteq Booked("open") /\ Booked("working")' = {}
        /\ status'[cmd.trade] = "none"
    <3>1. CASE status' = status
      BY <2>2, <3>1 DEF Booked
    <3>2. ASSUME NEW t \in Trades, Close(t)
          PROVE  Booked("open")' \subseteq Booked("open") /\ Booked("working")' = {}
                 /\ status'[cmd.trade] = "none"
      <4>1. status' = [status EXCEPT ![t] = "closed"] /\ status[t] = "open"
        BY <3>2 DEF Close
      <4>. QED
        BY <2>2, <4>1 DEF Booked, TypeOK
    <3>. QED
      BY <2>4, <3>1, <3>2
  <2>. QED
    BY <2>1, <2>5, FindingsLast
<1>. QED
  BY <1>1, <1>2, <1>3

LEMMA ChecksHoldAlways == Spec => [](~Overlap => ChecksHold)
<1>1. Init => ChecksHold
  BY DEF Init, IdleCmd, PastLoss, LossSteps, ChecksHold, ClearToOrder, ExposureFound, CapacityFound
<1>2. TypeOK /\ (~Overlap => ChecksHold) /\ [Next]_vars => (~Overlap => ChecksHold)'
  <2> SUFFICES ASSUME TypeOK, ~Overlap, ChecksHold, [Next]_vars
               PROVE  ChecksHold'
    OBVIOUS
  <2>1. CASE UNCHANGED vars
    <3>1. Booked("open")' = Booked("open") /\ Booked("working")' = Booked("working")
      BY <2>1 DEF vars, bookVars, Booked
    <3>2. cmd' = cmd /\ status' = status
      BY <2>1 DEF vars, bookVars
    <3>. QED
      BY <3>1, <3>2 DEF ChecksHold, ClearToOrder, ExposureFound, CapacityFound
  <2>. QED
    BY <2>1, CommandFinds, OtherFinds DEF Next
<1>. QED
  BY <1>1, <1>2, TypeCorrect, PTL DEF Spec

\* Only an order adds to what is working or open.
LEMMA OnlySubmitCommits ==
    ASSUME TypeOK, [Next]_vars, ~Submit
    PROVE  Committed' \subseteq Committed
<1> USE DEF bookVars
<1>1. Command => status' = status
  BY DEF Command, Check, Approve, ReadLoss, CheckLoss, CheckExposure, CheckCapacity, SubmitRefused, Pause,
         PersistPause, NotifyPause, Resume, ClearPause, SetConfig
<1>2. Fault => status' = status
  BY DEF Fault, PersistFails, ClearFails, Crash
<1>3. Outside => status' = status \/ \E t \in Trades : Fill(t) \/ Close(t)
  BY DEF Outside, Mark, PollStart, AccountMoves, Midnight, Restart
<1>4. ASSUME NEW t \in Trades, Fill(t) \/ Close(t) PROVE Committed' \subseteq Committed
  <2>1. \E s \in {"open", "void", "closed"} : status' = [status EXCEPT ![t] = s]
    BY <1>4 DEF Fill, Close
  <2>2. status[t] \in {"working", "open"}
    BY <1>4 DEF Fill, Close
  <2>. QED
    BY <2>1, <2>2 DEF Committed, Booked, TypeOK
<1>5. status' = status => Committed' \subseteq Committed
  BY DEF Committed, Booked
<1>6. UNCHANGED vars => status' = status
  BY DEF vars
<1>. QED
  BY <1>1, <1>2, <1>3, <1>4, <1>5, <1>6 DEF Next

\* The order commits the trade it was checked for, and nothing else is working.
LEMMA SubmitCommits ==
    ASSUME TypeOK, ChecksHold, Submit
    PROVE  /\ cmd.trade \in Trades
           /\ cmd.trade \notin Booked("open")
           /\ Committed = Booked("open")
           /\ Committed' = Booked("open") \cup {cmd.trade}
<1>1. cmd.trade \in Trades /\ status[cmd.trade] = "none" /\ Booked("working") = {}
  BY DEF Submit, ChecksHold, ClearToOrder, PastLoss, LossSteps
<1>2. status' = [status EXCEPT ![cmd.trade] = "working"]
  BY DEF Submit
<1>. QED
  BY <1>1, <1>2 DEF Committed, Booked, TypeOK

LEMMA BucketStep ==
    ASSUME TypeOK, ~Overlap, ChecksHold, BucketWithinBudget, [Next]_vars
    PROVE  BucketWithinBudget'
<1> SUFFICES ASSUME NEW b \in Buckets
             PROVE  1000 * BucketUse(b, Committed') <= Best * BucketPct[b]
  BY DEF BucketWithinBudget
<1> DEFINE new  == BucketUse(b, Committed')
           old  == BucketUse(b, Committed)
           most == Best * BucketPct[b]
<1>1. 1000 * old <= most
  BY DEF BucketWithinBudget
<1>2. most \in Nat
  BY BestValue, LimitAssumption
<1>3. Committed \in SUBSET Trades /\ Committed' \in SUBSET Trades
  BY DEF Committed, Booked
<1>4. new \in Nat /\ old \in Nat
  BY <1>3, BucketUseGrows
<1>5. CASE ~Submit
  <2>1. new <= old
    BY <1>3, <1>5, OnlySubmitCommits, BucketUseGrows
  <2> HIDE DEF new, old, most
  <2>2. 1000 * new <= most
    BY <1>1, <1>2, <1>4, <2>1
  <2>. QED
    BY <2>2 DEF new, most
<1>6. CASE Submit
  <2> DEFINE t == cmd.trade
             open == Booked("open")
  <2>1. t \in Trades /\ t \notin open /\ open \in SUBSET Trades
        /\ Committed = open /\ Committed' = open \cup {t}
    BY <1>6, SubmitCommits DEF Booked
  <2>2. CASE b # Bucket(t)
    <3>1. new = old
      BY <2>1, <2>2, BucketUseAdds
    <3>. QED
      BY <1>1, <3>1
  <2>3. CASE b = Bucket(t)
    <3> DEFINE req == Required(t)
    <3>1. new <= old + req /\ req \in Nat
      BY <2>1, <2>3, BucketUseAdds
    <3>2. 1000 * (old + req) <= most
      BY <1>6, <2>1, <2>3 DEF Submit, ChecksHold, CapacityFound
    <3> HIDE DEF new, old, most, req
    <3>3. 1000 * new <= most
      BY <1>2, <1>4, <3>1, <3>2
    <3>. QED
      BY <3>3 DEF new, most
  <2>. QED
    BY <2>2, <2>3
<1>. QED
  BY <1>5, <1>6

\* A bucket's working and open trades never take more than its share of the
\* best account value while the operator approves one order at a time, for any
\* trades, sizes, shares and account values.
THEOREM BucketsWithinBudget == Spec => []BucketWithinBudget
<1>1. Init => BucketWithinBudget
  <2> SUFFICES ASSUME Init, NEW b \in Buckets
               PROVE  1000 * BucketUse(b, Committed) <= Best * BucketPct[b]
    BY DEF BucketWithinBudget
  <2>1. Committed = {}
    BY DEF Init, Committed, Booked
  <2>2. {t \in {} : Bucket(t) = b /\ Kind[t] # "CoveredCall"} = {}
    OBVIOUS
  <2>3. BucketUse(b, {}) = 0
    BY <2>2, SumEmpty DEF BucketUse
  <2>4. Best * BucketPct[b] \in Nat
    BY BestValue, LimitAssumption
  <2>. QED
    BY <2>1, <2>3, <2>4
<1>2. TypeOK /\ (~Overlap => ChecksHold) /\ BucketWithinBudget /\ [Next]_vars => BucketWithinBudget'
  <2>1. Overlap => BucketWithinBudget'
    BY DEF BucketWithinBudget
  <2>. QED
    BY <2>1, BucketStep
<1>. QED
  BY <1>1, <1>2, ChecksHoldAlways, TypeCorrect, PTL DEF Spec

LEMMA ExposureStep ==
    ASSUME TypeOK, ~Overlap, ChecksHold, ExposureOvershootsOnce, [Next]_vars
    PROVE  ExposureOvershootsOnce'
<1> SUFFICES ASSUME NEW u, u \in {Underlying[t] : t \in Committed'}, Exposure(u, Committed') > 0
             PROVE  \E t \in Committed' :
                       1000 * Exposure(u, Committed' \ {t}) < Best * UnderlyingPct
  BY DEF ExposureOvershootsOnce
<1> DEFINE most == Best * UnderlyingPct
<1>1. most \in Nat
  BY BestValue, LimitAssumption
<1>2. Committed \in SUBSET Trades /\ Committed' \in SUBSET Trades
  BY DEF Committed, Booked
<1>3. ASSUME NEW S \in SUBSET Trades, NEW T \in SUBSET S, 1000 * Exposure(u, S) < most
      PROVE  1000 * Exposure(u, T) < most
  <2> DEFINE large == Exposure(u, S)
             small == Exposure(u, T)
  <2>1. large \in Nat /\ small \in Nat /\ small <= large
    BY ExposureGrows
  <2> HIDE DEF large, small, most
  <2>. QED
    BY <1>1, <1>3, <2>1 DEF large, small
<1>4. CASE ~Submit
  <2>1. Committed' \subseteq Committed
    BY <1>4, OnlySubmitCommits
  <2>2. Exposure(u, Committed') <= Exposure(u, Committed) /\ Exposure(u, Committed') \in Nat
        /\ Exposure(u, Committed) \in Nat
    BY <1>2, <2>1, ExposureGrows
  <2>3. Exposure(u, Committed) > 0
    BY <2>2
  <2>4. PICK t \in Committed : 1000 * Exposure(u, Committed \ {t}) < most
    BY <2>1, <2>3 DEF ExposureOvershootsOnce
  <2>5. CASE t \in Committed'
    <3>1. Committed' \ {t} \in SUBSET (Committed \ {t}) /\ Committed \ {t} \in SUBSET Trades
      BY <1>2, <2>1
    <3>. QED
      BY <1>3, <2>4, <2>5, <3>1
  <2>6. CASE t \notin Committed'
    <3>1. PICK s \in Committed' : TRUE
      OBVIOUS
    <3>2. Committed' \ {s} \in SUBSET (Committed \ {t}) /\ Committed \ {t} \in SUBSET Trades
      BY <1>2, <2>1, <2>6
    <3>. QED
      BY <1>3, <2>4, <3>1, <3>2
  <2>. QED
    BY <2>5, <2>6
<1>5. CASE Submit
  <2> DEFINE t == cmd.trade
             open == Booked("open")
  <2>1. t \in Trades /\ t \notin open /\ open \in SUBSET Trades
        /\ Committed = open /\ Committed' = open \cup {t}
    BY <1>5, SubmitCommits DEF Booked
  <2>2. Committed' \ {t} = open
    BY <2>1
  <2>3. CASE Underlying[t] = u
    <3>1. 1000 * Exposure(u, open) < most
      BY <1>5, <2>3 DEF Submit, ChecksHold, ExposureFound
    <3>. QED
      BY <2>1, <2>2, <3>1
  <2>4. CASE Underlying[t] # u
    <3>1. {s \in Committed' : Underlying[s] = u} = {s \in open : Underlying[s] = u}
      BY <2>1, <2>4
    <3>2. Exposure(u, Committed') = Exposure(u, open)
      BY <3>1 DEF Exposure
    <3>3. PICK s \in open : 1000 * Exposure(u, open \ {s}) < most
      BY <2>1, <2>4, <3>2 DEF ExposureOvershootsOnce
    <3>4. {r \in Committed' \ {s} : Underlying[r] = u} = {r \in open \ {s} : Underlying[r] = u}
      BY <2>1, <2>4
    <3>5. Exposure(u, Committed' \ {s}) = Exposure(u, open \ {s})
      BY <3>4 DEF Exposure
    <3>. QED
      BY <2>1, <3>3, <3>5
  <2>. QED
    BY <2>3, <2>4
<1>. QED
  BY <1>4, <1>5

\* While the operator approves one order at a time, an underlying is above its
\* limit by one trade at most, for any trades, sizes, limit and account values.
THEOREM ExposureOvershootsByOneTrade == Spec => []ExposureOvershootsOnce
<1>1. Init => ExposureOvershootsOnce
  BY DEF Init, ExposureOvershootsOnce, Committed, Booked
<1>2. TypeOK /\ (~Overlap => ChecksHold) /\ ExposureOvershootsOnce /\ [Next]_vars
        => ExposureOvershootsOnce'
  <2>1. Overlap => ExposureOvershootsOnce'
    BY DEF ExposureOvershootsOnce
  <2>. QED
    BY <2>1, ExposureStep
<1>. QED
  BY <1>1, <1>2, ChecksHoldAlways, TypeCorrect, PTL DEF Spec
=============================================================================
