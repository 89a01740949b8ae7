-------------------------- MODULE WheelCycleProofs --------------------------
(***************************************************************************)
(* Proofs about WheelCycle, for any number of puts, calls, tasks, faults   *)
(* and repeated messages.                                                  *)
(*                                                                         *)
(* The detection only asks whether there are shares.  With the operator's  *)
(* care that is enough, because at most one put is ever assigned           *)
(* (OneWheel): as long as its shares are there, or the row of the call     *)
(* they were called away by, no other put is opened.                       *)
(***************************************************************************)
EXTENDS WheelCycle, FiniteSetTheorems, TLAPS

CheckType == [step : {"idle", "select", "mark", "propose"},
              of : Trades \cup {NoTrade}, cycle : Puts \cup {NoTrade}]

TradeStates == {"none", "working", "open", "closed", "void"}

LEMMA IdleIsCheck == IdleCheck \in CheckType
  BY DEF IdleCheck, CheckType

LEMMA SpendCounts ==
    ASSUME used \in [Faults -> Nat], NEW f \in Faults, Spend(f)
    PROVE  used' \in [Faults -> Nat]
  BY DEF Spend

\* Mishaps are recorded for puts, and never forgotten.
LEMMA MishapHits ==
    ASSUME hit \subseteq Puts \X Causes, NEW ts, NEW cause \in Causes, Mishap(ts, cause)
    PROVE  hit' \subseteq Puts \X Causes /\ hit \subseteq hit'
  BY DEF Mishap

-----------------------------------------------------------------------------
\* Init gives every variable a value of its type.
LEMMA InitType == Init => TypeOK
<1> SUFFICES ASSUME Init PROVE TypeOK
  OBVIOUS
<1> USE DEF Init
<1>1. proposals \in 0..MaxProposals
  BY WheelBoundAssumption
<1>2. cycles \in Seq(Puts)
  OBVIOUS
<1>3. check \in [Checks -> CheckType]
  BY IdleIsCheck
<1>4. used \in [Faults -> Nat]
  OBVIOUS
<1>5. /\ held \in [Trades -> {"none", "held", "gone"}]
      /\ fate \in [Trades -> {"none", "assigned", "bought", "expired"}]
      /\ trade \in [Trades -> TradeStates]
      /\ outcome \in [Trades -> {"none", "Traded", "Assigned"}]
      /\ link \in [Trades -> Puts \cup {NoTrade}]
  BY DEF TradeStates
<1>6. /\ lots \in Int /\ seen \in Int /\ news \subseteq Trades /\ assigned \subseteq Puts
      /\ recording \in SUBSET Trades /\ closing \in SUBSET Trades
      /\ scan \subseteq Puts /\ connected \in BOOLEAN /\ up \in BOOLEAN /\ hit \subseteq Puts \X Causes
  OBVIOUS
<1>. QED
  BY <1>1, <1>2, <1>3, <1>4, <1>5, <1>6 DEF TypeOK, CheckType, TradeStates

\* A step gives every variable a value of its type.
LEMMA TypeStep == TypeOK /\ [Next]_vars => TypeOK'
<1> SUFFICES ASSUME TypeOK, [Next]_vars PROVE TypeOK'
  OBVIOUS
<1> DEFINE
      BrokerOK == /\ held \in [Trades -> {"none", "held", "gone"}]
                  /\ fate \in [Trades -> {"none", "assigned", "bought", "expired"}]
                  /\ lots \in Int
      ViewOK == news \subseteq Trades /\ seen \in Int
      TradeOK == /\ trade \in [Trades -> TradeStates]
                 /\ outcome \in [Trades -> {"none", "Traded", "Assigned"}]
                 /\ link \in [Trades -> Puts \cup {NoTrade}]
      CycleOK == cycles \in Seq(Puts) /\ assigned \subseteq Puts
      RecordOK == recording \in SUBSET Trades /\ closing \in SUBSET Trades
      CheckOK == check \in [Checks -> CheckType]
      RestOK == /\ proposals \in 0..MaxProposals /\ scan \subseteq Puts
                /\ connected \in BOOLEAN /\ up \in BOOLEAN
      HitOK == hit \subseteq Puts \X Causes
      UsedOK == used \in [Faults -> Nat]
<1>a. BrokerOK /\ ViewOK /\ TradeOK /\ CycleOK /\ RecordOK /\ CheckOK /\ RestOK /\ HitOK /\ UsedOK
  BY DEF TypeOK, CheckType, TradeStates
<1>t. ASSUME BrokerOK', ViewOK', TradeOK', CycleOK', RecordOK', CheckOK', RestOK', HitOK', UsedOK'
      PROVE  TypeOK'
  BY <1>t DEF TypeOK, CheckType, TradeStates
<1>b. ASSUME UNCHANGED brokerVars PROVE BrokerOK'
  BY <1>a, <1>b DEF brokerVars
<1>v. ASSUME UNCHANGED viewVars PROVE ViewOK'
  BY <1>a, <1>v DEF viewVars
<1>r. ASSUME UNCHANGED tradeVars PROVE TradeOK'
  BY <1>a, <1>r DEF tradeVars
<1>c. ASSUME UNCHANGED cycleVars PROVE CycleOK'
  BY <1>a, <1>c DEF cycleVars
<1>s. ASSUME NEW t \in Trades, NEW v \in TradeStates PROVE [trade EXCEPT ![t] = v] \in [Trades -> TradeStates]
  BY <1>a
<1>p. Puts \subseteq Trades /\ Calls \subseteq Trades
  BY DEF Trades
<1>1. ASSUME NEW p \in Puts, OpenPut(p) PROVE TypeOK'
  <2>1. BrokerOK'
    BY <1>a, <1>1 DEF OpenPut
  <2>2. TradeOK'
    BY <1>a, <1>s, <1>p, <1>1 DEF OpenPut, TradeStates
  <2>3. RecordOK'
    BY <1>a, <1>p, <1>1 DEF OpenPut
  <2>4. ViewOK' /\ CycleOK' /\ CheckOK' /\ RestOK' /\ HitOK' /\ UsedOK'
    BY <1>a, <1>1 DEF OpenPut, viewVars, cycleVars, worldVars
  <2>. QED
    BY <1>t, <2>1, <2>2, <2>3, <2>4
<1>2. ASSUME NEW c \in Calls, ApproveCall(c) PROVE TypeOK'
  <2>1. TradeOK'
    BY <1>a, <1>s, <1>p, <1>2 DEF ApproveCall, TradeStates
  <2>2. RestOK'
    BY <1>a, <1>2, WheelBoundAssumption DEF ApproveCall, taskVars, worldVars
  <2>3. BrokerOK' /\ ViewOK' /\ CycleOK' /\ RecordOK' /\ CheckOK' /\ HitOK' /\ UsedOK'
    BY <1>a, <1>2 DEF ApproveCall, brokerVars, viewVars, cycleVars, taskVars
  <2>. QED
    BY <1>t, <2>1, <2>2, <2>3
<1>3. CASE DropProposal
  <2>1. RestOK'
    BY <1>a, <1>3, WheelBoundAssumption DEF DropProposal, taskVars, worldVars
  <2>2. BrokerOK' /\ ViewOK' /\ TradeOK' /\ CycleOK' /\ RecordOK' /\ CheckOK' /\ HitOK' /\ UsedOK'
    BY <1>a, <1>3 DEF DropProposal, brokerVars, viewVars, tradeVars, cycleVars, taskVars
  <2>. QED
    BY <1>t, <2>1, <2>2
<1>4. ASSUME NEW c \in Calls, CallFills(c) PROVE TypeOK'
  <2>1. BrokerOK'
    BY <1>a, <1>4 DEF CallFills
  <2>2. TradeOK'
    BY <1>a, <1>s, <1>p, <1>4 DEF CallFills, TradeStates
  <2>3. RecordOK'
    BY <1>a, <1>p, <1>4 DEF CallFills
  <2>4. ViewOK' /\ CycleOK' /\ CheckOK' /\ RestOK' /\ HitOK' /\ UsedOK'
    BY <1>a, <1>4 DEF CallFills, viewVars, cycleVars, worldVars
  <2>. QED
    BY <1>t, <2>1, <2>2, <2>3, <2>4
<1>5. ASSUME NEW c \in Calls, CallLapses(c) PROVE TypeOK'
  <2>1. TradeOK'
    BY <1>a, <1>s, <1>p, <1>5 DEF CallLapses, TradeStates
  <2>2. BrokerOK' /\ ViewOK' /\ CycleOK' /\ RecordOK' /\ CheckOK' /\ RestOK' /\ HitOK' /\ UsedOK'
    BY <1>a, <1>5 DEF CallLapses, brokerVars, viewVars, cycleVars, taskVars, worldVars
  <2>. QED
    BY <1>t, <2>1, <2>2
<1>6. ASSUME NEW p \in Trades, CreateCycle(p) PROVE TypeOK'
  <2>1. CycleOK'
    <3>1. p \in Puts /\ cycles' = Append(cycles, p) /\ assigned' = assigned
      BY <1>6 DEF CreateCycle
    <3>2. Append(cycles, p) \in Seq(Puts)
      BY <1>a, <3>1
    <3>. QED
      BY <1>a, <3>1, <3>2
  <2>2. TradeOK'
    BY <1>a, <1>6 DEF CreateCycle
  <2>3. RecordOK'
    BY <1>a, <1>6 DEF CreateCycle
  <2>4. BrokerOK' /\ ViewOK' /\ CheckOK' /\ RestOK' /\ HitOK' /\ UsedOK'
    BY <1>a, <1>6 DEF CreateCycle, brokerVars, viewVars, worldVars
  <2>. QED
    BY <1>t, <2>1, <2>2, <2>3, <2>4
<1>7. ASSUME NEW c \in Trades, LinkCall(c) PROVE TypeOK'
  <2>1. TradeOK'
    BY <1>a, <1>7 DEF LinkCall
  <2>2. RecordOK'
    BY <1>a, <1>7 DEF LinkCall
  <2>3. BrokerOK' /\ ViewOK' /\ CycleOK' /\ CheckOK' /\ RestOK' /\ HitOK' /\ UsedOK'
    BY <1>a, <1>7 DEF LinkCall, brokerVars, viewVars, cycleVars, worldVars
  <2>. QED
    BY <1>t, <2>1, <2>2, <2>3
<1>g. ASSUME NEW t \in Trades, NEW how \in {"assigned", "bought", "expired"}, Goes(t, how)
      PROVE  /\ held' \in [Trades -> {"none", "held", "gone"}]
             /\ fate' \in [Trades -> {"none", "assigned", "bought", "expired"}]
             /\ news' \subseteq Trades
             /\ HitOK'
  BY <1>a, <1>g, MishapHits DEF Goes, Causes
<1>8. ASSUME NEW t \in Trades, Assign(t) PROVE TypeOK'
  <2>1. BrokerOK' /\ ViewOK' /\ HitOK'
    BY <1>a, <1>g, <1>8 DEF Assign
  <2>2. TradeOK' /\ CycleOK' /\ RecordOK' /\ CheckOK' /\ RestOK' /\ UsedOK'
    BY <1>a, <1>8 DEF Assign, tradeVars, cycleVars, taskVars, worldVars
  <2>. QED
    BY <1>t, <2>1, <2>2
<1>9. ASSUME NEW t \in Trades, Expire(t) PROVE TypeOK'
  <2>1. BrokerOK' /\ ViewOK' /\ HitOK'
    BY <1>a, <1>g, <1>9 DEF Expire
  <2>2. TradeOK' /\ CycleOK' /\ RecordOK' /\ CheckOK' /\ RestOK' /\ UsedOK'
    BY <1>a, <1>9 DEF Expire, tradeVars, cycleVars, taskVars, worldVars
  <2>. QED
    BY <1>t, <2>1, <2>2
<1>10. ASSUME NEW t \in Trades, CloseFills(t) PROVE TypeOK'
  <2>1. BrokerOK' /\ ViewOK' /\ HitOK'
    BY <1>a, <1>g, <1>10 DEF CloseFills
  <2>2. RecordOK'
    BY <1>a, <1>10 DEF CloseFills
  <2>3. TradeOK' /\ CycleOK' /\ CheckOK' /\ RestOK' /\ UsedOK'
    BY <1>a, <1>10 DEF CloseFills, tradeVars, cycleVars, worldVars
  <2>. QED
    BY <1>t, <2>1, <2>2, <2>3
<1>11. ASSUME NEW t \in Trades, BookClose(t) PROVE TypeOK'
  <2>1. TradeOK'
    BY <1>a, <1>s, <1>11 DEF BookClose, TradeStates
  <2>2. RecordOK'
    BY <1>a, <1>11 DEF BookClose
  <2>3. BrokerOK' /\ ViewOK' /\ CycleOK' /\ CheckOK' /\ RestOK' /\ HitOK' /\ UsedOK'
    BY <1>a, <1>11 DEF BookClose, brokerVars, viewVars, cycleVars, worldVars
  <2>. QED
    BY <1>t, <2>1, <2>2, <2>3
<1>12. CASE SeeShares
  <2>1. ViewOK'
    BY <1>a, <1>12 DEF SeeShares
  <2>2. BrokerOK' /\ TradeOK' /\ CycleOK' /\ RecordOK' /\ CheckOK' /\ RestOK' /\ HitOK' /\ UsedOK'
    BY <1>a, <1>12 DEF SeeShares, brokerVars, tradeVars, cycleVars, taskVars, worldVars
  <2>. QED
    BY <1>t, <2>1, <2>2
<1>k. ASSUME NEW k \in Checks, NEW c \in CheckType PROVE [check EXCEPT ![k] = c] \in [Checks -> CheckType]
  BY <1>a
<1>13. ASSUME NEW t \in Trades, NEW k \in Checks, StartCheck(t, k) PROVE CheckOK'
  <2>1. [IdleCheck EXCEPT !.step = "select", !.of = t] \in CheckType
    BY IdleIsCheck DEF CheckType
  <2>. QED
    BY <1>k, <1>13, <2>1 DEF StartCheck
<1>14. ASSUME NEW t \in Trades, NEW k \in Checks, Event(t, k) PROVE TypeOK'
  <2>1. CheckOK'
    BY <1>13, <1>14 DEF Event
  <2>2. ViewOK' /\ HitOK'
    BY <1>a, <1>14, MishapHits DEF Event, Causes
  <2>3. BrokerOK' /\ TradeOK' /\ CycleOK' /\ RecordOK' /\ RestOK' /\ UsedOK'
    BY <1>a, <1>14 DEF Event, brokerVars, tradeVars, cycleVars, worldVars
  <2>. QED
    BY <1>t, <2>1, <2>2, <2>3
<1>15. ASSUME NEW t \in Trades, NEW k \in Checks, EventRepeated(t, k) PROVE TypeOK'
  <2>1. CheckOK'
    BY <1>13, <1>15 DEF EventRepeated
  <2>2. UsedOK'
    BY <1>a, <1>15, SpendCounts DEF EventRepeated, Faults
  <2>3. BrokerOK' /\ ViewOK' /\ TradeOK' /\ CycleOK' /\ RecordOK' /\ RestOK' /\ HitOK'
    BY <1>a, <1>15 DEF EventRepeated, brokerVars, viewVars, tradeVars, cycleVars, worldVars
  <2>. QED
    BY <1>t, <2>1, <2>2, <2>3
<1>16. ASSUME NEW k \in Checks, Select(k) PROVE TypeOK'
  <2>1. CheckOK'
    <3>1. CASE check' = [check EXCEPT ![k] = IdleCheck]
      BY <1>k, <3>1, IdleIsCheck
    <3>2. ASSUME NEW p \in Puts, check' = [check EXCEPT ![k] = [step |-> "mark", of |-> p, cycle |-> link[p]]]
          PROVE  CheckOK'
      <4>1. [step |-> "mark", of |-> p, cycle |-> link[p]] \in CheckType
        BY <1>a, <1>p DEF CheckType
      <4>. QED
        BY <1>k, <3>2, <4>1
    <3>. QED
      BY <1>16, <3>1, <3>2 DEF Select, OpenPutsLike
  <2>3. RestOK'
    BY <1>a, <1>16 DEF Select, worldVars
  <2>4. BrokerOK' /\ ViewOK' /\ TradeOK' /\ CycleOK' /\ RecordOK' /\ HitOK' /\ UsedOK'
    BY <1>a, <1>16 DEF Select, brokerVars, viewVars, tradeVars, cycleVars
  <2>. QED
    BY <1>t, <2>1, <2>3, <2>4
<1>17. ASSUME NEW k \in Checks, MarkAssigned(k) PROVE TypeOK'
  <2>1. check[k] \in CheckType
    BY <1>a
  <2>2. [check[k] EXCEPT !.step = "propose"] \in CheckType
    BY <2>1 DEF CheckType
  <2>3. check' = [check EXCEPT ![k] = [check[k] EXCEPT !.step = "propose"]]
    BY <1>a, <1>17 DEF MarkAssigned
  <2>4. CheckOK'
    BY <1>k, <2>2, <2>3
  <2>5. assigned' \subseteq Puts
    BY <1>a, <2>1, <1>17 DEF MarkAssigned, CheckType
  <2>6. TradeOK'
    BY <1>a, <1>17 DEF MarkAssigned, TradeStates
  <2>7. CycleOK'
    BY <1>a, <2>5, <1>17 DEF MarkAssigned
  <2>8. BrokerOK' /\ ViewOK' /\ RecordOK' /\ RestOK' /\ HitOK' /\ UsedOK'
    BY <1>a, <1>17 DEF MarkAssigned, brokerVars, viewVars, worldVars
  <2>. QED
    BY <1>t, <2>4, <2>6, <2>7, <2>8
<1>18. ASSUME NEW k \in Checks, ProposeCall(k) PROVE TypeOK'
  <2>1. CheckOK'
    BY <1>k, <1>18, IdleIsCheck DEF ProposeCall
  <2>2. RestOK'
    BY <1>a, <1>18 DEF ProposeCall, worldVars
  <2>3. BrokerOK' /\ ViewOK' /\ TradeOK' /\ CycleOK' /\ RecordOK' /\ HitOK' /\ UsedOK'
    BY <1>a, <1>18 DEF ProposeCall, brokerVars, viewVars, tradeVars, cycleVars
  <2>. QED
    BY <1>t, <2>1, <2>2, <2>3
<1>19. CASE ScanRows
  <2>1. RestOK'
    BY <1>a, <1>19 DEF ScanRows, worldVars
  <2>2. BrokerOK' /\ ViewOK' /\ TradeOK' /\ CycleOK' /\ RecordOK' /\ CheckOK' /\ HitOK' /\ UsedOK'
    BY <1>a, <1>19 DEF ScanRows, brokerVars, viewVars, tradeVars, cycleVars
  <2>. QED
    BY <1>t, <2>1, <2>2
<1>20. ASSUME NEW p \in Puts, ScanProposes(p) PROVE TypeOK'
  <2>1. RestOK'
    BY <1>a, <1>20 DEF ScanProposes, worldVars
  <2>2. BrokerOK' /\ ViewOK' /\ TradeOK' /\ CycleOK' /\ RecordOK' /\ CheckOK' /\ HitOK' /\ UsedOK'
    BY <1>a, <1>20 DEF ScanProposes, brokerVars, viewVars, tradeVars, cycleVars
  <2>. QED
    BY <1>t, <2>1, <2>2
<1>21. CASE Disconnect
  <2>1. UsedOK'
    BY <1>a, <1>21, SpendCounts DEF Disconnect, Faults
  <2>2. ViewOK' /\ RestOK' /\ HitOK'
    BY <1>a, <1>21, MishapHits DEF Disconnect, taskVars, Causes
  <2>3. BrokerOK' /\ TradeOK' /\ CycleOK' /\ RecordOK' /\ CheckOK'
    BY <1>a, <1>21 DEF Disconnect, brokerVars, tradeVars, cycleVars, taskVars
  <2>. QED
    BY <1>t, <2>1, <2>2, <2>3
<1>22. CASE Crash
  <2>1. UsedOK'
    BY <1>a, <1>22, SpendCounts DEF Crash, Faults
  <2>2. CheckOK'
    BY <1>22, IdleIsCheck DEF Crash
  <2>3. ViewOK' /\ RestOK' /\ RecordOK'
    BY <1>a, <1>22 DEF Crash
  <2>5. HitOK'
    BY <1>a, <1>22 DEF Crash, Causes
  <2>4. BrokerOK' /\ TradeOK' /\ CycleOK'
    BY <1>a, <1>22 DEF Crash, brokerVars, tradeVars, cycleVars
  <2>. QED
    BY <1>t, <2>1, <2>2, <2>3, <2>4, <2>5
<1>23. CASE Connect
  <2>1. ViewOK' /\ RestOK'
    BY <1>a, <1>23 DEF Connect, taskVars
  <2>2. BrokerOK' /\ TradeOK' /\ CycleOK' /\ RecordOK' /\ CheckOK' /\ HitOK' /\ UsedOK'
    BY <1>a, <1>23 DEF Connect, brokerVars, tradeVars, cycleVars, taskVars
  <2>. QED
    BY <1>t, <2>1, <2>2
<1>25. ASSUME NEW t \in Trades, WriteFails(t) PROVE TypeOK'
  <2>1. RecordOK'
    BY <1>a, <1>25 DEF WriteFails
  <2>2. HitOK' /\ UsedOK'
    BY <1>a, <1>25, SpendCounts, MishapHits DEF WriteFails, Faults, Causes
  <2>3. BrokerOK' /\ ViewOK' /\ TradeOK' /\ CycleOK' /\ CheckOK' /\ RestOK'
    BY <1>a, <1>25 DEF WriteFails, brokerVars, viewVars, tradeVars, cycleVars, worldVars
  <2>. QED
    BY <1>t, <2>1, <2>2, <2>3
<1>26. ASSUME NEW k \in Checks, MarkFails(k) PROVE TypeOK'
  <2>1. CheckOK'
    BY <1>k, <1>26, IdleIsCheck DEF MarkFails
  <2>2. HitOK' /\ UsedOK'
    BY <1>a, <1>26, SpendCounts, MishapHits DEF MarkFails, Faults, Causes
  <2>3. BrokerOK' /\ ViewOK' /\ TradeOK' /\ CycleOK' /\ RecordOK' /\ RestOK'
    BY <1>a, <1>26 DEF MarkFails, brokerVars, viewVars, tradeVars, cycleVars, worldVars
  <2>. QED
    BY <1>t, <2>1, <2>2, <2>3
<1>24. CASE UNCHANGED vars
  BY <1>a, <1>t, <1>24 DEF vars, brokerVars, viewVars, tradeVars, cycleVars, taskVars, worldVars
<1>. QED
  BY <1>1, <1>2, <1>3, <1>4, <1>5, <1>6, <1>7, <1>8, <1>9, <1>10, <1>11, <1>12, <1>14, <1>15,
     <1>16, <1>17, <1>18, <1>19, <1>20, <1>21, <1>22, <1>23, <1>24, <1>25, <1>26
     DEF Next, Work, Detect, CheckStep

-----------------------------------------------------------------------------
(***************************************************************************)
(* Who writes what.                                                        *)
(***************************************************************************)

\* The broker's side changes with fills and with the end of a position.
LEMMA BrokerWriters ==
    [Next]_vars =>
        \/ UNCHANGED <<held, fate, lots>>
        \/ \E p \in Puts : OpenPut(p)
        \/ \E c \in Calls : CallFills(c)
        \/ \E t \in Trades : Assign(t) \/ Expire(t) \/ CloseFills(t)
  BY DEF OpenPut, ApproveCall, DropProposal, CallFills, CallLapses, CreateCycle, LinkCall, Goes, Assign, Expire, CloseFills,
         BookClose, WriteFails, SeeShares, StartCheck, Event, EventRepeated, Select, MarkAssigned, MarkFails, ProposeCall, ScanRows,
         ScanProposes, Disconnect, Crash, Connect, Work, Detect, CheckStep, Next, vars, brokerVars, viewVars,
         tradeVars, cycleVars, taskVars, worldVars

\* The rows of trades are written by fills, lapses, closes and assignments.
LEMMA TradeWriters ==
    [Next]_vars =>
        \/ UNCHANGED <<trade, outcome>>
        \/ \E p \in Puts : OpenPut(p)
        \/ \E c \in Calls : ApproveCall(c) \/ CallFills(c) \/ CallLapses(c)
        \/ \E t \in Trades : BookClose(t)
        \/ \E k \in Checks : MarkAssigned(k)
  BY DEF OpenPut, ApproveCall, DropProposal, CallFills, CallLapses, CreateCycle, LinkCall, Goes, Assign, Expire, CloseFills,
         BookClose, WriteFails, SeeShares, StartCheck, Event, EventRepeated, Select, MarkAssigned, MarkFails, ProposeCall, ScanRows,
         ScanProposes, Disconnect, Crash, Connect, Work, Detect, CheckStep, Next, vars, brokerVars, viewVars,
         tradeVars, cycleVars, taskVars, worldVars

\* Links and cycles.
LEMMA LinkWriters ==
    [Next]_vars =>
        /\ \/ UNCHANGED link
           \/ \E t \in Trades : CreateCycle(t) \/ LinkCall(t)
        /\ \/ UNCHANGED assigned
           \/ \E k \in Checks : MarkAssigned(k)
  BY DEF OpenPut, ApproveCall, DropProposal, CallFills, CallLapses, CreateCycle, LinkCall, Goes, Assign, Expire, CloseFills,
         BookClose, WriteFails, SeeShares, StartCheck, Event, EventRepeated, Select, MarkAssigned, MarkFails, ProposeCall, ScanRows,
         ScanProposes, Disconnect, Crash, Connect, Work, Detect, CheckStep, Next, vars, brokerVars, viewVars,
         tradeVars, cycleVars, taskVars, worldVars

\* Fills and closes that are not booked yet.
LEMMA RecordWriters ==
    [Next]_vars =>
        /\ \/ recording' \subseteq recording
           \/ \E p \in Puts : OpenPut(p)
           \/ \E c \in Calls : CallFills(c)
        /\ \/ closing' \subseteq closing
           \/ \E t \in Trades : CloseFills(t)
  BY DEF OpenPut, ApproveCall, DropProposal, CallFills, CallLapses, CreateCycle, LinkCall, Goes, Assign, Expire, CloseFills,
         BookClose, WriteFails, SeeShares, StartCheck, Event, EventRepeated, Select, MarkAssigned, MarkFails, ProposeCall, ScanRows,
         ScanProposes, Disconnect, Crash, Connect, Work, Detect, CheckStep, Next, vars, brokerVars, viewVars,
         tradeVars, cycleVars, taskVars, worldVars

\* The detection tasks.
LEMMA CheckWriters ==
    [Next]_vars =>
        \/ UNCHANGED check
        \/ Crash
        \/ \E k \in Checks : CheckStep(k) \/ \E t \in Trades : StartCheck(t, k)
  BY DEF OpenPut, ApproveCall, DropProposal, CallFills, CallLapses, CreateCycle, LinkCall, Goes, Assign, Expire, CloseFills,
         BookClose, WriteFails, SeeShares, StartCheck, Event, EventRepeated, Select, MarkAssigned, MarkFails, ProposeCall, ScanRows,
         ScanProposes, Disconnect, Crash, Connect, Work, Detect, CheckStep, Next, vars, brokerVars, viewVars,
         tradeVars, cycleVars, taskVars, worldVars

\* The covered-call scan and the pending proposals.
LEMMA OfferWriters ==
    [Next]_vars =>
        /\ \/ scan' \subseteq scan
           \/ ScanRows
        /\ \/ UNCHANGED proposals
           \/ proposals > 0
           \/ \E k \in Checks : ProposeCall(k)
           \/ \E p \in Puts : ScanProposes(p)
  BY DEF OpenPut, ApproveCall, DropProposal, CallFills, CallLapses, CreateCycle, LinkCall, Goes, Assign, Expire, CloseFills,
         BookClose, WriteFails, SeeShares, StartCheck, Event, EventRepeated, Select, MarkAssigned, MarkFails, ProposeCall, ScanRows,
         ScanProposes, Disconnect, Crash, Connect, Work, Detect, CheckStep, Next, vars, brokerVars, viewVars,
         tradeVars, cycleVars, taskVars, worldVars

\* The shares as the client sees them.
LEMMA SeenWriters ==
    [Next]_vars =>
        \/ UNCHANGED seen
        \/ seen' = lots /\ UNCHANGED lots
  BY DEF OpenPut, ApproveCall, DropProposal, CallFills, CallLapses, CreateCycle, LinkCall, Goes, Assign, Expire, CloseFills,
         BookClose, WriteFails, SeeShares, StartCheck, Event, EventRepeated, Select, MarkAssigned, MarkFails, ProposeCall, ScanRows,
         ScanProposes, Disconnect, Crash, Connect, Work, Detect, CheckStep, Next, vars, brokerVars, viewVars,
         tradeVars, cycleVars, taskVars, worldVars

-----------------------------------------------------------------------------
(***************************************************************************)
(* The invariant, for a careful operator.                                  *)
(***************************************************************************)
\* What the row of a trade says of its position, and the reverse.
RowOK(t) ==
    /\ held[t] = "none" <=> trade[t] \in {"none", "working", "void"}
    /\ held[t] = "held" => trade[t] = "open"
    /\ fate[t] = "none" <=> held[t] # "gone"
    /\ t \in recording => held[t] = "held"
    /\ t \in closing => fate[t] = "bought"
    /\ t \in Puts => trade[t] \notin {"working", "void"}
    /\ trade[t] = "closed" <=> outcome[t] # "none"
    /\ outcome[t] = "Traded" => fate[t] = "bought"
    /\ outcome[t] = "Assigned" => t \in Puts /\ fate[t] = "assigned"

RowsMatch == \A t \in Trades : RowOK(t)

HasPut   == \E p \in Puts : fate[p] = "assigned"
Booked   == \E p \in Puts : outcome[p] = "Assigned"
CallGone == \E c \in Calls : fate[c] = "assigned"

\* Once a put is assigned there is no other, and before that one is open.
OneWheel ==
    \A p, q \in Puts :
        /\ trade[p] = "open" /\ trade[q] = "open" => p = q
        /\ fate[p] = "assigned" /\ (trade[q] = "open" \/ fate[q] = "assigned") => p = q

AtWork(c) == trade[c] \in {"working", "open"}

\* One call at a time; the row of a call that was exercised stays open.
OneCall ==
    /\ \A c, d \in Calls : AtWork(c) /\ AtWork(d) => c = d
    /\ \A c \in Calls : fate[c] = "assigned" => trade[c] = "open"

\* The shares are those of the put, until the call takes them.
SharesMatch ==
    /\ lots = IF HasPut /\ ~CallGone THEN 1 ELSE 0
    /\ CallGone => HasPut
    /\ seen >= 1 => HasPut

\* Calls are proposed and sold only after the assignment is booked.
CallsFollow ==
    /\ proposals > 0 => Booked
    /\ scan # {} => Booked
    /\ \A c \in Calls : trade[c] # "none" => Booked

NoCycle(p) == <<p, "cycle">> \in hit

LinksHold ==
    \A p \in Puts :
        /\ link[p] \in {p, NoTrade}
        /\ NoCycle(p) => link[p] = NoTrade /\ p \notin recording /\ held[p] # "none"
        /\ held[p] # "none" /\ p \notin recording /\ ~NoCycle(p) => link[p] = p

\* Before that it has none, nor while its fill is being recorded.
Unlinked == \A p \in Puts : p \in recording \/ held[p] = "none" => link[p] = NoTrade

\* A task past the look at the shares works on the put that was assigned.
TaskHolds(k) ==
    /\ check[k].step = "select" => check[k].of \in Trades
    /\ check[k].step \in {"mark", "propose"} =>
         check[k].of \in Puts /\ fate[check[k].of] = "assigned"
    /\ check[k].step = "propose" => outcome[check[k].of] = "Assigned"
    /\ check[k].step = "mark" =>
         check[k].cycle = IF NoCycle(check[k].of) THEN NoTrade ELSE check[k].of

TasksHold == \A k \in Checks : TaskHolds(k)

CyclesHold ==
    /\ \A p \in assigned : outcome[p] = "Assigned"
    /\ \A p \in Puts : outcome[p] = "Assigned" => (p \in assigned <=> ~NoCycle(p))

CarefulInv ==
    /\ RowsMatch
    /\ OneWheel
    /\ OneCall
    /\ SharesMatch
    /\ CallsFollow
    /\ LinksHold
    /\ Unlinked
    /\ TasksHold
    /\ CyclesHold

\* A check that began once the shares were reported still sees them.
InHand(p) ==
    \E k \in Checks : /\ check[k].of = p
                      /\ \/ check[k].step = "mark"
                         \/ check[k].step = "select" /\ seen >= 1

Mishit(p) == \E cause \in {"early", "message", "write"} : <<p, cause>> \in hit

NothingMissed ==
    \A p \in Puts : fate[p] = "assigned" =>
        p \in news \/ InHand(p) \/ outcome[p] = "Assigned" \/ Mishit(p)

-----------------------------------------------------------------------------
\* Init satisfies the invariant.
LEMMA InitCareful == Init => CarefulInv /\ NothingMissed
<1> SUFFICES ASSUME Init PROVE CarefulInv /\ NothingMissed
  OBVIOUS
<1> USE DEF Init
<1>p. Puts \subseteq Trades /\ Calls \subseteq Trades
  BY DEF Trades
<1>1. RowsMatch
  BY DEF RowsMatch, RowOK
<1>2. OneWheel /\ OneCall
  BY <1>p DEF OneWheel, OneCall, AtWork
<1>3. ~HasPut /\ ~CallGone
  BY <1>p DEF HasPut, CallGone
<1>4. SharesMatch /\ CallsFollow
  BY <1>p, <1>3 DEF SharesMatch, CallsFollow
<1>5. LinksHold /\ Unlinked
  BY <1>p DEF LinksHold, Unlinked, NoCycle
<1>6. TasksHold
  BY DEF TasksHold, TaskHolds, IdleCheck
<1>7. CyclesHold
  BY <1>p DEF CyclesHold
<1>8. NothingMissed
  BY <1>p DEF NothingMissed
<1>. QED
  BY <1>1, <1>2, <1>4, <1>5, <1>6, <1>7, <1>8 DEF CarefulInv

\* The end of a position: it was held, and only its own fate changes.
LEMMA GoesEffect ==
    ASSUME TypeOK, RowsMatch, NEW t \in Trades, NEW how \in {"assigned", "bought", "expired"},
           Goes(t, how)
    PROVE  /\ held[t] = "held" /\ trade[t] = "open" /\ fate[t] = "none" /\ t \notin recording
           /\ held'[t] = "gone" /\ fate'[t] = how
           /\ \A s \in Trades : s # t => held'[s] = held[s] /\ fate'[s] = fate[s]
<1>1. held[t] = "held" /\ t \notin recording
  BY DEF Goes
<1>2. trade[t] = "open" /\ fate[t] = "none"
  BY <1>1 DEF RowsMatch, RowOK
<1>3. /\ held' = [held EXCEPT ![t] = "gone"] /\ held \in [Trades -> {"none", "held", "gone"}]
      /\ fate' = [fate EXCEPT ![t] = how]
      /\ fate \in [Trades -> {"none", "assigned", "bought", "expired"}]
  BY DEF Goes, TypeOK
<1>. QED
  BY <1>1, <1>2, <1>3

\* What became of a position is final, and only an assignment makes one.
LEMMA FateStays ==
    ASSUME TypeOK, RowsMatch, [Next]_vars
    PROVE  /\ \A t \in Trades : fate[t] # "none" => fate'[t] = fate[t]
           /\ \A t \in Trades : fate'[t] = "assigned" => fate[t] = "assigned" \/ Assign(t)
<1>1. CASE UNCHANGED <<held, fate, lots>>
  BY <1>1
<1>2. ASSUME NEW p \in Puts, OpenPut(p) PROVE UNCHANGED fate
  BY <1>2 DEF OpenPut
<1>3. ASSUME NEW c \in Calls, CallFills(c) PROVE UNCHANGED fate
  BY <1>3 DEF CallFills
<1>4. ASSUME NEW t \in Trades, Assign(t) \/ Expire(t) \/ CloseFills(t)
      PROVE  /\ fate[t] = "none" /\ (fate'[t] = "assigned" => Assign(t))
             /\ \A s \in Trades : s # t => fate'[s] = fate[s]
  <2>1. CASE Assign(t)
    BY <2>1, GoesEffect DEF Assign
  <2>2. CASE Expire(t)
    BY <2>2, GoesEffect DEF Expire
  <2>3. CASE CloseFills(t)
    BY <2>3, GoesEffect DEF CloseFills
  <2>. QED
    BY <1>4, <2>1, <2>2, <2>3
<1>5. CASE \E t \in Trades : Assign(t) \/ Expire(t) \/ CloseFills(t)
  <2>1. PICK t \in Trades : Assign(t) \/ Expire(t) \/ CloseFills(t)
    BY <1>5
  <2>2. /\ fate[t] = "none" /\ (fate'[t] = "assigned" => Assign(t))
        /\ \A s \in Trades : s # t => fate'[s] = fate[s]
    BY <2>1, <1>4
  <2>. QED
    BY <2>2
<1>. QED
  BY BrokerWriters, <1>1, <1>2, <1>3, <1>5

\* A fill takes a trade that has no position.
LEMMA RowsStep ==
    TypeOK /\ RowsMatch /\ TasksHold /\ [Next]_vars => RowsMatch'
<1> SUFFICES ASSUME TypeOK, RowsMatch, TasksHold, [Next]_vars, NEW s \in Trades
             PROVE  RowOK(s)'
  BY DEF RowsMatch
<1>a. /\ held \in [Trades -> {"none", "held", "gone"}]
      /\ fate \in [Trades -> {"none", "assigned", "bought", "expired"}]
      /\ trade \in [Trades -> TradeStates]
      /\ outcome \in [Trades -> {"none", "Traded", "Assigned"}]
  BY DEF TypeOK, TradeStates
<1>b. RowOK(s)
  BY DEF RowsMatch
<1>p. Puts \subseteq Trades /\ Calls \subseteq Trades /\ Puts \cap Calls = {}
  BY WheelTradeAssumption DEF Trades
\* The step leaves this trade alone.
<1>f. ASSUME held'[s] = held[s], fate'[s] = fate[s], trade'[s] = trade[s], outcome'[s] = outcome[s],
             s \in recording' => s \in recording, s \in closing' => s \in closing
      PROVE  RowOK(s)'
  BY <1>b, <1>f DEF RowOK
<1>1. ASSUME NEW p \in Puts, OpenPut(p) PROVE RowOK(s)'
  <2>1. /\ trade[p] = "none" /\ held' = [held EXCEPT ![p] = "held"] /\ trade' = [trade EXCEPT ![p] = "open"]
        /\ recording' = recording \cup {p} /\ UNCHANGED <<fate, outcome, closing>>
    BY <1>1 DEF OpenPut
  <2>2. CASE s # p
    BY <2>1, <2>2, <1>a, <1>f
  <2>3. CASE s = p
    BY <2>1, <2>3, <1>a, <1>b, <1>p DEF RowOK
  <2>. QED
    BY <2>2, <2>3
<1>2. ASSUME NEW c \in Calls, ApproveCall(c) PROVE RowOK(s)'
  <2>1. /\ trade[c] = "none" /\ trade' = [trade EXCEPT ![c] = "working"]
        /\ UNCHANGED <<held, fate, outcome, recording, closing>>
    BY <1>2 DEF ApproveCall, brokerVars, taskVars
  <2>2. CASE s # c
    BY <2>1, <2>2, <1>a, <1>f
  <2>3. CASE s = c
    BY <2>1, <2>3, <1>a, <1>b, <1>p DEF RowOK
  <2>. QED
    BY <2>2, <2>3
<1>3. ASSUME NEW c \in Calls, CallFills(c) PROVE RowOK(s)'
  <2>1. /\ trade[c] = "working" /\ held' = [held EXCEPT ![c] = "held"] /\ trade' = [trade EXCEPT ![c] = "open"]
        /\ recording' = recording \cup {c} /\ UNCHANGED <<fate, outcome, closing>>
    BY <1>3 DEF CallFills
  <2>2. CASE s # c
    BY <2>1, <2>2, <1>a, <1>f
  <2>3. CASE s = c
    BY <2>1, <2>3, <1>a, <1>b, <1>p DEF RowOK
  <2>. QED
    BY <2>2, <2>3
<1>4. ASSUME NEW c \in Calls, CallLapses(c) PROVE RowOK(s)'
  <2>1. /\ trade[c] = "working" /\ trade' = [trade EXCEPT ![c] = "void"]
        /\ UNCHANGED <<held, fate, outcome, recording, closing>>
    BY <1>4 DEF CallLapses, brokerVars, taskVars
  <2>2. CASE s # c
    BY <2>1, <2>2, <1>a, <1>f
  <2>3. CASE s = c
    BY <2>1, <2>3, <1>a, <1>b, <1>p DEF RowOK
  <2>. QED
    BY <2>2, <2>3
<1>5. ASSUME NEW t \in Trades, Assign(t) \/ Expire(t) PROVE RowOK(s)'
  <2>1. \E how \in {"assigned", "expired"} : Goes(t, how)
    BY <1>5 DEF Assign, Expire
  <2>2. UNCHANGED <<trade, outcome, recording, closing>>
    BY <1>5 DEF Assign, Expire, tradeVars, taskVars
  <2>3. PICK how \in {"assigned", "expired"} : Goes(t, how)
    BY <2>1
  <2>4. /\ held[t] = "held" /\ trade[t] = "open" /\ fate[t] = "none" /\ t \notin recording
        /\ held'[t] = "gone" /\ fate'[t] = how
        /\ \A r \in Trades : r # t => held'[r] = held[r] /\ fate'[r] = fate[r]
    BY <2>3, GoesEffect
  <2>5. CASE s # t
    BY <2>2, <2>4, <2>5, <1>f
  <2>6. CASE s = t
    BY <2>2, <2>4, <2>6, <1>b DEF RowOK
  <2>. QED
    BY <2>5, <2>6
<1>6. ASSUME NEW t \in Trades, CloseFills(t) PROVE RowOK(s)'
  <2>1. Goes(t, "bought") /\ closing' = closing \cup {t} /\ UNCHANGED <<trade, outcome, recording>>
    BY <1>6 DEF CloseFills, tradeVars
  <2>2. /\ held[t] = "held" /\ trade[t] = "open" /\ fate[t] = "none" /\ t \notin recording
        /\ held'[t] = "gone" /\ fate'[t] = "bought"
        /\ \A r \in Trades : r # t => held'[r] = held[r] /\ fate'[r] = fate[r]
    BY <2>1, GoesEffect
  <2>3. CASE s # t
    BY <2>1, <2>2, <2>3, <1>f
  <2>4. CASE s = t
    BY <2>1, <2>2, <2>4, <1>b DEF RowOK
  <2>. QED
    BY <2>3, <2>4
<1>7. ASSUME NEW t \in Trades, BookClose(t) PROVE RowOK(s)'
  <2>1. /\ t \in closing /\ closing' = closing \ {t} /\ trade' = [trade EXCEPT ![t] = "closed"]
        /\ outcome' = [outcome EXCEPT ![t] = "Traded"] /\ UNCHANGED <<held, fate, recording>>
    BY <1>7 DEF BookClose, brokerVars
  <2>2. CASE s # t
    BY <2>1, <2>2, <1>a, <1>f
  <2>3. CASE s = t
    BY <2>1, <2>3, <1>a, <1>b DEF RowOK
  <2>. QED
    BY <2>2, <2>3
<1>8. ASSUME NEW k \in Checks, MarkAssigned(k) PROVE RowOK(s)'
  <2>1. /\ trade' = [trade EXCEPT ![check[k].of] = "closed"]
        /\ outcome' = [outcome EXCEPT ![check[k].of] = "Assigned"]
        /\ UNCHANGED <<held, fate, recording, closing>>
    BY <1>8 DEF MarkAssigned, brokerVars
  <2>2. check[k].of \in Puts /\ fate[check[k].of] = "assigned"
    BY <1>8 DEF MarkAssigned, TasksHold, TaskHolds
  <2>3. CASE s # check[k].of
    BY <2>1, <2>3, <1>a, <1>f
  <2>4. CASE s = check[k].of
    BY <2>1, <2>2, <2>4, <1>a, <1>b DEF RowOK
  <2>. QED
    BY <2>3, <2>4
<1>9. CASE /\ UNCHANGED <<held, fate>> /\ UNCHANGED <<trade, outcome>>
           /\ recording' \subseteq recording /\ closing' \subseteq closing
  BY <1>9, <1>f
<1>. QED
  BY BrokerWriters, TradeWriters, RecordWriters, <1>1, <1>2, <1>3, <1>4, <1>5, <1>6, <1>7, <1>8, <1>9

-----------------------------------------------------------------------------
\* A careful operator opens no put on shares, nor while a row is open: so none
\* after the assignment, whose shares are there or went by a call that is open.
LEMMA NoSecondPut ==
    ASSUME Careful, OneCall, SharesMatch, NEW p \in Puts, OpenPut(p)
    PROVE  ~HasPut /\ \A q \in Trades : trade[q] # "open"
<1>1. lots = 0 /\ \A t \in Trades : trade[t] \notin {"working", "open"}
  BY DEF OpenPut
<1>2. ~CallGone
  BY <1>1 DEF OneCall, CallGone, Trades
<1>. QED
  BY <1>1, <1>2 DEF SharesMatch

LEMMA WheelStep ==
    Careful /\ TypeOK /\ CarefulInv /\ [Next]_vars => OneWheel'
<1> SUFFICES ASSUME Careful, TypeOK, CarefulInv, [Next]_vars PROVE OneWheel'
  OBVIOUS
<1>a. RowsMatch /\ OneWheel /\ OneCall /\ SharesMatch
  BY DEF CarefulInv
<1>t. trade \in [Trades -> TradeStates]
  BY DEF TypeOK, TradeStates
<1>p. Puts \subseteq Trades /\ Puts \cap Calls = {} /\ Calls \subseteq Trades
  BY WheelTradeAssumption DEF Trades
<1>1. ASSUME NEW p \in Puts, OpenPut(p) PROVE OneWheel'
  <2>1. ~HasPut /\ \A q \in Trades : trade[q] # "open"
    BY <1>1, <1>a, NoSecondPut
  <2>2. UNCHANGED fate /\ trade' = [trade EXCEPT ![p] = "open"]
    BY <1>1 DEF OpenPut
  <2>3. \A q \in Puts : fate'[q] # "assigned" /\ (trade'[q] = "open" => q = p)
    BY <2>1, <2>2, <1>t, <1>p DEF HasPut
  <2>. QED
    BY <2>3 DEF OneWheel
<1>2. ASSUME \A q \in Puts : trade'[q] = "open" => trade[q] = "open" PROVE OneWheel'
  <2>1. ASSUME NEW p \in Puts, Assign(p) PROVE OneWheel'
    <3>1. Goes(p, "assigned")
      BY <2>1 DEF Assign
    <3>2. trade[p] = "open" /\ fate[p] = "none" /\ \A s \in Trades : s # p => fate'[s] = fate[s]
      BY <3>1, <1>a, <1>p, GoesEffect
    <3>3. ~HasPut
      BY <3>2, <1>a DEF HasPut, OneWheel
    <3>4. \A q \in Puts : fate'[q] = "assigned" => q = p
      BY <3>2, <3>3, <1>p DEF HasPut
    <3>5. \A q \in Puts : trade'[q] = "open" => q = p
      BY <3>2, <1>2, <1>a DEF OneWheel
    <3>. QED
      BY <3>4, <3>5 DEF OneWheel
  <2>2. CASE \A p \in Puts : ~Assign(p)
    <3>1. \A q \in Puts : fate'[q] = "assigned" => fate[q] = "assigned"
      BY <2>2, <1>a, <1>p, FateStays
    <3>. QED
      BY <3>1, <1>2, <1>a DEF OneWheel
  <2>. QED
    BY <2>1, <2>2
<1>3. ASSUME NEW c \in Calls, ApproveCall(c) \/ CallFills(c) \/ CallLapses(c)
      PROVE  \A q \in Puts : trade'[q] = "open" => trade[q] = "open"
  BY <1>3, <1>t, <1>p DEF ApproveCall, CallFills, CallLapses
<1>4. ASSUME NEW t \in Trades, BookClose(t)
      PROVE  \A q \in Puts : trade'[q] = "open" => trade[q] = "open"
  BY <1>4, <1>t, <1>p DEF BookClose
<1>5. ASSUME NEW k \in Checks, MarkAssigned(k)
      PROVE  \A q \in Puts : trade'[q] = "open" => trade[q] = "open"
  BY <1>5, <1>t, <1>p DEF MarkAssigned
<1>. QED
  BY TradeWriters, <1>1, <1>2, <1>3, <1>4, <1>5

LEMMA CallStep ==
    Careful /\ TypeOK /\ CarefulInv /\ [Next]_vars => OneCall'
<1> SUFFICES ASSUME Careful, TypeOK, CarefulInv, [Next]_vars PROVE OneCall'
  OBVIOUS
<1>a. RowsMatch /\ OneCall /\ TasksHold
  BY DEF CarefulInv
<1>t. trade \in [Trades -> TradeStates]
  BY DEF TypeOK, TradeStates
<1>p. Puts \subseteq Trades /\ Puts \cap Calls = {} /\ Calls \subseteq Trades
  BY WheelTradeAssumption DEF Trades
<1>f. \A c \in Calls : fate'[c] = "assigned" => fate[c] = "assigned" \/ Assign(c)
  BY <1>a, <1>p, FateStays
\* No call is put to work, and none that is open loses its row.
<1>q. ASSUME \A c \in Calls : AtWork(c)' => AtWork(c),
             \A c \in Calls : fate'[c] = "assigned" /\ trade[c] = "open" => trade'[c] = "open"
      PROVE  OneCall'
  <2>1. ASSUME NEW c \in Calls, fate'[c] = "assigned" PROVE trade[c] = "open"
    <3>1. CASE fate[c] = "assigned"
      BY <3>1, <1>a DEF OneCall
    <3>2. CASE Assign(c)
      BY <3>2, <1>a, <1>p, GoesEffect DEF Assign
    <3>. QED
      BY <2>1, <1>f, <3>1, <3>2
  <2>. QED
    BY <1>q, <1>a, <2>1 DEF OneCall
<1>1. CASE UNCHANGED <<trade, outcome>>
  BY <1>1, <1>q DEF AtWork
<1>2. ASSUME NEW p \in Puts, OpenPut(p) PROVE OneCall'
  BY <1>2, <1>q, <1>t, <1>p DEF OpenPut, AtWork
<1>3. ASSUME NEW c \in Calls, ApproveCall(c) PROVE OneCall'
  <2>1. /\ \A d \in Calls : ~AtWork(d)
        /\ trade' = [trade EXCEPT ![c] = "working"] /\ fate' = fate
    BY <1>3 DEF ApproveCall, AtWork, brokerVars
  <2>2. \A d \in Calls : AtWork(d)' => d = c
    BY <2>1, <1>t, <1>p DEF AtWork
  <2>3. \A d \in Calls : fate'[d] # "assigned"
    BY <2>1, <1>a DEF OneCall, AtWork
  <2>. QED
    BY <2>2, <2>3 DEF OneCall
<1>4. ASSUME NEW c \in Calls, CallFills(c) PROVE OneCall'
  <2>1. trade[c] = "working" /\ trade' = [trade EXCEPT ![c] = "open"]
    BY <1>4 DEF CallFills
  <2>2. \A d \in Calls : AtWork(d)' => AtWork(d)
    BY <2>1, <1>t, <1>p DEF AtWork
  <2>3. \A d \in Calls : trade[d] = "open" => trade'[d] = "open"
    BY <2>1, <1>t, <1>p
  <2>. QED
    BY <2>2, <2>3, <1>q
<1>5. ASSUME NEW c \in Calls, CallLapses(c) PROVE OneCall'
  <2>1. trade[c] = "working" /\ trade' = [trade EXCEPT ![c] = "void"]
    BY <1>5 DEF CallLapses
  <2>2. \A d \in Calls : AtWork(d)' => AtWork(d)
    BY <2>1, <1>t, <1>p DEF AtWork
  <2>3. \A d \in Calls : trade[d] = "open" => trade'[d] = "open"
    BY <2>1, <1>t, <1>p
  <2>. QED
    BY <2>2, <2>3, <1>q
<1>6. ASSUME NEW t \in Trades, BookClose(t) PROVE OneCall'
  <2>1. t \in closing /\ trade' = [trade EXCEPT ![t] = "closed"] /\ fate' = fate
    BY <1>6 DEF BookClose, brokerVars
  <2>2. fate[t] = "bought"
    BY <2>1, <1>a DEF RowsMatch, RowOK
  <2>3. \A d \in Calls : AtWork(d)' => AtWork(d)
    BY <2>1, <1>t, <1>p DEF AtWork
  <2>4. \A d \in Calls : fate'[d] = "assigned" /\ trade[d] = "open" => trade'[d] = "open"
    BY <2>1, <2>2, <1>t, <1>p
  <2>. QED
    BY <2>3, <2>4, <1>q
<1>7. ASSUME NEW k \in Checks, MarkAssigned(k) PROVE OneCall'
  <2>1. trade' = [trade EXCEPT ![check[k].of] = "closed"] /\ check[k].of \in Puts
    BY <1>7, <1>a DEF MarkAssigned, TasksHold, TaskHolds
  <2>2. \A d \in Calls : trade'[d] = trade[d]
    BY <2>1, <1>t, <1>p
  <2>. QED
    BY <2>2, <1>q DEF AtWork
<1>. QED
  BY TradeWriters, <1>1, <1>2, <1>3, <1>4, <1>5, <1>6, <1>7

\* What is booked as an assignment is one, and stays booked.
LEMMA BookedIsPut ==
    ASSUME RowsMatch PROVE Booked => HasPut
  BY DEF RowsMatch, RowOK, Booked, HasPut, Trades

LEMMA BookedStays ==
    ASSUME TypeOK, RowsMatch, [Next]_vars, NEW p \in Puts, outcome[p] = "Assigned"
    PROVE  outcome'[p] = "Assigned"
<1>t. outcome \in [Trades -> {"none", "Traded", "Assigned"}] /\ p \in Trades
  BY DEF TypeOK, Trades
<1>1. ASSUME NEW q \in Puts, OpenPut(q) PROVE outcome' = outcome
  BY <1>1 DEF OpenPut
<1>2. ASSUME NEW c \in Calls, ApproveCall(c) \/ CallFills(c) \/ CallLapses(c)
      PROVE  outcome' = outcome
  BY <1>2 DEF ApproveCall, CallFills, CallLapses
<1>3. ASSUME NEW t \in Trades, BookClose(t) PROVE outcome'[p] = "Assigned"
  <2>1. t # p
    BY <1>3, <1>t DEF BookClose, RowsMatch, RowOK
  <2>. QED
    BY <1>3, <2>1, <1>t DEF BookClose
<1>4. ASSUME NEW k \in Checks, MarkAssigned(k) PROVE outcome'[p] = "Assigned"
  BY <1>4, <1>t DEF MarkAssigned
<1>. QED
  BY TradeWriters, <1>1, <1>2, <1>3, <1>4

\* A put brings its shares once, a covered call takes them once.
LEMMA SharesStep ==
    Careful /\ TypeOK /\ CarefulInv /\ [Next]_vars => SharesMatch'
<1> SUFFICES ASSUME Careful, TypeOK, CarefulInv, [Next]_vars PROVE SharesMatch'
  OBVIOUS
<1>a. RowsMatch /\ OneWheel /\ OneCall /\ SharesMatch /\ CallsFollow
  BY DEF CarefulInv
<1>p. Puts \subseteq Trades /\ Puts \cap Calls = {} /\ Calls \subseteq Trades /\ Trades = Puts \cup Calls
  BY WheelTradeAssumption DEF Trades
<1>n. lots \in Int /\ seen \in Int
  BY DEF TypeOK
<1>f. /\ \A t \in Trades : fate[t] # "none" => fate'[t] = fate[t]
      /\ \A t \in Trades : fate'[t] = "assigned" => fate[t] = "assigned" \/ Assign(t)
  BY <1>a, FateStays
<1>h. HasPut => HasPut'
  BY <1>f, <1>p DEF HasPut
<1>s. lots' = lots => (seen' >= 1 => HasPut)
  <2>1. lots >= 1 => HasPut
    BY <1>a DEF SharesMatch
  <2>. QED
    BY <2>1, <1>a, SeenWriters DEF SharesMatch
<1>1. ASSUME NEW t \in Trades, Assign(t) PROVE SharesMatch'
  <2>1. Goes(t, "assigned") /\ lots' = lots + (IF t \in Puts THEN 1 ELSE -1) /\ seen' = seen
    BY <1>1 DEF Assign
  <2>2. /\ held[t] = "held" /\ trade[t] = "open" /\ fate[t] = "none" /\ fate'[t] = "assigned"
        /\ \A s \in Trades : s # t => fate'[s] = fate[s]
    BY <2>1, <1>a, GoesEffect
  <2>3. CASE t \in Puts
    <3>1. ~HasPut
      BY <2>2, <2>3, <1>a DEF HasPut, OneWheel
    <3>2. ~CallGone /\ lots = 0
      BY <3>1, <1>a DEF SharesMatch
    <3>3. HasPut' /\ ~CallGone'
      BY <2>2, <2>3, <3>2, <1>p DEF HasPut, CallGone
    <3>. QED
      BY <2>1, <2>3, <3>2, <3>3 DEF SharesMatch
  <2>4. CASE t \in Calls
    <3>1. HasPut
      BY <2>2, <2>4, <1>a, BookedIsPut DEF CallsFollow
    <3>2. ~CallGone
      <4>1. SUFFICES ASSUME NEW d \in Calls, fate[d] = "assigned" PROVE FALSE
        BY DEF CallGone
      <4>2. trade[d] = "open"
        BY <4>1, <1>a DEF OneCall
      <4>3. d = t
        BY <2>2, <2>4, <4>2, <1>a DEF OneCall, AtWork
      <4>. QED
        BY <2>2, <4>1, <4>3
    <3>3. lots = 1
      BY <3>1, <3>2, <1>a DEF SharesMatch
    <3>4. HasPut' /\ CallGone'
      BY <2>2, <2>4, <3>1, <1>h DEF CallGone
    <3>5. lots' = 0
      BY <2>1, <2>4, <3>3, <1>p
    <3>. QED
      BY <3>4, <3>5 DEF SharesMatch
  <2>. QED
    BY <2>3, <2>4, <1>p
<1>2. CASE \A t \in Trades : ~Assign(t)
  <2>1. \A t \in Trades : fate'[t] = "assigned" <=> fate[t] = "assigned"
    BY <1>2, <1>f
  <2>2. (HasPut' <=> HasPut) /\ (CallGone' <=> CallGone)
    BY <2>1, <1>p DEF HasPut, CallGone
  <2>3. lots' = lots
    <3>1. ASSUME NEW t \in Trades, Expire(t) \/ CloseFills(t) PROVE lots' = lots
      BY <3>1 DEF Expire, CloseFills
    <3>2. ASSUME NEW q \in Puts, OpenPut(q) PROVE lots' = lots
      BY <3>2 DEF OpenPut
    <3>3. ASSUME NEW c \in Calls, CallFills(c) PROVE lots' = lots
      BY <3>3 DEF CallFills
    <3>. QED
      BY <1>2, BrokerWriters, <3>1, <3>2, <3>3
  <2>. QED
    BY <2>2, <2>3, <1>s, <1>a DEF SharesMatch
<1>. QED
  BY <1>1, <1>2

\* Calls are offered after the assignment only, and sold only when offered.
LEMMA FollowStep ==
    Careful /\ TypeOK /\ CarefulInv /\ [Next]_vars => CallsFollow'
<1> SUFFICES ASSUME Careful, TypeOK, CarefulInv, [Next]_vars PROVE CallsFollow'
  OBVIOUS
<1>a. RowsMatch /\ CallsFollow /\ TasksHold /\ CyclesHold
  BY DEF CarefulInv
<1>t. trade \in [Trades -> TradeStates] /\ assigned \subseteq Puts
  BY DEF TypeOK, TradeStates
<1>p. Puts \subseteq Trades /\ Puts \cap Calls = {} /\ Calls \subseteq Trades
  BY WheelTradeAssumption DEF Trades
<1>1. CASE Booked'
  BY <1>1 DEF CallsFollow
<1>2. CASE ~Booked'
  <2>b. ~Booked
    BY <1>2, <1>a, BookedStays DEF Booked
  <2>1. /\ ~(proposals > 0) /\ scan = {} /\ \A c \in Calls : trade[c] = "none"
    BY <2>b, <1>a DEF CallsFollow
  <2>2. \A k \in Checks : check[k].step # "propose"
    BY <2>b, <1>a DEF TasksHold, TaskHolds, Booked
  <2>m. \A k \in Checks : ~MarkAssigned(k)
    <3>1. SUFFICES ASSUME NEW k \in Checks, MarkAssigned(k) PROVE FALSE
      OBVIOUS
    <3>2. check[k].of \in Puts /\ outcome' = [outcome EXCEPT ![check[k].of] = "Assigned"]
      BY <3>1, <1>a DEF MarkAssigned, TasksHold, TaskHolds
    <3>3. outcome'[check[k].of] = "Assigned"
      BY <3>2, <1>p DEF TypeOK
    <3>. QED
      BY <3>2, <3>3, <1>2 DEF Booked
  <2>3. proposals' = proposals
    BY <2>1, <2>2, OfferWriters DEF ProposeCall, ScanProposes
  <2>4. scan' = {}
    <3>1. CASE ScanRows
      <4>1. \A p \in Puts : ~NeedsCall(p)
        BY <2>b, <1>a, <1>t DEF NeedsCall, CyclesHold, Booked
      <4>. QED
        BY <3>1, <4>1 DEF ScanRows
    <3>. QED
      BY <2>1, <3>1, OfferWriters
  <2>5. \A c \in Calls : trade'[c] = "none"
    <3>1. ASSUME NEW c \in Calls, ApproveCall(c) \/ CallFills(c) \/ CallLapses(c) PROVE FALSE
      BY <2>1, <3>1 DEF ApproveCall, CallFills, CallLapses
    <3>2. ASSUME NEW q \in Puts, OpenPut(q) PROVE \A c \in Calls : trade'[c] = trade[c]
      BY <3>2, <1>t, <1>p DEF OpenPut
    <3>3. ASSUME NEW t \in Trades, BookClose(t) PROVE \A c \in Calls : trade'[c] = trade[c]
      <4>1. t \in closing /\ trade' = [trade EXCEPT ![t] = "closed"]
        BY <3>3 DEF BookClose
      <4>2. fate[t] = "bought"
        BY <4>1, <1>a DEF RowsMatch, RowOK
      <4>3. held[t] # "none"
        BY <4>2, <1>a DEF RowsMatch, RowOK
      <4>4. trade[t] # "none"
        BY <4>3, <1>a DEF RowsMatch, RowOK
      <4>. QED
        BY <4>1, <4>4, <2>1, <1>t, <1>p
    <3>. QED
      BY <2>1, <2>m, TradeWriters, <3>1, <3>2, <3>3
  <2>. QED
    BY <2>1, <2>3, <2>4, <2>5 DEF CallsFollow
<1>. QED
  BY <1>1, <1>2

-----------------------------------------------------------------------------
\* Mishaps are never forgotten; a put is left without a cycle by its own fill.
LEMMA HitStays ==
    [Next]_vars => hit \subseteq hit'
  BY DEF Mishap, OpenPut, ApproveCall, DropProposal, CallFills, CallLapses, CreateCycle, LinkCall, Goes, Assign, Expire, CloseFills,
         BookClose, WriteFails, SeeShares, StartCheck, Event, EventRepeated, Select, MarkAssigned, MarkFails, ProposeCall, ScanRows,
         ScanProposes, Disconnect, Crash, Connect, Work, Detect, CheckStep, Next, vars, brokerVars, viewVars,
         tradeVars, cycleVars, taskVars, worldVars

LEMMA CycleMishap ==
    ASSUME TypeOK, [Next]_vars, NEW p \in Puts, ~NoCycle(p), NoCycle(p)'
    PROVE  /\ p \in recording /\ p \notin recording'
           /\ UNCHANGED link
           /\ Crash \/ \E t \in Trades : WriteFails(t)
<1>1. ASSUME NEW ts, NEW cause \in Causes, Mishap(ts, cause) PROVE cause = "cycle" /\ p \in ts
  BY <1>1 DEF Mishap, NoCycle
<1>2. ASSUME NEW t \in Trades, Assign(t) \/ Expire(t) \/ CloseFills(t) PROVE FALSE
  <2>1. \E how \in {"assigned", "expired", "bought"} : Goes(t, how)
    BY <1>2 DEF Assign, Expire, CloseFills
  <2>2. \E ts : Mishap(ts, "message")
    BY <2>1 DEF Goes
  <2>. QED
    BY <2>2, <1>1 DEF Causes
<1>3. ASSUME NEW t \in Trades, NEW k \in Checks, Event(t, k) PROVE FALSE
  <2>1. \E ts : Mishap(ts, "early")
    BY <1>3 DEF Event
  <2>. QED
    BY <2>1, <1>1 DEF Causes
<1>4. ASSUME NEW k \in Checks, MarkFails(k) PROVE FALSE
  <2>1. Mishap({check[k].of}, "write")
    BY <1>4 DEF MarkFails
  <2>. QED
    BY <2>1, <1>1 DEF Causes
<1>5. ASSUME Disconnect PROVE FALSE
  <2>1. Mishap(news, "message")
    BY <1>5 DEF Disconnect
  <2>. QED
    BY <2>1, <1>1 DEF Causes
<1>6. ASSUME Crash PROVE p \in recording /\ p \notin recording' /\ UNCHANGED link
  BY <1>6 DEF Crash, NoCycle, tradeVars
<1>7. ASSUME NEW t \in Trades, WriteFails(t)
      PROVE  p \in recording /\ p \notin recording' /\ UNCHANGED link
  <2>1. Mishap({t} \cap recording, "cycle") /\ recording' = recording \ {t} /\ UNCHANGED link
    BY <1>7 DEF WriteFails, tradeVars
  <2>. QED
    BY <2>1, <1>1 DEF Causes
<1>8. ASSUME hit' = hit PROVE FALSE
  BY <1>8 DEF NoCycle
<1>9. \/ hit' = hit \/ Crash \/ Disconnect
      \/ \E t \in Trades : Assign(t) \/ Expire(t) \/ CloseFills(t) \/ WriteFails(t)
      \/ \E k \in Checks : MarkFails(k) \/ \E t \in Trades : Event(t, k)
  BY DEF OpenPut, ApproveCall, DropProposal, CallFills, CallLapses, CreateCycle, LinkCall,
         BookClose, SeeShares, EventRepeated, Select, MarkAssigned, ProposeCall, ScanRows,
         ScanProposes, Connect, Work, Detect, CheckStep, Next, vars
<1>. QED
  BY <1>2, <1>3, <1>4, <1>5, <1>6, <1>7, <1>8, <1>9

\* A put whose fill is recorded has its cycle, unless it was cut off.
LEMMA LinksStep ==
    TypeOK /\ CarefulInv /\ [Next]_vars => LinksHold'
<1> SUFFICES ASSUME TypeOK, CarefulInv, [Next]_vars, NEW p \in Puts
             PROVE  /\ link'[p] \in {p, NoTrade}
                    /\ NoCycle(p)' => link'[p] = NoTrade /\ p \notin recording' /\ held'[p] # "none"
                    /\ held'[p] # "none" /\ p \notin recording' /\ ~NoCycle(p)' => link'[p] = p
  BY DEF LinksHold
<1>a. /\ RowsMatch /\ link[p] \in {p, NoTrade} /\ RowOK(p)
      /\ NoCycle(p) => link[p] = NoTrade /\ p \notin recording /\ held[p] # "none"
      /\ held[p] # "none" /\ p \notin recording /\ ~NoCycle(p) => link[p] = p
  BY DEF CarefulInv, LinksHold, RowsMatch, Trades
<1>u. p \in recording => link[p] = NoTrade /\ held[p] # "none"
  <2>1. Unlinked
    BY DEF CarefulInv
  <2>. QED
    BY <2>1, <1>a DEF Unlinked, RowOK
<1>t. link \in [Trades -> Puts \cup {NoTrade}] /\ held \in [Trades -> {"none", "held", "gone"}]
  BY DEF TypeOK
<1>p. Puts \subseteq Trades /\ Puts \cap Calls = {} /\ Calls \subseteq Trades /\ NoTrade \notin Trades
  BY WheelTradeAssumption DEF Trades
<1>1. ASSUME NEW t \in Trades, CreateCycle(t) \/ LinkCall(t)
      PROVE  /\ link'[p] = link[p] \/ (link'[p] = p /\ p \in recording)
             /\ p \in recording /\ p \notin recording' => link'[p] = p
  <2>1. CASE CreateCycle(t)
    BY <2>1, <1>t, <1>p DEF CreateCycle
  <2>2. CASE LinkCall(t)
    BY <2>2, <1>t, <1>p DEF LinkCall
  <2>. QED
    BY <1>1, <2>1, <2>2
<1>2. link'[p] = link[p] \/ (link'[p] = p /\ p \in recording)
  BY <1>1, LinkWriters
<1>3. held[p] # "none" => held'[p] # "none" /\ (p \in recording' => p \in recording)
  <2>1. ASSUME NEW q \in Puts, OpenPut(q), held[p] # "none" PROVE held'[p] = held[p] /\ (p \in recording' => p \in recording)
    <3>1. trade[q] = "none"
      BY <2>1 DEF OpenPut
    <3>2. q # p
      BY <2>1, <3>1, <1>a DEF RowOK
    <3>. QED
      BY <2>1, <3>2, <1>t, <1>p DEF OpenPut
  <2>2. ASSUME NEW c \in Calls, CallFills(c) PROVE held'[p] = held[p] /\ (p \in recording' => p \in recording)
    BY <2>2, <1>t, <1>p DEF CallFills
  <2>3. ASSUME NEW t \in Trades, Assign(t) \/ Expire(t) \/ CloseFills(t)
        PROVE  held[p] # "none" => held'[p] # "none"
    BY <2>3, <1>t, <1>p DEF Assign, Expire, CloseFills, Goes
  <2>. QED
    BY BrokerWriters, RecordWriters, <2>1, <2>2, <2>3
<1>4. ASSUME held[p] = "none", held'[p] # "none" PROVE p \in recording'
  <2>1. ASSUME NEW q \in Puts, OpenPut(q) PROVE p \in recording'
    BY <1>4, <2>1, <1>t, <1>p DEF OpenPut
  <2>2. ASSUME NEW c \in Calls, CallFills(c) PROVE FALSE
    BY <1>4, <2>2, <1>t, <1>p DEF CallFills
  <2>3. ASSUME NEW t \in Trades, Assign(t) \/ Expire(t) \/ CloseFills(t) PROVE FALSE
    BY <1>4, <2>3, <1>t, <1>p DEF Assign, Expire, CloseFills, Goes
  <2>. QED
    BY <1>4, BrokerWriters, <2>1, <2>2, <2>3
<1>5. ASSUME p \in recording, p \notin recording', ~NoCycle(p)' PROVE link'[p] = p
  <2>1. ~Crash
    BY <1>5, <1>p DEF Crash, NoCycle
  <2>2. ASSUME NEW t \in Trades, WriteFails(t) PROVE FALSE
    <3>1. t = p /\ hit' = hit \cup ((({t} \cap recording) \cap Puts) \X {"cycle"})
      BY <1>5, <2>2 DEF WriteFails, Mishap
    <3>. QED
      BY <1>5, <3>1 DEF NoCycle
  <2>. QED
    BY <1>5, <1>1, <2>1, <2>2 DEF OpenPut, ApproveCall, DropProposal, CallFills, CallLapses, Goes, Assign, Expire, CloseFills,
         BookClose, SeeShares, StartCheck, Event, EventRepeated, Select, MarkAssigned, MarkFails, ProposeCall, ScanRows,
         ScanProposes, Disconnect, Connect, Work, Detect, CheckStep, Next, vars, taskVars
<1>6. NoCycle(p) => NoCycle(p)'
  BY HitStays DEF NoCycle
<1>7. ASSUME ~NoCycle(p), NoCycle(p)'
      PROVE  link'[p] = NoTrade /\ p \notin recording' /\ held'[p] # "none"
  BY <1>7, <1>u, <1>3, CycleMishap
<1>8. ASSUME NoCycle(p)
      PROVE  link'[p] = NoTrade /\ p \notin recording' /\ held'[p] # "none"
  BY <1>8, <1>a, <1>2, <1>3
<1>9. ASSUME held'[p] # "none", p \notin recording', ~NoCycle(p)' PROVE link'[p] = p
  BY <1>9, <1>a, <1>2, <1>4, <1>5, <1>6
<1>. QED
  BY <1>a, <1>2, <1>7, <1>8, <1>9

\* A put whose fill is being recorded has no cycle yet.
LEMMA UnlinkedStep ==
    TypeOK /\ CarefulInv /\ [Next]_vars => Unlinked'
<1> SUFFICES ASSUME TypeOK, CarefulInv, [Next]_vars, NEW p \in Puts,
                    p \in recording' \/ held'[p] = "none"
             PROVE  link'[p] = NoTrade
  BY DEF Unlinked
<1>a. (p \in recording \/ held[p] = "none") => link[p] = NoTrade
  BY DEF CarefulInv, Unlinked
<1>t. link \in [Trades -> Puts \cup {NoTrade}] /\ held \in [Trades -> {"none", "held", "gone"}]
  BY DEF TypeOK
<1>b. RowOK(p)
  BY DEF CarefulInv, RowsMatch, Trades
<1>p. Puts \subseteq Trades /\ Puts \cap Calls = {} /\ Calls \subseteq Trades
  BY WheelTradeAssumption DEF Trades
<1>1. p \in recording \/ held[p] = "none"
  <2>1. ASSUME NEW q \in Puts, OpenPut(q) PROVE p \in recording \/ held[p] = "none"
    <3>1. trade[q] = "none" /\ recording' = recording \cup {q} /\ held' = [held EXCEPT ![q] = "held"]
      BY <2>1 DEF OpenPut
    <3>. QED
      BY <3>1, <1>t, <1>p, <1>b DEF RowOK
  <2>2. ASSUME NEW c \in Calls, CallFills(c) PROVE p \in recording \/ held[p] = "none"
    BY <2>2, <1>t, <1>p DEF CallFills
  <2>3. ASSUME NEW t \in Trades, Assign(t) \/ Expire(t) \/ CloseFills(t)
        PROVE  held'[p] = "none" => held[p] = "none"
    BY <2>3, <1>t, <1>p DEF Assign, Expire, CloseFills, Goes
  <2>. QED
    BY BrokerWriters, RecordWriters, <2>1, <2>2, <2>3
<1>2. ASSUME NEW t \in Trades, CreateCycle(t) \/ LinkCall(t) PROVE link'[p] = link[p]
  <2>1. CASE CreateCycle(t)
    <3>1. t \in recording /\ recording' = recording \ {t} /\ link' = [link EXCEPT ![t] = t]
          /\ UNCHANGED held
      BY <2>1 DEF CreateCycle, brokerVars
    <3>2. t # p
      BY <3>1, <1>b DEF RowOK
    <3>. QED
      BY <3>1, <3>2, <1>t, <1>p
  <2>2. CASE LinkCall(t)
    BY <2>2, <1>t, <1>p DEF LinkCall
  <2>. QED
    BY <1>2, <2>1, <2>2
<1>. QED
  BY <1>1, <1>2, <1>a, LinkWriters

\* What a detection task knows stays true.
LEMMA TasksStep ==
    TypeOK /\ CarefulInv /\ [Next]_vars => TasksHold'
<1> SUFFICES ASSUME TypeOK, CarefulInv, [Next]_vars, NEW k \in Checks PROVE TaskHolds(k)'
  BY DEF TasksHold
<1>a. RowsMatch /\ OneWheel /\ SharesMatch /\ LinksHold /\ TaskHolds(k)
  BY DEF CarefulInv, TasksHold
<1>t. check \in [Checks -> CheckType]
  BY DEF TypeOK, CheckType
<1>p. Puts \subseteq Trades /\ NoTrade \notin Trades
  BY WheelTradeAssumption DEF Trades
<1>f. \A t \in Trades : fate[t] = "assigned" => fate'[t] = "assigned"
  BY <1>a, FateStays
\* A task that books an assignment has left the recording of its put behind.
<1>n. \A p \in Puts : fate[p] = "assigned" => (NoCycle(p)' <=> NoCycle(p))
  <2>1. ASSUME NEW p \in Puts, fate[p] = "assigned", ~NoCycle(p), NoCycle(p)' PROVE FALSE
    <3>1. p \in recording
      BY <2>1, CycleMishap
    <3>. QED
      BY <2>1, <3>1, <1>a, <1>p DEF RowsMatch, RowOK
  <2>2. \A p \in Puts : NoCycle(p) => NoCycle(p)'
    BY HitStays DEF NoCycle
  <2>. QED
    BY <2>1, <2>2
<1>o. \A p \in Puts : outcome[p] = "Assigned" => outcome'[p] = "Assigned"
  BY <1>a, BookedStays
<1>s. ASSUME check'[k] = check[k] PROVE TaskHolds(k)'
  BY <1>s, <1>a, <1>p, <1>f, <1>n, <1>o DEF TaskHolds
<1>i. ASSUME check'[k] = IdleCheck PROVE TaskHolds(k)'
  BY <1>i DEF TaskHolds, IdleCheck
<1>1. ASSUME NEW t \in Trades, NEW j \in Checks, StartCheck(t, j) PROVE TaskHolds(k)'
  <2>1. CASE j # k
    BY <1>1, <2>1, <1>s, <1>t DEF StartCheck
  <2>2. CASE j = k
    <3>1. check'[k] = [IdleCheck EXCEPT !.step = "select", !.of = t]
      BY <1>1, <2>2, <1>t DEF StartCheck
    <3>2. check'[k].step = "select" /\ check'[k].of = t
      BY <3>1 DEF IdleCheck
    <3>. QED
      BY <3>2 DEF TaskHolds
  <2>. QED
    BY <2>1, <2>2
<1>2. ASSUME NEW j \in Checks, Select(j) PROVE TaskHolds(k)'
  <2>1. CASE j # k
    BY <1>2, <2>1, <1>s, <1>t DEF Select
  <2>2. CASE j = k /\ check' = [check EXCEPT ![j] = IdleCheck]
    BY <2>2, <1>i, <1>t
  <2>3. ASSUME j = k, seen >= 1, NEW q \in OpenPutsLike(check[j].of),
               check' = [check EXCEPT ![j] = [step |-> "mark", of |-> q, cycle |-> link[q]]]
        PROVE  TaskHolds(k)'
    <3>1. check'[k] = [step |-> "mark", of |-> q, cycle |-> link[q]]
      BY <2>3, <1>t
    <3>2. q \in Puts /\ trade[q] = "open"
      BY <2>3 DEF OpenPutsLike
    <3>3. PICK w \in Puts : fate[w] = "assigned"
      BY <2>3, <1>a DEF SharesMatch, HasPut
    <3>4. q = w
      BY <3>2, <3>3, <1>a DEF OneWheel
    <3>5. held[q] = "gone"
      BY <3>3, <3>4, <1>a, <1>p DEF RowsMatch, RowOK
    <3>6. q \notin recording
      BY <3>2, <3>5, <1>a, <1>p DEF RowsMatch, RowOK
    <3>7. link[q] = IF NoCycle(q) THEN NoTrade ELSE q
      BY <3>2, <3>5, <3>6, <1>a DEF LinksHold
    <3>8. fate'[q] = "assigned"
      BY <3>2, <3>3, <3>4, <1>p, <1>f
    <3>9. NoCycle(q)' <=> NoCycle(q)
      BY <3>2, <3>3, <3>4, <1>n
    <3>. QED
      BY <3>1, <3>2, <3>7, <3>8, <3>9 DEF TaskHolds
  <2>. QED
    BY <1>2, <2>1, <2>2, <2>3 DEF Select
<1>3. ASSUME NEW j \in Checks, MarkAssigned(j) PROVE TaskHolds(k)'
  <2>1. CASE j # k
    BY <1>3, <2>1, <1>s, <1>t DEF MarkAssigned
  <2>2. CASE j = k
    <3>1. check'[k] = [check[k] EXCEPT !.step = "propose"] /\ check[k].step = "mark" /\ check[k] \in CheckType
      BY <1>3, <2>2, <1>t DEF MarkAssigned
    <3>2. check'[k].step = "propose" /\ check'[k].of = check[k].of
      BY <3>1 DEF CheckType
    <3>3. check[k].of \in Puts
      BY <3>1, <1>a DEF TaskHolds
    <3>4. outcome'[check[k].of] = "Assigned"
      BY <1>3, <2>2, <3>3, <1>p DEF MarkAssigned, TypeOK
    <3>. QED
      BY <3>1, <3>2, <3>4, <1>a, <1>p, <1>f DEF TaskHolds
  <2>. QED
    BY <2>1, <2>2
<1>4. ASSUME NEW j \in Checks, ProposeCall(j) PROVE TaskHolds(k)'
  <2>1. CASE j # k
    BY <1>4, <2>1, <1>s, <1>t DEF ProposeCall
  <2>2. CASE j = k
    BY <1>4, <2>2, <1>i, <1>t DEF ProposeCall
  <2>. QED
    BY <2>1, <2>2
<1>7. ASSUME NEW j \in Checks, MarkFails(j) PROVE TaskHolds(k)'
  <2>1. CASE j # k
    BY <1>7, <2>1, <1>s, <1>t DEF MarkFails
  <2>2. CASE j = k
    BY <1>7, <2>2, <1>i, <1>t DEF MarkFails
  <2>. QED
    BY <2>1, <2>2
<1>5. CASE Crash
  BY <1>5, <1>i DEF Crash
<1>6. CASE UNCHANGED check
  BY <1>6, <1>s
<1>. QED
  BY CheckWriters, <1>1, <1>2, <1>3, <1>4, <1>5, <1>6, <1>7 DEF CheckStep

\* The cycles say what is booked.
LEMMA CyclesStep ==
    TypeOK /\ CarefulInv /\ [Next]_vars => CyclesHold'
<1> SUFFICES ASSUME TypeOK, CarefulInv, [Next]_vars PROVE CyclesHold'
  OBVIOUS
<1>a. RowsMatch /\ TasksHold /\ CyclesHold
  BY DEF CarefulInv
<1>t. outcome \in [Trades -> {"none", "Traded", "Assigned"}] /\ assigned \subseteq Puts
  BY DEF TypeOK
<1>p. Puts \subseteq Trades /\ Puts \cap Calls = {} /\ Calls \subseteq Trades /\ NoTrade \notin Puts
  BY WheelTradeAssumption DEF Trades
<1>o. \A p \in Puts : outcome[p] = "Assigned" => outcome'[p] = "Assigned"
  BY <1>a, BookedStays
<1>1. ASSUME NEW k \in Checks, MarkAssigned(k) PROVE CyclesHold'
  <2>1. /\ outcome' = [outcome EXCEPT ![check[k].of] = "Assigned"]
        /\ assigned' = assigned \cup ({check[k].cycle} \ {NoTrade})
        /\ check[k].step = "mark" /\ UNCHANGED hit
    BY <1>1 DEF MarkAssigned
  <2>2. /\ check[k].of \in Puts
        /\ check[k].cycle = IF NoCycle(check[k].of) THEN NoTrade ELSE check[k].of
    BY <2>1, <1>a DEF TasksHold, TaskHolds
  <2>3. outcome'[check[k].of] = "Assigned"
    BY <2>1, <2>2, <1>t, <1>p
  <2>4. \A p \in assigned' : outcome'[p] = "Assigned"
    BY <2>1, <2>2, <2>3, <1>a, <1>o, <1>t DEF CyclesHold
  <2>5. ASSUME NEW p \in Puts, outcome'[p] = "Assigned"
        PROVE  p \in assigned' <=> ~NoCycle(p)'
    <3>0. NoCycle(p)' <=> NoCycle(p)
      BY <2>1 DEF NoCycle
    <3>1. CASE outcome[p] = "Assigned"
      <4>1. p \in assigned <=> ~NoCycle(p)
        BY <3>1, <1>a DEF CyclesHold
      <4>. QED
        BY <3>0, <4>1, <2>1, <2>2, <1>p
    <3>2. CASE outcome[p] # "Assigned"
      <4>1. p = check[k].of /\ p \notin assigned
        BY <3>2, <2>1, <2>5, <1>t, <1>p, <1>a DEF CyclesHold
      <4>. QED
        BY <3>0, <4>1, <2>1, <2>2, <1>p
    <3>. QED
      BY <3>1, <3>2
  <2>. QED
    BY <2>4, <2>5 DEF CyclesHold
<1>2. CASE \A k \in Checks : ~MarkAssigned(k)
  <2>1. assigned' = assigned
    BY <1>2, LinkWriters
  <2>2. \A p \in Puts : outcome'[p] = "Assigned" => outcome[p] = "Assigned"
    <3>1. ASSUME NEW t \in Trades, BookClose(t)
          PROVE  \A p \in Puts : outcome'[p] = "Assigned" => outcome[p] = "Assigned"
      BY <3>1, <1>t, <1>p DEF BookClose
    <3>2. ASSUME NEW q \in Puts, OpenPut(q) PROVE outcome' = outcome
      BY <3>2 DEF OpenPut
    <3>3. ASSUME NEW c \in Calls, ApproveCall(c) \/ CallFills(c) \/ CallLapses(c)
          PROVE  outcome' = outcome
      BY <3>3 DEF ApproveCall, CallFills, CallLapses
    <3>. QED
      BY <1>2, TradeWriters, <3>1, <3>2, <3>3
  <2>3. \A p \in Puts : outcome[p] = "Assigned" => (NoCycle(p)' <=> NoCycle(p))
    <3>1. ASSUME NEW p \in Puts, outcome[p] = "Assigned", ~NoCycle(p), NoCycle(p)' PROVE FALSE
      <4>1. p \in recording
        BY <3>1, CycleMishap
      <4>. QED
        BY <3>1, <4>1, <1>a, <1>p DEF RowsMatch, RowOK
    <3>2. \A p \in Puts : NoCycle(p) => NoCycle(p)'
      BY HitStays DEF NoCycle
    <3>. QED
      BY <3>1, <3>2
  <2>. QED
    BY <2>1, <2>2, <2>3, <1>a, <1>o, <1>t DEF CyclesHold
<1>. QED
  BY <1>1, <1>2

-----------------------------------------------------------------------------
\* Messages go to a task, with the connection or with the process.
LEMMA NewsWriters ==
    [Next]_vars =>
        \/ news \subseteq news'
        \/ Disconnect \/ Crash
        \/ \E t \in Trades, k \in Checks : Event(t, k)
  BY DEF OpenPut, ApproveCall, DropProposal, CallFills, CallLapses, CreateCycle, LinkCall, Goes, Assign, Expire, CloseFills,
         BookClose, WriteFails, SeeShares, StartCheck, Event, EventRepeated, Select, MarkAssigned, MarkFails, ProposeCall, ScanRows,
         ScanProposes, Disconnect, Crash, Connect, Work, Detect, CheckStep, Next, vars, brokerVars, viewVars,
         tradeVars, cycleVars, taskVars, worldVars

\* While an assignment is not booked no call is sold, so its shares are there.
LEMMA SharesThere ==
    ASSUME TypeOK, CarefulInv, NEW p \in Puts, fate[p] = "assigned", outcome[p] # "Assigned"
    PROVE  lots = 1 /\ trade[p] = "open"
<1>a. RowsMatch /\ OneWheel /\ OneCall /\ SharesMatch /\ CallsFollow
  BY DEF CarefulInv
<1>p. Puts \subseteq Trades /\ Calls \subseteq Trades
  BY DEF Trades
<1>1. HasPut
  BY DEF HasPut
<1>2. ~Booked
  <2>1. ASSUME NEW q \in Puts, outcome[q] = "Assigned" PROVE FALSE
    <3>1. fate[q] = "assigned"
      BY <2>1, <1>a, <1>p DEF RowsMatch, RowOK
    <3>. QED
      BY <2>1, <3>1, <1>a DEF OneWheel
  <2>. QED
    BY <2>1 DEF Booked
<1>3. ~CallGone
  BY <1>2, <1>a DEF CallGone, CallsFollow, OneCall
<1>4. trade[p] = "open"
  <2>1. held[p] = "gone" /\ outcome[p] # "Traded"
    BY <1>a, <1>p DEF RowsMatch, RowOK, TypeOK
  <2>2. /\ outcome \in [Trades -> {"none", "Traded", "Assigned"}] /\ trade \in [Trades -> TradeStates]
    BY DEF TypeOK, TradeStates
  <2>3. outcome[p] = "none"
    BY <2>1, <2>2, <1>p
  <2>. QED
    BY <2>1, <2>2, <2>3, <1>a, <1>p DEF RowsMatch, RowOK, TradeStates
<1>. QED
  BY <1>1, <1>3, <1>4, <1>a DEF SharesMatch

SharesKept ==
    \A q \in Puts : fate[q] = "assigned" /\ outcome[q] # "Assigned" => lots = 1

LEMMA SharesKeptHolds == TypeOK /\ CarefulInv => SharesKept
  BY SharesThere DEF SharesKept

LEMMA SharesThereNext == TypeOK' /\ CarefulInv' => SharesKept'
  BY SharesKeptHolds, PTL

\* An assignment stays under way, in a task, booked, or has met its mishap.
LEMMA MissedStep ==
    TypeOK /\ CarefulInv /\ CarefulInv' /\ NothingMissed /\ [Next]_vars => NothingMissed'
<1> DEFINE Safe(p) == p \in news \/ InHand(p) \/ outcome[p] = "Assigned" \/ Mishit(p)
<1> SUFFICES ASSUME TypeOK, CarefulInv, CarefulInv', NothingMissed, [Next]_vars,
                    NEW p \in Puts, fate'[p] = "assigned"
             PROVE  Safe(p)'
  BY DEF NothingMissed
<1>t. check \in [Checks -> CheckType] /\ outcome \in [Trades -> {"none", "Traded", "Assigned"}]
  BY DEF TypeOK, CheckType
<1>y. seen \in Int /\ seen' \in Int
  BY TypeStep DEF TypeOK
<1>p. Puts \subseteq Trades /\ Puts \cap Calls = {} /\ Calls \subseteq Trades /\ NoTrade \notin Trades
  BY WheelTradeAssumption DEF Trades
<1>a. RowsMatch /\ OneWheel /\ TasksHold
  BY DEF CarefulInv
<1>m. Mishit(p) => Mishit(p)'
  BY HitStays DEF Mishit
<1>h. ASSUME NEW ts, NEW cause \in {"early", "message", "write"}, p \in ts, Mishap(ts, cause)
      PROVE  Mishit(p)'
  BY <1>h DEF Mishap, Mishit
<1>1. CASE fate[p] # "assigned"
  <2>1. Assign(p)
    BY <1>1, <1>a, <1>p, FateStays
  <2>2. p \in news' \/ Mishap({p}, "message")
    BY <2>1 DEF Assign, Goes
  <2>. QED
    BY <2>2, <1>h
<1>2. CASE outcome[p] = "Assigned" \/ Mishit(p)
  BY <1>2, <1>m, <1>a, BookedStays
<1>b. ASSUME fate[p] = "assigned", outcome[p] # "Assigned"
      PROVE  lots = 1 /\ trade[p] = "open"
  BY <1>b, SharesThere
<1>3. CASE fate[p] = "assigned" /\ outcome[p] # "Assigned" /\ p \in news
  <2>1. ASSUME NEW t \in Trades, NEW k \in Checks, Event(t, k), t = p PROVE Safe(p)'
    <3>1. /\ Mishap(IF seen = lots THEN {} ELSE {p}, "early") /\ seen' = seen
          /\ check'[k] = [IdleCheck EXCEPT !.step = "select", !.of = p]
      BY <2>1, <1>t DEF Event, StartCheck
    <3>2. check'[k].step = "select" /\ check'[k].of = p
      BY <3>1 DEF IdleCheck
    <3>3. CASE seen = lots
      <4>1. seen' >= 1
        BY <3>1, <3>3, <1>3, <1>b
      <4>. QED
        BY <3>2, <4>1 DEF InHand
    <3>4. CASE seen # lots
      BY <3>1, <3>4, <1>h
    <3>. QED
      BY <3>3, <3>4
  <2>2. ASSUME NEW t \in Trades, NEW k \in Checks, Event(t, k), t # p PROVE p \in news'
    BY <1>3, <2>2 DEF Event
  <2>3. CASE Disconnect
    BY <1>3, <2>3, <1>h DEF Disconnect
  <2>4. CASE Crash
    BY <1>3, <2>4 DEF Crash, Mishit
  <2>. QED
    BY <1>3, <2>1, <2>2, <2>3, <2>4, NewsWriters
\* The shares stay on view until the assignment is booked.
<1>v. ASSUME fate[p] = "assigned", outcome[p] # "Assigned", outcome'[p] # "Assigned", seen >= 1
      PROVE  seen' >= 1
  <2>1. TypeOK'
    BY TypeStep
  <2>2. lots' = 1
    BY <1>v, <2>1, SharesThereNext DEF SharesKept
  <2>. QED
    BY <1>v, <2>2, SeenWriters
<1>4. ASSUME fate[p] = "assigned", outcome[p] # "Assigned", outcome'[p] # "Assigned", NEW k \in Checks,
             check[k].of = p,
             check[k].step = "mark" \/ (check[k].step = "select" /\ seen >= 1)
      PROVE  Safe(p)'
  <2>1. ASSUME check'[k] = check[k] PROVE Safe(p)'
    BY <1>4, <1>v, <2>1 DEF InHand
  <2>2. ASSUME NEW t \in Trades, NEW j \in Checks, StartCheck(t, j) PROVE Safe(p)'
    <3>1. check[k] # IdleCheck
      BY <1>4 DEF IdleCheck
    <3>2. check'[k] = check[k]
      BY <2>2, <3>1, <1>t DEF StartCheck
    <3>. QED
      BY <3>2, <2>1
  <2>3. ASSUME NEW j \in Checks, j # k, CheckStep(j) PROVE Safe(p)'
    <3>1. check'[k] = check[k]
      BY <2>3, <1>t DEF CheckStep, Select, MarkAssigned, MarkFails, ProposeCall
    <3>. QED
      BY <3>1, <2>1
  <2>4. CASE Select(k)
    <3>1. p \in OpenPutsLike(check[k].of) /\ seen >= 1
      BY <1>4, <1>b, <2>4 DEF OpenPutsLike, Select
    <3>2. PICK q \in OpenPutsLike(check[k].of) :
             check' = [check EXCEPT ![k] = [step |-> "mark", of |-> q, cycle |-> link[q]]]
      BY <2>4, <3>1, <1>y DEF Select
    <3>3. q \in Puts /\ trade[q] = "open"
      BY <3>2 DEF OpenPutsLike
    <3>4. q = p
      BY <1>4, <3>3, <1>a DEF OneWheel
    <3>5. check'[k] = [step |-> "mark", of |-> p, cycle |-> link[p]]
      BY <3>2, <3>4, <1>t
    <3>. QED
      BY <3>5 DEF InHand
  <2>5. CASE MarkAssigned(k)
    BY <1>4, <2>5, <1>t, <1>p DEF MarkAssigned
  <2>6. CASE MarkFails(k)
    BY <1>4, <2>6, <1>h DEF MarkFails
  <2>7. CASE ProposeCall(k)
    BY <1>4, <2>7 DEF ProposeCall
  <2>8. CASE Crash
    <3>1. AtTask(p)
      BY <1>4 DEF AtTask
    <3>. QED
      BY <2>8, <3>1 DEF Crash, Mishit
  <2>. QED
    BY CheckWriters, <2>1, <2>2, <2>3, <2>4, <2>5, <2>6, <2>7, <2>8 DEF CheckStep
<1>. QED
  BY <1>1, <1>2, <1>3, <1>4 DEF NothingMissed, InHand

-----------------------------------------------------------------------------
(***************************************************************************)
(* The theorems.                                                           *)
(***************************************************************************)
\* What every reachable state satisfies.
WheelInv == TypeOK /\ (Careful => CarefulInv /\ NothingMissed)

LEMMA InvStep == WheelInv /\ [Next]_vars => WheelInv'
<1> SUFFICES ASSUME WheelInv, [Next]_vars PROVE WheelInv'
  OBVIOUS
<1>1. TypeOK'
  BY TypeStep DEF WheelInv
<1>2. ASSUME Careful PROVE CarefulInv'
  BY <1>2, RowsStep, WheelStep, CallStep, SharesStep, FollowStep, LinksStep, UnlinkedStep, TasksStep,
     CyclesStep DEF WheelInv, CarefulInv
<1>3. ASSUME Careful PROVE NothingMissed'
  BY <1>2, <1>3, MissedStep DEF WheelInv
<1>. QED
  BY <1>1, <1>2, <1>3 DEF WheelInv

LEMMA InvHolds == Spec => []WheelInv
<1>1. Init => WheelInv
  BY InitType, InitCareful DEF WheelInv
<1>. QED
  BY <1>1, InvStep, PTL DEF Spec

\* Every variable keeps its type, for careless operators too.
THEOREM TypeCorrect == Spec => []TypeOK
<1>1. WheelInv => TypeOK
  BY DEF WheelInv
<1>. QED
  BY <1>1, InvHolds, PTL

\* No cycle is marked assigned for an option that expired or was bought back,
\* in any order of messages, tasks and faults.
THEOREM AssignedHolds == Spec => []AssignedIsReal
<1>1. WheelInv => AssignedIsReal
  BY DEF WheelInv, CarefulInv, CyclesHold, RowsMatch, RowOK, AssignedIsReal, Trades, TypeOK
<1>. QED
  BY <1>1, InvHolds, PTL

\* No call is sold without its hundred shares.
THEOREM Covered == Spec => []CallsAreCovered
<1>1. ASSUME WheelInv, Careful
      PROVE  Cardinality({c \in Calls : held[c] = "held"}) <= lots
  <2> DEFINE Short == {c \in Calls : held[c] = "held"}
  <2>p. Calls \subseteq Trades
    BY DEF Trades
  <2>a. RowsMatch /\ OneCall /\ SharesMatch /\ CallsFollow
    BY <1>1 DEF WheelInv, CarefulInv
  <2>1. CASE Short = {}
    <3>1. Cardinality(Short) = 0
      BY <2>1, FS_EmptySet
    <3>. QED
      BY <3>1, <2>a DEF SharesMatch
  <2>2. ASSUME NEW c \in Short PROVE Cardinality(Short) <= lots
    <3>1. c \in Calls /\ trade[c] = "open" /\ fate[c] = "none"
      BY <2>2, <2>a, <2>p DEF RowsMatch, RowOK
    <3>2. \A d \in Short : d = c
      BY <3>1, <2>a, <2>p DEF RowsMatch, RowOK, OneCall, AtWork
    <3>3. HasPut
      BY <3>1, <2>a, BookedIsPut DEF CallsFollow
    <3>4. ~CallGone
      BY <3>1, <2>a DEF CallGone, OneCall, AtWork
    <3>5. lots = 1
      BY <3>3, <3>4, <2>a DEF SharesMatch
    <3>6. Cardinality({c}) = 1
      BY FS_Singleton
    <3>7. Short = {c}
      BY <3>2, <2>2
    <3>. QED
      BY <3>5, <3>6, <3>7
  <2>. QED
    BY <2>1, <2>2
<1>2. WheelInv => CallsAreCovered
  BY <1>1 DEF CallsAreCovered
<1>. QED
  BY <1>2, InvHolds, PTL

\* A booked assignment is in its wheel cycle exactly if the recording of this
\* put was not cut off between its row and its cycle.
THEOREM ReachesCycle == Spec => []AssignmentReachesCycle
<1>1. ASSUME WheelInv, Careful, NEW p \in Puts, outcome[p] = "Assigned"
      PROVE  p \in assigned /\ link[p] = p <=> <<p, "cycle">> \notin hit
  <2>a. RowsMatch /\ LinksHold /\ CyclesHold /\ p \in Trades
    BY <1>1 DEF WheelInv, CarefulInv, Trades
  <2>1. p \in assigned <=> ~NoCycle(p)
    BY <1>1, <2>a DEF CyclesHold
  <2>2. fate[p] = "assigned"
    BY <1>1, <2>a DEF RowsMatch, RowOK
  <2>3. held[p] = "gone"
    BY <2>2, <2>a DEF RowsMatch, RowOK
  <2>4. p \notin recording
    BY <2>3, <2>a DEF RowsMatch, RowOK
  <2>. QED
    BY <2>1, <2>3, <2>4, <2>a DEF LinksHold, NoCycle
<1>2. WheelInv => AssignmentReachesCycle
  BY <1>1 DEF AssignmentReachesCycle
<1>. QED
  BY <1>2, InvHolds, PTL

\* An assignment is under way, in a task or booked, unless its own message came
\* too early or was cut off, or its own booking failed.
THEOREM NotLost == Spec => []AssignmentNotLost
<1>1. ASSUME WheelInv, Careful, NEW p \in Puts, outcome[p] = "Assigned" PROVE trade[p] = "closed"
  BY <1>1 DEF WheelInv, CarefulInv, RowsMatch, RowOK, Trades
<1>2. \A p : InHand(p) => AtTask(p)
  BY DEF InHand, AtTask
<1>3. WheelInv => AssignmentNotLost
  BY <1>1, <1>2 DEF WheelInv, NothingMissed, Mishit, AssignmentNotLost
<1>. QED
  BY <1>3, InvHolds, PTL

\* No task overwrites how a trade ended.
THEOREM OutcomeStays == Spec => OutcomeIsFinal
<1>1. ASSUME WheelInv, [Next]_vars, Careful, NEW t \in Trades, outcome[t] # "none"
      PROVE  outcome'[t] = outcome[t] /\ trade'[t] = "closed"
  <2>a. RowsMatch /\ TasksHold
    BY <1>1 DEF WheelInv, CarefulInv
  <2>t. /\ trade \in [Trades -> TradeStates]
        /\ outcome \in [Trades -> {"none", "Traded", "Assigned"}]
    BY <1>1 DEF WheelInv, TypeOK, TradeStates
  <2>p. Puts \subseteq Trades /\ Calls \subseteq Trades
    BY DEF Trades
  <2>1. trade[t] = "closed"
    BY <1>1, <2>a DEF RowsMatch, RowOK
  <2>2. ASSUME NEW p \in Puts, OpenPut(p) PROVE outcome'[t] = outcome[t] /\ trade'[t] = "closed"
    BY <2>1, <2>2, <2>t, <2>p DEF OpenPut
  <2>3. ASSUME NEW c \in Calls, ApproveCall(c) \/ CallFills(c) \/ CallLapses(c)
        PROVE  outcome'[t] = outcome[t] /\ trade'[t] = "closed"
    BY <2>1, <2>3, <2>t, <2>p DEF ApproveCall, CallFills, CallLapses
  <2>4. ASSUME NEW s \in Trades, BookClose(s) PROVE outcome'[t] = outcome[t] /\ trade'[t] = "closed"
    <3>1. s = t => fate[t] = "bought"
      BY <2>4, <2>a DEF BookClose, RowsMatch, RowOK
    <3>2. s = t => outcome[t] = "Traded"
      BY <3>1, <1>1, <2>a, <2>t DEF RowsMatch, RowOK
    <3>. QED
      BY <2>1, <2>4, <3>2, <2>t DEF BookClose
  <2>5. ASSUME NEW k \in Checks, MarkAssigned(k)
        PROVE  outcome'[t] = outcome[t] /\ trade'[t] = "closed"
    <3>1. check[k].of \in Trades /\ fate[check[k].of] = "assigned"
      BY <2>5, <2>a, <2>p DEF MarkAssigned, TasksHold, TaskHolds
    <3>2. check[k].of = t => outcome[t] = "Assigned"
      BY <3>1, <1>1, <2>a, <2>t DEF RowsMatch, RowOK
    <3>. QED
      BY <2>1, <2>5, <3>1, <3>2, <2>t DEF MarkAssigned
  <2>. QED
    BY <1>1, <2>1, <2>2, <2>3, <2>4, <2>5, TradeWriters
<1>2. WheelInv /\ [Next]_vars =>
        [Careful =>
           \A t \in Trades : outcome[t] # "none" =>
               outcome'[t] = outcome[t] /\ trade'[t] = "closed"]_vars
  BY <1>1
<1>. QED
  BY <1>2, InvHolds, PTL DEF Spec, OutcomeIsFinal
=============================================================================
