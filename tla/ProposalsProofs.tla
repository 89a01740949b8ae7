-------------------------- MODULE ProposalsProofs ---------------------------
(***************************************************************************)
(* Proofs about Proposals, for any number of proposals, tickers, slots and *)
(* events, and any watchlists.                                             *)
(*                                                                         *)
(* The command handler is described by CommandHolds (the proposal it works *)
(* on is pending), CommandWaits and OrdersCounted (how many orders each    *)
(* proposal has);                                                          *)
(* the scans by ScanShape (which runs can hold premium candidates, and     *)
(* when two of them, or two lists, can hold one ticker) and Bounded: the   *)
(* pending premium proposals of a ticker and the candidates that can still *)
(* become one are together within the bound, since a candidate is added    *)
(* only while nothing is pending.                                          *)
(***************************************************************************)
EXTENDS Proposals, FiniteSetTheorems, TLAPS

Sending(p) == cmd.step \in {"sent", "approving"} /\ cmd.id = p

CommandHolds ==
    cmd.step \in {"building", "intent", "sent", "approving"} =>
        cmd.id \in Ids /\ status[cmd.id] = "pending"

OrdersCounted ==
    \A p \in Ids :
        Len(order[p]) = cut[p] + (IF Sending(p) \/ status[p] = "approved" THEN 1 ELSE 0)

\* The handler that started /scan waits for it.
CommandWaits == run["command"].step # "idle" => cmd.step = "scan"

DownIsIdle == ~up => \A r \in Runs : run[r] = IdleRun

InScope ==
    /\ \A r \in Runs : \A pair \in run[r].found :
          pair[1] \in Premium => r \in PremiumRuns /\ UnderWay(r)
    /\ ~UnderWay("assignment")

SeenIsKept ==
    \A r \in Runs :
        /\ run[r].step = "scanning" =>
              \A pair \in run[r].found : pair[1] \in Premium => pair \in run[r].seen
        /\ run[r].step # "scanning" => run[r].seen = {}

Apart == events["overlap"] = 0 => ~(UnderWay("job") /\ UnderWay("command"))

ListedOnce ==
    \A tk \in Tickers \ twice : \A b, c \in Premium : b # c =>
        /\ tk \in watch[b] => tk \notin watch[c]
        /\ \A r \in PremiumRuns :
              /\ <<b, tk>> \in run[r].seen => tk \notin watch[c] /\ <<c, tk>> \notin run[r].seen
              /\ <<b, tk>> \in run[r].found => <<c, tk>> \notin run[r].found

ScanShape ==
    /\ DownIsIdle /\ InScope /\ SeenIsKept /\ Apart /\ ListedOnce
    /\ Configured["Core"] \cap Configured["Tactical"] \subseteq twice

\* The candidates that can still become a premium proposal of the ticker.
Claims(tk) == {claim \in PremiumRuns \X Premium : <<claim[2], tk>> \in run[claim[1]].found}

Bounded ==
    \A tk \in Tickers :
        /\ IsFiniteSet(PendingPremium(tk))
        /\ Cardinality(PendingPremium(tk)) + Cardinality(Claims(tk)) <= Limit(tk)

Inv == TypeOK /\ CommandWaits /\ CommandHolds /\ OrdersCounted /\ ScanShape /\ Bounded

-----------------------------------------------------------------------------
\* A set whose members are all equal has one element at most.
LEMMA SmallSet ==
    ASSUME NEW S, \A x, y \in S : x = y
    PROVE  Cardinality(S) <= 1
<1>1. CASE S = {}
  BY <1>1, FS_EmptySet
<1>2. CASE S # {}
  <2>1. PICK x : x \in S
    BY <1>2
  <2>2. S = {x}
    BY <2>1
  <2>. QED
    BY <2>2, FS_Singleton
<1>. QED
  BY <1>1, <1>2

\* An expiry is a point in time.
LEMMA ExpiryIsTime ==
    ASSUME time \in 0..LastSlot, NEW k
    PROVE  ExpiresAt(k) \in Nat
<1>1. time \in Nat /\ Ttl \in Nat /\ CallTtl \in Nat /\ LastSlot \in Nat
  BY CountAssumption
<1>2. CloseCap \in Int
  <2>1. time % 6 \in Int
    BY <1>1
  <2>. QED
    BY <1>1, <2>1 DEF CloseCap, Slot, SlotsPerDay, CloseBlackout
<1>3. CASE k \in {"Momentum", "Call"}
  BY <1>1, <1>3 DEF ExpiresAt
<1>4. CASE k \notin {"Momentum", "Call"} /\ time + Ttl > CloseCap /\ CloseCap > time
  <2>1. CloseCap \in Nat
    BY <1>1, <1>2, <1>4
  <2>. QED
    BY <1>4, <2>1 DEF ExpiresAt
<1>5. CASE k \notin {"Momentum", "Call"} /\ ~(time + Ttl > CloseCap /\ CloseCap > time)
  BY <1>1, <1>5 DEF ExpiresAt
<1>. QED
  BY <1>3, <1>4, <1>5

StatusType == [Ids -> {"none", "pending", "approved", "rejected", "expired"}]
OrderType == [Ids -> Seq({"working", "open", "done"})]
RunType == [step : {"idle", "scanning", "building", "calls"},
            seen : SUBSET Pairs, found : SUBSET Pairs]
CmdType == [step : {"idle", "scan", "building", "intent", "sent", "approving"},
            id : Ids \cup {NoId}]
PropTypes == /\ status \in StatusType /\ ticker \in [Ids -> Tickers]
             /\ kind \in [Ids -> Kinds] /\ expires \in [Ids -> Nat]
WorldTypes == up \in BOOLEAN /\ time \in 0..LastSlot /\ events \in [Events -> Nat]
HistoryTypes == cut \in [Ids -> Nat] /\ twice \subseteq Tickers
AllTypes ==
    /\ PropTypes /\ order \in OrderType /\ assigned \subseteq Tickers
    /\ watch \in [Buckets -> SUBSET Tickers]
    /\ run \in [Runs -> RunType] /\ cmd \in CmdType /\ WorldTypes /\ HistoryTypes

LEMMA TypesAre == TypeOK <=> AllTypes
  BY DEF TypeOK, AllTypes, PropTypes, WorldTypes, HistoryTypes, StatusType, OrderType, RunType, CmdType

LEMMA IdleTypes == IdleRun \in RunType /\ IdleCmd \in CmdType
  BY DEF IdleRun, IdleCmd, RunType, CmdType

\* An event is counted, and counts are never taken back.
LEMMA EventCounted ==
    ASSUME events \in [Events -> Nat], NEW e \in Events, Happens(e)
    PROVE  /\ events' \in [Events -> Nat]
           /\ events'[e] > 0
           /\ \A f \in Events : events[f] > 0 => events'[f] > 0
<1>1. events' = [events EXCEPT ![e] = events[e] + 1]
  BY DEF Happens
<1>2. events[e] \in Nat
  OBVIOUS
<1>. QED
  BY <1>1, <1>2

\* The values of the bound.
LEMMA LimitIs ==
    ASSUME NEW tk
    PROVE  /\ Limit(tk) \in {1, 2, 4}
           /\ events["overlap"] > 0 => Limit(tk) = IF tk \in twice THEN 4 ELSE 2
           /\ ~(events["overlap"] > 0) => Limit(tk) = IF tk \in twice THEN 2 ELSE 1
  BY DEF Limit

\* Init satisfies the invariant.
THEOREM InitHolds == Init => Inv
<1> SUFFICES ASSUME Init PROVE Inv
  OBVIOUS
<1> USE DEF Init
<1>1. TypeOK
  <2>1. status \in StatusType /\ kind \in [Ids -> Kinds] /\ expires \in [Ids -> Nat]
    BY DEF StatusType, Kinds, Buckets
  <2>2. ticker \in [Ids -> Tickers]
    BY WatchAssumption
  <2>3. order \in OrderType
    BY DEF OrderType
  <2>4. watch \in [Buckets -> SUBSET Tickers] /\ assigned \subseteq Tickers
    BY WatchAssumption
  <2>5. run \in [Runs -> RunType] /\ cmd \in CmdType
    BY IdleTypes
  <2>6. time \in 0..LastSlot
    BY LongEnough, CountAssumption DEF Morning
  <2>7. WorldTypes
    BY <2>6 DEF WorldTypes
  <2>8. HistoryTypes
    BY WatchAssumption DEF HistoryTypes, Buckets
  <2>. QED
    BY <2>1, <2>2, <2>3, <2>4, <2>5, <2>7, <2>8, TypesAre DEF AllTypes, PropTypes
<1>2. CommandHolds /\ OrdersCounted
  BY DEF CommandHolds, OrdersCounted, Sending, IdleCmd
<1>3. \A r \in Runs : run[r].step = "idle" /\ run[r].found = {} /\ run[r].seen = {} /\ run[r] = IdleRun
  BY DEF IdleRun
<1>4. ScanShape
  <2>1. DownIsIdle /\ InScope /\ SeenIsKept /\ Apart
    BY <1>3 DEF DownIsIdle, InScope, SeenIsKept, Apart, UnderWay, Runs
  <2>2. ListedOnce
    BY <1>3 DEF ListedOnce, Premium, PremiumRuns, Runs
  <2>. QED
    BY <2>1, <2>2 DEF ScanShape
<1>5. Bounded
  <2>1. ASSUME NEW tk \in Tickers PROVE PendingPremium(tk) = {} /\ Claims(tk) = {}
    BY <1>3 DEF PendingPremium, PendingOn, Claims, PremiumRuns, Runs
  <2>2. IsFiniteSet({}) /\ Cardinality({}) = 0
    BY FS_EmptySet
  <2>3. ASSUME NEW tk \in Tickers
        PROVE  /\ IsFiniteSet(PendingPremium(tk))
               /\ Cardinality(PendingPremium(tk)) + Cardinality(Claims(tk)) <= Limit(tk)
    <3>1. Limit(tk) \in {1, 2, 4}
      BY LimitIs
    <3>2. PendingPremium(tk) = {} /\ Claims(tk) = {}
      BY <2>1
    <3>3. Cardinality(PendingPremium(tk)) = 0 /\ Cardinality(Claims(tk)) = 0
      BY <2>2, <3>2
    <3>4. IsFiniteSet(PendingPremium(tk))
      BY <2>2, <3>2
    <3>. QED
      BY <3>1, <3>3, <3>4
  <2>. QED
    BY <2>3 DEF Bounded
<1>6. CommandWaits
  BY <1>3 DEF CommandWaits, Runs
<1>. QED
  BY <1>1, <1>2, <1>4, <1>5, <1>6 DEF Inv

-----------------------------------------------------------------------------
\* A step gives every variable a value of its type.
LEMMA TypeStep == TypeOK /\ [Next]_vars => TypeOK'
<1> SUFFICES ASSUME AllTypes, [Next]_vars PROVE AllTypes'
  BY TypesAre, PTL
<1>a. /\ PropTypes /\ order \in OrderType /\ assigned \subseteq Tickers
      /\ watch \in [Buckets -> SUBSET Tickers]
      /\ run \in [Runs -> RunType] /\ cmd \in CmdType /\ WorldTypes /\ HistoryTypes
      /\ status \in StatusType /\ time \in 0..LastSlot /\ events \in [Events -> Nat]
      /\ ticker \in [Ids -> Tickers] /\ cut \in [Ids -> Nat]
  BY DEF AllTypes, PropTypes, WorldTypes, HistoryTypes
<1>p. UNCHANGED propVars => PropTypes'
  BY <1>a DEF propVars, PropTypes
<1>w. UNCHANGED worldVars => WorldTypes'
  BY <1>a DEF worldVars, WorldTypes
<1>h. UNCHANGED history => HistoryTypes'
  BY <1>a DEF history, HistoryTypes
<1>e. ASSUME NEW e \in Events, Happens(e) PROVE events' \in [Events -> Nat]
  BY <1>a, <1>e, EventCounted
<1>r. ASSUME NEW r \in Runs, NEW f \in RunType PROVE [run EXCEPT ![r] = f] \in [Runs -> RunType]
  BY <1>a
<1>s. ASSUME NEW p \in Ids, NEW v \in {"pending", "approved", "rejected", "expired"}
      PROVE  [status EXCEPT ![p] = v] \in StatusType
  BY <1>a DEF StatusType
<1>1. ASSUME NEW r \in Runs, Start(r), UNCHANGED <<up, time>>
      PROVE  run' \in [Runs -> RunType] /\ WorldTypes'
  <2>1. [IdleRun EXCEPT !.step = "scanning"] \in RunType
    BY DEF IdleRun, RunType
  <2>2. events' \in [Events -> Nat]
    BY <1>a, <1>1, <1>e DEF Start, Events
  <2>. QED
    BY <1>a, <1>1, <1>r, <2>1, <2>2 DEF Start, WorldTypes
<1>2. ASSUME NEW r \in Runs, ScheduledScan(r) PROVE AllTypes'
  BY <1>a, <1>p, <1>h, <1>1, <1>2 DEF ScheduledScan, AllTypes
<1>3. CASE CommandScan
  <2>1. cmd' \in CmdType
    BY <1>a, <1>3 DEF CommandScan, CmdType
  <2>2. run' \in [Runs -> RunType] /\ WorldTypes'
    BY <1>1, <1>3 DEF CommandScan, Runs
  <2>. QED
    BY <1>a, <1>p, <1>h, <2>1, <2>2, <1>3 DEF CommandScan, AllTypes
<1>4. ASSUME NEW r \in Runs, NEW pair \in Pairs, LookAt(r, pair) PROVE AllTypes'
  <2>1. PICK keep : /\ keep \in {{}} \cup (IF Eligible(pair[1], pair[2]) THEN {{pair}} ELSE {})
                    /\ run' = [run EXCEPT ![r].seen = @ \cup {pair}, ![r].found = @ \cup keep]
    BY <1>4 DEF LookAt
  <2>2. keep \subseteq Pairs
    BY <2>1
  <2>3. [run[r] EXCEPT !.seen = @ \cup {pair}, !.found = @ \cup keep] \in RunType
    BY <1>a, <2>2 DEF RunType
  <2>4. run' = [run EXCEPT ![r] = [run[r] EXCEPT !.seen = @ \cup {pair}, !.found = @ \cup keep]]
    BY <1>a, <2>1
  <2>. QED
    BY <1>a, <1>p, <1>w, <1>h, <1>r, <2>3, <2>4, <1>4 DEF LookAt, AllTypes
<1>5. ASSUME NEW r \in Runs, Rank(r) PROVE AllTypes'
  <2>1. PICK top \in SUBSET run[r].found :
          run' = [run EXCEPT ![r] = [step |-> "building", seen |-> {}, found |-> top]]
    BY <1>5 DEF Rank
  <2>2. [step |-> "building", seen |-> {}, found |-> top] \in RunType
    BY <1>a, <2>1 DEF RunType
  <2>. QED
    BY <1>a, <1>p, <1>w, <1>h, <1>r, <2>1, <2>2, <1>5 DEF Rank, AllTypes
<1>6. ASSUME NEW r \in Runs, NEW pair \in Pairs,
             run' = [run EXCEPT ![r].found = @ \ {pair}]
      PROVE  run' \in [Runs -> RunType]
  <2>1. [run[r] EXCEPT !.found = @ \ {pair}] \in RunType
    BY <1>a DEF RunType
  <2>2. run' = [run EXCEPT ![r] = [run[r] EXCEPT !.found = @ \ {pair}]]
    BY <1>a, <1>6
  <2>. QED
    BY <1>r, <2>1, <2>2
<1>7. ASSUME NEW r \in Runs, NEW pair \in Pairs, NEW p \in Ids, Propose(r, pair, p) PROVE AllTypes'
  <2>1. ExpiresAt(pair[1]) \in Nat
    BY <1>a, ExpiryIsTime
  <2>2. pair[1] \in Kinds /\ pair[2] \in Tickers
    BY DEF Pairs
  <2>3. run' \in [Runs -> RunType]
    BY <1>6, <1>7 DEF Propose
  <2>4. /\ ticker' \in [Ids -> Tickers] /\ kind' \in [Ids -> Kinds]
        /\ expires' \in [Ids -> Nat]
    BY <1>a, <2>1, <2>2, <1>7 DEF Propose, PropTypes
  <2>5. status' \in StatusType
    BY <1>s, <1>7 DEF Propose
  <2>. QED
    BY <1>a, <1>w, <1>h, <2>3, <2>4, <2>5, <1>7 DEF Propose, AllTypes, PropTypes
<1>8. ASSUME NEW r \in Runs, NEW pair \in Pairs, NotBuilt(r, pair) PROVE AllTypes'
  BY <1>a, <1>p, <1>w, <1>h, <1>6, <1>8 DEF NotBuilt, AllTypes
<1>9. ASSUME NEW r \in Runs, FinishScan(r) \/ ScanRaises(r) PROVE AllTypes'
  <2>1. cmd' \in CmdType
    BY <1>a, IdleTypes, <1>9 DEF FinishScan, ScanRaises
  <2>2. run' \in [Runs -> RunType]
    BY <1>r, IdleTypes, <1>9 DEF FinishScan, ScanRaises
  <2>3. UNCHANGED propVars /\ UNCHANGED <<order, assigned, watch>>
        /\ UNCHANGED worldVars /\ UNCHANGED history
    BY <1>9 DEF FinishScan, ScanRaises
  <2>. QED
    BY <1>a, <1>p, <1>w, <1>h, <2>1, <2>2, <2>3 DEF AllTypes
<1>10. CASE TurnToCalls
  <2>1. {"Call"} \X Uncovered \subseteq Pairs
    BY <1>a DEF Uncovered, Pairs, Kinds
  <2>2. [step |-> "calls", seen |-> {}, found |-> {"Call"} \X Uncovered] \in RunType
    BY <2>1 DEF RunType
  <2>3. run' \in [Runs -> RunType]
    BY <1>r, <2>2, <1>10 DEF TurnToCalls, Runs
  <2>. QED
    BY <1>a, <1>p, <1>w, <1>h, <2>3, <1>10 DEF TurnToCalls, AllTypes
<1>11. ASSUME NEW p \in Ids, ApproveExpired(p) \/ Reject(p) PROVE AllTypes'
  <2>1. status' \in StatusType
    BY <1>s, <1>11 DEF ApproveExpired, Reject
  <2>2. /\ UNCHANGED <<ticker, kind, expires, order, assigned, watch, run, cmd>>
        /\ UNCHANGED worldVars /\ UNCHANGED history
    BY <1>11 DEF ApproveExpired, Reject
  <2>. QED
    BY <1>a, <1>w, <1>h, <2>1, <2>2 DEF AllTypes, PropTypes
<1>12. ASSUME NEW p \in Ids, Approve(p) PROVE AllTypes'
  <2>1. cmd' \in CmdType
    BY <1>12 DEF Approve, CmdType
  <2>. QED
    BY <1>a, <1>p, <1>w, <1>h, <2>1, <1>12 DEF Approve, AllTypes
<1>13. CASE WriteIntent \/ NothingSent \/ CommitSubmitted
  <2>1. cmd' \in CmdType
    BY <1>a, <1>13, IdleTypes DEF WriteIntent, NothingSent, CommitSubmitted, CmdType
  <2>2. UNCHANGED propVars /\ UNCHANGED <<order, assigned, watch, run>>
        /\ UNCHANGED worldVars /\ UNCHANGED history
    BY <1>13 DEF WriteIntent, NothingSent, CommitSubmitted
  <2>. QED
    BY <1>a, <1>p, <1>w, <1>h, <2>1, <2>2 DEF AllTypes
<1>14. CASE SendOrder
  <2>1. cmd' \in CmdType
    BY <1>a, <1>14 DEF SendOrder, CmdType
  <2>2. \A p \in Ids : Append(order[p], "working") \in Seq({"working", "open", "done"})
    BY <1>a DEF OrderType
  <2>3. order' \in OrderType
    BY <1>a, <2>2, <1>14 DEF SendOrder, OrderType
  <2>. QED
    BY <1>a, <1>p, <1>w, <1>h, <2>1, <2>3, <1>14 DEF SendOrder, AllTypes
<1>15. CASE MarkApproved
  <2>1. status' \in StatusType
    BY <1>a, <1>15 DEF MarkApproved, StatusType
  <2>. QED
    BY <1>a, <1>w, <1>h, <2>1, IdleTypes, <1>15 DEF MarkApproved, AllTypes, PropTypes
<1>16. CutOff => cut' \in [Ids -> Nat]
  <2>1. CASE cmd.id \in Ids
    BY <1>a, <2>1 DEF CutOff
  <2>2. CASE cmd.id \notin Ids
    BY <1>a, <2>2 DEF CutOff
  <2>. QED
    BY <2>1, <2>2
<1>17. CASE UpdateFails
  <2>1. events' \in [Events -> Nat]
    BY <1>e, <1>17 DEF UpdateFails, Events
  <2>2. cut' \in [Ids -> Nat]
    BY <1>16, <1>17 DEF UpdateFails
  <2>. QED
    BY <1>a, <1>p, <2>1, <2>2, IdleTypes, <1>17 DEF UpdateFails, AllTypes, WorldTypes, HistoryTypes
<1>18. ASSUME NEW b \in Buckets, NEW tk \in Tickers, AddTicker(b, tk) \/ RemoveTicker(b, tk)
       PROVE  AllTypes'
  <2>1. watch' \in [Buckets -> SUBSET Tickers]
    BY <1>a, <1>18 DEF AddTicker, RemoveTicker
  <2>2. events' \in [Events -> Nat]
    BY <1>e, <1>18 DEF AddTicker, RemoveTicker, Events
  <2>3. HistoryTypes'
    BY <1>a, <1>18 DEF AddTicker, RemoveTicker, history, HistoryTypes
  <2>4. UNCHANGED propVars /\ UNCHANGED <<order, assigned, run, cmd, up, time>>
    BY <1>18 DEF AddTicker, RemoveTicker
  <2>. QED
    BY <1>a, <1>p, <2>1, <2>2, <2>3, <2>4 DEF AllTypes, WorldTypes
<1>19. ASSUME NEW p \in Ids, NEW i \in DOMAIN order[p], NEW s \in {"open", "done"},
              order' = [order EXCEPT ![p][i] = s]
       PROVE  order' \in OrderType
  <2>1. order[p] \in Seq({"working", "open", "done"})
    BY <1>a DEF OrderType
  <2>2. [order[p] EXCEPT ![i] = s] \in Seq({"working", "open", "done"})
    BY <2>1
  <2>3. order' = [order EXCEPT ![p] = [order[p] EXCEPT ![i] = s]]
    BY <1>a, <1>19 DEF OrderType
  <2>. QED
    BY <1>a, <2>2, <2>3 DEF OrderType
<1>20. ASSUME NEW p \in Ids, NEW i \in DOMAIN order[p], OrderMoves(p, i) PROVE AllTypes'
  <2>1. order' \in OrderType
    BY <1>19, <1>20 DEF OrderMoves
  <2>2. assigned' \subseteq Tickers
    BY <1>a, <1>20 DEF OrderMoves
  <2>. QED
    BY <1>a, <1>p, <1>w, <1>h, <2>1, <2>2, <1>20 DEF OrderMoves, AllTypes
<1>21. ASSUME NEW p \in Ids, NEW i \in DOMAIN order[p], Assignment(p, i) PROVE AllTypes'
  <2>1. order' \in OrderType
    BY <1>19, <1>21 DEF Assignment
  <2>2. assigned' \subseteq Tickers
    BY <1>a, <1>21 DEF Assignment
  <2>3. run["assignment"].found \cup {<<"Call", ticker[p]>>} \subseteq Pairs
    BY <1>a DEF RunType, Pairs, Kinds, Runs
  <2>4. [step |-> "calls", seen |-> {}, found |-> run["assignment"].found \cup {<<"Call", ticker[p]>>}]
          \in RunType
    BY <2>3 DEF RunType
  <2>5. run' = [run EXCEPT !["assignment"] =
          [step |-> "calls", seen |-> {}, found |-> run["assignment"].found \cup {<<"Call", ticker[p]>>}]]
    BY <1>a, <1>21 DEF Assignment, Runs
  <2>6. run' \in [Runs -> RunType]
    BY <1>r, <2>4, <2>5 DEF Runs
  <2>. QED
    BY <1>a, <1>p, <1>w, <1>h, <2>1, <2>2, <2>6, <1>21 DEF Assignment, AllTypes
<1>22. CASE Tick
  BY <1>a, <1>p, <1>h, <1>22, CountAssumption DEF Tick, AllTypes, WorldTypes
<1>23. CASE Crash
  <2>1. events' \in [Events -> Nat]
    BY <1>e, <1>23 DEF Crash, Events
  <2>2. run' \in [Runs -> RunType] /\ cmd' \in CmdType /\ cut' \in [Ids -> Nat]
    BY IdleTypes, <1>16, <1>23 DEF Crash
  <2>3. UNCHANGED propVars /\ UNCHANGED <<order, assigned, watch, time, twice>> /\ up' \in BOOLEAN
    BY <1>23 DEF Crash
  <2>. QED
    BY <1>a, <1>p, <2>1, <2>2, <2>3 DEF AllTypes, WorldTypes, HistoryTypes
<1>24. CASE Restart
  BY <1>a, <1>p, <1>h, WatchAssumption, <1>24 DEF Restart, AllTypes, WorldTypes
<1>25. CASE UNCHANGED vars
  BY <1>a, <1>p, <1>w, <1>h, <1>25 DEF vars, AllTypes
<1>. QED
  BY <1>2, <1>3, <1>4, <1>5, <1>7, <1>8, <1>9, <1>10, <1>11, <1>12, <1>13, <1>14, <1>15,
     <1>17, <1>18, <1>20, <1>21, <1>22, <1>23, <1>24, <1>25
     DEF Next, Scan, Operator, Submission, Runs

-----------------------------------------------------------------------------
(***************************************************************************)
(* The command handler.                                                    *)
(***************************************************************************)
LEMMA WaitsStep == TypeOK /\ CommandWaits /\ [Next]_vars => CommandWaits'
<1> SUFFICES ASSUME TypeOK, CommandWaits, [Next]_vars PROVE CommandWaits'
  OBVIOUS
<1>a. run \in [Runs -> RunType] /\ "command" \in Runs
  BY TypesAre DEF AllTypes, Runs
<1>1. CASE CommandScan
  BY <1>a, <1>1 DEF CommandScan, CommandWaits, IdleCmd
<1>2. ASSUME NEW r \in {"job", "eod"}, ScheduledScan(r) PROVE CommandWaits'
  BY <1>a, <1>2 DEF ScheduledScan, Start, CommandWaits, Runs
<1>3. ASSUME NEW r \in Runs, NEW pair \in Pairs, LookAt(r, pair) \/ NotBuilt(r, pair)
      PROVE  CommandWaits'
  <2>1. run'["command"].step = run["command"].step
    BY <1>a, <1>3 DEF LookAt, NotBuilt, RunType
  <2>. QED
    BY <2>1, <1>3 DEF LookAt, NotBuilt, CommandWaits
<1>4. ASSUME NEW r \in Runs, NEW pair \in Pairs, NEW p \in Ids, Propose(r, pair, p)
      PROVE  CommandWaits'
  <2>1. run'["command"].step = run["command"].step
    BY <1>a, <1>4 DEF Propose, RunType
  <2>. QED
    BY <2>1, <1>4 DEF Propose, CommandWaits
<1>5. ASSUME NEW r \in Runs, Rank(r) PROVE CommandWaits'
  <2>1. run'["command"].step # "idle" => run["command"].step # "idle"
    BY <1>a, <1>5 DEF Rank
  <2>. QED
    BY <2>1, <1>5 DEF Rank, CommandWaits
<1>6. ASSUME NEW r \in Runs, FinishScan(r) \/ ScanRaises(r) PROVE CommandWaits'
  <2>1. CASE r = "command"
    BY <1>a, <1>6, <2>1 DEF FinishScan, ScanRaises, CommandWaits, IdleRun
  <2>2. CASE r # "command"
    BY <1>a, <1>6, <2>2 DEF FinishScan, ScanRaises, CommandWaits
  <2>. QED
    BY <2>1, <2>2
<1>7. CASE TurnToCalls
  BY <1>a, <1>7 DEF TurnToCalls, CommandWaits
<1>8. ASSUME NEW p \in Ids, ApproveExpired(p) \/ Approve(p) \/ Reject(p) PROVE CommandWaits'
  BY <1>8 DEF ApproveExpired, Approve, Reject, CommandWaits, IdleCmd
<1>9. CASE Submission
  BY <1>9 DEF Submission, WriteIntent, NothingSent, SendOrder, CommitSubmitted, MarkApproved,
     UpdateFails, CommandWaits
<1>10. ASSUME NEW p \in Ids, NEW i \in DOMAIN order[p], Assignment(p, i) PROVE CommandWaits'
  BY <1>a, <1>10 DEF Assignment, CommandWaits
<1>11. CASE Crash
  BY <1>a, <1>11 DEF Crash, CommandWaits, IdleRun
<1>12. CASE UNCHANGED <<run, cmd>>
  BY <1>12 DEF CommandWaits
<1>. QED
  BY <1>1, <1>2, <1>3, <1>4, <1>5, <1>6, <1>7, <1>8, <1>9, <1>10, <1>11, <1>12
     DEF Next, Scan, Operator, AddTicker, RemoveTicker, OrderMoves, Tick, Restart, vars

\* What a step does to the handler, to the statuses, and to the number of
\* orders sent and cut off.
LEMMA HandlerStep ==
    TypeOK /\ CommandWaits /\ CommandHolds /\ OrdersCounted /\ [Next]_vars
        => CommandHolds' /\ OrdersCounted'
<1> SUFFICES ASSUME TypeOK, CommandWaits, CommandHolds, OrdersCounted, [Next]_vars
             PROVE  CommandHolds' /\ OrdersCounted'
  OBVIOUS
<1>a. /\ status \in StatusType /\ order \in OrderType /\ cut \in [Ids -> Nat]
      /\ cmd \in CmdType
  BY TypesAre DEF AllTypes, PropTypes, HistoryTypes
<1>b. \A p \in Ids : Len(order[p]) \in Nat /\ cut[p] \in Nat
  BY <1>a DEF OrderType
<1>c. UNCHANGED <<status, order, cut, cmd>> => CommandHolds' /\ OrdersCounted'
  BY DEF CommandHolds, OrdersCounted, Sending
<1>1. CASE CommandScan \/ (\E p \in Ids : Approve(p)) \/ WriteIntent \/ NothingSent
  <2>1. UNCHANGED <<status, order, cut>>
    BY <1>1 DEF CommandScan, Approve, WriteIntent, NothingSent, propVars, history
  <2>2. cmd.step \notin {"sent", "approving"} /\ cmd'.step \notin {"sent", "approving"}
    BY <1>a, <1>1 DEF CommandScan, Approve, WriteIntent, NothingSent, IdleCmd, CmdType
  <2>3. CommandHolds'
    BY <1>1, <2>1, <1>a DEF CommandScan, Approve, WriteIntent, NothingSent, IdleCmd, CommandHolds, CmdType
  <2>. QED
    BY <2>1, <2>2, <2>3 DEF OrdersCounted, Sending
<1>2. ASSUME NEW q \in Ids, ApproveExpired(q) \/ Reject(q) PROVE CommandHolds' /\ OrdersCounted'
  <2>1. /\ UNCHANGED <<order, cut, cmd>> /\ cmd = IdleCmd /\ status[q] = "pending"
        /\ \E s \in {"expired", "rejected"} : status' = [status EXCEPT ![q] = s]
    BY <1>2 DEF ApproveExpired, Reject, history
  <2>2. \A p \in Ids : status'[p] = "approved" <=> status[p] = "approved"
    BY <1>a, <2>1 DEF StatusType
  <2>. QED
    BY <2>1, <2>2 DEF OrdersCounted, CommandHolds, Sending, IdleCmd
<1>3. ASSUME NEW r \in Runs, NEW pair \in Pairs, NEW q \in Ids, Propose(r, pair, q)
      PROVE  CommandHolds' /\ OrdersCounted'
  <2>1. /\ UNCHANGED <<order, cut, cmd>> /\ status[q] = "none"
        /\ status' = [status EXCEPT ![q] = "pending"]
    BY <1>3 DEF Propose, history
  <2>2. \A p \in Ids : /\ status'[p] = "approved" <=> status[p] = "approved"
                       /\ status[p] = "pending" => status'[p] = "pending"
    BY <1>a, <2>1 DEF StatusType
  <2>. QED
    BY <2>1, <2>2 DEF OrdersCounted, CommandHolds, Sending
<1>4. CASE SendOrder
  <2>1. /\ UNCHANGED <<status, cut>> /\ cmd.step = "intent"
        /\ cmd'.step = "sent" /\ cmd'.id = cmd.id
        /\ cmd.id \in Ids /\ status[cmd.id] = "pending"
        /\ order' = [order EXCEPT ![cmd.id] = Append(order[cmd.id], "working")]
    BY <1>a, <1>4 DEF SendOrder, propVars, history, CommandHolds, CmdType
  <2>2. Len(Append(order[cmd.id], "working")) = Len(order[cmd.id]) + 1
    BY <1>a, <2>1 DEF OrderType
  <2>3. ASSUME NEW p \in Ids
        PROVE  Len(order'[p]) = cut[p] + (IF cmd.id = p \/ status[p] = "approved" THEN 1 ELSE 0)
    <3>1. CASE p = cmd.id
      BY <1>a, <1>b, <2>1, <2>2, <3>1 DEF OrdersCounted, Sending, OrderType
    <3>2. CASE p # cmd.id
      BY <1>a, <2>1, <3>2 DEF OrdersCounted, Sending, OrderType
    <3>. QED
      BY <3>1, <3>2
  <2>. QED
    BY <2>1, <2>3 DEF OrdersCounted, CommandHolds, Sending
<1>5. CASE CommitSubmitted
  <2>1. /\ UNCHANGED <<status, order, cut>> /\ cmd.step = "sent"
        /\ cmd'.step = "approving" /\ cmd'.id = cmd.id
    BY <1>a, <1>5 DEF CommitSubmitted, propVars, history, CmdType
  <2>. QED
    BY <2>1 DEF OrdersCounted, CommandHolds, Sending
<1>6. CASE MarkApproved
  <2>1. /\ UNCHANGED <<order, cut>> /\ cmd.step = "approving" /\ cmd' = IdleCmd
        /\ status' = [status EXCEPT ![cmd.id] = "approved"]
        /\ cmd.id \in Ids /\ status[cmd.id] = "pending"
    BY <1>6 DEF MarkApproved, history, CommandHolds
  <2>2. \A p \in Ids : status'[p] = IF p = cmd.id THEN "approved" ELSE status[p]
    BY <1>a, <2>1 DEF StatusType
  <2>. QED
    BY <2>1, <2>2 DEF OrdersCounted, CommandHolds, Sending, IdleCmd
<1>7. CASE UpdateFails \/ Crash
  <2>1. /\ UNCHANGED <<status, order>> /\ cmd' = IdleCmd /\ CutOff
    BY <1>7 DEF UpdateFails, Crash, propVars
  <2>2. ASSUME NEW p \in Ids PROVE cut'[p] = cut[p] + (IF Sending(p) THEN 1 ELSE 0)
    <3>1. CASE Sending(p)
      BY <1>a, <2>1, <3>1 DEF CutOff, Sending
    <3>2. CASE ~Sending(p)
      BY <1>a, <1>b, <2>1, <3>2 DEF CutOff, Sending
    <3>. QED
      BY <3>1, <3>2
  <2>3. \A p \in Ids : Sending(p) => status[p] = "pending"
    BY DEF Sending, CommandHolds
  <2>4. ASSUME NEW p \in Ids
        PROVE  Len(order[p]) = cut'[p] + (IF status[p] = "approved" THEN 1 ELSE 0)
    BY <1>b, <2>2, <2>3 DEF OrdersCounted
  <2>. QED
    BY <2>1, <2>4 DEF OrdersCounted, CommandHolds, Sending, IdleCmd
<1>8. ASSUME NEW r \in Runs, FinishScan(r) \/ ScanRaises(r) PROVE CommandHolds' /\ OrdersCounted'
  <2>1. UNCHANGED <<status, order, cut>> /\ (cmd' = cmd \/ (r = "command" /\ cmd' = IdleCmd))
    BY <1>8 DEF FinishScan, ScanRaises, propVars, history
  <2>2. CASE cmd' = cmd
    BY <1>c, <2>1, <2>2
  <2>3. CASE r = "command" /\ cmd' = IdleCmd
    <3>1. cmd.step = "scan"
      BY <1>8, <2>3 DEF FinishScan, ScanRaises, CommandWaits
    <3>. QED
      BY <2>1, <2>3, <3>1 DEF OrdersCounted, CommandHolds, Sending, IdleCmd
  <2>. QED
    BY <2>1, <2>2, <2>3
<1>9. ASSUME NEW q \in Ids, NEW i \in DOMAIN order[q], NEW s \in {"open", "done"},
             order' = [order EXCEPT ![q][i] = s], UNCHANGED <<status, cut, cmd>>
      PROVE  CommandHolds' /\ OrdersCounted'
  <2>1. order' = [order EXCEPT ![q] = [order[q] EXCEPT ![i] = s]]
    BY <1>a, <1>9 DEF OrderType
  <2>2. Len([order[q] EXCEPT ![i] = s]) = Len(order[q])
    BY <1>a DEF OrderType
  <2>3. \A p \in Ids : Len(order'[p]) = Len(order[p])
    BY <1>a, <2>1, <2>2 DEF OrderType
  <2>. QED
    BY <1>9, <2>3 DEF OrdersCounted, CommandHolds, Sending
<1>10. ASSUME NEW q \in Ids, NEW i \in DOMAIN order[q], OrderMoves(q, i) \/ Assignment(q, i)
       PROVE  CommandHolds' /\ OrdersCounted'
  <2>1. /\ \E s \in {"open", "done"} : order' = [order EXCEPT ![q][i] = s]
        /\ UNCHANGED <<status, cut, cmd>>
    BY <1>10 DEF OrderMoves, Assignment, propVars, history
  <2>. QED
    BY <1>9, <2>1
<1>11. CASE UNCHANGED <<status, order, cut, cmd>>
  BY <1>c, <1>11
<1>. QED
  BY <1>1, <1>2, <1>3, <1>4, <1>5, <1>6, <1>7, <1>8, <1>10, <1>11
     DEF Next, Scan, Operator, Submission, ScheduledScan, LookAt, NotBuilt, Rank, TurnToCalls,
         AddTicker, RemoveTicker, Tick, Restart, vars, propVars, history

-----------------------------------------------------------------------------
(***************************************************************************)
(* The scans.  A quiet step finds nothing new for the premium lists and    *)
(* starts no scan.                                                         *)
(***************************************************************************)
QuietRun(old, new) ==
    /\ new.step = "scanning" => old.step = "scanning" /\ new.seen = old.seen
    /\ new.step # "scanning" => new.seen = {}
    /\ new.step \in {"scanning", "building"} => old.step \in {"scanning", "building"}
    /\ \A pair \in new.found : pair[1] \in Premium =>
          pair \in old.found /\ new.step \in {"scanning", "building"}

Quiet == /\ \A r \in Runs : QuietRun(run[r], run'[r])
         /\ ~up' => \A r \in Runs : run'[r] = IdleRun
         /\ UNCHANGED <<watch, twice>>

\* One run changes quietly.
LEMMA OneQuiet ==
    ASSUME run \in [Runs -> RunType], ScanShape, NEW r \in Runs, NEW f,
           run' = [run EXCEPT ![r] = f], QuietRun(run[r], f),
           up \/ run[r] # IdleRun, UNCHANGED <<up, watch, twice>>
    PROVE  Quiet
<1>1. ASSUME NEW q \in Runs, q # r PROVE QuietRun(run[q], run[q])
  BY DEF QuietRun, ScanShape, InScope, SeenIsKept, UnderWay
<1>2. up'
  BY DEF ScanShape, DownIsIdle
<1>. QED
  BY <1>1, <1>2 DEF Quiet

LEMMA RunStepsAreQuiet ==
    ASSUME TypeOK, ScanShape, NEW r \in Runs,
           \/ \E pair \in Pairs : NotBuilt(r, pair)
           \/ \E pair \in Pairs, p \in Ids : Propose(r, pair, p)
           \/ Rank(r) \/ FinishScan(r) \/ ScanRaises(r)
    PROVE  Quiet
<1>a. run \in [Runs -> RunType]
  BY TypesAre DEF AllTypes
<1>b. QuietRun(run[r], run[r]) /\ (~up => run[r] = IdleRun)
  BY DEF QuietRun, ScanShape, InScope, SeenIsKept, UnderWay, DownIsIdle
<1>1. ASSUME NEW pair \in Pairs, run' = [run EXCEPT ![r].found = @ \ {pair}],
             ToPropose(r, pair), UNCHANGED <<up, watch, twice>>
      PROVE  Quiet
  <2>1. run' = [run EXCEPT ![r] = [run[r] EXCEPT !.found = @ \ {pair}]]
    BY <1>a, <1>1
  <2>2. QuietRun(run[r], [run[r] EXCEPT !.found = @ \ {pair}])
    BY <1>a, <1>b DEF QuietRun, RunType
  <2>3. run[r] # IdleRun
    BY <1>1 DEF ToPropose, IdleRun
  <2>. QED
    BY <1>a, <1>1, <2>1, <2>2, <2>3, OneQuiet
<1>2. ASSUME NEW pair \in Pairs, NotBuilt(r, pair) PROVE Quiet
  BY <1>1, <1>2 DEF NotBuilt, history, worldVars
<1>3. ASSUME NEW pair \in Pairs, NEW p \in Ids, Propose(r, pair, p) PROVE Quiet
  BY <1>1, <1>3 DEF Propose, history, worldVars
<1>4. CASE Rank(r)
  <2>1. PICK top \in SUBSET run[r].found :
          run' = [run EXCEPT ![r] = [step |-> "building", seen |-> {}, found |-> top]]
    BY <1>4 DEF Rank
  <2>2. QuietRun(run[r], [step |-> "building", seen |-> {}, found |-> top])
    BY <2>1, <1>4 DEF QuietRun, Rank
  <2>3. run[r] # IdleRun /\ UNCHANGED <<up, watch, twice>>
    BY <1>4 DEF Rank, history, worldVars, IdleRun
  <2>. QED
    BY <1>a, <2>1, <2>2, <2>3, OneQuiet
<1>5. CASE FinishScan(r) \/ ScanRaises(r)
  <2>1. QuietRun(run[r], IdleRun)
    BY DEF QuietRun, IdleRun
  <2>2. run' = [run EXCEPT ![r] = IdleRun] /\ UNCHANGED <<up, watch, twice>> /\ run[r] # IdleRun
    BY <1>5 DEF FinishScan, ScanRaises, history, worldVars, IdleRun
  <2>. QED
    BY <1>a, <2>1, <2>2, OneQuiet
<1>. QED
  BY <1>2, <1>3, <1>4, <1>5

LEMMA CallStepsAreQuiet ==
    ASSUME TypeOK, ScanShape,
           \/ TurnToCalls \/ Crash
           \/ \E p \in Ids : \E i \in DOMAIN order[p] : Assignment(p, i)
    PROVE  Quiet
<1>a. run \in [Runs -> RunType] /\ "command" \in Runs /\ "assignment" \in Runs
  BY TypesAre DEF AllTypes, Runs
<1>1. CASE TurnToCalls
  <2>1. QuietRun(run["command"],
                 [step |-> "calls", seen |-> {}, found |-> {"Call"} \X Uncovered])
    BY DEF QuietRun, Premium
  <2>2. /\ run["command"] # IdleRun /\ UNCHANGED <<up, watch, twice>>
        /\ run' = [run EXCEPT !["command"] =
                      [step |-> "calls", seen |-> {}, found |-> {"Call"} \X Uncovered]]
    BY <1>1 DEF TurnToCalls, history, worldVars, IdleRun
  <2>. QED
    BY <1>a, <2>1, <2>2, OneQuiet
<1>2. CASE Crash
  <2>1. \A r \in Runs : run'[r] = IdleRun /\ QuietRun(run[r], IdleRun)
    BY <1>2 DEF Crash, QuietRun, IdleRun
  <2>. QED
    BY <1>2, <2>1 DEF Crash, Quiet
<1>3. ASSUME NEW p \in Ids, NEW i \in DOMAIN order[p], Assignment(p, i) PROVE Quiet
  <2>1. run' = [run EXCEPT !["assignment"] =
          [step |-> "calls", seen |-> {}, found |-> run["assignment"].found \cup {<<"Call", ticker[p]>>}]]
    BY <1>a, <1>3 DEF Assignment
  <2>2. \A pair \in run["assignment"].found : pair[1] \notin Premium
    BY <1>a DEF ScanShape, InScope, PremiumRuns
  <2>3. QuietRun(run["assignment"],
          [step |-> "calls", seen |-> {}, found |-> run["assignment"].found \cup {<<"Call", ticker[p]>>}])
    BY <2>2 DEF QuietRun, Premium
  <2>. QED
    BY <1>a, <1>3, <2>1, <2>3, OneQuiet DEF Assignment, history, worldVars
<1>. QED
  BY <1>1, <1>2, <1>3

\* The overlap of two scans is counted and stays counted.
LEMMA OverlapStays ==
    ASSUME TypeOK, [Next]_vars
    PROVE  /\ events["overlap"] \in Nat /\ events'["overlap"] \in Nat
           /\ events["overlap"] > 0 => events'["overlap"] > 0
           /\ twice \subseteq twice'
<1>1. events \in [Events -> Nat]
  BY TypesAre DEF AllTypes, WorldTypes
<1>2. events' \in [Events -> Nat]
  BY TypeStep DEF TypeOK
<1>3. ASSUME NEW e \in Events, Happens(e) PROVE events["overlap"] > 0 => events'["overlap"] > 0
  BY <1>1, <1>3, EventCounted DEF Events
<1>4. \/ UNCHANGED events
      \/ \E e \in Events : Happens(e)
  BY DEF Next, Scan, Operator, Submission, ScheduledScan, CommandScan, Start, LookAt, NotBuilt,
     Propose, Rank, FinishScan, ScanRaises, TurnToCalls, ApproveExpired, Approve, Reject,
     WriteIntent, NothingSent, SendOrder, CommitSubmitted, MarkApproved, UpdateFails, AddTicker,
     RemoveTicker, OrderMoves, Assignment, Tick, Crash, Restart, vars, worldVars, Events
<1>5. twice \subseteq twice'
  BY DEF Next, Scan, Operator, Submission, ScheduledScan, CommandScan, LookAt, NotBuilt,
     Propose, Rank, FinishScan, ScanRaises, TurnToCalls, ApproveExpired, Approve, Reject,
     WriteIntent, NothingSent, SendOrder, CommitSubmitted, MarkApproved, UpdateFails, AddTicker,
     RemoveTicker, OrderMoves, Assignment, Tick, Crash, Restart, vars, history
<1>. QED
  BY <1>1, <1>2, <1>3, <1>4, <1>5 DEF Events

LEMMA QuietShape ==
    ASSUME TypeOK, ScanShape, [Next]_vars, Quiet, ~up => ~up'
    PROVE  ScanShape'
<1>a. run \in [Runs -> RunType]
  BY TypesAre DEF AllTypes
<1>1. DownIsIdle'
  BY DEF Quiet, DownIsIdle, ScanShape
<1>2. InScope'
  BY DEF Quiet, QuietRun, InScope, ScanShape, UnderWay, Runs
<1>3. SeenIsKept'
  BY DEF Quiet, QuietRun, SeenIsKept, ScanShape
<1>4. Apart'
  BY OverlapStays DEF Quiet, QuietRun, Apart, ScanShape, UnderWay, Runs
<1>5. ListedOnce'
  BY DEF Quiet, QuietRun, ListedOnce, ScanShape, PremiumRuns, Runs
<1>. QED
  BY <1>1, <1>2, <1>3, <1>4, <1>5 DEF ScanShape, Quiet

LEMMA StartShape ==
    ASSUME TypeOK, ScanShape, [Next]_vars, NEW r \in Runs \ {"assignment"}, Start(r), UNCHANGED <<up, watch, twice>>
    PROVE  ScanShape'
<1>a. run \in [Runs -> RunType] /\ events \in [Events -> Nat]
  BY TypesAre DEF AllTypes, WorldTypes
<1>1. run' = [run EXCEPT ![r] = [step |-> "scanning", seen |-> {}, found |-> {}]] /\ up
      /\ run[r].step = "idle"
  <2>1. [IdleRun EXCEPT !.step = "scanning"] = [step |-> "scanning", seen |-> {}, found |-> {}]
    BY DEF IdleRun
  <2>. QED
    BY <2>1 DEF Start
<1>2. DownIsIdle' /\ InScope' /\ SeenIsKept'
  BY <1>a, <1>1 DEF DownIsIdle, InScope, SeenIsKept, ScanShape, UnderWay, Runs
<1>3. Apart'
  <2>1. CASE r \in PremiumRuns /\ \E q \in PremiumRuns : UnderWay(q)
    <3>1. events'["overlap"] > 0
      BY <1>a, <2>1, EventCounted DEF Start, Events
    <3>. QED
      BY <3>1 DEF Apart
  <2>2. CASE r \in PremiumRuns /\ ~\E q \in PremiumRuns : UnderWay(q)
    BY <1>a, <1>1, <2>2 DEF Apart, UnderWay, PremiumRuns, Runs
  <2>3. CASE r \notin PremiumRuns
    BY <1>a, <1>1, <2>3, OverlapStays DEF Apart, ScanShape, UnderWay, PremiumRuns, Runs
  <2>. QED
    BY <2>1, <2>2, <2>3
<1>4. ListedOnce'
  <2>1. \A q \in Runs : run'[q].seen \subseteq run[q].seen /\ run'[q].found \subseteq run[q].found
    BY <1>a, <1>1 DEF RunType
  <2>. QED
    BY <2>1 DEF ListedOnce, ScanShape, PremiumRuns, Runs
<1>. QED
  BY <1>2, <1>3, <1>4 DEF ScanShape

\* The look at a ticker adds it to what the run has seen and, if it is eligible
\* and passes, to what the run has found.
LEMMA LookEffect ==
    ASSUME TypeOK, NEW r \in Runs, NEW pair \in Pairs, LookAt(r, pair)
    PROVE  /\ run[r].step = "scanning" /\ pair[1] \in Scope(r) /\ pair[1] \in Buckets
           /\ pair[2] \in Tickers /\ pair = <<pair[1], pair[2]>> /\ pair[2] \in watch[pair[1]]
           /\ \A q \in Runs : q # r => run'[q] = run[q]
           /\ run'[r].step = "scanning" /\ run'[r].seen = run[r].seen \cup {pair}
           /\ \/ run'[r].found = run[r].found
              \/ /\ run'[r].found = run[r].found \cup {pair}
                 /\ Eligible(pair[1], pair[2])
<1>a. run \in [Runs -> RunType]
  BY TypesAre DEF AllTypes
<1>1. pair \in Scanned(r)
  BY DEF LookAt
<1>2. PICK keep : /\ keep \in {{}} \cup (IF Eligible(pair[1], pair[2]) THEN {{pair}} ELSE {})
                  /\ run' = [run EXCEPT ![r].seen = @ \cup {pair}, ![r].found = @ \cup keep]
  BY DEF LookAt
<1>3. /\ \A q \in Runs : q # r => run'[q] = run[q]
      /\ run'[r].step = run[r].step /\ run'[r].seen = run[r].seen \cup {pair}
      /\ run'[r].found = run[r].found \cup keep
  BY <1>a, <1>2 DEF RunType
<1>4. keep = {} \/ (keep = {pair} /\ Eligible(pair[1], pair[2]))
  BY <1>2
<1>5. /\ pair[1] \in Scope(r) /\ pair[1] \in Buckets /\ pair[2] \in Tickers
      /\ pair = <<pair[1], pair[2]>> /\ pair[2] \in watch[pair[1]]
  BY <1>1 DEF Scanned
<1>6. run[r].step = "scanning"
  BY DEF LookAt
<1>7. run'[r].found = run[r].found \/ (run'[r].found = run[r].found \cup {pair} /\ Eligible(pair[1], pair[2]))
  BY <1>3, <1>4
<1>. QED
  BY <1>3, <1>5, <1>6, <1>7

LEMMA LookShape ==
    ASSUME TypeOK, ScanShape, [Next]_vars, NEW r \in Runs, NEW pair \in Pairs, LookAt(r, pair)
    PROVE  ScanShape'
<1>a. UNCHANGED <<up, watch, twice, events>>
  BY DEF LookAt, worldVars, history
<1>b. /\ run[r].step = "scanning" /\ pair[1] \in Scope(r)
      /\ pair[2] \in Tickers /\ pair = <<pair[1], pair[2]>> /\ pair[2] \in watch[pair[1]]
      /\ \A q \in Runs : q # r => run'[q] = run[q]
      /\ run'[r].step = "scanning" /\ run'[r].seen = run[r].seen \cup {pair}
      /\ run'[r].found \subseteq run[r].found \cup {pair}
  BY LookEffect
<1>1. DownIsIdle'
  BY <1>a, <1>b DEF DownIsIdle, ScanShape, IdleRun
<1>2. InScope'
  <2>1. pair[1] \in Premium => r \in PremiumRuns
    BY <1>b DEF Scope, Premium, PremiumRuns, Runs, ScanShape, InScope, UnderWay
  <2>. QED
    BY <1>b, <2>1 DEF InScope, ScanShape, UnderWay, Runs
<1>3. SeenIsKept'
  BY <1>b DEF SeenIsKept, ScanShape
<1>4. Apart'
  BY <1>a, <1>b DEF Apart, ScanShape, UnderWay, Runs
<1>5. ListedOnce'
  <2>1. SUFFICES ASSUME NEW tk \in Tickers \ twice, NEW b \in Premium, NEW c \in Premium, b # c
                 PROVE  /\ tk \in watch[b] => tk \notin watch[c]
                        /\ \A q \in PremiumRuns :
                              /\ <<b, tk>> \in run'[q].seen => tk \notin watch[c] /\ <<c, tk>> \notin run'[q].seen
                              /\ <<b, tk>> \in run'[q].found => <<c, tk>> \notin run'[q].found
    BY <1>a DEF ListedOnce
  <2>2. /\ tk \in watch[b] => tk \notin watch[c]
        /\ \A q \in PremiumRuns :
              /\ <<b, tk>> \in run[q].seen => tk \notin watch[c] /\ <<c, tk>> \notin run[q].seen
              /\ <<c, tk>> \in run[q].seen => tk \notin watch[b]
              /\ <<b, tk>> \in run[q].found => <<c, tk>> \notin run[q].found
    BY <2>1 DEF ListedOnce, ScanShape
  <2>3. ASSUME NEW q \in PremiumRuns, q # r
        PROVE  run'[q] = run[q]
    BY <1>b, <2>3 DEF PremiumRuns, Runs
  <2>4. \A d \in Premium : <<d, tk>> \in run[r].found => <<d, tk>> \in run[r].seen
    BY <1>b DEF SeenIsKept, ScanShape
  <2>5. ASSUME r \in PremiumRuns
        PROVE  /\ <<b, tk>> \in run'[r].seen => tk \notin watch[c] /\ <<c, tk>> \notin run'[r].seen
               /\ <<b, tk>> \in run'[r].found => <<c, tk>> \notin run'[r].found
    <3>1. CASE pair = <<b, tk>>
      BY <1>b, <2>1, <2>2, <2>4, <2>5, <3>1
    <3>2. CASE pair = <<c, tk>>
      BY <1>b, <2>1, <2>2, <2>4, <2>5, <3>2
    <3>3. CASE pair # <<b, tk>> /\ pair # <<c, tk>>
      BY <1>b, <2>2, <2>5, <3>3
    <3>. QED
      BY <3>1, <3>2, <3>3
  <2>. QED
    BY <2>2, <2>3, <2>5
<1>. QED
  BY <1>a, <1>1, <1>2, <1>3, <1>4, <1>5 DEF ScanShape

LEMMA ShapeStep == TypeOK /\ ScanShape /\ [Next]_vars => ScanShape'
<1> SUFFICES ASSUME TypeOK, ScanShape, [Next]_vars PROVE ScanShape'
  OBVIOUS
<1>a. run \in [Runs -> RunType] /\ watch \in [Buckets -> SUBSET Tickers]
  BY TypesAre DEF AllTypes
<1>1. ASSUME NEW r \in {"job", "eod"}, ScheduledScan(r) PROVE ScanShape'
  BY <1>1, StartShape DEF ScheduledScan, history, Runs
<1>2. CASE CommandScan
  BY <1>2, StartShape DEF CommandScan, history, Runs
<1>3. ASSUME NEW r \in Runs, NEW pair \in Pairs, LookAt(r, pair) PROVE ScanShape'
  BY <1>3, LookShape
<1>4. ASSUME NEW r \in Runs,
             \/ \E pair \in Pairs : NotBuilt(r, pair)
             \/ \E pair \in Pairs, p \in Ids : Propose(r, pair, p)
             \/ Rank(r) \/ FinishScan(r) \/ ScanRaises(r)
      PROVE  ScanShape'
  <2>1. Quiet
    BY <1>4, RunStepsAreQuiet
  <2>2. UNCHANGED up
    BY <1>4 DEF NotBuilt, Propose, Rank, FinishScan, ScanRaises, worldVars
  <2>. QED
    BY <2>1, <2>2, QuietShape
<1>5. ASSUME \/ TurnToCalls \/ Crash
             \/ \E p \in Ids : \E i \in DOMAIN order[p] : Assignment(p, i)
      PROVE  ScanShape'
  <2>1. Quiet
    BY <1>5, CallStepsAreQuiet
  <2>2. ~up => ~up'
    BY <1>5 DEF TurnToCalls, Crash, Assignment, worldVars
  <2>. QED
    BY <2>1, <2>2, QuietShape
<1>6. ASSUME NEW b \in Buckets, NEW tk \in Tickers, AddTicker(b, tk) PROVE ScanShape'
  <2>1. UNCHANGED <<run, up>> /\ watch' = [watch EXCEPT ![b] = watch[b] \cup {tk}]
    BY <1>6 DEF AddTicker
  <2>2. DownIsIdle' /\ InScope' /\ SeenIsKept'
    BY <2>1 DEF ScanShape, DownIsIdle, InScope, SeenIsKept, UnderWay
  <2>3. Apart' /\ (Configured["Core"] \cap Configured["Tactical"] \subseteq twice')
    BY <2>1, OverlapStays DEF ScanShape, Apart, UnderWay
  <2>4. ListedOnce'
    <3>1. SUFFICES ASSUME NEW t \in Tickers \ twice', NEW d \in Premium, NEW c \in Premium, d # c
                   PROVE  /\ t \in watch'[d] => t \notin watch'[c]
                          /\ \A q \in PremiumRuns :
                                /\ <<d, t>> \in run[q].seen => t \notin watch'[c] /\ <<c, t>> \notin run[q].seen
                                /\ <<d, t>> \in run[q].found => <<c, t>> \notin run[q].found
      BY <2>1 DEF ListedOnce
    <3>2. /\ t \in watch[d] => t \notin watch[c]
          /\ \A q \in PremiumRuns :
                /\ <<d, t>> \in run[q].seen => t \notin watch[c] /\ <<c, t>> \notin run[q].seen
                /\ <<d, t>> \in run[q].found => <<c, t>> \notin run[q].found
      <4>1. t \in Tickers \ twice
        BY <3>1, OverlapStays
      <4>. QED
        BY <3>1, <4>1 DEF ListedOnce, ScanShape
    <3>3. b \in Premium /\ t = tk =>
            \A c2 \in Premium \ {b} : t \notin watch[c2] /\ \A q \in PremiumRuns : <<c2, t>> \notin run[q].seen
      BY <1>6, <3>1 DEF AddTicker
    <3>4. /\ t \in watch'[d] => t \in watch[d] \/ (d = b /\ t = tk)
          /\ t \in watch'[c] => t \in watch[c] \/ (c = b /\ t = tk)
      BY <1>a, <2>1 DEF Buckets, Premium
    <3>. QED
      BY <3>1, <3>2, <3>3, <3>4
  <2>. QED
    BY <2>2, <2>3, <2>4 DEF ScanShape
<1>7. ASSUME NEW b \in Buckets, NEW tk \in Tickers, RemoveTicker(b, tk) PROVE ScanShape'
  <2>1. UNCHANGED <<run, up, twice>> /\ \A d \in Buckets : watch'[d] \subseteq watch[d]
    BY <1>a, <1>7 DEF RemoveTicker, history
  <2>2. DownIsIdle' /\ InScope' /\ SeenIsKept'
    BY <2>1 DEF ScanShape, DownIsIdle, InScope, SeenIsKept, UnderWay
  <2>3. Apart'
    BY <2>1, OverlapStays DEF ScanShape, Apart, UnderWay
  <2>4. ListedOnce'
    BY <2>1 DEF ListedOnce, ScanShape, Premium, Buckets
  <2>. QED
    BY <2>1, <2>2, <2>3, <2>4 DEF ScanShape
<1>8. CASE Restart
  <2>1. UNCHANGED <<run, events, twice>> /\ watch' = Configured /\ up' = TRUE
        /\ \A r \in Runs : run[r] = IdleRun
    BY <1>8 DEF Restart, history, ScanShape, DownIsIdle
  <2>2. DownIsIdle' /\ InScope' /\ SeenIsKept' /\ Apart'
    BY <2>1 DEF ScanShape, DownIsIdle, InScope, SeenIsKept, UnderWay, Apart
  <2>3. ListedOnce'
    BY <2>1 DEF ListedOnce, ScanShape, Premium, PremiumRuns, Runs, IdleRun
  <2>. QED
    BY <2>1, <2>2, <2>3 DEF ScanShape
<1>9. CASE UNCHANGED <<run, watch, twice, up>>
  BY <1>9, OverlapStays DEF ScanShape, DownIsIdle, InScope, SeenIsKept, UnderWay, Apart, ListedOnce
<1>. QED
  BY <1>1, <1>2, <1>3, <1>4, <1>5, <1>6, <1>7, <1>8, <1>9
     DEF Next, Scan, Operator, Submission, ApproveExpired, Approve, Reject, WriteIntent,
         NothingSent, SendOrder, CommitSubmitted, MarkApproved, UpdateFails, OrderMoves, Tick,
         vars, worldVars, history

-----------------------------------------------------------------------------
(***************************************************************************)
(* The bound on the pending proposals of a ticker.                         *)
(***************************************************************************)
LEMMA PairHasTwo ==
    ASSUME NEW x, NEW y
    PROVE  IsFiniteSet({x, y}) /\ Cardinality({x, y}) <= 2
<1>1. IsFiniteSet({x}) /\ Cardinality({x}) = 1
  BY FS_Singleton
<1>2. {x, y} = {x} \cup {y}
  OBVIOUS
<1>. QED
  BY <1>1, <1>2, FS_AddElement

LEMMA AddOne ==
    ASSUME NEW S, IsFiniteSet(S), NEW n \in Nat, Cardinality(S) <= n, NEW x
    PROVE  IsFiniteSet(S \cup {x}) /\ Cardinality(S \cup {x}) <= n + 1
<1>1. Cardinality(S) \in Nat
  BY FS_CardinalityType
<1>2. /\ IsFiniteSet(S \cup {x})
      /\ Cardinality(S \cup {x}) = IF x \in S THEN Cardinality(S) ELSE Cardinality(S) + 1
  BY FS_AddElement
<1>. QED
  BY <1>1, <1>2

LEMMA FourAtMost ==
    ASSUME NEW w, NEW x, NEW y, NEW z
    PROVE  IsFiniteSet({w, x, y, z}) /\ Cardinality({w, x, y, z}) <= 4
<1>1. IsFiniteSet({w, x}) /\ Cardinality({w, x}) <= 2
  BY PairHasTwo
<1>2. IsFiniteSet({w, x} \cup {y}) /\ Cardinality({w, x} \cup {y}) <= 2 + 1
  BY <1>1, AddOne
<1> DEFINE three == {w, x} \cup {y}
<1>3. IsFiniteSet(three \cup {z}) /\ Cardinality(three \cup {z}) <= 3 + 1
  <2>1. IsFiniteSet(three) /\ Cardinality(three) <= 3
    BY <1>2
  <2>. HIDE DEF three
  <2>. QED
    BY <2>1, AddOne
<1>4. {w, x, y, z} = ({w, x} \cup {y}) \cup {z}
  OBVIOUS
<1>. QED
  BY <1>3, <1>4

LEMMA SmallSubset ==
    ASSUME NEW S, IsFiniteSet(S), NEW n \in Nat, Cardinality(S) <= n, NEW T \in SUBSET S
    PROVE  IsFiniteSet(T) /\ Cardinality(T) <= n
<1>1. IsFiniteSet(T) /\ Cardinality(T) <= Cardinality(S)
  BY FS_Subset
<1>2. Cardinality(S) \in Nat /\ Cardinality(T) \in Nat
  BY <1>1, FS_CardinalityType
<1>. QED
  BY <1>1, <1>2

LEMMA PremiumIs == Premium = {"Core", "Tactical"} /\ PremiumRuns = {"job", "command"}
  BY DEF Premium, PremiumRuns

\* The candidates alone keep within the bound.
LEMMA ClaimsBounded ==
    ASSUME events \in [Events -> Nat], ScanShape, NEW tk \in Tickers
    PROVE  IsFiniteSet(Claims(tk)) /\ Cardinality(Claims(tk)) <= Limit(tk)
<1> DEFINE C == Claims(tk)
<1>a. \A claim \in C : /\ claim = <<claim[1], claim[2]>>
                        /\ claim[1] \in {"job", "command"} /\ claim[2] \in {"Core", "Tactical"}
                        /\ UnderWay(claim[1])
  BY PremiumIs DEF Claims, ScanShape, InScope, PremiumRuns, Runs
<1>b. ASSUME tk \notin twice, NEW x \in C, NEW y \in C, x[1] = y[1] PROVE x = y
  <2>1. /\ x[1] \in PremiumRuns /\ x[2] \in Premium /\ y[2] \in Premium
        /\ <<x[2], tk>> \in run[x[1]].found /\ <<y[2], tk>> \in run[x[1]].found
    BY <1>b DEF Claims
  <2>2. x[2] = y[2]
    BY <1>b, <2>1 DEF ScanShape, ListedOnce
  <2>. QED
    BY <1>a, <1>b, <2>2
<1>c. ASSUME ~(events["overlap"] > 0), NEW x \in C, NEW y \in C PROVE x[1] = y[1]
  BY <1>a, <1>c DEF ScanShape, Apart, Events
<1>1. CASE events["overlap"] > 0 /\ tk \in twice
  <2>1. C \subseteq {<<"job", "Core">>, <<"job", "Tactical">>, <<"command", "Core">>, <<"command", "Tactical">>}
    BY <1>a
  <2>2. Limit(tk) = 4
    BY <1>1, LimitIs
  <2>. QED
    BY <2>1, <2>2, FourAtMost, SmallSubset
<1>2. CASE events["overlap"] > 0 /\ tk \notin twice
  <2> DEFINE Of(r) == CHOOSE x \in C : x[1] = r
  <2>1. C \subseteq {Of("job"), Of("command")}
    <3>1. ASSUME NEW x \in C PROVE x = Of(x[1])
      <4>1. Of(x[1]) \in C /\ Of(x[1])[1] = x[1]
        OBVIOUS
      <4>. QED
        BY <1>b, <1>2, <4>1
    <3>. QED
      BY <1>a, <3>1
  <2>2. Limit(tk) = 2
    BY <1>2, LimitIs
  <2>. QED
    BY <2>1, <2>2, PairHasTwo, SmallSubset
<1>3. CASE ~(events["overlap"] > 0) /\ tk \in twice
  <2> DEFINE Of(b) == CHOOSE x \in C : x[2] = b
  <2>1. C \subseteq {Of("Core"), Of("Tactical")}
    <3>1. ASSUME NEW x \in C PROVE x = Of(x[2])
      <4>1. Of(x[2]) \in C /\ Of(x[2])[2] = x[2]
        OBVIOUS
      <4>2. Of(x[2])[1] = x[1]
        BY <1>c, <1>3, <4>1
      <4>. QED
        BY <1>a, <4>1, <4>2
    <3>. QED
      BY <1>a, <3>1
  <2>2. Limit(tk) = 2
    BY <1>3, LimitIs
  <2>. QED
    BY <2>1, <2>2, PairHasTwo, SmallSubset
<1>4. CASE ~(events["overlap"] > 0) /\ tk \notin twice
  <2>1. \A x, y \in C : x = y
    BY <1>b, <1>c, <1>4
  <2>2. Limit(tk) = 1
    BY <1>4, LimitIs
  <2>3. CASE C = {}
    BY <2>2, <2>3, FS_EmptySet
  <2>4. ASSUME NEW x \in C PROVE IsFiniteSet(C) /\ Cardinality(C) <= 1
    <3>1. C = {x}
      BY <2>1, <2>4
    <3>2. IsFiniteSet({x}) /\ Cardinality({x}) = 1
      BY FS_Singleton
    <3>. QED
      BY <3>1, <3>2
  <2>. QED
    BY <2>2, <2>3, <2>4
<1>. QED
  BY <1>1, <1>2, <1>3, <1>4

ClaimsFit == \A tk \in Tickers : IsFiniteSet(Claims(tk)) /\ Cardinality(Claims(tk)) <= Limit(tk)

LEMMA ShapeFits == TypeOK /\ ScanShape => ClaimsFit
  BY ClaimsBounded, TypesAre DEF ClaimsFit, AllTypes, WorldTypes

\* The bound is never lowered.
LEMMA LimitGrows ==
    ASSUME TypeOK, [Next]_vars, NEW tk
    PROVE  Limit(tk) <= Limit(tk)' /\ Limit(tk) \in Nat /\ Limit(tk)' \in Nat
<1>1. /\ events["overlap"] > 0 => events'["overlap"] > 0
      /\ tk \in twice => tk \in twice'
  BY OverlapStays
<1>2. Limit(tk)' = (IF events'["overlap"] > 0 THEN 2 ELSE 1) * (IF tk \in twice' THEN 2 ELSE 1)
  BY DEF Limit
<1>. QED
  BY <1>1, <1>2 DEF Limit

\* A step that adds neither a pending proposal nor a candidate of the ticker.
LEMMA FewerBounded ==
    ASSUME TypeOK, ScanShape, [Next]_vars, NEW tk \in Tickers,
           IsFiniteSet(PendingPremium(tk)),
           Cardinality(PendingPremium(tk)) + Cardinality(Claims(tk)) <= Limit(tk),
           PendingPremium(tk)' \subseteq PendingPremium(tk), Claims(tk)' \subseteq Claims(tk)
    PROVE  /\ IsFiniteSet(PendingPremium(tk)')
           /\ Cardinality(PendingPremium(tk)') + Cardinality(Claims(tk)') <= Limit(tk)'
<1>1. events \in [Events -> Nat]
  BY TypesAre DEF AllTypes, WorldTypes
<1>2. IsFiniteSet(Claims(tk))
  BY <1>1, ClaimsBounded
<1>3. /\ IsFiniteSet(PendingPremium(tk)')
      /\ Cardinality(PendingPremium(tk)') <= Cardinality(PendingPremium(tk))
  BY FS_Subset
<1>4. /\ IsFiniteSet(Claims(tk)')
      /\ Cardinality(Claims(tk)') <= Cardinality(Claims(tk))
  BY <1>2, FS_Subset
<1>5. /\ Cardinality(PendingPremium(tk)') \in Nat /\ Cardinality(PendingPremium(tk)) \in Nat
      /\ Cardinality(Claims(tk)') \in Nat /\ Cardinality(Claims(tk)) \in Nat
  BY <1>2, <1>3, <1>4, FS_CardinalityType
<1>6. Limit(tk) <= Limit(tk)' /\ Limit(tk) \in Nat /\ Limit(tk)' \in Nat
  BY LimitGrows
<1>. QED
  BY <1>3, <1>4, <1>5, <1>6

\* A run that changes quietly, or not at all, adds no candidate.
LEMMA QuietClaims ==
    ASSUME Quiet, NEW tk PROVE Claims(tk)' \subseteq Claims(tk)
  BY PremiumIs DEF Claims, Quiet, QuietRun, Runs

LEMMA BoundedStep == TypeOK /\ ScanShape /\ Bounded /\ [Next]_vars => Bounded'
<1> SUFFICES ASSUME TypeOK, ScanShape, Bounded, [Next]_vars, NEW tk \in Tickers
             PROVE  /\ IsFiniteSet(PendingPremium(tk)')
                    /\ Cardinality(PendingPremium(tk)') + Cardinality(Claims(tk)') <= Limit(tk)'
  BY DEF Bounded
<1> DEFINE Fine == /\ IsFiniteSet(PendingPremium(tk)')
                   /\ Cardinality(PendingPremium(tk)') + Cardinality(Claims(tk)') <= Limit(tk)'
<1>a. /\ IsFiniteSet(PendingPremium(tk))
      /\ Cardinality(PendingPremium(tk)) + Cardinality(Claims(tk)) <= Limit(tk)
      /\ status \in StatusType /\ ticker \in [Ids -> Tickers] /\ kind \in [Ids -> Kinds]
      /\ run \in [Runs -> RunType] /\ events \in [Events -> Nat] /\ events' \in [Events -> Nat]
  <2>1. TypeOK'
    BY TypeStep
  <2>2. events' \in [Events -> Nat]
    BY <2>1 DEF TypeOK
  <2>. QED
    BY <2>2, TypesAre DEF AllTypes, PropTypes, WorldTypes, Bounded
<1>b. PendingPremium(tk)' \subseteq PendingPremium(tk) /\ Claims(tk)' \subseteq Claims(tk) => Fine
  BY <1>a, FewerBounded
<1>c. UNCHANGED propVars => PendingPremium(tk)' = PendingPremium(tk)
  BY DEF propVars, PendingPremium, PendingOn
<1>d. UNCHANGED run => Claims(tk)' = Claims(tk)
  BY DEF Claims
<1>1. ASSUME NEW r \in Runs, NEW pair \in Pairs, LookAt(r, pair) PROVE Fine
  <2>1. PendingPremium(tk)' = PendingPremium(tk)
    BY <1>1, <1>c DEF LookAt
  <2>2. /\ \A q \in Runs : q # r => run'[q] = run[q]
        /\ pair = <<pair[1], pair[2]>> /\ pair[1] \in Buckets
        /\ \/ run'[r].found = run[r].found
           \/ /\ run'[r].found = run[r].found \cup {pair}
              /\ Eligible(pair[1], pair[2])
    BY <1>1, LookEffect
  <2>3. CASE run'[r].found = run[r].found \/ pair[2] # tk \/ pair[1] \notin Premium
    <3>1. \A q \in PremiumRuns, b \in Premium :
            <<b, tk>> \in run'[q].found => <<b, tk>> \in run[q].found
      BY <2>2, <2>3 DEF PremiumRuns, Runs
    <3>2. Claims(tk)' \subseteq Claims(tk)
      BY <3>1 DEF Claims
    <3>. QED
      BY <1>b, <2>1, <3>2
  <2>4. CASE Eligible(pair[1], pair[2]) /\ pair[2] = tk /\ pair[1] \in Premium
    <3>1. PendingOn(tk) = {}
      BY <2>4 DEF Eligible, Premium
    <3>2. PendingPremium(tk)' = {}
      BY <2>1, <3>1 DEF PendingPremium
    <3>3. ScanShape'
      BY ShapeStep
    <3>4. IsFiniteSet(Claims(tk)') /\ Cardinality(Claims(tk)') <= Limit(tk)'
      <4>1. TypeOK'
        BY TypeStep
      <4>2. ClaimsFit'
        BY <3>3, <4>1, ShapeFits, PTL
      <4>. QED
        BY <4>2 DEF ClaimsFit
    <3>5. IsFiniteSet(PendingPremium(tk)') /\ Cardinality(PendingPremium(tk)') = 0
      BY <3>2, FS_EmptySet
    <3>6. Cardinality(Claims(tk)') \in Nat
      BY <3>4, FS_CardinalityType
    <3>. QED
      BY <3>4, <3>5, <3>6
  <2>. QED
    BY <2>2, <2>3, <2>4
<1>2. ASSUME NEW r \in Runs, NEW pair \in Pairs, NEW p \in Ids, Propose(r, pair, p) PROVE Fine
  <2>1. /\ status[p] = "none" /\ pair \in run[r].found
        /\ status' = [status EXCEPT ![p] = "pending"]
        /\ kind' = [kind EXCEPT ![p] = pair[1]]
        /\ ticker' = [ticker EXCEPT ![p] = pair[2]]
        /\ run' = [run EXCEPT ![r].found = @ \ {pair}]
    BY <1>2 DEF Propose, ToPropose
  <2>2. Claims(tk)' \subseteq Claims(tk)
    BY <1>2, RunStepsAreQuiet, QuietClaims
  <2>3. \A q \in Ids : q \in PendingPremium(tk)' <=>
            q \in PendingPremium(tk) \/ (q = p /\ pair[2] = tk /\ pair[1] \in Premium)
    BY <1>a, <2>1 DEF PendingPremium, PendingOn, StatusType
  <2>4. CASE ~(pair[2] = tk /\ pair[1] \in Premium)
    <3>1. PendingPremium(tk)' \subseteq PendingPremium(tk)
      BY <2>3, <2>4 DEF PendingPremium, PendingOn
    <3>. QED
      BY <1>b, <2>2, <3>1
  <2>5. CASE pair[2] = tk /\ pair[1] \in Premium
    <3>1. PendingPremium(tk)' = PendingPremium(tk) \cup {p} /\ p \notin PendingPremium(tk)
      BY <2>1, <2>3, <2>5 DEF PendingPremium, PendingOn
    <3>2. pair = <<pair[1], tk>> /\ r \in PremiumRuns
      BY <2>1, <2>5 DEF Pairs, ScanShape, InScope
    <3>3. <<r, pair[1]>> \in Claims(tk) /\ <<r, pair[1]>> \notin Claims(tk)'
      BY <1>a, <2>1, <2>5, <3>2 DEF Claims, RunType
    <3>4. IsFiniteSet(Claims(tk))
      BY <1>a, ClaimsBounded
    <3>5. Claims(tk)' \subseteq Claims(tk) \ {<<r, pair[1]>>}
      BY <2>2, <3>3
    <3>6. /\ IsFiniteSet(Claims(tk) \ {<<r, pair[1]>>})
          /\ Cardinality(Claims(tk) \ {<<r, pair[1]>>}) = Cardinality(Claims(tk)) - 1
      BY <3>3, <3>4, FS_RemoveElement
    <3>7. /\ IsFiniteSet(Claims(tk)')
          /\ Cardinality(Claims(tk)') <= Cardinality(Claims(tk) \ {<<r, pair[1]>>})
      BY <3>5, <3>6, FS_Subset
    <3>8. /\ IsFiniteSet(PendingPremium(tk)')
          /\ Cardinality(PendingPremium(tk)') = Cardinality(PendingPremium(tk)) + 1
      BY <1>a, <3>1, FS_AddElement
    <3>9. /\ Cardinality(Claims(tk)) \in Nat /\ Cardinality(Claims(tk)') \in Nat
          /\ Cardinality(PendingPremium(tk)) \in Nat
      BY <1>a, <3>4, <3>7, FS_CardinalityType
    <3>10. Limit(tk) <= Limit(tk)' /\ Limit(tk) \in Nat /\ Limit(tk)' \in Nat
      BY LimitGrows
    <3>. QED
      BY <1>a, <3>6, <3>7, <3>8, <3>9, <3>10
  <2>. QED
    BY <2>4, <2>5
<1>3. ASSUME NEW r \in Runs,
             (\E pair \in Pairs : NotBuilt(r, pair)) \/ Rank(r) \/ FinishScan(r) \/ ScanRaises(r)
      PROVE  Fine
  <2>1. Claims(tk)' \subseteq Claims(tk)
    BY <1>3, RunStepsAreQuiet, QuietClaims
  <2>2. UNCHANGED propVars
    BY <1>3 DEF NotBuilt, Rank, FinishScan, ScanRaises
  <2>. QED
    BY <1>b, <1>c, <2>1, <2>2
<1>4. ASSUME \/ TurnToCalls \/ Crash
             \/ \E p \in Ids : \E i \in DOMAIN order[p] : Assignment(p, i)
      PROVE  Fine
  <2>1. Claims(tk)' \subseteq Claims(tk)
    BY <1>4, CallStepsAreQuiet, QuietClaims
  <2>2. UNCHANGED propVars
    BY <1>4 DEF TurnToCalls, Crash, Assignment
  <2>. QED
    BY <1>b, <1>c, <2>1, <2>2
<1>5. ASSUME NEW r \in Runs, Start(r), UNCHANGED propVars PROVE Fine
  <2>1. \A q \in Runs : run'[q].found \subseteq run[q].found
    BY <1>a, <1>5 DEF Start, IdleRun, RunType
  <2>2. Claims(tk)' \subseteq Claims(tk)
    BY <2>1 DEF Claims, PremiumRuns, Runs
  <2>. QED
    BY <1>b, <1>c, <1>5, <2>2
<1>6. ASSUME NEW p \in Ids, ApproveExpired(p) \/ Reject(p) PROVE Fine
  <2>1. /\ UNCHANGED <<ticker, kind, run>>
        /\ \E s \in {"expired", "rejected"} : status' = [status EXCEPT ![p] = s]
    BY <1>6 DEF ApproveExpired, Reject
  <2>2. PendingPremium(tk)' \subseteq PendingPremium(tk)
    BY <1>a, <2>1 DEF PendingPremium, PendingOn, StatusType
  <2>. QED
    BY <1>b, <1>d, <2>1, <2>2
<1>7. CASE MarkApproved
  <2>1. /\ UNCHANGED <<ticker, kind, run>>
        /\ status' = [status EXCEPT ![cmd.id] = "approved"]
    BY <1>7 DEF MarkApproved
  <2>2. PendingPremium(tk)' \subseteq PendingPremium(tk)
    BY <1>a, <2>1 DEF PendingPremium, PendingOn, StatusType
  <2>. QED
    BY <1>b, <1>d, <2>1, <2>2
<1>8. CASE UNCHANGED propVars /\ UNCHANGED run
  BY <1>b, <1>c, <1>d, <1>8
<1>. QED
  BY <1>1, <1>2, <1>3, <1>4, <1>5, <1>6, <1>7, <1>8
     DEF Next, Scan, Operator, Submission, ScheduledScan, CommandScan, Approve, WriteIntent,
         NothingSent, SendOrder, CommitSubmitted, UpdateFails, AddTicker, RemoveTicker,
         OrderMoves, Tick, Restart, vars, Runs

-----------------------------------------------------------------------------
THEOREM InvHolds == Spec => []Inv
<1>1. Inv /\ [Next]_vars => Inv'
  BY TypeStep, WaitsStep, HandlerStep, ShapeStep, BoundedStep DEF Inv
<1>. QED
  BY InitHolds, <1>1, PTL DEF Spec

\* Every variable of the scans, the proposals and the command handler keeps
\* its type (bot/scanner, and the proposal commands of bot/telegram/commands.py).
THEOREM TypeCorrect == Spec => []TypeOK
<1>1. Inv => TypeOK
  BY DEF Inv
<1>. QED
  BY InvHolds, <1>1, PTL

\* The pending puts and spreads of a ticker stay within the bound, for any
\* watchlists, overlapping scans, edits, crashes and lock timeouts: a candidate
\* is found only while nothing is pending, and what the scans under way hold is
\* bounded by their number and by the lists that name the ticker.
THEOREM PendingIsBounded == Spec => []OnePendingPerTicker
<1>1. Inv => OnePendingPerTicker
  <2>1. SUFFICES ASSUME Inv, NEW tk \in Tickers
                 PROVE  Cardinality(PendingPremium(tk)) <= Limit(tk)
    BY DEF OnePendingPerTicker
  <2>2. events \in [Events -> Nat] /\ ScanShape
    BY <2>1, TypesAre DEF AllTypes, WorldTypes, Inv
  <2>3. /\ IsFiniteSet(PendingPremium(tk)) /\ IsFiniteSet(Claims(tk))
        /\ Cardinality(PendingPremium(tk)) + Cardinality(Claims(tk)) <= Limit(tk)
    BY <2>1, <2>2, ClaimsBounded DEF Inv, Bounded
  <2>4. Cardinality(PendingPremium(tk)) \in Nat /\ Cardinality(Claims(tk)) \in Nat
    BY <2>3, FS_CardinalityType
  <2>5. Limit(tk) \in {1, 2, 4}
    BY LimitIs
  <2>. QED
    BY <2>3, <2>4, <2>5
<1>. QED
  BY InvHolds, <1>1, PTL

\* cmd_reject and the expiry branch of cmd_approve never refuse a proposal with
\* an order, other than orders whose submission was cut off after placeOrder.
THEOREM RefusedHasNoOrder == Spec => []NoOrderBehindRefusal
<1>1. Inv => NoOrderBehindRefusal
  <2>1. SUFFICES ASSUME Inv, NEW p \in Ids, status[p] \in {"rejected", "expired"}
                 PROVE  Len(order[p]) = cut[p]
    BY DEF NoOrderBehindRefusal
  <2>2. cut[p] \in Nat
    BY <2>1, TypesAre DEF AllTypes, HistoryTypes, Inv
  <2>3. ~Sending(p)
    BY <2>1 DEF Inv, CommandHolds, Sending
  <2>. QED
    BY <2>1, <2>2, <2>3 DEF Inv, OrdersCounted
<1>. QED
  BY InvHolds, <1>1, PTL

\* The end of a proposal is final, and each order after its first one was sent
\* because a crash or a lock timeout cut the one before off after placeOrder.
THEOREM SubmittedOnce == Spec => OneSubmission
<1>1. Inv /\ [Next]_vars =>
        \A p \in Ids :
            /\ status[p] \in {"approved", "rejected", "expired"} => status'[p] = status[p]
            /\ Len(order'[p]) <= cut'[p] + 1
  <2>1. SUFFICES ASSUME Inv, [Next]_vars, NEW p \in Ids
                 PROVE  /\ status[p] \in {"approved", "rejected", "expired"}
                               => status'[p] = status[p]
                        /\ Len(order'[p]) <= cut'[p] + 1
    OBVIOUS
  <2>2. status \in StatusType
    BY <2>1, TypesAre DEF AllTypes, PropTypes, Inv
  <2>3. Len(order'[p]) <= cut'[p] + 1
    <3>1. TypeOK' /\ OrdersCounted'
      BY <2>1, TypeStep, HandlerStep DEF Inv
    <3>2. cut'[p] \in Nat
      BY <3>1 DEF TypeOK
    <3>. QED
      BY <3>1, <3>2 DEF OrdersCounted
  <2>4. CASE MarkApproved
    <3>1. status[cmd.id] = "pending" /\ cmd.id \in Ids
      BY <2>1, <2>4 DEF Inv, CommandHolds, MarkApproved
    <3>. QED
      BY <2>2, <2>3, <2>4, <3>1 DEF MarkApproved, StatusType
  <2>5. ASSUME NEW q \in Ids, ApproveExpired(q) \/ Reject(q)
        PROVE  status[p] # "pending" => status'[p] = status[p]
    BY <2>2, <2>5 DEF ApproveExpired, Reject, StatusType
  <2>6. ASSUME NEW r \in Runs, NEW pair \in Pairs, NEW q \in Ids, Propose(r, pair, q)
        PROVE  status[p] # "none" => status'[p] = status[p]
    BY <2>2, <2>6 DEF Propose, StatusType
  <2>7. CASE UNCHANGED status
    BY <2>3, <2>7
  <2>. QED
    BY <2>1, <2>3, <2>4, <2>5, <2>6, <2>7
       DEF Next, Scan, Operator, Submission, ScheduledScan, CommandScan, LookAt, NotBuilt, Rank,
           FinishScan, ScanRaises, TurnToCalls, Approve, WriteIntent, NothingSent, SendOrder,
           CommitSubmitted, UpdateFails, AddTicker, RemoveTicker, OrderMoves, Assignment, Tick,
           Crash, Restart, vars, propVars
<1>. QED
  BY InvHolds, <1>1, PTL DEF Spec, OneSubmission
=============================================================================
