----------------------------- MODULE RiskEngine -----------------------------
(***************************************************************************)
(* The circuit breaker (bot/risk/engine.py) and the commands that consult  *)
(* or move it: /approve, /pause, /resume, /setconfig.  Telegram handles    *)
(* one update at a time, so there is one command; fills, closes, marks,    *)
(* the account value and the calendar move between any two of its awaits.  *)
(*                                                                         *)
(* A check reads the account value before it awaits the database: cmd.pv   *)
(* is the value the check under way works with, and cmd.day and cmd.loss   *)
(* are what the loss check has of the calendar and of the three windows.   *)
(* A trade stands for its proposal, the order and the row in trades.       *)
(***************************************************************************)
EXTENDS Integers, FiniteSetsExt

CONSTANTS
    Trades, NoTrade,
    Kind,           \* strategy of a trade
    Underlying,
    Size,           \* strike * 100, spread width * 100 or the LEAP's cost
    AccountValues,  \* net liquidation values IBKR may report, 0 = not synced
    PnlValues, MarkValues,
    LastDay, WeekLength, MonthLength,
    BucketPct, PositionPct, UnderlyingPct,    \* per mille
    ConfigLimit,    \* loss limits of config.yaml, per mille
    SetConfigLimit, \* the values /setconfig may give each limit
    PdtStop,
    Overlap,        \* does the operator approve while an order is working?
    Budget

Windows  == {"daily", "weekly", "monthly"}
Buckets  == {"Core", "Tactical", "Momentum"}
Strategy == {"CSP", "CoveredCall", "BullPutSpread", "LEAPCall"}
Faults   == {"crash", "persist"}

ASSUME KindAssumption ==
    /\ IsFiniteSet(Trades)
    /\ NoTrade \notin Trades
    /\ Kind \in [Trades -> Strategy]
ASSUME SizeAssumption  == Size \in [Trades -> Nat]
ASSUME ValueAssumption ==
    /\ AccountValues \subseteq Nat
    /\ \E v \in AccountValues : \A u \in AccountValues : v >= u
    /\ PnlValues \subseteq Int
    /\ MarkValues \subseteq Int
ASSUME CalendarAssumption ==
    /\ LastDay \in Nat
    /\ WeekLength \in Nat \ {0}
    /\ MonthLength \in Nat \ {0}
ASSUME LimitAssumption ==
    /\ ConfigLimit \in [Windows -> Nat]
    /\ SetConfigLimit \in [Windows -> SUBSET Nat]
    /\ BucketPct \in [Buckets -> Nat]
    /\ UnderlyingPct \in Nat
ASSUME RiskBudgetAssumption == Budget \in [Faults -> Nat] /\ Overlap \in BOOLEAN

VARIABLES
    status,   \* of each trade
    exitDay, pnl,   \* trades.exit_date and trades.pnl of a closed trade
    mark,     \* positions.unrealised_pnl, 0 without a row
    polled,   \* the trades check_all_positions has read and not yet visited
    saved,    \* bot_state holds a pause reason
    up, paused, limit,   \* memory of the process
    cmd,
    halted,   \* the operator was told of a pause and has not asked to resume
    account, today,
    used

bookVars  == <<status, exitDay, pnl, mark, polled>>
worldVars == <<account, today>>
vars == <<bookVars, saved, up, paused, limit, cmd, halted, worldVars, used>>

\* Inside check_loss_limits: the window summed next, then the marks.
LossSteps == {"daily", "weekly", "monthly", "marks"}
Steps     == LossSteps \cup {"idle", "persist", "notify", "exposure",
                             "capacity", "building", "clear"}

TypeOK ==
    /\ status \in [Trades -> {"none", "working", "open", "closed", "void"}]
    /\ exitDay \in [Trades -> 0..LastDay]
    /\ pnl \in [Trades -> Int]
    /\ mark \in [Trades -> Int]
    /\ polled \subseteq Trades
    /\ saved \in BOOLEAN
    /\ up \in BOOLEAN
    /\ paused \in BOOLEAN
    /\ halted \in BOOLEAN
    /\ limit \in [Windows -> Nat]
    /\ cmd \in [step : Steps, trade : Trades \cup {NoTrade},
                pv : AccountValues \cup {0}, day : 0..LastDay,
                loss : [Windows -> Int], moved : BOOLEAN]
    /\ account \in AccountValues \cup {0}
    /\ today \in 0..LastDay
    /\ used \in [Faults -> Nat]

NoLoss  == [w \in Windows |-> 0]
IdleCmd == [step |-> "idle", trade |-> NoTrade, pv |-> 0, day |-> 0,
            loss |-> NoLoss, moved |-> FALSE]

Init ==
    /\ status = [t \in Trades |-> "none"]
    /\ exitDay = [t \in Trades |-> 0]
    /\ pnl = [t \in Trades |-> 0]
    /\ mark = [t \in Trades |-> 0]
    /\ polled = {}
    /\ saved = FALSE
    /\ up = TRUE
    /\ paused = FALSE
    /\ limit = ConfigLimit
    /\ cmd = IdleCmd
    /\ halted = FALSE
    /\ account \in AccountValues
    /\ today = 0
    /\ used = [f \in Faults |-> 0]

Spend(f) ==
    /\ used[f] < Budget[f]
    /\ used' = [used EXCEPT ![f] = @ + 1]

-----------------------------------------------------------------------------
(***************************************************************************)
(* What the checks compute.                                                *)
(***************************************************************************)
\* cmd_approve: the bucket a strategy is checked against.
Bucket(t) ==
    CASE Kind[t] \in {"CSP", "CoveredCall"} -> "Core"
      [] Kind[t] = "LEAPCall"               -> "Momentum"
      [] Kind[t] = "BullPutSpread"          -> "Tactical"

\* The capital a proposal asks for; a covered call's is 0.
Required(t) == IF Kind[t] = "CoveredCall" THEN 0 ELSE Size[t]

\* What the legs of a booked trade count for: nothing without a SELL leg.
CapitalFromLegs == [t \in Trades |-> IF Kind[t] = "LEAPCall" THEN 0 ELSE Size[t]]

Booked(s) == {t \in Trades : status[t] = s}

BucketUse(b, S) ==
    SumFunctionOnSet(CapitalFromLegs,
                     {t \in S : Bucket(t) = b /\ Kind[t] # "CoveredCall"})

Exposure(u, S) == SumFunctionOnSet(CapitalFromLegs, {t \in S : Underlying[t] = u})

\* Midnight (Eastern) that opens the day, the week and the month of day d.
PeriodStart(w, d) ==
    CASE w = "daily"   -> d
      [] w = "weekly"  -> d - (d % WeekLength)
      [] w = "monthly" -> d - (d % MonthLength)

\* _sum_pnl_since the start of the window that day d is in.
Realized(w, d) ==
    SumFunctionOnSet(pnl, {t \in Booked("closed") : exitDay[t] >= PeriodStart(w, d)})

\* The limits against the realized sums; the marks count in the daily window only.
Breaches(value, sums, marks) ==
    \E w \in Windows :
        1000 * (sums[w] + IF w = "daily" THEN marks ELSE 0) <= -(value * limit[w])

Marks == SumFunctionOnSet(mark, Trades)

\* The losses of this moment.
Breached(value) == Breaches(value, [w \in Windows |-> Realized(w, today)], Marks)

\* Mutant of AtMaxExposure: only trades of the same strategy are summed.
AtMaxOfStrategy(t, value) ==
    1000 * Exposure(Underlying[t], {s \in Booked("open") : Kind[s] = Kind[t]})
        >= value * UnderlyingPct

\* The new trade's own capital is not part of the sum.
AtMaxExposure(t, value) ==
    1000 * Exposure(Underlying[t], Booked("open")) >= value * UnderlyingPct

\* Mutant of HasCapacity: the bucket's open trades are not added.
HasPositionRoom(t, value) ==
    1000 * Required(t) <= value * BucketPct[Bucket(t)]

HasCapacity(t, value) ==
    LET b == Bucket(t)
    IN  /\ 1000000 * Required(t) <= value * BucketPct[b] * PositionPct[b]
        /\ 1000 * (BucketUse(b, Booked("open")) + Required(t))
              <= value * BucketPct[b]

-----------------------------------------------------------------------------
(***************************************************************************)
(* /approve through check_new_trade to the submitted order.                *)
(***************************************************************************)
\* The next check, which first reads the account value: 0 blocks.
NextCheck(step) ==
    cmd' = IF account = 0 THEN IdleCmd
           ELSE [cmd EXCEPT !.step = step, !.pv = account, !.day = 0, !.loss = NoLoss]

Approve(t) ==
    /\ up
    /\ cmd = IdleCmd
    /\ status[t] = "none"
    /\ Overlap \/ Booked("working") = {}
    /\ ~paused
    /\ account >= PdtStop
    /\ account > 0
    /\ cmd' = [IdleCmd EXCEPT !.step = "daily", !.trade = t, !.pv = account,
                              !.day = today]
    /\ UNCHANGED <<bookVars, saved, up, paused, limit, halted, worldVars, used>>

\* check_loss_limits awaits one sum per window, as of the day it began.
ReadLoss(w) ==
    /\ cmd.step = w
    /\ cmd' = [cmd EXCEPT
                 !.loss[w] = Realized(w, cmd.day),
                 !.step = CASE w = "daily"   -> "weekly"
                            [] w = "weekly"  -> "monthly"
                            [] w = "monthly" -> "marks"]
    /\ UNCHANGED <<bookVars, saved, up, paused, limit, halted, worldVars, used>>

\* Mutant of CheckLoss: the daily total leaves out the open positions' marks.
CheckRealizedLoss ==
    /\ cmd.step = "marks"
    /\ IF Breaches(cmd.pv, cmd.loss, 0)
       THEN /\ paused' = TRUE
            /\ cmd' = [IdleCmd EXCEPT !.step = "persist"]
       ELSE /\ NextCheck("exposure")
            /\ UNCHANGED paused
    /\ UNCHANGED <<bookVars, saved, up, limit, halted, worldVars, used>>

\* The marks are read last; a breach pauses in memory at once, then persists.
CheckLoss ==
    /\ cmd.step = "marks"
    /\ IF Breaches(cmd.pv, cmd.loss, Marks)
       THEN /\ paused' = TRUE
            /\ cmd' = [IdleCmd EXCEPT !.step = "persist"]
       ELSE /\ NextCheck("exposure")
            /\ UNCHANGED paused
    /\ UNCHANGED <<bookVars, saved, up, limit, halted, worldVars, used>>

CheckExposure ==
    /\ cmd.step = "exposure"
    /\ IF AtMaxExposure(cmd.trade, cmd.pv)
       THEN cmd' = IdleCmd
       ELSE NextCheck("capacity")
    /\ UNCHANGED <<bookVars, saved, up, paused, limit, halted, worldVars, used>>

CheckCapacity ==
    /\ cmd.step = "capacity"
    /\ cmd' = IF HasCapacity(cmd.trade, cmd.pv)
              THEN [cmd EXCEPT !.step = "building"]
              ELSE IdleCmd
    /\ UNCHANGED <<bookVars, saved, up, paused, limit, halted, worldVars, used>>

\* Three seconds of market data later: submit_order looks at the pause only.
Submit ==
    /\ cmd.step = "building"
    /\ ~paused
    /\ status' = [status EXCEPT ![cmd.trade] = "working"]
    /\ cmd' = IdleCmd
    /\ UNCHANGED <<exitDay, pnl, mark, polled, saved, up, paused, limit, halted,
                   worldVars, used>>

SubmitRefused ==
    /\ cmd.step = "building"
    /\ cmd' = IdleCmd
    /\ UNCHANGED <<bookVars, saved, up, paused, limit, halted, worldVars, used>>

-----------------------------------------------------------------------------
(***************************************************************************)
(* Pause and resume: memory first, then bot_state, then the reply.         *)
(***************************************************************************)
Pause ==
    /\ up
    /\ cmd = IdleCmd
    /\ paused' = TRUE
    /\ cmd' = [IdleCmd EXCEPT !.step = "persist"]
    /\ UNCHANGED <<bookVars, saved, up, limit, halted, worldVars, used>>

\* Mutant of PersistPause: the reply comes before the commit.
TellBeforePersist ==
    /\ cmd.step = "persist"
    /\ halted' = TRUE
    /\ saved' \in {saved, TRUE}
    /\ cmd' = [IdleCmd EXCEPT !.step = "notify"]
    /\ UNCHANGED <<bookVars, up, paused, limit, worldVars, used>>

PersistPause ==
    /\ cmd.step = "persist"
    /\ saved' = TRUE
    /\ cmd' = [IdleCmd EXCEPT !.step = "notify"]
    /\ UNCHANGED <<bookVars, up, paused, limit, halted, worldVars, used>>

\* set_state raises (the database is locked): logged, and told all the same.
PersistFails ==
    /\ cmd.step = "persist"
    /\ Spend("persist")
    /\ cmd' = [IdleCmd EXCEPT !.step = "notify"]
    /\ UNCHANGED <<bookVars, saved, up, paused, limit, halted, worldVars>>

NotifyPause ==
    /\ cmd.step = "notify"
    /\ halted' = TRUE
    /\ cmd' = IdleCmd
    /\ UNCHANGED <<bookVars, saved, up, paused, limit, worldVars, used>>

Resume ==
    /\ up
    /\ cmd = IdleCmd
    /\ paused' = FALSE
    /\ halted' = FALSE
    /\ cmd' = [IdleCmd EXCEPT !.step = "clear"]
    /\ UNCHANGED <<bookVars, saved, up, limit, worldVars, used>>

ClearPause ==
    /\ cmd.step = "clear"
    /\ saved' = FALSE
    /\ cmd' = IdleCmd
    /\ UNCHANGED <<bookVars, up, paused, limit, halted, worldVars, used>>

\* resume lets set_state's exception through: resumed until the next restart.
ClearFails ==
    /\ cmd.step = "clear"
    /\ Spend("persist")
    /\ cmd' = IdleCmd
    /\ UNCHANGED <<bookVars, saved, up, paused, limit, halted, worldVars>>

\* /setconfig changes the running configuration, not config.yaml.
SetConfig ==
    /\ up
    /\ cmd = IdleCmd
    /\ \E w \in Windows : \E v \in SetConfigLimit[w] : limit' = [limit EXCEPT ![w] = v]
    /\ UNCHANGED <<bookVars, saved, up, paused, cmd, halted, worldVars, used>>

Crash ==
    /\ up
    /\ Spend("crash")
    /\ up' = FALSE
    /\ paused' = FALSE
    /\ limit' = ConfigLimit
    /\ cmd' = IdleCmd
    /\ polled' = {}
    /\ UNCHANGED <<status, exitDay, pnl, mark, saved, halted, worldVars>>

\* load_state
Restart ==
    /\ ~up
    /\ up' = TRUE
    /\ paused' = saved
    /\ UNCHANGED <<bookVars, saved, limit, cmd, halted, worldVars, used>>

-----------------------------------------------------------------------------
(***************************************************************************)
(* What moves while a command waits: the order and close monitors, the     *)
(* position poll, the account and the calendar.                            *)
(***************************************************************************)
\* The command's picture of the losses is no longer the current one.
Moved ==
    cmd' = IF cmd.step \in LossSteps \cup {"exposure", "capacity", "building"}
           THEN [cmd EXCEPT !.moved = TRUE]
           ELSE cmd

Fill(t) ==
    /\ up
    /\ status[t] = "working"
    /\ status' \in {[status EXCEPT ![t] = s] : s \in {"open", "void"}}
    /\ UNCHANGED <<exitDay, pnl, mark, polled, saved, up, paused, limit, cmd, halted,
                   worldVars, used>>

PollStart ==
    /\ up
    /\ polled = {}
    /\ Booked("open") # {}
    /\ polled' = Booked("open")
    /\ UNCHANGED <<status, exitDay, pnl, mark, saved, up, paused, limit, cmd,
                   halted, worldVars, used>>

\* The row is upserted seconds after the trade was read: a trade that closed
\* meanwhile gets a row again, and nothing deletes it any more.
Mark(t) ==
    /\ up
    /\ t \in polled
    /\ polled' = polled \ {t}
    /\ \/ UNCHANGED <<mark, cmd>>
       \/ /\ \E v \in MarkValues \ {mark[t]} : mark' = [mark EXCEPT ![t] = v]
          /\ Moved
    /\ UNCHANGED <<status, exitDay, pnl, saved, up, paused, limit, halted,
                   worldVars, used>>

\* Mutant of Close: the outcome is written to the status.
CloseAsAssigned(t) ==
    /\ up
    /\ status[t] = "open"
    /\ status' = [status EXCEPT ![t] = "Assigned"]
    /\ mark' = [mark EXCEPT ![t] = 0]
    /\ Moved
    /\ UNCHANGED <<exitDay, pnl, polled, saved, up, paused, limit, halted,
                   worldVars, used>>

\* _record_close_fill: the trade row, and the positions row is deleted.
Close(t) ==
    /\ up
    /\ status[t] = "open"
    /\ status' = [status EXCEPT ![t] = "closed"]
    /\ exitDay' = [exitDay EXCEPT ![t] = today]
    /\ \E v \in PnlValues : pnl' = [pnl EXCEPT ![t] = v]
    /\ mark' = [mark EXCEPT ![t] = 0]
    /\ Moved
    /\ UNCHANGED <<polled, saved, up, paused, limit, halted, worldVars, used>>

AccountMoves ==
    /\ account' \in AccountValues
    /\ account' # account
    /\ Moved
    /\ UNCHANGED <<bookVars, saved, up, paused, limit, halted, today, used>>

Midnight ==
    /\ today < LastDay
    /\ today' = today + 1
    /\ Moved
    /\ UNCHANGED <<bookVars, saved, up, paused, limit, halted, account, used>>

-----------------------------------------------------------------------------
Check ==
    \/ \E w \in Windows : ReadLoss(w)
    \/ CheckLoss
    \/ CheckExposure
    \/ CheckCapacity

Command ==
    \/ \E t \in Trades : Approve(t)
    \/ Check
    \/ Submit
    \/ SubmitRefused
    \/ Pause
    \/ PersistPause
    \/ NotifyPause
    \/ Resume
    \/ ClearPause
    \/ SetConfig
Fault   == PersistFails \/ ClearFails \/ Crash
Outside ==
    \/ \E t \in Trades : Fill(t) \/ Mark(t) \/ Close(t)
    \/ PollStart
    \/ AccountMoves
    \/ Midnight
    \/ Restart

Next == Command \/ Fault \/ Outside

Spec == Init /\ [][Next]_vars

-----------------------------------------------------------------------------
\* Trades whose order is working or filled.
Committed == Booked("open") \cup Booked("working")
Best == Max(AccountValues)

\* Once the operator has been told of a pause, the running bot is paused until
\* /resume, however often it is restarted.  A pause whose persist failed, which
\* the code only logs, is the exception.
HaltSurvives == halted /\ up /\ used["persist"] = 0 => paused

\* No order is sent while a loss window is in breach, with the account value,
\* the marks and the calendar of that moment, unless one of these moved after
\* the command had begun its checks (submit_order repeats the pause check only).
NoOrderInBreach ==
    [][\A t \in Trades :
           status[t] = "none" /\ status'[t] = "working" /\ Breached(account)
               => cmd.moved]_vars

\* If the operator waits for each order to fill or lapse, a bucket's working and
\* open trades never take more than its share of the best account value.  The
\* check does not see working orders: with Overlap two approvals exceed it.
\* Covered calls are not counted by the code, nor are LEAP calls, which have no
\* SELL leg: Momentum is bounded per position only.
BucketWithinBudget ==
    ~Overlap => \A b \in Buckets : 1000 * BucketUse(b, Committed) <= Best * BucketPct[b]

\* Under the same discipline one underlying overshoots its limit by one trade
\* at most: one of the working and open trades was approved below the limit set
\* by all others.  The check blocks when the limit is reached, not when it would be.
ExposureOvershootsOnce ==
    ~Overlap =>
        \A u \in {Underlying[t] : t \in Committed} :
            Exposure(u, Committed) > 0 =>
                \E t \in Committed :
                    1000 * Exposure(u, Committed \ {t}) < Best * UnderlyingPct
=============================================================================
