---------------------------- MODULE PositionDesk ----------------------------
(***************************************************************************)
(* Closing open positions: price ticks, the LEAP's stop and target, /close *)
(* and the monitor of a close order (bot/positions/manager.py,             *)
(* close_position and _monitor_close_fill of bot/execution/engine.py,      *)
(* cmd_close of bot/telegram/commands.py).                                 *)
(*                                                                         *)
(* An attempt is one call of close_position with the task that monitors    *)
(* it: a first order and, if that does not fill, one retry.  Close orders  *)
(* have no row in the database.  How handlers are attached is Gateway's    *)
(* matter; the marks that the poll writes are those of RiskEngine.         *)
(***************************************************************************)
EXTENDS Naturals, FiniteSets

CONSTANTS
    Trades, NoTrade,
    Attempts, NoAttempt,
    MaxFaults       \* crashes, disconnects and lock timeouts together

Faults == {"crash", "disconnect", "lockTimeout"}

ASSUME TradeAssumption   == NoTrade \notin Trades
ASSUME AttemptAssumption == IsFiniteSet(Attempts) /\ Attempts \subseteq Nat /\ NoAttempt \notin Attempts
ASSUME FaultAssumption   == MaxFaults \in Nat

VARIABLES
    trade,      \* rows of trades
    attempt,    \* close attempts and their orders at the broker
    cmd,        \* the attempt /close is busy with
    handlers,   \* trades captured by a handler attached to a live ticker
    alerted,    \* _alerted
    connected, up,
    used

deskVars  == <<handlers, alerted>>
worldVars == <<connected, up>>
vars == <<trade, attempt, cmd, deskVars, worldVars, used>>

Strategies == {"LEAPCall", "CSP"}     \* the short ones are alike
OrderStates == {"absent", "working", "filled", "cancelled"}
Attempt == [of : Trades \cup {NoTrade}, by : {"manual", "stop", "target"},
            step : {"none", "quoting", "first", "cancelling", "requoting",
                    "second", "booking", "booked", "unbooked", "done", "lost"},
            o1 : OrderStates, o2 : OrderStates, cancels : SUBSET {1, 2}]

TypeOK ==
    /\ trade \in [Trades -> [strategy : Strategies, status : {"open", "closed"}]]
    /\ attempt \in [Attempts -> Attempt]
    /\ cmd \in Attempts \cup {NoAttempt}
    /\ handlers \subseteq Trades
    /\ alerted \subseteq Trades \X {"stop", "target", "strike", "profit"}
    /\ connected \in BOOLEAN
    /\ up \in BOOLEAN
    /\ used \in [Faults -> Nat]

NewAttempt == [of |-> NoTrade, by |-> "manual", step |-> "none", o1 |-> "absent",
               o2 |-> "absent", cancels |-> {}]

Init ==
    /\ trade \in [Trades -> [strategy : Strategies, status : {"open"}]]
    /\ attempt = [a \in Attempts |-> NewAttempt]
    /\ cmd = NoAttempt
    /\ handlers = {}
    /\ alerted = {}
    /\ connected = TRUE
    /\ up = TRUE
    /\ used = [f \in Faults |-> 0]

Spend(f) ==
    /\ used["crash"] + used["disconnect"] + used["lockTimeout"] < MaxFaults
    /\ used' = [used EXCEPT ![f] = @ + 1]

\* An attempt takes a step that changes nothing but its own record.
AttemptStep(a, from, new) ==
    /\ attempt[a].step = from
    /\ attempt' = [attempt EXCEPT ![a] = new]

\* What happens to an order during an outage may never reach the Trade object
\* that its monitor looks at.
Outage == used["disconnect"] > 0

-----------------------------------------------------------------------------
(***************************************************************************)
(* Closing: close_position and _monitor_close_fill.                        *)
(***************************************************************************)
\* Attempts are numbered in order.
Begin(a, t, reason) ==
    /\ attempt[a].step = "none"
    /\ \A b \in Attempts : b < a => attempt[b].step # "none"
    /\ attempt' = [attempt EXCEPT ![a] =
                     [NewAttempt EXCEPT !.of = t, !.by = reason, !.step = "quoting"]]

\* /close reads the open trade, then waits for the contract and a quote.
CloseCommand(a, t) ==
    /\ up
    /\ cmd = NoAttempt
    /\ trade[t].status = "open"
    /\ Begin(a, t, "manual")
    /\ cmd' = a
    /\ UNCHANGED <<trade, deskVars, worldVars, used>>

\* placeOrder; nothing asks whether the trade is still open or already closing.
Place(a) ==
    /\ connected
    /\ AttemptStep(a, "quoting", [attempt[a] EXCEPT !.step = "first", !.o1 = "working"])
    /\ cmd' = IF cmd = a THEN NoAttempt ELSE cmd
    /\ UNCHANGED <<trade, deskVars, worldVars, used>>

\* No market data, or no connection: the operator is told.
CloseFails(a) ==
    /\ AttemptStep(a, "quoting", [attempt[a] EXCEPT !.step = "done"])
    /\ cmd' = IF cmd = a THEN NoAttempt ELSE cmd
    /\ UNCHANGED <<trade, deskVars, worldVars, used>>

\* Mutant of SeeFill: a close order that is done is taken for filled.
SeeDone(a) ==
    /\ \/ attempt[a].step = "first" /\ attempt[a].o1 \in {"filled", "cancelled"}
       \/ attempt[a].step = "second" /\ attempt[a].o2 \in {"filled", "cancelled"}
    /\ attempt' = [attempt EXCEPT ![a].step = "booking"]
    /\ UNCHANGED <<trade, cmd, deskVars, worldVars, used>>

\* A fill that was known before a disconnect is still known after it.
SeeFill(a) ==
    /\ \/ attempt[a].step = "first" /\ attempt[a].o1 = "filled"
       \/ attempt[a].step = "second" /\ attempt[a].o2 = "filled"
    /\ attempt' = [attempt EXCEPT ![a].step = "booking"]
    /\ UNCHANGED <<trade, cmd, deskVars, worldVars, used>>

\* Mutant of FirstEnds: the retry is sent without the cancel.
FirstEndsUncancelled(a) ==
    /\ attempt[a].o1 # "filled"
    /\ AttemptStep(a, "first", [attempt[a] EXCEPT !.step = "requoting"])
    /\ UNCHANGED <<trade, cmd, deskVars, worldVars, used>>

\* Cancelled by the broker, or unfilled after reprice_wait_minutes; without a
\* connection cancelOrder raises outside the try block and the task dies.
FirstEnds(a) ==
    /\ \/ /\ attempt[a].o1 = "cancelled"
          /\ AttemptStep(a, "first", [attempt[a] EXCEPT !.step = "requoting"])
       \/ /\ attempt[a].o1 = "working" \/ Outage
          /\ connected
          /\ AttemptStep(a, "first",
                [attempt[a] EXCEPT !.step = "cancelling", !.cancels = {1}])
       \/ /\ ~connected
          /\ AttemptStep(a, "first", [attempt[a] EXCEPT !.step = "lost"])
    /\ UNCHANGED <<trade, cmd, deskVars, worldVars, used>>

\* The cancel is confirmed or 30 s pass; how the order ended is not read.
CancelWaitEnds(a) ==
    /\ AttemptStep(a, "cancelling", [attempt[a] EXCEPT !.step = "requoting"])
    /\ UNCHANGED <<trade, cmd, deskVars, worldVars, used>>

Retry(a) ==
    /\ connected
    /\ AttemptStep(a, "requoting", [attempt[a] EXCEPT !.step = "second", !.o2 = "working"])
    /\ UNCHANGED <<trade, cmd, deskVars, worldVars, used>>

RetryFails(a) ==
    /\ AttemptStep(a, "requoting", [attempt[a] EXCEPT !.step = "done"])
    /\ UNCHANGED <<trade, cmd, deskVars, worldVars, used>>

\* Mutant of RetryEnds: the timeout does not look at the order once more.
RetryEndsBlind(a) ==
    /\ AttemptStep(a, "second",
          [attempt[a] EXCEPT !.step = "done",
             !.cancels = IF connected /\ attempt[a].o2 = "working" THEN @ \cup {2} ELSE @])
    /\ UNCHANGED <<trade, cmd, deskVars, worldVars, used>>

\* Unfilled: cancel without waiting (an exception here is caught), tell the user.
RetryEnds(a) ==
    /\ attempt[a].o2 # "filled" \/ Outage
    /\ AttemptStep(a, "second",
          [attempt[a] EXCEPT !.step = "done",
             !.cancels = IF connected /\ (attempt[a].o2 = "working" \/ Outage)
                         THEN @ \cup {2} ELSE @])
    /\ UNCHANGED <<trade, cmd, deskVars, worldVars, used>>

\* Mutant of Book: the status of an order is written to the trade.
BookAsOrder(a) ==
    /\ AttemptStep(a, "booking", [attempt[a] EXCEPT !.step = "booked"])
    /\ trade' = [trade EXCEPT ![attempt[a].of].status = "filled"]
    /\ UNCHANGED <<cmd, deskVars, worldVars, used>>

\* Mutant of Book: the trade's row is left as it is.
BookNothing(a) ==
    /\ AttemptStep(a, "booking", [attempt[a] EXCEPT !.step = "booked"])
    /\ UNCHANGED <<trade, cmd, deskVars, worldVars, used>>

\* _record_close_fill, whatever the status was; the tick handler stays.
Book(a) ==
    /\ AttemptStep(a, "booking", [attempt[a] EXCEPT !.step = "booked"])
    /\ trade' = [trade EXCEPT ![attempt[a].of].status = "closed"]
    /\ UNCHANGED <<cmd, deskVars, worldVars, used>>

\* _record_close_fill raises when another task, such as recovery between two
\* answers of the broker, holds SQLite's write lock beyond the busy timeout.
\* The first order's task dies of it; the retry's is caught, and the operator
\* is told that the order was unfilled.  Nothing books the fill again.
BookFails(a) ==
    /\ Spend("lockTimeout")
    /\ AttemptStep(a, "booking", [attempt[a] EXCEPT !.step = "unbooked"])
    /\ UNCHANGED <<trade, cmd, deskVars, worldVars>>

-----------------------------------------------------------------------------
(***************************************************************************)
(* Ticks.  A handler works with the position it was created for; the price *)
(* is not kept, any tick may bring any price.                              *)
(***************************************************************************)
\* subscribe_position, by the poll, at startup or after a reconnect.
Watch(t) ==
    /\ up /\ connected
    /\ trade[t].status = "open"
    /\ t \notin handlers
    /\ handlers' = handlers \cup {t}
    /\ UNCHANGED <<trade, attempt, cmd, alerted, worldVars, used>>

\* Mutant of LeapTick: the trigger is remembered only by a later alert.
LeapTickForgets(t, a, reason) ==
    /\ up /\ connected
    /\ t \in handlers /\ trade[t].strategy = "LEAPCall"
    /\ <<t, reason>> \notin alerted
    /\ Begin(a, t, reason)
    /\ UNCHANGED <<trade, cmd, deskVars, worldVars, used>>

\* on_price_update for a LEAP: the stop and the target each fire once.
LeapTick(t, a, reason) ==
    /\ up /\ connected
    /\ t \in handlers /\ trade[t].strategy = "LEAPCall"
    /\ <<t, reason>> \notin alerted
    /\ alerted' = alerted \cup {<<t, reason>>}
    /\ Begin(a, t, reason)
    /\ UNCHANGED <<trade, cmd, handlers, worldVars, used>>

\* ... for a short option: alert when the price comes to the strike, and
\* re-arm once it has left it.
StrikeTick(t) ==
    /\ up /\ connected
    /\ t \in handlers /\ trade[t].strategy # "LEAPCall"
    /\ alerted' \in {alerted \cup {<<t, "strike">>}, alerted \ {<<t, "strike">>}}
    /\ alerted' # alerted
    /\ UNCHANGED <<trade, attempt, cmd, handlers, worldVars, used>>

\* The poll finds the profit target of a short option reached.
ProfitAlert(t) ==
    /\ up /\ connected
    /\ trade[t].status = "open" /\ trade[t].strategy # "LEAPCall"
    /\ <<t, "profit">> \notin alerted
    /\ alerted' = alerted \cup {<<t, "profit">>}
    /\ UNCHANGED <<trade, attempt, cmd, handlers, worldVars, used>>

-----------------------------------------------------------------------------
(***************************************************************************)
(* The environment.                                                        *)
(***************************************************************************)
\* A fill may cross a cancel.
BrokerMoves(a) ==
    /\ \E s \in {"filled", "cancelled"} :
          \/ attempt[a].o1 = "working" /\ attempt' = [attempt EXCEPT ![a].o1 = s]
          \/ attempt[a].o2 = "working" /\ attempt' = [attempt EXCEPT ![a].o2 = s]
    /\ UNCHANGED <<trade, cmd, deskVars, worldVars, used>>

\* The tickers of the old connection die.
Disconnect ==
    /\ up /\ connected
    /\ Spend("disconnect")
    /\ connected' = FALSE
    /\ handlers' = {}
    /\ UNCHANGED <<trade, attempt, cmd, alerted, up>>

Reconnect ==
    /\ up /\ ~connected
    /\ connected' = TRUE
    /\ UNCHANGED <<trade, attempt, cmd, deskVars, up, used>>

Crash ==
    /\ up
    /\ Spend("crash")
    /\ up' = FALSE
    /\ connected' = FALSE
    /\ attempt' = [a \in Attempts |->
                     IF attempt[a].step \in {"none", "booked", "unbooked", "done"} THEN attempt[a]
                     ELSE [attempt[a] EXCEPT !.step = "lost"]]
    /\ cmd' = NoAttempt
    /\ handlers' = {}
    /\ alerted' = {}
    /\ UNCHANGED trade

Restart ==
    /\ ~up
    /\ up' = TRUE
    /\ connected' = TRUE
    /\ UNCHANGED <<trade, attempt, cmd, deskVars, used>>

-----------------------------------------------------------------------------
Monitor(a) ==
    \/ Place(a)
    \/ CloseFails(a)
    \/ SeeFill(a)
    \/ FirstEnds(a)
    \/ CancelWaitEnds(a)
    \/ Retry(a)
    \/ RetryFails(a)
    \/ RetryEnds(a)
    \/ Book(a)

Ticks ==
    \/ \E t \in Trades, a \in Attempts, reason \in {"stop", "target"} : LeapTick(t, a, reason)
    \/ \E t \in Trades : Watch(t) \/ StrikeTick(t) \/ ProfitAlert(t)

Environment ==
    \/ \E a \in Attempts : BrokerMoves(a)
    \/ Disconnect
    \/ Crash

Next ==
    \/ \E a \in Attempts, t \in Trades : CloseCommand(a, t)
    \/ \E a \in Attempts : Monitor(a) \/ BookFails(a)
    \/ Ticks
    \/ Reconnect
    \/ Restart
    \/ Environment

Spec == Init /\ [][Next]_vars

(***************************************************************************)
(* Waits end, the reconnect loop retries for ever and systemd restarts the *)
(* process.                                                                *)
(***************************************************************************)
Fairness ==
    /\ \A a \in Attempts : WF_vars(Monitor(a))
    /\ WF_vars(Reconnect)
    /\ WF_vars(Restart)

FairSpec == Spec /\ Fairness

-----------------------------------------------------------------------------
\* One attempt never has two orders at work: before the retry is sent the
\* first order is done, or its cancel was requested.
OneOrderPerAttempt ==
    \A a \in Attempts :
        attempt[a].o2 # "absent" /\ attempt[a].o1 = "working" => 1 \in attempt[a].cancels

\* A LEAP's stop sends one close order between two restarts, however many
\* handlers and ticks see the price: the key is set before the first await.
StopFiresOnce ==
    \A t \in Trades :
        Cardinality({a \in Attempts : attempt[a].of = t /\ attempt[a].by = "stop"})
            <= 1 + used["crash"]

\* An order of the attempt filled, and nobody had asked to cancel it.
FilledUncancelled(a, i) ==
    /\ (IF i = 1 THEN attempt[a].o1 ELSE attempt[a].o2) = "filled"
    /\ i \notin attempt[a].cancels

Closed(a) == \E t \in Trades : attempt[a].of = t /\ trade[t].status = "closed"

\* The monitor lost the fill, each way with the fault that alone can cause it:
\* its booking was refused, its task died (with the process, or of cancelOrder
\* without a connection), or an outage hid the retry's fill and no cancel
\* could be sent.
LetGo(a, i) ==
    \/ attempt[a].step = "unbooked" /\ used["lockTimeout"] > 0
    \/ attempt[a].step = "lost" /\ (used["crash"] > 0 \/ Outage)
    \/ attempt[a].step = "done" /\ i = 2 /\ Outage

\* The fill of a close order that nobody asked to cancel is in the books, or in
\* the hands of a monitor that still watches this very order or is about to
\* book it, or was lost by this very attempt in one of three ways: no timeout,
\* retry or other attempt at the trade makes a monitor look away from an order
\* that can still fill, and no fault costs an attempt its fill that it does
\* not hit.
FillIsInHand ==
    \A a \in Attempts, i \in {1, 2} :
        FilledUncancelled(a, i) =>
            \/ Closed(a)
            \/ attempt[a].step = "booking"
            \/ attempt[a].step = IF i = 1 THEN "first" ELSE "second"
            \/ LetGo(a, i)

\* The fill of a close order is booked in the end, whatever faults hit others
\* and whatever other attempts at the trade do, unless a cancel is asked for or
\* this attempt lets it go: a close order has no row from which it could be
\* recovered.
FillIsBooked ==
    \A a \in Attempts, i \in {1, 2} :
        FilledUncancelled(a, i) ~> Closed(a) \/ i \in attempt[a].cancels \/ LetGo(a, i)

\* An order in the ledger: what the broker says of it, and whether it is the
\* one whose fill the attempt booked.
Stage(a, i) ==
    LET state == IF i = 1 THEN attempt[a].o1 ELSE attempt[a].o2
        last  == IF i = 1 THEN attempt[a].o2 = "absent" ELSE attempt[a].o2 # "absent"
    IN  CASE last /\ attempt[a].step = "booked" -> IF state = "filled" THEN "booked" ELSE "invented"
          [] ~(last /\ attempt[a].step = "booked") /\ state = "absent" -> "unsent"
          [] ~(last /\ attempt[a].step = "booked") /\ state = "cancelled" -> "void"
          [] OTHER -> state

Ledger == INSTANCE CloseLedger WITH
    order  <- [a \in Attempts |-> [i \in {1, 2} |-> Stage(a, i)]],
    closed <- {t \in Trades : trade[t].status = "closed"}

\* Closing keeps its ledger: however crashes, outages, late fills and attempts
\* at one trade interleave, a fill is booked once at most, a trade is closed by
\* a booked fill only, and no attempt sends a third order.
ImplementsLedger == Ledger!Spec

\* manager.py, unsubscribe_position: "Cancel price tick subscription when a
\* position is closed."  A booked close does not call it: the handler lives on
\* and its stop or target sells a LEAP that is no longer held.
StopsOnlyOpenTrades ==
    [][\A a \in Attempts :
           attempt[a].step = "none" /\ attempt'[a].by \in {"stop", "target"}
               => trade[attempt'[a].of].status = "open"]_vars
=============================================================================
