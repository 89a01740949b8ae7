------------------------------- MODULE Gateway -------------------------------
(***************************************************************************)
(* The connection to IB Gateway and what hangs on it: the startup order    *)
(* and the heartbeat of bot/main.py, the reconnect loop of bot/ibkr.py,    *)
(* the tick subscriptions of bot/positions/manager.py and the alerts that  *)
(* bot/telegram/bot.py delivers or drops.                                  *)
(*                                                                         *)
(* Alerts about anything but the connection are left out; two handlers of  *)
(* one trade are one.  Every wait ends at any time.                        *)
(***************************************************************************)
EXTENDS Naturals, FiniteSets

CONSTANTS
    Trades, Underlyings, UnderlyingOf,
    NoTrade,
    Ordered,        \* trades whose fill may yet be recorded; the others are open
    Loops,          \* slots for reconnect tasks
    NoLoop,
    LastBackoff,    \* len(_BACKOFF_STEPS) - 1; later attempts are alike
    MaxFaults       \* crashes, disconnects, refusals, exceptions and lost alerts

\* What subscribes: the poll, a sweep, and the task each recorded fill starts.
Walkers == {"poll", "sweep"} \cup Trades
MissesToAlarm == 2      \* later misses are alike

ASSUME UnderlyingAssumption == UnderlyingOf \in [Trades -> Underlyings]
ASSUME TradesAssumption     == NoTrade \notin Trades /\ {"poll", "sweep"} \cap Trades = {}
ASSUME OrderedAssumption    == Ordered \subseteq Trades
ASSUME LoopAssumption       == NoLoop \notin Loops
ASSUME BackoffAssumption    == LastBackoff \in Nat \ {0}
ASSUME FaultAssumption      == MaxFaults \in Nat

VARIABLES
    phase,          \* where main() is
    reachable,      \* does IB Gateway accept connections?
    connected,
    loop,           \* reconnect tasks
    reconnectTask,  \* _reconnect_task
    walk,           \* the five-minute poll; startup's or a reconnect's sweep; a fill's task
    subscriptions,  \* _subscriptions: the trade whose handler is registered
    live,           \* trades with a handler attached to a ticker of this connection
    trade,
    missed, alarmed     \* HeartbeatMonitor

\* Variables of the operator and of the bounds.
VARIABLES
    told,           \* the last news of the connection that was delivered
    deaf,           \* reconnected since the last sweep, and did not sweep
    lost,           \* was an alert lost?
    faults

linkVars  == <<reachable, connected>>
loopVars  == <<loop, reconnectTask>>
tickVars  == <<subscriptions, live>>
beatVars  == <<missed, alarmed>>
vars == <<phase, linkVars, loopVars, walk, tickVars, trade, beatVars,
          told, lost, deaf, faults>>

Loop == [step : {"idle", "waiting", "recovering", "sweeping"}, attempt : 0..LastBackoff]
\* Trades still to visit, and the one whose contract is being qualified.
Walk == [todo : SUBSET Trades, cur : SUBSET Trades]

TypeOK ==
    /\ phase \in {"down", "recovering", "subscribing", "running"}
    /\ reachable \in BOOLEAN
    /\ connected \in BOOLEAN
    /\ loop \in [Loops -> Loop]
    /\ reconnectTask \in Loops \cup {NoLoop}
    /\ walk \in [Walkers -> Walk]
    /\ subscriptions \in [Underlyings -> Trades \cup {NoTrade}]
    /\ live \subseteq Trades
    /\ trade \in [Trades -> {"none", "open", "closed"}]
    /\ missed \in 0..MissesToAlarm
    /\ alarmed \in BOOLEAN
    /\ told \in {"down", "up"}
    /\ deaf \in BOOLEAN
    /\ lost \in BOOLEAN
    /\ faults \in 0..MaxFaults

NoTask == [step |-> "idle", attempt |-> 0]
NoWalk == [todo |-> {}, cur |-> {}]
NoSubscriptions == [u \in Underlyings |-> NoTrade]

Init ==
    /\ phase = "down"
    /\ reachable = TRUE
    /\ connected = FALSE
    /\ loop = [k \in Loops |-> NoTask]
    /\ reconnectTask = NoLoop
    /\ walk = [w \in Walkers |-> NoWalk]
    /\ subscriptions = NoSubscriptions
    /\ live = {}
    /\ trade \in [Trades -> {"none", "open"}]
    /\ \A t \in Trades \ Ordered : trade[t] = "open"
    /\ missed = 0
    /\ alarmed = FALSE
    /\ told = "up"
    /\ deaf = FALSE
    /\ lost = FALSE
    /\ faults = 0

OpenTrades == {t \in Trades : trade[t] = "open"}
Active(k)  == loop[k].step # "idle"

Fault ==
    /\ faults < MaxFaults
    /\ faults' = faults + 1

\* Notifications exist once TelegramBot.run has begun; on_reconnect and the
\* scheduled jobs are in place at the same moment, no await lies between.
Ready == phase = "running"

\* send_alert: dropped before run(); broadcast swallows a failed send.
Tell(news) ==
    \/ Ready /\ told' = news /\ UNCHANGED <<lost, faults>>
    \/ Ready /\ lost' = TRUE /\ Fault /\ UNCHANGED told
    \/ ~Ready /\ UNCHANGED <<told, lost, faults>>

-----------------------------------------------------------------------------
(***************************************************************************)
(* Startup, main().  An exception in it ends the process; systemd starts   *)
(* the next one.                                                           *)
(***************************************************************************)
\* connect(); if the gateway does not answer, the alert is dropped and
\* the process exits, which changes nothing here.
Boot ==
    /\ phase = "down"
    /\ reachable
    /\ phase' = "recovering"
    /\ connected' = TRUE
    /\ UNCHANGED <<reachable, loopVars, walk, tickVars, trade, beatVars,
                   told, lost, deaf, faults>>

WalkOver(trades) == [todo |-> trades, cur |-> {}]
Walking(w) == walk[w] # NoWalk

BeginSweep == walk' = [walk EXCEPT !["sweep"] = WalkOver(OpenTrades)]

\* reconcile_state returns, with or without a mismatch; subscribe_all reads its list.
StartupReconciled ==
    /\ phase = "recovering"
    /\ phase' = "subscribing"
    /\ BeginSweep
    /\ UNCHANGED <<linkVars, loopVars, tickVars, trade, beatVars, told, lost, deaf, faults>>

\* on_reconnect is set, the scheduler starts, Telegram runs.
Wire ==
    /\ phase = "subscribing"
    /\ ~Walking("sweep")
    /\ phase' = "running"
    /\ UNCHANGED <<linkVars, loopVars, walk, tickVars, trade, beatVars, told, lost, deaf, faults>>

ProcessEnds ==
    /\ phase' = "down"
    /\ connected' = FALSE
    /\ loop' = [k \in Loops |-> NoTask]
    /\ reconnectTask' = NoLoop
    /\ walk' = [w \in Walkers |-> NoWalk]
    /\ subscriptions' = NoSubscriptions
    /\ live' = {}
    /\ missed' = 0
    /\ alarmed' = FALSE
    /\ deaf' = FALSE
    /\ UNCHANGED <<reachable, trade, told, lost>>

\* Recovery needs the broker: without a connection it raises.
StartupFails ==
    /\ phase = "recovering"
    /\ \/ ~connected /\ UNCHANGED faults
       \/ connected /\ Fault
    /\ ProcessEnds

Crash ==
    /\ phase # "down"
    /\ Fault
    /\ ProcessEnds

-----------------------------------------------------------------------------
(***************************************************************************)
(* The reconnect loop.                                                     *)
(***************************************************************************)
\* Without a connection the requests that are waited for fail.
Interrupted(w) == [w EXCEPT !.cur = {}]

CancelledTasks == {k \in Loops : k = reconnectTask /\ Active(k)}

\* _on_disconnect for any event while connected, or while a loop connects; the
\* gateway may be gone for a moment or for long.
DisconnectWith(cancelled) ==
    /\ phase # "down"
    /\ connected \/ \E k \in Loops : Active(k)
    /\ Fault
    /\ reachable' \in BOOLEAN
    /\ connected' = FALSE
    /\ live' = {}
    /\ \E fresh \in Loops :
         /\ ~Active(fresh)
         /\ reconnectTask' = fresh
         /\ loop' = [k \in Loops |->
                       IF k = fresh THEN [step |-> "waiting", attempt |-> 0]
                       ELSE IF k \in cancelled THEN NoTask
                       ELSE loop[k]]
    /\ walk' = [w \in Walkers |->
                  IF w = "sweep" /\ \E k \in cancelled : loop[k].step = "sweeping"
                  THEN NoWalk ELSE Interrupted(walk[w])]
    /\ UNCHANGED <<phase, subscriptions, trade, beatVars, told, lost, deaf>>

\* Mutant of Disconnect: the task in flight is not cancelled.
DisconnectKeepsTask == DisconnectWith({})

Disconnect == DisconnectWith(CancelledTasks)

ComesBack ==
    /\ ~reachable
    /\ reachable' = TRUE
    /\ UNCHANGED <<phase, connected, loopVars, walk, tickVars, trade, beatVars,
                   told, lost, deaf, faults>>

LoopStep(k, from, new) ==
    /\ loop[k].step = from
    /\ loop' = [loop EXCEPT ![k] = new]
    /\ UNCHANGED reconnectTask

\* Mutant of AttemptFails: only the first failure is told.
AttemptFailsQuietly(k) ==
    /\ ~connected /\ ~reachable
    /\ LoopStep(k, "waiting", [loop[k] EXCEPT !.attempt = IF @ < LastBackoff THEN @ + 1 ELSE @])
    /\ \/ loop[k].attempt = 0 /\ Tell("down")
       \/ UNCHANGED <<told, lost, faults>>
    /\ UNCHANGED <<phase, linkVars, walk, tickVars, trade, beatVars, deaf>>

\* Mutant of AttemptFails: the index into _BACKOFF_STEPS is not capped.
AttemptFailsUncapped(k) ==
    /\ ~connected /\ ~reachable
    /\ LoopStep(k, "waiting", [loop[k] EXCEPT !.attempt = @ + 1])
    /\ UNCHANGED <<phase, linkVars, walk, tickVars, trade, beatVars, told, lost, deaf, faults>>

\* Mutant of AttemptFails: the loop gives up after the longest wait.
AttemptFailsForGood(k) ==
    /\ ~connected /\ ~reachable
    /\ LoopStep(k, "waiting",
          IF loop[k].attempt < LastBackoff THEN [loop[k] EXCEPT !.attempt = @ + 1] ELSE NoTask)
    /\ UNCHANGED <<phase, linkVars, walk, tickVars, trade, beatVars, told, lost, deaf, faults>>

\* The first failure is told outside the nightly window, the fourth and later always.
AttemptFails(k) ==
    LET attempt == loop[k].attempt
    IN  /\ ~connected /\ ~reachable
        /\ LoopStep(k, "waiting",
              [loop[k] EXCEPT !.attempt = IF attempt < LastBackoff THEN attempt + 1 ELSE attempt])
        /\ \/ attempt \in {0, LastBackoff} /\ Tell("down")
           \/ attempt # LastBackoff /\ UNCHANGED <<told, lost, faults>>
        /\ UNCHANGED <<phase, linkVars, walk, tickVars, trade, beatVars, deaf>>

\* Mutant of Reconnects: on_reconnect is never called.
ReconnectsAlone(k) ==
    /\ ~connected /\ reachable
    /\ connected' = TRUE
    /\ LoopStep(k, "waiting", NoTask)
    /\ UNCHANGED <<phase, reachable, walk, tickVars, trade, beatVars, told, lost, deaf, faults>>

\* Connected again; without on_reconnect the loop is done.
Reconnects(k) ==
    /\ ~connected /\ reachable
    /\ connected' = TRUE
    /\ LoopStep(k, "waiting", IF Ready THEN [loop[k] EXCEPT !.step = "recovering"] ELSE NoTask)
    /\ deaf' = (deaf \/ (~Ready /\ subscriptions # NoSubscriptions))
    /\ UNCHANGED <<phase, reachable, walk, tickVars, trade, beatVars, told, lost, faults>>

\* Mutant of Resubscribe: the entries of the old connection are kept.
ResubscribeKeepsEntries(k) ==
    /\ LoopStep(k, "recovering", [loop[k] EXCEPT !.step = "sweeping"])
    /\ deaf' = FALSE
    /\ BeginSweep
    /\ UNCHANGED <<phase, linkVars, tickVars, trade, beatVars, told, lost, faults>>

\* reconcile_state is done; resubscribe_all drops every registered handler.
Resubscribe(k) ==
    /\ LoopStep(k, "recovering", [loop[k] EXCEPT !.step = "sweeping"])
    /\ live' = {t \in live : \A u \in Underlyings : subscriptions[u] # t}
    /\ subscriptions' = NoSubscriptions
    /\ deaf' = FALSE
    /\ BeginSweep
    /\ UNCHANGED <<phase, linkVars, trade, beatVars, told, lost, faults>>

\* Recovery raised: the operator is told, the resubscription does not happen.
RecoveryRaises(k) ==
    /\ Fault
    /\ LoopStep(k, "recovering", NoTask)
    /\ deaf' = TRUE
    /\ told' \in {"up", told}
    /\ UNCHANGED <<phase, linkVars, walk, tickVars, trade, beatVars, lost>>

LoopEnds(k) ==
    /\ ~Walking("sweep")
    /\ LoopStep(k, "sweeping", NoTask)
    /\ UNCHANGED <<phase, linkVars, walk, tickVars, trade, beatVars, told, lost, deaf, faults>>

-----------------------------------------------------------------------------
(***************************************************************************)
(* Walks over trades: check_all_positions and                              *)
(* subscribe_all_open_positions, each a list read once and then visited,   *)
(* and the task of a fill, which has its one trade to visit.               *)
(***************************************************************************)
WalkStep(w, new) == walk' = [walk EXCEPT ![w] = new]

Poll ==
    /\ Ready
    /\ OpenTrades # {}
    /\ ~Walking("poll")
    /\ WalkStep("poll", WalkOver(OpenTrades))
    /\ UNCHANGED <<phase, linkVars, loopVars, tickVars, trade, beatVars, told, lost, deaf, faults>>

\* An underlying with an entry is passed over, whoever holds the entry;
\* without a connection the contract cannot be qualified.
Visit(w, t) ==
    /\ walk[w].cur = {}
    /\ t \in walk[w].todo
    /\ WalkStep(w, [todo |-> walk[w].todo \ {t},
                    cur  |-> IF subscriptions[UnderlyingOf[t]] = NoTrade /\ connected
                             THEN {t} ELSE {}])
    /\ UNCHANGED <<phase, linkVars, loopVars, tickVars, trade, beatVars, told, lost, deaf, faults>>

\* The rest of subscribe_position; the entry is not looked up again.
Subscribe(w, t) ==
    /\ t \in walk[w].cur
    /\ WalkStep(w, WalkOver(walk[w].todo))
    /\ subscriptions' = [subscriptions EXCEPT ![UnderlyingOf[t]] = t]
    /\ live' = live \cup {t}
    /\ UNCHANGED <<phase, linkVars, loopVars, trade, beatVars, told, lost, deaf, faults>>

SubscribeRefused(w) ==
    /\ Fault
    /\ walk[w].cur # {}
    /\ WalkStep(w, WalkOver(walk[w].todo))
    /\ UNCHANGED <<phase, linkVars, loopVars, tickVars, trade, beatVars, told, lost, deaf>>

-----------------------------------------------------------------------------
(***************************************************************************)
(* Jobs and trades.                                                        *)
(***************************************************************************)
\* Mutant of Heartbeat: the alarm is not put back after the recovery notice.
HeartbeatStaysAlarmed ==
    /\ Ready
    /\ IF connected
       THEN /\ missed' = 0
            /\ alarmed' = alarmed
            /\ UNCHANGED <<told, lost, faults>>
       ELSE /\ missed' = IF missed < MissesToAlarm THEN missed + 1 ELSE missed
            /\ alarmed' = (missed' = MissesToAlarm)
            /\ IF alarmed' /\ ~alarmed THEN Tell("down") ELSE UNCHANGED <<told, lost, faults>>
    /\ UNCHANGED <<phase, linkVars, loopVars, walk, tickVars, trade, deaf>>

\* HeartbeatMonitor.tick: alerts at the second miss, and once it is over.
Heartbeat ==
    /\ Ready
    /\ IF connected
       THEN /\ missed' = 0
            /\ alarmed' = FALSE
            /\ IF alarmed THEN Tell("up") ELSE UNCHANGED <<told, lost, faults>>
       ELSE /\ missed' = IF missed < MissesToAlarm THEN missed + 1 ELSE missed
            /\ alarmed' = (alarmed \/ missed' = MissesToAlarm)
            /\ IF alarmed' /\ ~alarmed THEN Tell("down") ELSE UNCHANGED <<told, lost, faults>>
    /\ UNCHANGED <<phase, linkVars, loopVars, walk, tickVars, trade, deaf>>

\* A fill is recorded by a monitor or by recovery, and its trade subscribed by a
\* task of its own, unless what follows the commit raises (create_wheel_cycle).
OpenTrade(t) ==
    /\ phase # "down"
    /\ trade[t] = "none" /\ t \in Ordered
    /\ trade' = [trade EXCEPT ![t] = "open"]
    /\ \/ WalkStep(t, WalkOver({t})) /\ UNCHANGED faults
       \/ Fault /\ UNCHANGED walk
    /\ UNCHANGED <<phase, linkVars, loopVars, tickVars, beatVars, told, lost, deaf>>

\* A close is booked: the subscription stays.
CloseTrade(t) ==
    /\ phase # "down"
    /\ trade[t] = "open"
    /\ trade' = [trade EXCEPT ![t] = "closed"]
    /\ UNCHANGED <<phase, linkVars, loopVars, walk, tickVars, beatVars, told, lost, deaf, faults>>

\* An assignment: unsubscribe_position takes out whatever entry its underlying has.
AssignTrade(t) ==
    /\ Ready /\ connected
    /\ trade[t] = "open"
    /\ trade' = [trade EXCEPT ![t] = "closed"]
    /\ live' = live \ {subscriptions[UnderlyingOf[t]]}
    /\ subscriptions' = [subscriptions EXCEPT ![UnderlyingOf[t]] = NoTrade]
    /\ UNCHANGED <<phase, linkVars, loopVars, walk, beatVars, told, lost, deaf, faults>>

-----------------------------------------------------------------------------
Startup ==
    \/ Boot
    \/ StartupReconciled
    \/ Wire
    \/ StartupFails

ReconnectLoop(k) ==
    \/ AttemptFails(k)
    \/ Reconnects(k)
    \/ Resubscribe(k)
    \/ RecoveryRaises(k)
    \/ LoopEnds(k)

WalkOn(w) ==
    \/ \E t \in Trades : Visit(w, t) \/ Subscribe(w, t)
    \/ SubscribeRefused(w)

PollJob == Poll \/ WalkOn("poll")

Book == \E t \in Trades : OpenTrade(t) \/ CloseTrade(t) \/ AssignTrade(t)

Next ==
    \/ Startup
    \/ \E k \in Loops : ReconnectLoop(k)
    \/ PollJob
    \/ WalkOn("sweep")
    \/ \E t \in Trades : WalkOn(t)
    \/ Heartbeat
    \/ Book
    \/ Disconnect
    \/ ComesBack
    \/ Crash

Spec == Init /\ [][Next]_vars

(***************************************************************************)
(* Tasks run, the scheduler fires and systemd starts the process again;    *)
(* the gateway need not come back.                                         *)
(***************************************************************************)
Fairness ==
    /\ WF_vars(Startup)
    /\ WF_vars(\E k \in Loops : ReconnectLoop(k))
    /\ WF_vars(PollJob)
    /\ WF_vars(WalkOn("sweep"))
    /\ \A t \in Trades : WF_vars(WalkOn(t))
    /\ WF_vars(Heartbeat)

FairSpec == Spec /\ Fairness

-----------------------------------------------------------------------------
OneReconnectLoop == \A k \in Loops : Active(k) => k = reconnectTask

TriesWhileDown ==
    phase # "down" => (connected <=> \A k \in Loops : loop[k].step # "waiting")

\* However disconnects, reconnects and recoveries interleave, one reconnect
\* task is at work at most, and it is the one _on_disconnect would cancel.
\* While the process is up, it tries exactly as long as there is no connection:
\* whatever a disconnect interrupts, a wait, a connect, a recovery or a sweep,
\* the bot is never left disconnected with nobody trying, and it never connects
\* a second time over a connection it has.
LoopUntilConnected == OneReconnectLoop /\ TriesWhileDown

Stale(u) == subscriptions[u] # NoTrade /\ subscriptions[u] \notin live

\* An entry of _subscriptions whose ticker died with its connection hides the
\* underlying from the poll.  A reconnect task is there to sweep it out, or
\* the last reconnect is known to have gone without its sweep: recovery
\* raised, or on_reconnect was not set yet because main() was still starting.
StaleEntriesAreSwept ==
    \A u \in Underlyings : Stale(u) => deaf \/ \E k \in Loops : Active(k)

HasOpen(u) == \E t \in OpenTrades : UnderlyingOf[t] = u
Watched(u) == \E t \in live : UnderlyingOf[t] = u

\* The ticks of an underlying with an open trade reach a handler again and
\* again, through startup, the poll or a reconnect, unless the gateway is away
\* or a reconnect went without its sweep.
OpenIsWatched ==
    \A u \in Underlyings : HasOpen(u) ~> Watched(u) \/ ~HasOpen(u) \/ ~reachable \/ deaf

\* An outage that lasts is told to the operator, whichever of the loop's and
\* the heartbeat's alerts are suppressed at night or lost.
OutageIsTold ==
    Ready /\ ~connected ~> told = "down" \/ connected \/ ~Ready

\* The heartbeat's alarm is lifted with a notice when the connection is back.
\* (After the loop's own alert alone no notice ever says that it is over.)
AlarmIsLifted ==
    alarmed ~> \/ ~alarmed /\ (told = "up" \/ lost)
               \/ ~connected
               \/ ~Ready
=============================================================================
