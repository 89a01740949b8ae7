# A TLA+ model of the IBKR options trading bot

This directory models the core of the bot in `src/bot`: how an approved order
becomes a recorded trade, how the circuit breaker decides, how proposals are
built, live and end, how the connection is lost and found again, how positions are
watched and closed, and how the wheel is followed through assignment. TLC checks
the models on small instances; TLAPS proves their safety properties, and
that orders and closes follow their ledgers, for every size.

Source paths below are relative to `src/`; `PROJECT.json` maps every
definition to its lines.

## 1. The system

The bot is one asyncio process with one SQLite file, one connection to IB
Gateway and one Telegram bot. Nothing runs in parallel, but everything that
awaits (a database call, market data, a sleep, a message) lets every other task
run. Telegram updates are handled one at a time. What survives a crash is the
database and whatever the broker holds; systemd restarts the process.

| Component | State | Operations | Talks to |
|---|---|---|---|
| Order execution (`bot/execution/engine.py`) | `orders`, `trades`, one monitor task per order | submit, monitor, reprice and retry, record fill, recover orphans | broker (calls, order status), database, position manager |
| Risk engine (`bot/risk/engine.py`) | `_paused`, `bot_state`, reads `trades`, `positions`, account value | check_new_trade, pause, resume, load_state | called by `/approve` and `submit_order` |
| Scanners (`bot/scanner/premium.py`, `momentum.py`) | `proposals`, watchlists in memory | scheduled and manual scans | scheduler, market data, builders, database |
| Trade builders (`bot/builder/*.py`) | the build at work | expiry, strikes, quotes, checks for put, spread, covered call, LEAP | chains and quotes |
| Telegram commands (`bot/telegram/commands.py`) | none of their own | approve, reject, scan, close, pause, resume, setconfig, addticker, removeticker, reconcile | all of the above |
| Position manager (`bot/positions/manager.py`) | `_subscriptions`, `_alerted`, `positions` | tick handlers, five-minute poll, subscription walks, LEAP stop and target | broker ticks, execution engine |
| Closing (`bot/execution/engine.py` 453-655) | a monitor task per close order, no row | close_position, monitor, one retry | broker, database |
| Wheel (`bot/positions/manager.py` 83-131, 455-600) | `wheel_cycles`, `trades.wheel_cycle_id` | create, link, detect assignment, propose a covered call | position events, database |
| Connection (`bot/ibkr.py`) | connected or not, `_reconnect_task` | reconnect loop with backoff and alerts, `on_reconnect` | recovery, resubscription |
| Startup, scheduler, heartbeat (`bot/main.py`) | jobs, count of misses, alarm | load_state, recovery, subscribe, start jobs, heartbeat tick | all |
| Telegram transport (`bot/telegram/bot.py`, `notifications.py`) | `notifications` once running | send, broadcast | operator |
| Database (`bot/database.py`) | SQLite, WAL, one writer | get_db, get_state, set_state | all |
| Journal, IV history, config, manual, deployment | reports, statistics, settings | read only, or pure input and output | not modelled, see section 8 |

What is hard in it:

- **Interleaving inside one process.** A status read before an await is used
  after it: `_record_fill` (engine.py 188-276), `_is_eligible` against the INSERT
  of the proposal (premium.py 187-258), the loss check against `submit_order`,
  the clock's check against `placeOrder` (engine.py 94-118),
  the poll's upsert against the DELETE of a close, two tasks for one position
  event, poll and resubscription at one underlying, two quotes of one spread.
- **Crashes between commits**: intent row and `placeOrder`; `placeOrder` and
  'approved'; trade row and wheel cycle; pause in memory and in `bot_state`.
- **The broker answers late or in another order**: fills that cross a cancel,
  option and stock messages of an assignment, messages lost with the connection.
- **A disconnect at any time**: during startup, during the recovery of an earlier
  disconnect, while a walk waits for a contract.
- **One write lock**, which recovery holds across awaits of the broker: any other
  commit can meet the busy timeout and raise, with no crash and nothing to repeat it.
- **Nothing closes some states**: proposals nobody approves, expired options,
  wheel cycles, tick subscriptions of booked closes.

## 2. Modules

| Module | Models | Runs, proofs |
|---|---|---|
| `OrderLifecycle` | opening orders from `/approve` to the trade row, with recovery, faults and the write lock | `order_*`; `OrderLifecycleProofs`, `OrderLedgerProofs` |
| `FillLedger` | what an order promises: intended, working, filled or void, booked once | property `ImplementsLedger` of `OrderLifecycle` |
| `RiskEngine` | check_new_trade, pause and resume, with the world moving beside them | `risk_engine`; `RiskEngineProofs` |
| `Proposals` | scans, proposals and the commands on them, over a day's slots | `proposals`; `ProposalsProofs` |
| `TradeBuilders` | the four builders, with the market moving between quotes | `builders`; `TradeBuildersProofs` |
| `Gateway` | startup, connection, reconnect loop, subscriptions, heartbeat, alerts | `gateway`; `GatewayProofs` |
| `PositionDesk` | ticks, alerts, stop and target, close attempts | `desk`, `desk_stale_stop`; `PositionDeskProofs` |
| `CloseLedger` | what closing promises: an order, at most one more, a fill booked once | property `ImplementsLedger` of `PositionDesk` |
| `WheelCycle` | cycles, assignment detection, covered calls | `wheel`; `WheelCycleProofs` |
| `MC*` | instances for TLC | |

Each module says of the others' state only what it needs: `RiskEngine` sees an
order as one step from working to open, `Proposals` sees it as `order` and a
built trade as a free choice, `PositionDesk` starts from an open trade and attaches
handlers by `Watch`, `Gateway` opens and closes trades at will, `WheelCycle` sees a
filled close order as `closing`. An action is what a task does between two awaits
that matter: a transaction is one action at its commit, and a read on which
a later write relies is an action of its own.

### OrderLifecycle

`row`, `origin`, `trades`, `prop` are the database. `pc`, `view`, `cmd` and
`rec` are the tasks: the owner of each order, the command handler, and up to two
runs of `recover_orphaned_orders`, one at startup or after a reconnect and one
started by `/reconcile`. `live` is the broker's book; `view[o]` is what the
task's `ib_trade` object says, which `Deliver` brings up to date at any time
while connected. The pause and the blackout are one set `gate` of reasons to
refuse. `lock` is the holder of SQLite's write lock when it is held across an
await. Each task's waits end at any time (`asyncio.sleep` is not measured).

Recovery reads the pending rows, then the submitted ones, asks the broker for
open orders, buffers its updates for the pending rows under the write lock, asks
for executions, and then settles each order. `OldEnough` is the age filter: a
row in the middle of its submission is younger than the 120 s a reconnect
demands. Fills are matched by `orderRef`; the second match by `ibkr_order_id`
finds the same fill and is left out. Executions cover one trading day, which is
the span of the model.

### RiskEngine

One command at a time (`cmd`). The loss check awaits the realized sums one
window after the other (`ReadLoss` for daily, weekly, monthly) and the marks last,
while marks, closes and midnight move; the account value is read first, so
`cmd.pv` is the value in use. `SetConfig` changes the limit of any window (the run
has values for the daily one). `Moved` marks a command during which the account, a
mark, a close or midnight changed the picture.
`polled` is the list `check_all_positions` has read: `Mark` writes the row of a
trade in it, closed or not. `saved` is the `bot_state` row. `halted` and
`cmd.moved` are history variables. Weeks and months are shortened to a few days.

### Proposals

A run (`run[r]`) is the scheduled scan, the scan of `/scan`, the EOD scan or what an
assignment leaves to do. A scan looks at one ticker at a time, ranks, then inserts;
`/scan` then turns to covered calls for the shares it holds uncovered
(`TurnToCalls`), and `Assignment` proposes one as well; neither looks at pending
proposals. Six slots make a day; a slot is a part of the day in which blackout, cap
and schedule do not change, and any number of them may pass during a command.
Weekends, on which everything is blackout, are left out.

`/approve` is as many steps as the code has commits and waits: `Approve` (checks of status,
expiry, clock), `WriteIntent` (the clock again, then the order's row), `SendOrder`
(`placeOrder`), `CommitSubmitted`, `MarkApproved`. Before `SendOrder` it may end with
nothing sent (`NothingSent`: risk, pause, clock, contract, quote, or a write that
raises); after it `UpdateFails` is the busy timeout of either UPDATE, which leaves an order
behind a pending proposal, as a crash does. `order[p]` is the sequence of the
proposal's orders, `cut[p]` the history of submissions cut off in this way, `twice` the
tickers one scan could find in both premium lists, and `events` counts crashes,
watchlist edits, lock timeouts and premium scans begun beside another.

### TradeBuilders

Numbers are data here, so they are kept: cents, thousandths of delta, percent.
One build at a time; `build.price` is the price the scan has read, `spot` the
market now, which `Move` changes between any two steps. `Put` and `CallDelta`
give the value of a put and the delta of a call at a price, and the value of a call follows from
the put's; a quote adds half a spread. `todo` are the options still to be tried.
The chain may miss strikes and expiries, and any option may be without a quote.
The put builder keeps the best candidate, which is any of them (`BuildCsp`):
scores and tags only order and label the proposals.

### Gateway

`phase` is where `main()` is; an exception in it ends the process. `loop[k]` are
reconnect tasks: cancelled by the next disconnect, except what cannot be
cancelled because `_reconnect_task` names another. `walk` are the poll, the
one sweep that startup or a reconnect makes, and for each trade in `Ordered` the task that
`_record_fill` starts when it records the fill (engine.py 318-328); an exception
after the commit leaves a trade without that task. The other trades are open from
the start. `subscriptions` is the dictionary,
`live` the handlers whose ticker belongs to this connection: a disconnect empties
`live` and not `subscriptions`. Backoff is a count up to `LastBackoff`. `Tell` is
`send_alert`: dropped before `TelegramBot.run`, lost by a fault, or delivered to
`told`. `deaf` marks that the last reconnect went without its sweep.

### PositionDesk

An attempt is one `close_position` with its monitor: quote, first order, cancel,
retry, booking. `trade[t]` has the strategy, which decides what a tick does
(stop and target of a LEAP, strike alert of a short option; the short ones are
alike here), and the status. `BookFails` is the busy timeout of
`_record_close_fill`: the first order's monitor dies of it, the retry's tells the
operator that the order was unfilled, and the attempt ends `unbooked`.
Prices are not kept; any tick may bring any price. Placing and cancelling raise
without a connection, and after an outage (`Outage`) the monitor's view of an order may miss
its fill. Fills that cross a cancel are in the model.

### WheelCycle

One underlying. The broker's side is `held`, `fate`, `lots`; `news` and `seen`
are the messages under way and the client's view of the shares, independent of
one another. `check[k]` are the tasks of `_check_assignment`, which may be
two for one put. `cycles` is the table in insertion order. A put's row and its cycle
are two transactions (`OpenPut`, `CreateCycle`); the second and the booking of an assignment can
meet a lock timeout or a crash. `hit` is the history of which put met which mishap:
`cycle` (cut off between the two), `early` (its message came before that of the shares),
`message` (its message or task went with the connection or the process), `write`
(its booking waited for the lock in vain).

## 3. Runs

Safety runs check deadlock, except where the cfg says that every bounded resource
can be used up. State counts are of the full search.

| Run | Instance | Checks | States |
|---|---|---|---|
| `order_faults` | 2 orders, 1 proposal, one of each fault | `TypeOK`, `BooksMatchBroker`, `WrittenOffIsCancelled`, `OneOrderAtWork`, `RecordsBounded`, `SubmittedFillIsKept` | 1.3 M |
| `order_ledger` | 2 orders, 1 proposal, 1 crash, 1 disconnect, 1 lock timeout, fair | `ImplementsLedger`, `OrdersSettle` | 0.2 M |
| `risk_engine` | 3 trades, 3 account values, 3 days, 1 crash, 1 failed persist | `TypeOK`, `HaltSurvives`, `BucketWithinBudget`, `ExposureOvershootsOnce`, `NoOrderInBreach` | 2.0 M |
| `proposals` | 2 proposals, 1 ticker, a day and the night after, 1 crash, edit, lock timeout or overlap of scans | `TypeOK`, `OnePendingPerTicker`, `NoOrderBehindRefusal`, `OneSubmission` | 1.2 M |
| `builders` | 7 strikes, 5 expiries, 5 prices | `TypeOK`, `SpreadLossIsReal`, `SoldCallIsOutOfTheMoney` | 40 k |
| `gateway` | 2 trades of one underlying, one of them just filled, 2 reconnect tasks, 2 faults of any kind, fair | `TypeOK`, `LoopUntilConnected`, `StaleEntriesAreSwept`, `OpenIsWatched`, `OutageIsTold`, `AlarmIsLifted` | 0.2 M |
| `desk` | 1 trade of any strategy, 2 attempts, 1 fault, fair | `TypeOK`, `OneOrderPerAttempt`, `StopFiresOnce`, `FillIsInHand`, `ImplementsLedger`, `FillIsBooked` | 0.3 M |
| `wheel` | 2 puts, 2 calls, 2 tasks, 1 crash, disconnect or lock timeout, 1 repeated message | `TypeOK`, `AssignedIsReal`, `CallsAreCovered`, `AssignmentReachesCycle`, `AssignmentNotLost`, `OutcomeIsFinal` | 1.9 M |
| `order_double_record` | as `order_faults` | `RecordedOnce` is violated | |
| `order_restart` | 1 crash | `RestartKeepsFills` is violated | |
| `order_paused` | 1 crash | `NoOpeningWhilePaused` is violated | |
| `desk_stale_stop` | no fault | `StopsOnlyOpenTrades` is violated | |

Why the bounds are enough. Two orders are an original and its retry, or two
submissions of one proposal that was left pending. (Three orders, the retry of a
second submission, and two proposals are beyond a quick search with these faults; the
proof of the refinement covers them.) One crash, one disconnect, one lock
timeout and one `/reconcile` put recovery beside every step of a monitor and of a
submission. Two puts of 190 in a Core bucket of 330 fill it twice over, and the
third trade shares an underlying with the first. Two proposal rows are what it
takes to have a duplicate, or a proposal beside another's submission; what more than two rows
would add, the larger bounds of `OnePendingPerTicker` after an overlap or with a ticker
in both lists, is left to the proof, which has no bound. `MaxSlots` and `TopN` of 1 make the limits bite. The
chain has two strikes in the put range, a pair a width apart and pairs that are
not, strikes on both sides of every price, and expiries on both sides of the target;
prices move far enough to turn each of the checks around. Two trades of one
underlying share an entry; two faults are a disconnect during the recovery of
another, or one with a lost alert. One close attempt beside another is what an
in-flight guard would prevent. Two tasks and a repeated message are the duplicate
event. More faults were left out for the number of states, not because a case is
known to need them; the proofs of section 7 hold for any number.

## 4. What the properties assume

Some properties do not hold for every operator, and the constants name what they
need, so that it can be read off the property itself:

- `Overlap = FALSE` (RiskEngine): the operator approves nothing while an order is
  working. The bucket check counts open trades only (risk/engine.py 398), so two
  quick approvals exceed the budget.
- `Careful = TRUE` (WheelCycle): no put while shares are held, one covered call at a
  time. Otherwise a put that expires passes for assigned, another put's assignment
  passes for this one's (`AssignmentReachesCycle`), and the assignment's
  own covered-call proposal and the one of `/scan` can both be approved, which
  leaves a call without shares (approve the first, scan before it fills, approve
  the second).

The histories `cut`, `hit` and `moved` and the steps `unbooked` and `lost` say which
case met a fault, so that a property excepts that case alone and not all others with
it: `OneSubmission` and `NoOrderBehindRefusal` allow one order more for each
submission cut off after `placeOrder`; `FillIsInHand` and `FillIsBooked` except the
attempt whose own monitor died, whose own view missed the fill in an outage, or whose
own booking met the lock timeout, and end at a request to cancel;
`AssignmentReachesCycle` excepts the put cut off before its cycle, and says that
no other put misses it and that none cut off gets it; `AssignmentNotLost` excepts
the puts with one of three mishaps of their own; `OnePendingPerTicker` states the
bound of each case instead of excluding it.

Others name a fault in their own text: `SubmittedFillIsKept` a fill that crosses a
cancel, `OrdersSettle` an order that lost its task after a crash, a disconnect, a lock timeout or
`/reconcile` (of a start after a crash it asks that it settle the orders that have ended), `StaleEntriesAreSwept` and
`OpenIsWatched` a reconnect whose recovery raised or that came before `on_reconnect` was
set, `NoOrderInBreach` a picture that moved during the command, `HaltSurvives` a
failed persist, the builders' properties a price that moved the wrong way between two quotes.
`WrittenOffIsCancelled`, `SubmittedFillIsKept` and `RecordsBounded` leave out
`/reconcile`, which does not look at a row's age and so can meet an order in the
middle of its submission. `RiskEngine` assumes finitely many trades, account
values with a greatest one among them, and limits and shares that are natural
numbers of a thousandth (config.py writes them as fractions such as 0.015).
`SpreadLossIsReal` also assumes a market without free money
(`NoArbitrageAssumption`), `SoldCallIsOutOfTheMoney` a configured delta below
that of a call at the money (`DeltaAssumption`).

## 5. Fairness

Tasks on the event loop are weakly fair: a ready task runs, and a wait ends because
the code bounds it (`elapsed < wait_secs`, 30 tries for a cancel, three seconds for
a quote). `Restart` and `Startup` are fair because systemd restarts the service,
`Reconnect` and `ReconnectLoop` because the loop retries for ever, `PollJob` and
`Heartbeat` because the scheduler fires them every few minutes, the sweep
and the task of a recorded fill because each of their waits is answered, fails or
times out. The broker never has to fill, cancel or
answer, the gateway never has to come back, faults never have to happen, and the
operator never has to act.

The liveness properties are `OrdersSettle` (a monitored order ends, or a fault ended its
task), `FillIsBooked` (the fill of a close order closes its trade, or a cancel was asked for, or
this very attempt lost it in a named way), `OpenIsWatched` (ticks
of an open trade reach a handler), `OutageIsTold` (an outage that lasts is told) and
`AlarmIsLifted` (the heartbeat's alarm is taken back with a notice); each names the
faults after which the code gives no such promise. `TradeBuilders` states no
fairness: a build is a loop over a finite list of options, each tried once.

## 6. Disagreements between the documentation and the code

Each is a run with a counterexample (README here means the repository's README.md):

1. **A fill can be recorded twice** (`order_double_record`). README 131 says that a
   fill seen by monitor and recovery "is recorded once". Both read the status, both
   insert. It takes a disconnect, and two records are the most: `RecordsBounded`.
2. **A restart can lose a fill** (`order_restart`). README 129: "no fill is ever
   lost across a restart". A `pending_submit` order that filled before the restart
   is not open any more and is marked cancelled without a look at the executions.
3. **The retry ignores the pause** (`order_paused`). README 121: "Opening orders are
   refused while paused inside the execution engine too".
4. **A booked close leaves its tick handler** (`desk_stale_stop`). manager.py 168:
   "Cancel price tick subscription when a position is closed." Only an assignment
   does; a close through the bot does not, and the stop of a closed LEAP sells again.

Others were met while modelling and have no run of their own.

Orders and closing:
- One approval can fill twice: a fill that crosses the cancel of the first order is
  not looked at before the retry (engine.py 368; README 130 "resubmit once").
- Two close attempts at one trade can both fill (engine.py 502). The second booking
  overwrites the first.
- A fill that crosses the cancel of the first close order, or that an outage hid,
  is not booked either, and the retry trades again (engine.py 610).
- `cancelOrder` raises without a connection, which kills the monitor of an order
  (engine.py 364, 435) or of a close (engine.py 607).
- The booking of a close can meet the busy timeout: the first order's monitor dies
  of it, the retry's calls the filled order unfilled (engine.py 604, 647). Close
  orders have no row, so nothing books the fill again.
- `/reconcile` can write off an order in the middle of its submission, and puts a
  row that its own submission gave up back in flight (commands.py 1023).
- The urgent close of a LEAP's stop asks for the "bid" and is priced above the mid
  (engine.py 495).
- After an outage recovery counts on a monitor that may have died (engine.py 670).

Proposals and risk:
- A lock timeout or a crash after `placeOrder` leaves the proposal pending: a second
  `/approve` sends a second order, `/reject` refuses one that is at work
  (engine.py 128, commands.py 567).
- An order can go out inside a blackout or after its proposal's expiry, since both are
  read before the last awaits (engine.py 94, commands.py 508).
- README 135 says that the scanner skips tickers with a pending proposal. Covered
  calls are proposed without that look (commands.py 297, manager.py 570), two premium
  scans side by side or one ticker in both lists give two (premium.py 187), and the
  EOD scan has no such check.
- A pause whose write failed is announced all the same (risk/engine.py 152).
- Two orders approved in a row can exceed a bucket, since working orders do not count
  (risk/engine.py 398).
- A close between the realized sums and the marks counts in neither, so a breach can pass
  (risk/engine.py 318).
- The poll can write the `positions` row of a trade that closed meanwhile; nothing
  deletes it and it counts in the daily loss for ever (manager.py 342).
- Proposals stay pending after their expiry until somebody approves them
  (premium.py 188; README 134).
- `/pause` does not stop scans (premium.py 51; README 176).
- Proposals whose order is working block no further scan (premium.py 176).
- Open LEAP calls count for nothing in the Momentum bucket (risk/engine.py 100).
- A PDT warning is computed and never sent (README 104).
- `/setconfig` is lost at a restart (commands.py 876).
- `is_in_blackout` blocks everything from 15:55 to midnight although its docstring
  says that after-hours is not blackout (engine.py 65).
- `automation.level` is shown and stored but never consulted (README 188).
- A put is tagged `delta_in_range` without a comparison with the tolerance
  (csp.py 159, 212).

Builders:
- The extrinsic value of a LEAP is judged with the price at the scan and the ask of
  minutes later; after a fall it comes out too small (leap.py 140).

Positions and connection:
- Shares held for another reason make a put that expired look assigned (manager.py 121).
- A lock timeout leaves a put without a cycle (engine.py 311) or an assignment
  unbooked (manager.py 524); nothing repeats either write.
- Poll, sweep and the task of a fill can attach two handlers for one underlying; only
  the last can be taken off (manager.py 146).
- Only the first trade of an underlying has its stop watched: the others find the
  entry taken (manager.py 146).
- Nothing closes the row of an option that expired or was exercised (manager.py 103).
- Alerts about a failed connection at startup are always dropped: notifications exist only
  once the Telegram bot runs (bot.py 127), although main.py 300 creates it early
  for their sake.
- After the reconnect loop's own alert no notice says that the outage is over; only
  the heartbeat lifts its alarm.

IV history (not modelled):
- The rank needs 252 rows within 365 days (base.py 66), while a bootstrap of 365
  days yields about 250 to 252 sessions (README 254).
- On market holidays the daily job stores the previous bar under the day's date
  (base.py 155), and missed days are never filled in.

## 7. Proofs

All theorems hold for any values of the constants that satisfy the named
assumptions, which TLC evaluates in the runs. Each step invariant is proved
with one step per action. What follows names the strengthening each proof needs.

**`OrderLifecycleProofs`**: `TypeCorrect`, `WriteAheadHolds` (no order is at the
broker without a committed row), `BooksMatchBrokerHolds` (a trade is recorded only
for an order that filled; a row is 'filled' only if its trade is recorded). A task
records a fill because it saw one some awaits ago, and recovery because of
executions it was sent before. `BooksMatchBroker` includes `WriteAhead`. `BooksInv`
adds that this evidence is true and stays true: `TaskEvidence` (a task past the check holds an order that filled, an owner
past `placeOrder` has a row) and `RunEvidence` (what a recovery run has buffered
refers to rows that exist and orders that filled).

**`OrderLedgerProofs`**: `WrittenOff` (an order written off in the books is gone or
being cancelled), `OneAtWork` (a proposal has one order at work), `LedgerKept`
(`OrderLifecycle` implements `FillLedger`), `SubmittedFillKept` (the fill of a submitted order is never written off) and
`RecordsAreBounded` (a fill has one record before any disconnect, two at most after
any number of them). The first two rest on facts that stay true of an order once they
are (`WrittenOffInv`, `OneInv`). `ImplementsLedger` asks the ledger's step of every
step up to the first disconnect or `/reconcile` (`Serial`, a state predicate): a
recovery beside a live monitor is what breaks it (`order_double_record`). `LedgerInv` says that the two never run at once, that a
booked order has one trade and no task left, and that recovery works on none. The
first attempt at the proof failed at a crash with two orders written down and
neither placed: the ledger let only one at a time be lost. Its action `Lose` is the
result.

`SubmittedFillKept` is about stale snapshots. A recovery run keeps three: the
pending rows, the submitted rows, the orders open at the broker. `Snapshots` says
why acting on them later does no harm: a row past its submission never goes back, so
one read as submitted has no task in the middle of a submission (`RowsOfTasks`),
and an order that was filled when the executions were asked for is among them.
`RecordsAreBounded` holds for any number of crashes, disconnects, lock timeouts and
orders; `/reconcile` alone is left out. `Records` adds to an order's records those of
a task or run already past the look at its row; `Recorded` says that after the first
record the row is 'filled' for everyone who still has to look, or no longer looked
at. That leaves the two that looked before it, the monitor and one run, and without a
disconnect (`Apart`) never both.

**`RiskEngineProofs`**: `TypeCorrect`, `HaltSurvivesHolds` (a pause the operator was
told of outlives every restart until `/resume`, if no write of it failed),
`SentOutOfBreach` (`NoOrderInBreach`), `BucketsWithinBudget` (a bucket's working and
open trades stay within its share of the best account value) and
`ExposureOvershootsByOneTrade` (without some one of its trades an underlying would be
below its limit). `PauseReachesState` adds to the first that
a pause under way to `bot_state` is in force in memory and its process up, that one
announced or about to be is saved, and that none is announced while a resume
clears the saved one. `PictureIsCurrent` adds to the second that a command whose
`moved` flag is not set still has the account value it read and the sums of the
windows it has read so far (`SumsAreCurrent`), and that no window is in breach if it
found none. The two bounds rest on `ChecksHold`: what a command found
in use when it checked is no less than what is in use when it sends, since while it
runs trades only leave. Their sums are over any finite set of trades, where
induction over data is out of reach; the lemmas on sums (adding one
element, monotony) are proved by a smallest counterexample, a set under
which strict inclusion leaves no smaller one.

**`ProposalsProofs`**: `TypeCorrect`, `PendingIsBounded` (`OnePendingPerTicker`),
`RefusedHasNoOrder` (`NoOrderBehindRefusal`), `SubmittedOnce` (`OneSubmission`). For
the last two `OrdersCounted` says how many orders each proposal has: those cut off,
and one more if it is approved or being sent; `CommandHolds` says that the proposal the
command works on stays pending meanwhile. For the first, `Bounded` counts pending proposals and
the candidates that can still become one (`Claims`) together: a candidate is added only while nothing
is pending, and `ScanShape` says when two scans, or two lists, can hold one
ticker. So scans may overlap, lists be edited and commands fail at any point.

**`TradeBuildersProofs`**: `TypeCorrect`, `SpreadsCanLose` (a loss of zero or less means a
rise between the legs' quotes, and a loss never reaches the distance of the two strikes),
`CallsOutOfTheMoney`, for any market without free money. The spread needs to know,
while the long leg is waited for, that the legs are the right way round and the
credit is not more than the short leg was worth.

**`GatewayProofs`**: `TypeCorrect`, `TriesUntilConnected` (`LoopUntilConnected`: there is
one reconnect task at most, and it tries exactly while a running bot is disconnected,
so no outage is forgotten), `StaleSwept`. The first needs to know that a process that
is down has no tasks (`DownIsIdle`), and that the task a new disconnect cancels is
the only one. In the third a loop may end only
because its sweep has left no stale entry, which holds because an entry stands
under the underlying of its own trade and a task that sweeps works on entries made
since it began.

**`PositionDeskProofs`**: `TypeCorrect`, `AtMostOneOrder`, `StopOnce`,
`FillsInHand`, `ClosingKeepsLedger` (`PositionDesk` implements `CloseLedger`, with crashes,
outages and late fills). The invariant says for each step of an attempt which
orders exist and that the one whose fill is booked is filled; `StopOnce` counts the
attempts of a stop against `_alerted` and restarts. `FillsInHand` is the safety core of
`FillIsBooked`: an order that can fill or
did, and was not asked to be cancelled, is the one its monitor watches (`Watching`), and a
monitor looks away only with the fill in hand or in one of the named ways, of which
`Accounted` says that each attempt that ended so met the fault that causes it.

**`WheelCycleProofs`**: `TypeCorrect`, `AssignedHolds`, `Covered`, `ReachesCycle`,
`NotLost`, `OutcomeStays`. `ReachesCycle` is an equivalence, put by put: an assignment
is in its cycle exactly if its recording was not cut off. `NotLost` (`NothingMissed`)
shows that a check which runs once the shares are reported books the assignment or
dies in the write. The detection only asks whether there are shares. With
the operator's care that is enough by `OneWheel`: at most one put is ever assigned,
because no other put is opened as long as its shares are there, or the row of the
call they were called away by.

Only model-checked: the liveness properties (`OrdersSettle`, `FillIsBooked`,
`OpenIsWatched`, `OutageIsTold`, `AlarmIsLifted`; section 5), out of TLAPS's reach
together with fairness and ENABLED. Every other property of a passing run is the
statement of a theorem. No module declares a RECURSIVE operator.

## 8. What is not modelled

- Filters on IV, volume and price, slippage, the scores and tags of a proposal:
  free choices where they decide anything.
- The IV history and the earnings filter: data collection from outside; a scan's
  look at a ticker (`LookAt`) may find it eligible or not.
- The journal, `/risk`, `/positions`, `/roll`, `/wheel`, `/analyze`: they only read.
- Parsing and validation of the configuration (its values are the CONSTANTS), the
  manual generator, backup and deployment.
- The allow list, rate limits and wording of messages; the morning summary; log
  rotation and signal handlers (a shutdown is a crash with nothing lost).
- The mere comparison of positions in `reconcile_state`, which only reports.
- Recovery's reading of the price of a spread from one leg's execution
  (engine.py 750), and the direction of a reprice for a bought LEAP (engine.py 371):
  data the models do not keep.

## 9. Plan

Done: the core with its ledger, the components around it, the connection, the
builders, and the proofs above. Left, most important first:

1. Composition: a module that joins `RiskEngine`'s pause with the retry and the stop
   of `OrderLifecycle` and `PositionDesk`, on one trade.
2. The IV history as rows over a calendar with holidays and missed days.
3. The pure parts as functions: `period_starts` over real calendars, the blackout
   arithmetic in minutes, `_capital_from_legs`.
