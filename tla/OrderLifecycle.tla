--------------------------- MODULE OrderLifecycle ---------------------------
(***************************************************************************)
(* The life of an opening order: from /approve to the trade row that       *)
(* records its fill (bot/execution/engine.py, with the parts of            *)
(* bot/telegram/commands.py, bot/main.py and bot/ibkr.py that drive it).   *)
(*                                                                         *)
(* The program is one asyncio process: an action is the code a task runs   *)
(* from one await to the next.  An SQLite transaction takes effect at its  *)
(* commit, so "INSERT ... commit" is one action and a SELECT that a later  *)
(* write relies on is an action of its own.  The broker, the wire and the  *)
(* operator are the environment.                                           *)
(***************************************************************************)
EXTENDS Naturals, FiniteSets

CONSTANTS
    Orders,        \* client_order_id values (fresh UUIDs, so a bounded pool)
    Proposals,     \* proposal_id values
    NoOrder,
    NoProposal,
    GateReasons,   \* what makes submit_order refuse: pause, blackout
    Budget         \* how many of each fault the environment may cause

Faults == {"crash", "disconnect", "lockTimeout", "reconcile"}

ASSUME OrdersAssumption    == IsFiniteSet(Orders) /\ NoOrder \notin Orders
ASSUME ProposalsAssumption == NoProposal \notin Proposals
ASSUME BudgetAssumption    == Budget \in [Faults -> Nat]

VARIABLES
    \* The database (survives a crash).
    row,         \* orders.status by client_order_id, "none" before the INSERT
    origin,      \* orders.proposal_id
    trades,      \* how many trades rows record a fill of this order
    prop,        \* proposals.status
    \* Memory of the process.
    pc,          \* what the task that owns the order does next
    attempt,     \* is the order a first submission or the one retry?
    view,        \* what the task's ib_trade object says of the order
    cmd,         \* the command handler (Telegram updates are handled serially)
    rec,         \* the two possible runs of recover_orphaned_orders
    lock,        \* who holds SQLite's write lock across an await
    phase,
    \* The broker and the rest of the environment.
    live,        \* the order in the broker's book
    cancelReq,   \* orders the broker was asked to cancel
    connected,
    gate,        \* the reasons to refuse that hold now
    used         \* faults so far

dbVars     == <<row, origin, trades, prop>>
taskVars   == <<pc, attempt, view>>
recVars    == <<rec, lock>>
brokerVars == <<live, cancelReq>>
envVars    == <<phase, connected, gate, used>>
vars       == <<dbVars, taskVars, cmd, recVars, brokerVars, envVars>>

Status   == {"none", "pending_submit", "submitted", "repriced", "cancelled",
             "filled"}
Steps    == {"none", "placing", "failed", "acking", "polling", "cancelling",
             "repricing", "retrying", "dropping", "checking", "recording"}
Runs     == {"main", "command"}
RecSteps == {"idle", "readPending", "readSubmitted", "reqOpen", "settlePending",
             "reqFills", "settle", "checking", "recording"}
Recovery == [step : RecSteps, pend : SUBSET Orders, subm : SUBSET Orders,
             open : SUBSET Orders, execs : SUBSET Orders,
             buf : [Orders -> {"keep", "submitted", "cancelled"}],
             cur : Orders \cup {NoOrder}]

TypeOK ==
    /\ row \in [Orders -> Status]
    /\ origin \in [Orders -> Proposals \cup {NoProposal}]
    /\ trades \in [Orders -> Nat]
    /\ prop \in [Proposals -> {"pending", "approved"}]
    /\ pc \in [Orders -> Steps]
    /\ attempt \in [Orders -> {"first", "retry"}]
    /\ view \in [Orders -> {"working", "cancelled", "filled"}]
    /\ cmd \in [step : {"idle", "building", "submitting", "approving"},
                prop : Proposals \cup {NoProposal}]
    /\ rec \in [Runs -> Recovery]
    /\ lock \in Runs \cup {"free"}
    /\ phase \in {"down", "starting", "running"}
    /\ live \in [Orders -> {"absent", "working", "cancelled", "filled"}]
    /\ cancelReq \in SUBSET Orders
    /\ connected \in BOOLEAN
    /\ gate \in SUBSET GateReasons
    /\ used \in [Faults -> Nat]

IdleCmd == [step |-> "idle", prop |-> NoProposal]
NoWrites == [o \in Orders |-> "keep"]
IdleRun == [step |-> "idle", pend |-> {}, subm |-> {}, open |-> {},
            execs |-> {}, buf |-> NoWrites, cur |-> NoOrder]

Init ==
    /\ row = [o \in Orders |-> "none"]
    /\ origin = [o \in Orders |-> NoProposal]
    /\ trades = [o \in Orders |-> 0]
    /\ prop = [p \in Proposals |-> "pending"]
    /\ pc = [o \in Orders |-> "none"]
    /\ attempt = [o \in Orders |-> "first"]
    /\ view = [o \in Orders |-> "working"]
    /\ cmd = IdleCmd
    /\ rec = [r \in Runs |-> IdleRun]
    /\ lock = "free"
    /\ phase = "running"
    /\ live = [o \in Orders |-> "absent"]
    /\ cancelReq = {}
    /\ connected = TRUE
    /\ gate = {}
    /\ used = [f \in Faults |-> 0]

\* Trade.isDone(): the order the task watches has reached a final status.
IsDone(o) == view[o] # "working"

SetRow(o, s) == row' = [row EXCEPT ![o] = s]
GoTo(o, s)   == pc' = [pc EXCEPT ![o] = s]

\* The task's connection can start a write transaction.
CanWrite == lock = "free"

Spend(f) ==
    /\ used[f] < Budget[f]
    /\ used' = [used EXCEPT ![f] = @ + 1]

-----------------------------------------------------------------------------
(***************************************************************************)
(* /approve: cmd_approve and submit_order.  The handler checks, then       *)
(* awaits market data; submit_order checks the gate again before the row   *)
(* is written.                                                             *)
(***************************************************************************)
Approve(p) ==
    /\ phase = "running"
    /\ cmd = IdleCmd
    /\ rec["command"].step = "idle"
    /\ gate = {}
    /\ prop[p] = "pending"
    /\ cmd' = [step |-> "building", prop |-> p]
    /\ UNCHANGED <<dbVars, taskVars, recVars, brokerVars, envVars>>

\* Risk check blocked, contract or quote not available, or the gate shut.
ApproveRefused ==
    /\ cmd.step = "building"
    /\ cmd' = IdleCmd
    /\ UNCHANGED <<dbVars, taskVars, recVars, brokerVars, envVars>>

\* Mutant of Intend: the commit before placeOrder is forgotten.
IntendUncommitted(o, p, a) ==
    /\ CanWrite
    /\ row[o] = "none"
    /\ origin' = [origin EXCEPT ![o] = p]
    /\ attempt' = [attempt EXCEPT ![o] = a]
    /\ view' = [view EXCEPT ![o] = "working"]
    /\ UNCHANGED <<row, trades, prop>>

\* The INSERT of the pending_submit row, committed before any API call.
Intend(o, p, a) ==
    /\ CanWrite
    /\ row[o] = "none"
    /\ SetRow(o, "pending_submit")
    /\ origin' = [origin EXCEPT ![o] = p]
    /\ attempt' = [attempt EXCEPT ![o] = a]
    /\ view' = [view EXCEPT ![o] = "working"]
    /\ UNCHANGED <<trades, prop>>

SubmitIntent(o) ==
    /\ cmd.step = "building"
    /\ gate = {}
    /\ Intend(o, cmd.prop, "first")
    /\ GoTo(o, "placing")
    /\ cmd' = [cmd EXCEPT !.step = "submitting"]
    /\ UNCHANGED <<recVars, brokerVars, envVars>>

\* placeOrder: the request reaches the broker or dies on the wire unnoticed;
\* without a connection the call raises.
Place(o) ==
    /\ pc[o] = "placing"
    /\ \/ /\ connected
          /\ live' \in {[live EXCEPT ![o] = "working"], live}
          /\ GoTo(o, "acking")
       \/ /\ ~connected
          /\ GoTo(o, "failed")
          /\ UNCHANGED live
    /\ UNCHANGED <<dbVars, attempt, view, cmd, recVars, cancelReq, envVars>>

\* The handler for placeOrder's exception; a first submission ends /approve.
PlaceFailed(o) ==
    /\ pc[o] = "failed"
    /\ CanWrite
    /\ SetRow(o, "cancelled")
    /\ GoTo(o, "none")
    /\ cmd' = IF attempt[o] = "first" THEN IdleCmd ELSE cmd
    /\ UNCHANGED <<origin, trades, prop, attempt, view, recVars, brokerVars,
                   envVars>>

\* UPDATE ... 'submitted', then the monitor (first) or the retry's wait.
Ack(o) ==
    /\ pc[o] = "acking"
    /\ CanWrite
    /\ SetRow(o, "submitted")
    /\ IF attempt[o] = "first"
       THEN GoTo(o, "polling") /\ cmd' = [cmd EXCEPT !.step = "approving"]
       ELSE GoTo(o, "retrying") /\ UNCHANGED cmd
    /\ UNCHANGED <<origin, trades, prop, attempt, view, recVars, brokerVars,
                   envVars>>

MarkApproved ==
    /\ cmd.step = "approving"
    /\ CanWrite
    /\ prop' = [prop EXCEPT ![cmd.prop] = "approved"]
    /\ cmd' = IdleCmd
    /\ UNCHANGED <<row, origin, trades, taskVars, recVars, brokerVars, envVars>>

-----------------------------------------------------------------------------
(***************************************************************************)
(* _monitor_fill and reprice_and_retry.  A wait ends because the order is  *)
(* done or because the clock says so; nothing bounds the broker's latency, *)
(* so a timeout is possible in every state where the task sees no end.     *)
(***************************************************************************)
\* Mutant of SeeFilled: isDone() is taken for a fill.
SeeDone(o) ==
    /\ pc[o] \in {"polling", "retrying"}
    /\ IsDone(o)
    /\ GoTo(o, "checking")
    /\ UNCHANGED <<dbVars, attempt, view, cmd, recVars, brokerVars, envVars>>

SeeFilled(o) ==
    /\ pc[o] \in {"polling", "retrying"}
    /\ view[o] = "filled"
    /\ GoTo(o, "checking")
    /\ UNCHANGED <<dbVars, attempt, view, cmd, recVars, brokerVars, envVars>>

SeeCancelled(o) ==
    /\ pc[o] = "polling"
    /\ view[o] = "cancelled"
    /\ CanWrite
    /\ SetRow(o, "cancelled")
    /\ GoTo(o, "none")
    /\ UNCHANGED <<origin, trades, prop, attempt, view, cmd, recVars,
                   brokerVars, envVars>>

\* Mutant of RepriceTimeout: no cancelOrder before the retry.
RepriceWithoutCancel(o) ==
    /\ pc[o] = "polling"
    /\ ~IsDone(o)
    /\ GoTo(o, "cancelling")
    /\ UNCHANGED <<dbVars, attempt, view, cmd, recVars, brokerVars, envVars>>

\* reprice_wait_minutes pass: cancelOrder, which raises when disconnected.
RepriceTimeout(o) ==
    /\ pc[o] = "polling"
    /\ ~IsDone(o)
    /\ IF connected
       THEN cancelReq' = cancelReq \cup {o} /\ GoTo(o, "cancelling")
       ELSE UNCHANGED cancelReq /\ GoTo(o, "none")
    /\ UNCHANGED <<dbVars, attempt, view, cmd, recVars, live, envVars>>

\* Mutant of MarkRepriced: a status no reader of the table knows.
MarkReplaced(o) ==
    /\ pc[o] = "cancelling"
    /\ CanWrite
    /\ SetRow(o, "replaced")
    /\ GoTo(o, "repricing")
    /\ UNCHANGED <<origin, trades, prop, attempt, view, cmd, recVars,
                   brokerVars, envVars>>

\* The wait for the cancel ends, done or after 30 s; its outcome is not read.
MarkRepriced(o) ==
    /\ pc[o] = "cancelling"
    /\ CanWrite
    /\ SetRow(o, "repriced")
    /\ GoTo(o, "repricing")
    /\ UNCHANGED <<origin, trades, prop, attempt, view, cmd, recVars,
                   brokerVars, envVars>>

\* The retry's row; from here the task works for the new order n.
RetryIntent(o, n) ==
    /\ pc[o] = "repricing"
    /\ Intend(n, origin[o], "retry")
    /\ pc' = [pc EXCEPT ![o] = "none", ![n] = "placing"]
    /\ UNCHANGED <<cmd, recVars, brokerVars, envVars>>

\* Mutant of GiveUp: the retry's wait has no time limit.
GiveUpWhenDone(o) ==
    /\ pc[o] = "retrying"
    /\ view[o] = "cancelled"
    /\ GoTo(o, "dropping")
    /\ UNCHANGED <<dbVars, attempt, view, cmd, recVars, brokerVars, envVars>>

\* reprice_retry_wait_minutes pass, or the retry ended without a fill.
GiveUp(o) ==
    /\ pc[o] = "retrying"
    /\ view[o] # "filled"
    /\ \/ /\ IsDone(o)
          /\ GoTo(o, "dropping")
          /\ UNCHANGED cancelReq
       \/ /\ ~IsDone(o)
          /\ IF connected
             THEN cancelReq' = cancelReq \cup {o} /\ GoTo(o, "dropping")
             ELSE UNCHANGED cancelReq /\ GoTo(o, "none")
    /\ UNCHANGED <<dbVars, attempt, view, cmd, recVars, live, envVars>>

Drop(o) ==
    /\ pc[o] = "dropping"
    /\ CanWrite
    /\ SetRow(o, "cancelled")
    /\ GoTo(o, "none")
    /\ UNCHANGED <<origin, trades, prop, attempt, view, cmd, recVars,
                   brokerVars, envVars>>

\* _record_fill, part 1: SELECT status, return if the row is 'filled'.
CheckRecorded(o) ==
    /\ pc[o] = "checking"
    /\ GoTo(o, IF row[o] = "filled" THEN "none" ELSE "recording")
    /\ UNCHANGED <<dbVars, attempt, view, cmd, recVars, brokerVars, envVars>>

\* Mutant of RecordFill: the trade is committed without the order's status.
RecordTradeOnly(o) ==
    /\ pc[o] = "recording"
    /\ CanWrite
    /\ trades' = [trades EXCEPT ![o] = @ + 1]
    /\ GoTo(o, "none")
    /\ UNCHANGED <<row, origin, prop, attempt, view, cmd, recVars, brokerVars,
                   envVars>>

\* _record_fill, part 2: INSERT the trade and UPDATE the order, one commit.
RecordFill(o) ==
    /\ pc[o] = "recording"
    /\ CanWrite
    /\ trades' = [trades EXCEPT ![o] = @ + 1]
    /\ SetRow(o, "filled")
    /\ GoTo(o, "none")
    /\ UNCHANGED <<origin, prop, attempt, view, cmd, recVars, brokerVars,
                   envVars>>

-----------------------------------------------------------------------------
(***************************************************************************)
(* recover_orphaned_orders.  "main" is the run of startup and of the       *)
(* reconnect handler, "command" the one of /reconcile.  Its UPDATEs stay   *)
(* uncommitted (buf) and hold the write lock until the next commit on the  *)
(* same connection: _record_fill's, or its own at the end.                 *)
(***************************************************************************)
RecoveryStep(r, from, new) ==
    /\ rec[r].step = from
    /\ rec' = [rec EXCEPT ![r] = new]

Committed(r) ==
    [o \in Orders |-> IF rec[r].buf[o] = "keep" THEN row[o] ELSE rec[r].buf[o]]

\* A pending_submit row that a live submission is still working on.
MidSubmit(o) == pc[o] \in {"placing", "failed", "acking"}

\* Mutant of OldEnough: the age of a row is never looked at.
AnyAge(r) == {{o \in Orders : row[o] = "pending_submit"}}

\* min_age_seconds: 0 at startup and for /reconcile; 120 after a reconnect,
\* which passes over every row mid-submit and maybe some recent orphans.
OldEnough(r) ==
    LET pending == {o \in Orders : row[o] = "pending_submit"}
    IN  IF r = "main" /\ phase = "running"
        THEN SUBSET {o \in pending : ~MidSubmit(o)}
        ELSE {pending}

ReadPending(r) ==
    /\ \E P \in OldEnough(r) :
         RecoveryStep(r, "readPending",
                      [rec[r] EXCEPT !.step = "readSubmitted", !.pend = P])
    /\ UNCHANGED <<dbVars, taskVars, cmd, lock, brokerVars, envVars>>

ReadSubmitted(r) ==
    LET S == {o \in Orders : row[o] = "submitted"}
        next == IF rec[r].pend \cup S = {} THEN "settle" ELSE "reqOpen"
    IN  /\ RecoveryStep(r, "readSubmitted",
              [rec[r] EXCEPT !.step = next, !.subm = S])
        /\ UNCHANGED <<dbVars, taskVars, cmd, lock, brokerVars, envVars>>

ReqOpenOrders(r) ==
    /\ connected
    /\ RecoveryStep(r, "reqOpen",
          [rec[r] EXCEPT !.step = "settlePending",
                         !.open = {o \in Orders : live[o] = "working"}])
    /\ UNCHANGED <<dbVars, taskVars, cmd, lock, brokerVars, envVars>>

\* The pending rows of the run, by whether the broker has them open.
PendingUpdates(r) ==
    [o \in Orders |-> IF o \notin rec[r].pend THEN "keep"
                      ELSE IF o \in rec[r].open THEN "submitted"
                      ELSE "cancelled"]

SettlePending(r) ==
    LET next == IF rec[r].subm = {} THEN "settle" ELSE "reqFills"
    IN  /\ rec[r].pend # {} => lock \in {"free", r}
        /\ RecoveryStep(r, "settlePending",
              [rec[r] EXCEPT !.step = next, !.buf = PendingUpdates(r)])
        /\ lock' = IF rec[r].pend # {} THEN r ELSE lock
        /\ UNCHANGED <<dbVars, taskVars, cmd, brokerVars, envVars>>

ReqExecutions(r) ==
    /\ connected
    /\ RecoveryStep(r, "reqFills",
          [rec[r] EXCEPT !.step = "settle",
                         !.execs = {o \in Orders : live[o] = "filled"}])
    /\ UNCHANGED <<dbVars, taskVars, cmd, lock, brokerVars, envVars>>

StillOpen(r, o) ==
    /\ o \in rec[r].subm \cap rec[r].open
    /\ RecoveryStep(r, "settle", [rec[r] EXCEPT !.subm = @ \ {o}])
    /\ UNCHANGED <<dbVars, taskVars, cmd, lock, brokerVars, envVars>>

FoundFill(r, o) ==
    /\ o \in (rec[r].subm \ rec[r].open) \cap rec[r].execs
    /\ RecoveryStep(r, "settle",
          [rec[r] EXCEPT !.subm = @ \ {o}, !.step = "checking", !.cur = o])
    /\ UNCHANGED <<dbVars, taskVars, cmd, lock, brokerVars, envVars>>

\* Mutant of NotFound: what is no longer open is taken for cancelled.
NotOpen(r, o) ==
    /\ o \in rec[r].subm \ rec[r].open
    /\ lock \in {"free", r}
    /\ RecoveryStep(r, "settle",
          [rec[r] EXCEPT !.subm = @ \ {o}, !.buf[o] = "cancelled"])
    /\ lock' = r
    /\ UNCHANGED <<dbVars, taskVars, cmd, brokerVars, envVars>>

NotFound(r, o) ==
    /\ o \in (rec[r].subm \ rec[r].open) \ rec[r].execs
    /\ lock \in {"free", r}
    /\ RecoveryStep(r, "settle",
          [rec[r] EXCEPT !.subm = @ \ {o}, !.buf[o] = "cancelled"])
    /\ lock' = r
    /\ UNCHANGED <<dbVars, taskVars, cmd, brokerVars, envVars>>

RecoveryChecks(r) ==
    LET seen == Committed(r)[rec[r].cur]
    IN  /\ RecoveryStep(r, "checking",
              [rec[r] EXCEPT
                 !.step = IF seen = "filled" THEN "settle" ELSE "recording",
                 !.cur = IF seen = "filled" THEN NoOrder ELSE @])
        /\ UNCHANGED <<dbVars, taskVars, cmd, lock, brokerVars, envVars>>

RecoveryRecords(r) ==
    LET o == rec[r].cur
    IN  /\ lock \in {"free", r}
        /\ RecoveryStep(r, "recording",
              [rec[r] EXCEPT !.step = "settle", !.cur = NoOrder,
                             !.buf = NoWrites])
        /\ trades' = [trades EXCEPT ![o] = @ + 1]
        /\ row' = [Committed(r) EXCEPT ![o] = "filled"]
        /\ lock' = "free"
        /\ UNCHANGED <<origin, prop, taskVars, cmd, brokerVars, envVars>>

\* The final commit; after startup's run the bot starts taking commands.
FinishRecovery(r) ==
    /\ rec[r].subm = {}
    /\ RecoveryStep(r, "settle", IdleRun)
    /\ row' = Committed(r)
    /\ lock' = IF lock = r THEN "free" ELSE lock
    /\ phase' = "running"
    /\ UNCHANGED <<origin, trades, prop, taskVars, cmd, brokerVars, connected,
                   gate, used>>

\* An exception ends the run; its uncommitted updates are rolled back.
Abandon(r) ==
    /\ rec' = [rec EXCEPT ![r] = IdleRun]
    /\ lock' = IF lock = r THEN "free" ELSE lock

\* A request on a closed connection raises.
RecoveryFails(r) ==
    /\ rec[r].step \in {"reqOpen", "reqFills"}
    /\ ~connected
    /\ Abandon(r)
    /\ UNCHANGED <<dbVars, taskVars, cmd, brokerVars, envVars>>

\* /reconcile runs recovery only if some row is pending_submit.
Reconcile ==
    /\ phase = "running"
    /\ connected
    /\ cmd = IdleCmd
    /\ rec["command"].step = "idle"
    /\ \E o \in Orders : row[o] = "pending_submit"
    /\ Spend("reconcile")
    /\ rec' = [rec EXCEPT !["command"].step = "readPending"]
    /\ UNCHANGED <<dbVars, taskVars, cmd, lock, brokerVars, phase, connected,
                   gate>>

-----------------------------------------------------------------------------
(***************************************************************************)
(* A writer that waits on the write lock for longer than SQLite's busy     *)
(* timeout gets an exception, which ends the task or the command.          *)
(***************************************************************************)
WantsToWrite(o) ==
    \/ pc[o] \in {"failed", "acking", "cancelling", "repricing", "dropping",
                  "recording"}
    \/ pc[o] = "polling" /\ view[o] = "cancelled"

TaskLockTimeout(o) ==
    /\ ~CanWrite
    /\ WantsToWrite(o)
    /\ Spend("lockTimeout")
    /\ GoTo(o, "none")
    /\ cmd' = IF MidSubmit(o) /\ attempt[o] = "first" THEN IdleCmd ELSE cmd
    /\ UNCHANGED <<dbVars, attempt, view, recVars, brokerVars, phase, connected,
                   gate>>

CommandLockTimeout ==
    /\ ~CanWrite
    /\ cmd.step \in {"building", "approving"}
    /\ Spend("lockTimeout")
    /\ cmd' = IdleCmd
    /\ UNCHANGED <<dbVars, taskVars, recVars, brokerVars, phase, connected,
                   gate>>

RecoveryLockTimeout(r) ==
    /\ lock \notin {"free", r}
    /\ rec[r].step \in {"settlePending", "settle", "recording"}
    /\ Spend("lockTimeout")
    /\ Abandon(r)
    /\ UNCHANGED <<dbVars, taskVars, cmd, brokerVars, phase, connected, gate>>

-----------------------------------------------------------------------------
(***************************************************************************)
(* The environment: the broker, the wire, the clock and the operator's     *)
(* pause, and the process's death and restart.                             *)
(***************************************************************************)
BrokerFill(o) ==
    /\ live[o] = "working"
    /\ live' = [live EXCEPT ![o] = "filled"]
    /\ UNCHANGED <<dbVars, taskVars, cmd, recVars, cancelReq, envVars>>

\* Cancelled on request, rejected, or expired at the end of its DAY.
BrokerCancel(o) ==
    /\ live[o] = "working"
    /\ live' = [live EXCEPT ![o] = "cancelled"]
    /\ UNCHANGED <<dbVars, taskVars, cmd, recVars, cancelReq, envVars>>

Deliver(o) ==
    /\ connected
    /\ pc[o] # "none"
    /\ live[o] \in {"filled", "cancelled"}
    /\ view[o] = "working"
    /\ view' = [view EXCEPT ![o] = live[o]]
    /\ UNCHANGED <<dbVars, pc, attempt, cmd, recVars, brokerVars, envVars>>

SetGate ==
    /\ phase = "running"
    /\ gate' \in SUBSET GateReasons
    /\ gate' # gate
    /\ UNCHANGED <<dbVars, taskVars, cmd, recVars, brokerVars, phase, connected,
                   used>>

\* _on_disconnect cancels a reconnect task that is still recovering.
Disconnect ==
    /\ phase = "running"
    /\ connected
    /\ Spend("disconnect")
    /\ connected' = FALSE
    /\ Abandon("main")
    /\ UNCHANGED <<dbVars, taskVars, cmd, brokerVars, phase, gate>>

\* _reconnect_loop: connect, then on_reconnect runs recovery (min age 120 s).
Reconnect ==
    /\ phase = "running"
    /\ ~connected
    /\ connected' = TRUE
    /\ rec' = [rec EXCEPT !["main"].step = "readPending"]
    /\ UNCHANGED <<dbVars, taskVars, cmd, lock, brokerVars, phase, gate, used>>

Crash ==
    /\ phase # "down"
    /\ Spend("crash")
    /\ phase' = "down"
    /\ connected' = FALSE
    /\ pc' = [o \in Orders |-> "none"]
    /\ cmd' = IdleCmd
    /\ rec' = [r \in Runs |-> IdleRun]
    /\ lock' = "free"
    /\ UNCHANGED <<dbVars, attempt, view, brokerVars, gate>>

\* main: connect, then reconcile_state before anything else is started.
Restart ==
    /\ phase = "down"
    /\ phase' = "starting"
    /\ connected' = TRUE
    /\ rec' = [rec EXCEPT !["main"].step = "readPending"]
    /\ UNCHANGED <<dbVars, taskVars, cmd, lock, brokerVars, gate, used>>

-----------------------------------------------------------------------------
Command ==
    \/ \E p \in Proposals : Approve(p)
    \/ ApproveRefused
    \/ \E o \in Orders : SubmitIntent(o)
    \/ MarkApproved
    \/ Reconcile

OrderTask(o) ==
    \/ Place(o)
    \/ PlaceFailed(o)
    \/ Ack(o)
    \/ SeeFilled(o)
    \/ SeeCancelled(o)
    \/ RepriceTimeout(o)
    \/ MarkRepriced(o)
    \/ \E n \in Orders : RetryIntent(o, n)
    \/ GiveUp(o)
    \/ Drop(o)
    \/ CheckRecorded(o)
    \/ RecordFill(o)

Recover(r) ==
    \/ ReadPending(r)
    \/ ReadSubmitted(r)
    \/ ReqOpenOrders(r)
    \/ SettlePending(r)
    \/ ReqExecutions(r)
    \/ \E o \in Orders : StillOpen(r, o) \/ FoundFill(r, o) \/ NotFound(r, o)
    \/ RecoveryChecks(r)
    \/ RecoveryRecords(r)
    \/ FinishRecovery(r)
    \/ RecoveryFails(r)

Fault ==
    \/ \E o \in Orders : TaskLockTimeout(o)
    \/ CommandLockTimeout
    \/ \E r \in Runs : RecoveryLockTimeout(r)
    \/ Disconnect
    \/ Crash

Environment ==
    \/ \E o \in Orders : BrokerFill(o) \/ BrokerCancel(o) \/ Deliver(o)
    \/ SetGate
    \/ Reconnect
    \/ Restart

Next ==
    \/ Command
    \/ \E o \in Orders : OrderTask(o)
    \/ \E r \in Runs : Recover(r)
    \/ Fault
    \/ Environment

Spec == Init /\ [][Next]_vars

(***************************************************************************)
(* The event loop runs every ready task and the clock ends every wait, so  *)
(* each task is weakly fair; systemd restarts a dead process.  The broker, *)
(* the operator and the faults promise nothing.                            *)
(***************************************************************************)
Fairness ==
    /\ \A o \in Orders : WF_vars(OrderTask(o))
    /\ \A r \in Runs : WF_vars(Recover(r))
    /\ WF_vars(MarkApproved)
    /\ WF_vars(Restart)

FairSpec == Spec /\ Fairness

-----------------------------------------------------------------------------
(***************************************************************************)
(* Safety under every fault.                                               *)
(***************************************************************************)

\* The row is written before placeOrder, and no path sends an order without one.
WriteAhead == \A o \in Orders : live[o] # "absent" => row[o] # "none"

\* Whatever the monitor, recovery and crashes do, the broker never has an order
\* the database does not know of, a trade is recorded only for an order the
\* broker filled, and a row says 'filled' only if its trade was recorded:
\* _record_fill is reached from stale views and snapshots.
BooksMatchBroker ==
    /\ WriteAhead
    /\ \A o \in Orders :
         /\ trades[o] > 0 => live[o] = "filled"
         /\ row[o] = "filled" => trades[o] > 0

\* An order the bot has written off (repriced or cancelled) is not left to
\* work at the broker: a cancel was requested.  Monitors, startup recovery
\* and reconnect recovery keep this; /reconcile does not look at a row's age.
WrittenOffIsCancelled ==
    used["reconcile"] = 0 =>
        \A o \in Orders :
            /\ row[o] \in {"repriced", "cancelled"}
            /\ live[o] = "working"
            => o \in cancelReq

\* One approval has one order at work at a time: the retry is not sent before
\* the first order's cancel was requested, and a failed submission, which
\* leaves the proposal pending, left no order behind.  A crash or a failed
\* write between placeOrder and the 'approved' commit is the exception.
OneOrderAtWork ==
    used["crash"] + used["lockTimeout"] = 0 =>
        \A p \in Proposals :
            Cardinality({o \in Orders : /\ origin[o] = p
                                       /\ live[o] = "working"
                                       /\ o \notin cancelReq}) <= 1

\* The part of README.md's "no fill is ever lost across a restart" that the code
\* keeps over crashes, disconnects and lock timeouts: once its row says
\* 'submitted', no monitor and no recovery run, working from stale views and
\* snapshots, writes off a filled order, unless a cancel was requested for it
\* (the reprice does not read how its cancel ended).  A booked row stays booked.
SubmittedFillIsKept ==
    [][used["reconcile"] = 0 =>
         \A o \in Orders :
             /\ row[o] \in {"submitted", "filled"}
             /\ live[o] = "filled"
             /\ o \notin cancelReq
             => row'[o] \in {row[o], "filled"}]_vars

\* The part of README.md's "a fill seen by both the fill monitor and recovery is
\* recorded once" that the code keeps.  Before any disconnect a fill has one
\* record, whatever crashes or fails to write; after any number of disconnects
\* it has two at most, its monitor's and that of one reconnect: what either
\* commits ends every later run and the other's check of the row, although a
\* reprice may have taken the row on from 'filled'.
RecordsBounded ==
    used["reconcile"] = 0 =>
        \A o \in Orders : trades[o] <= IF used["disconnect"] = 0 THEN 1 ELSE 2

-----------------------------------------------------------------------------
(***************************************************************************)
(* As long as recovery has not run beside live monitors (no disconnect and *)
(* no /reconcile so far) the books of an order follow FillLedger.          *)
(***************************************************************************)
Gone(o) == row[o] # "none" /\ live[o] = "absent" /\ pc[o] # "placing"

Stage(o) ==
    CASE trades[o] = 1 /\ row[o] = "filled" -> "booked"
      [] trades[o] = 0 /\ live[o] = "filled" -> "filled"
      [] trades[o] = 0 /\ live[o] = "working" -> "working"
      [] trades[o] = 0 /\ (live[o] = "cancelled" \/ Gone(o)) -> "void"
      [] trades[o] = 0 /\ live[o] = "absent" /\ pc[o] = "placing" -> "intended"
      [] trades[o] = 0 /\ row[o] = "none" -> "unknown"
      [] OTHER -> "inconsistent"

Stages == [o \in Orders |-> Stage(o)]

Ledger == INSTANCE FillLedger WITH stage <- Stages

Serial == used["disconnect"] = 0 /\ used["reconcile"] = 0

\* A fill seen by the monitor or found by startup recovery is booked once,
\* never twice, and nothing overwrites the row of a booked order: up to the
\* first disconnect or /reconcile every step is a step of the ledger.
ImplementsLedger ==
    Ledger!Init /\ [][Serial' => [Ledger!Next]_Stages]_vars

InFlight(o) == row[o] \in {"pending_submit", "submitted"}

\* No order stays in flight for ever while a task watches it: the task fills,
\* cancels, reprices or drops it, on either side of an outage and while recovery
\* holds the lock.  A crash, a write that waited for the lock in vain and a
\* cancelOrder without a connection are all that can end a task before that, and
\* /reconcile can put a row back in flight that its task has given up.  Of the
\* orders a crash left, startup recovery settles those that have ended by then.
OrdersSettle ==
    \A o \in Orders :
        /\ InFlight(o) ~> (\/ ~InFlight(o)
                          \/ /\ pc[o] = "none"
                             /\ \E f \in Faults : used[f] > 0)
        /\ /\ phase = "starting" /\ rec["main"].step = "readPending"
           /\ InFlight(o) /\ live[o] # "working"
           ~> ~InFlight(o) \/ phase = "down"

-----------------------------------------------------------------------------
(***************************************************************************)
(* What the documentation says and the code does not keep.                 *)
(***************************************************************************)

\* README.md: "a fill seen by both the fill monitor and recovery is recorded
\* once".  The status is read and the trade inserted in separate awaits.
RecordedOnce == \A o \in Orders : trades[o] <= 1

\* README.md: crash recovery ensures "no fill is ever lost across a restart".
\* Startup recovery cancels a pending_submit row that is not an open order
\* without looking for its fill.
RestartKeepsFills ==
    [][\A o \in Orders :
           /\ phase = "starting"
           /\ row[o] # "cancelled"
           /\ row'[o] = "cancelled"
           => live[o] # "filled"]_vars

\* README.md: "Opening orders are refused while paused inside the execution
\* engine too".  The retry order does not go through submit_order.
NoOpeningWhilePaused ==
    [][\A o \in Orders :
           row[o] = "none" /\ row'[o] = "pending_submit" => gate = {}]_vars
=============================================================================
