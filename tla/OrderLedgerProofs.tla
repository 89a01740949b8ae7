-------------------------- MODULE OrderLedgerProofs --------------------------
(***************************************************************************)
(* Proofs about what becomes of an order, for any orders, proposals and    *)
(* fault budgets: a written-off order has been asked to cancel, a proposal *)
(* has one order at work, a fill is not written off once its row says      *)
(* 'submitted' and is recorded once, or twice if the connection ever       *)
(* dropped, and, when no recovery runs beside the monitors, the books of   *)
(* an order follow FillLedger.                                             *)
(*                                                                         *)
(* They rest on BooksInv (OrderLifecycleProofs) and on facts that, once    *)
(* true of an order, stay true: its row exists, it is not about to be      *)
(* placed, it is gone or being cancelled.                                  *)
(***************************************************************************)
EXTENDS OrderLifecycleProofs, FiniteSetTheorems

-----------------------------------------------------------------------------
(***************************************************************************)
(* Who writes what.                                                        *)
(***************************************************************************)

\* The rows.
LEMMA RowWriters ==
    [Next]_vars =>
        \/ UNCHANGED row
        \/ \E o \in Orders :
             \/ SubmitIntent(o) \/ PlaceFailed(o) \/ Ack(o) \/ SeeCancelled(o)
             \/ MarkRepriced(o) \/ Drop(o) \/ RecordFill(o)
             \/ \E n \in Orders : RetryIntent(o, n)
        \/ \E r \in Runs : RecoveryRecords(r) \/ FinishRecovery(r)
<1> USE DEF dbVars, taskVars, recVars, brokerVars, envVars
<1>1. ASSUME Command PROVE UNCHANGED row \/ \E o \in Orders : SubmitIntent(o)
  BY <1>1 DEF Command, Approve, ApproveRefused, MarkApproved, Reconcile
<1>2. ASSUME NEW o \in Orders, OrderTask(o)
      PROVE  \/ UNCHANGED row
             \/ PlaceFailed(o) \/ Ack(o) \/ SeeCancelled(o)
             \/ MarkRepriced(o) \/ Drop(o) \/ RecordFill(o)
             \/ \E n \in Orders : RetryIntent(o, n)
  BY <1>2 DEF OrderTask, Place, SeeFilled, RepriceTimeout, GiveUp, CheckRecorded
<1>3. ASSUME NEW r \in Runs, Recover(r)
      PROVE  UNCHANGED row \/ RecoveryRecords(r) \/ FinishRecovery(r)
  BY <1>3 DEF Recover, ReadPending, ReadSubmitted, ReqOpenOrders, SettlePending, ReqExecutions,
              StillOpen, FoundFill, NotFound, RecoveryChecks, RecoveryFails
<1>4. Fault \/ Environment => UNCHANGED row
  BY DEF Fault, TaskLockTimeout, CommandLockTimeout, RecoveryLockTimeout, Disconnect, Crash,
         Environment, BrokerFill, BrokerCancel, Deliver, SetGate, Reconnect, Restart
<1>. QED
  BY <1>1, <1>2, <1>3, <1>4 DEF Next, vars

\* The tasks that own orders.
LEMMA PcWriters ==
    [Next]_vars =>
        \/ UNCHANGED pc
        \/ \E o \in Orders : SubmitIntent(o) \/ OrderTask(o) \/ TaskLockTimeout(o)
        \/ Crash
<1> USE DEF dbVars, taskVars, recVars, brokerVars, envVars
<1>1. ASSUME Command PROVE UNCHANGED pc \/ \E o \in Orders : SubmitIntent(o)
  BY <1>1 DEF Command, Approve, ApproveRefused, MarkApproved, Reconcile
<1>3. ASSUME NEW r \in Runs, Recover(r) PROVE UNCHANGED pc
  BY <1>3 DEF Recover, ReadPending, ReadSubmitted, ReqOpenOrders, SettlePending, ReqExecutions,
              StillOpen, FoundFill, NotFound, RecoveryChecks, RecoveryRecords, FinishRecovery,
              RecoveryFails
<1>4. ASSUME Fault \/ Environment
      PROVE  UNCHANGED pc \/ Crash \/ \E o \in Orders : TaskLockTimeout(o)
  BY <1>4 DEF Fault, CommandLockTimeout, RecoveryLockTimeout, Disconnect,
         Environment, BrokerFill, BrokerCancel, Deliver, SetGate, Reconnect, Restart
<1>. QED
  BY <1>1, <1>3, <1>4 DEF Next, vars

\* The broker's book, and the cancels asked for.
LEMMA LiveWriters ==
    [Next]_vars =>
        /\ UNCHANGED live \/ \E o \in Orders : Place(o) \/ BrokerFill(o) \/ BrokerCancel(o)
        /\ cancelReq \subseteq cancelReq'
<1> USE DEF dbVars, taskVars, recVars, brokerVars, envVars
<1>1. ASSUME Command PROVE UNCHANGED <<live, cancelReq>>
  BY <1>1 DEF Command, Approve, ApproveRefused, SubmitIntent, MarkApproved, Reconcile
<1>2. ASSUME NEW o \in Orders, OrderTask(o)
      PROVE  (UNCHANGED live \/ Place(o)) /\ cancelReq \subseteq cancelReq'
  BY <1>2 DEF OrderTask, Place, PlaceFailed, Ack, SeeFilled, SeeCancelled, RepriceTimeout,
              MarkRepriced, RetryIntent, GiveUp, Drop, CheckRecorded, RecordFill
<1>3. ASSUME NEW r \in Runs, Recover(r) PROVE UNCHANGED <<live, cancelReq>>
  BY <1>3 DEF Recover, ReadPending, ReadSubmitted, ReqOpenOrders, SettlePending, ReqExecutions,
              StillOpen, FoundFill, NotFound, RecoveryChecks, RecoveryRecords, FinishRecovery,
              RecoveryFails
<1>4. ASSUME Fault \/ Environment
      PROVE  /\ UNCHANGED live \/ \E o \in Orders : BrokerFill(o) \/ BrokerCancel(o)
             /\ UNCHANGED cancelReq
  BY <1>4 DEF Fault, TaskLockTimeout, CommandLockTimeout, RecoveryLockTimeout, Disconnect, Crash,
         Environment, BrokerFill, BrokerCancel, Deliver, SetGate, Reconnect, Restart
<1>. QED
  BY <1>1, <1>2, <1>3, <1>4 DEF Next, vars

\* The recovery runs.
LEMMA RecWriters ==
    [Next]_vars =>
        \/ UNCHANGED rec
        \/ \E r \in Runs : Recover(r) \/ RecoveryLockTimeout(r)
        \/ Reconcile \/ Disconnect \/ Reconnect \/ Crash \/ Restart
<1> USE DEF dbVars, taskVars, recVars, brokerVars, envVars
<1>1. ASSUME Command PROVE UNCHANGED rec \/ Reconcile
  BY <1>1 DEF Command, Approve, ApproveRefused, SubmitIntent, MarkApproved
<1>2. ASSUME NEW o \in Orders, OrderTask(o) PROVE UNCHANGED rec
  BY <1>2 DEF OrderTask, Place, PlaceFailed, Ack, SeeFilled, SeeCancelled, RepriceTimeout,
              MarkRepriced, RetryIntent, GiveUp, Drop, CheckRecorded, RecordFill
<1>4. ASSUME Fault \/ Environment
      PROVE  \/ UNCHANGED rec
             \/ \E r \in Runs : RecoveryLockTimeout(r)
             \/ Disconnect \/ Reconnect \/ Crash \/ Restart
  BY <1>4 DEF Fault, TaskLockTimeout, CommandLockTimeout,
         Environment, BrokerFill, BrokerCancel, Deliver, SetGate
<1>. QED
  BY <1>1, <1>2, <1>4 DEF Next, vars

\* A row that exists stays, and only an order without a row comes to be placed.
LEMMA RowStays ==
    ASSUME TypeOK, [Next]_vars, NEW x \in Orders, row[x] # "none"
    PROVE  row'[x] # "none"
<1>t. row \in [Orders -> Status]
  BY DEF TypeOK
<1>1. ASSUME NEW o \in Orders,
             \/ PlaceFailed(o) \/ Ack(o) \/ SeeCancelled(o)
             \/ MarkRepriced(o) \/ Drop(o) \/ RecordFill(o)
      PROVE  row'[x] # "none"
  BY <1>1, <1>t DEF PlaceFailed, Ack, SeeCancelled, MarkRepriced, Drop, RecordFill, SetRow
<1>2. ASSUME NEW o \in Orders, SubmitIntent(o) \/ \E n \in Orders : RetryIntent(n, o)
      PROVE  row'[x] # "none"
  BY <1>2, <1>t DEF SubmitIntent, RetryIntent, Intend, SetRow
<1>3. ASSUME NEW r \in Runs, RecoveryRecords(r) PROVE row'[x] # "none"
  <2>1. row' = [Committed(r) EXCEPT ![rec[r].cur] = "filled"]
    BY <1>3 DEF RecoveryRecords
  <2>2. Committed(r)[x] # "none"
    BY CommittedRows
  <2>. QED
    BY <2>1, <2>2, CommittedType
<1>4. ASSUME NEW r \in Runs, FinishRecovery(r) PROVE row'[x] # "none"
  BY <1>4, CommittedRows DEF FinishRecovery
<1>. QED
  BY <1>1, <1>2, <1>3, <1>4, RowWriters

LEMMA PlacingFresh ==
    ASSUME TypeOK, [Next]_vars, NEW x \in Orders, pc'[x] = "placing", pc[x] # "placing"
    PROVE  row[x] = "none" /\ row'[x] = "pending_submit"
<1>t. row \in [Orders -> Status] /\ pc \in [Orders -> Steps]
  BY DEF TypeOK
<1>1. ASSUME NEW o \in Orders, SubmitIntent(o) PROVE row[x] = "none" /\ row'[x] = "pending_submit"
  BY <1>1, <1>t DEF SubmitIntent, Intend, SetRow, GoTo
<1>2. ASSUME NEW o \in Orders, OrderTask(o) PROVE row[x] = "none" /\ row'[x] = "pending_submit"
  <2>1. ASSUME NEW n \in Orders, RetryIntent(o, n) PROVE row[x] = "none" /\ row'[x] = "pending_submit"
    BY <2>1, <1>t DEF RetryIntent, Intend, SetRow
  <2>2. CASE Place(o) \/ PlaceFailed(o) \/ Ack(o) \/ SeeFilled(o) \/ SeeCancelled(o)
    BY <2>2, <1>t DEF Place, PlaceFailed, Ack, SeeFilled, SeeCancelled, GoTo
  <2>3. CASE RepriceTimeout(o) \/ MarkRepriced(o) \/ GiveUp(o)
    BY <2>3, <1>t DEF RepriceTimeout, MarkRepriced, GiveUp, GoTo
  <2>4. CASE Drop(o) \/ CheckRecorded(o) \/ RecordFill(o)
    BY <2>4, <1>t DEF Drop, CheckRecorded, RecordFill, GoTo
  <2>. QED
    BY <1>2, <2>1, <2>2, <2>3, <2>4 DEF OrderTask
<1>3. ASSUME NEW o \in Orders, TaskLockTimeout(o) PROVE FALSE
  BY <1>3, <1>t DEF TaskLockTimeout, GoTo
<1>4. CASE Crash
  BY <1>4 DEF Crash
<1>. QED
  BY <1>1, <1>2, <1>3, <1>4, PcWriters

\* The order has a row and is not about to be placed.
Past(o) == row[o] # "none" /\ pc[o] # "placing"

\* ... and if it works at the broker its cancel has been requested.
Ending(o) == Past(o) /\ (live[o] = "working" => o \in cancelReq)

LEMMA PastStays ==
    ASSUME TypeOK, [Next]_vars, NEW o \in Orders, Past(o)
    PROVE  Past(o)'
  BY RowStays, PlacingFresh DEF Past

\* What ended at the broker is final, and only a placed order comes to work.
LEMMA LiveStays ==
    ASSUME TypeOK, [Next]_vars, NEW x \in Orders
    PROVE  /\ live'[x] = "working" => live[x] = "working" \/ Place(x)
           /\ live[x] \in {"cancelled", "filled"} /\ ~Place(x) => live'[x] = live[x]
<1>t. live \in [Orders -> {"absent", "working", "cancelled", "filled"}]
  BY DEF TypeOK
<1>1. ASSUME NEW o \in Orders, Place(o), o # x PROVE live'[x] = live[x]
  BY <1>1, <1>t DEF Place
<1>2. ASSUME NEW o \in Orders, BrokerFill(o) \/ BrokerCancel(o)
      PROVE  /\ live'[x] = "working" => live[x] = "working"
             /\ live[x] \in {"cancelled", "filled"} => live'[x] = live[x]
  BY <1>2, <1>t DEF BrokerFill, BrokerCancel
<1>. QED
  BY <1>1, <1>2, LiveWriters

LEMMA EndingStays ==
    ASSUME TypeOK, [Next]_vars, NEW o \in Orders, Ending(o)
    PROVE  Ending(o)'
<1>1. ~Place(o)
  BY DEF Ending, Past, Place
<1>. QED
  BY <1>1, PastStays, LiveStays, LiveWriters DEF Ending

-----------------------------------------------------------------------------
(***************************************************************************)
(* WrittenOffIsCancelled.                                                  *)
(***************************************************************************)
\* Nothing but recovery runs before the bot takes commands.
Quiet ==
    phase # "running" => cmd = IdleCmd /\ \A o \in Orders : pc[o] = "none"

\* What the monitors know when they write an order off.
TaskTruth ==
    \A o \in Orders :
        /\ view[o] = "cancelled" => live[o] = "cancelled"
        /\ pc[o] = "failed" => live[o] = "absent"
        /\ pc[o] \in {"cancelling", "repricing"} => o \in cancelReq
        /\ pc[o] = "dropping" => o \in cancelReq \/ live[o] # "working"

Asked == {"settlePending", "reqFills", "settle", "checking", "recording"}

\* What a run of recovery knows of the rows it read.
RunTruth(r) ==
    /\ \A o \in rec[r].pend \cup rec[r].subm : Past(o)
    /\ rec[r].step \in Asked =>
         \A o \in (rec[r].pend \cup rec[r].subm) \ rec[r].open : Ending(o)
    /\ \A o \in Orders : rec[r].buf[o] = "submitted" => Past(o)
    /\ \A o \in Orders : rec[r].buf[o] = "cancelled" => Ending(o)

\* /reconcile is the run that knows less: it reads rows of any age.
WrittenOffInv ==
    /\ Quiet
    /\ TaskTruth
    /\ used["reconcile"] = 0 =>
         /\ rec["command"] = IdleRun
         /\ RunTruth("main")
         /\ \A o \in Orders : pc[o] = "placing" => row[o] = "pending_submit"
         /\ \A o \in Orders : row[o] \in {"repriced", "cancelled"} => Ending(o)

LEMMA UsedWriters ==
    [Next]_vars =>
        \/ UNCHANGED used
        \/ \E f \in Faults : Spend(f) /\ (f = "reconcile" => Reconcile)
<1> USE DEF dbVars, taskVars, recVars, brokerVars, envVars
<1>1. ASSUME Command PROVE UNCHANGED used \/ (Spend("reconcile") /\ Reconcile)
  BY <1>1 DEF Command, Approve, ApproveRefused, SubmitIntent, MarkApproved, Reconcile
<1>2. ASSUME NEW o \in Orders, OrderTask(o) PROVE UNCHANGED used
  BY <1>2 DEF OrderTask, Place, PlaceFailed, Ack, SeeFilled, SeeCancelled, RepriceTimeout,
              MarkRepriced, RetryIntent, GiveUp, Drop, CheckRecorded, RecordFill
<1>3. ASSUME NEW r \in Runs, Recover(r) PROVE UNCHANGED used
  BY <1>3 DEF Recover, ReadPending, ReadSubmitted, ReqOpenOrders, SettlePending, ReqExecutions,
              StillOpen, FoundFill, NotFound, RecoveryChecks, RecoveryRecords, FinishRecovery,
              RecoveryFails
<1>4. ASSUME Fault
      PROVE  Spend("lockTimeout") \/ Spend("disconnect") \/ Spend("crash")
  BY <1>4 DEF Fault, TaskLockTimeout, CommandLockTimeout, RecoveryLockTimeout, Disconnect, Crash
<1>5. Environment => UNCHANGED used
  BY DEF Environment, BrokerFill, BrokerCancel, Deliver, SetGate, Reconnect, Restart
<1>. QED
  BY <1>1, <1>2, <1>3, <1>4, <1>5 DEF Next, vars, Faults

\* A count that is 0 was 0, and its fault did not happen.
LEMMA SpentStays ==
    ASSUME TypeOK, NEW f \in Faults, NEW g \in Faults, Spend(f), used'[g] = 0
    PROVE  used[g] = 0 /\ f # g
<1>1. used \in [Faults -> Nat] /\ used' = [used EXCEPT ![f] = used[f] + 1]
  BY DEF TypeOK, Spend
<1>2. CASE f = g
  <2>1. used'[g] = used[g] + 1
    BY <1>1, <1>2
  <2>. QED
    BY <1>1, <2>1
<1>3. CASE f # g
  BY <1>1, <1>3
<1>. QED
  BY <1>2, <1>3

LEMMA NoReconcile ==
    ASSUME TypeOK, [Next]_vars, used'["reconcile"] = 0
    PROVE  used["reconcile"] = 0 /\ ~Reconcile
<1>1. "reconcile" \in Faults
  BY DEF Faults
<1>2. ~Reconcile
  BY <1>1, SpentStays DEF Reconcile
<1>. QED
  BY <1>1, <1>2, SpentStays, UsedWriters

LEMMA InitWrittenOff == Init => WrittenOffInv
<1> SUFFICES ASSUME Init PROVE WrittenOffInv
  OBVIOUS
<1>1. Quiet /\ TaskTruth
  BY DEF Init, Quiet, TaskTruth
<1>2. RunTruth("main") /\ rec["command"] = IdleRun
  BY DEF Init, RunTruth, IdleRun, NoWrites, Runs
<1>. QED
  BY <1>1, <1>2 DEF WrittenOffInv, Init

LEMMA QuietStep == TypeOK /\ Quiet /\ [Next]_vars => Quiet'
<1> SUFFICES ASSUME TypeOK, Quiet, [Next]_vars, phase' # "running"
             PROVE  cmd' = IdleCmd /\ \A o \in Orders : pc'[o] = "none"
  BY DEF Quiet
<1> USE DEF dbVars, taskVars, recVars, brokerVars, envVars
<1>1. CASE Crash
  BY <1>1 DEF Crash
<1>2. ASSUME ~Crash PROVE phase # "running" \/ UNCHANGED phase
  <2>1. Command => UNCHANGED phase
    BY DEF Command, Approve, ApproveRefused, SubmitIntent, MarkApproved, Reconcile
  <2>2. ASSUME NEW o \in Orders, OrderTask(o) PROVE UNCHANGED phase
    BY <2>2 DEF OrderTask, Place, PlaceFailed, Ack, SeeFilled, SeeCancelled, RepriceTimeout,
                MarkRepriced, RetryIntent, GiveUp, Drop, CheckRecorded, RecordFill
  <2>3. ASSUME NEW r \in Runs, Recover(r) PROVE UNCHANGED phase \/ phase' = "running"
    BY <2>3 DEF Recover, ReadPending, ReadSubmitted, ReqOpenOrders, SettlePending, ReqExecutions,
                StillOpen, FoundFill, NotFound, RecoveryChecks, RecoveryRecords, FinishRecovery,
                RecoveryFails
  <2>4. Fault => UNCHANGED phase
    BY <1>2 DEF Fault, TaskLockTimeout, CommandLockTimeout, RecoveryLockTimeout, Disconnect
  <2>5. Environment => UNCHANGED phase \/ phase = "down"
    BY DEF Environment, BrokerFill, BrokerCancel, Deliver, SetGate, Reconnect, Restart
  <2>. QED
    BY <2>1, <2>2, <2>3, <2>4, <2>5 DEF Next, vars
<1>3. ASSUME ~Crash PROVE cmd = IdleCmd /\ (\A o \in Orders : pc[o] = "none") /\ phase # "running"
  BY <1>2, <1>3 DEF Quiet
<1>4. ASSUME NEW o \in Orders, ~Crash PROVE ~SubmitIntent(o) /\ ~OrderTask(o) /\ ~TaskLockTimeout(o)
  BY <1>3, <1>4 DEF SubmitIntent, IdleCmd, OrderTask, Place, PlaceFailed, Ack, SeeFilled, SeeCancelled,
     RepriceTimeout, MarkRepriced, RetryIntent, GiveUp, Drop, CheckRecorded, RecordFill,
     TaskLockTimeout, WantsToWrite
<1>5. ~Crash => UNCHANGED pc
  BY <1>4, PcWriters
<1>6. ASSUME ~Crash PROVE cmd' = IdleCmd
  <2>1. Command => cmd' = IdleCmd
    BY <1>3, <1>4, <1>6 DEF Command, Approve, ApproveRefused, MarkApproved, Reconcile, IdleCmd
  <2>3. ASSUME NEW r \in Runs, Recover(r) PROVE UNCHANGED cmd
    BY <2>3 DEF Recover, ReadPending, ReadSubmitted, ReqOpenOrders, SettlePending, ReqExecutions,
                StillOpen, FoundFill, NotFound, RecoveryChecks, RecoveryRecords, FinishRecovery,
                RecoveryFails
  <2>4. Fault => cmd' = IdleCmd
    BY <1>3, <1>4, <1>6 DEF Fault, CommandLockTimeout, RecoveryLockTimeout, Disconnect
  <2>5. Environment => UNCHANGED cmd
    BY DEF Environment, BrokerFill, BrokerCancel, Deliver, SetGate, Reconnect, Restart
  <2>. QED
    BY <1>3, <1>4, <1>6, <2>1, <2>3, <2>4, <2>5 DEF Next, vars
<1>. QED
  BY <1>1, <1>3, <1>5, <1>6

LEMMA TruthStep ==
    BooksInv /\ TaskTruth /\ [Next]_vars => TaskTruth'
<1> SUFFICES ASSUME BooksInv, TaskTruth, [Next]_vars, NEW x \in Orders
             PROVE  /\ view'[x] = "cancelled" => live'[x] = "cancelled"
                    /\ pc'[x] = "failed" => live'[x] = "absent"
                    /\ pc'[x] \in {"cancelling", "repricing"} => x \in cancelReq'
                    /\ pc'[x] = "dropping" => x \in cancelReq' \/ live'[x] # "working"
  BY DEF TaskTruth
<1>t. /\ pc \in [Orders -> Steps] /\ view \in [Orders -> {"working", "cancelled", "filled"}]
      /\ live \in [Orders -> {"absent", "working", "cancelled", "filled"}]
  BY DEF BooksInv, TypeOK
<1>a. /\ view[x] = "cancelled" => live[x] = "cancelled"
      /\ view[x] = "filled" => live[x] = "filled"
      /\ pc[x] = "placing" => live[x] = "absent"
      /\ pc[x] = "failed" => live[x] = "absent"
      /\ pc[x] \in {"cancelling", "repricing"} => x \in cancelReq
      /\ pc[x] = "dropping" => x \in cancelReq \/ live[x] # "working"
  BY DEF BooksInv, TaskEvidence, TaskTruth
<1>b. TypeOK
  BY DEF BooksInv
<1> USE DEF dbVars, taskVars, recVars, brokerVars, envVars
<1>1. view'[x] = "cancelled" => live'[x] = "cancelled"
  <2>1. view'[x] = "cancelled" => live[x] = "cancelled"
    <3>1. Command => view'[x] \in {view[x], "working"}
      BY <1>t DEF Command, Approve, ApproveRefused, SubmitIntent, Intend, MarkApproved, Reconcile
    <3>2. ASSUME NEW o \in Orders, OrderTask(o) PROVE view'[x] \in {view[x], "working"}
      BY <1>t, <3>2 DEF OrderTask, Place, PlaceFailed, Ack, SeeFilled, SeeCancelled, RepriceTimeout,
              MarkRepriced, RetryIntent, Intend, GiveUp, Drop, CheckRecorded, RecordFill
    <3>3. ASSUME NEW r \in Runs, Recover(r) PROVE UNCHANGED view
      BY <3>3 DEF Recover, ReadPending, ReadSubmitted, ReqOpenOrders, SettlePending, ReqExecutions,
              StillOpen, FoundFill, NotFound, RecoveryChecks, RecoveryRecords, FinishRecovery,
              RecoveryFails
    <3>4. Fault => UNCHANGED view
      BY DEF Fault, TaskLockTimeout, CommandLockTimeout, RecoveryLockTimeout, Disconnect, Crash
    <3>5. Environment => view'[x] \in {view[x], live[x]}
      BY <1>t DEF Environment, BrokerFill, BrokerCancel, Deliver, SetGate, Reconnect, Restart
    <3>. QED
      BY <1>a, <3>1, <3>2, <3>3, <3>4, <3>5 DEF Next, vars
  <2>2. ~(live[x] = "cancelled" /\ Place(x))
    BY <1>a DEF Place
  <2>. QED
    BY <2>1, <2>2, <1>b, LiveStays
<1>2. ASSUME ~Place(x), live[x] = "absent" PROVE live'[x] = "absent"
  <2>1. ASSUME NEW o \in Orders, Place(o) PROVE live'[x] = "absent"
    BY <1>2, <2>1, <1>t DEF Place
  <2>2. ASSUME NEW o \in Orders, BrokerFill(o) \/ BrokerCancel(o) PROVE live'[x] = "absent"
    BY <1>2, <2>2, <1>t DEF BrokerFill, BrokerCancel
  <2>. QED
    BY <1>2, <2>1, <2>2, LiveWriters
<1>3. ASSUME pc'[x] = pc[x]
      PROVE  /\ pc'[x] = "failed" => live'[x] = "absent"
             /\ pc'[x] \in {"cancelling", "repricing"} => x \in cancelReq'
             /\ pc'[x] = "dropping" => x \in cancelReq' \/ live'[x] # "working"
  <2>1. ~Place(x)
    BY <1>3, <1>t DEF Place, GoTo
  <2>. QED
    BY <2>1, <1>3, <1>2, <1>a, <1>b, LiveStays, LiveWriters
<1>4. ASSUME NEW o \in Orders, OrderTask(o)
      PROVE  /\ pc'[x] = "failed" => live'[x] = "absent"
             /\ pc'[x] \in {"cancelling", "repricing"} => x \in cancelReq'
             /\ pc'[x] = "dropping" => x \in cancelReq' \/ live'[x] # "working"
  <2>1. ASSUME NEW n \in Orders, RetryIntent(o, n) PROVE pc'[x] \in {pc[x], "none", "placing"}
    BY <2>1, <1>t DEF RetryIntent, Intend, SetRow
  <2>2. CASE PlaceFailed(o) \/ Ack(o) \/ SeeFilled(o) \/ SeeCancelled(o)
    BY <2>2, <1>3, <1>t, <1>a DEF PlaceFailed, Ack, SeeFilled, SeeCancelled, GoTo, SetRow
  <2>3. CASE RepriceTimeout(o) \/ MarkRepriced(o) \/ GiveUp(o)
    BY <2>3, <1>3, <1>t, <1>a DEF RepriceTimeout, MarkRepriced, GiveUp, GoTo, SetRow, IsDone
  <2>4. CASE Drop(o) \/ CheckRecorded(o) \/ RecordFill(o)
    BY <2>4, <1>3, <1>t, <1>a DEF Drop, CheckRecorded, RecordFill, GoTo, SetRow
  <2>5. CASE Place(o)
    BY <2>5, <1>3, <1>t, <1>a DEF Place, GoTo
  <2>. QED
    BY <1>4, <2>1, <2>2, <2>3, <2>4, <2>5, <1>3 DEF OrderTask
<1>5. ASSUME NEW o \in Orders, SubmitIntent(o) \/ TaskLockTimeout(o)
      PROVE  pc'[x] \in {pc[x], "placing", "none"}
  BY <1>5, <1>t DEF SubmitIntent, Intend, TaskLockTimeout, GoTo
<1>6. Crash => pc'[x] = "none"
  BY DEF Crash
<1>. QED
  BY <1>1, <1>3, <1>4, <1>5, <1>6, PcWriters

\* What a run knows stays true while it only works its rows off.
LEMMA RunFrame ==
    ASSUME TypeOK, [Next]_vars, NEW r \in Runs, RunTruth(r),
           rec'[r].pend \subseteq rec[r].pend, rec'[r].subm \subseteq rec[r].subm,
           rec'[r].pend \subseteq Orders, rec'[r].subm \subseteq Orders,
           rec'[r].buf = rec[r].buf,
           rec'[r].step \in Asked => rec[r].step \in Asked /\ rec'[r].open = rec[r].open
    PROVE  RunTruth(r)'
<1>1. \A o \in Orders : Past(o) => Past(o)'
  BY PastStays
<1>2. \A o \in Orders : Ending(o) => Ending(o)'
  BY EndingStays
<1>. QED
  BY <1>1, <1>2 DEF RunTruth

LEMMA IdleTruth ==
    ASSUME NEW r \in Runs, rec'[r] = IdleRun
    PROVE  RunTruth(r)'
  BY DEF RunTruth, IdleRun, NoWrites, Asked

\* A step of the startup and reconnect run.
LEMMA MainStep ==
    ASSUME BooksInv, Quiet, RunTruth("main"), [Next]_vars, Recover("main"),
           \A o \in Orders : pc[o] = "placing" => row[o] = "pending_submit"
    PROVE  RunTruth("main")'
<1> DEFINE R == rec["main"]
<1>t. /\ R \in Recovery /\ "main" \in Runs /\ TypeOK /\ pc \in [Orders -> Steps]
      /\ row \in [Orders -> Status] /\ rec \in [Runs -> Recovery]
  BY DEF BooksInv, TypeOK, Runs
<1>s. \A o \in Orders : (Past(o) => Past(o)') /\ (Ending(o) => Ending(o)')
  BY <1>t, PastStays, EndingStays
<1>a. /\ \A o \in R.pend \cup R.subm : Past(o)
      /\ R.step \in Asked => \A o \in (R.pend \cup R.subm) \ R.open : Ending(o)
      /\ \A o \in Orders : R.buf[o] = "submitted" => Past(o)
      /\ \A o \in Orders : R.buf[o] = "cancelled" => Ending(o)
  BY DEF RunTruth
<1>o. R.pend \subseteq Orders /\ R.subm \subseteq Orders /\ R.open \subseteq Orders
  BY <1>t DEF Recovery
<1>1. CASE ReadPending("main")
  <2>1. PICK P \in OldEnough("main") :
          rec'["main"] = [R EXCEPT !.step = "readSubmitted", !.pend = P]
    BY <1>1, <1>t DEF ReadPending, RecoveryStep
  <2>2. \A o \in P : o \in Orders /\ Past(o)
    <3>1. CASE phase = "running"
      BY <3>1, <2>1 DEF OldEnough, MidSubmit, Past
    <3>2. CASE phase # "running"
      BY <3>2, <2>1 DEF OldEnough, Quiet, Past
    <3>. QED
      BY <3>1, <3>2
  <2>3. /\ rec'["main"].pend = P /\ rec'["main"].subm = R.subm /\ rec'["main"].buf = R.buf
        /\ rec'["main"].step = "readSubmitted"
    BY <2>1, <1>t DEF Recovery
  <2>. QED
    BY <2>2, <2>3, <1>a, <1>o, <1>s DEF RunTruth, Asked
<1>2. CASE ReadSubmitted("main")
  <2> DEFINE S == {o \in Orders : row[o] = "submitted"}
             next == IF R.pend \cup S = {} THEN "settle" ELSE "reqOpen"
  <2>1. rec'["main"] = [R EXCEPT !.step = next, !.subm = S]
    BY <1>2, <1>t DEF ReadSubmitted, RecoveryStep
  <2>2. \A o \in S : o \in Orders /\ Past(o)
    BY DEF Past
  <2>3. /\ rec'["main"].pend = R.pend /\ rec'["main"].subm = S /\ rec'["main"].buf = R.buf
        /\ rec'["main"].step \in Asked => R.pend \cup S = {}
    BY <2>1, <1>t DEF Recovery, Asked
  <2> HIDE DEF S
  <2>. QED
    BY <2>2, <2>3, <1>a, <1>o, <1>s DEF RunTruth
<1>3. CASE ReqOpenOrders("main")
  <2>1. rec'["main"] = [R EXCEPT !.step = "settlePending",
                                 !.open = {o \in Orders : live[o] = "working"}]
    BY <1>3, <1>t DEF ReqOpenOrders, RecoveryStep
  <2>2. /\ rec'["main"].pend = R.pend /\ rec'["main"].subm = R.subm /\ rec'["main"].buf = R.buf
        /\ rec'["main"].open = {o \in Orders : live[o] = "working"}
    BY <2>1, <1>t DEF Recovery
  <2>3. \A o \in (R.pend \cup R.subm) \ {x \in Orders : live[x] = "working"} : Ending(o)
    BY <1>a, <1>o DEF Ending
  <2>. QED
    BY <2>2, <2>3, <1>a, <1>o, <1>s DEF RunTruth
<1>4. CASE SettlePending("main")
  <2> DEFINE next == IF R.subm = {} THEN "settle" ELSE "reqFills"
  <2>1. rec'["main"] = [R EXCEPT !.step = next, !.buf = PendingUpdates("main")] /\ R.step \in Asked
    BY <1>4, <1>t DEF SettlePending, RecoveryStep, Asked
  <2>2. /\ rec'["main"].pend = R.pend /\ rec'["main"].subm = R.subm /\ rec'["main"].open = R.open
        /\ rec'["main"].buf = PendingUpdates("main")
    BY <2>1, <1>t DEF Recovery
  <2>3. ASSUME NEW o \in Orders
        PROVE  /\ PendingUpdates("main")[o] = "submitted" => Past(o)
               /\ PendingUpdates("main")[o] = "cancelled" => Ending(o)
    BY <1>a, <2>1 DEF PendingUpdates
  <2>. QED
    BY <2>1, <2>2, <2>3, <1>a, <1>o, <1>s DEF RunTruth
<1>5. CASE ReqExecutions("main")
  <2>1. /\ rec'["main"] = [R EXCEPT !.step = "settle",
                                    !.execs = {o \in Orders : live[o] = "filled"}]
        /\ R.step \in Asked
    BY <1>5, <1>t DEF ReqExecutions, RecoveryStep, Asked
  <2>2. /\ rec'["main"].pend = R.pend /\ rec'["main"].subm = R.subm /\ rec'["main"].open = R.open
        /\ rec'["main"].buf = R.buf
    BY <2>1, <1>t DEF Recovery
  <2>. QED
    BY <2>1, <2>2, <1>t, <1>o, RunFrame
<1>6. ASSUME NEW o \in Orders, StillOpen("main", o) \/ FoundFill("main", o) PROVE RunTruth("main")'
  <2>1. /\ R.step \in Asked
        /\ \/ rec'["main"] = [R EXCEPT !.subm = @ \ {o}]
           \/ rec'["main"] = [R EXCEPT !.subm = @ \ {o}, !.step = "checking", !.cur = o]
    BY <1>6, <1>t DEF StillOpen, FoundFill, RecoveryStep, Asked
  <2>2. /\ rec'["main"].pend = R.pend /\ rec'["main"].subm = R.subm \ {o} /\ rec'["main"].open = R.open
        /\ rec'["main"].buf = R.buf
    BY <2>1, <1>t DEF Recovery
  <2>. QED
    BY <2>1, <2>2, <1>t, <1>o, RunFrame
<1>7. ASSUME NEW o \in Orders, NotFound("main", o) PROVE RunTruth("main")'
  <2>1. /\ R.step \in Asked /\ o \in (R.subm \ R.open)
        /\ rec'["main"] = [R EXCEPT !.subm = @ \ {o}, !.buf[o] = "cancelled"]
    BY <1>7, <1>t DEF NotFound, RecoveryStep, Asked
  <2>2. /\ rec'["main"].pend = R.pend /\ rec'["main"].subm = R.subm \ {o} /\ rec'["main"].open = R.open
        /\ rec'["main"].buf = [R.buf EXCEPT ![o] = "cancelled"]
    BY <2>1, <1>t DEF Recovery
  <2>3. Ending(o)
    BY <2>1, <1>a
  <2>4. R.buf \in [Orders -> {"keep", "submitted", "cancelled"}]
    BY <1>t DEF Recovery
  <2>. QED
    BY <2>1, <2>2, <2>3, <2>4, <1>a, <1>o, <1>s DEF RunTruth
<1>8. CASE RecoveryChecks("main")
  <2> DEFINE seen == Committed("main")[R.cur]
  <2>1. /\ R.step \in Asked
        /\ rec'["main"] = [R EXCEPT !.step = IF seen = "filled" THEN "settle" ELSE "recording",
                                    !.cur = IF seen = "filled" THEN NoOrder ELSE @]
    BY <1>8, <1>t DEF RecoveryChecks, RecoveryStep, Asked
  <2> HIDE DEF seen
  <2>2. /\ rec'["main"].pend = R.pend /\ rec'["main"].subm = R.subm /\ rec'["main"].open = R.open
        /\ rec'["main"].buf = R.buf
    BY <2>1, <1>t DEF Recovery
  <2>. QED
    BY <2>1, <2>2, <1>t, <1>o, RunFrame
<1>9. CASE RecoveryRecords("main")
  <2>1. /\ R.step \in Asked
        /\ rec'["main"] = [R EXCEPT !.step = "settle", !.cur = NoOrder, !.buf = NoWrites]
    BY <1>9, <1>t DEF RecoveryRecords, RecoveryStep, Asked
  <2>2. /\ rec'["main"].pend = R.pend /\ rec'["main"].subm = R.subm /\ rec'["main"].open = R.open
        /\ rec'["main"].buf = NoWrites
    BY <2>1, <1>t DEF Recovery
  <2>. QED
    BY <2>1, <2>2, <1>a, <1>o, <1>s DEF RunTruth, NoWrites
<1>10. CASE FinishRecovery("main") \/ RecoveryFails("main")
  <2>1. rec'["main"] = IdleRun
    BY <1>10, <1>t DEF FinishRecovery, RecoveryFails, RecoveryStep, Abandon
  <2>. QED
    BY <2>1, <1>t, IdleTruth
<1>. QED
  BY <1>1, <1>2, <1>3, <1>4, <1>5, <1>6, <1>7, <1>8, <1>9, <1>10 DEF Recover

\* Without /reconcile the other run never starts.
LEMMA CommandRunIdle ==
    ASSUME TypeOK, [Next]_vars, ~Reconcile, rec["command"] = IdleRun
    PROVE  rec'["command"] = IdleRun
<1>t. rec \in [Runs -> Recovery] /\ "main" \in Runs /\ "command" \in Runs
  BY DEF TypeOK, Runs
<1>1. ASSUME NEW r \in Runs, Recover(r)
      PROVE  rec[r].step # "idle" /\ \A q \in Runs \ {r} : rec'[q] = rec[q]
  <2>1. ASSUME NEW from, NEW new, RecoveryStep(r, from, new), from # "idle"
        PROVE  rec[r].step # "idle" /\ \A q \in Runs \ {r} : rec'[q] = rec[q]
    BY <2>1, RunStepFrame DEF RecoveryStep
  <2>2. CASE RecoveryFails(r)
    BY <2>2, <1>t DEF RecoveryFails, Abandon
  <2>3. CASE ReadPending(r) \/ ReadSubmitted(r) \/ ReqOpenOrders(r) \/ SettlePending(r)
             \/ ReqExecutions(r)
    BY <2>1, <2>3 DEF ReadPending, ReadSubmitted, ReqOpenOrders, SettlePending, ReqExecutions
  <2>4. CASE RecoveryChecks(r) \/ RecoveryRecords(r) \/ FinishRecovery(r)
    BY <2>1, <2>4 DEF RecoveryChecks, RecoveryRecords, FinishRecovery
  <2>5. ASSUME NEW o \in Orders, StillOpen(r, o) \/ FoundFill(r, o) \/ NotFound(r, o)
        PROVE  rec[r].step # "idle" /\ \A q \in Runs \ {r} : rec'[q] = rec[q]
    BY <2>1, <2>5 DEF StillOpen, FoundFill, NotFound
  <2>. QED
    BY <1>1, <2>2, <2>3, <2>4, <2>5 DEF Recover
<1>2. ASSUME NEW r \in Runs, RecoveryLockTimeout(r)
      PROVE  rec[r].step # "idle" /\ \A q \in Runs \ {r} : rec'[q] = rec[q]
  BY <1>2, <1>t DEF RecoveryLockTimeout, Abandon
<1>3. rec["command"].step = "idle"
  BY DEF IdleRun
<1>4. Disconnect \/ Reconnect \/ Restart => rec'["command"] = rec["command"]
  BY <1>t DEF Disconnect, Abandon, Reconnect, Restart
<1>5. Crash => rec'["command"] = IdleRun
  BY <1>t DEF Crash
<1>. QED
  BY <1>1, <1>2, <1>3, <1>4, <1>5, <1>t, RecWriters

LEMMA RunsStep ==
    ASSUME BooksInv, Quiet, RunTruth("main"), rec["command"] = IdleRun, [Next]_vars, ~Reconcile,
           \A o \in Orders : pc[o] = "placing" => row[o] = "pending_submit"
    PROVE  RunTruth("main")' /\ rec'["command"] = IdleRun
<1>t. /\ rec \in [Runs -> Recovery] /\ "main" \in Runs /\ "command" \in Runs /\ TypeOK
      /\ Runs = {"main", "command"}
  BY DEF BooksInv, TypeOK, Runs
<1>1. rec'["command"] = IdleRun
  BY <1>t, CommandRunIdle
<1>o. rec["main"].pend \subseteq Orders /\ rec["main"].subm \subseteq Orders
  BY <1>t DEF Recovery
<1>2. CASE Recover("main")
  BY <1>1, <1>2, MainStep
<1>3. CASE rec'["main"] = rec["main"]
  BY <1>1, <1>3, <1>t, <1>o, RunFrame
<1>4. CASE rec'["main"] = IdleRun
  BY <1>1, <1>4, <1>t, IdleTruth
<1>5. CASE Reconnect \/ Restart
  <2>1. rec'["main"] = [rec["main"] EXCEPT !.step = "readPending"]
    BY <1>5, <1>t DEF Reconnect, Restart
  <2>2. /\ rec'["main"].pend = rec["main"].pend /\ rec'["main"].subm = rec["main"].subm
        /\ rec'["main"].buf = rec["main"].buf /\ rec'["main"].step \notin Asked
    BY <2>1, <1>t DEF Recovery, Asked
  <2>. QED
    BY <1>1, <2>2, <1>t, <1>o, RunFrame
<1>6. Recover("command") => FALSE
  BY DEF Recover, IdleRun, RecoveryStep, ReadPending, ReadSubmitted, ReqOpenOrders, SettlePending,
     ReqExecutions, StillOpen, FoundFill, NotFound, RecoveryChecks, RecoveryRecords, FinishRecovery,
     RecoveryFails
<1>7. ASSUME NEW r \in Runs, RecoveryLockTimeout(r) PROVE rec'["main"] \in {rec["main"], IdleRun}
  BY <1>7, <1>t DEF RecoveryLockTimeout, Abandon
<1>8. Disconnect \/ Crash => rec'["main"] = IdleRun
  BY <1>t DEF Disconnect, Abandon, Crash
<1>. QED
  BY <1>1, <1>2, <1>3, <1>4, <1>5, <1>6, <1>7, <1>8, <1>t, RecWriters

\* Rows and the orders behind them.
LEMMA RowTruthStep ==
    ASSUME BooksInv, TaskTruth, RunTruth("main"), rec["command"] = IdleRun, [Next]_vars,
           \A o \in Orders : pc[o] = "placing" => row[o] = "pending_submit",
           \A o \in Orders : row[o] \in {"repriced", "cancelled"} => Ending(o),
           NEW x \in Orders
    PROVE  /\ pc'[x] = "placing" => row'[x] = "pending_submit"
           /\ row'[x] \in {"repriced", "cancelled"} => Ending(x)'
<1>t. /\ row \in [Orders -> Status] /\ TypeOK /\ pc \in [Orders -> Steps]
      /\ live \in [Orders -> {"absent", "working", "cancelled", "filled"}]
      /\ "main" \in Runs /\ Runs = {"main", "command"}
  BY DEF BooksInv, TypeOK, Runs
<1>e. Ending(x) => Ending(x)'
  BY <1>t, EndingStays
<1>1. CASE row'[x] = row[x]
  <2>1. pc'[x] = "placing" => row'[x] = "pending_submit"
    BY <1>1, <1>t, PlacingFresh
  <2>. QED
    BY <2>1, <1>1, <1>e
<1>2. ASSUME NEW r \in Runs, RecoveryRecords(r) \/ FinishRecovery(r)
      PROVE  \/ row'[x] = row[x]
             \/ Past(x) /\ (row'[x] = "cancelled" => Ending(x)) /\ row'[x] # "repriced"
  <2>1. r = "main"
    BY <1>2, <1>t DEF RecoveryRecords, FinishRecovery, RecoveryStep, IdleRun
  <2>2. \/ Committed(r)[x] = row[x]
        \/ /\ Past(x) /\ (Committed(r)[x] = "cancelled" => Ending(x))
           /\ Committed(r)[x] # "repriced"
    <3>1. rec[r].buf[x] \in {"keep", "submitted", "cancelled"}
      BY <1>t DEF TypeOK, Recovery
    <3>. QED
      BY <3>1, <2>1 DEF Committed, RunTruth, Ending
  <2>3. CASE FinishRecovery(r)
    BY <2>2, <2>3 DEF FinishRecovery
  <2>4. CASE RecoveryRecords(r)
    <3>1. /\ rec[r].cur \in Orders /\ live[rec[r].cur] = "filled"
          /\ row' = [Committed(r) EXCEPT ![rec[r].cur] = "filled"]
      BY <2>4 DEF RecoveryRecords, RecoveryStep, BooksInv, RunEvidence
    <3>2. CASE x = rec[r].cur
      <4>1. Past(x)
        BY <3>1, <3>2 DEF BooksInv, TaskEvidence, WriteAhead, Past
      <4>2. row'[x] = "filled"
        BY <3>1, <3>2, CommittedType, <1>t
      <4>. QED
        BY <4>1, <4>2
    <3>3. CASE x # rec[r].cur
      BY <2>2, <3>1, <3>3, CommittedType, <1>t
    <3>. QED
      BY <3>2, <3>3
  <2>. QED
    BY <1>2, <2>3, <2>4
<1>3. ASSUME NEW r \in Runs, RecoveryRecords(r) \/ FinishRecovery(r)
      PROVE  /\ pc'[x] = "placing" => row'[x] = "pending_submit"
             /\ row'[x] \in {"repriced", "cancelled"} => Ending(x)'
  <2>1. CASE row'[x] = row[x]
    BY <2>1, <1>1
  <2>2. CASE Past(x) /\ (row'[x] = "cancelled" => Ending(x)) /\ row'[x] # "repriced"
    BY <2>2, <1>t, <1>e, PastStays DEF Past
  <2>. QED
    BY <1>2, <1>3, <2>1, <2>2
<1>4. ASSUME NEW o \in Orders, row'[x] # row[x],
             \/ PlaceFailed(o) \/ Ack(o) \/ SeeCancelled(o)
             \/ MarkRepriced(o) \/ Drop(o) \/ RecordFill(o)
      PROVE  /\ pc'[x] # "placing"
             /\ row'[x] \in {"repriced", "cancelled"} => Ending(x)
  <2>1. x = o
    BY <1>4, <1>t DEF PlaceFailed, Ack, SeeCancelled, MarkRepriced, Drop, RecordFill, SetRow
  <2>2. CASE PlaceFailed(o)
    BY <2>1, <2>2, <1>t DEF PlaceFailed, GoTo, Ending, Past, TaskTruth, BooksInv, TaskEvidence
  <2>3. CASE Ack(o)
    BY <2>1, <2>3, <1>t DEF Ack, GoTo, SetRow
  <2>4. CASE SeeCancelled(o)
    BY <2>1, <2>4, <1>t DEF SeeCancelled, GoTo, Ending, Past, TaskTruth, BooksInv, TaskEvidence
  <2>5. CASE MarkRepriced(o)
    BY <2>1, <2>5, <1>t DEF MarkRepriced, GoTo, Ending, Past, TaskTruth, BooksInv, TaskEvidence
  <2>6. CASE Drop(o)
    BY <2>1, <2>6, <1>t DEF Drop, GoTo, Ending, Past, TaskTruth, BooksInv, TaskEvidence
  <2>7. CASE RecordFill(o)
    BY <2>1, <2>7, <1>t DEF RecordFill, GoTo, SetRow
  <2>. QED
    BY <1>4, <2>2, <2>3, <2>4, <2>5, <2>6, <2>7
<1>5. ASSUME NEW o \in Orders, row'[x] # row[x], SubmitIntent(o) \/ \E n \in Orders : RetryIntent(n, o)
      PROVE  row'[x] = "pending_submit"
  BY <1>5, <1>t DEF SubmitIntent, RetryIntent, Intend, SetRow
<1>. QED
  BY <1>1, <1>3, <1>4, <1>5, <1>e, RowWriters

LEMMA WrittenOffStep ==
    BooksInv /\ WrittenOffInv /\ [Next]_vars => WrittenOffInv'
<1> SUFFICES ASSUME BooksInv, WrittenOffInv, [Next]_vars PROVE WrittenOffInv'
  OBVIOUS
<1>t. TypeOK
  BY DEF BooksInv
<1>1. Quiet' /\ TaskTruth'
  BY <1>t, QuietStep, TruthStep DEF WrittenOffInv
<1>2. ASSUME used'["reconcile"] = 0
      PROVE  /\ rec'["command"] = IdleRun
             /\ RunTruth("main")'
             /\ \A o \in Orders : pc'[o] = "placing" => row'[o] = "pending_submit"
             /\ \A o \in Orders : row'[o] \in {"repriced", "cancelled"} => Ending(o)'
  <2>1. used["reconcile"] = 0 /\ ~Reconcile
    BY <1>2, <1>t, NoReconcile
  <2>. QED
    BY <2>1, RunsStep, RowTruthStep DEF WrittenOffInv
<1>. QED
  BY <1>1, <1>2 DEF WrittenOffInv, IdleRun, NoWrites

LEMMA WrittenOffHolds == Spec => [](BooksInv /\ WrittenOffInv)
<1>1. Init => WrittenOffInv
  BY InitWrittenOff
<1>. QED
  BY <1>1, WrittenOffStep, BooksInductive, PTL DEF Spec

\* An order the bot writes off has ended or was asked to cancel, for any
\* number of orders, crashes, disconnects and lock timeouts.
THEOREM WrittenOff == Spec => []WrittenOffIsCancelled
<1>1. WrittenOffInv => WrittenOffIsCancelled
  BY DEF WrittenOffInv, WrittenOffIsCancelled, Ending
<1>. QED
  BY <1>1, WrittenOffHolds, PTL

-----------------------------------------------------------------------------
(***************************************************************************)
(* OneOrderAtWork.                                                         *)
(***************************************************************************)
\* The command, and whose proposal it is about.
LEMMA CmdWriters ==
    [Next]_vars =>
        /\ \/ UNCHANGED <<cmd, prop>>
           \/ \E p \in Proposals : Approve(p)
           \/ ApproveRefused \/ MarkApproved
           \/ \E o \in Orders : SubmitIntent(o) \/ PlaceFailed(o) \/ Ack(o) \/ TaskLockTimeout(o)
           \/ CommandLockTimeout \/ Crash
        /\ \/ UNCHANGED <<origin, attempt>>
           \/ \E o \in Orders : SubmitIntent(o) \/ \E n \in Orders : RetryIntent(o, n)
<1> USE DEF dbVars, taskVars, recVars, brokerVars, envVars
<1>1. ASSUME Command
      PROVE  /\ \/ UNCHANGED <<cmd, prop>>
                \/ \E p \in Proposals : Approve(p)
                \/ ApproveRefused \/ MarkApproved
                \/ \E o \in Orders : SubmitIntent(o)
             /\ UNCHANGED <<origin, attempt>> \/ \E o \in Orders : SubmitIntent(o)
  BY <1>1 DEF Command, Approve, ApproveRefused, MarkApproved, Reconcile
<1>2. ASSUME NEW o \in Orders, OrderTask(o)
      PROVE  /\ UNCHANGED <<cmd, prop>> \/ PlaceFailed(o) \/ Ack(o)
             /\ UNCHANGED <<origin, attempt>> \/ \E n \in Orders : RetryIntent(o, n)
  BY <1>2 DEF OrderTask, Place, PlaceFailed, Ack, SeeFilled, SeeCancelled, RepriceTimeout,
              MarkRepriced, RetryIntent, Intend, GiveUp, Drop, CheckRecorded, RecordFill
<1>3. ASSUME NEW r \in Runs, Recover(r) PROVE UNCHANGED <<cmd, prop, origin, attempt>>
  BY <1>3 DEF Recover, ReadPending, ReadSubmitted, ReqOpenOrders, SettlePending, ReqExecutions,
              StillOpen, FoundFill, NotFound, RecoveryChecks, RecoveryRecords, FinishRecovery,
              RecoveryFails
<1>4. ASSUME Fault \/ Environment
      PROVE  /\ \/ UNCHANGED <<cmd, prop>>
                \/ \E o \in Orders : TaskLockTimeout(o)
                \/ CommandLockTimeout \/ Crash
             /\ UNCHANGED <<origin, attempt>>
  BY <1>4 DEF Fault, TaskLockTimeout, CommandLockTimeout, RecoveryLockTimeout, Disconnect, Crash,
         Environment, BrokerFill, BrokerCancel, Deliver, SetGate, Reconnect, Restart
<1>. QED
  BY <1>1, <1>2, <1>3, <1>4 DEF Next, vars

\* A task begins with its order's row.
LEMMA TaskFresh ==
    ASSUME TypeOK, [Next]_vars, NEW x \in Orders
    PROVE  \/ SubmitIntent(x)
           \/ \E n \in Orders : RetryIntent(n, x)
           \/ /\ pc'[x] # "none" => pc[x] # "none"
              /\ MidSubmit(x)' => MidSubmit(x)
<1>t. pc \in [Orders -> Steps]
  BY DEF TypeOK
<1>1. ASSUME NEW o \in Orders, SubmitIntent(o), o # x PROVE pc'[x] = pc[x]
  BY <1>1, <1>t DEF SubmitIntent, GoTo
<1>2. ASSUME NEW o \in Orders, OrderTask(o), ~RetryIntent(o, x)
      PROVE  /\ pc'[x] # "none" => pc[x] # "none"
             /\ pc'[x] \in {"placing", "failed", "acking"} => pc[x] \in {"placing", "failed", "acking"}
  <2>1. ASSUME NEW n \in Orders, RetryIntent(o, n) PROVE pc'[x] \in {pc[x], "none"}
    BY <1>2, <2>1, <1>t DEF RetryIntent
  <2>2. CASE Place(o) \/ PlaceFailed(o) \/ Ack(o) \/ SeeFilled(o) \/ SeeCancelled(o)
    BY <2>2, <1>t DEF Place, PlaceFailed, Ack, SeeFilled, SeeCancelled, GoTo
  <2>3. CASE RepriceTimeout(o) \/ MarkRepriced(o) \/ GiveUp(o)
    BY <2>3, <1>t DEF RepriceTimeout, MarkRepriced, GiveUp, GoTo
  <2>4. CASE Drop(o) \/ CheckRecorded(o) \/ RecordFill(o)
    BY <2>4, <1>t DEF Drop, CheckRecorded, RecordFill, GoTo
  <2>. QED
    BY <1>2, <2>1, <2>2, <2>3, <2>4 DEF OrderTask
<1>3. ASSUME NEW o \in Orders, TaskLockTimeout(o) PROVE pc'[x] \in {pc[x], "none"}
  BY <1>3, <1>t DEF TaskLockTimeout, GoTo
<1>4. CASE Crash
  BY <1>4 DEF Crash, MidSubmit
<1>. QED
  BY <1>1, <1>2, <1>3, <1>4, PcWriters DEF MidSubmit

\* A task of the order runs, or it works at the broker and may go on doing so.
Busy(o) == pc[o] # "none" \/ (live[o] = "working" /\ o \notin cancelReq)

LEMMA BusyFresh ==
    ASSUME BooksInv, [Next]_vars, NEW x \in Orders,
           ~SubmitIntent(x), \A n \in Orders : ~RetryIntent(n, x)
    PROVE  /\ Busy(x)' => Busy(x)
           /\ MidSubmit(x)' => MidSubmit(x)
           /\ Busy(x) => origin'[x] = origin[x] /\ attempt'[x] = attempt[x]
<1>t. /\ TypeOK /\ origin \in [Orders -> Proposals \cup {NoProposal}]
      /\ attempt \in [Orders -> {"first", "retry"}]
  BY DEF BooksInv, TypeOK
<1>1. /\ pc'[x] # "none" => pc[x] # "none"
      /\ MidSubmit(x)' => MidSubmit(x)
  BY <1>t, TaskFresh
<1>2. Place(x) => pc[x] # "none"
  BY DEF Place
<1>3. Busy(x)' => Busy(x)
  BY <1>1, <1>2, <1>t, LiveStays, LiveWriters DEF Busy
<1>4. origin'[x] = origin[x] /\ attempt'[x] = attempt[x]
  <2>1. ASSUME NEW o \in Orders, SubmitIntent(o) PROVE origin'[x] = origin[x] /\ attempt'[x] = attempt[x]
    BY <2>1, <1>t DEF SubmitIntent, Intend
  <2>2. ASSUME NEW o \in Orders, NEW n \in Orders, RetryIntent(o, n)
        PROVE  origin'[x] = origin[x] /\ attempt'[x] = attempt[x]
    BY <2>2, <1>t DEF RetryIntent, Intend
  <2>. QED
    BY <2>1, <2>2, CmdWriters
<1>. QED
  BY <1>1, <1>3, <1>4

\* While nothing crashes and no write fails.
OneInv ==
    /\ \A o, n \in Orders : Busy(o) /\ Busy(n) /\ origin[o] = origin[n] => o = n
    /\ \A o \in Orders : Busy(o) =>
         /\ origin[o] \in Proposals
         /\ \/ prop[origin[o]] = "approved"
            \/ cmd.step \in {"submitting", "approving"} /\ cmd.prop = origin[o]
    /\ cmd.step # "idle" => cmd.prop \in Proposals /\ prop[cmd.prop] = "pending"
    /\ \A o \in Orders : MidSubmit(o) /\ attempt[o] = "first" =>
         cmd.step = "submitting" /\ cmd.prop = origin[o]

LEMMA OneStep ==
    ASSUME BooksInv, TaskTruth, OneInv, [Next]_vars,
           ~Crash, ~CommandLockTimeout, \A o \in Orders : ~TaskLockTimeout(o)
    PROVE  OneInv'
<1>t. /\ TypeOK /\ origin \in [Orders -> Proposals \cup {NoProposal}]
      /\ attempt \in [Orders -> {"first", "retry"}] /\ pc \in [Orders -> Steps]
      /\ prop \in [Proposals -> {"pending", "approved"}]
      /\ cmd \in [step : {"idle", "building", "submitting", "approving"},
                  prop : Proposals \cup {NoProposal}]
  BY DEF BooksInv, TypeOK
<1>r. \A x \in Orders : Busy(x) => row[x] # "none"
  BY DEF BooksInv, TaskEvidence, WriteAhead, Busy
<1>m. \A x \in Orders : MidSubmit(x) => Busy(x)
  BY DEF MidSubmit, Busy
<1> DEFINE Intends == \E x \in Orders : SubmitIntent(x) \/ \E n \in Orders : RetryIntent(n, x)
<1>f. ASSUME ~Intends
      PROVE  \A x \in Orders :
               /\ Busy(x)' => Busy(x)
               /\ Busy(x) => origin'[x] = origin[x] /\ attempt'[x] = attempt[x]
               /\ MidSubmit(x)' => MidSubmit(x)
  BY <1>f, BusyFresh
<1>1. CASE ~Intends /\ UNCHANGED <<cmd, prop>>
  BY <1>1, <1>f, <1>m DEF OneInv
<1>2. ASSUME NEW p \in Proposals, Approve(p), ~Intends PROVE OneInv'
  BY <1>2, <1>f, <1>m, <1>t DEF OneInv, Approve, IdleCmd, dbVars
<1>3. CASE ApproveRefused /\ ~Intends
  BY <1>3, <1>f, <1>m, <1>t DEF OneInv, ApproveRefused, IdleCmd, dbVars
<1>4. CASE MarkApproved /\ ~Intends
  <2>1. /\ cmd.step = "approving" /\ cmd.prop \in Proposals /\ cmd' = IdleCmd
        /\ prop' = [prop EXCEPT ![cmd.prop] = "approved"]
    BY <1>4 DEF MarkApproved, OneInv
  <2>2. \A q \in Proposals : prop[q] = "approved" \/ q = cmd.prop => prop'[q] = "approved"
    BY <2>1, <1>t
  <2>. QED
    BY <1>4, <1>f, <1>m, <2>1, <2>2 DEF OneInv, IdleCmd
<1>5. ASSUME NEW o \in Orders, PlaceFailed(o), ~Intends PROVE OneInv'
  <2>1. /\ pc[o] = "failed" /\ pc' = [pc EXCEPT ![o] = "none"] /\ live[o] = "absent"
        /\ UNCHANGED <<live, prop, attempt>>
        /\ cmd' = IF attempt[o] = "first" THEN IdleCmd ELSE cmd
    BY <1>5 DEF PlaceFailed, GoTo, TaskTruth, brokerVars
  <2>2. ~Busy(o)'
    BY <2>1, <1>t DEF Busy
  <2>3. CASE attempt[o] = "first"
    <3>1. cmd.step = "submitting" /\ cmd.prop = origin[o] /\ Busy(o)
      BY <2>1, <2>3, <1>m DEF OneInv, MidSubmit
    <3>2. \A x \in Orders : Busy(x)' => prop[origin[x]] = "approved"
      BY <3>1, <2>2, <1>5, <1>f DEF OneInv
    <3>3. \A x \in Orders : ~(MidSubmit(x)' /\ attempt'[x] = "first")
      <4>1. ASSUME NEW x \in Orders, MidSubmit(x)', attempt'[x] = "first" PROVE FALSE
        <5>1. Busy(x)' /\ MidSubmit(x) /\ attempt[x] = "first"
          BY <4>1, <2>1, <1>5, <1>f DEF Busy, MidSubmit
        <5>2. origin[x] = origin[o] /\ Busy(x)
          BY <5>1, <3>1, <1>m DEF OneInv
        <5>. QED
          BY <5>1, <5>2, <3>1, <2>2 DEF OneInv
      <4>. QED
        BY <4>1
    <3>. QED
      BY <1>5, <1>f, <2>1, <2>3, <3>2, <3>3 DEF OneInv, IdleCmd
  <2>4. CASE attempt[o] # "first"
    BY <1>5, <1>f, <1>m, <2>1, <2>4 DEF OneInv
  <2>. QED
    BY <2>3, <2>4
<1>6. ASSUME NEW o \in Orders, Ack(o), ~Intends PROVE OneInv'
  <2>1. /\ pc[o] = "acking" /\ pc'[o] \in {"polling", "retrying"} /\ UNCHANGED <<prop, attempt>>
        /\ \/ attempt[o] # "first" /\ UNCHANGED cmd
           \/ attempt[o] = "first" /\ cmd' = [cmd EXCEPT !.step = "approving"]
    BY <1>6, <1>t DEF Ack, GoTo
  <2>2. CASE attempt[o] = "first"
    <3>1. /\ cmd.step = "submitting" /\ cmd.prop = origin[o] /\ Busy(o)
          /\ cmd'.step = "approving" /\ cmd'.prop = cmd.prop
      BY <2>1, <2>2, <1>m, <1>t DEF OneInv, MidSubmit
    <3>3. \A x \in Orders : ~(MidSubmit(x)' /\ attempt'[x] = "first")
      <4>1. ASSUME NEW x \in Orders, MidSubmit(x)', attempt'[x] = "first" PROVE FALSE
        <5>1. MidSubmit(x) /\ attempt[x] = "first" /\ x # o
          BY <4>1, <2>1, <1>6, <1>f DEF MidSubmit
        <5>2. origin[x] = origin[o] /\ Busy(x)
          BY <5>1, <3>1, <1>m DEF OneInv
        <5>. QED
          BY <5>1, <5>2, <3>1 DEF OneInv
      <4>. QED
        BY <4>1
    <3>. QED
      BY <1>6, <1>f, <2>1, <3>1, <3>3 DEF OneInv
  <2>3. CASE attempt[o] # "first"
    BY <1>6, <1>f, <1>m, <2>1, <2>3 DEF OneInv
  <2>. QED
    BY <2>2, <2>3
<1>7. ASSUME NEW o \in Orders, SubmitIntent(o) PROVE OneInv'
  <2>1. /\ cmd.step = "building" /\ cmd'.step = "submitting" /\ cmd'.prop = cmd.prop
        /\ row[o] = "none" /\ origin' = [origin EXCEPT ![o] = cmd.prop]
        /\ attempt' = [attempt EXCEPT ![o] = "first"] /\ pc' = [pc EXCEPT ![o] = "placing"]
        /\ UNCHANGED <<live, cancelReq, prop>>
    BY <1>7, <1>t DEF SubmitIntent, Intend, GoTo, brokerVars
  <2>2. ASSUME NEW x \in Orders, x # o
        PROVE  /\ Busy(x)' <=> Busy(x)
               /\ MidSubmit(x)' <=> MidSubmit(x)
               /\ origin'[x] = origin[x] /\ attempt'[x] = attempt[x]
    BY <2>1, <2>2, <1>t DEF Busy, MidSubmit
  <2>3. \A x \in Orders : Busy(x) => x # o /\ origin[x] # cmd.prop /\ prop[origin[x]] = "approved"
    BY <2>1, <1>r DEF OneInv
  <2>4. origin'[o] = cmd.prop /\ cmd.prop \in Proposals /\ prop[cmd.prop] = "pending"
    BY <2>1, <1>t DEF OneInv
  <2>5. \A x \in Orders : x # o => ~(MidSubmit(x) /\ attempt[x] = "first")
    BY <2>1 DEF OneInv
  <2>. QED
    BY <2>1, <2>2, <2>3, <2>4, <2>5 DEF OneInv
<1>8. ASSUME NEW n \in Orders, NEW o \in Orders, RetryIntent(n, o) PROVE OneInv'
  <2>1. /\ pc[n] = "repricing" /\ n \in cancelReq /\ row[o] = "none" /\ n # o
        /\ origin' = [origin EXCEPT ![o] = origin[n]] /\ Busy(n)
        /\ attempt' = [attempt EXCEPT ![o] = "retry"]
        /\ pc' = [pc EXCEPT ![n] = "none", ![o] = "placing"]
        /\ UNCHANGED <<live, cancelReq, prop, cmd>>
    BY <1>8, <1>t DEF RetryIntent, Intend, brokerVars, TaskTruth, BooksInv, TaskEvidence, Busy
  <2>2. ASSUME NEW x \in Orders, x # o
        PROVE  /\ Busy(x)' => Busy(x) /\ x # n
               /\ MidSubmit(x)' => MidSubmit(x)
               /\ origin'[x] = origin[x] /\ attempt'[x] = attempt[x]
    BY <2>1, <2>2, <1>t DEF Busy, MidSubmit
  <2>3. \A x \in Orders : x # o /\ Busy(x)' => origin[x] # origin[n]
    BY <2>1, <2>2 DEF OneInv
  <2>4. origin'[o] = origin[n] /\ attempt'[o] = "retry"
    BY <2>1, <1>t
  <2>. QED
    BY <2>1, <2>2, <2>3, <2>4 DEF OneInv
<1>. QED
  BY <1>1, <1>2, <1>3, <1>4, <1>5, <1>6, <1>7, <1>8, CmdWriters

\* While neither a crash nor a lock timeout is counted, none happens.
LEMMA NoLoss ==
    ASSUME TypeOK, [Next]_vars, used'["crash"] + used'["lockTimeout"] = 0
    PROVE  /\ used["crash"] + used["lockTimeout"] = 0
           /\ ~Crash /\ ~CommandLockTimeout /\ \A o \in Orders : ~TaskLockTimeout(o)
<1>1. "crash" \in Faults /\ "lockTimeout" \in Faults
  BY DEF Faults
<1>2. used \in [Faults -> Nat]
  BY DEF TypeOK
<1>3. ASSUME NEW f \in Faults, Spend(f)
      PROVE  used'["crash"] = 0 /\ used'["lockTimeout"] = 0
  <2>1. used' \in [Faults -> Nat]
    BY <1>2, <1>3 DEF Spend
  <2>. QED
    BY <1>1, <2>1
<1>4. ASSUME NEW f \in Faults, Spend(f)
      PROVE  /\ used["crash"] = 0 /\ used["lockTimeout"] = 0
             /\ f # "crash" /\ f # "lockTimeout"
  BY <1>1, <1>3, <1>4, SpentStays
<1>5. ~Crash /\ ~CommandLockTimeout /\ \A o \in Orders : ~TaskLockTimeout(o)
  BY <1>1, <1>4 DEF Crash, CommandLockTimeout, TaskLockTimeout
<1>. QED
  BY <1>4, <1>5, UsedWriters

LEMMA OneHolds ==
    Spec => [](BooksInv /\ WrittenOffInv /\ (used["crash"] + used["lockTimeout"] = 0 => OneInv))
<1>1. Init => OneInv
  BY DEF Init, OneInv, Busy, MidSubmit, IdleCmd
<1>2. BooksInv /\ WrittenOffInv /\ (used["crash"] + used["lockTimeout"] = 0 => OneInv)
        /\ [Next]_vars
      => (used["crash"] + used["lockTimeout"] = 0 => OneInv)'
  <2>1. BooksInv /\ WrittenOffInv => TypeOK /\ TaskTruth
    BY DEF BooksInv, WrittenOffInv
  <2>. QED
    BY <2>1, NoLoss, OneStep
<1>. QED
  BY <1>1, <1>2, WrittenOffHolds, PTL DEF Spec

\* However often a proposal is submitted and its order repriced, one of its
\* orders works at the broker at a time, if nothing crashed and no write failed.
THEOREM OneAtWork == Spec => []OneOrderAtWork
<1>1. ASSUME BooksInv, OneInv, NEW p \in Proposals
      PROVE  Cardinality({o \in Orders : /\ origin[o] = p
                                         /\ live[o] = "working"
                                         /\ o \notin cancelReq}) <= 1
  <2> DEFINE S == {o \in Orders : origin[o] = p /\ live[o] = "working" /\ o \notin cancelReq}
  <2>1. \A o, n \in S : o = n
    BY <1>1 DEF OneInv, Busy
  <2>2. CASE S = {}
    BY <2>2, FS_EmptySet
  <2>3. ASSUME NEW o \in S PROVE Cardinality(S) <= 1
    <3>1. S = {o}
      BY <2>1, <2>3
    <3>2. Cardinality({o}) = 1
      BY FS_Singleton
    <3>. QED
      BY <3>1, <3>2
  <2>. QED
    BY <2>2, <2>3
<1>2. BooksInv /\ (used["crash"] + used["lockTimeout"] = 0 => OneInv) => OneOrderAtWork
  BY <1>1 DEF OneOrderAtWork
<1>. QED
  BY <1>2, OneHolds, PTL

-----------------------------------------------------------------------------
(***************************************************************************)
(* The refinement of FillLedger, as long as recovery has only run at       *)
(* startup: no disconnect and no /reconcile so far (Serial).               *)
(***************************************************************************)
\* Recovery and the monitors never run at the same time.
Apart ==
    /\ rec["command"] = IdleRun
    /\ phase \in {"running", "down"} => rec["main"] = IdleRun
    /\ phase # "down" => connected

\* A booked order has one trade and no task left.
BookedOnce ==
    \A o \in Orders :
        /\ trades[o] = IF row[o] = "filled" THEN 1 ELSE 0
        /\ row[o] = "filled" => pc[o] = "none"

\* Startup recovery has no booked order among those it works on.
Unbooked ==
    LET R == rec["main"]
    IN  /\ R.step = "readPending" => R.pend = {}
        /\ R.step \in {"readPending", "readSubmitted"} => R.subm = {} /\ R.buf = NoWrites
        /\ R.step = "readSubmitted" => \A o \in R.pend : row[o] = "pending_submit"
        /\ \A o \in R.pend \cup R.subm : row[o] # "filled"
        /\ \A o \in Orders : R.buf[o] # "keep" => row[o] # "filled"
        /\ \A o \in R.subm : o \notin R.pend /\ R.buf[o] = "keep"
        /\ R.step \in {"checking", "recording"} =>
             /\ R.cur \in Orders /\ R.cur \notin R.pend \cup R.subm
             /\ R.buf[R.cur] = "keep" /\ row[R.cur] # "filled"

LedgerInv == Apart /\ BookedOnce /\ Unbooked

LEMMA InitLedger == Init => LedgerInv
<1> SUFFICES ASSUME Init PROVE LedgerInv
  OBVIOUS
<1>1. rec["main"] = IdleRun /\ rec["command"] = IdleRun
  BY DEF Init, Runs
<1>2. Unbooked
  BY <1>1 DEF Unbooked, IdleRun, NoWrites
<1>. QED
  BY <1>1, <1>2 DEF Init, LedgerInv, Apart, BookedOnce

LEMMA NoDisconnect ==
    ASSUME TypeOK, [Next]_vars, used'["disconnect"] = 0
    PROVE  used["disconnect"] = 0 /\ ~Disconnect
<1>1. "disconnect" \in Faults
  BY DEF Faults
<1>2. ~Disconnect
  BY <1>1, SpentStays DEF Disconnect
<1>. QED
  BY <1>1, <1>2, SpentStays, UsedWriters

LEMMA NoRace ==
    ASSUME TypeOK, [Next]_vars, Serial'
    PROVE  Serial /\ ~Disconnect /\ ~Reconcile
<1>1. used'["disconnect"] = 0 /\ used'["reconcile"] = 0
  BY DEF Serial
<1>. QED
  BY <1>1, NoDisconnect, NoReconcile DEF Serial

LEMMA IdleUnbooked ==
    ASSUME rec'["main"] = IdleRun
    PROVE  Unbooked'
  BY DEF Unbooked, IdleRun, NoWrites

\* When startup recovery runs, it alone writes rows and nothing writes tasks.
LEMMA StartingAlone ==
    ASSUME TypeOK, Quiet, Apart, [Next]_vars, rec["main"] # IdleRun
    PROVE  /\ phase # "running" /\ \A o \in Orders : pc[o] = "none" /\ pc'[o] = "none"
           /\ UNCHANGED <<row, trades>> \/ RecoveryRecords("main") \/ FinishRecovery("main")
<1>1. phase # "running" /\ cmd = IdleCmd /\ \A o \in Orders : pc[o] = "none"
  BY DEF Apart, Quiet
<1>2. ASSUME NEW o \in Orders PROVE ~SubmitIntent(o) /\ ~OrderTask(o) /\ ~TaskLockTimeout(o)
  BY <1>1, <1>2 DEF SubmitIntent, IdleCmd, OrderTask, Place, PlaceFailed, Ack, SeeFilled, SeeCancelled,
     RepriceTimeout, MarkRepriced, RetryIntent, GiveUp, Drop, CheckRecorded, RecordFill,
     TaskLockTimeout, WantsToWrite
<1>3. \A o \in Orders : pc'[o] = "none"
  BY <1>1, <1>2, PcWriters DEF Crash
<1>4. ASSUME NEW r \in Runs, RecoveryRecords(r) \/ FinishRecovery(r) PROVE r = "main"
  BY <1>4 DEF Apart, IdleRun, RecoveryRecords, FinishRecovery, RecoveryStep, Runs
<1>5. \A o, n \in Orders : ~PlaceFailed(o) /\ ~Ack(o) /\ ~SeeCancelled(o) /\ ~MarkRepriced(o) /\ ~Drop(o)
                           /\ ~RecordFill(o) /\ ~RetryIntent(o, n)
  BY <1>2 DEF OrderTask
<1>6. UNCHANGED row \/ RecoveryRecords("main") \/ FinishRecovery("main")
  BY <1>2, <1>4, <1>5, RowWriters
<1>7. UNCHANGED trades \/ \E r \in Runs : RecoveryRecords(r)
  <2> USE DEF dbVars, taskVars, recVars, brokerVars, envVars
  <2>1. Command => UNCHANGED trades
    BY <1>2 DEF Command, Approve, ApproveRefused, MarkApproved, Reconcile
  <2>2. ASSUME NEW r \in Runs, Recover(r) PROVE UNCHANGED trades \/ RecoveryRecords(r)
    BY <2>2 DEF Recover, ReadPending, ReadSubmitted, ReqOpenOrders, SettlePending, ReqExecutions,
              StillOpen, FoundFill, NotFound, RecoveryChecks, FinishRecovery, RecoveryFails
  <2>3. Fault \/ Environment => UNCHANGED trades
    BY DEF Fault, TaskLockTimeout, CommandLockTimeout, RecoveryLockTimeout, Disconnect, Crash,
         Environment, BrokerFill, BrokerCancel, Deliver, SetGate, Reconnect, Restart
  <2>. QED
    BY <1>2, <2>1, <2>2, <2>3 DEF Next, vars
<1>8. FinishRecovery("main") => UNCHANGED trades
  BY DEF FinishRecovery
<1>9. ASSUME RecoveryRecords("main"), FinishRecovery("main") PROVE FALSE
  BY <1>9 DEF RecoveryRecords, FinishRecovery, RecoveryStep
<1>. QED
  BY <1>1, <1>3, <1>4, <1>6, <1>7, <1>8, <1>9

LEMMA ApartStep ==
    ASSUME TypeOK, Quiet, Apart, [Next]_vars, ~Disconnect, ~Reconcile
    PROVE  Apart'
<1>t. rec \in [Runs -> Recovery] /\ "main" \in Runs /\ Runs = {"main", "command"}
      /\ phase \in {"down", "starting", "running"}
  BY DEF TypeOK, Runs
<1>1. rec'["command"] = IdleRun
  BY CommandRunIdle DEF Apart
<1> USE DEF dbVars, taskVars, recVars, brokerVars, envVars
<1>2. \/ UNCHANGED <<phase, connected>>
      \/ Crash \/ Restart \/ Reconnect
      \/ \E r \in Runs : FinishRecovery(r)
  <2>1. Command => UNCHANGED <<phase, connected>>
    BY DEF Command, Approve, ApproveRefused, SubmitIntent, MarkApproved, Reconcile
  <2>2. ASSUME NEW o \in Orders, OrderTask(o) PROVE UNCHANGED <<phase, connected>>
    BY <2>2 DEF OrderTask, Place, PlaceFailed, Ack, SeeFilled, SeeCancelled, RepriceTimeout,
                MarkRepriced, RetryIntent, GiveUp, Drop, CheckRecorded, RecordFill
  <2>3. ASSUME NEW r \in Runs, Recover(r) PROVE UNCHANGED <<phase, connected>> \/ FinishRecovery(r)
    BY <2>3 DEF Recover, ReadPending, ReadSubmitted, ReqOpenOrders, SettlePending, ReqExecutions,
                StillOpen, FoundFill, NotFound, RecoveryChecks, RecoveryRecords, RecoveryFails
  <2>4. Fault => UNCHANGED <<phase, connected>> \/ Crash
    BY DEF Fault, TaskLockTimeout, CommandLockTimeout, RecoveryLockTimeout
  <2>5. Environment => UNCHANGED <<phase, connected>> \/ Reconnect \/ Restart
    BY DEF Environment, BrokerFill, BrokerCancel, Deliver, SetGate
  <2>. QED
    BY <2>1, <2>2, <2>3, <2>4, <2>5 DEF Next, vars
<1>3. ~Reconnect
  BY DEF Apart, Reconnect
<1>4. CASE Crash
  BY <1>4, <1>1, <1>t DEF Crash, Apart
<1>5. CASE Restart
  BY <1>5, <1>1, <1>t DEF Restart, Apart
<1>6. ASSUME NEW r \in Runs, FinishRecovery(r) PROVE Apart'
  <2>1. r = "main" /\ phase # "down"
    BY <1>6, <1>t DEF FinishRecovery, RecoveryStep, Apart, IdleRun
  <2>2. rec'["main"] = IdleRun /\ connected' = connected
    BY <2>1, <1>6, <1>t DEF FinishRecovery, RecoveryStep
  <2>. QED
    BY <2>1, <2>2, <1>1 DEF Apart
<1>7. CASE UNCHANGED <<phase, connected>> /\ ~Crash /\ ~Restart
  <2>1. CASE rec["main"] # IdleRun
    BY <2>1, <1>7, <1>1, <1>t DEF Apart
  <2>2. CASE rec["main"] = IdleRun
    <3>1. ~Recover("main")
      BY <2>2 DEF Recover, IdleRun, RecoveryStep, ReadPending, ReadSubmitted, ReqOpenOrders,
         SettlePending, ReqExecutions, StillOpen, FoundFill, NotFound, RecoveryChecks, RecoveryRecords,
         FinishRecovery, RecoveryFails
    <3>2. ~Recover("command")
      BY DEF Apart, Recover, IdleRun, RecoveryStep, ReadPending, ReadSubmitted, ReqOpenOrders,
         SettlePending, ReqExecutions, StillOpen, FoundFill, NotFound, RecoveryChecks, RecoveryRecords,
         FinishRecovery, RecoveryFails
    <3>3. ASSUME NEW r \in Runs, RecoveryLockTimeout(r) PROVE rec'["main"] = IdleRun
      BY <2>2, <3>3, <1>t DEF RecoveryLockTimeout, Abandon
    <3>4. rec'["main"] = IdleRun
      BY <1>3, <1>7, <1>t, <2>2, <3>1, <3>2, <3>3, RecWriters
    <3>. QED
      BY <3>4, <1>1, <1>7 DEF Apart
  <2>. QED
    BY <2>1, <2>2
<1>. QED
  BY <1>2, <1>3, <1>4, <1>5, <1>6, <1>7

\* A run's commit leaves booked rows booked and books nothing.
LEMMA CommitBooks ==
    ASSUME TypeOK, Unbooked, NEW x \in Orders
    PROVE  Committed("main")[x] = "filled" <=> row[x] = "filled"
<1>1. rec["main"] \in Recovery
  BY DEF TypeOK, Runs
<1>. QED
  BY <1>1 DEF Committed, Unbooked, Recovery

\* What a monitor does to the books of its order.
LEMMA TaskBooks ==
    ASSUME BooksInv, BookedOnce, NEW o \in Orders, NEW x \in Orders,
           OrderTask(o) \/ SubmitIntent(o)
    PROVE  /\ trades'[x] = IF row'[x] = "filled" THEN 1 ELSE 0
           /\ row'[x] = "filled" => row[x] = "filled" \/ (x = o /\ RecordFill(o))
           /\ row[x] = "filled" => row'[x] = "filled"
           /\ row'[x] = "filled" => pc'[x] = "none"
<1>t. /\ row \in [Orders -> Status] /\ pc \in [Orders -> Steps] /\ trades \in [Orders -> Nat]
  BY DEF BooksInv, TypeOK
<1>a. \A y \in Orders :
         /\ trades[y] = IF row[y] = "filled" THEN 1 ELSE 0
         /\ row[y] = "filled" => pc[y] = "none"
         /\ pc[y] # "none" => row[y] # "none"
  BY DEF BookedOnce, BooksInv, TaskEvidence
<1>1. CASE SubmitIntent(o)
  BY <1>1, <1>t, <1>a DEF SubmitIntent, Intend, SetRow, GoTo
<1>2. ASSUME NEW n \in Orders, RetryIntent(o, n)
      PROVE  /\ trades'[x] = IF row'[x] = "filled" THEN 1 ELSE 0
             /\ row'[x] = "filled" <=> row[x] = "filled"
             /\ row'[x] = "filled" => pc'[x] = "none"
  BY <1>2, <1>t, <1>a DEF RetryIntent, Intend, SetRow
<1>3. CASE Place(o) \/ SeeFilled(o) \/ RepriceTimeout(o) \/ GiveUp(o) \/ CheckRecorded(o)
  BY <1>3, <1>t, <1>a DEF Place, SeeFilled, RepriceTimeout, GiveUp, CheckRecorded, GoTo, dbVars
<1>4. CASE PlaceFailed(o) \/ Ack(o) \/ SeeCancelled(o)
  BY <1>4, <1>t, <1>a DEF PlaceFailed, Ack, SeeCancelled, GoTo, SetRow
<1>5. CASE MarkRepriced(o) \/ Drop(o)
  BY <1>5, <1>t, <1>a DEF MarkRepriced, Drop, GoTo, SetRow
<1>6. CASE RecordFill(o)
  BY <1>6, <1>t, <1>a DEF RecordFill, GoTo, SetRow
<1>. QED
  BY <1>1, <1>2, <1>3, <1>4, <1>5, <1>6 DEF OrderTask

\* Every step that touches the books is of one of three kinds.
LEMMA BooksWriters ==
    ASSUME [Next]_vars
    PROVE  \/ UNCHANGED <<row, trades>>
           \/ \E o \in Orders : SubmitIntent(o) \/ OrderTask(o)
           \/ \E r \in Runs : RecoveryRecords(r) \/ FinishRecovery(r)
<1> USE DEF dbVars, taskVars, recVars, brokerVars, envVars
<1>1. Command => UNCHANGED <<row, trades>> \/ \E o \in Orders : SubmitIntent(o)
  BY DEF Command, Approve, ApproveRefused, MarkApproved, Reconcile
<1>2. ASSUME NEW r \in Runs, Recover(r)
      PROVE  UNCHANGED <<row, trades>> \/ RecoveryRecords(r) \/ FinishRecovery(r)
  BY <1>2 DEF Recover, ReadPending, ReadSubmitted, ReqOpenOrders, SettlePending, ReqExecutions,
              StillOpen, FoundFill, NotFound, RecoveryChecks, RecoveryFails
<1>3. Fault \/ Environment => UNCHANGED <<row, trades>>
  BY DEF Fault, TaskLockTimeout, CommandLockTimeout, RecoveryLockTimeout, Disconnect, Crash,
         Environment, BrokerFill, BrokerCancel, Deliver, SetGate, Reconnect, Restart
<1>. QED
  BY <1>1, <1>2, <1>3 DEF Next, vars

LEMMA BookedStep ==
    ASSUME BooksInv, Quiet, LedgerInv, [Next]_vars
    PROVE  BookedOnce'
<1> SUFFICES ASSUME NEW x \in Orders
             PROVE  /\ trades'[x] = IF row'[x] = "filled" THEN 1 ELSE 0
                    /\ row'[x] = "filled" => pc'[x] = "none"
  BY DEF BookedOnce
<1>t. /\ row \in [Orders -> Status] /\ trades \in [Orders -> Nat] /\ TypeOK
      /\ Apart /\ BookedOnce /\ Unbooked
  BY DEF BooksInv, TypeOK, LedgerInv
<1>a. /\ trades[x] = IF row[x] = "filled" THEN 1 ELSE 0
      /\ row[x] = "filled" => pc[x] = "none"
  BY <1>t DEF BookedOnce
<1>1. CASE UNCHANGED <<row, trades>>
  <2>1. row[x] = "filled" => pc'[x] = "none"
    BY <1>a, <1>t, TaskFresh DEF SubmitIntent, RetryIntent, Intend
  <2>. QED
    BY <2>1, <1>1, <1>a
<1>2. ASSUME NEW o \in Orders, SubmitIntent(o) \/ OrderTask(o)
      PROVE  /\ trades'[x] = IF row'[x] = "filled" THEN 1 ELSE 0
             /\ row'[x] = "filled" => pc'[x] = "none"
  BY <1>2, <1>t, TaskBooks
<1>3. ASSUME NEW r \in Runs, RecoveryRecords(r) \/ FinishRecovery(r)
      PROVE  /\ trades'[x] = IF row'[x] = "filled" THEN 1 ELSE 0
             /\ row'[x] = "filled" => pc'[x] = "none"
  <2>1. r = "main" /\ rec["main"] # IdleRun
    BY <1>3, <1>t DEF Apart, IdleRun, RecoveryRecords, FinishRecovery, RecoveryStep, Runs
  <2>2. pc'[x] = "none"
    BY <2>1, <1>t, StartingAlone DEF BooksInv
  <2>3. CASE FinishRecovery("main")
    BY <2>2, <2>3, <1>t, <1>a, CommitBooks DEF FinishRecovery
  <2>4. CASE RecoveryRecords("main")
    <3> DEFINE c == rec["main"].cur
    <3>1. /\ c \in Orders /\ row[c] # "filled"
          /\ trades' = [trades EXCEPT ![c] = trades[c] + 1]
          /\ row' = [Committed("main") EXCEPT ![c] = "filled"]
      BY <2>4, <1>t DEF RecoveryRecords, RecoveryStep, Unbooked
    <3> HIDE DEF c
    <3>2. trades[c] = 0
      BY <3>1, <1>t DEF BookedOnce
    <3>3. CASE x = c
      <4>1. row'[x] = "filled"
        BY <3>1, <3>3, CommittedType, <1>t DEF Runs
      <4>2. trades'[x] = 1
        BY <3>1, <3>2, <3>3, <1>t
      <4>. QED
        BY <4>1, <4>2, <2>2
    <3>4. CASE x # c
      BY <3>1, <3>4, <2>2, CommitBooks, <1>t, <1>a
    <3>. QED
      BY <3>3, <3>4
  <2>. QED
    BY <1>3, <2>1, <2>3, <2>4
<1>. QED
  BY <1>1, <1>2, <1>3, BooksWriters

LEMMA MainUnbooked ==
    ASSUME TypeOK, Unbooked, Recover("main")
    PROVE  Unbooked'
<1> DEFINE R == rec["main"]
           Q == rec'["main"]
<1>t. /\ R \in Recovery /\ "main" \in Runs /\ rec \in [Runs -> Recovery] /\ row \in [Orders -> Status]
  BY DEF TypeOK, Runs
<1>b. R.buf \in [Orders -> {"keep", "submitted", "cancelled"}]
  BY <1>t DEF Recovery
<1>o. R.pend \subseteq Orders /\ R.subm \subseteq Orders
  BY <1>t DEF Recovery
<1>a. /\ R.step = "readPending" => R.pend = {}
      /\ R.step \in {"readPending", "readSubmitted"} => R.subm = {} /\ R.buf = NoWrites
      /\ R.step = "readSubmitted" => \A o \in R.pend : row[o] = "pending_submit"
      /\ \A o \in R.pend \cup R.subm : row[o] # "filled"
      /\ \A o \in Orders : R.buf[o] # "keep" => row[o] # "filled"
      /\ \A o \in R.subm : o \notin R.pend /\ R.buf[o] = "keep"
      /\ R.step \in {"checking", "recording"} =>
           /\ R.cur \in Orders /\ R.cur \notin R.pend \cup R.subm
           /\ R.buf[R.cur] = "keep" /\ row[R.cur] # "filled"
  BY DEF Unbooked
<1> HIDE DEF Q
\* A step to "reqOpen" or "settle" that only works rows off.
<1>w. ASSUME row' = row, Q.step \in {"reqOpen", "settlePending", "reqFills", "settle"},
             Q.pend = R.pend, Q.subm \subseteq R.subm,
             \A o \in Orders : Q.buf[o] # "keep" => row[o] # "filled",
             \A o \in Q.subm : Q.buf[o] = "keep"
      PROVE  Unbooked'
  BY <1>w, <1>a DEF Unbooked, Q
<1>1. CASE ReadPending("main")
  <2>1. PICK P \in OldEnough("main") : Q = [R EXCEPT !.step = "readSubmitted", !.pend = P]
    BY <1>1, <1>t DEF ReadPending, RecoveryStep, Q
  <2>2. \A o \in P : o \in Orders /\ row[o] = "pending_submit"
    BY <2>1 DEF OldEnough
  <2>3. /\ Q.pend = P /\ Q.subm = R.subm /\ Q.buf = R.buf /\ Q.step = "readSubmitted"
        /\ R.step = "readPending" /\ row' = row
    BY <2>1, <1>1, <1>t DEF Recovery, ReadPending, RecoveryStep, dbVars
  <2>. QED
    BY <2>2, <2>3, <1>a DEF Unbooked, Q
<1>2. CASE ReadSubmitted("main")
  <2> DEFINE S == {o \in Orders : row[o] = "submitted"}
             next == IF R.pend \cup S = {} THEN "settle" ELSE "reqOpen"
  <2>1. Q = [R EXCEPT !.step = next, !.subm = S] /\ R.step = "readSubmitted" /\ row' = row
    BY <1>2, <1>t DEF ReadSubmitted, RecoveryStep, Q, dbVars
  <2>2. /\ Q.pend = R.pend /\ Q.subm = S /\ Q.buf = NoWrites /\ Q.step \in {"settle", "reqOpen"}
    BY <2>1, <1>a, <1>t DEF Recovery
  <2>3. \A o \in R.pend : o \notin S
    BY <2>1, <1>a
  <2>. QED
    BY <2>1, <2>2, <2>3, <1>a DEF Unbooked, Q, NoWrites
<1>3. CASE ReqOpenOrders("main") \/ ReqExecutions("main")
  <2>1. /\ \/ Q = [R EXCEPT !.step = "settlePending", !.open = {o \in Orders : live[o] = "working"}]
           \/ Q = [R EXCEPT !.step = "settle", !.execs = {o \in Orders : live[o] = "filled"}]
        /\ row' = row
    BY <1>3, <1>t DEF ReqOpenOrders, ReqExecutions, RecoveryStep, Q, dbVars
  <2>2. /\ Q.pend = R.pend /\ Q.subm = R.subm /\ Q.buf = R.buf
        /\ Q.step \in {"settlePending", "settle"}
    BY <2>1, <1>t DEF Recovery
  <2>. QED
    BY <2>1, <2>2, <1>a, <1>w
<1>4. CASE SettlePending("main")
  <2> DEFINE next == IF R.subm = {} THEN "settle" ELSE "reqFills"
  <2>1. Q = [R EXCEPT !.step = next, !.buf = PendingUpdates("main")] /\ row' = row
    BY <1>4, <1>t DEF SettlePending, RecoveryStep, Q, dbVars
  <2>2. /\ Q.pend = R.pend /\ Q.subm = R.subm /\ Q.buf = PendingUpdates("main")
        /\ Q.step \in {"settle", "reqFills"}
    BY <2>1, <1>t DEF Recovery
  <2>3. ASSUME NEW o \in Orders
        PROVE  PendingUpdates("main")[o] # "keep" => o \in R.pend
    BY DEF PendingUpdates
  <2>. QED
    BY <2>1, <2>2, <2>3, <1>a, <1>o, <1>w
<1>5. ASSUME NEW o \in Orders, StillOpen("main", o) PROVE Unbooked'
  <2>1. Q = [R EXCEPT !.subm = @ \ {o}] /\ R.step = "settle" /\ row' = row
    BY <1>5, <1>t DEF StillOpen, RecoveryStep, Q, dbVars
  <2>2. Q.pend = R.pend /\ Q.subm = R.subm \ {o} /\ Q.buf = R.buf /\ Q.step = "settle"
    BY <2>1, <1>t DEF Recovery
  <2>. QED
    BY <2>1, <2>2, <1>a, <1>w
<1>6. ASSUME NEW o \in Orders, FoundFill("main", o) PROVE Unbooked'
  <2>1. /\ Q = [R EXCEPT !.subm = @ \ {o}, !.step = "checking", !.cur = o]
        /\ o \in R.subm /\ row' = row
    BY <1>6, <1>t DEF FoundFill, RecoveryStep, Q, dbVars
  <2>2. /\ Q.pend = R.pend /\ Q.subm = R.subm \ {o} /\ Q.buf = R.buf /\ Q.step = "checking"
        /\ Q.cur = o
    BY <2>1, <1>t DEF Recovery
  <2>. QED
    BY <2>1, <2>2, <1>a DEF Unbooked, Q
<1>7. ASSUME NEW o \in Orders, NotFound("main", o) PROVE Unbooked'
  <2>1. /\ Q = [R EXCEPT !.subm = @ \ {o}, !.buf[o] = "cancelled"] /\ R.step = "settle"
        /\ o \in R.subm /\ row' = row
    BY <1>7, <1>t DEF NotFound, RecoveryStep, Q, dbVars
  <2>2. /\ Q.pend = R.pend /\ Q.subm = R.subm \ {o} /\ Q.buf = [R.buf EXCEPT ![o] = "cancelled"]
        /\ Q.step = "settle"
    BY <2>1, <1>t DEF Recovery
  <2>. QED
    BY <2>1, <2>2, <1>a, <1>b, <1>o, <1>w
<1>8. CASE RecoveryChecks("main")
  <2> DEFINE seen == Committed("main")[R.cur]
  <2>1. /\ R.step = "checking" /\ row' = row
        /\ Q = [R EXCEPT !.step = IF seen = "filled" THEN "settle" ELSE "recording",
                         !.cur = IF seen = "filled" THEN NoOrder ELSE @]
    BY <1>8, <1>t DEF RecoveryChecks, RecoveryStep, Q, dbVars
  <2>2. seen # "filled"
    BY <2>1, <1>a, CommitBooks
  <2> HIDE DEF seen
  <2>3. /\ Q.pend = R.pend /\ Q.subm = R.subm /\ Q.buf = R.buf /\ Q.step = "recording"
        /\ Q.cur = R.cur
    BY <2>1, <2>2, <1>t DEF Recovery
  <2>. QED
    BY <2>1, <2>3, <1>a DEF Unbooked, Q
<1>9. CASE RecoveryRecords("main")
  <2>1. /\ R.step = "recording"
        /\ Q = [R EXCEPT !.step = "settle", !.cur = NoOrder, !.buf = NoWrites]
        /\ row' = [Committed("main") EXCEPT ![R.cur] = "filled"]
    BY <1>9, <1>t DEF RecoveryRecords, RecoveryStep, Q
  <2>2. /\ Q.pend = R.pend /\ Q.subm = R.subm /\ Q.buf = NoWrites /\ Q.step = "settle"
    BY <2>1, <1>t DEF Recovery
  <2>3. \A o \in R.pend \cup R.subm : row'[o] # "filled"
    <3>1. ASSUME NEW o \in R.pend \cup R.subm PROVE row'[o] # "filled"
      <4>1. o \in Orders /\ o # R.cur /\ row[o] # "filled"
        BY <2>1, <1>a, <1>o
      <4>2. Committed("main")[o] # "filled"
        BY <4>1, CommitBooks
      <4>. QED
        BY <2>1, <4>1, <4>2, CommittedType, <1>t
    <3>. QED
      BY <3>1
  <2>. QED
    BY <2>2, <2>3, <1>a, <1>o DEF Unbooked, Q, NoWrites
<1>10. CASE FinishRecovery("main") \/ RecoveryFails("main")
  <2>1. rec'["main"] = IdleRun
    BY <1>10, <1>t DEF FinishRecovery, RecoveryFails, RecoveryStep, Abandon
  <2>. QED
    BY <2>1, IdleUnbooked
<1>. QED
  BY <1>1, <1>2, <1>3, <1>4, <1>5, <1>6, <1>7, <1>8, <1>9, <1>10 DEF Recover

LEMMA UnbookedStep ==
    ASSUME TypeOK, Quiet, LedgerInv, [Next]_vars, ~Disconnect, ~Reconcile
    PROVE  Unbooked'
<1>t. /\ rec \in [Runs -> Recovery] /\ "main" \in Runs /\ Runs = {"main", "command"}
      /\ Apart /\ Unbooked
  BY DEF TypeOK, Runs, LedgerInv
<1>1. CASE Recover("main")
  BY <1>1, <1>t, MainUnbooked
<1>2. ~Recover("command")
  BY <1>t DEF Apart, Recover, IdleRun, RecoveryStep, ReadPending, ReadSubmitted, ReqOpenOrders,
     SettlePending, ReqExecutions, StillOpen, FoundFill, NotFound, RecoveryChecks, RecoveryRecords,
     FinishRecovery, RecoveryFails
<1>3. CASE rec'["main"] = IdleRun
  BY <1>3, IdleUnbooked
<1>4. CASE Crash
  BY <1>4, <1>t, IdleUnbooked DEF Crash
<1>5. ~Reconnect
  BY <1>t DEF Apart, Reconnect
<1>6. CASE Restart
  <2>1. rec["main"] = IdleRun /\ rec' = [rec EXCEPT !["main"].step = "readPending"]
    BY <1>6, <1>t DEF Apart, Restart
  <2>2. /\ rec'["main"].pend = {} /\ rec'["main"].subm = {} /\ rec'["main"].buf = NoWrites
        /\ rec'["main"].step = "readPending"
    BY <2>1, <1>t DEF IdleRun
  <2>. QED
    BY <2>2 DEF Unbooked, NoWrites
<1>7. ASSUME NEW r \in Runs, RecoveryLockTimeout(r) PROVE Unbooked'
  <2>1. CASE r = "main"
    BY <2>1, <1>7, <1>t, IdleUnbooked DEF RecoveryLockTimeout, Abandon
  <2>2. CASE r = "command"
    BY <2>2, <1>7, <1>t DEF RecoveryLockTimeout, Apart, IdleRun
  <2>. QED
    BY <2>1, <2>2, <1>t
<1>8. CASE rec' = rec /\ rec["main"] # IdleRun
  <2>1. ~RecoveryRecords("main") /\ ~FinishRecovery("main")
    BY <1>8, <1>t DEF RecoveryRecords, FinishRecovery, RecoveryStep, Recovery
  <2>2. row' = row
    BY <2>1, <1>8, <1>t, StartingAlone
  <2>. QED
    BY <2>2, <1>8, <1>t DEF Unbooked
<1>. QED
  BY <1>1, <1>2, <1>3, <1>4, <1>5, <1>6, <1>7, <1>8, <1>t, RecWriters

\* What every state satisfies while recovery has only run at startup.
SerialInv == BooksInv /\ Quiet /\ LedgerInv

LEMMA SerialHolds == Spec => [](Serial => SerialInv)
<1>1. Init => SerialInv
  BY BooksInit, InitWrittenOff, InitLedger DEF SerialInv, WrittenOffInv
<1>2. (Serial => SerialInv) /\ BooksInv /\ BooksInv' /\ Quiet' /\ [Next]_vars
        => (Serial => SerialInv)'
  <2>1. BooksInv => TypeOK
    BY DEF BooksInv
  <2>. QED
    BY <2>1, NoRace, ApartStep, BookedStep, UnbookedStep DEF SerialInv, LedgerInv
<1>3. BooksInv /\ WrittenOffInv => Quiet
  BY DEF WrittenOffInv
<1>. QED
  BY <1>1, <1>2, <1>3, WrittenOffHolds, PTL DEF Spec

-----------------------------------------------------------------------------
\* What the ledger calls an order, told from its row, the broker and its task.
Known(o) ==
    IF row[o] = "filled" THEN "booked"
    ELSE IF live[o] = "cancelled" THEN "void"
    ELSE IF live[o] # "absent" THEN live[o]
    ELSE IF row[o] = "none" THEN "unknown"
    ELSE IF pc[o] = "placing" THEN "intended"
    ELSE "void"

LEMMA StageIsKnown ==
    ASSUME BooksInv, BookedOnce, NEW x \in Orders
    PROVE  Stage(x) = Known(x)
<1>1. /\ trades[x] = IF row[x] = "filled" THEN 1 ELSE 0
      /\ row[x] = "filled" => live[x] = "filled"
      /\ live[x] # "absent" => row[x] # "none"
      /\ pc[x] # "none" => row[x] # "none"
      /\ live[x] \in {"absent", "working", "cancelled", "filled"}
  BY DEF BookedOnce, BooksInv, BooksMatchBroker, WriteAhead, TaskEvidence, TypeOK
<1>. QED
  BY <1>1 DEF Stage, Known, Gone

LEMMA NextStageIsKnown ==
    ASSUME BooksInv', BookedOnce', NEW x \in Orders
    PROVE  Stage(x)' = Known(x)'
<1>1. /\ trades'[x] = IF row'[x] = "filled" THEN 1 ELSE 0
      /\ row'[x] = "filled" => live'[x] = "filled"
      /\ live'[x] # "absent" => row'[x] # "none"
      /\ pc'[x] # "none" => row'[x] # "none"
      /\ live'[x] \in {"absent", "working", "cancelled", "filled"}
  BY DEF BookedOnce, BooksInv, BooksMatchBroker, WriteAhead, TaskEvidence, TypeOK
<1>. QED
  BY <1>1 DEF Stage, Known, Gone

StageMap == [x \in Orders |-> Known(x)]

\* Exactly one order moves.
LEMMA OneMoves ==
    ASSUME NEW o \in Orders, NEW from, NEW to, Known(o) = from, Known(o)' = to,
           \A x \in Orders : x # o => Known(x)' = Known(x)
    PROVE  StageMap[o] = from /\ StageMap' = [StageMap EXCEPT ![o] = to]
BY DEF StageMap

\* The steps of FillLedger that one order can take.
Moves(o, from, to) ==
    /\ StageMap[o] = from
    /\ StageMap' = [StageMap EXCEPT ![o] = to]

LedgerStep ==
    \/ UNCHANGED StageMap
    \/ \E o \in Orders :
         \/ Moves(o, "unknown", "intended") \/ Moves(o, "intended", "working")
         \/ Moves(o, "working", "filled") \/ Moves(o, "working", "void")
         \/ Moves(o, "intended", "void") \/ Moves(o, "filled", "booked")
    \/ \E S \in SUBSET {o \in Orders : StageMap[o] = "intended"} :
         StageMap' = [o \in Orders |-> IF o \in S THEN "void" ELSE StageMap[o]]

\* A step of a task.
LEMMA TaskMoves ==
    ASSUME BooksInv, BookedOnce, NEW o \in Orders, OrderTask(o) \/ SubmitIntent(o)
    PROVE  LedgerStep
<1>t. /\ row \in [Orders -> Status] /\ pc \in [Orders -> Steps]
      /\ live \in [Orders -> {"absent", "working", "cancelled", "filled"}]
  BY DEF BooksInv, TypeOK
<1>a. \A x \in Orders :
         /\ row[x] = "filled" => pc[x] = "none"
         /\ pc[x] # "none" => row[x] # "none"
         /\ pc[x] = "placing" => live[x] = "absent"
         /\ pc[x] = "recording" => live[x] = "filled"
         /\ live[x] # "absent" => row[x] # "none"
  BY DEF BookedOnce, BooksInv, TaskEvidence, WriteAhead
<1>1. CASE SubmitIntent(o)
  <2>1. Known(o) = "unknown" /\ Known(o)' = "intended"
    BY <1>1, <1>t, <1>a DEF SubmitIntent, Intend, SetRow, GoTo, Known, brokerVars
  <2>2. \A x \in Orders : x # o => Known(x)' = Known(x)
    BY <1>1, <1>t DEF SubmitIntent, Intend, SetRow, GoTo, Known, brokerVars
  <2>. QED
    BY <2>1, <2>2, OneMoves DEF LedgerStep, Moves
<1>2. ASSUME NEW n \in Orders, RetryIntent(o, n) PROVE LedgerStep
  <2>1. n # o /\ Known(n) = "unknown" /\ Known(n)' = "intended"
    BY <1>2, <1>t, <1>a DEF RetryIntent, Intend, SetRow, Known, brokerVars
  <2>2. \A x \in Orders : x # n => Known(x)' = Known(x)
    BY <1>2, <1>t DEF RetryIntent, Intend, SetRow, Known, brokerVars
  <2>. QED
    BY <2>1, <2>2, OneMoves DEF LedgerStep, Moves
<1>3. CASE Place(o)
  <2>1. Known(o) = "intended" /\ Known(o)' \in {"working", "void"}
    BY <1>3, <1>t, <1>a DEF Place, GoTo, Known, dbVars
  <2>2. \A x \in Orders : x # o => Known(x)' = Known(x)
    BY <1>3, <1>t DEF Place, GoTo, Known, dbVars
  <2>. QED
    BY <2>1, <2>2, OneMoves DEF LedgerStep, Moves
<1>4. CASE RecordFill(o)
  <2>1. Known(o) = "filled" /\ Known(o)' = "booked"
    BY <1>4, <1>t, <1>a DEF RecordFill, SetRow, GoTo, Known, brokerVars
  <2>2. \A x \in Orders : x # o => Known(x)' = Known(x)
    BY <1>4, <1>t DEF RecordFill, SetRow, GoTo, Known, brokerVars
  <2>. QED
    BY <2>1, <2>2, OneMoves DEF LedgerStep, Moves
<1>5. CASE SeeFilled(o) \/ RepriceTimeout(o) \/ GiveUp(o) \/ CheckRecorded(o)
  <2>1. \A x \in Orders : Known(x)' = Known(x)
    BY <1>5, <1>t, <1>a DEF SeeFilled, RepriceTimeout, GiveUp, CheckRecorded, GoTo, Known, dbVars, brokerVars
  <2>. QED
    BY <2>1 DEF LedgerStep, StageMap
<1>6. CASE PlaceFailed(o) \/ Ack(o) \/ SeeCancelled(o) \/ MarkRepriced(o) \/ Drop(o)
  <2>1. /\ live' = live /\ pc[o] \notin {"none", "placing"}
        /\ \E s \in {"cancelled", "submitted", "repriced"} : row' = [row EXCEPT ![o] = s]
        /\ \E s \in {"none", "polling", "retrying", "repricing"} : pc' = [pc EXCEPT ![o] = s]
    BY <1>6 DEF PlaceFailed, Ack, SeeCancelled, MarkRepriced, Drop, SetRow, GoTo, brokerVars
  <2>2. \A x \in Orders : Known(x)' = Known(x)
    BY <2>1, <1>t, <1>a DEF Known
  <2>. QED
    BY <2>2 DEF LedgerStep, StageMap
<1>. QED
  BY <1>1, <1>2, <1>3, <1>4, <1>5, <1>6 DEF OrderTask

\* Startup recovery books what it found and settles the rest.
LEMMA RecoveryMoves ==
    ASSUME BooksInv, LedgerInv, RunTruth("main"), NEW r \in Runs,
           RecoveryRecords(r) \/ FinishRecovery(r)
    PROVE  LedgerStep
<1>t. /\ row \in [Orders -> Status] /\ TypeOK /\ Unbooked /\ BookedOnce
      /\ rec["main"] \in Recovery
  BY DEF BooksInv, TypeOK, LedgerInv, Runs
<1>1. r = "main"
  BY DEF LedgerInv, Apart, IdleRun, RecoveryRecords, FinishRecovery, RecoveryStep, Runs
<1> DEFINE after == Committed("main")
<1>2. ASSUME NEW x \in Orders
      PROVE  (after[x] = "filled" <=> row[x] = "filled") /\ (after[x] = "none" <=> row[x] = "none")
  <2>1. row[x] = "none" => rec["main"].buf[x] = "keep"
    BY <1>t DEF RunTruth, Past, Ending, Recovery
  <2>2. row[x] = "none" => after[x] = "none"
    BY <2>1 DEF Committed
  <2>. QED
    BY <2>2, <1>t, CommitBooks, CommittedRows DEF Runs
<1>3. UNCHANGED <<live, pc>>
  BY DEF RecoveryRecords, FinishRecovery, brokerVars, taskVars
<1> HIDE DEF after
<1>4. CASE FinishRecovery("main")
  <2>1. row' = after
    BY <1>4 DEF FinishRecovery, after
  <2>2. \A x \in Orders : Known(x)' = Known(x)
    BY <2>1, <1>2, <1>3 DEF Known
  <2>. QED
    BY <2>2 DEF LedgerStep, StageMap
<1>5. CASE RecoveryRecords("main")
  <2>0. rec["main"].cur \in Orders
    BY <1>5, <1>t DEF RecoveryRecords, RecoveryStep, Unbooked
  <2>1. PICK c \in Orders : /\ row[c] # "filled" /\ live[c] = "filled"
                            /\ row' = [after EXCEPT ![c] = "filled"]
    BY <2>0, <1>5, <1>t DEF RecoveryRecords, RecoveryStep, Unbooked, BooksInv, RunEvidence, Runs, after
  <2>2. after \in [Orders -> Status]
    BY <1>t, CommittedType DEF after, Runs
  <2>3. Known(c) = "filled" /\ Known(c)' = "booked"
    BY <2>1, <2>2, <1>3 DEF Known
  <2>4. \A x \in Orders : x # c => Known(x)' = Known(x)
    BY <2>1, <2>2, <1>2, <1>3 DEF Known
  <2>. QED
    BY <2>1, <2>3, <2>4, OneMoves DEF LedgerStep, Moves
<1>. QED
  BY <1>1, <1>4, <1>5

\* The broker, the wire and the process.
LEMMA FaultMoves ==
    ASSUME BooksInv, BookedOnce, NEW o \in Orders,
           BrokerFill(o) \/ BrokerCancel(o) \/ TaskLockTimeout(o) \/ Crash
    PROVE  LedgerStep
<1>t. /\ row \in [Orders -> Status] /\ pc \in [Orders -> Steps]
      /\ live \in [Orders -> {"absent", "working", "cancelled", "filled"}]
  BY DEF BooksInv, TypeOK
<1>a. \A x \in Orders :
         /\ row[x] = "filled" => live[x] = "filled"
         /\ pc[x] # "none" => row[x] # "none"
         /\ pc[x] = "placing" => live[x] = "absent"
  BY DEF BooksInv, TaskEvidence, BooksMatchBroker
<1>1. CASE BrokerFill(o) \/ BrokerCancel(o)
  <2>1. Known(o) = "working" /\ Known(o)' \in {"filled", "void"}
    BY <1>1, <1>t, <1>a DEF BrokerFill, BrokerCancel, Known, dbVars, taskVars
  <2>2. \A x \in Orders : x # o => Known(x)' = Known(x)
    BY <1>1, <1>t DEF BrokerFill, BrokerCancel, Known, dbVars, taskVars
  <2>. QED
    BY <2>1, <2>2, OneMoves DEF LedgerStep, Moves
<1>2. CASE TaskLockTimeout(o)
  <2>1. \A x \in Orders : Known(x)' = Known(x)
    BY <1>2, <1>t DEF TaskLockTimeout, WantsToWrite, GoTo, Known, dbVars, brokerVars
  <2>. QED
    BY <2>1 DEF LedgerStep, StageMap
<1>3. CASE Crash
  <2> DEFINE S == {x \in Orders : StageMap[x] = "intended"}
  <2>1. ASSUME NEW x \in Orders
        PROVE  Known(x)' = IF Known(x) = "intended" THEN "void" ELSE Known(x)
    BY <1>3, <1>t, <1>a DEF Crash, Known, dbVars, brokerVars
  <2>2. StageMap' = [x \in Orders |-> IF x \in S THEN "void" ELSE StageMap[x]]
    BY <2>1 DEF StageMap
  <2>. QED
    BY <2>2 DEF LedgerStep
<1>. QED
  BY <1>1, <1>2, <1>3

LEMMA NextMoves ==
    ASSUME SerialInv, RunTruth("main"), [Next]_vars
    PROVE  LedgerStep
<1>1. BooksInv /\ BookedOnce /\ LedgerInv
  BY DEF SerialInv, LedgerInv
<1>2. CASE UNCHANGED <<row, pc, live>>
  BY <1>2 DEF LedgerStep, StageMap, Known
<1>3. \/ UNCHANGED <<row, pc, live>>
      \/ \E o \in Orders : \/ SubmitIntent(o) \/ OrderTask(o)
                           \/ BrokerFill(o) \/ BrokerCancel(o) \/ TaskLockTimeout(o)
      \/ Crash
      \/ \E r \in Runs : RecoveryRecords(r) \/ FinishRecovery(r)
  BY BooksWriters, PcWriters, LiveWriters DEF OrderTask
<1>4. CASE Orders = {}
  BY <1>4 DEF LedgerStep, StageMap
<1>. QED
  BY <1>1, <1>2, <1>3, <1>4, TaskMoves, RecoveryMoves, FaultMoves

\* A fill is booked once, as a trade, and stays booked, and an order that was
\* written off unsent or cancelled is never booked, for any orders, crashes
\* and lock timeouts, as long as recovery has not run beside the monitors.
THEOREM LedgerKept == Spec => ImplementsLedger
<1>1. Init => Ledger!Init
  <2> SUFFICES ASSUME Init PROVE Ledger!Init
    OBVIOUS
  <2>1. \A x \in Orders : Stage(x) = "unknown"
    BY DEF Init, Stage, Gone
  <2>. QED
    BY <2>1 DEF Ledger!Init, Stages
<1>2. /\ BooksInv /\ WrittenOffInv /\ (Serial => SerialInv) /\ (Serial => SerialInv)'
      /\ [Next]_vars
      => [Serial' => [Ledger!Next]_Stages]_vars
  <2> SUFFICES ASSUME BooksInv, WrittenOffInv, Serial => SerialInv,
                      (Serial => SerialInv)', [Next]_vars, Serial'
               PROVE  [Ledger!Next]_Stages
    OBVIOUS
  <2>1. SerialInv /\ SerialInv' /\ RunTruth("main")
    BY NoRace DEF BooksInv, WrittenOffInv, Serial
  <2>2. StageMap = Stages
    BY <2>1, StageIsKnown DEF StageMap, Stages, SerialInv, LedgerInv
  <2>3. StageMap' = Stages'
    BY <2>1, NextStageIsKnown DEF StageMap, Stages, SerialInv, LedgerInv
  <2>4. LedgerStep
    BY <2>1, NextMoves
  <2> HIDE DEF StageMap
  <2>. QED
    BY <2>2, <2>3, <2>4 DEF LedgerStep, Moves, Ledger!Next, Ledger!Intend, Ledger!Send, Ledger!Fill,
       Ledger!Void, Ledger!Book, Ledger!Lose, Ledger!Move
<1>. QED
  BY <1>1, <1>2, SerialHolds, WrittenOffHolds, PTL DEF Spec, ImplementsLedger

-----------------------------------------------------------------------------
(***************************************************************************)
(* SubmittedFillIsKept.  Recovery decides on three snapshots: the rows,    *)
(* then the open orders, then the executions.  What it concludes is still  *)
(* true when it commits, because a row it read is past its submission, so  *)
(* the order behind it can only end, and nobody but recovery moves a row   *)
(* that no task submits any more out of 'pending_submit'.                  *)
(***************************************************************************)
Sent(o) == row[o] # "none" /\ ~MidSubmit(o)

\* The order is not at work and was not filled: it never will be.
Dead(o) == live[o] \in {"absent", "cancelled"}

RowsOfTasks ==
    \A o \in Orders :
        /\ MidSubmit(o) => row[o] = "pending_submit"
        /\ pc[o] # "none" /\ ~MidSubmit(o) => row[o] \notin {"none", "pending_submit"}

\* What the run at startup and after a reconnect may rely on.
Snapshots ==
    LET R == rec["main"]
    IN  /\ R.step \in {"readSubmitted", "reqOpen", "settlePending"} =>
             \A o \in R.pend : Sent(o) /\ row[o] = "pending_submit"
        /\ \A o \in R.subm : Sent(o)
        /\ R.step \in Asked => \A o \in R.subm \ R.open : live[o] # "working"
        /\ R.step \in {"settle", "checking", "recording"} =>
             \A o \in (R.subm \ R.open) \ R.execs : Dead(o)
        /\ R.step \in {"checking", "recording"} => Sent(R.cur)
        /\ \A o \in Orders : R.buf[o] # "keep" =>
             Sent(o) /\ (row[o] = "pending_submit" \/ Dead(o))

KeptInv ==
    /\ \A o \in Orders : pc[o] = "dropping" => o \in cancelReq \/ live[o] = "cancelled"
    /\ used["reconcile"] = 0 => RowsOfTasks /\ Snapshots

LEMMA SentStays ==
    ASSUME TypeOK, [Next]_vars, NEW o \in Orders, Sent(o)
    PROVE  Sent(o)'
<1>1. ~SubmitIntent(o) /\ \A n \in Orders : ~RetryIntent(n, o)
  BY DEF Sent, SubmitIntent, RetryIntent, Intend
<1>. QED
  BY <1>1, RowStays, TaskFresh DEF Sent

LEMMA SentEnds ==
    ASSUME TypeOK, [Next]_vars, NEW o \in Orders, Sent(o)
    PROVE  /\ live[o] # "working" => live'[o] # "working"
           /\ Dead(o) => Dead(o)'
<1>t. live \in [Orders -> {"absent", "working", "cancelled", "filled"}]
  BY DEF TypeOK
<1>1. ~Place(o)
  BY DEF Sent, MidSubmit, Place
<1>2. ASSUME live[o] = "absent" PROVE live'[o] = "absent"
  <2>1. ASSUME NEW n \in Orders, Place(n) PROVE live'[o] = "absent"
    BY <1>1, <1>2, <2>1, <1>t DEF Place
  <2>2. ASSUME NEW n \in Orders, BrokerFill(n) \/ BrokerCancel(n) PROVE live'[o] = "absent"
    BY <1>2, <2>2, <1>t DEF BrokerFill, BrokerCancel
  <2>. QED
    BY <1>2, <2>1, <2>2, LiveWriters
<1>. QED
  BY <1>1, <1>2, LiveStays DEF Dead

\* Between the commits of recovery a row that nobody submits stays as it is.
LEMMA PendingStays ==
    ASSUME TypeOK, [Next]_vars, RowsOfTasks, NEW o \in Orders,
           Sent(o), row[o] = "pending_submit",
           \A r \in Runs : ~RecoveryRecords(r) /\ ~FinishRecovery(r)
    PROVE  row'[o] = "pending_submit"
<1>t. row \in [Orders -> Status]
  BY DEF TypeOK
<1>1. pc[o] = "none"
  BY DEF RowsOfTasks, Sent
<1>2. ASSUME NEW x \in Orders,
             \/ PlaceFailed(x) \/ Ack(x) \/ SeeCancelled(x)
             \/ MarkRepriced(x) \/ Drop(x) \/ RecordFill(x)
      PROVE  row'[o] = row[o]
  BY <1>1, <1>2, <1>t DEF PlaceFailed, Ack, SeeCancelled, MarkRepriced, Drop, RecordFill, SetRow
<1>3. ASSUME NEW x \in Orders, SubmitIntent(x) \/ \E n \in Orders : RetryIntent(n, x)
      PROVE  row'[o] = row[o]
  BY <1>3, <1>t DEF SubmitIntent, RetryIntent, Intend, SetRow
<1>. QED
  BY <1>2, <1>3, RowWriters

\* A dropped retry has ended or was asked to cancel.
LEMMA DroppingStep ==
    ASSUME BooksInv, TaskTruth, [Next]_vars, NEW x \in Orders,
           pc[x] = "dropping" => x \in cancelReq \/ live[x] = "cancelled"
    PROVE  pc'[x] = "dropping" => x \in cancelReq' \/ live'[x] = "cancelled"
<1>t. /\ TypeOK /\ pc \in [Orders -> Steps]
      /\ view \in [Orders -> {"working", "cancelled", "filled"}]
  BY DEF BooksInv, TypeOK
<1>1. SUFFICES ASSUME pc'[x] = "dropping"
               PROVE  x \in cancelReq' \/ live'[x] = "cancelled"
  OBVIOUS
<1>2. CASE pc[x] = "dropping"
  <2>1. ~Place(x)
    BY <1>2 DEF Place
  <2>. QED
    BY <1>2, <1>t, <2>1, LiveStays, LiveWriters
<1>3. CASE pc[x] # "dropping"
  <2>1. ASSUME NEW o \in Orders, OrderTask(o)
        PROVE  GiveUp(x)
    <3>1. ASSUME NEW n \in Orders, RetryIntent(o, n) PROVE FALSE
      BY <1>1, <1>3, <3>1, <1>t DEF RetryIntent
    <3>2. CASE Place(o) \/ PlaceFailed(o) \/ Ack(o) \/ SeeFilled(o) \/ SeeCancelled(o)
      BY <1>1, <1>3, <3>2, <1>t DEF Place, PlaceFailed, Ack, SeeFilled, SeeCancelled, GoTo
    <3>3. CASE RepriceTimeout(o) \/ MarkRepriced(o)
      BY <1>1, <1>3, <3>3, <1>t DEF RepriceTimeout, MarkRepriced, GoTo
    <3>4. CASE Drop(o) \/ CheckRecorded(o) \/ RecordFill(o)
      BY <1>1, <1>3, <3>4, <1>t DEF Drop, CheckRecorded, RecordFill, GoTo
    <3>5. CASE GiveUp(o)
      BY <1>1, <1>3, <3>5, <1>t DEF GiveUp, GoTo
    <3>. QED
      BY <2>1, <3>1, <3>2, <3>3, <3>4, <3>5 DEF OrderTask
  <2>2. ASSUME NEW o \in Orders, SubmitIntent(o) \/ TaskLockTimeout(o) PROVE FALSE
    BY <1>1, <1>3, <2>2, <1>t DEF SubmitIntent, TaskLockTimeout, GoTo
  <2>3. ~Crash
    BY <1>1 DEF Crash
  <2>4. GiveUp(x)
    BY <1>1, <1>3, <2>1, <2>2, <2>3, PcWriters
  <2>5. x \in cancelReq' \/ view[x] = "cancelled"
    BY <2>4, <1>1, <1>t DEF GiveUp, IsDone, GoTo
  <2>6. view[x] = "cancelled" => live[x] = "cancelled" /\ live' = live
    BY <2>4 DEF GiveUp, TaskTruth
  <2>. QED
    BY <2>5, <2>6
<1>. QED
  BY <1>2, <1>3

\* Recovery's commits write only rows of orders that are past submission.
LEMMA CommitSent ==
    ASSUME BooksInv, Snapshots, rec["command"] = IdleRun, NEW r \in Runs,
           RecoveryRecords(r) \/ FinishRecovery(r), NEW x \in Orders
    PROVE  /\ r = "main"
           /\ \/ row'[x] = row[x]
              \/ Sent(x) /\ row'[x] = "filled"
              \/ Sent(x) /\ row'[x] \in {"submitted", "cancelled"}
                   /\ (row[x] = "pending_submit" \/ Dead(x))
<1>t. /\ row \in [Orders -> Status] /\ TypeOK /\ Runs = {"main", "command"}
  BY DEF BooksInv, TypeOK, Runs
<1>1. r = "main"
  BY <1>t DEF RecoveryRecords, FinishRecovery, RecoveryStep, IdleRun
<1>2. \/ Committed(r)[x] = row[x]
      \/ Sent(x) /\ Committed(r)[x] \in {"submitted", "cancelled"}
           /\ (row[x] = "pending_submit" \/ Dead(x))
  <2>1. rec[r].buf[x] \in {"keep", "submitted", "cancelled"}
    BY <1>t DEF TypeOK, Recovery
  <2>. QED
    BY <1>1, <2>1 DEF Committed, Snapshots
<1>3. CASE FinishRecovery(r)
  BY <1>1, <1>2, <1>3 DEF FinishRecovery
<1>4. CASE RecoveryRecords(r)
  <2>1. /\ rec[r].cur \in Orders /\ Sent(rec[r].cur)
        /\ row' = [Committed(r) EXCEPT ![rec[r].cur] = "filled"]
    BY <1>1, <1>4 DEF RecoveryRecords, RecoveryStep, BooksInv, RunEvidence, Snapshots
  <2>2. CASE x = rec[r].cur
    BY <1>1, <2>1, <2>2, CommittedType, <1>t
  <2>3. CASE x # rec[r].cur
    BY <1>1, <1>2, <2>1, <2>3, CommittedType, <1>t
  <2>. QED
    BY <2>2, <2>3
<1>. QED
  BY <1>3, <1>4

LEMMA RowsOfTasksStep ==
    ASSUME BooksInv, RowsOfTasks, Snapshots, rec["command"] = IdleRun, [Next]_vars, NEW x \in Orders
    PROVE  /\ MidSubmit(x)' => row'[x] = "pending_submit"
           /\ pc'[x] # "none" /\ ~MidSubmit(x)' => row'[x] \notin {"none", "pending_submit"}
<1>t. /\ TypeOK /\ pc \in [Orders -> Steps] /\ row \in [Orders -> Status]
  BY DEF BooksInv, TypeOK
<1>a. /\ MidSubmit(x) => row[x] = "pending_submit"
      /\ pc[x] # "none" /\ ~MidSubmit(x) => row[x] \notin {"none", "pending_submit"}
  BY DEF RowsOfTasks
<1>b. /\ pc[x] \in {"placing", "failed", "acking"} => row[x] = "pending_submit"
      /\ pc[x] # "none" /\ pc[x] \notin {"placing", "failed", "acking"}
           => row[x] \notin {"none", "pending_submit"}
  BY <1>a DEF MidSubmit
<1> SUFFICES /\ pc'[x] \in {"placing", "failed", "acking"} => row'[x] = "pending_submit"
             /\ pc'[x] # "none" /\ pc'[x] \notin {"placing", "failed", "acking"}
                  => row'[x] \notin {"none", "pending_submit"}
  BY DEF MidSubmit
<1>1. ASSUME NEW r \in Runs, RecoveryRecords(r) \/ FinishRecovery(r)
      PROVE  /\ pc'[x] \in {"placing", "failed", "acking"} => row'[x] = "pending_submit"
             /\ pc'[x] # "none" /\ pc'[x] \notin {"placing", "failed", "acking"}
                  => row'[x] \notin {"none", "pending_submit"}
  <2>1. pc' = pc
    BY <1>1 DEF RecoveryRecords, FinishRecovery, taskVars
  <2>2. \/ row'[x] = row[x]
        \/ ~MidSubmit(x) /\ row'[x] \in {"filled", "submitted", "cancelled"}
    BY <1>1, CommitSent DEF Sent
  <2>. QED
    BY <1>b, <2>1, <2>2 DEF MidSubmit
<1>2. ASSUME NEW o \in Orders, SubmitIntent(o)
      PROVE  /\ pc'[x] \in {"placing", "failed", "acking"} => row'[x] = "pending_submit"
             /\ pc'[x] # "none" /\ pc'[x] \notin {"placing", "failed", "acking"}
                  => row'[x] \notin {"none", "pending_submit"}
  BY <1>2, <1>b, <1>t DEF SubmitIntent, Intend, SetRow, GoTo
<1>3. ASSUME NEW o \in Orders, OrderTask(o)
      PROVE  /\ pc'[x] \in {"placing", "failed", "acking"} => row'[x] = "pending_submit"
             /\ pc'[x] # "none" /\ pc'[x] \notin {"placing", "failed", "acking"}
                  => row'[x] \notin {"none", "pending_submit"}
  <2>1. ASSUME NEW n \in Orders, RetryIntent(o, n)
        PROVE  /\ pc'[x] \in {"placing", "failed", "acking"} => row'[x] = "pending_submit"
               /\ pc'[x] # "none" /\ pc'[x] \notin {"placing", "failed", "acking"}
                    => row'[x] \notin {"none", "pending_submit"}
    BY <2>1, <1>b, <1>t DEF RetryIntent, Intend, SetRow
  <2>2. CASE Place(o) \/ SeeFilled(o) \/ RepriceTimeout(o) \/ GiveUp(o) \/ CheckRecorded(o)
    BY <2>2, <1>b, <1>t DEF Place, SeeFilled, RepriceTimeout, GiveUp, CheckRecorded, GoTo, dbVars
  <2>3. CASE PlaceFailed(o) \/ Ack(o) \/ SeeCancelled(o)
    BY <2>3, <1>b, <1>t DEF PlaceFailed, Ack, SeeCancelled, GoTo, SetRow
  <2>4. CASE MarkRepriced(o) \/ Drop(o) \/ RecordFill(o)
    BY <2>4, <1>b, <1>t DEF MarkRepriced, Drop, RecordFill, GoTo, SetRow
  <2>. QED
    BY <1>3, <2>1, <2>2, <2>3, <2>4 DEF OrderTask
<1>4. ASSUME NEW o \in Orders, TaskLockTimeout(o)
      PROVE  row' = row /\ pc'[x] \in {pc[x], "none"}
  BY <1>4, <1>t DEF TaskLockTimeout, GoTo, dbVars
<1>5. Crash => row' = row /\ pc'[x] = "none"
  BY DEF Crash, dbVars
<1>6. CASE UNCHANGED pc /\ row'[x] = row[x]
  BY <1>6, <1>b
<1>. QED
  BY <1>1, <1>2, <1>3, <1>4, <1>5, <1>6, <1>b, PcWriters, RowWriters DEF OrderTask

\* A step of the run itself, which moves no task and nothing at the broker.
LEMMA MainSnapshots ==
    ASSUME BooksInv, Quiet, RowsOfTasks, Snapshots, rec["command"] = IdleRun, [Next]_vars,
           Recover("main")
    PROVE  Snapshots'
<1> DEFINE R == rec["main"]
<1>t. /\ R \in Recovery /\ "main" \in Runs /\ TypeOK /\ pc \in [Orders -> Steps]
      /\ row \in [Orders -> Status] /\ rec \in [Runs -> Recovery]
      /\ live \in [Orders -> {"absent", "working", "cancelled", "filled"}]
  BY DEF BooksInv, TypeOK, Runs
<1>o. /\ R.pend \subseteq Orders /\ R.subm \subseteq Orders /\ R.open \subseteq Orders
      /\ R.execs \subseteq Orders
      /\ R.buf \in [Orders -> {"keep", "submitted", "cancelled"}]
  BY <1>t DEF Recovery
<1>u. pc' = pc /\ live' = live
  BY DEF Recover, ReadPending, ReadSubmitted, ReqOpenOrders, SettlePending, ReqExecutions,
         StillOpen, FoundFill, NotFound, RecoveryChecks, RecoveryRecords, FinishRecovery,
         RecoveryFails, taskVars, brokerVars
<1>s. \A o \in Orders : (Sent(o) => Sent(o)') /\ (Dead(o) => Dead(o)')
  BY <1>t, <1>u, SentStays DEF Dead
<1>a. /\ R.step \in {"readSubmitted", "reqOpen", "settlePending"} =>
             \A o \in R.pend : Sent(o) /\ row[o] = "pending_submit"
      /\ \A o \in R.subm : Sent(o)
      /\ R.step \in Asked => \A o \in R.subm \ R.open : live[o] # "working"
      /\ R.step \in {"settle", "checking", "recording"} =>
             \A o \in (R.subm \ R.open) \ R.execs : Dead(o)
      /\ R.step \in {"checking", "recording"} => Sent(R.cur)
      /\ \A o \in Orders : R.buf[o] # "keep" =>
             Sent(o) /\ (row[o] = "pending_submit" \/ Dead(o))
  BY DEF Snapshots
<1>1. CASE ReadPending("main")
  <2>1. PICK P \in OldEnough("main") :
          rec'["main"] = [R EXCEPT !.step = "readSubmitted", !.pend = P]
    BY <1>1, <1>t DEF ReadPending, RecoveryStep
  <2>2. \A o \in P : o \in Orders /\ Sent(o) /\ row[o] = "pending_submit"
    <3>1. CASE phase = "running"
      BY <3>1, <2>1 DEF OldEnough, Sent
    <3>2. CASE phase # "running"
      BY <3>2, <2>1 DEF OldEnough, Quiet, Sent, MidSubmit
    <3>. QED
      BY <3>1, <3>2
  <2>3. /\ rec'["main"].pend = P /\ rec'["main"].subm = R.subm /\ rec'["main"].buf = R.buf
        /\ rec'["main"].step = "readSubmitted"
    BY <2>1, <1>t DEF Recovery
  <2>4. row' = row
    BY <1>1 DEF ReadPending, dbVars
  <2>. QED
    BY <2>2, <2>3, <2>4, <1>a, <1>o, <1>s DEF Snapshots, Asked
<1>2. CASE ReadSubmitted("main")
  <2> DEFINE S == {o \in Orders : row[o] = "submitted"}
             next == IF R.pend \cup S = {} THEN "settle" ELSE "reqOpen"
  <2>1. rec'["main"] = [R EXCEPT !.step = next, !.subm = S] /\ R.step = "readSubmitted"
    BY <1>2, <1>t DEF ReadSubmitted, RecoveryStep
  <2>2. \A o \in S : o \in Orders /\ Sent(o)
    BY DEF Sent, RowsOfTasks
  <2>3. /\ rec'["main"].pend = R.pend /\ rec'["main"].subm = S /\ rec'["main"].buf = R.buf
        /\ rec'["main"].step \in {"settle", "reqOpen"}
        /\ rec'["main"].step = "settle" => S = {}
    BY <2>1, <1>t DEF Recovery
  <2>4. row' = row
    BY <1>2 DEF ReadSubmitted, dbVars
  <2> HIDE DEF S
  <2>. QED
    BY <2>1, <2>2, <2>3, <2>4, <1>a, <1>o, <1>s DEF Snapshots, Asked
<1>3. CASE ReqOpenOrders("main")
  <2>1. /\ rec'["main"] = [R EXCEPT !.step = "settlePending",
                                    !.open = {o \in Orders : live[o] = "working"}]
        /\ R.step = "reqOpen"
    BY <1>3, <1>t DEF ReqOpenOrders, RecoveryStep
  <2>2. /\ rec'["main"].pend = R.pend /\ rec'["main"].subm = R.subm /\ rec'["main"].buf = R.buf
        /\ rec'["main"].open = {o \in Orders : live[o] = "working"}
        /\ rec'["main"].step = "settlePending"
    BY <2>1, <1>t DEF Recovery
  <2>3. row' = row
    BY <1>3 DEF ReqOpenOrders, dbVars
  <2>. QED
    BY <2>1, <2>2, <2>3, <1>a, <1>o, <1>s, <1>u DEF Snapshots, Asked
<1>4. CASE SettlePending("main")
  <2> DEFINE next == IF R.subm = {} THEN "settle" ELSE "reqFills"
  <2>1. rec'["main"] = [R EXCEPT !.step = next, !.buf = PendingUpdates("main")]
        /\ R.step = "settlePending"
    BY <1>4, <1>t DEF SettlePending, RecoveryStep
  <2>2. /\ rec'["main"].pend = R.pend /\ rec'["main"].subm = R.subm /\ rec'["main"].open = R.open
        /\ rec'["main"].buf = PendingUpdates("main")
        /\ rec'["main"].step \in {"settle", "reqFills"}
        /\ rec'["main"].step = "settle" => R.subm = {}
    BY <2>1, <1>t DEF Recovery
  <2>3. ASSUME NEW o \in Orders, PendingUpdates("main")[o] # "keep"
        PROVE  Sent(o) /\ row[o] = "pending_submit"
    BY <1>a, <2>1, <2>3 DEF PendingUpdates
  <2>4. row' = row
    BY <1>4 DEF SettlePending, dbVars
  <2>. QED
    BY <2>1, <2>2, <2>3, <2>4, <1>a, <1>o, <1>s, <1>u DEF Snapshots, Asked
<1>5. CASE ReqExecutions("main")
  <2>1. /\ rec'["main"] = [R EXCEPT !.step = "settle",
                                    !.execs = {o \in Orders : live[o] = "filled"}]
        /\ R.step = "reqFills"
    BY <1>5, <1>t DEF ReqExecutions, RecoveryStep
  <2>2. /\ rec'["main"].pend = R.pend /\ rec'["main"].subm = R.subm /\ rec'["main"].open = R.open
        /\ rec'["main"].buf = R.buf /\ rec'["main"].step = "settle"
        /\ rec'["main"].execs = {o \in Orders : live[o] = "filled"}
    BY <2>1, <1>t DEF Recovery
  <2>3. \A o \in R.subm \ R.open : live[o] # "working"
    BY <1>a, <2>1 DEF Asked
  <2>4. \A o \in (R.subm \ R.open) \ {x \in Orders : live[x] = "filled"} : Dead(o)
    BY <2>3, <1>o, <1>t DEF Dead
  <2>5. row' = row
    BY <1>5 DEF ReqExecutions, dbVars
  <2>. QED
    BY <2>1, <2>2, <2>3, <2>4, <2>5, <1>a, <1>o, <1>s, <1>u DEF Snapshots, Asked
<1>6. ASSUME NEW o \in Orders, StillOpen("main", o) \/ FoundFill("main", o) PROVE Snapshots'
  <2>1. /\ R.step = "settle" /\ o \in R.subm
        /\ \/ rec'["main"] = [R EXCEPT !.subm = @ \ {o}]
           \/ rec'["main"] = [R EXCEPT !.subm = @ \ {o}, !.step = "checking", !.cur = o]
    BY <1>6, <1>t DEF StillOpen, FoundFill, RecoveryStep
  <2>2. /\ rec'["main"].pend = R.pend /\ rec'["main"].subm = R.subm \ {o} /\ rec'["main"].open = R.open
        /\ rec'["main"].buf = R.buf /\ rec'["main"].execs = R.execs
        /\ rec'["main"].step = "settle" \/ (rec'["main"].step = "checking" /\ rec'["main"].cur = o)
    BY <2>1, <1>t DEF Recovery
  <2>3. row' = row
    BY <1>6 DEF StillOpen, FoundFill, dbVars
  <2>. QED
    BY <2>1, <2>2, <2>3, <1>a, <1>o, <1>s, <1>u DEF Snapshots, Asked
<1>7. ASSUME NEW o \in Orders, NotFound("main", o) PROVE Snapshots'
  <2>1. /\ R.step = "settle" /\ o \in (R.subm \ R.open) \ R.execs
        /\ rec'["main"] = [R EXCEPT !.subm = @ \ {o}, !.buf[o] = "cancelled"]
    BY <1>7, <1>t DEF NotFound, RecoveryStep
  <2>2. /\ rec'["main"].pend = R.pend /\ rec'["main"].subm = R.subm \ {o} /\ rec'["main"].open = R.open
        /\ rec'["main"].buf = [R.buf EXCEPT ![o] = "cancelled"] /\ rec'["main"].execs = R.execs
        /\ rec'["main"].step = "settle"
    BY <2>1, <1>t DEF Recovery
  <2>3. Sent(o) /\ Dead(o)
    BY <2>1, <1>a
  <2>4. row' = row
    BY <1>7 DEF NotFound, dbVars
  <2>. QED
    BY <2>1, <2>2, <2>3, <2>4, <1>a, <1>o, <1>s, <1>u DEF Snapshots, Asked
<1>8. CASE RecoveryChecks("main")
  <2> DEFINE seen == Committed("main")[R.cur]
  <2>1. /\ R.step = "checking"
        /\ rec'["main"] = [R EXCEPT !.step = IF seen = "filled" THEN "settle" ELSE "recording",
                                    !.cur = IF seen = "filled" THEN NoOrder ELSE @]
    BY <1>8, <1>t DEF RecoveryChecks, RecoveryStep
  <2> HIDE DEF seen
  <2>2. /\ rec'["main"].pend = R.pend /\ rec'["main"].subm = R.subm /\ rec'["main"].open = R.open
        /\ rec'["main"].buf = R.buf /\ rec'["main"].execs = R.execs
        /\ rec'["main"].step = "settle" \/ (rec'["main"].step = "recording" /\ rec'["main"].cur = R.cur)
    BY <2>1, <1>t DEF Recovery
  <2>3. row' = row
    BY <1>8 DEF RecoveryChecks, dbVars
  <2>4. R.cur \in Orders
    BY <2>1 DEF BooksInv, RunEvidence, Runs
  <2>. QED
    BY <2>1, <2>2, <2>3, <2>4, <1>a, <1>o, <1>s, <1>u DEF Snapshots, Asked
<1>9. CASE RecoveryRecords("main")
  <2>1. /\ R.step = "recording"
        /\ rec'["main"] = [R EXCEPT !.step = "settle", !.cur = NoOrder, !.buf = NoWrites]
    BY <1>9, <1>t DEF RecoveryRecords, RecoveryStep
  <2>2. /\ rec'["main"].pend = R.pend /\ rec'["main"].subm = R.subm /\ rec'["main"].open = R.open
        /\ rec'["main"].buf = NoWrites /\ rec'["main"].execs = R.execs
        /\ rec'["main"].step = "settle"
    BY <2>1, <1>t DEF Recovery
  <2>. QED
    BY <2>1, <2>2, <1>a, <1>o, <1>s, <1>u DEF Snapshots, Asked, NoWrites
<1>10. CASE FinishRecovery("main") \/ RecoveryFails("main")
  <2>1. rec'["main"] = IdleRun
    BY <1>10, <1>t DEF FinishRecovery, RecoveryFails, RecoveryStep, Abandon
  <2>. QED
    BY <2>1 DEF Snapshots, IdleRun, NoWrites, Asked
<1>. QED
  BY <1>1, <1>2, <1>3, <1>4, <1>5, <1>6, <1>7, <1>8, <1>9, <1>10 DEF Recover

\* A step beside the run: what it read and what it buffered still holds.
LEMMA SnapshotsFrame ==
    ASSUME BooksInv, RowsOfTasks, Snapshots, [Next]_vars,
           \A r \in Runs : ~RecoveryRecords(r) /\ ~FinishRecovery(r),
           \/ rec'["main"] = rec["main"]
           \/ rec'["main"] = [rec["main"] EXCEPT !.step = "readPending"]
    PROVE  Snapshots'
<1> DEFINE R == rec["main"]
<1>t. /\ R \in Recovery /\ TypeOK
  BY DEF BooksInv, TypeOK, Runs
<1>o. R.pend \subseteq Orders /\ R.subm \subseteq Orders
  BY <1>t DEF Recovery
<1>1. /\ rec'["main"].pend = R.pend /\ rec'["main"].subm = R.subm /\ rec'["main"].open = R.open
      /\ rec'["main"].buf = R.buf /\ rec'["main"].execs = R.execs /\ rec'["main"].cur = R.cur
      /\ rec'["main"].step \in {R.step, "readPending"}
  BY <1>t DEF Recovery
<1>2. \A o \in Orders : Sent(o) =>
        /\ Sent(o)'
        /\ live[o] # "working" => live'[o] # "working"
        /\ Dead(o) => Dead(o)'
        /\ row[o] = "pending_submit" => row'[o] = "pending_submit"
  BY <1>t, SentStays, SentEnds, PendingStays
<1>3. R.step \in {"checking", "recording"} => R.cur \in Orders
  BY DEF BooksInv, RunEvidence, Runs
<1>. QED
  BY <1>1, <1>2, <1>3, <1>o DEF Snapshots, Asked

LEMMA SnapshotsStep ==
    ASSUME BooksInv, Quiet, RowsOfTasks, Snapshots, rec["command"] = IdleRun, [Next]_vars, ~Reconcile
    PROVE  Snapshots'
<1>t. /\ rec \in [Runs -> Recovery] /\ "main" \in Runs /\ "command" \in Runs /\ TypeOK
      /\ Runs = {"main", "command"}
  BY DEF BooksInv, TypeOK, Runs
<1>1. CASE Recover("main")
  BY <1>1, MainSnapshots
<1>2. rec'["main"] = IdleRun => Snapshots'
  BY DEF Snapshots, IdleRun, NoWrites, Asked
<1>3. Recover("command") => FALSE
  BY DEF Recover, IdleRun, RecoveryStep, ReadPending, ReadSubmitted, ReqOpenOrders, SettlePending,
     ReqExecutions, StillOpen, FoundFill, NotFound, RecoveryChecks, RecoveryRecords, FinishRecovery,
     RecoveryFails
<1>4. ASSUME NEW r \in Runs, RecoveryLockTimeout(r) PROVE rec'["main"] \in {rec["main"], IdleRun}
  BY <1>4, <1>t DEF RecoveryLockTimeout, Abandon
<1>5. Disconnect \/ Crash => rec'["main"] = IdleRun
  BY <1>t DEF Disconnect, Abandon, Crash
<1>6. Reconnect \/ Restart => rec'["main"] = [rec["main"] EXCEPT !.step = "readPending"]
  BY <1>t DEF Reconnect, Restart
<1>7. ASSUME ~Recover("main") PROVE \A r \in Runs : ~RecoveryRecords(r) /\ ~FinishRecovery(r)
  BY <1>3, <1>7, <1>t DEF Recover
<1>. QED
  BY <1>1, <1>2, <1>3, <1>4, <1>5, <1>6, <1>7, <1>t, SnapshotsFrame, RecWriters

LEMMA KeptStep ==
    BooksInv /\ WrittenOffInv /\ KeptInv /\ [Next]_vars => KeptInv'
<1> SUFFICES ASSUME BooksInv, WrittenOffInv, KeptInv, [Next]_vars PROVE KeptInv'
  OBVIOUS
<1>1. \A o \in Orders : pc'[o] = "dropping" => o \in cancelReq' \/ live'[o] = "cancelled"
  BY DroppingStep DEF WrittenOffInv, KeptInv
<1>2. ASSUME used'["reconcile"] = 0 PROVE RowsOfTasks' /\ Snapshots'
  <2>1. used["reconcile"] = 0 /\ ~Reconcile
    BY <1>2, NoReconcile DEF BooksInv
  <2>2. RowsOfTasks /\ Snapshots /\ Quiet /\ rec["command"] = IdleRun
    BY <2>1 DEF KeptInv, WrittenOffInv
  <2>3. RowsOfTasks'
    BY <2>2, RowsOfTasksStep DEF RowsOfTasks
  <2>. QED
    BY <2>1, <2>2, <2>3, SnapshotsStep
<1>. QED
  BY <1>1, <1>2 DEF KeptInv

LEMMA KeptHolds == Spec => [](BooksInv /\ WrittenOffInv /\ KeptInv)
<1>1. Init => KeptInv
  BY DEF Init, KeptInv, RowsOfTasks, MidSubmit, Snapshots, IdleRun, NoWrites, Asked, Runs
<1>. QED
  BY <1>1, KeptStep, WrittenOffHolds, PTL DEF Spec

\* A filled order whose row says 'submitted' and that nobody asked to cancel
\* is never written off, and a booked one stays booked, by no monitor and no
\* recovery run, over any crashes, disconnects and lock timeouts and for any
\* number of orders; /reconcile, which looks at rows mid-submit, is excluded.
THEOREM SubmittedFillKept == Spec => SubmittedFillIsKept
<1>1. BooksInv /\ WrittenOffInv /\ KeptInv /\ [Next]_vars
        => [used["reconcile"] = 0 =>
              \A o \in Orders :
                  /\ row[o] \in {"submitted", "filled"}
                  /\ live[o] = "filled"
                  /\ o \notin cancelReq
                  => row'[o] \in {row[o], "filled"}]_vars
  <2> SUFFICES ASSUME BooksInv, WrittenOffInv, KeptInv, [Next]_vars, used["reconcile"] = 0,
                      NEW x \in Orders, row[x] \in {"submitted", "filled"}, live[x] = "filled",
                      x \notin cancelReq, row'[x] # row[x]
               PROVE  row'[x] = "filled"
    OBVIOUS
  <2>t. row \in [Orders -> Status] /\ RowsOfTasks /\ Snapshots /\ rec["command"] = IdleRun
    BY DEF BooksInv, TypeOK, KeptInv, WrittenOffInv
  <2>1. ASSUME NEW r \in Runs, RecoveryRecords(r) \/ FinishRecovery(r) PROVE row'[x] = "filled"
    BY <2>1, <2>t, CommitSent DEF Dead
  <2>2. ASSUME NEW o \in Orders, SubmitIntent(o) \/ \E n \in Orders : RetryIntent(n, o) PROVE FALSE
    BY <2>2, <2>t DEF SubmitIntent, RetryIntent, Intend, SetRow
  <2>3. ASSUME NEW o \in Orders,
               \/ PlaceFailed(o) \/ Ack(o) \/ SeeCancelled(o)
               \/ MarkRepriced(o) \/ Drop(o) \/ RecordFill(o)
        PROVE  row'[x] = "filled"
    <3>1. o = x
      BY <2>3, <2>t DEF PlaceFailed, Ack, SeeCancelled, MarkRepriced, Drop, RecordFill, SetRow
    <3>2. pc[x] \notin {"failed", "acking"}
      BY <2>t DEF RowsOfTasks, MidSubmit
    <3>3. view[x] # "cancelled" /\ pc[x] # "cancelling" /\ pc[x] # "dropping"
      BY DEF WrittenOffInv, TaskTruth, KeptInv
    <3>. QED
      BY <2>3, <2>t, <3>1, <3>2, <3>3
         DEF PlaceFailed, Ack, SeeCancelled, MarkRepriced, Drop, RecordFill, SetRow
  <2>. QED
    BY <2>1, <2>2, <2>3, RowWriters
<1>. QED
  BY <1>1, KeptHolds, PTL DEF Spec, SubmittedFillIsKept

-----------------------------------------------------------------------------
(***************************************************************************)
(* RecordsBounded.  A record made by a monitor or by recovery puts 'filled'*)
(* into the row; from then on the order is nobody's to check again but the *)
(* one who had checked it before.                                          *)
(***************************************************************************)
\* The run of startup or reconnect has this order still to settle.
Waiting(o) ==
    LET M == rec["main"]
    IN  o \in M.subm \/ (M.step \in {"checking", "recording"} /\ M.cur = o)

TaskRecords(o) == IF pc[o] = "recording" THEN 1 ELSE 0
RunRecords(o)  == IF rec["main"].step = "recording" /\ rec["main"].cur = o THEN 1 ELSE 0

\* The records an order has or is about to get without another look at its row.
Records(o) == trades[o] + TaskRecords(o) + RunRecords(o)

\* Once recorded, whoever still checks the row will find it 'filled'.
Recorded(o) ==
    /\ row[o] \notin {"none", "pending_submit", "submitted"}
    /\ pc[o] \in {"polling", "retrying", "checking"} => row[o] = "filled"
    /\ Waiting(o) => row[o] = "filled" /\ pc[o] = "none"

\* The run has taken the order it records off its list.
TakenOff ==
    rec["main"].step \in {"checking", "recording"} => rec["main"].cur \notin rec["main"].subm

RecordInv ==
    /\ TakenOff
    /\ used["disconnect"] = 0 => Apart
    /\ \A o \in Orders :
         /\ trades[o] > 0 => Recorded(o)
         /\ Records(o) <= IF used["disconnect"] = 0 THEN 1 ELSE 2

\* Who adds records.
LEMMA TradesWriters ==
    [Next]_vars =>
        \/ UNCHANGED trades
        \/ \E o \in Orders : RecordFill(o)
        \/ \E r \in Runs : RecoveryRecords(r)
<1> USE DEF dbVars, taskVars, recVars, brokerVars, envVars
<1>1. Command => UNCHANGED trades
  BY DEF Command, Approve, ApproveRefused, SubmitIntent, Intend, MarkApproved, Reconcile
<1>2. ASSUME NEW o \in Orders, OrderTask(o) PROVE UNCHANGED trades \/ RecordFill(o)
  BY <1>2 DEF OrderTask, Place, PlaceFailed, Ack, SeeFilled, SeeCancelled, RepriceTimeout,
              MarkRepriced, RetryIntent, Intend, GiveUp, Drop, CheckRecorded
<1>3. ASSUME NEW r \in Runs, Recover(r) PROVE UNCHANGED trades \/ RecoveryRecords(r)
  BY <1>3 DEF Recover, ReadPending, ReadSubmitted, ReqOpenOrders, SettlePending, ReqExecutions,
              StillOpen, FoundFill, NotFound, RecoveryChecks, FinishRecovery, RecoveryFails
<1>4. Fault \/ Environment => UNCHANGED trades
  BY DEF Fault, TaskLockTimeout, CommandLockTimeout, RecoveryLockTimeout, Disconnect, Crash,
         Environment, BrokerFill, BrokerCancel, Deliver, SetGate, Reconnect, Restart
<1>. QED
  BY <1>1, <1>2, <1>3, <1>4 DEF Next, vars

\* A task comes to look at its order's row from the acknowledgement only, and
\* to record it from a look that did not find 'filled'.
LEMMA TaskLooks ==
    ASSUME TypeOK, [Next]_vars, NEW x \in Orders
    PROVE  /\ pc'[x] \in {"polling", "retrying", "checking"} =>
                pc[x] \in {"acking", "polling", "retrying", "checking"}
           /\ pc'[x] = "recording" =>
                \/ pc[x] = "recording" /\ ~RecordFill(x)
                \/ pc[x] = "checking" /\ row[x] # "filled" /\ CheckRecorded(x)
<1>t. pc \in [Orders -> Steps]
  BY DEF TypeOK
<1> DEFINE Looks == /\ pc'[x] \in {"polling", "retrying", "checking"} =>
                         pc[x] \in {"acking", "polling", "retrying", "checking"}
                    /\ pc'[x] = "recording" =>
                         \/ pc[x] = "recording" /\ ~RecordFill(x)
                         \/ pc[x] = "checking" /\ row[x] # "filled" /\ CheckRecorded(x)
<1>0. RecordFill(x) => pc'[x] = "none"
  BY <1>t DEF RecordFill, GoTo
<1>1. pc'[x] \in {pc[x], "none", "placing", "failed", "acking", "cancelling", "repricing", "dropping"}
        => Looks
  BY <1>0, <1>t DEF Steps
<1>2. ASSUME NEW o \in Orders, OrderTask(o) PROVE Looks
  <2>1. ASSUME NEW n \in Orders, RetryIntent(o, n) PROVE Looks
    BY <1>1, <2>1, <1>t DEF RetryIntent
  <2>2. CASE Place(o) \/ PlaceFailed(o) \/ SeeCancelled(o) \/ RepriceTimeout(o)
    BY <1>1, <2>2, <1>t DEF Place, PlaceFailed, SeeCancelled, RepriceTimeout, GoTo
  <2>3. CASE MarkRepriced(o) \/ GiveUp(o) \/ Drop(o) \/ RecordFill(o)
    BY <1>1, <2>3, <1>t DEF MarkRepriced, GiveUp, Drop, RecordFill, GoTo
  <2>4. CASE Ack(o) \/ SeeFilled(o)
    BY <1>1, <2>4, <1>t, <1>0 DEF Ack, SeeFilled, GoTo
  <2>5. CASE CheckRecorded(o)
    <3>1. o # x => Looks
      BY <1>1, <2>5, <1>t DEF CheckRecorded, GoTo
    <3>2. ASSUME o = x PROVE Looks
      <4>1. CheckRecorded(x)
        BY <2>5, <3>2
      <4>2. pc[x] = "checking" /\ pc'[x] = IF row[x] = "filled" THEN "none" ELSE "recording"
        BY <4>1, <1>t DEF CheckRecorded, GoTo
      <4>. QED
        BY <4>1, <4>2
    <3>. QED
      BY <3>1, <3>2
  <2>. QED
    BY <1>2, <2>1, <2>2, <2>3, <2>4, <2>5 DEF OrderTask
<1>3. ASSUME NEW o \in Orders, SubmitIntent(o) \/ TaskLockTimeout(o) PROVE Looks
  BY <1>1, <1>3, <1>t DEF SubmitIntent, TaskLockTimeout, GoTo
<1>4. Crash => Looks
  BY <1>1 DEF Crash
<1>. QED
  BY <1>1, <1>2, <1>3, <1>4, PcWriters

\* A run comes to wait for an order by reading its row, which says 'submitted',
\* and to record it from a look that did not find 'filled'.
LEMMA MainLooks ==
    ASSUME TypeOK, TakenOff, Recover("main"), NEW x
    PROVE  /\ TakenOff'
           /\ Waiting(x)' => Waiting(x) \/ row[x] = "submitted"
           /\ RunRecords(x)' = 1 =>
                \/ RunRecords(x) = 1 /\ ~RecoveryRecords("main")
                \/ RecoveryChecks("main") /\ Waiting(x) /\ Committed("main")[x] # "filled"
           /\ RecoveryRecords("main") /\ rec["main"].cur = x => ~Waiting(x)'
<1> DEFINE R == rec["main"]
           Q == rec'["main"]
<1>t. R \in Recovery /\ "main" \in Runs /\ rec \in [Runs -> Recovery]
  BY DEF TypeOK, Runs
<1>a. R.step \in {"checking", "recording"} => R.cur \notin R.subm
  BY DEF TakenOff
<1> DEFINE Looks == /\ TakenOff'
                    /\ Waiting(x)' => Waiting(x) \/ row[x] = "submitted"
                    /\ RunRecords(x)' = 1 =>
                         \/ RunRecords(x) = 1 /\ ~RecoveryRecords("main")
                         \/ RecoveryChecks("main") /\ Waiting(x) /\ Committed("main")[x] # "filled"
                    /\ RecoveryRecords("main") /\ R.cur = x => ~Waiting(x)'
\* Every step but a look and its record shrinks the list or fills it from rows.
<1>w. ASSUME Q.step \notin {"checking", "recording"}, ~RecoveryRecords("main"),
             Q.subm \subseteq R.subm \/ Q.subm \subseteq {o \in Orders : row[o] = "submitted"}
      PROVE  Looks
  BY <1>w DEF TakenOff, Waiting, RunRecords
<1>n. R.step # "recording" => ~RecoveryRecords("main")
  BY DEF RecoveryRecords, RecoveryStep
<1> SUFFICES Looks
  OBVIOUS
<1> HIDE DEF Looks
<1>1. CASE ReadPending("main")
  <2>1. PICK P \in OldEnough("main") : Q = [R EXCEPT !.step = "readSubmitted", !.pend = P]
    BY <1>1, <1>t DEF ReadPending, RecoveryStep
  <2>2. Q.step = "readSubmitted" /\ Q.subm = R.subm /\ R.step = "readPending"
    BY <1>1, <1>t, <2>1 DEF Recovery, ReadPending, RecoveryStep
  <2>. QED
    BY <2>2, <1>w, <1>n
<1>2. CASE ReadSubmitted("main")
  <2> DEFINE S == {o \in Orders : row[o] = "submitted"}
             next == IF R.pend \cup S = {} THEN "settle" ELSE "reqOpen"
  <2>1. Q = [R EXCEPT !.step = next, !.subm = S] /\ R.step = "readSubmitted"
    BY <1>2, <1>t DEF ReadSubmitted, RecoveryStep
  <2>2. Q.step \in {"settle", "reqOpen"} /\ Q.subm = S
    BY <2>1, <1>t DEF Recovery
  <2>. QED
    BY <2>1, <2>2, <1>w, <1>n
<1>3. CASE ReqOpenOrders("main") \/ ReqExecutions("main")
  <2>1. /\ \/ Q = [R EXCEPT !.step = "settlePending", !.open = {o \in Orders : live[o] = "working"}]
           \/ Q = [R EXCEPT !.step = "settle", !.execs = {o \in Orders : live[o] = "filled"}]
        /\ R.step \in {"reqOpen", "reqFills"}
    BY <1>3, <1>t DEF ReqOpenOrders, ReqExecutions, RecoveryStep
  <2>2. Q.step \in {"settle", "settlePending"} /\ Q.subm = R.subm
    BY <2>1, <1>t DEF Recovery
  <2>. QED
    BY <2>1, <2>2, <1>w, <1>n
<1>4. CASE SettlePending("main")
  <2> DEFINE next == IF R.subm = {} THEN "settle" ELSE "reqFills"
  <2>1. Q = [R EXCEPT !.step = next, !.buf = PendingUpdates("main")] /\ R.step = "settlePending"
    BY <1>4, <1>t DEF SettlePending, RecoveryStep
  <2>2. Q.step \in {"settle", "reqFills"} /\ Q.subm = R.subm
    BY <2>1, <1>t DEF Recovery
  <2>. QED
    BY <2>1, <2>2, <1>w, <1>n
<1>5. ASSUME NEW o \in Orders, StillOpen("main", o) \/ NotFound("main", o) PROVE Looks
  <2>1. /\ \/ Q = [R EXCEPT !.subm = @ \ {o}]
           \/ Q = [R EXCEPT !.subm = @ \ {o}, !.buf[o] = "cancelled"]
        /\ R.step = "settle"
    BY <1>5, <1>t DEF StillOpen, NotFound, RecoveryStep
  <2>2. Q.step = "settle" /\ Q.subm = R.subm \ {o}
    BY <2>1, <1>t DEF Recovery
  <2>. QED
    BY <2>1, <2>2, <1>w, <1>n
<1>6. ASSUME NEW o \in Orders, FoundFill("main", o) PROVE Looks
  <2>1. /\ Q = [R EXCEPT !.subm = @ \ {o}, !.step = "checking", !.cur = o]
        /\ R.step = "settle" /\ o \in R.subm
    BY <1>6, <1>t DEF FoundFill, RecoveryStep
  <2>2. Q.step = "checking" /\ Q.subm = R.subm \ {o} /\ Q.cur = o
    BY <2>1, <1>t DEF Recovery
  <2>3. RunRecords(x)' # 1
    BY <2>2 DEF RunRecords
  <2>4. TakenOff' /\ (Waiting(x)' => Waiting(x))
    BY <2>1, <2>2 DEF TakenOff, Waiting
  <2>. QED
    BY <2>1, <2>3, <2>4, <1>n DEF Looks
<1>7. CASE RecoveryChecks("main")
  <2> DEFINE seen == Committed("main")[R.cur]
  <2>1. /\ R.step = "checking"
        /\ Q = [R EXCEPT !.step = IF seen = "filled" THEN "settle" ELSE "recording",
                         !.cur = IF seen = "filled" THEN NoOrder ELSE @]
    BY <1>7, <1>t DEF RecoveryChecks, RecoveryStep
  <2>2. CASE seen = "filled"
    <3>1. Q.step = "settle" /\ Q.subm = R.subm
      BY <2>1, <2>2, <1>t DEF Recovery
    <3>. QED
      BY <2>1, <3>1, <1>w, <1>n
  <2>3. CASE seen # "filled"
    <3>1. Q.step = "recording" /\ Q.subm = R.subm /\ Q.cur = R.cur
      BY <2>1, <2>3, <1>t DEF Recovery
    <3>2. TakenOff' /\ (Waiting(x)' => Waiting(x))
      BY <2>1, <3>1, <1>a DEF TakenOff, Waiting
    <3>3. RunRecords(x)' = 1 => x = R.cur
      BY <3>1 DEF RunRecords
    <3>4. x = R.cur => Waiting(x) /\ Committed("main")[x] # "filled"
      BY <2>1, <2>3 DEF Waiting
    <3>. QED
      BY <1>7, <2>1, <3>2, <3>3, <3>4, <1>n DEF Looks
  <2>. QED
    BY <2>2, <2>3
<1>8. CASE RecoveryRecords("main")
  <2>1. /\ R.step = "recording"
        /\ Q = [R EXCEPT !.step = "settle", !.cur = NoOrder, !.buf = NoWrites]
    BY <1>8, <1>t DEF RecoveryRecords, RecoveryStep
  <2>2. Q.step = "settle" /\ Q.subm = R.subm
    BY <2>1, <1>t DEF Recovery
  <2>. QED
    BY <2>1, <2>2, <1>a DEF Looks, TakenOff, Waiting, RunRecords
<1>9. CASE FinishRecovery("main") \/ RecoveryFails("main")
  <2>1. Q = IdleRun /\ ~RecoveryRecords("main")
    BY <1>9, <1>t DEF FinishRecovery, RecoveryFails, RecoveryStep, Abandon, RecoveryRecords
  <2>2. Q.step = "idle" /\ Q.subm = {}
    BY <2>1 DEF IdleRun
  <2>. QED
    BY <2>1, <2>2, <1>w
<1>. QED
  BY <1>1, <1>2, <1>3, <1>4, <1>5, <1>6, <1>7, <1>8, <1>9 DEF Recover, Looks

\* The same for every step: beside its own a run's list only goes, with the run.
LEMMA RunLooks ==
    ASSUME TypeOK, TakenOff, rec["command"] = IdleRun, [Next]_vars, ~Reconcile, NEW x
    PROVE  /\ TakenOff'
           /\ Waiting(x)' => Waiting(x) \/ row[x] = "submitted"
           /\ RunRecords(x)' = 1 =>
                \/ RunRecords(x) = 1 /\ ~RecoveryRecords("main")
                \/ RecoveryChecks("main") /\ Waiting(x) /\ Committed("main")[x] # "filled"
           /\ RecoveryRecords("main") /\ rec["main"].cur = x => ~Waiting(x)'
<1>t. /\ rec \in [Runs -> Recovery] /\ "main" \in Runs /\ "command" \in Runs
      /\ Runs = {"main", "command"} /\ rec["main"] \in Recovery
  BY DEF TypeOK, Runs
<1>0. RecoveryRecords("main") => Recover("main")
  BY DEF Recover
<1>1. CASE Recover("main")
  BY <1>1, MainLooks
<1>2. CASE ~Recover("main") /\ rec'["main"] = IdleRun
  BY <1>0, <1>2 DEF TakenOff, Waiting, RunRecords, IdleRun
<1>3. CASE ~Recover("main") /\ rec'["main"] = rec["main"]
  BY <1>0, <1>3 DEF TakenOff, Waiting, RunRecords
<1>4. CASE ~Recover("main") /\ rec'["main"] = [rec["main"] EXCEPT !.step = "readPending"]
  <2>1. rec'["main"].step = "readPending" /\ rec'["main"].subm = rec["main"].subm
    BY <1>4, <1>t DEF Recovery
  <2>. QED
    BY <1>0, <1>4, <2>1 DEF TakenOff, Waiting, RunRecords
<1>5. Recover("command") => FALSE
  BY DEF Recover, IdleRun, RecoveryStep, ReadPending, ReadSubmitted, ReqOpenOrders, SettlePending,
     ReqExecutions, StillOpen, FoundFill, NotFound, RecoveryChecks, RecoveryRecords, FinishRecovery,
     RecoveryFails
<1>6. ASSUME NEW r \in Runs, RecoveryLockTimeout(r) PROVE rec'["main"] \in {rec["main"], IdleRun}
  BY <1>6, <1>t DEF RecoveryLockTimeout, Abandon
<1>7. Disconnect \/ Crash => rec'["main"] = IdleRun
  BY <1>t DEF Disconnect, Abandon, Crash
<1>8. Reconnect \/ Restart => rec'["main"] = [rec["main"] EXCEPT !.step = "readPending"]
  BY <1>t DEF Reconnect, Restart
<1>. QED
  BY <1>1, <1>2, <1>3, <1>4, <1>5, <1>6, <1>7, <1>8, <1>t, RecWriters

\* What a recorded order's row does next.
LEMMA RecordedRow ==
    ASSUME BooksInv, TaskTruth, RowsOfTasks, Snapshots, rec["command"] = IdleRun, [Next]_vars,
           NEW x \in Orders, trades[x] > 0, row[x] \notin {"none", "pending_submit", "submitted"}
    PROVE  /\ row'[x] \notin {"none", "pending_submit", "submitted"}
           /\ row[x] = "filled" =>
                row'[x] = "filled" \/ pc[x] \in {"cancelling", "dropping"}
<1>t. row \in [Orders -> Status] /\ live[x] = "filled"
  BY DEF BooksInv, TypeOK, BooksMatchBroker
<1>1. ASSUME NEW r \in Runs, RecoveryRecords(r) \/ FinishRecovery(r)
      PROVE  row'[x] \in {row[x], "filled"}
  BY <1>1, <1>t, CommitSent DEF Dead
<1>2. ASSUME NEW o \in Orders, SubmitIntent(o) \/ \E n \in Orders : RetryIntent(n, o)
      PROVE  row'[x] = row[x]
  BY <1>2, <1>t DEF SubmitIntent, RetryIntent, Intend, SetRow
<1>3. ASSUME NEW o \in Orders,
             \/ PlaceFailed(o) \/ Ack(o) \/ SeeCancelled(o)
             \/ MarkRepriced(o) \/ Drop(o) \/ RecordFill(o)
      PROVE  \/ row'[x] \in {row[x], "filled"}
             \/ row'[x] \in {"repriced", "cancelled"} /\ pc[x] \in {"cancelling", "dropping"}
  <2>1. CASE o # x
    BY <1>3, <2>1, <1>t DEF PlaceFailed, Ack, SeeCancelled, MarkRepriced, Drop, RecordFill, SetRow
  <2>2. CASE o = x
    <3>1. pc[x] \notin {"failed", "acking"}
      BY DEF RowsOfTasks, MidSubmit
    <3>2. view[x] # "cancelled"
      BY <1>t DEF TaskTruth
    <3>. QED
      BY <1>3, <2>2, <3>1, <3>2, <1>t
         DEF PlaceFailed, Ack, SeeCancelled, MarkRepriced, Drop, RecordFill, SetRow
  <2>. QED
    BY <2>1, <2>2
<1>. QED
  BY <1>1, <1>2, <1>3, RowWriters

LEMMA RecordedStep ==
    ASSUME BooksInv, TaskTruth, RowsOfTasks, Snapshots, rec["command"] = IdleRun, TakenOff,
           [Next]_vars, ~Reconcile, NEW x \in Orders,
           trades[x] > 0 => Recorded(x), trades'[x] > 0
    PROVE  Recorded(x)'
<1>t. /\ row \in [Orders -> Status] /\ pc \in [Orders -> Steps] /\ trades \in [Orders -> Nat]
      /\ TypeOK /\ Runs = {"main", "command"}
  BY DEF BooksInv, TypeOK, Runs
<1>1. CASE trades[x] > 0
  <2>1. Recorded(x)
    BY <1>1
  <2>2. /\ row'[x] \notin {"none", "pending_submit", "submitted"}
        /\ row[x] = "filled" => row'[x] = "filled" \/ pc[x] \in {"cancelling", "dropping"}
    BY <1>1, <2>1, RecordedRow DEF Recorded
  <2>3. pc[x] # "acking"
    BY <2>1 DEF Recorded, RowsOfTasks, MidSubmit
  <2>4. pc'[x] \in {"polling", "retrying", "checking"} => row'[x] = "filled"
    BY <2>1, <2>2, <2>3, <1>t, TaskLooks DEF Recorded
  <2>5. ASSUME Waiting(x)' PROVE row'[x] = "filled" /\ pc'[x] = "none"
    <3>1. Waiting(x)
      BY <2>1, <2>5, <1>t, RunLooks DEF Recorded
    <3>2. row[x] = "filled" /\ pc[x] = "none"
      BY <2>1, <3>1 DEF Recorded
    <3>3. ~SubmitIntent(x) /\ \A n \in Orders : ~RetryIntent(n, x)
      BY <3>2 DEF SubmitIntent, RetryIntent, Intend
    <3>. QED
      BY <2>2, <3>2, <3>3, <1>t, TaskFresh
  <2>. QED
    BY <2>2, <2>4, <2>5 DEF Recorded
<1>2. CASE ~(trades[x] > 0)
  <2>1. \/ RecordFill(x)
        \/ RecoveryRecords("main") /\ rec["main"].cur = x
    <3>1. ASSUME NEW o \in Orders, RecordFill(o) PROVE o = x
      BY <3>1, <1>2, <1>t DEF RecordFill
    <3>2. ASSUME NEW r \in Runs, RecoveryRecords(r) PROVE r = "main" /\ rec[r].cur = x
      <4>1. r = "main"
        BY <3>2, <1>t DEF RecoveryRecords, RecoveryStep, IdleRun
      <4>. QED
        BY <3>2, <4>1, <1>2, <1>t DEF RecoveryRecords
    <3>. QED
      BY <3>1, <3>2, <1>2, TradesWriters
  <2>2. CASE RecordFill(x)
    BY <2>2, <1>t DEF RecordFill, SetRow, GoTo, Recorded
  <2>3. CASE RecoveryRecords("main") /\ rec["main"].cur = x
    <3>1. row'[x] = "filled"
      BY <2>3, <1>t, CommittedType DEF RecoveryRecords
    <3>2. ~Waiting(x)'
      BY <2>3, <1>t, RunLooks
    <3>. QED
      BY <3>1, <3>2 DEF Recorded
  <2>. QED
    BY <2>1, <2>2, <2>3
<1>. QED
  BY <1>1, <1>2

\* A record is begun only for an order without one, and ends as one.
LEMMA RecordsStep ==
    ASSUME BooksInv, RowsOfTasks, Snapshots, rec["command"] = IdleRun, TakenOff,
           [Next]_vars, ~Reconcile, NEW x \in Orders, trades[x] > 0 => Recorded(x)
    PROVE  /\ Records(x) \in Nat /\ Records(x)' \in Nat
           /\ \/ Records(x)' <= Records(x)
              \/ /\ CheckRecorded(x) /\ pc[x] = "checking"
                 /\ Records(x)' = 1 + RunRecords(x)
              \/ /\ RecoveryChecks("main")
                 /\ Records(x)' = 1 + TaskRecords(x)
<1>t. /\ row \in [Orders -> Status] /\ pc \in [Orders -> Steps] /\ trades \in [Orders -> Nat]
      /\ TypeOK /\ Runs = {"main", "command"}
  BY DEF BooksInv, TypeOK, Runs
<1>n. trades[x] \in Nat /\ trades'[x] \in Nat
  <2>1. \A r \in Runs : RecoveryRecords(r) => trades'[x] \in Nat
    BY <1>t DEF RecoveryRecords
  <2>2. \A o \in Orders : RecordFill(o) => trades'[x] \in Nat
    BY <1>t DEF RecordFill
  <2>. QED
    BY <1>t, <2>1, <2>2, TradesWriters
<1>b. /\ TaskRecords(x) \in {0, 1} /\ TaskRecords(x)' \in {0, 1}
      /\ RunRecords(x) \in {0, 1} /\ RunRecords(x)' \in {0, 1}
  BY DEF TaskRecords, RunRecords
<1>1. CASE RecordFill(x)
  <2>1. trades'[x] = trades[x] + 1 /\ pc[x] = "recording" /\ pc'[x] = "none" /\ rec' = rec
    BY <1>1, <1>t DEF RecordFill, GoTo, recVars
  <2>2. TaskRecords(x) = 1 /\ TaskRecords(x)' = 0 /\ RunRecords(x)' = RunRecords(x)
    BY <2>1 DEF TaskRecords, RunRecords
  <2>. QED
    BY <2>1, <2>2, <1>n, <1>b DEF Records
<1>2. CASE RecoveryRecords("main") /\ rec["main"].cur = x
  <2>1. trades'[x] = trades[x] + 1 /\ rec["main"].step = "recording" /\ pc' = pc
    BY <1>2, <1>t DEF RecoveryRecords, RecoveryStep, taskVars
  <2>2. RunRecords(x) = 1 /\ RunRecords(x)' # 1 /\ TaskRecords(x)' = TaskRecords(x)
    <3>1. ~RecoveryChecks("main")
      BY <2>1 DEF RecoveryChecks, RecoveryStep
    <3>. QED
      BY <2>1, <1>2, <3>1, <1>t, RunLooks DEF TaskRecords, RunRecords
  <2>. QED
    BY <2>1, <2>2, <1>n, <1>b DEF Records
<1>3. ASSUME ~RecordFill(x), ~(RecoveryRecords("main") /\ rec["main"].cur = x)
      PROVE  trades'[x] = trades[x]
  <2>1. ASSUME NEW o \in Orders, RecordFill(o) PROVE trades'[x] = trades[x]
    BY <2>1, <1>3, <1>t DEF RecordFill
  <2>2. ASSUME NEW r \in Runs, RecoveryRecords(r) PROVE trades'[x] = trades[x]
    <3>1. r = "main"
      BY <2>2, <1>t DEF RecoveryRecords, RecoveryStep, IdleRun
    <3>. QED
      BY <2>2, <3>1, <1>3, <1>t DEF RecoveryRecords
  <2>. QED
    BY <2>1, <2>2, TradesWriters
<1>4. CASE trades'[x] = trades[x] /\ TaskRecords(x)' <= TaskRecords(x) /\ RunRecords(x)' <= RunRecords(x)
  BY <1>4, <1>n, <1>b DEF Records
<1>5. CASE /\ trades'[x] = trades[x]
           /\ TaskRecords(x)' = 1 /\ TaskRecords(x) = 0
  <2>1. CheckRecorded(x) /\ pc[x] = "checking" /\ row[x] # "filled"
    BY <1>5, <1>t, TaskLooks DEF TaskRecords
  <2>2. trades[x] = 0
    BY <2>1, <1>n DEF Recorded
  <2>3. RunRecords(x)' = RunRecords(x)
    BY <2>1 DEF CheckRecorded, recVars, RunRecords
  <2>. QED
    BY <1>5, <2>1, <2>2, <2>3, <1>b DEF Records
<1>6. CASE /\ trades'[x] = trades[x]
           /\ RunRecords(x)' = 1 /\ RunRecords(x) = 0
  <2>1. RecoveryChecks("main") /\ Waiting(x) /\ Committed("main")[x] # "filled"
    BY <1>6, <1>t, RunLooks
  <2>2. trades[x] = 0
    <3>1. ASSUME trades[x] > 0 PROVE FALSE
      <4>1. row[x] = "filled" /\ live[x] = "filled"
        BY <2>1, <3>1 DEF Recorded, BooksInv, BooksMatchBroker
      <4>2. rec["main"].buf[x] = "keep"
        BY <4>1 DEF Snapshots, Dead
      <4>. QED
        BY <2>1, <4>1, <4>2 DEF Committed
    <3>. QED
      BY <3>1, <1>n
  <2>3. TaskRecords(x)' = TaskRecords(x)
    BY <2>1 DEF RecoveryChecks, taskVars, TaskRecords
  <2>. QED
    BY <1>6, <2>1, <2>2, <2>3, <1>b DEF Records
<1>7. \/ TaskRecords(x)' <= TaskRecords(x) /\ RunRecords(x)' <= RunRecords(x)
      \/ TaskRecords(x)' = 1 /\ TaskRecords(x) = 0
      \/ RunRecords(x)' = 1 /\ RunRecords(x) = 0
  BY <1>b
<1>8. Records(x) \in Nat /\ Records(x)' \in Nat
  BY <1>n, <1>b DEF Records
<1>. QED
  BY <1>1, <1>2, <1>3, <1>4, <1>5, <1>6, <1>7, <1>8

LEMMA RecordInvStep ==
    ASSUME BooksInv, WrittenOffInv, KeptInv, RecordInv, [Next]_vars, used'["reconcile"] = 0
    PROVE  RecordInv'
<1>t. TypeOK /\ trades \in [Orders -> Nat]
  BY DEF BooksInv, TypeOK
<1>1. /\ used["reconcile"] = 0 /\ ~Reconcile /\ TakenOff
      /\ Quiet /\ TaskTruth /\ RowsOfTasks /\ Snapshots /\ rec["command"] = IdleRun
  BY <1>t, NoReconcile DEF WrittenOffInv, KeptInv, RecordInv
<1>2. ASSUME NEW x \in Orders PROVE trades'[x] > 0 => Recorded(x)'
  BY <1>1, RecordedStep DEF RecordInv
<1>3. TakenOff'
  BY <1>1, <1>t, RunLooks
<1>4. used'["disconnect"] = 0 => Apart /\ Apart'
  BY <1>1, <1>t, NoDisconnect, ApartStep DEF RecordInv
<1>5. ASSUME NEW x \in Orders
      PROVE  Records(x)' <= IF used'["disconnect"] = 0 THEN 1 ELSE 2
  <2>b. /\ TaskRecords(x) \in {0, 1} /\ RunRecords(x) \in {0, 1}
        /\ Records(x) \in Nat /\ Records(x)' \in Nat
    BY <1>1, RecordsStep DEF TaskRecords, RunRecords, RecordInv
  <2>1. CASE Records(x)' <= Records(x)
    <3>1. Records(x) <= IF used["disconnect"] = 0 THEN 1 ELSE 2
      BY DEF RecordInv
    <3>2. used'["disconnect"] = 0 => used["disconnect"] = 0
      BY <1>t, NoDisconnect
    <3>. QED
      BY <2>1, <3>1, <3>2, <2>b
  <2>2. CASE CheckRecorded(x) /\ pc[x] = "checking" /\ Records(x)' = 1 + RunRecords(x)
    <3>1. ASSUME used'["disconnect"] = 0 PROVE RunRecords(x) = 0
      <4>1. rec["main"] = IdleRun
        BY <1>1, <1>4, <2>2, <3>1 DEF Quiet, Apart
      <4>. QED
        BY <4>1 DEF RunRecords, IdleRun
    <3>. QED
      BY <2>2, <3>1, <2>b
  <2>3. CASE RecoveryChecks("main") /\ Records(x)' = 1 + TaskRecords(x)
    <3>1. ASSUME used'["disconnect"] = 0 PROVE TaskRecords(x) = 0
      <4>1. rec["main"].step = "checking"
        BY <2>3 DEF RecoveryChecks, RecoveryStep
      <4>2. phase # "running"
        BY <1>4, <3>1, <4>1 DEF Apart, IdleRun
      <4>. QED
        BY <1>1, <4>2 DEF Quiet, TaskRecords
    <3>. QED
      BY <2>3, <3>1, <2>b
  <2>. QED
    BY <1>1, <2>1, <2>2, <2>3, RecordsStep DEF RecordInv
<1>. QED
  BY <1>2, <1>3, <1>4, <1>5 DEF RecordInv

\* Before any disconnect a fill has one record, and after any number of them
\* two at most, for any orders and any number of crashes, reconnects and lock
\* timeouts, as long as nobody sends /reconcile.
THEOREM RecordsAreBounded == Spec => []RecordsBounded
<1>1. Init => RecordInv
  <2>1. ASSUME Init
        PROVE  rec["main"] = IdleRun /\ rec["command"] = IdleRun
    BY <2>1 DEF Init, Runs
  <2>2. ASSUME Init, NEW o \in Orders PROVE trades[o] = 0 /\ Records(o) = 0
    BY <2>1, <2>2 DEF Init, Records, TaskRecords, RunRecords, IdleRun
  <2>3. Init => TakenOff /\ Apart
    BY <2>1 DEF Init, TakenOff, Apart, IdleRun
  <2>. QED
    BY <2>2, <2>3 DEF RecordInv
<1>2. /\ BooksInv /\ WrittenOffInv /\ KeptInv /\ (used["reconcile"] = 0 => RecordInv) /\ [Next]_vars
      => (used["reconcile"] = 0 => RecordInv)'
  BY RecordInvStep, NoReconcile DEF BooksInv
<1>3. BooksInv /\ (used["reconcile"] = 0 => RecordInv) => RecordsBounded
  <2> SUFFICES ASSUME BooksInv, RecordInv, NEW o \in Orders
               PROVE  trades[o] <= IF used["disconnect"] = 0 THEN 1 ELSE 2
    BY DEF RecordsBounded
  <2>1. TaskRecords(o) \in {0, 1} /\ RunRecords(o) \in {0, 1} /\ trades[o] \in Nat
    BY DEF TaskRecords, RunRecords, BooksInv, TypeOK
  <2>2. Records(o) <= IF used["disconnect"] = 0 THEN 1 ELSE 2
    BY DEF RecordInv
  <2>. QED
    BY <2>1, <2>2 DEF Records
<1>. QED
  BY <1>1, <1>2, <1>3, KeptHolds, PTL DEF Spec
=============================================================================
