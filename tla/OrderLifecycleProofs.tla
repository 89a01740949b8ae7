------------------------ MODULE OrderLifecycleProofs ------------------------
(***************************************************************************)
(* Proofs about OrderLifecycle: type correctness, and the three facts that *)
(* keep the order table and the broker's book together under every fault.  *)
(***************************************************************************)
EXTENDS OrderLifecycle, TLAPS

\* A run of recovery that is idle, or one field of which is replaced, is
\* still a run of recovery: the record facts the type proof rests on.
LEMMA IdleRunType == IdleRun \in Recovery /\ NoWrites \in [Orders -> {"keep", "submitted", "cancelled"}]
BY DEF IdleRun, Recovery, NoWrites, RecSteps

LEMMA SpendType ==
    ASSUME TypeOK, NEW f \in Faults, Spend(f)
    PROVE  used' \in [Faults -> Nat]
BY DEF TypeOK, Spend

LEMMA InitType == Init => TypeOK
BY IdleRunType DEF Init, TypeOK, IdleCmd, Status, Steps, Runs, Faults

LEMMA CommandType ==
    ASSUME TypeOK, Command PROVE TypeOK'
<1> USE DEF TypeOK, dbVars, taskVars, recVars, brokerVars, envVars, IdleCmd
<1>1. ASSUME NEW p \in Proposals, Approve(p) PROVE TypeOK'
  BY <1>1 DEF Approve
<1>2. CASE ApproveRefused
  BY <1>2 DEF ApproveRefused
<1>3. ASSUME NEW o \in Orders, SubmitIntent(o) PROVE TypeOK'
  BY <1>3 DEF SubmitIntent, Intend, SetRow, GoTo, Status, Steps
<1>4. CASE MarkApproved
  BY <1>4 DEF MarkApproved
<1>5. CASE Reconcile
  <2>1. used' \in [Faults -> Nat]
    BY <1>5, SpendType DEF Reconcile, Faults
  <2>2. rec' \in [Runs -> Recovery]
    BY <1>5 DEF Reconcile, Runs, Recovery, RecSteps
  <2>3. QED
    BY <1>5, <2>1, <2>2 DEF Reconcile
<1>6. QED
  BY <1>1, <1>2, <1>3, <1>4, <1>5 DEF Command

LEMMA OrderTaskType ==
    ASSUME TypeOK, NEW o \in Orders, OrderTask(o) PROVE TypeOK'
<1> USE DEF TypeOK, dbVars, taskVars, recVars, brokerVars, envVars, IdleCmd,
            SetRow, GoTo, Status, Steps
<1>1. CASE Place(o)
  BY <1>1 DEF Place
<1>2. CASE PlaceFailed(o)
  BY <1>2 DEF PlaceFailed
<1>3. CASE Ack(o)
  BY <1>3 DEF Ack
<1>4. CASE SeeFilled(o) \/ SeeCancelled(o)
  BY <1>4 DEF SeeFilled, SeeCancelled
<1>5. CASE RepriceTimeout(o)
  BY <1>5 DEF RepriceTimeout
<1>6. CASE MarkRepriced(o) \/ Drop(o)
  BY <1>6 DEF MarkRepriced, Drop
<1>7. ASSUME NEW n \in Orders, RetryIntent(o, n) PROVE TypeOK'
  BY <1>7 DEF RetryIntent, Intend
<1>8. CASE GiveUp(o)
  BY <1>8 DEF GiveUp
<1>9. CASE CheckRecorded(o)
  BY <1>9 DEF CheckRecorded
<1>10. CASE RecordFill(o)
  BY <1>10 DEF RecordFill
<1>11. QED
  BY <1>1, <1>2, <1>3, <1>4, <1>5, <1>6, <1>7, <1>8, <1>9, <1>10
  DEF OrderTask

LEMMA CommittedType ==
    ASSUME TypeOK, NEW r \in Runs
    PROVE  Committed(r) \in [Orders -> Status]
BY DEF TypeOK, Committed, Recovery, Status

LEMMA RecoverType ==
    ASSUME TypeOK, NEW r \in Runs, Recover(r) PROVE TypeOK'
<1> USE DEF TypeOK, dbVars, taskVars, recVars, brokerVars, envVars,
            RecoveryStep
<1>0. rec[r] \in Recovery
  OBVIOUS
<1>1. CASE ReadPending(r)
  <2>1. PICK P \in OldEnough(r) :
          rec' = [rec EXCEPT ![r] =
                    [rec[r] EXCEPT !.step = "readSubmitted", !.pend = P]]
    BY <1>1 DEF ReadPending
  <2>2. P \in SUBSET Orders
    BY DEF OldEnough
  <2>3. rec' \in [Runs -> Recovery]
    BY <1>0, <2>1, <2>2 DEF Recovery, RecSteps
  <2>4. QED
    BY <1>1, <2>3 DEF ReadPending
<1>2. CASE ReadSubmitted(r)
  <2>1. rec' \in [Runs -> Recovery]
    BY <1>0, <1>2 DEF ReadSubmitted, Recovery, RecSteps
  <2>2. QED
    BY <1>2, <2>1 DEF ReadSubmitted
<1>3. CASE ReqOpenOrders(r)
  <2>1. rec' \in [Runs -> Recovery]
    BY <1>0, <1>3 DEF ReqOpenOrders, Recovery, RecSteps
  <2>2. QED
    BY <1>3, <2>1 DEF ReqOpenOrders
<1>4. CASE SettlePending(r)
  <2>0. PendingUpdates(r) \in [Orders -> {"keep", "submitted", "cancelled"}]
    BY DEF PendingUpdates
  <2>1. ASSUME NEW s \in RecSteps
        PROVE  [rec[r] EXCEPT !.step = s, !.buf = PendingUpdates(r)] \in Recovery
    BY <1>0, <2>0 DEF Recovery
  <2>2. rec' \in [Runs -> Recovery]
    <3>1. CASE rec[r].subm = {}
      BY <1>4, <2>1, <3>1 DEF SettlePending, RecSteps
    <3>2. CASE rec[r].subm # {}
      BY <1>4, <2>1, <3>2 DEF SettlePending, RecSteps
    <3>3. QED
      BY <3>1, <3>2
  <2>3. QED
    BY <1>4, <2>2 DEF SettlePending
<1>5. CASE ReqExecutions(r)
  <2>1. rec' \in [Runs -> Recovery]
    BY <1>0, <1>5 DEF ReqExecutions, Recovery, RecSteps
  <2>2. QED
    BY <1>5, <2>1 DEF ReqExecutions
<1>6. ASSUME NEW o \in Orders, StillOpen(r, o) \/ FoundFill(r, o) \/ NotFound(r, o)
      PROVE  TypeOK'
  <2>1. CASE StillOpen(r, o)
    <3>1. rec' \in [Runs -> Recovery]
      BY <1>0, <2>1 DEF StillOpen, Recovery, RecSteps
    <3>2. QED
      BY <2>1, <3>1 DEF StillOpen
  <2>0. CASE FoundFill(r, o)
    <3>1. [rec[r] EXCEPT !.subm = @ \ {o}, !.step = "checking", !.cur = o]
            \in Recovery
      BY <1>0 DEF Recovery, RecSteps
    <3>2. rec' \in [Runs -> Recovery]
      BY <2>0, <3>1 DEF FoundFill
    <3>3. QED
      BY <2>0, <3>2 DEF FoundFill
  <2>2. CASE NotFound(r, o)
    <3>1. [rec[r].buf EXCEPT ![o] = "cancelled"]
            \in [Orders -> {"keep", "submitted", "cancelled"}]
      BY <1>0 DEF Recovery
    <3>2. [rec[r] EXCEPT !.subm = @ \ {o}, !.buf[o] = "cancelled"] \in Recovery
      BY <1>0, <3>1 DEF Recovery
    <3>3. rec' \in [Runs -> Recovery]
      BY <2>2, <3>2 DEF NotFound
    <3>4. QED
      BY <2>2, <3>3 DEF NotFound
  <2>3. QED
    BY <1>6, <2>0, <2>1, <2>2
<1>7. CASE RecoveryChecks(r)
  <2>1. rec' \in [Runs -> Recovery]
    BY <1>0, <1>7 DEF RecoveryChecks, Recovery, RecSteps
  <2>2. QED
    BY <1>7, <2>1 DEF RecoveryChecks
<1>8. CASE RecoveryRecords(r)
  <2>1. rec' \in [Runs -> Recovery]
    BY <1>0, <1>8, IdleRunType DEF RecoveryRecords, Recovery, RecSteps
  <2>2. row' \in [Orders -> Status]
    BY <1>8, CommittedType DEF RecoveryRecords, Status
  <2>3. QED
    BY <1>8, <2>1, <2>2 DEF RecoveryRecords
<1>9. CASE FinishRecovery(r)
  <2>1. row' \in [Orders -> Status] /\ rec' \in [Runs -> Recovery]
    BY <1>9, CommittedType, IdleRunType DEF FinishRecovery
  <2>2. QED
    BY <1>9, <2>1 DEF FinishRecovery
<1>10. CASE RecoveryFails(r)
  BY <1>10, IdleRunType DEF RecoveryFails, Abandon
<1>11. QED
  BY <1>1, <1>2, <1>3, <1>4, <1>5, <1>6, <1>7, <1>8, <1>9, <1>10 DEF Recover

LEMMA FaultType ==
    ASSUME TypeOK, Fault PROVE TypeOK'
<1> USE DEF TypeOK, dbVars, taskVars, recVars, brokerVars, envVars, Runs,
            Abandon
<1>1. ASSUME NEW o \in Orders, TaskLockTimeout(o) PROVE TypeOK'
  BY <1>1, SpendType DEF TaskLockTimeout, Faults, GoTo, Steps, IdleCmd
<1>2. CASE CommandLockTimeout
  BY <1>2, SpendType DEF CommandLockTimeout, Faults, IdleCmd
<1>3. ASSUME NEW r \in Runs, RecoveryLockTimeout(r) PROVE TypeOK'
  BY <1>3, SpendType, IdleRunType DEF RecoveryLockTimeout, Faults
<1>4. CASE Disconnect
  BY <1>4, SpendType, IdleRunType DEF Disconnect, Faults
<1>5. CASE Crash
  BY <1>5, SpendType, IdleRunType DEF Crash, Faults, Steps, IdleCmd
<1>6. QED
  BY <1>1, <1>2, <1>3, <1>4, <1>5 DEF Fault

LEMMA EnvironmentType ==
    ASSUME TypeOK, Environment PROVE TypeOK'
<1> USE DEF TypeOK, dbVars, taskVars, recVars, brokerVars, envVars
<1>1. ASSUME NEW o \in Orders, BrokerFill(o) \/ BrokerCancel(o) \/ Deliver(o)
      PROVE  TypeOK'
  BY <1>1 DEF BrokerFill, BrokerCancel, Deliver
<1>2. CASE SetGate
  BY <1>2 DEF SetGate
<1>3. CASE Reconnect \/ Restart
  <2>1. rec' \in [Runs -> Recovery]
    BY <1>3 DEF Reconnect, Restart, Runs, Recovery, RecSteps
  <2>2. QED
    BY <1>3, <2>1 DEF Reconnect, Restart
<1>4. QED
  BY <1>1, <1>2, <1>3 DEF Environment

\* Every reachable state of the order life cycle is well typed.
THEOREM TypeCorrect == Spec => []TypeOK
<1>1. TypeOK /\ [Next]_vars => TypeOK'
  <2>1. CASE Next
    BY <2>1, CommandType, OrderTaskType, RecoverType, FaultType,
       EnvironmentType DEF Next
  <2>2. CASE UNCHANGED vars
    BY <2>2 DEF vars, dbVars, taskVars, recVars, brokerVars, envVars, TypeOK
  <2>3. QED
    BY <2>1, <2>2
<1>2. QED
  BY <1>1, InitType, PTL DEF Spec

-----------------------------------------------------------------------------
(***************************************************************************)
(* WriteAhead and BooksMatchBroker are not inductive by themselves: the    *)
(* steps that place or record an order act on what a task or a recovery    *)
(* run saw earlier.  Evidence says that what they saw is still true.       *)
(***************************************************************************)
TaskEvidence ==
    \A o \in Orders :
        /\ pc[o] # "none" => row[o] # "none"
        /\ pc[o] = "placing" => live[o] = "absent"
        /\ view[o] = "filled" => live[o] = "filled"
        /\ pc[o] \in {"checking", "recording"} => live[o] = "filled"

RunEvidence ==
    \A r \in Runs :
        /\ \A o \in rec[r].execs : live[o] = "filled"
        /\ rec[r].step \in {"checking", "recording"} =>
              rec[r].cur \in Orders /\ live[rec[r].cur] = "filled"

BooksInv ==
    TypeOK /\ TaskEvidence /\ RunEvidence /\ WriteAhead /\ BooksMatchBroker

LEMMA BooksInit == Init => BooksInv
BY InitType DEF Init, BooksInv, TaskEvidence, RunEvidence, WriteAhead,
   BooksMatchBroker, IdleRun, Runs

LEMMA CommandBooks ==
    ASSUME BooksInv, Command PROVE BooksInv'
<1> USE DEF BooksInv, TaskEvidence, RunEvidence, WriteAhead, BooksMatchBroker,
            dbVars, taskVars, recVars, brokerVars, envVars, TypeOK
<1>0. TypeOK'
  BY CommandType
<1>1. ASSUME NEW p \in Proposals, Approve(p) PROVE BooksInv'
  BY <1>0, <1>1 DEF Approve
<1>2. CASE ApproveRefused
  BY <1>0, <1>2 DEF ApproveRefused
<1>3. ASSUME NEW o \in Orders, SubmitIntent(o) PROVE BooksInv'
  BY <1>0, <1>3 DEF SubmitIntent, Intend, SetRow, GoTo
<1>4. CASE MarkApproved
  BY <1>0, <1>4 DEF MarkApproved
<1>5. CASE Reconcile
  <2>1. RunEvidence'
    BY <1>5 DEF Reconcile, Runs, Recovery
  <2>2. QED
    BY <1>0, <1>5, <2>1 DEF Reconcile
<1>6. QED
  BY <1>1, <1>2, <1>3, <1>4, <1>5 DEF Command

LEMMA OrderTaskBooks ==
    ASSUME BooksInv, NEW o \in Orders, OrderTask(o) PROVE BooksInv'
<1> USE DEF BooksInv, TaskEvidence, RunEvidence, WriteAhead, BooksMatchBroker,
            dbVars, taskVars, recVars, brokerVars, envVars, TypeOK, SetRow, GoTo
<1>0. TypeOK'
  BY OrderTaskType
<1>1. CASE Place(o)
  <2>1. \A x \in Orders : x # o => live'[x] = live[x]
    BY <1>1 DEF Place
  <2>2. live[o] = "absent" /\ row[o] # "none"
    BY <1>1 DEF Place
  <2>3. \A x \in Orders : live[x] # "absent" => live'[x] = live[x]
    BY <2>1, <2>2
  <2>4. TaskEvidence'
    BY <1>1, <2>1, <2>2 DEF Place
  <2>5. RunEvidence'
    <3>1. \A r \in Runs : rec[r] \in Recovery
      OBVIOUS
    <3>2. QED
      BY <1>1, <2>3, <3>1 DEF Place, Recovery
  <2>6. WriteAhead' /\ BooksMatchBroker'
    BY <1>1, <2>1, <2>2, <2>3 DEF Place
  <2>7. QED
    BY <1>0, <2>4, <2>5, <2>6
<1>2. CASE PlaceFailed(o)
  BY <1>0, <1>2 DEF PlaceFailed
<1>3. CASE Ack(o)
  BY <1>0, <1>3 DEF Ack
<1>4. CASE SeeFilled(o) \/ SeeCancelled(o)
  BY <1>0, <1>4 DEF SeeFilled, SeeCancelled
<1>5. CASE RepriceTimeout(o)
  BY <1>0, <1>5 DEF RepriceTimeout
<1>6. CASE MarkRepriced(o) \/ Drop(o)
  BY <1>0, <1>6 DEF MarkRepriced, Drop
<1>7. ASSUME NEW n \in Orders, RetryIntent(o, n) PROVE BooksInv'
  BY <1>0, <1>7 DEF RetryIntent, Intend
<1>8. CASE GiveUp(o)
  BY <1>0, <1>8 DEF GiveUp
<1>9. CASE CheckRecorded(o)
  BY <1>0, <1>9 DEF CheckRecorded
<1>10. CASE RecordFill(o)
  <2>1. live[o] = "filled"
    BY <1>10 DEF RecordFill
  <2>2. trades'[o] > 0
    BY <1>10 DEF RecordFill
  <2>3. BooksMatchBroker'
    BY <1>10, <2>1, <2>2 DEF RecordFill
  <2>4. TaskEvidence' /\ RunEvidence' /\ WriteAhead'
    BY <1>10 DEF RecordFill
  <2>5. QED
    BY <1>0, <2>3, <2>4
<1>11. QED
  BY <1>1, <1>2, <1>3, <1>4, <1>5, <1>6, <1>7, <1>8, <1>9, <1>10
  DEF OrderTask

\* A commit of a run's updates writes no 'filled' and removes no row.
LEMMA CommittedRows ==
    ASSUME TypeOK, NEW r \in Runs, NEW o \in Orders
    PROVE  /\ Committed(r)[o] = "filled" => row[o] = "filled"
           /\ row[o] # "none" => Committed(r)[o] # "none"
BY DEF TypeOK, Committed, Recovery, Status

\* A step of run r leaves the other run alone, so its evidence is r's.
LEMMA RunStepFrame ==
    ASSUME TypeOK, NEW r \in Runs, NEW from, NEW new, RecoveryStep(r, from, new)
    PROVE  rec'[r] = new /\ \A q \in Runs \ {r} : rec'[q] = rec[q]
BY DEF TypeOK, RecoveryStep

LEMMA RunStepEvidence ==
    ASSUME RunEvidence, UNCHANGED live, NEW r \in Runs,
           \A q \in Runs \ {r} : rec'[q] = rec[q],
           \A o \in rec'[r].execs : live[o] = "filled",
           rec'[r].step \in {"checking", "recording"} =>
               rec'[r].cur \in Orders /\ live[rec'[r].cur] = "filled"
    PROVE  RunEvidence'
BY DEF RunEvidence

LEMMA RecoverBooks ==
    ASSUME BooksInv, NEW r \in Runs, Recover(r) PROVE BooksInv'
<1> USE DEF BooksInv, TaskEvidence, RunEvidence, WriteAhead, BooksMatchBroker,
            dbVars, taskVars, recVars, brokerVars, envVars, TypeOK
<1>0. TypeOK' /\ rec[r] \in Recovery
  BY RecoverType
<1>1. CASE ReadPending(r)
  <2>0. PICK P \in OldEnough(r) :
          RecoveryStep(r, "readPending",
              [rec[r] EXCEPT !.step = "readSubmitted", !.pend = P])
    BY <1>1 DEF ReadPending
  <2>1. /\ rec'[r] = [rec[r] EXCEPT !.step = "readSubmitted", !.pend = P]
        /\ \A q \in Runs \ {r} : rec'[q] = rec[q]
    BY <2>0, RunStepFrame
  <2>2. rec'[r].execs = rec[r].execs /\ rec'[r].step = "readSubmitted"
    BY <1>0, <2>1 DEF Recovery
  <2>3. RunEvidence'
    BY <1>1, <2>1, <2>2, RunStepEvidence DEF ReadPending
  <2>4. QED
    BY <1>0, <1>1, <2>3 DEF ReadPending
<1>2. CASE ReadSubmitted(r)
  <2>1. /\ rec'[r] = LET S == {o \in Orders : row[o] = "submitted"}
                   IN  [rec[r] EXCEPT
                          !.step = IF rec[r].pend \cup S = {} THEN "settle"
                                   ELSE "reqOpen",
                          !.subm = S]
        /\ \A q \in Runs \ {r} : rec'[q] = rec[q]
    BY <1>2, RunStepFrame DEF ReadSubmitted
  <2>2. rec'[r].execs = rec[r].execs /\ rec'[r].step \in {"settle", "reqOpen"}
    BY <1>0, <2>1 DEF Recovery
  <2>3. RunEvidence'
    BY <1>2, <2>1, <2>2, RunStepEvidence DEF ReadSubmitted
  <2>4. QED
    BY <1>0, <1>2, <2>3 DEF ReadSubmitted
<1>3. CASE ReqOpenOrders(r)
  <2>1. /\ rec'[r] = [rec[r] EXCEPT !.step = "settlePending",
                                 !.open = {o \in Orders : live[o] = "working"}]
        /\ \A q \in Runs \ {r} : rec'[q] = rec[q]
    BY <1>3, RunStepFrame DEF ReqOpenOrders
  <2>2. rec'[r].execs = rec[r].execs /\ rec'[r].step \in {"settlePending"}
    BY <1>0, <2>1 DEF Recovery
  <2>3. RunEvidence'
    BY <1>3, <2>1, <2>2, RunStepEvidence DEF ReqOpenOrders
  <2>4. QED
    BY <1>0, <1>3, <2>3 DEF ReqOpenOrders
<1>4. CASE SettlePending(r)
  <2>1. /\ rec'[r] = [rec[r] EXCEPT
                      !.step = IF rec[r].subm = {} THEN "settle" ELSE "reqFills",
                      !.buf = PendingUpdates(r)]
        /\ \A q \in Runs \ {r} : rec'[q] = rec[q]
    BY <1>4, RunStepFrame DEF SettlePending
  <2>2. rec'[r].execs = rec[r].execs /\ rec'[r].step \in {"settle", "reqFills"}
    BY <1>0, <2>1 DEF Recovery
  <2>3. RunEvidence'
    BY <1>4, <2>1, <2>2, RunStepEvidence DEF SettlePending
  <2>4. QED
    BY <1>0, <1>4, <2>3 DEF SettlePending
<1>5. CASE ReqExecutions(r)
  <2>1. /\ rec'[r] = [rec[r] EXCEPT !.step = "settle",
                                 !.execs = {o \in Orders : live[o] = "filled"}]
        /\ \A q \in Runs \ {r} : rec'[q] = rec[q]
    BY <1>5, RunStepFrame DEF ReqExecutions
  <2>2. rec'[r].execs = {o \in Orders : live[o] = "filled"} /\ rec'[r].step \in {"settle"}
    BY <1>0, <2>1 DEF Recovery
  <2>3. RunEvidence'
    BY <1>5, <2>1, <2>2, RunStepEvidence DEF ReqExecutions
  <2>4. QED
    BY <1>0, <1>5, <2>3 DEF ReqExecutions
<1>6. ASSUME NEW o \in Orders, StillOpen(r, o) \/ NotFound(r, o)
      PROVE  BooksInv'
  <2>1. CASE StillOpen(r, o)
    <3>1. /\ rec'[r] = [rec[r] EXCEPT !.subm = @ \ {o}]
          /\ \A q \in Runs \ {r} : rec'[q] = rec[q]
      BY <2>1, RunStepFrame DEF StillOpen
    <3>2. rec[r].step = "settle"
      BY <2>1 DEF StillOpen, RecoveryStep
    <3>3. rec'[r].execs = rec[r].execs /\ rec'[r].step = "settle"
      BY <1>0, <3>1, <3>2 DEF Recovery
    <3>4. RunEvidence'
      BY <2>1, <3>1, <3>3, RunStepEvidence DEF StillOpen
    <3>5. QED
      BY <1>0, <2>1, <3>4 DEF StillOpen
  <2>2. CASE NotFound(r, o)
    <3>1. /\ rec'[r] = [rec[r] EXCEPT !.subm = @ \ {o}, !.buf[o] = "cancelled"]
          /\ \A q \in Runs \ {r} : rec'[q] = rec[q]
      BY <2>2, RunStepFrame DEF NotFound
    <3>2. rec[r].step = "settle"
      BY <2>2 DEF NotFound, RecoveryStep
    <3>3. rec'[r].execs = rec[r].execs /\ rec'[r].step = "settle"
      BY <1>0, <3>1, <3>2 DEF Recovery
    <3>4. RunEvidence'
      BY <2>2, <3>1, <3>3, RunStepEvidence DEF NotFound
    <3>5. QED
      BY <1>0, <2>2, <3>4 DEF NotFound
  <2>3. QED
    BY <1>6, <2>1, <2>2
<1>7. ASSUME NEW o \in Orders, FoundFill(r, o) PROVE BooksInv'
  <2>1. /\ rec'[r] = [rec[r] EXCEPT !.subm = @ \ {o}, !.step = "checking",
                                    !.cur = o]
        /\ \A q \in Runs \ {r} : rec'[q] = rec[q]
    BY <1>7, RunStepFrame DEF FoundFill
  <2>2. rec'[r].execs = rec[r].execs /\ rec'[r].cur = o /\ o \in rec[r].execs
    BY <1>0, <1>7, <2>1 DEF Recovery, FoundFill
  <2>3. RunEvidence'
    BY <1>7, <2>1, <2>2, RunStepEvidence DEF FoundFill
  <2>4. QED
    BY <1>0, <1>7, <2>3 DEF FoundFill
<1>8. CASE RecoveryChecks(r)
  <2> DEFINE seen == Committed(r)[rec[r].cur]
  <2>1. /\ rec'[r] = [rec[r] EXCEPT
                        !.step = IF seen = "filled" THEN "settle" ELSE "recording",
                        !.cur = IF seen = "filled" THEN NoOrder ELSE @]
        /\ \A q \in Runs \ {r} : rec'[q] = rec[q]
    BY <1>8, RunStepFrame DEF RecoveryChecks
  <2>2. rec[r].step = "checking"
    BY <1>8 DEF RecoveryChecks, RecoveryStep
  <2> HIDE DEF seen
  <2>3. /\ rec'[r].execs = rec[r].execs
        /\ rec'[r].step = "settle" \/ rec'[r].cur = rec[r].cur
    <3>1. CASE seen = "filled"
      BY <1>0, <2>1, <3>1 DEF Recovery
    <3>2. CASE seen # "filled"
      BY <1>0, <2>1, <3>2 DEF Recovery
    <3>3. QED
      BY <3>1, <3>2
  <2>4. UNCHANGED live
    BY <1>8 DEF RecoveryChecks
  <2>5. rec[r].cur \in Orders /\ live[rec[r].cur] = "filled"
    BY <2>2
  <2>6. \A o \in rec'[r].execs : live[o] = "filled"
    BY <2>3
  <2>7. rec'[r].step \in {"checking", "recording"} =>
          rec'[r].cur \in Orders /\ live[rec'[r].cur] = "filled"
    BY <2>3, <2>5
  <2>8. RunEvidence'
    BY <2>1, <2>4, <2>6, <2>7, RunStepEvidence
  <2>9. QED
    BY <1>0, <1>8, <2>8 DEF RecoveryChecks
<1>9. CASE RecoveryRecords(r)
  <2>1. rec[r].cur \in Orders /\ live[rec[r].cur] = "filled"
    BY <1>9 DEF RecoveryRecords, RecoveryStep
  <2>2. /\ rec'[r] = [rec[r] EXCEPT !.step = "settle", !.cur = NoOrder,
                                    !.buf = NoWrites]
        /\ \A q \in Runs \ {r} : rec'[q] = rec[q]
    BY <1>9, RunStepFrame DEF RecoveryRecords
  <2>3. rec'[r].execs = rec[r].execs /\ rec'[r].step = "settle"
    BY <1>0, <2>2 DEF Recovery
  <2>4. RunEvidence'
    BY <1>9, <2>2, <2>3, RunStepEvidence DEF RecoveryRecords
  <2>5. trades'[rec[r].cur] > 0
    BY <1>9, <2>1 DEF RecoveryRecords
  <2>6. BooksMatchBroker'
    BY <1>9, <2>1, <2>5, CommittedRows DEF RecoveryRecords
  <2>7. TaskEvidence' /\ WriteAhead'
    BY <1>9, CommittedRows, <2>1, CommittedType DEF RecoveryRecords
  <2>8. QED
    BY <1>0, <2>4, <2>6, <2>7
<1>10. CASE FinishRecovery(r)
  <2>1. RunEvidence'
    BY <1>0, <1>10 DEF FinishRecovery, IdleRun, RecoveryStep
  <2>2. BooksMatchBroker'
    BY <1>10, CommittedRows DEF FinishRecovery
  <2>3. TaskEvidence' /\ WriteAhead'
    BY <1>10, CommittedRows DEF FinishRecovery
  <2>4. QED
    BY <1>0, <2>1, <2>2, <2>3
<1>11. CASE RecoveryFails(r)
  BY <1>0, <1>11 DEF RecoveryFails, Abandon, IdleRun
<1>12. QED
  BY <1>1, <1>2, <1>3, <1>4, <1>5, <1>6, <1>7, <1>8, <1>9, <1>10, <1>11
  DEF Recover

LEMMA FaultBooks ==
    ASSUME BooksInv, Fault PROVE BooksInv'
<1> USE DEF BooksInv, TaskEvidence, RunEvidence, WriteAhead, BooksMatchBroker,
            dbVars, taskVars, recVars, brokerVars, envVars, TypeOK, Abandon,
            IdleRun
<1>0. TypeOK'
  BY FaultType
<1>1. ASSUME NEW o \in Orders, TaskLockTimeout(o) PROVE BooksInv'
  BY <1>0, <1>1 DEF TaskLockTimeout, GoTo
<1>2. CASE CommandLockTimeout
  BY <1>0, <1>2 DEF CommandLockTimeout
<1>3. ASSUME NEW r \in Runs, RecoveryLockTimeout(r) PROVE BooksInv'
  BY <1>0, <1>3 DEF RecoveryLockTimeout
<1>4. CASE Disconnect
  BY <1>0, <1>4 DEF Disconnect, Runs
<1>5. CASE Crash
  BY <1>0, <1>5 DEF Crash
<1>6. QED
  BY <1>1, <1>2, <1>3, <1>4, <1>5 DEF Fault

LEMMA EnvironmentBooks ==
    ASSUME BooksInv, Environment PROVE BooksInv'
<1> USE DEF BooksInv, TaskEvidence, RunEvidence, WriteAhead, BooksMatchBroker,
            dbVars, taskVars, recVars, brokerVars, envVars, TypeOK
<1>0. TypeOK'
  BY EnvironmentType
<1>1. ASSUME NEW o \in Orders, BrokerFill(o) PROVE BooksInv'
  BY <1>0, <1>1 DEF BrokerFill
<1>2. ASSUME NEW o \in Orders, BrokerCancel(o) PROVE BooksInv'
  BY <1>0, <1>2 DEF BrokerCancel
<1>3. ASSUME NEW o \in Orders, Deliver(o) PROVE BooksInv'
  BY <1>0, <1>3 DEF Deliver
<1>4. CASE SetGate
  BY <1>0, <1>4 DEF SetGate
<1>5. CASE Reconnect \/ Restart
  <2>1. RunEvidence'
    BY <1>5 DEF Reconnect, Restart, Runs, Recovery
  <2>2. QED
    BY <1>0, <1>5, <2>1 DEF Reconnect, Restart
<1>6. QED
  BY <1>1, <1>2, <1>3, <1>4, <1>5 DEF Environment

LEMMA BooksInductive == Spec => []BooksInv
<1>1. BooksInv /\ [Next]_vars => BooksInv'
  <2>1. CASE Next
    BY <2>1, CommandBooks, OrderTaskBooks, RecoverBooks, FaultBooks,
       EnvironmentBooks DEF Next
  <2>2. CASE UNCHANGED vars
    BY <2>2 DEF vars, dbVars, taskVars, recVars, brokerVars, envVars, BooksInv,
       TypeOK, TaskEvidence, RunEvidence, WriteAhead, BooksMatchBroker
  <2>3. QED
    BY <2>1, <2>2
<1>2. QED
  BY <1>1, BooksInit, PTL DEF Spec

\* submit_order and reprice_and_retry never have an order at the broker that
\* has no row: engine.py's rule that the UUID is written before placeOrder.
THEOREM WriteAheadHolds == Spec => []WriteAhead
<1>1. BooksInv => WriteAhead
  BY DEF BooksInv
<1>2. QED
  BY <1>1, BooksInductive, PTL

\* _record_fill never records a trade the broker did not fill, and 'filled'
\* is never written without its trade, whichever task calls it and whatever
\* crashes, disconnects and lock timeouts come between.
THEOREM BooksMatchBrokerHolds == Spec => []BooksMatchBroker
<1>1. BooksInv => BooksMatchBroker
  BY DEF BooksInv
<1>2. QED
  BY <1>1, BooksInductive, PTL
=============================================================================
