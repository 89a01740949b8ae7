---------------------------- MODULE GatewayProofs ----------------------------
(***************************************************************************)
(* Proofs about the connection, for any trades, tasks and faults.          *)
(* OneReconnectLoop is inductive.  StaleEntriesAreSwept is not: a loop may *)
(* end its sweep only because no entry is stale by then, which in turn     *)
(* holds because an entry stands under the underlying of its own trade.    *)
(***************************************************************************)
EXTENDS Gateway, TLAPS

\* A registered handler is that of a trade of this underlying.
EntriesInPlace ==
    \A u \in Underlyings : subscriptions[u] # NoTrade => UnderlyingOf[subscriptions[u]] = u

\* A task that sweeps works on entries made since it began.
SweepIsClean ==
    \A k \in Loops : loop[k].step = "sweeping" => \A u \in Underlyings : ~Stale(u)

\* A process that is not running has no tasks.
DownIsIdle == phase = "down" => \A k \in Loops : ~Active(k)

Trying == TriesWhileDown /\ DownIsIdle

Links == OneReconnectLoop /\ StaleEntriesAreSwept /\ EntriesInPlace /\ SweepIsClean

IInv == TypeOK /\ Links /\ Trying

-----------------------------------------------------------------------------
\* Type correctness.
LEMMA NoTaskType == NoTask \in Loop
BY BackoffAssumption DEF NoTask, Loop

LEMMA NoWalkType == NoWalk \in Walk
BY DEF NoWalk, Walk

LEMMA WalkOverType == ASSUME NEW s \in SUBSET Trades PROVE WalkOver(s) \in Walk
BY DEF WalkOver, Walk

LEMMA NoSubscriptionsType == NoSubscriptions \in [Underlyings -> Trades \cup {NoTrade}]
BY DEF NoSubscriptions

LEMMA FaultType == ASSUME TypeOK, Fault PROVE faults' \in 0..MaxFaults
BY FaultAssumption DEF TypeOK, Fault

LEMMA TellType ==
    ASSUME TypeOK, NEW news \in {"down", "up"}, Tell(news)
    PROVE  told' \in {"down", "up"} /\ lost' \in BOOLEAN /\ faults' \in 0..MaxFaults
BY FaultType DEF TypeOK, Tell

LEMMA OpenTradesType == OpenTrades \subseteq Trades
BY DEF OpenTrades

LEMMA BeginSweepType ==
    ASSUME TypeOK, BeginSweep PROVE walk' \in [Walkers -> Walk]
<1>1. WalkOver(OpenTrades) \in Walk
  BY OpenTradesType, WalkOverType
<1>2. QED
  BY <1>1 DEF TypeOK, BeginSweep

LEMMA LoopStepType ==
    ASSUME TypeOK, NEW k \in Loops, NEW from, NEW new \in Loop, LoopStep(k, from, new)
    PROVE  loop' \in [Loops -> Loop] /\ reconnectTask' \in Loops \cup {NoLoop}
BY DEF TypeOK, LoopStep

LEMMA WalkStepType ==
    ASSUME TypeOK, NEW w \in Walkers, NEW new \in Walk, WalkStep(w, new)
    PROVE  walk' \in [Walkers -> Walk]
BY DEF TypeOK, WalkStep

LEMMA InitType == Init => TypeOK
<1>1. 0 \in 0..MaxFaults /\ 0 \in 0..MissesToAlarm
  BY FaultAssumption DEF MissesToAlarm
<1>2. QED
  BY <1>1, NoTaskType, NoWalkType, NoSubscriptionsType DEF Init, TypeOK

LEMMA ProcessEndsType ==
    ASSUME TypeOK, ProcessEnds, faults' \in 0..MaxFaults PROVE TypeOK'
<1>1. loop' \in [Loops -> Loop] /\ walk' \in [Walkers -> Walk] /\ missed' \in 0..MissesToAlarm
  BY NoTaskType, NoWalkType DEF ProcessEnds, MissesToAlarm
<1>2. subscriptions' \in [Underlyings -> Trades \cup {NoTrade}]
  BY NoSubscriptionsType DEF ProcessEnds
<1>3. QED
  BY <1>1, <1>2 DEF ProcessEnds, TypeOK

LEMMA StartupType == ASSUME TypeOK, Startup PROVE TypeOK'
<1>1. CASE Boot
  BY <1>1 DEF Boot, TypeOK, loopVars, tickVars, beatVars
<1>2. CASE StartupReconciled
  BY <1>2, BeginSweepType DEF StartupReconciled, TypeOK, linkVars, loopVars, tickVars, beatVars
<1>3. CASE Wire
  BY <1>3 DEF Wire, TypeOK, linkVars, loopVars, tickVars, beatVars
<1>4. CASE StartupFails
  <2>1. faults' \in 0..MaxFaults
    BY <1>4, FaultType DEF StartupFails, TypeOK
  <2>2. QED
    BY <1>4, <2>1, ProcessEndsType DEF StartupFails
<1>5. QED
  BY <1>1, <1>2, <1>3, <1>4 DEF Startup

LEMMA DisconnectType == ASSUME TypeOK, Disconnect PROVE TypeOK'
<1>1. faults' \in 0..MaxFaults
  BY FaultType DEF Disconnect, DisconnectWith
<1>2. PICK fresh \in Loops :
        /\ reconnectTask' = fresh
        /\ loop' = [k \in Loops |->
                      IF k = fresh THEN [step |-> "waiting", attempt |-> 0]
                      ELSE IF k \in CancelledTasks THEN NoTask
                      ELSE loop[k]]
  BY DEF Disconnect, DisconnectWith
<1>3. [step |-> "waiting", attempt |-> 0] \in Loop
  BY BackoffAssumption DEF Loop
<1>4. loop' \in [Loops -> Loop]
  BY <1>2, <1>3, NoTaskType DEF TypeOK
<1>5. walk' \in [Walkers -> Walk]
  <2>1. ASSUME NEW w \in Walkers PROVE Interrupted(walk[w]) \in Walk
    BY DEF TypeOK, Interrupted, Walk
  <2>2. walk' = [w \in Walkers |->
                   IF w = "sweep" /\ \E k \in CancelledTasks : loop[k].step = "sweeping"
                   THEN NoWalk ELSE Interrupted(walk[w])]
    BY DEF Disconnect, DisconnectWith
  <2>3. QED
    BY <2>1, <2>2, NoWalkType
<1>6. QED
  BY <1>1, <1>2, <1>4, <1>5 DEF Disconnect, DisconnectWith, TypeOK, beatVars

LEMMA LoopType == ASSUME TypeOK, NEW k \in Loops, ReconnectLoop(k) PROVE TypeOK'
<1> USE DEF TypeOK, linkVars, tickVars, beatVars
<1>0. loop[k] \in Loop
  OBVIOUS
<1>1. CASE AttemptFails(k)
  <2>1. [loop[k] EXCEPT !.attempt = IF loop[k].attempt < LastBackoff
                                    THEN loop[k].attempt + 1 ELSE loop[k].attempt] \in Loop
    BY <1>0, BackoffAssumption DEF Loop
  <2>2. loop' \in [Loops -> Loop] /\ reconnectTask' \in Loops \cup {NoLoop}
    BY <1>1, <2>1, LoopStepType DEF AttemptFails
  <2>3. told' \in {"down", "up"} /\ lost' \in BOOLEAN /\ faults' \in 0..MaxFaults
    BY <1>1, TellType DEF AttemptFails
  <2>4. QED
    BY <1>1, <2>2, <2>3 DEF AttemptFails
<1>2. CASE Reconnects(k)
  <2>1. (IF Ready THEN [loop[k] EXCEPT !.step = "recovering"] ELSE NoTask) \in Loop
    BY <1>0, NoTaskType DEF Loop
  <2>2. loop' \in [Loops -> Loop] /\ reconnectTask' \in Loops \cup {NoLoop}
    BY <1>2, <2>1, LoopStepType DEF Reconnects
  <2>3. deaf' \in BOOLEAN
    BY <1>2 DEF Reconnects
  <2>4. QED
    BY <1>2, <2>2, <2>3 DEF Reconnects
<1>3. CASE Resubscribe(k)
  <2>1. [loop[k] EXCEPT !.step = "sweeping"] \in Loop
    BY <1>0 DEF Loop
  <2>2. loop' \in [Loops -> Loop] /\ reconnectTask' \in Loops \cup {NoLoop}
    BY <1>3, <2>1, LoopStepType DEF Resubscribe
  <2>3. walk' \in [Walkers -> Walk]
    BY <1>3, BeginSweepType DEF Resubscribe
  <2>4. subscriptions' \in [Underlyings -> Trades \cup {NoTrade}]
    BY <1>3, NoSubscriptionsType DEF Resubscribe
  <2>5. QED
    BY <1>3, <2>2, <2>3, <2>4 DEF Resubscribe
<1>4. CASE RecoveryRaises(k)
  <2>1. loop' \in [Loops -> Loop] /\ reconnectTask' \in Loops \cup {NoLoop}
    BY <1>4, NoTaskType, LoopStepType DEF RecoveryRaises
  <2>2. faults' \in 0..MaxFaults
    BY <1>4, FaultType DEF RecoveryRaises
  <2>3. QED
    BY <1>4, <2>1, <2>2 DEF RecoveryRaises
<1>5. CASE LoopEnds(k)
  BY <1>5, NoTaskType, LoopStepType DEF LoopEnds
<1>6. QED
  BY <1>1, <1>2, <1>3, <1>4, <1>5 DEF ReconnectLoop

LEMMA WalkType == ASSUME TypeOK, NEW w \in Walkers, WalkOn(w) PROVE TypeOK'
<1> USE DEF TypeOK, linkVars, loopVars, tickVars, beatVars
<1>0. walk[w] \in Walk
  OBVIOUS
<1>1. ASSUME NEW t \in Trades, Visit(w, t) PROVE TypeOK'
  <2>1. \A c \in SUBSET Trades : [todo |-> walk[w].todo \ {t}, cur |-> c] \in Walk
    BY <1>0 DEF Walk
  <2>2. walk' \in [Walkers -> Walk]
    BY <1>1, <2>1, WalkStepType DEF Visit
  <2>3. QED
    BY <1>1, <2>2 DEF Visit
<1>2. WalkOver(walk[w].todo) \in Walk
  BY <1>0, WalkOverType DEF Walk
<1>3. ASSUME NEW t \in Trades, Subscribe(w, t) PROVE TypeOK'
  <2>1. walk' \in [Walkers -> Walk]
    BY <1>2, <1>3, WalkStepType DEF Subscribe
  <2>2. QED
    BY <1>3, <2>1 DEF Subscribe
<1>4. CASE SubscribeRefused(w)
  <2>1. walk' \in [Walkers -> Walk] /\ faults' \in 0..MaxFaults
    BY <1>2, <1>4, WalkStepType, FaultType DEF SubscribeRefused
  <2>2. QED
    BY <1>4, <2>1 DEF SubscribeRefused
<1>5. QED
  BY <1>1, <1>3, <1>4 DEF WalkOn

LEMMA OtherType ==
    ASSUME TypeOK, Poll \/ Heartbeat \/ Book \/ ComesBack \/ Crash PROVE TypeOK'
<1> USE DEF TypeOK, linkVars, loopVars, tickVars, beatVars
<1>1. CASE Poll
  <2>1. WalkOver(OpenTrades) \in Walk
    BY OpenTradesType, WalkOverType
  <2>2. walk' \in [Walkers -> Walk]
    BY <1>1, <2>1, WalkStepType DEF Poll, Walkers
  <2>3. QED
    BY <1>1, <2>2 DEF Poll
<1>2. CASE Heartbeat
  <2>1. told' \in {"down", "up"} /\ lost' \in BOOLEAN /\ faults' \in 0..MaxFaults
    BY <1>2, TellType DEF Heartbeat
  <2>2. missed' \in 0..MissesToAlarm /\ alarmed' \in BOOLEAN
    <3>1. \/ missed' = 0
          \/ missed' = IF missed < MissesToAlarm THEN missed + 1 ELSE missed
      BY <1>2 DEF Heartbeat
    <3>2. missed' \in 0..MissesToAlarm
      BY <3>1 DEF MissesToAlarm
    <3>3. alarmed' = FALSE \/ alarmed' = (alarmed \/ missed' = MissesToAlarm)
      BY <1>2 DEF Heartbeat
    <3>4. QED
      BY <3>2, <3>3
  <2>3. QED
    BY <1>2, <2>1, <2>2 DEF Heartbeat
<1>3. ASSUME NEW t \in Trades, OpenTrade(t) \/ CloseTrade(t) PROVE TypeOK'
  <2>1. CASE OpenTrade(t)
    <3>1. WalkOver({t}) \in Walk
      BY WalkOverType
    <3>2. t \in Walkers
      BY DEF Walkers
    <3>3. walk' \in [Walkers -> Walk] /\ faults' \in 0..MaxFaults
      BY <2>1, <3>1, <3>2, WalkStepType, FaultType DEF OpenTrade
    <3>4. QED
      BY <2>1, <3>3 DEF OpenTrade
  <2>2. CASE CloseTrade(t)
    BY <2>2 DEF CloseTrade
  <2>3. QED
    BY <1>3, <2>1, <2>2
<1>4. ASSUME NEW t \in Trades, AssignTrade(t) PROVE TypeOK'
  BY <1>4 DEF AssignTrade
<1>5. CASE ComesBack
  BY <1>5 DEF ComesBack
<1>6. CASE Crash
  BY <1>6, FaultType, ProcessEndsType DEF Crash
<1>7. QED
  BY <1>1, <1>2, <1>3, <1>4, <1>5, <1>6 DEF Book

LEMMA NextType == TypeOK /\ [Next]_vars => TypeOK'
<1> SUFFICES ASSUME TypeOK, [Next]_vars PROVE TypeOK'
  OBVIOUS
<1>1. CASE UNCHANGED vars
  BY <1>1 DEF vars, linkVars, loopVars, tickVars, beatVars, TypeOK
<1>2. ASSUME NEW w \in Walkers, WalkOn(w) PROVE TypeOK'
  BY <1>2, WalkType
<1>3. QED
  BY <1>1, <1>2, StartupType, LoopType, OtherType, DisconnectType
     DEF Next, PollJob, Walkers

-----------------------------------------------------------------------------
\* The links between tasks, entries and handlers.
LEMMA InitLinks == Init => Links
BY DEF Init, Links, OneReconnectLoop, StaleEntriesAreSwept, EntriesInPlace, SweepIsClean,
   Active, Stale, NoTask, NoSubscriptions

\* Steps that leave the tasks, the entries and the handlers alone.
LEMMA QuietLinks ==
    ASSUME Links, UNCHANGED <<loopVars, tickVars, deaf>> PROVE Links'
BY DEF Links, OneReconnectLoop, StaleEntriesAreSwept, EntriesInPlace, SweepIsClean,
   Active, Stale, loopVars, tickVars

LEMMA ProcessEndsLinks == ASSUME ProcessEnds PROVE Links'
BY DEF ProcessEnds, Links, OneReconnectLoop, StaleEntriesAreSwept, EntriesInPlace,
   SweepIsClean, Active, Stale, NoTask, NoSubscriptions

\* The task that is cancelled is the only one, so the new one is alone again.
LEMMA DisconnectLinks == ASSUME TypeOK, Links, Disconnect PROVE Links'
<1>1. PICK fresh \in Loops :
        /\ reconnectTask' = fresh
        /\ loop' = [k \in Loops |->
                      IF k = fresh THEN [step |-> "waiting", attempt |-> 0]
                      ELSE IF k \in CancelledTasks THEN NoTask
                      ELSE loop[k]]
  BY DEF Disconnect, DisconnectWith
<1>2. loop'[fresh].step = "waiting"
  BY <1>1
<1>3. ASSUME NEW k \in Loops, k # fresh PROVE loop'[k].step = "idle"
  BY <1>1, <1>3 DEF Links, OneReconnectLoop, Active, CancelledTasks, NoTask
<1>4. OneReconnectLoop' /\ SweepIsClean'
  BY <1>1, <1>2, <1>3 DEF OneReconnectLoop, SweepIsClean, Active
<1>5. StaleEntriesAreSwept'
  BY <1>2 DEF StaleEntriesAreSwept, Active
<1>6. EntriesInPlace'
  BY DEF Links, EntriesInPlace, Disconnect, DisconnectWith
<1>7. QED
  BY <1>4, <1>5, <1>6 DEF Links

\* A step of a task that is at work makes no second one.
LEMMA LoopStepKeepsOne ==
    ASSUME TypeOK, OneReconnectLoop, NEW k \in Loops, NEW from, from # "idle",
           NEW new, LoopStep(k, from, new)
    PROVE  /\ OneReconnectLoop'
           /\ loop'[k] = new
           /\ \A j \in Loops : j # k => loop'[j] = loop[j] /\ loop[j].step = "idle"
BY DEF TypeOK, OneReconnectLoop, LoopStep, Active

LEMMA LoopLinks == ASSUME TypeOK, Links, NEW k \in Loops, ReconnectLoop(k) PROVE Links'
<1> USE DEF Links
<1>0. loop[k] \in Loop
  BY DEF TypeOK
<1>1. CASE AttemptFails(k)
  <2>1. PICK i : LoopStep(k, "waiting", [loop[k] EXCEPT !.attempt = i]) /\ loop[k].step = "waiting"
    BY <1>1 DEF AttemptFails, LoopStep
  <2>2. /\ OneReconnectLoop' /\ loop'[k] = [loop[k] EXCEPT !.attempt = i]
        /\ \A j \in Loops : j # k => loop'[j].step = "idle"
    BY <2>1, LoopStepKeepsOne
  <2>3. loop'[k].step = "waiting"
    BY <1>0, <2>1, <2>2 DEF Loop
  <2>4. QED
    BY <1>1, <2>2, <2>3 DEF AttemptFails, tickVars, StaleEntriesAreSwept, EntriesInPlace,
       SweepIsClean, Active
<1>2. CASE Reconnects(k)
  <2>1. /\ OneReconnectLoop'
        /\ loop'[k] = IF Ready THEN [loop[k] EXCEPT !.step = "recovering"] ELSE NoTask
        /\ \A j \in Loops : j # k => loop'[j].step = "idle"
    BY <1>2, LoopStepKeepsOne DEF Reconnects
  <2>2. loop'[k].step = IF Ready THEN "recovering" ELSE "idle"
    BY <1>0, <2>1 DEF Loop, NoTask
  <2>3. SweepIsClean' /\ EntriesInPlace'
    BY <1>2, <2>1, <2>2 DEF Reconnects, tickVars, SweepIsClean, EntriesInPlace
  <2>4. StaleEntriesAreSwept'
    <3>1. CASE Ready
      BY <2>2, <3>1 DEF StaleEntriesAreSwept, Active
    <3>2. CASE ~Ready
      <4>1. SUFFICES ASSUME NEW u \in Underlyings, Stale(u)' PROVE deaf'
        BY DEF StaleEntriesAreSwept
      <4>2. subscriptions[u] # NoTrade
        BY <1>2, <4>1 DEF Stale, Reconnects, tickVars
      <4>3. subscriptions # NoSubscriptions
        BY <4>2 DEF NoSubscriptions
      <4>4. QED
        BY <1>2, <3>2, <4>3 DEF Reconnects
    <3>3. QED
      BY <3>1, <3>2
  <2>5. QED
    BY <2>1, <2>3, <2>4
<1>3. CASE Resubscribe(k)
  <2>1. OneReconnectLoop'
    BY <1>3, LoopStepKeepsOne DEF Resubscribe
  <2>2. \A u \in Underlyings : subscriptions'[u] = NoTrade
    BY <1>3 DEF Resubscribe, NoSubscriptions
  <2>3. QED
    BY <2>1, <2>2 DEF StaleEntriesAreSwept, EntriesInPlace, SweepIsClean, Stale
<1>4. CASE RecoveryRaises(k)
  <2>1. /\ OneReconnectLoop' /\ loop'[k] = NoTask
        /\ \A j \in Loops : j # k => loop'[j].step = "idle"
    BY <1>4, LoopStepKeepsOne DEF RecoveryRaises
  <2>2. deaf'
    BY <1>4 DEF RecoveryRaises
  <2>3. QED
    BY <1>4, <2>1, <2>2 DEF RecoveryRaises, tickVars, NoTask, StaleEntriesAreSwept,
       EntriesInPlace, SweepIsClean
<1>5. CASE LoopEnds(k)
  <2>1. /\ OneReconnectLoop' /\ loop'[k] = NoTask
        /\ \A j \in Loops : j # k => loop'[j].step = "idle"
    BY <1>5, LoopStepKeepsOne DEF LoopEnds
  <2>2. \A u \in Underlyings : ~Stale(u)'
    BY <1>5 DEF LoopEnds, LoopStep, SweepIsClean, Stale, tickVars
  <2>3. QED
    BY <1>5, <2>1, <2>2 DEF LoopEnds, tickVars, StaleEntriesAreSwept, EntriesInPlace,
       SweepIsClean
<1>6. QED
  BY <1>1, <1>2, <1>3, <1>4, <1>5 DEF ReconnectLoop

\* A new entry is live, and under the right underlying.
LEMMA WalkLinks == ASSUME TypeOK, Links, NEW w \in Walkers, WalkOn(w) PROVE Links'
<1>1. ASSUME NEW t \in Trades, Visit(w, t) PROVE Links'
  BY <1>1, QuietLinks DEF Visit
<1>2. ASSUME NEW t \in Trades, Subscribe(w, t) PROVE Links'
  <2>1. /\ subscriptions' = [subscriptions EXCEPT ![UnderlyingOf[t]] = t]
        /\ live' = live \cup {t}
        /\ UNCHANGED <<loop, reconnectTask, deaf>>
    BY <1>2 DEF Subscribe, loopVars
  <2>2. ASSUME NEW u \in Underlyings
        PROVE  /\ u = UnderlyingOf[t] => subscriptions'[u] = t
               /\ u # UnderlyingOf[t] => subscriptions'[u] = subscriptions[u]
    BY <2>1 DEF TypeOK
  <2>3. ASSUME NEW u \in Underlyings, Stale(u)' PROVE Stale(u)
    BY <2>1, <2>2, <2>3 DEF Stale
  <2>4. EntriesInPlace'
    BY <2>2 DEF Links, EntriesInPlace
  <2>5. QED
    BY <2>1, <2>3, <2>4 DEF Links, OneReconnectLoop, StaleEntriesAreSwept, SweepIsClean, Active
<1>3. CASE SubscribeRefused(w)
  BY <1>3, QuietLinks DEF SubscribeRefused
<1>4. QED
  BY <1>1, <1>2, <1>3 DEF WalkOn

\* Taking out one entry makes no other one stale.
LEMMA AssignLinks == ASSUME TypeOK, Links, NEW t \in Trades, AssignTrade(t) PROVE Links'
<1> DEFINE v == UnderlyingOf[t]
<1>1. /\ live' = live \ {subscriptions[v]}
      /\ subscriptions' = [subscriptions EXCEPT ![v] = NoTrade]
      /\ UNCHANGED <<loop, reconnectTask, deaf>>
  BY DEF AssignTrade, loopVars
<1>2. v \in Underlyings
  BY UnderlyingAssumption
<1>3. subscriptions'[v] = NoTrade /\ \A u \in Underlyings : u # v => subscriptions'[u] = subscriptions[u]
  BY <1>1, <1>2 DEF TypeOK
<1> HIDE DEF v
<1>4. ASSUME NEW u \in Underlyings, Stale(u)' PROVE Stale(u)
  <2>1. u # v /\ subscriptions[u] # NoTrade /\ subscriptions[u] \notin live'
    BY <1>3, <1>4 DEF Stale
  <2>2. subscriptions[v] # subscriptions[u]
    BY <1>2, <2>1 DEF Links, EntriesInPlace
  <2>3. QED
    BY <1>1, <2>1, <2>2 DEF Stale
<1>5. EntriesInPlace'
  BY <1>3 DEF Links, EntriesInPlace
<1>6. QED
  BY <1>1, <1>4, <1>5 DEF Links, OneReconnectLoop, StaleEntriesAreSwept, SweepIsClean, Active

LEMMA NextLinks == TypeOK /\ Links /\ [Next]_vars => Links'
<1> SUFFICES ASSUME TypeOK, Links, [Next]_vars PROVE Links'
  OBVIOUS
<1>1. CASE UNCHANGED vars
  BY <1>1, QuietLinks DEF vars
<1>2. CASE Startup
  <2>1. CASE StartupFails
    BY <2>1, ProcessEndsLinks DEF StartupFails
  <2>2. CASE ~StartupFails
    BY <1>2, <2>2, QuietLinks DEF Startup, Boot, StartupReconciled, Wire
  <2>3. QED
    BY <2>1, <2>2
<1>3. ASSUME NEW k \in Loops, ReconnectLoop(k) PROVE Links'
  BY <1>3, LoopLinks
<1>4. ASSUME NEW w \in Walkers, WalkOn(w) PROVE Links'
  BY <1>4, WalkLinks
<1>5. CASE Poll \/ Heartbeat \/ ComesBack
  BY <1>5, QuietLinks DEF Poll, Heartbeat, ComesBack
<1>6. ASSUME NEW t \in Trades, OpenTrade(t) \/ CloseTrade(t) PROVE Links'
  BY <1>6, QuietLinks DEF OpenTrade, CloseTrade
<1>7. ASSUME NEW t \in Trades, AssignTrade(t) PROVE Links'
  BY <1>7, AssignLinks
<1>8. CASE Disconnect
  BY <1>8, DisconnectLinks
<1>9. CASE Crash
  BY <1>9, ProcessEndsLinks DEF Crash
<1>10. QED
  BY <1>1, <1>2, <1>3, <1>4, <1>5, <1>6, <1>7, <1>8, <1>9 DEF Next, PollJob, Book, Walkers

-----------------------------------------------------------------------------
\* Who tries to connect.
LEMMA InitTrying == Init => Trying
BY DEF Init, Trying, TriesWhileDown, DownIsIdle, Active, NoTask

\* Steps that leave the tasks and the connection alone, in a process that runs.
LEMMA QuietTrying ==
    ASSUME Trying, UNCHANGED <<connected, loop>>, phase' = phase \/ (phase # "down" /\ phase' # "down")
    PROVE  Trying'
BY DEF Trying, TriesWhileDown, DownIsIdle, Active

LEMMA ProcessEndsTrying == ASSUME ProcessEnds PROVE Trying'
BY DEF ProcessEnds, Trying, TriesWhileDown, DownIsIdle, Active, NoTask

LEMMA StartupTrying == ASSUME Trying, Startup PROVE Trying'
<1>1. CASE Boot
  BY <1>1 DEF Boot, loopVars, Trying, TriesWhileDown, DownIsIdle, Active
<1>2. CASE StartupReconciled \/ Wire
  BY <1>2, QuietTrying DEF StartupReconciled, Wire, linkVars, loopVars
<1>3. CASE StartupFails
  BY <1>3, ProcessEndsTrying DEF StartupFails
<1>4. QED
  BY <1>1, <1>2, <1>3 DEF Startup

LEMMA DisconnectTrying == ASSUME Disconnect PROVE Trying'
<1>1. PICK fresh \in Loops :
        loop' = [k \in Loops |->
                   IF k = fresh THEN [step |-> "waiting", attempt |-> 0]
                   ELSE IF k \in CancelledTasks THEN NoTask
                   ELSE loop[k]]
  BY DEF Disconnect, DisconnectWith
<1>2. loop'[fresh].step = "waiting"
  BY <1>1
<1>3. connected' = FALSE /\ phase # "down" /\ phase' = phase
  BY DEF Disconnect, DisconnectWith
<1>4. QED
  BY <1>2, <1>3 DEF Trying, TriesWhileDown, DownIsIdle

\* The task that connects is the only one that could still wait.
LEMMA LoopTrying ==
    ASSUME TypeOK, OneReconnectLoop, Trying, NEW k \in Loops, ReconnectLoop(k) PROVE Trying'
<1>1. PICK from, new : /\ from \in {"waiting", "recovering", "sweeping"}
                     /\ LoopStep(k, from, new)
  BY DEF ReconnectLoop, AttemptFails, Reconnects, Resubscribe, RecoveryRaises, LoopEnds
<1>2. /\ loop[k].step = from
      /\ loop'[k] = new
      /\ \A j \in Loops : j # k => loop'[j].step = "idle" /\ loop[j].step = "idle"
  BY <1>1, LoopStepKeepsOne DEF LoopStep
<1>3. phase # "down" /\ phase' = phase
  BY <1>1, <1>2 DEF Trying, DownIsIdle, Active, ReconnectLoop, AttemptFails, Reconnects,
     Resubscribe, RecoveryRaises, LoopEnds
<1>4. loop[k] \in Loop
  BY DEF TypeOK
<1>5. SUFFICES connected' <=> loop'[k].step # "waiting"
  BY <1>2, <1>3 DEF Trying, TriesWhileDown, DownIsIdle
<1>6. CASE AttemptFails(k)
  <2>1. connected' = connected /\ loop'[k].step = "waiting"
    BY <1>4, <1>6 DEF AttemptFails, LoopStep, linkVars, Loop, TypeOK
  <2>2. QED
    BY <1>6, <2>1 DEF AttemptFails
<1>7. CASE Reconnects(k)
  <2>1. loop'[k].step \in {"recovering", "idle"}
    BY <1>4, <1>7 DEF Reconnects, LoopStep, NoTask, Loop, TypeOK
  <2>2. QED
    BY <1>7, <2>1 DEF Reconnects
<1>8. CASE Resubscribe(k) \/ RecoveryRaises(k) \/ LoopEnds(k)
  <2>1. loop[k].step # "waiting" /\ loop'[k].step # "waiting" /\ connected' = connected
    BY <1>4, <1>8 DEF Resubscribe, RecoveryRaises, LoopEnds, LoopStep, linkVars, NoTask, Loop, TypeOK
  <2>2. connected
    BY <1>2, <1>3, <2>1 DEF Trying, TriesWhileDown
  <2>3. QED
    BY <2>1, <2>2
<1>9. QED
  BY <1>6, <1>7, <1>8 DEF ReconnectLoop

LEMMA NextTrying == TypeOK /\ Links /\ Trying /\ [Next]_vars => Trying'
<1> SUFFICES ASSUME TypeOK, Links, Trying, [Next]_vars PROVE Trying'
  OBVIOUS
<1>1. CASE UNCHANGED vars
  BY <1>1, QuietTrying DEF vars, linkVars, loopVars
<1>2. CASE Startup
  BY <1>2, StartupTrying
<1>3. ASSUME NEW k \in Loops, ReconnectLoop(k) PROVE Trying'
  BY <1>3, LoopTrying DEF Links
<1>4. ASSUME NEW w \in Walkers, WalkOn(w) PROVE Trying'
  BY <1>4, QuietTrying DEF WalkOn, Visit, Subscribe, SubscribeRefused, linkVars, loopVars
<1>5. CASE Poll \/ Heartbeat \/ ComesBack
  BY <1>5, QuietTrying DEF Poll, Heartbeat, ComesBack, linkVars, loopVars
<1>6. CASE Book
  BY <1>6, QuietTrying DEF Book, OpenTrade, CloseTrade, AssignTrade, linkVars, loopVars
<1>7. CASE Disconnect
  BY <1>7, DisconnectTrying
<1>8. CASE Crash
  BY <1>8, ProcessEndsTrying DEF Crash
<1>9. QED
  BY <1>1, <1>2, <1>3, <1>4, <1>5, <1>6, <1>7, <1>8 DEF Next, PollJob, Walkers

LEMMA Invariance == Spec => []IInv
<1>1. Init => IInv
  BY InitType, InitLinks, InitTrying DEF IInv
<1>2. IInv /\ [Next]_vars => IInv'
  BY NextType, NextLinks, NextTrying DEF IInv
<1>3. QED
  BY <1>1, <1>2, PTL DEF Spec

-----------------------------------------------------------------------------
\* Every state of the connection is of its type.
THEOREM TypeCorrect == Spec => []TypeOK
<1>1. IInv => TypeOK
  BY DEF IInv
<1>2. QED
  BY <1>1, Invariance, PTL

\* Two reconnect loops never run at once, however often the connection drops
\* while one of them waits, connects, recovers or resubscribes; the bot is
\* never disconnected without one that tries, and never tries while connected.
THEOREM TriesUntilConnected == Spec => []LoopUntilConnected
<1>1. IInv => LoopUntilConnected
  BY DEF IInv, Links, Trying, LoopUntilConnected
<1>2. QED
  BY <1>1, Invariance, PTL

\* An entry of a dead ticker never stays behind without a task to sweep it
\* out, for any number of trades and underlyings, unless the last reconnect
\* went without its resubscription.
THEOREM StaleSwept == Spec => []StaleEntriesAreSwept
<1>1. IInv => StaleEntriesAreSwept
  BY DEF IInv, Links
<1>2. QED
  BY <1>1, Invariance, PTL
=============================================================================
