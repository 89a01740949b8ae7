----------------------------- MODULE WheelCycle -----------------------------
(***************************************************************************)
(* The wheel on one underlying: cash-secured puts, their assignment and    *)
(* the covered calls on the shares (bot/positions/manager.py, the end of   *)
(* _record_fill in bot/execution/engine.py, and the covered-call scan of   *)
(* bot/telegram/commands.py).                                              *)
(*                                                                         *)
(* A put that fills gets a row, then, in a second transaction, a cycle;    *)
(* here the put's name is also its cycle's.  The broker tells of a         *)
(* position that is gone and of the shares in two messages, in any order;  *)
(* each message about a gone option starts a task.                         *)
(***************************************************************************)
EXTENDS Integers, Sequences, FiniteSets

CONSTANTS
    Puts, Calls, NoTrade,
    Leg,            \* strike and expiry of a trade, which is all a check compares
    Checks,         \* _check_assignment tasks
    Careful,        \* the operator's discipline, see OpenPut and ApproveCall
    MaxFaults, MaxRepeats, MaxProposals

Trades == Puts \cup Calls
Faults == {"crash", "disconnect", "lockTimeout", "repeat"}
Causes == {"early", "message", "write", "cycle"}

ASSUME WheelTradeAssumption == Puts \cap Calls = {} /\ NoTrade \notin Trades
ASSUME WheelBoundAssumption ==
    /\ {MaxFaults, MaxRepeats, MaxProposals} \subseteq Nat
    /\ Careful \in BOOLEAN

VARIABLES
    held,      \* the option position at the broker
    fate,      \* how a position that is gone went
    lots,      \* hundreds of shares in the account
    news,      \* gone options whose message is under way
    seen,      \* the shares in ib.positions()
    trade, outcome, link,   \* trades.status, outcome and wheel_cycle_id
    cycles,    \* wheel_cycles in the order they were started
    assigned,  \* wheel_cycles.shares_assigned
    proposals, \* pending covered-call proposals
    recording, \* fills whose row is written and whose cycle is not
    closing,   \* filled close orders that are not booked
    check,     \* the tasks
    scan,      \* cycles the /scan under way still has to propose for
    connected, up,
    hit,       \* history: which put met which mishap (Causes)
    used

brokerVars == <<held, fate, lots>>
viewVars   == <<news, seen>>
tradeVars  == <<trade, outcome, link>>
cycleVars  == <<cycles, assigned>>
taskVars   == <<recording, closing, check, scan>>
worldVars  == <<connected, up>>
vars == <<brokerVars, viewVars, tradeVars, cycleVars, proposals, taskVars,
          worldVars, hit, used>>

TypeOK ==
    /\ held \in [Trades -> {"none", "held", "gone"}]
    /\ fate \in [Trades -> {"none", "assigned", "bought", "expired"}]
    /\ lots \in Int
    /\ seen \in Int
    /\ news \subseteq Trades
    /\ trade \in [Trades -> {"none", "working", "open", "closed", "void"}]
    /\ outcome \in [Trades -> {"none", "Traded", "Assigned"}]
    /\ link \in [Trades -> Puts \cup {NoTrade}]
    /\ cycles \in Seq(Puts)
    /\ assigned \subseteq Puts
    /\ proposals \in 0..MaxProposals
    /\ recording \in SUBSET Trades
    /\ closing \in SUBSET Trades
    /\ check \in [Checks -> [step : {"idle", "select", "mark", "propose"},
                             of : Trades \cup {NoTrade}, cycle : Puts \cup {NoTrade}]]
    /\ scan \subseteq Puts
    /\ connected \in BOOLEAN
    /\ up \in BOOLEAN
    /\ hit \subseteq Puts \X Causes
    /\ used \in [Faults -> Nat]

IdleCheck == [step |-> "idle", of |-> NoTrade, cycle |-> NoTrade]

Init ==
    /\ held = [t \in Trades |-> "none"]
    /\ fate = [t \in Trades |-> "none"]
    /\ lots = 0
    /\ news = {}
    /\ seen = 0
    /\ trade = [t \in Trades |-> "none"]
    /\ outcome = [t \in Trades |-> "none"]
    /\ link = [t \in Trades |-> NoTrade]
    /\ cycles = <<>>
    /\ assigned = {}
    /\ proposals = 0
    /\ recording = {}
    /\ closing = {}
    /\ check = [k \in Checks |-> IdleCheck]
    /\ scan = {}
    /\ connected = TRUE
    /\ up = TRUE
    /\ hit = {}
    /\ used = [f \in Faults |-> 0]

Spend(f) ==
    /\ IF f = "repeat" THEN used[f] < MaxRepeats
                       ELSE used["crash"] + used["disconnect"] + used["lockTimeout"]
                              < MaxFaults
    /\ used' = [used EXCEPT ![f] = @ + 1]

\* A mishap of the puts among these trades.
Mishap(ts, cause) == hit' = hit \cup ((ts \cap Puts) \X {cause})

-----------------------------------------------------------------------------
(***************************************************************************)
(* Opening: the row, then the cycle.                                       *)
(***************************************************************************)
\* The order filled and _record_fill has committed the row (OrderLifecycle).
\* Careful: no put while shares are held or another trade of the name is open.
OpenPut(p) ==
    /\ up /\ connected
    /\ trade[p] = "none"
    /\ Careful => lots = 0 /\ \A t \in Trades : trade[t] \notin {"working", "open"}
    /\ held' = [held EXCEPT ![p] = "held"]
    /\ trade' = [trade EXCEPT ![p] = "open"]
    /\ recording' = recording \cup {p}
    /\ UNCHANGED <<fate, lots, viewVars, outcome, link, cycleVars, proposals,
                   closing, check, scan, worldVars, hit, used>>

\* Careful: one covered call at a time, whatever was proposed.
ApproveCall(c) ==
    /\ up /\ connected
    /\ scan = {}
    /\ proposals > 0
    /\ trade[c] = "none"
    /\ Careful => \A d \in Calls : trade[d] \notin {"working", "open"}
    /\ proposals' = proposals - 1
    /\ trade' = [trade EXCEPT ![c] = "working"]
    /\ UNCHANGED <<brokerVars, viewVars, outcome, link, cycleVars, taskVars,
                   worldVars, hit, used>>

\* /reject, or 20 hours have passed.
DropProposal ==
    /\ proposals > 0
    /\ proposals' = proposals - 1
    /\ UNCHANGED <<brokerVars, viewVars, tradeVars, cycleVars, taskVars,
                   worldVars, hit, used>>

CallFills(c) ==
    /\ up /\ connected
    /\ trade[c] = "working"
    /\ held' = [held EXCEPT ![c] = "held"]
    /\ trade' = [trade EXCEPT ![c] = "open"]
    /\ recording' = recording \cup {c}
    /\ UNCHANGED <<fate, lots, viewVars, outcome, link, cycleVars, proposals,
                   closing, check, scan, worldVars, hit, used>>

CallLapses(c) ==
    /\ trade[c] = "working"
    /\ trade' = [trade EXCEPT ![c] = "void"]
    /\ UNCHANGED <<brokerVars, viewVars, outcome, link, cycleVars, proposals,
                   taskVars, worldVars, hit, used>>

\* Mutant of CreateCycle: the trade does not learn its cycle.
CreateCycleUnlinked(p) ==
    /\ p \in recording \cap Puts
    /\ cycles' = Append(cycles, p)
    /\ recording' = recording \ {p}
    /\ UNCHANGED <<brokerVars, viewVars, tradeVars, assigned, proposals, closing,
                   check, scan, worldVars, hit, used>>

\* create_wheel_cycle: INSERT and UPDATE in one transaction.
CreateCycle(p) ==
    /\ p \in recording \cap Puts
    /\ cycles' = Append(cycles, p)
    /\ link' = [link EXCEPT ![p] = p]
    /\ recording' = recording \ {p}
    /\ UNCHANGED <<brokerVars, viewVars, trade, outcome, assigned, proposals,
                   closing, check, scan, worldVars, hit, used>>

\* The assigned cycle that was started last.
Newest(p) ==
    \E i \in DOMAIN cycles :
        /\ cycles[i] = p
        /\ p \in assigned
        /\ \A j \in DOMAIN cycles : j > i => cycles[j] \notin assigned

\* link_cc_to_wheel_cycle; without such a cycle the call keeps none.
LinkCall(c) ==
    /\ c \in recording \cap Calls
    /\ \/ \E p \in Puts : Newest(p) /\ link' = [link EXCEPT ![c] = p]
       \/ (\A p \in Puts : ~Newest(p)) /\ UNCHANGED link
    /\ recording' = recording \ {c}
    /\ UNCHANGED <<brokerVars, viewVars, trade, outcome, cycleVars, proposals,
                   closing, check, scan, worldVars, hit, used>>

\* The transaction waits for the write lock in vain: the task dies after the row
\* of the fill was committed and before the cycle or link, or before a close is
\* booked; nothing repeats either.
WriteFails(t) ==
    /\ t \in recording \cup closing
    /\ Spend("lockTimeout")
    /\ Mishap({t} \cap recording, "cycle")
    /\ recording' = recording \ {t}
    /\ closing' = closing \ {t}
    /\ UNCHANGED <<brokerVars, viewVars, tradeVars, cycleVars, proposals, check,
                   scan, worldVars>>

-----------------------------------------------------------------------------
(***************************************************************************)
(* The broker: a position goes by assignment, by a close order or by       *)
(* expiry.  Assignments happen overnight, when no fill is being recorded.  *)
(***************************************************************************)
Goes(t, how) ==
    /\ held[t] = "held"
    /\ t \notin recording
    /\ held' = [held EXCEPT ![t] = "gone"]
    /\ fate' = [fate EXCEPT ![t] = how]
    /\ news' = IF connected THEN news \cup {t} ELSE news
    /\ Mishap(IF connected THEN {} ELSE {t}, "message")

\* A put brings a hundred shares, a call takes them.
Assign(t) ==
    /\ Goes(t, "assigned")
    /\ lots' = lots + IF t \in Puts THEN 1 ELSE -1
    /\ UNCHANGED <<seen, tradeVars, cycleVars, proposals, taskVars, worldVars, used>>

\* Nothing in the code closes the row of an option that expired.
Expire(t) ==
    /\ Goes(t, "expired")
    /\ UNCHANGED <<lots, seen, tradeVars, cycleVars, proposals, taskVars,
                   worldVars, used>>

\* The fill of a close order (PositionDesk); its monitor looks every 10 s.
CloseFills(t) ==
    /\ up /\ connected
    /\ trade[t] = "open"
    /\ Goes(t, "bought")
    /\ closing' = closing \cup {t}
    /\ UNCHANGED <<lots, seen, tradeVars, cycleVars, proposals, recording, check,
                   scan, worldVars, used>>

\* _record_close_fill, whatever has been written to the row before.
BookClose(t) ==
    /\ t \in closing
    /\ closing' = closing \ {t}
    /\ trade' = [trade EXCEPT ![t] = "closed"]
    /\ outcome' = [outcome EXCEPT ![t] = "Traded"]
    /\ UNCHANGED <<brokerVars, viewVars, link, cycleVars, proposals, recording,
                   check, scan, worldVars, hit, used>>

-----------------------------------------------------------------------------
(***************************************************************************)
(* Assignment detection.                                                   *)
(***************************************************************************)
SeeShares ==
    /\ up /\ connected
    /\ seen # lots
    /\ seen' = lots
    /\ UNCHANGED <<brokerVars, news, tradeVars, cycleVars, proposals, taskVars,
                   worldVars, hit, used>>

StartCheck(t, k) ==
    /\ up /\ connected
    /\ t \in news
    /\ check[k] = IdleCheck
    /\ check' = [check EXCEPT ![k] = [IdleCheck EXCEPT !.step = "select", !.of = t]]

\* positionEvent with position 0; it may overtake the message of the shares.
Event(t, k) ==
    /\ StartCheck(t, k)
    /\ news' = news \ {t}
    /\ Mishap(IF seen = lots THEN {} ELSE {t}, "early")
    /\ UNCHANGED <<brokerVars, seen, tradeVars, cycleVars, proposals, recording,
                   closing, scan, worldVars, used>>

\* The message will come once more.
EventRepeated(t, k) ==
    /\ StartCheck(t, k)
    /\ Spend("repeat")
    /\ UNCHANGED <<brokerVars, viewVars, tradeVars, cycleVars, proposals, recording,
                   closing, scan, worldVars, hit>>

\* Mutant of OpenPutsLike: closed trades are found as well.
PutsLike(t) == {p \in Puts : trade[p] # "none" /\ Leg[p] = Leg[t]}

OpenPutsLike(t) == {p \in Puts : trade[p] = "open" /\ Leg[p] = Leg[t]}

\* Mutant of Select: no look at the shares.
SelectAnyway(k) ==
    /\ check[k].step = "select"
    /\ \E p \in OpenPutsLike(check[k].of) :
          check' = [check EXCEPT ![k] = [step |-> "mark", of |-> p, cycle |-> link[p]]]
    /\ UNCHANGED <<brokerVars, viewVars, tradeVars, cycleVars, proposals, recording,
                   closing, scan, worldVars, hit, used>>

\* Open puts with this strike and expiry (the right is not compared); shares?
Select(k) ==
    /\ check[k].step = "select"
    /\ LET like == OpenPutsLike(check[k].of)
       IN  \/ /\ like = {} \/ seen < 1
              /\ check' = [check EXCEPT ![k] = IdleCheck]
           \/ /\ seen >= 1
              /\ \E p \in like :
                    check' = [check EXCEPT ![k] =
                                [step |-> "mark", of |-> p, cycle |-> link[p]]]
    /\ UNCHANGED <<brokerVars, viewVars, tradeVars, cycleVars, proposals, recording,
                   closing, scan, worldVars, hit, used>>

\* Mutant of MarkAssigned: the row keeps its status.
MarkOutcomeOnly(k) ==
    /\ check[k].step = "mark"
    /\ outcome' = [outcome EXCEPT ![check[k].of] = "Assigned"]
    /\ check' = [check EXCEPT ![k].step = "propose"]
    /\ UNCHANGED <<brokerVars, viewVars, trade, link, cycleVars, proposals, recording,
                   closing, scan, worldVars, hit, used>>

\* Mutant of MarkAssigned: the outcome is written to the status.
MarkAsStatus(k) ==
    /\ check[k].step = "mark"
    /\ trade' = [trade EXCEPT ![check[k].of] = "Assigned"]
    /\ check' = [check EXCEPT ![k].step = "propose"]
    /\ UNCHANGED <<brokerVars, viewVars, outcome, link, cycleVars, proposals,
                   recording, closing, scan, worldVars, hit, used>>

\* handle_assignment: one transaction on the row and the cycle that was read.
MarkAssigned(k) ==
    /\ check[k].step = "mark"
    /\ trade' = [trade EXCEPT ![check[k].of] = "closed"]
    /\ outcome' = [outcome EXCEPT ![check[k].of] = "Assigned"]
    /\ assigned' = assigned \cup ({check[k].cycle} \ {NoTrade})
    /\ check' = [check EXCEPT ![k].step = "propose"]
    /\ UNCHANGED <<brokerVars, viewVars, link, cycles, proposals, recording,
                   closing, scan, worldVars, hit, used>>

\* ... which ends the task when it waits for the write lock in vain.
MarkFails(k) ==
    /\ check[k].step = "mark"
    /\ Spend("lockTimeout")
    /\ Mishap({check[k].of}, "write")
    /\ check' = [check EXCEPT ![k] = IdleCheck]
    /\ UNCHANGED <<brokerVars, viewVars, tradeVars, cycleVars, proposals, recording,
                   closing, scan, worldVars>>

\* ... then a covered-call proposal, unless no quote was to be had.
ProposeCall(k) ==
    /\ check[k].step = "propose"
    /\ proposals' \in {proposals} \cup ({proposals + 1} \cap 0..MaxProposals)
    /\ check' = [check EXCEPT ![k] = IdleCheck]
    /\ UNCHANGED <<brokerVars, viewVars, tradeVars, cycleVars, recording, closing,
                   scan, worldVars, hit, used>>

-----------------------------------------------------------------------------
(***************************************************************************)
(* _scan_for_cc_proposals: rows first, then one proposal after the other.  *)
(***************************************************************************)
\* Mutant of NeedsCall: any cycle without an open call.
NeedsCallUnassigned(p) ==
    /\ \E i \in DOMAIN cycles : cycles[i] = p
    /\ link[p] = p
    /\ \A c \in Calls : ~(link[c] = p /\ trade[c] = "open")

NeedsCall(p) ==
    /\ \E i \in DOMAIN cycles : cycles[i] = p
    /\ p \in assigned
    /\ link[p] = p
    /\ \A c \in Calls : ~(link[c] = p /\ trade[c] = "open")

ScanRows ==
    /\ up
    /\ scan = {}
    /\ proposals < MaxProposals
    /\ scan' = {p \in Puts : NeedsCall(p)}
    /\ scan' # {}
    /\ UNCHANGED <<brokerVars, viewVars, tradeVars, cycleVars, proposals, recording,
                   closing, check, worldVars, hit, used>>

ScanProposes(p) ==
    /\ p \in scan
    /\ scan' = scan \ {p}
    /\ proposals' \in {proposals} \cup ({proposals + 1} \cap 0..MaxProposals)
    /\ UNCHANGED <<brokerVars, viewVars, tradeVars, cycleVars, recording, closing,
                   check, worldVars, hit, used>>

-----------------------------------------------------------------------------
\* A task has this trade in hand and has not booked an assignment yet.
AtTask(t) == \E k \in Checks : check[k].of = t /\ check[k].step \in {"select", "mark"}

\* Messages under way are lost with the connection.
Disconnect ==
    /\ up /\ connected
    /\ Spend("disconnect")
    /\ connected' = FALSE
    /\ news' = {}
    /\ Mishap(news, "message")
    /\ UNCHANGED <<brokerVars, seen, tradeVars, cycleVars, proposals, taskVars, up>>

Crash ==
    /\ up
    /\ Spend("crash")
    /\ up' = FALSE
    /\ connected' = FALSE
    /\ news' = {}
    /\ recording' = {}
    /\ closing' = {}
    /\ check' = [k \in Checks |-> IdleCheck]
    /\ scan' = {}
    /\ hit' = hit \cup ((recording \cap Puts) \X {"cycle"})
                  \cup {p \in Puts : p \in news \/ AtTask(p)} \X {"message"}
    /\ UNCHANGED <<brokerVars, seen, tradeVars, cycleVars, proposals>>

\* Connecting downloads the positions; those that are gone are not among them.
Connect ==
    /\ ~connected
    /\ up' = TRUE
    /\ connected' = TRUE
    /\ seen' = lots
    /\ UNCHANGED <<brokerVars, news, tradeVars, cycleVars, proposals, taskVars,
                   hit, used>>

-----------------------------------------------------------------------------
Work(t) == CreateCycle(t) \/ LinkCall(t) \/ BookClose(t) \/ WriteFails(t)

CheckStep(k) == Select(k) \/ MarkAssigned(k) \/ MarkFails(k) \/ ProposeCall(k)

Detect == SeeShares \/ \E t \in Trades, k \in Checks : Event(t, k)

Next ==
    \/ \E p \in Puts : OpenPut(p)
    \/ \E c \in Calls : ApproveCall(c) \/ CallFills(c) \/ CallLapses(c)
    \/ DropProposal
    \/ \E t \in Trades : Assign(t) \/ Expire(t) \/ CloseFills(t) \/ Work(t)
    \/ Detect
    \/ \E t \in Trades, k \in Checks : EventRepeated(t, k)
    \/ \E k \in Checks : CheckStep(k)
    \/ ScanRows
    \/ \E p \in Puts : ScanProposes(p)
    \/ Disconnect
    \/ Crash
    \/ Connect

Spec == Init /\ [][Next]_vars

-----------------------------------------------------------------------------
\* A cycle says that shares were assigned only if the broker assigned its put:
\* an option that expires, is bought back or is a call does not pass for one,
\* in whatever order the messages come, while the operator opens no put on
\* shares already held (the check only asks whether there are shares).
AssignedIsReal == Careful => \A p \in assigned : fate[p] = "assigned"

\* Every covered call at the broker has its hundred shares, when the operator
\* approves one call at a time; the proposals themselves may be one per
\* duplicate event and one per /scan.
CallsAreCovered ==
    Careful => Cardinality({c \in Calls : held[c] = "held"}) <= lots

\* An assignment that is booked is in its wheel cycle, so that /scan finds the
\* shares, unless the recording of this very put was cut off between its row and
\* its cycle, by a crash or by a lock timeout: then no assignment of it ever is,
\* as nothing makes up for the cycle.
AssignmentReachesCycle ==
    Careful =>
        \A p \in Puts : outcome[p] = "Assigned" =>
            (p \in assigned /\ link[p] = p <=> <<p, "cycle">> \notin hit)

\* How a trade ended is final: a booked close does not become an assignment
\* nor the other way round, although both tasks write without looking.
OutcomeIsFinal ==
    [][Careful =>
         \A t \in Trades : outcome[t] # "none" =>
             outcome'[t] = outcome[t] /\ trade'[t] = "closed"]_vars

\* An assignment is not lost: its message is under way, a task has it in hand or
\* it is booked, unless this very put met one of the mishaps nothing makes up
\* for: its message overtook that of the shares, its message or task went with
\* the connection or the process, or its booking waited for the lock in vain.
\* So a check that runs once the shares are reported never gives up.
AssignmentNotLost ==
    Careful =>
        \A p \in Puts : fate[p] = "assigned" =>
            \/ p \in news
            \/ AtTask(p)
            \/ trade[p] = "closed" /\ outcome[p] = "Assigned"
            \/ \E cause \in {"early", "message", "write"} : <<p, cause>> \in hit
=============================================================================
