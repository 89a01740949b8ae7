----------------------------- MODULE Proposals ------------------------------
(***************************************************************************)
(* Scans and the proposals they leave (bot/scanner/premium.py and          *)
(* momentum.py, the scheduler of bot/main.py, /scan, /approve, /reject,    *)
(* /addticker and /removeticker of bot/telegram/commands.py, and the       *)
(* covered-call proposals of /scan and of an assignment).                  *)
(*                                                                         *)
(* A scan looks at one ticker at a time and awaits market data between;    *)
(* proposals are written after all tickers were looked at.  The scheduled  *)
(* premium scan, the EOD scan, an assignment and the command handler       *)
(* interleave.  Time is a count of slots; a slot is one of the parts of    *)
(* the day that the code tells apart.                                      *)
(***************************************************************************)
EXTENDS Naturals, FiniteSets, Sequences

CONSTANTS
    Ids, NoId,       \* proposal ids
    Tickers,
    Configured,      \* [bucket -> tickers], the watchlists of config.yaml
    MaxSlots,        \* floor(1 / max_position_pct_of_bucket)
    TopN, Ttl,
    CallTtl,         \* the twenty hours of a covered-call proposal
    LastSlot,
    MaxEvents

Buckets == {"Core", "Tactical", "Momentum"}
Premium == {"Core", "Tactical"}
Kinds   == Buckets \cup {"Call"}
Runs    == {"job", "command", "eod", "assignment"}
PremiumRuns == {"job", "command"}
Events  == {"crash", "edit", "lockTimeout", "overlap"}
\* preOpen 0:00-9:30, openBlackout -9:45, morning, afternoon (from 15:00),
\* closeBlackout from 15:55, evening from 16:00.
PreOpen == 0
OpenBlackout == 1
Morning == 2
Afternoon == 3
CloseBlackout == 4
Evening == 5
SlotsPerDay == 6

ASSUME IdAssumption    == NoId \notin Ids
ASSUME WatchAssumption ==
    /\ Tickers # {}
    /\ Configured \in [Buckets -> SUBSET Tickers]
ASSUME CountAssumption == {MaxSlots, TopN, Ttl, CallTtl, LastSlot, MaxEvents} \subseteq Nat
ASSUME LongEnough      == Morning <= LastSlot   \* the day begins with the first scan

VARIABLES
    status, ticker, kind, expires,   \* the proposals table
    order,     \* what became of the orders sent for a proposal, in their order
    assigned,  \* tickers whose shares an open wheel cycle holds
    watch,     \* the watchlists in memory
    run,       \* the scans under way, and what an assignment leaves to do
    cmd,       \* the command handler
    up, time,
    events,    \* crashes, watchlist edits, lock timeouts and overlapping scans
    cut,       \* history: submissions cut off after placeOrder
    twice      \* history: tickers one scan could find in both premium lists

propVars  == <<status, ticker, kind, expires>>
worldVars == <<up, time, events>>
history   == <<cut, twice>>
vars == <<propVars, order, assigned, watch, run, cmd, worldVars, history>>

Pairs == Kinds \X Tickers

TypeOK ==
    /\ status \in [Ids -> {"none", "pending", "approved", "rejected", "expired"}]
    /\ ticker \in [Ids -> Tickers]
    /\ kind \in [Ids -> Kinds]
    /\ expires \in [Ids -> Nat]
    /\ order \in [Ids -> Seq({"working", "open", "done"})]
    /\ assigned \subseteq Tickers
    /\ watch \in [Buckets -> SUBSET Tickers]
    /\ run \in [Runs -> [step : {"idle", "scanning", "building", "calls"},
                         seen : SUBSET Pairs, found : SUBSET Pairs]]
    /\ cmd \in [step : {"idle", "scan", "building", "intent", "sent", "approving"},
                id : Ids \cup {NoId}]
    /\ up \in BOOLEAN
    /\ time \in 0..LastSlot
    /\ events \in [Events -> Nat]
    /\ cut \in [Ids -> Nat]
    /\ twice \subseteq Tickers

\* MaxEvents bounds the four kinds of events together.
Happens(e) ==
    /\ events["crash"] + events["edit"] + events["lockTimeout"] + events["overlap"] < MaxEvents
    /\ events' = [events EXCEPT ![e] = @ + 1]

IdleCmd == [step |-> "idle", id |-> NoId]
IdleRun == [step |-> "idle", seen |-> {}, found |-> {}]

Init ==
    /\ status = [p \in Ids |-> "none"]
    /\ ticker = [p \in Ids |-> CHOOSE t \in Tickers : TRUE]
    /\ kind = [p \in Ids |-> "Core"]
    /\ expires = [p \in Ids |-> 0]
    /\ order = [p \in Ids |-> <<>>]
    /\ assigned = {}
    /\ watch = Configured
    /\ run = [r \in Runs |-> IdleRun]
    /\ cmd = IdleCmd
    /\ up = TRUE
    /\ time = Morning
    /\ events = [e \in Events |-> 0]
    /\ cut = [p \in Ids |-> 0]
    /\ twice = Configured["Core"] \cap Configured["Tactical"]

-----------------------------------------------------------------------------
Slot == time % SlotsPerDay

\* The close cap of the running day, 15:55.
CloseCap == time - Slot + CloseBlackout

\* is_in_blackout: everything from 15:55 to midnight is, the night is not.
InBlackout == Slot = OpenBlackout \/ Slot >= CloseBlackout

\* datetime.now() > expires_at
Expired(p) == time >= expires[p]

\* proposal_ttl_minutes, capped only when made before the cap; a LEAP lives
\* for 25 minutes, a covered call for 20 hours, uncapped.
ExpiresAt(k) ==
    IF k = "Momentum" THEN time + 1
    ELSE IF k = "Call" THEN time + CallTtl
    ELSE IF time + Ttl > CloseCap /\ CloseCap > time THEN CloseCap
    ELSE time + Ttl

\* The open trades, one for an order that filled: of a bucket (a covered call
\* is booked in Core), on a ticker.
OpenTrades == UNION {{p} \X {i \in DOMAIN order[p] : order[p][i] = "open"} : p \in Ids}
BucketOf(k) == IF k = "Call" THEN "Core" ELSE k
OpenIn(b)  == {o \in OpenTrades : BucketOf(kind[o[1]]) = b}
OpenOn(tk) == {o \in OpenTrades : ticker[o[1]] = tk}
PendingOn(tk) == {p \in Ids : status[p] = "pending" /\ ticker[p] = tk}

\* Mutant of Eligible: the pending proposals are not looked at.
EligibleIfNotHeld(b, tk) ==
    IF b = "Momentum" THEN OpenOn(tk) \cap OpenIn(b) = {}
    ELSE OpenOn(tk) = {} /\ Cardinality(OpenIn(b)) < MaxSlots

\* _is_eligible, and the query of the momentum scan, which has no more.
Eligible(b, tk) ==
    IF b = "Momentum" THEN OpenOn(tk) \cap OpenIn(b) = {}
    ELSE /\ OpenOn(tk) = {}
         /\ PendingOn(tk) = {}
         /\ Cardinality(OpenIn(b)) < MaxSlots

\* Assigned positions without an open covered call: neither the query of /scan
\* nor the assignment looks at pending proposals.
Uncovered == {tk \in assigned : \A o \in OpenOn(tk) : kind[o[1]] # "Call"}

-----------------------------------------------------------------------------
(***************************************************************************)
(* Scans.  None of them asks whether the bot is paused.                    *)
(***************************************************************************)
Scope(r) == IF r = "eod" THEN {"Momentum"} ELSE Premium
Scanned(r) == {pair \in Buckets \X Tickers : pair[1] \in Scope(r) /\ pair[2] \in watch[pair[1]]}
UnderWay(r) == run[r].step \in {"scanning", "building"}

\* A premium scan beside another one is counted.
Start(r) ==
    /\ up
    /\ run[r].step = "idle"
    /\ IF r \in PremiumRuns /\ \E q \in PremiumRuns : UnderWay(q)
       THEN Happens("overlap")
       ELSE UNCHANGED events
    /\ run' = [run EXCEPT ![r] = [IdleRun EXCEPT !.step = "scanning"]]

\* 9:45 and 15:00; 15:30 for the EOD scan.
ScheduledScan(r) ==
    /\ <<r, Slot>> \in {<<"job", Morning>>, <<"job", Afternoon>>, <<"eod", Afternoon>>}
    /\ Start(r)
    /\ UNCHANGED <<propVars, order, assigned, watch, cmd, up, time, history>>

CommandScan ==
    /\ cmd = IdleCmd
    /\ Start("command")
    /\ cmd' = [cmd EXCEPT !.step = "scan"]
    /\ UNCHANGED <<propVars, order, assigned, watch, up, time, history>>

\* One ticker: eligible or not, then IV, IVR and price or the signal filter.
LookAt(r, pair) ==
    /\ run[r].step = "scanning"
    /\ pair \in Scanned(r) \ run[r].seen
    /\ \E keep \in {{}} \cup (IF Eligible(pair[1], pair[2]) THEN {{pair}} ELSE {}) :
         run' = [run EXCEPT ![r].seen = @ \cup {pair}, ![r].found = @ \cup keep]
    /\ UNCHANGED <<propVars, order, assigned, watch, cmd, worldVars, history>>

\* Rank and keep the best; the loop can miss a ticker whose list changed.
Rank(r) ==
    /\ run[r].step = "scanning"
    /\ Scanned(r) \subseteq run[r].seen \/ events["edit"] > 0
    /\ \E top \in SUBSET run[r].found :
         /\ Cardinality(top) <= TopN
         /\ top # run[r].found => Cardinality(top) = TopN
         /\ run' = [run EXCEPT ![r] = [step |-> "building", seen |-> {}, found |-> top]]
    /\ UNCHANGED <<propVars, order, assigned, watch, cmd, worldVars, history>>

\* What a scan, or the handler of an assignment, still has to propose.
ToPropose(r, pair) == run[r].step \in {"building", "calls"} /\ pair \in run[r].found

\* Mutant of Propose: inserted with the status of an order row.
ProposeAsOrder(r, pair, p) ==
    /\ ToPropose(r, pair)
    /\ status[p] = "none"
    /\ status' = [status EXCEPT ![p] = "pending_submit"]
    /\ run' = [run EXCEPT ![r].found = @ \ {pair}]
    /\ UNCHANGED <<ticker, kind, expires, order, assigned, watch, cmd, worldVars, history>>

\* The INSERT of one proposal, committed; its eligibility is not read again.
Propose(r, pair, p) ==
    /\ ToPropose(r, pair)
    /\ status[p] = "none"
    /\ status' = [status EXCEPT ![p] = "pending"]
    /\ kind' = [kind EXCEPT ![p] = pair[1]]
    /\ ticker' = [ticker EXCEPT ![p] = pair[2]]
    /\ expires' = [expires EXCEPT ![p] = ExpiresAt(pair[1])]
    /\ run' = [run EXCEPT ![r].found = @ \ {pair}]
    /\ UNCHANGED <<order, assigned, watch, cmd, worldVars, history>>

\* No proposal could be built for a candidate, or its row was not written.
NotBuilt(r, pair) ==
    /\ ToPropose(r, pair)
    /\ run' = [run EXCEPT ![r].found = @ \ {pair}]
    /\ UNCHANGED <<propVars, order, assigned, watch, cmd, worldVars, history>>

\* After its premium scan /scan turns to the assigned positions that have no
\* open covered call, read once (two cycles of one ticker count as one).
TurnToCalls ==
    /\ run["command"].step = "building"
    /\ run["command"].found = {}
    /\ run' = [run EXCEPT !["command"] =
                 [step |-> "calls", seen |-> {}, found |-> {"Call"} \X Uncovered]]
    /\ UNCHANGED <<propVars, order, assigned, watch, cmd, worldVars, history>>

FinishScan(r) ==
    /\ run[r].step = IF r \in {"command", "assignment"} THEN "calls" ELSE "building"
    /\ run[r].found = {}
    /\ run' = [run EXCEPT ![r] = IdleRun]
    /\ cmd' = IF r = "command" THEN IdleCmd ELSE cmd
    /\ UNCHANGED <<propVars, order, assigned, watch, worldVars, history>>

\* An exception outside the loops over tickers and candidates ends the scan;
\* /scan then leaves the covered calls out.
ScanRaises(r) ==
    /\ run[r].step # "idle"
    /\ run' = [run EXCEPT ![r] = IdleRun]
    /\ cmd' = IF r = "command" THEN IdleCmd ELSE cmd
    /\ UNCHANGED <<propVars, order, assigned, watch, worldVars, history>>

-----------------------------------------------------------------------------
(***************************************************************************)
(* What the operator does with a proposal.                                 *)
(***************************************************************************)
ApproveExpired(p) ==
    /\ up
    /\ cmd = IdleCmd
    /\ ~InBlackout
    /\ status[p] = "pending"
    /\ Expired(p)
    /\ status' = [status EXCEPT ![p] = "expired"]
    /\ UNCHANGED <<ticker, kind, expires, order, assigned, watch, run, cmd, worldVars, history>>

\* Mutant of Approve: any proposal that is known can be approved.
ApproveAnyStatus(p) ==
    /\ up
    /\ cmd = IdleCmd
    /\ ~InBlackout
    /\ status[p] # "none"
    /\ ~Expired(p)
    /\ cmd' = [step |-> "building", id |-> p]
    /\ UNCHANGED <<propVars, order, assigned, watch, run, worldVars, history>>

Approve(p) ==
    /\ up
    /\ cmd = IdleCmd
    /\ ~InBlackout
    /\ status[p] = "pending"
    /\ ~Expired(p)
    /\ cmd' = [step |-> "building", id |-> p]
    /\ UNCHANGED <<propVars, order, assigned, watch, run, worldVars, history>>

\* submit_order looks at the clock again, then writes the row of the order.
WriteIntent ==
    /\ cmd.step = "building"
    /\ ~InBlackout
    /\ cmd' = [cmd EXCEPT !.step = "intent"]
    /\ UNCHANGED <<propVars, order, assigned, watch, run, worldVars, history>>

\* Blocked by a risk check, the pause or the clock, no contract or quote; or
\* the row is refused by a lock timeout, or placeOrder raises.
NothingSent ==
    /\ cmd.step \in {"building", "intent"}
    /\ cmd' = IdleCmd
    /\ UNCHANGED <<propVars, order, assigned, watch, run, worldVars, history>>

SendOrder ==
    /\ cmd.step = "intent"
    /\ order' = [order EXCEPT ![cmd.id] = Append(@, "working")]
    /\ cmd' = [cmd EXCEPT !.step = "sent"]
    /\ UNCHANGED <<propVars, assigned, watch, run, worldVars, history>>

\* The row of the order becomes 'submitted'; its monitor starts.
CommitSubmitted ==
    /\ cmd.step = "sent"
    /\ cmd' = [cmd EXCEPT !.step = "approving"]
    /\ UNCHANGED <<propVars, order, assigned, watch, run, worldVars, history>>

MarkApproved ==
    /\ cmd.step = "approving"
    /\ status' = [status EXCEPT ![cmd.id] = "approved"]
    /\ cmd' = IdleCmd
    /\ UNCHANGED <<ticker, kind, expires, order, assigned, watch, run, worldVars, history>>

\* The history of what a crash or a lock timeout does to the submission.
CutOff == cut' = IF cmd.step \in {"sent", "approving"} THEN [cut EXCEPT ![cmd.id] = @ + 1] ELSE cut

\* One of the two UPDATEs after placeOrder meets the busy timeout: /approve
\* ends with the order at the broker and the proposal still pending.
UpdateFails ==
    /\ cmd.step \in {"sent", "approving"}
    /\ Happens("lockTimeout")
    /\ CutOff
    /\ cmd' = IdleCmd
    /\ UNCHANGED <<propVars, order, assigned, watch, run, up, time, twice>>

\* Mutant of Reject: updates are handled concurrently.
RejectBesideCommand(p) ==
    /\ up
    /\ status[p] = "pending"
    /\ status' = [status EXCEPT ![p] = "rejected"]
    /\ UNCHANGED <<ticker, kind, expires, order, assigned, watch, run, cmd, worldVars, history>>

Reject(p) ==
    /\ up
    /\ cmd = IdleCmd
    /\ status[p] = "pending"
    /\ status' = [status EXCEPT ![p] = "rejected"]
    /\ UNCHANGED <<ticker, kind, expires, order, assigned, watch, run, cmd, worldVars, history>>

\* A ticker already in the other premium list, or already seen there by a scan
\* under way, can be found twice by one scan.
AddTicker(b, tk) ==
    /\ up
    /\ cmd = IdleCmd
    /\ tk \notin watch[b]
    /\ watch' = [watch EXCEPT ![b] = @ \cup {tk}]
    /\ twice' = IF /\ b \in Premium
                   /\ \E c \in Premium \ {b} :
                        \/ tk \in watch[c]
                        \/ \E q \in PremiumRuns : <<c, tk>> \in run[q].seen
                THEN twice \cup {tk}
                ELSE twice
    /\ Happens("edit")
    /\ UNCHANGED <<propVars, order, assigned, run, cmd, up, time, cut>>

RemoveTicker(b, tk) ==
    /\ up
    /\ cmd = IdleCmd
    /\ tk \in watch[b]
    /\ watch' = [watch EXCEPT ![b] = @ \ {tk}]
    /\ Happens("edit")
    /\ UNCHANGED <<propVars, order, assigned, run, cmd, up, time, history>>

-----------------------------------------------------------------------------
\* Orders and positions, seen from here: an order fills or ends, a trade is
\* closed; with a covered call the shares can go.
OrderMoves(p, i) ==
    /\ \/ /\ order[p][i] = "working"
          /\ order' \in {[order EXCEPT ![p][i] = s] : s \in {"open", "done"}}
          /\ UNCHANGED assigned
       \/ /\ order[p][i] = "open"
          /\ order' = [order EXCEPT ![p][i] = "done"]
          /\ assigned' \in {assigned} \cup (IF kind[p] = "Call" THEN {assigned \ {ticker[p]}} ELSE {})
    /\ UNCHANGED <<propVars, watch, run, cmd, worldVars, history>>

\* handle_assignment closes the put's trade and goes on to propose a call.
Assignment(p, i) ==
    /\ up
    /\ kind[p] = "Core" /\ order[p][i] = "open"
    /\ order' = [order EXCEPT ![p][i] = "done"]
    /\ assigned' = assigned \cup {ticker[p]}
    /\ run' = [run EXCEPT !["assignment"] =
                 [step |-> "calls", seen |-> {}, found |-> @.found \cup {<<"Call", ticker[p]>>}]]
    /\ UNCHANGED <<propVars, watch, cmd, worldVars, history>>

Tick ==
    /\ time < LastSlot
    /\ time' = time + 1
    /\ UNCHANGED <<propVars, order, assigned, watch, run, cmd, up, events, history>>

Crash ==
    /\ up
    /\ Happens("crash")
    /\ CutOff
    /\ up' = FALSE
    /\ run' = [r \in Runs |-> IdleRun]
    /\ cmd' = IdleCmd
    /\ UNCHANGED <<propVars, order, assigned, watch, time, twice>>

Restart ==
    /\ ~up
    /\ up' = TRUE
    /\ watch' = Configured
    /\ UNCHANGED <<propVars, order, assigned, run, cmd, time, events, history>>

-----------------------------------------------------------------------------
Scan(r) ==
    \/ \E pair \in Pairs : LookAt(r, pair) \/ NotBuilt(r, pair)
    \/ \E pair \in Pairs, p \in Ids : Propose(r, pair, p)
    \/ Rank(r)
    \/ FinishScan(r)
    \/ ScanRaises(r)

Submission == WriteIntent \/ NothingSent \/ SendOrder \/ CommitSubmitted \/ MarkApproved \/ UpdateFails

Operator ==
    \/ CommandScan
    \/ TurnToCalls
    \/ \E p \in Ids : ApproveExpired(p) \/ Approve(p) \/ Reject(p)
    \/ Submission
    \/ \E b \in Buckets, tk \in Tickers : AddTicker(b, tk) \/ RemoveTicker(b, tk)

Next ==
    \/ \E r \in {"job", "eod"} : ScheduledScan(r)
    \/ \E r \in Runs : Scan(r)
    \/ Operator
    \/ \E p \in Ids : \E i \in DOMAIN order[p] : OrderMoves(p, i) \/ Assignment(p, i)
    \/ Tick
    \/ Crash
    \/ Restart

Spec == Init /\ [][Next]_vars

-----------------------------------------------------------------------------
\* README.md, "Duplicate prevention", as far as the code keeps it: the pending
\* puts and spreads of a ticker are one at most, twice as many if premium scans
\* ever ran side by side, and twice as many if one scan could find the ticker
\* in both premium lists.  The rows are written long after the check; what
\* bounds them is that no scan that begins its look after the first row is
\* written adds to it.  (Covered calls are proposed without any check.)
PendingPremium(tk) == {p \in PendingOn(tk) : kind[p] \in Premium}
Limit(tk) == (IF events["overlap"] > 0 THEN 2 ELSE 1) * (IF tk \in twice THEN 2 ELSE 1)
OnePendingPerTicker ==
    \A tk \in Tickers : Cardinality(PendingPremium(tk)) <= Limit(tk)

\* A refused proposal has no order but those whose submission a crash or a lock
\* timeout cut off between placeOrder and the 'approved' commit: neither
\* /reject nor an expiry found by /approve overtakes a submission, whatever
\* happens to other proposals.
NoOrderBehindRefusal ==
    \A p \in Ids : status[p] \in {"rejected", "expired"} => Len(order[p]) = cut[p]

\* An approval, a rejection and an expiry are final, and a proposal's order is
\* sent once, and once more for each time that its own submission was cut off
\* after placeOrder.
OneSubmission ==
    [][\A p \in Ids :
          /\ status[p] \in {"approved", "rejected", "expired"} => status'[p] = status[p]
          /\ Len(order'[p]) <= cut'[p] + 1]_vars
=============================================================================
