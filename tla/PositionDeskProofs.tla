-------------------------- MODULE PositionDeskProofs --------------------------
(***************************************************************************)
(* Proofs about closing, for any trades, attempts and faults.              *)
(* The invariant says of every attempt, step by step, which of its orders  *)
(* exist, that the first one is done or being cancelled once it is given   *)
(* up, and that the order whose fill is booked is filled.  From it follow  *)
(* OneOrderPerAttempt and, step by step, the refinement of CloseLedger.    *)
(* StopFiresOnce rests on a count: a stop sent is remembered in _alerted   *)
(* until a restart forgets it.                                             *)
(***************************************************************************)
EXTENDS PositionDesk, FiniteSetTheorems, TLAPS

\* The last order an attempt has sent is filled.
LastFilled(r) == IF r.o2 = "absent" THEN r.o1 = "filled" ELSE r.o2 = "filled"

Sound(r) ==
    /\ r \in Attempt
    /\ r.step # "none" => r.of \in Trades
    /\ r.step \in {"none", "quoting"} => r.o1 = "absent"
    /\ r.o1 = "absent" => r.o2 = "absent"
    /\ r.step \in {"first", "cancelling", "requoting"} => r.o1 # "absent" /\ r.o2 = "absent"
    /\ r.step \in {"cancelling", "requoting"} /\ r.o1 = "working" => 1 \in r.cancels
    /\ r.step = "second" => r.o2 # "absent"
    /\ r.step \in {"booking", "booked"} => LastFilled(r)
    /\ r.o2 # "absent" /\ r.o1 = "working" => 1 \in r.cancels

AllSound == \A a \in Attempts : Sound(attempt[a])

IInv == TypeOK /\ AllSound

StopsOf(t) == {a \in Attempts : attempt[a].of = t /\ attempt[a].by = "stop"}

StopsCounted ==
    \A t \in Trades :
        Cardinality(StopsOf(t)) <= used["crash"] + (IF <<t, "stop">> \in alerted THEN 1 ELSE 0)

-----------------------------------------------------------------------------
LEMMA NewAttemptSound == Sound(NewAttempt) /\ NewAttempt.step = "none"
BY DEF NewAttempt, Sound, Attempt, OrderStates

\* One attempt changes, the others stay.
LEMMA OneChanges ==
    ASSUME TypeOK, AllSound, NEW a \in Attempts, NEW r, Sound(r),
           attempt' = [attempt EXCEPT ![a] = r]
    PROVE  AllSound' /\ attempt' \in [Attempts -> Attempt]
<1>1. ASSUME NEW b \in Attempts PROVE Sound(attempt'[b])
  BY DEF TypeOK, AllSound
<1>2. AllSound'
  BY <1>1 DEF AllSound, Sound
<1>3. r \in Attempt
  BY DEF Sound
<1>4. QED
  BY <1>2, <1>3 DEF TypeOK

LEMMA BeginSound ==
    ASSUME TypeOK, AllSound, NEW a \in Attempts, NEW t \in Trades,
           NEW reason \in {"manual", "stop", "target"}, Begin(a, t, reason)
    PROVE  AllSound' /\ attempt' \in [Attempts -> Attempt]
<1> DEFINE r == [NewAttempt EXCEPT !.of = t, !.by = reason, !.step = "quoting"]
<1>1. Sound(r)
  BY DEF NewAttempt, Sound, Attempt, OrderStates
<1>2. attempt' = [attempt EXCEPT ![a] = r]
  BY DEF Begin
<1> HIDE DEF r
<1>3. QED
  BY <1>1, <1>2, OneChanges

\* The record of an attempt after a step of its own.
Follows(r, n) == Sound(n) /\ n.of = r.of /\ n.by = r.by

\* No attempt changes what it closes and why.
SamePurposes ==
    \A a \in Attempts : attempt'[a].of = attempt[a].of /\ attempt'[a].by = attempt[a].by

LEMMA OneFollows ==
    ASSUME TypeOK, AllSound, NEW a \in Attempts, NEW n, Follows(attempt[a], n),
           attempt' = [attempt EXCEPT ![a] = n]
    PROVE  AllSound' /\ attempt' \in [Attempts -> Attempt] /\ SamePurposes
<1>1. AllSound' /\ attempt' \in [Attempts -> Attempt]
  BY OneChanges DEF Follows
<1>2. SamePurposes
  BY DEF SamePurposes, Follows, TypeOK
<1>3. QED
  BY <1>1, <1>2

\* The step of an attempt, seen as a change of its record.
LEMMA MonitorSound ==
    ASSUME TypeOK, AllSound, NEW a \in Attempts, Monitor(a)
    PROVE  AllSound' /\ attempt' \in [Attempts -> Attempt] /\ SamePurposes
<1> DEFINE r == attempt[a]
<1>0. Sound(r) /\ attempt \in [Attempts -> Attempt]
  BY DEF TypeOK, AllSound
<1> SUFFICES \E n : Follows(r, n) /\ attempt' = [attempt EXCEPT ![a] = n]
  BY OneFollows
<1> USE DEF AttemptStep
<1>1. CASE Place(a)
  <2>1. Follows(r, [r EXCEPT !.step = "first", !.o1 = "working"])
    <3> HIDE DEF r
    <3>1. r.step = "quoting"
      BY <1>1 DEF Place, r
    <3>2. QED
      BY <1>0, <3>1 DEF Follows, Sound, Attempt, OrderStates
  <2>2. QED
    BY <1>1, <2>1 DEF Place
<1>2. CASE CloseFails(a)
  <2>1. Follows(r, [r EXCEPT !.step = "done"])
    BY <1>0, <1>2 DEF CloseFails, Follows, Sound, Attempt
  <2>2. QED
    BY <1>2, <2>1 DEF CloseFails
<1>3. CASE SeeFill(a)
  <2>1. Follows(r, [r EXCEPT !.step = "booking"])
    BY <1>0, <1>3 DEF SeeFill, Follows, Sound, Attempt, LastFilled
  <2>2. attempt' = [attempt EXCEPT ![a] = [r EXCEPT !.step = "booking"]]
    BY <1>3 DEF SeeFill
  <2>3. QED
    BY <2>1, <2>2
<1>4. CASE FirstEnds(a)
  <2>1. CASE r.o1 = "cancelled" /\ attempt' = [attempt EXCEPT ![a] = [r EXCEPT !.step = "requoting"]]
    <3>1. Follows(r, [r EXCEPT !.step = "requoting"])
      BY <1>0, <1>4, <2>1 DEF FirstEnds, Follows, Sound, Attempt
    <3>2. QED
      BY <2>1, <3>1
  <2>2. CASE attempt' = [attempt EXCEPT ![a] = [r EXCEPT !.step = "cancelling", !.cancels = {1}]]
    <3>1. Follows(r, [r EXCEPT !.step = "cancelling", !.cancels = {1}])
      BY <1>0, <1>4 DEF FirstEnds, Follows, Sound, Attempt
    <3>2. QED
      BY <2>2, <3>1
  <2>3. CASE attempt' = [attempt EXCEPT ![a] = [r EXCEPT !.step = "lost"]]
    <3>1. Follows(r, [r EXCEPT !.step = "lost"])
      BY <1>0, <1>4 DEF FirstEnds, Follows, Sound, Attempt
    <3>2. QED
      BY <2>3, <3>1
  <2>4. QED
    BY <1>4, <2>1, <2>2, <2>3 DEF FirstEnds
<1>5. CASE CancelWaitEnds(a)
  <2>1. Follows(r, [r EXCEPT !.step = "requoting"])
    BY <1>0, <1>5 DEF CancelWaitEnds, Follows, Sound, Attempt
  <2>2. QED
    BY <1>5, <2>1 DEF CancelWaitEnds
<1>6. CASE Retry(a)
  <2>1. Follows(r, [r EXCEPT !.step = "second", !.o2 = "working"])
    <3> HIDE DEF r
    <3>1. r.step = "requoting"
      BY <1>6 DEF Retry, r
    <3>2. QED
      BY <1>0, <3>1 DEF Follows, Sound, Attempt, OrderStates
  <2>2. QED
    BY <1>6, <2>1 DEF Retry
<1>7. CASE RetryFails(a)
  <2>1. Follows(r, [r EXCEPT !.step = "done"])
    BY <1>0, <1>7 DEF RetryFails, Follows, Sound, Attempt
  <2>2. QED
    BY <1>7, <2>1 DEF RetryFails
<1>8. CASE RetryEnds(a)
  <2>1. PICK c \in {r.cancels, r.cancels \cup {2}} :
          attempt' = [attempt EXCEPT ![a] = [r EXCEPT !.step = "done", !.cancels = c]]
    BY <1>8 DEF RetryEnds
  <2>2. Follows(r, [r EXCEPT !.step = "done", !.cancels = c])
    <3> HIDE DEF r
    <3>1. r.step = "second"
      BY <1>8 DEF RetryEnds, r
    <3>2. c \in SUBSET {1, 2} /\ (1 \in r.cancels => 1 \in c)
      BY <1>0 DEF Follows, Sound, Attempt
    <3>3. QED
      BY <1>0, <3>1, <3>2 DEF Follows, Sound, Attempt
  <2>3. QED
    BY <2>1, <2>2
<1>9. CASE Book(a)
  <2>1. Follows(r, [r EXCEPT !.step = "booked"])
    BY <1>0, <1>9 DEF Book, Follows, Sound, Attempt, LastFilled
  <2>2. QED
    BY <1>9, <2>1 DEF Book
<1>10. QED
  BY <1>1, <1>2, <1>3, <1>4, <1>5, <1>6, <1>7, <1>8, <1>9 DEF Monitor

\* The booking is refused.
LEMMA BookFailsSound ==
    ASSUME TypeOK, AllSound, NEW a \in Attempts, BookFails(a)
    PROVE  AllSound' /\ attempt' \in [Attempts -> Attempt] /\ SamePurposes
<1> DEFINE r == attempt[a]
<1>1. r.step = "booking" /\ attempt' = [attempt EXCEPT ![a] = [r EXCEPT !.step = "unbooked"]]
  BY DEF BookFails, AttemptStep
<1>2. Follows(r, [r EXCEPT !.step = "unbooked"])
  BY <1>1 DEF AllSound, Follows, Sound, Attempt, LastFilled
<1>3. QED
  BY <1>1, <1>2, OneFollows

\* An order at the broker ends.
LEMMA BrokerSound ==
    ASSUME TypeOK, AllSound, NEW a \in Attempts, BrokerMoves(a)
    PROVE  AllSound' /\ attempt' \in [Attempts -> Attempt] /\ SamePurposes
<1>0. Sound(attempt[a])
  BY DEF AllSound
<1>1. PICK s \in {"filled", "cancelled"} :
        \/ attempt[a].o1 = "working" /\ attempt' = [attempt EXCEPT ![a].o1 = s]
        \/ attempt[a].o2 = "working" /\ attempt' = [attempt EXCEPT ![a].o2 = s]
  BY DEF BrokerMoves
<1> DEFINE r == attempt[a]
<1>2. CASE r.o1 = "working" /\ attempt' = [attempt EXCEPT ![a] = [r EXCEPT !.o1 = s]]
  <2>1. Follows(r, [r EXCEPT !.o1 = s])
    BY <1>0, <1>2 DEF Follows, Sound, Attempt, OrderStates, LastFilled
  <2>2. QED
    BY <1>2, <2>1, OneFollows
<1>3. CASE r.o2 = "working" /\ attempt' = [attempt EXCEPT ![a] = [r EXCEPT !.o2 = s]]
  <2>1. Follows(r, [r EXCEPT !.o2 = s])
    BY <1>0, <1>3 DEF Follows, Sound, Attempt, OrderStates, LastFilled
  <2>2. QED
    BY <1>3, <2>1, OneFollows
<1>4. QED
  BY <1>1, <1>2, <1>3

\* A crash ends every attempt that is under way.
LEMMA CrashSound ==
    ASSUME TypeOK, AllSound, Crash PROVE AllSound' /\ attempt' \in [Attempts -> Attempt]
<1>1. attempt' = [a \in Attempts |->
                    IF attempt[a].step \in {"none", "booked", "unbooked", "done"}
                    THEN attempt[a]
                    ELSE [attempt[a] EXCEPT !.step = "lost"]]
  BY DEF Crash
<1>2. ASSUME NEW a \in Attempts PROVE Sound(attempt'[a])
  <2>1. Sound(attempt[a])
    BY DEF AllSound
  <2>2. attempt[a].step # "none" => Sound([attempt[a] EXCEPT !.step = "lost"])
    BY <2>1 DEF Sound, Attempt
  <2>3. QED
    BY <1>1, <2>1, <2>2
<1>3. AllSound'
  BY <1>2 DEF AllSound, Sound
<1>4. \A a \in Attempts : attempt'[a] \in Attempt
  BY <1>2 DEF Sound
<1>5. QED
  BY <1>1, <1>3, <1>4

\* Nothing about the attempts changes.
LEMMA SameAttempts ==
    ASSUME TypeOK, AllSound, UNCHANGED attempt
    PROVE  AllSound' /\ attempt' \in [Attempts -> Attempt]
BY DEF TypeOK, AllSound, Sound, LastFilled

\* The part of TypeOK that is not about the attempts.
RestOK ==
    /\ trade \in [Trades -> [strategy : Strategies, status : {"open", "closed"}]]
    /\ cmd \in Attempts \cup {NoAttempt}
    /\ handlers \subseteq Trades
    /\ alerted \subseteq Trades \X {"stop", "target", "strike", "profit"}
    /\ connected \in BOOLEAN
    /\ up \in BOOLEAN
    /\ used \in [Faults -> Nat]

LEMMA MonitorRest ==
    ASSUME TypeOK, AllSound, NEW a \in Attempts, Monitor(a) PROVE RestOK'
<1> USE DEF TypeOK, RestOK, deskVars, worldVars
<1>1. CASE Book(a)
  <2>1. attempt[a].of \in Trades
    BY <1>1 DEF Book, AttemptStep, AllSound, Sound
  <2>2. [trade[attempt[a].of] EXCEPT !.status = "closed"]
          \in [strategy : Strategies, status : {"open", "closed"}]
    BY <2>1
  <2>3. trade' = [trade EXCEPT ![attempt[a].of] = [trade[attempt[a].of] EXCEPT !.status = "closed"]]
    BY <1>1 DEF Book
  <2>4. trade' \in [Trades -> [strategy : Strategies, status : {"open", "closed"}]]
    BY <2>1, <2>2, <2>3
  <2>5. QED
    BY <1>1, <2>4 DEF Book
<1>2. CASE ~Book(a)
  <2>1. UNCHANGED <<trade, deskVars, worldVars, used>> /\ cmd' \in {cmd, NoAttempt}
    BY <1>2 DEF Monitor, Place, CloseFails, SeeFill, FirstEnds, CancelWaitEnds, Retry,
       RetryFails, RetryEnds
  <2>2. QED
    BY <2>1
<1>3. QED
  BY <1>1, <1>2

LEMMA OtherRest ==
    ASSUME TypeOK, [Next]_vars, \A a \in Attempts : ~Monitor(a) PROVE RestOK'
<1> USE DEF TypeOK, RestOK, deskVars, worldVars
<1>1. ASSUME NEW a \in Attempts, NEW t \in Trades, CloseCommand(a, t) PROVE RestOK'
  BY <1>1 DEF CloseCommand
<1>2. ASSUME NEW t \in Trades, NEW a \in Attempts, NEW reason \in {"stop", "target"},
             LeapTick(t, a, reason)
      PROVE  RestOK'
  BY <1>2 DEF LeapTick
<1>3. ASSUME NEW t \in Trades, Watch(t) PROVE RestOK'
  BY <1>3 DEF Watch
<1>4. ASSUME NEW t \in Trades, StrikeTick(t) PROVE RestOK'
  BY <1>4 DEF StrikeTick
<1>5. ASSUME NEW t \in Trades, ProfitAlert(t) PROVE RestOK'
  BY <1>5 DEF ProfitAlert
<1>6. ASSUME NEW a \in Attempts, BrokerMoves(a) PROVE RestOK'
  BY <1>6 DEF BrokerMoves
<1>7. CASE Disconnect
  <2>1. used' \in [Faults -> Nat]
    BY <1>7 DEF Disconnect, Spend, Faults
  <2>2. QED
    BY <1>7, <2>1 DEF Disconnect
<1>8. CASE Crash
  <2>1. used' \in [Faults -> Nat]
    BY <1>8 DEF Crash, Spend, Faults
  <2>2. QED
    BY <1>8, <2>1 DEF Crash
<1>9. CASE Reconnect
  BY <1>9 DEF Reconnect
<1>10. CASE Restart
  BY <1>10 DEF Restart
<1>11. ASSUME NEW a \in Attempts, BookFails(a) PROVE RestOK'
  <2>1. used' \in [Faults -> Nat]
    BY <1>11 DEF BookFails, Spend, Faults
  <2>2. QED
    BY <1>11, <2>1 DEF BookFails
<1>12. CASE UNCHANGED vars
  BY <1>12 DEF vars
<1>13. QED
  BY <1>1, <1>2, <1>3, <1>4, <1>5, <1>6, <1>7, <1>8, <1>9, <1>10, <1>11, <1>12
     DEF Next, Ticks, Environment

LEMMA InitIInv == Init => IInv
<1> SUFFICES ASSUME Init PROVE IInv
  OBVIOUS
<1>1. attempt = [a \in Attempts |-> NewAttempt]
  BY DEF Init
<1>2. \A a \in Attempts : Sound(attempt[a])
  BY <1>1, NewAttemptSound
<1>3. attempt \in [Attempts -> Attempt]
  BY <1>1, NewAttemptSound DEF Sound
<1>4. trade \in [Trades -> [strategy : Strategies, status : {"open", "closed"}]]
  BY DEF Init
<1>5. used \in [Faults -> Nat]
  BY DEF Init
<1>6. QED
  BY <1>2, <1>3, <1>4, <1>5 DEF Init, IInv, TypeOK, AllSound

LEMMA NextIInv == IInv /\ [Next]_vars => IInv'
<1> SUFFICES ASSUME TypeOK, AllSound, [Next]_vars PROVE AllSound' /\ TypeOK'
  BY DEF IInv
<1>1. RestOK'
  BY MonitorRest, OtherRest
<1>2. AllSound' /\ attempt' \in [Attempts -> Attempt]
  <2>1. ASSUME NEW a \in Attempts, NEW t \in Trades, CloseCommand(a, t)
        PROVE  AllSound' /\ attempt' \in [Attempts -> Attempt]
    BY <2>1, BeginSound DEF CloseCommand
  <2>2. ASSUME NEW t \in Trades, NEW a \in Attempts, NEW reason \in {"stop", "target"},
               LeapTick(t, a, reason)
        PROVE  AllSound' /\ attempt' \in [Attempts -> Attempt]
    BY <2>2, BeginSound DEF LeapTick
  <2>3. ASSUME NEW t \in Trades, Watch(t) \/ StrikeTick(t) \/ ProfitAlert(t)
        PROVE  UNCHANGED attempt
    BY <2>3 DEF Watch, StrikeTick, ProfitAlert
  <2>4. CASE Disconnect \/ Reconnect \/ Restart \/ UNCHANGED vars
    BY <2>4, SameAttempts DEF Disconnect, Reconnect, Restart, vars
  <2>5. QED
    BY <2>1, <2>2, <2>3, <2>4, MonitorSound, BookFailsSound, BrokerSound, CrashSound,
       SameAttempts DEF Next, Ticks, Environment
<1>3. QED
  BY <1>1, <1>2 DEF RestOK, TypeOK

LEMMA Invariance == Spec => []IInv
<1>1. QED
  BY InitIInv, NextIInv, PTL DEF Spec

-----------------------------------------------------------------------------
\* Counting the stops of a trade.

\* A step that starts no attempt leaves every count as it is.
LEMMA SameStops ==
    ASSUME NEW t \in Trades, SamePurposes PROVE StopsOf(t)' = StopsOf(t)
BY DEF StopsOf, SamePurposes

LEMMA StopsFinite ==
    ASSUME NEW t \in Trades
    PROVE  IsFiniteSet(StopsOf(t)) /\ Cardinality(StopsOf(t)) \in Nat
<1>1. StopsOf(t) \subseteq Attempts
  BY DEF StopsOf
<1>2. QED
  BY <1>1, AttemptAssumption, FS_Subset, FS_CardinalityType

LEMMA InitStops == Init => StopsCounted
<1> SUFFICES ASSUME Init, NEW t \in Trades
             PROVE  Cardinality(StopsOf(t))
                      <= used["crash"] + (IF <<t, "stop">> \in alerted THEN 1 ELSE 0)
  BY DEF StopsCounted
<1>1. StopsOf(t) = {}
  BY DEF Init, StopsOf, NewAttempt
<1>2. used["crash"] = 0 /\ <<t, "stop">> \notin alerted
  BY DEF Init, Faults
<1>3. QED
  BY <1>1, <1>2, FS_EmptySet

\* The stop of a trade is sent only when _alerted does not know of it.
LEMMA TickStops ==
    ASSUME TypeOK, StopsCounted, NEW t \in Trades, NEW a \in Attempts,
           NEW reason \in {"stop", "target"}, LeapTick(t, a, reason), NEW s \in Trades
    PROVE  Cardinality(StopsOf(s)')
             <= used["crash"] + (IF <<s, "stop">> \in alerted' THEN 1 ELSE 0)
<1>0. /\ attempt' = [attempt EXCEPT ![a] =
                       [NewAttempt EXCEPT !.of = t, !.by = reason, !.step = "quoting"]]
      /\ alerted' = alerted \cup {<<t, reason>>} /\ <<t, reason>> \notin alerted
      /\ used["crash"] \in Nat
  BY DEF LeapTick, Begin, TypeOK, Faults
<1>1. attempt'[a].of = t /\ attempt'[a].by = reason /\ \A b \in Attempts : b # a => attempt'[b] = attempt[b]
  BY <1>0 DEF TypeOK, NewAttempt
<1>2. Cardinality(StopsOf(s)) <= used["crash"] + (IF <<s, "stop">> \in alerted THEN 1 ELSE 0)
  BY DEF StopsCounted
<1>3. IsFiniteSet(StopsOf(s)) /\ Cardinality(StopsOf(s)) \in Nat
  BY StopsFinite
<1>4. CASE s = t /\ reason = "stop"
  <2>1. StopsOf(s)' \subseteq StopsOf(s) \cup {a}
    BY <1>1 DEF StopsOf
  <2>2. /\ IsFiniteSet(StopsOf(s) \cup {a})
        /\ Cardinality(StopsOf(s) \cup {a}) \in Nat
        /\ Cardinality(StopsOf(s) \cup {a}) <= Cardinality(StopsOf(s)) + 1
    BY <1>3, FS_AddElement
  <2>3. Cardinality(StopsOf(s)') \in Nat /\ Cardinality(StopsOf(s)') <= Cardinality(StopsOf(s) \cup {a})
    BY <2>1, <2>2, FS_Subset, FS_CardinalityType
  <2>4. <<s, "stop">> \notin alerted /\ <<s, "stop">> \in alerted'
    BY <1>0, <1>4
  <2>5. QED
    BY <1>0, <1>2, <1>3, <2>2, <2>3, <2>4
<1>5. CASE ~(s = t /\ reason = "stop")
  <2>1. StopsOf(s)' \subseteq StopsOf(s)
    BY <1>1, <1>5 DEF StopsOf
  <2>2. Cardinality(StopsOf(s)') \in Nat /\ Cardinality(StopsOf(s)') <= Cardinality(StopsOf(s))
    BY <1>3, <2>1, FS_Subset, FS_CardinalityType
  <2>3. <<s, "stop">> \in alerted <=> <<s, "stop">> \in alerted'
    BY <1>0, <1>5
  <2>4. QED
    BY <1>0, <1>2, <1>3, <2>2, <2>3
<1>6. QED
  BY <1>4, <1>5

\* A manual close starts an attempt that is no stop.
LEMMA CommandStops ==
    ASSUME TypeOK, NEW t \in Trades, NEW a \in Attempts, CloseCommand(a, t), NEW s \in Trades
    PROVE  Cardinality(StopsOf(s)') <= Cardinality(StopsOf(s))
<1>1. attempt'[a].by = "manual" /\ \A b \in Attempts : b # a => attempt'[b] = attempt[b]
  BY DEF CloseCommand, Begin, TypeOK, NewAttempt
<1>2. StopsOf(s)' \subseteq StopsOf(s)
  BY <1>1 DEF StopsOf
<1>3. QED
  BY <1>2, StopsFinite, FS_Subset

LEMMA NextStops == IInv /\ StopsCounted /\ [Next]_vars => StopsCounted'
<1> SUFFICES ASSUME TypeOK, AllSound, StopsCounted, [Next]_vars, NEW t \in Trades
             PROVE  Cardinality(StopsOf(t)')
                      <= used'["crash"] + (IF <<t, "stop">> \in alerted' THEN 1 ELSE 0)
  BY DEF StopsCounted, StopsOf, IInv
<1>0. /\ Cardinality(StopsOf(t)) <= used["crash"] + (IF <<t, "stop">> \in alerted THEN 1 ELSE 0)
      /\ Cardinality(StopsOf(t)) \in Nat /\ used["crash"] \in Nat
  BY StopsFinite DEF StopsCounted, TypeOK, Faults
<1> USE DEF deskVars
<1>1. ASSUME NEW s \in Trades, NEW a \in Attempts, NEW reason \in {"stop", "target"},
             LeapTick(s, a, reason)
      PROVE  Cardinality(StopsOf(t)')
               <= used'["crash"] + (IF <<t, "stop">> \in alerted' THEN 1 ELSE 0)
  <2>1. used' = used
    BY <1>1 DEF LeapTick
  <2>2. QED
    BY <1>1, <2>1, TickStops
<1>2. ASSUME NEW s \in Trades, NEW a \in Attempts, CloseCommand(a, s)
      PROVE  Cardinality(StopsOf(t)')
               <= used'["crash"] + (IF <<t, "stop">> \in alerted' THEN 1 ELSE 0)
  <2>1. used' = used /\ alerted' = alerted
    BY <1>2 DEF CloseCommand
  <2>2. Cardinality(StopsOf(t)') <= Cardinality(StopsOf(t)) /\ Cardinality(StopsOf(t)') \in Nat
    <3>1. IsFiniteSet(StopsOf(t)')
      <4>1. StopsOf(t)' \subseteq Attempts
        BY DEF StopsOf
      <4>2. QED
        BY <4>1, AttemptAssumption, FS_Subset
    <3>2. QED
      BY <1>2, <3>1, CommandStops, FS_CardinalityType
  <2>3. QED
    BY <1>0, <2>1, <2>2
<1>3. ASSUME NEW a \in Attempts, Monitor(a) \/ BrokerMoves(a)
      PROVE  Cardinality(StopsOf(t)')
               <= used'["crash"] + (IF <<t, "stop">> \in alerted' THEN 1 ELSE 0)
  <2>1. StopsOf(t)' = StopsOf(t)
    BY <1>3, MonitorSound, BrokerSound, SameStops
  <2>2. used' = used /\ alerted' = alerted
    BY <1>3 DEF Monitor, Place, CloseFails, SeeFill, FirstEnds, CancelWaitEnds, Retry,
       RetryFails, RetryEnds, Book, BrokerMoves
  <2>3. QED
    BY <1>0, <2>1, <2>2
<1>4. CASE Crash
  <2>1. StopsOf(t)' = StopsOf(t)
    <3>1. SamePurposes
      BY <1>4 DEF Crash, TypeOK, Attempt, SamePurposes
    <3>2. QED
      BY <3>1, SameStops
  <2>2. used'["crash"] = used["crash"] + 1 /\ <<t, "stop">> \notin alerted'
    BY <1>4 DEF Crash, Spend, TypeOK, Faults
  <2>3. QED
    BY <1>0, <2>1, <2>2
<1>5. ASSUME NEW s \in Trades, Watch(s) \/ StrikeTick(s) \/ ProfitAlert(s)
      PROVE  Cardinality(StopsOf(t)')
               <= used'["crash"] + (IF <<t, "stop">> \in alerted' THEN 1 ELSE 0)
  <2>1. StopsOf(t)' = StopsOf(t)
    BY <1>5 DEF StopsOf, Watch, StrikeTick, ProfitAlert
  <2>2. used' = used /\ (<<t, "stop">> \in alerted <=> <<t, "stop">> \in alerted')
    BY <1>5 DEF Watch, StrikeTick, ProfitAlert
  <2>3. QED
    BY <1>0, <2>1, <2>2
<1>6. CASE Disconnect \/ Reconnect \/ Restart \/ UNCHANGED vars
  <2>1. StopsOf(t)' = StopsOf(t)
    BY <1>6 DEF StopsOf, Disconnect, Reconnect, Restart, vars
  <2>2. used'["crash"] = used["crash"] /\ alerted' = alerted
    BY <1>6 DEF Disconnect, Spend, Reconnect, Restart, vars, TypeOK, Faults
  <2>3. QED
    BY <1>0, <2>1, <2>2
<1>7. ASSUME NEW a \in Attempts, BookFails(a)
      PROVE  Cardinality(StopsOf(t)')
               <= used'["crash"] + (IF <<t, "stop">> \in alerted' THEN 1 ELSE 0)
  <2>1. StopsOf(t)' = StopsOf(t)
    BY <1>7, BookFailsSound, SameStops
  <2>2. used'["crash"] = used["crash"] /\ alerted' = alerted
    BY <1>7 DEF BookFails, Spend, TypeOK, Faults
  <2>3. QED
    BY <1>0, <2>1, <2>2
<1>8. QED
  BY <1>1, <1>2, <1>3, <1>4, <1>5, <1>6, <1>7 DEF Next, Ticks, Environment

-----------------------------------------------------------------------------
(***************************************************************************)
(* The refinement of CloseLedger.                                          *)
(***************************************************************************)
StageMap == [a \in Attempts |-> [i \in {1, 2} |-> Stage(a, i)]]
ClosedTrades == {t \in Trades : trade[t].status = "closed"}

\* What a record looks like in the ledger.
LEMMA Stages ==
    ASSUME NEW a \in Attempts, Sound(attempt[a])
    PROVE  /\ attempt[a].step # "booked" =>
                \A i \in {1, 2} :
                   LET state == IF i = 1 THEN attempt[a].o1 ELSE attempt[a].o2
                   IN  Stage(a, i) = IF state = "absent" THEN "unsent"
                                     ELSE IF state = "cancelled" THEN "void" ELSE state
           /\ attempt[a].step = "booked" /\ attempt[a].o2 = "absent" =>
                Stage(a, 1) = "booked" /\ Stage(a, 2) = "unsent"
           /\ attempt[a].step = "booked" /\ attempt[a].o2 # "absent" =>
                /\ Stage(a, 2) = "booked"
                /\ Stage(a, 1) = IF attempt[a].o1 = "absent" THEN "unsent"
                                 ELSE IF attempt[a].o1 = "cancelled" THEN "void" ELSE attempt[a].o1
BY DEF Stage, Sound, Attempt, OrderStates, LastFilled

LEMMA StagesNext ==
    ASSUME NEW a \in Attempts, Sound(attempt'[a])
    PROVE  /\ attempt'[a].step # "booked" =>
                \A i \in {1, 2} :
                   LET state == IF i = 1 THEN attempt'[a].o1 ELSE attempt'[a].o2
                   IN  Stage(a, i)' = IF state = "absent" THEN "unsent"
                                      ELSE IF state = "cancelled" THEN "void" ELSE state
           /\ attempt'[a].step = "booked" /\ attempt'[a].o2 = "absent" =>
                Stage(a, 1)' = "booked" /\ Stage(a, 2)' = "unsent"
           /\ attempt'[a].step = "booked" /\ attempt'[a].o2 # "absent" =>
                /\ Stage(a, 2)' = "booked"
                /\ Stage(a, 1)' = IF attempt'[a].o1 = "absent" THEN "unsent"
                                  ELSE IF attempt'[a].o1 = "cancelled" THEN "void" ELSE attempt'[a].o1
BY DEF Stage, Sound, Attempt, OrderStates, LastFilled

LEMMA InitRefines == Init => Ledger!Init
<1> SUFFICES ASSUME Init PROVE Ledger!Init
  OBVIOUS
<1>1. ASSUME NEW a \in Attempts, NEW i \in {1, 2} PROVE Stage(a, i) = "unsent"
  BY DEF Init, Stage, NewAttempt
<1>2. ClosedTrades = {}
  BY DEF Init, ClosedTrades
<1>3. QED
  BY <1>1, <1>2 DEF Ledger!Init, Ledger!Orders, ClosedTrades

\* No order moves and no trade is closed: the ledger stutters.
LEMMA Stutters ==
    ASSUME \A a \in Attempts : Stage(a, 1)' = Stage(a, 1) /\ Stage(a, 2)' = Stage(a, 2),
           UNCHANGED trade
    PROVE  UNCHANGED <<StageMap, ClosedTrades>>
BY DEF StageMap, ClosedTrades

\* Exactly one order moves.
LEMMA OneMoves ==
    ASSUME NEW a \in Attempts, NEW i \in {1, 2}, NEW from, NEW to,
           Stage(a, i) = from, Stage(a, i)' = to,
           \A b \in Attempts, j \in {1, 2} : <<b, j>> # <<a, i>> => Stage(b, j)' = Stage(b, j)
    PROVE  Ledger!Move(a, i, from, to)
<1>1. StageMap[a][i] = from
  BY DEF StageMap
<1>2. StageMap' = [StageMap EXCEPT ![a][i] = to]
  <2>1. StageMap'[a] = [StageMap[a] EXCEPT ![i] = to]
    <3>1. StageMap'[a] = [j \in {1, 2} |-> Stage(a, j)'] /\ StageMap[a] = [j \in {1, 2} |-> Stage(a, j)]
      BY DEF StageMap
    <3>2. \A j \in {1, 2} : Stage(a, j)' = IF j = i THEN to ELSE Stage(a, j)
      OBVIOUS
    <3>3. QED
      BY <3>1, <3>2
  <2>2. ASSUME NEW b \in Attempts, b # a PROVE StageMap'[b] = StageMap[b]
    <3>1. \A j \in {1, 2} : Stage(b, j)' = Stage(b, j)
      BY <2>2
    <3>2. QED
      BY <3>1 DEF StageMap
  <2>3. QED
    BY <2>1, <2>2 DEF StageMap
<1>3. QED
  BY <1>1, <1>2 DEF Ledger!Move, StageMap

\* The other attempts keep their stages.
LEMMA OthersKeep ==
    ASSUME TypeOK, NEW a \in Attempts, NEW n, attempt' = [attempt EXCEPT ![a] = n],
           NEW b \in Attempts, b # a, NEW j \in {1, 2}
    PROVE  Stage(b, j)' = Stage(b, j)
<1>1. attempt'[b] = attempt[b]
  BY DEF TypeOK
<1>2. QED
  BY <1>1 DEF Stage

\* A step of an attempt that moves no order.
LEMMA QuietStep ==
    ASSUME IInv, AllSound', NEW a \in Attempts, NEW n, attempt' = [attempt EXCEPT ![a] = n],
           n.o1 = attempt[a].o1, n.o2 = attempt[a].o2, n.step # "booked",
           attempt[a].step # "booked", UNCHANGED trade
    PROVE  UNCHANGED <<StageMap, ClosedTrades>>
<1>1. attempt'[a] = n /\ Sound(attempt[a]) /\ Sound(attempt'[a])
  BY DEF IInv, TypeOK, AllSound, Sound, LastFilled
<1>2. Stage(a, 1)' = Stage(a, 1) /\ Stage(a, 2)' = Stage(a, 2)
  BY <1>1, Stages, StagesNext
<1>3. ASSUME NEW b \in Attempts, b # a
      PROVE  Stage(b, 1)' = Stage(b, 1) /\ Stage(b, 2)' = Stage(b, 2)
  BY <1>3, OthersKeep DEF IInv
<1>4. QED
  BY <1>2, <1>3, Stutters

LEMMA BeginRefines ==
    ASSUME IInv, AllSound', NEW a \in Attempts, NEW t \in Trades,
           NEW reason \in {"manual", "stop", "target"}, Begin(a, t, reason), UNCHANGED trade
    PROVE  UNCHANGED <<StageMap, ClosedTrades>>
<1> DEFINE n == [NewAttempt EXCEPT !.of = t, !.by = reason, !.step = "quoting"]
<1>1. attempt' = [attempt EXCEPT ![a] = n] /\ attempt[a].step = "none"
  BY DEF Begin
<1>2. n.o1 = "absent" /\ n.o2 = "absent" /\ n.step = "quoting"
  BY DEF NewAttempt
<1>3. attempt[a].o1 = "absent" /\ attempt[a].o2 = "absent"
  BY <1>1 DEF IInv, AllSound, Sound
<1> HIDE DEF n
<1>4. QED
  BY <1>1, <1>2, <1>3, QuietStep

LEMMA MonitorRefines ==
    ASSUME IInv, AllSound', NEW a \in Attempts, Monitor(a)
    PROVE  [Ledger!Next]_<<StageMap, ClosedTrades>>
<1> DEFINE r == attempt[a]
<1>0. Sound(r) /\ Sound(attempt'[a]) /\ TypeOK /\ r \in Attempt /\ attempt \in [Attempts -> Attempt]
  BY DEF IInv, AllSound, Sound, LastFilled, TypeOK
<1> USE DEF AttemptStep
<1>1. CASE Place(a)
  <2> DEFINE n == [r EXCEPT !.step = "first", !.o1 = "working"]
  <2>1. attempt' = [attempt EXCEPT ![a] = n] /\ r.step = "quoting" /\ UNCHANGED trade
    BY <1>1 DEF Place
  <2>2. attempt'[a] = n /\ n.step = "first" /\ n.o1 = "working" /\ n.o2 = r.o2
    BY <1>0, <2>1 DEF Attempt
  <2>3. r.o1 = "absent" /\ r.o2 = "absent"
    BY <1>0, <2>1 DEF Sound
  <2>4. Stage(a, 1) = "unsent" /\ Stage(a, 1)' = "working" /\ Stage(a, 2)' = Stage(a, 2)
    BY <1>0, <2>1, <2>2, <2>3, Stages, StagesNext
  <2>5. \A b \in Attempts, j \in {1, 2} : <<b, j>> # <<a, 1>> => Stage(b, j)' = Stage(b, j)
    <3> HIDE DEF n
    <3>1. QED
      BY <1>0, <2>1, <2>4, OthersKeep
  <2>6. Ledger!Move(a, 1, "unsent", "working")
    BY <2>4, <2>5, OneMoves
  <2>7. UNCHANGED ClosedTrades
    BY <2>1 DEF ClosedTrades
  <2>8. QED
    BY <2>6, <2>7 DEF Ledger!Send, Ledger!Next, ClosedTrades
<1>2. CASE Retry(a)
  <2> DEFINE n == [r EXCEPT !.step = "second", !.o2 = "working"]
  <2>1. attempt' = [attempt EXCEPT ![a] = n] /\ r.step = "requoting" /\ UNCHANGED trade
    BY <1>2 DEF Retry
  <2>2. attempt'[a] = n /\ n.step = "second" /\ n.o2 = "working" /\ n.o1 = r.o1
    BY <1>0, <2>1 DEF Attempt
  <2>3. r.o1 # "absent" /\ r.o2 = "absent" /\ r.o1 \in OrderStates
    BY <1>0, <2>1 DEF Sound, Attempt
  <2>4. Stage(a, 2) = "unsent" /\ Stage(a, 2)' = "working" /\ Stage(a, 1)' = Stage(a, 1)
    BY <1>0, <2>1, <2>2, <2>3, Stages, StagesNext
  <2>5. Stage(a, 1) \notin {"unsent", "booked"}
    BY <1>0, <2>1, <2>3, Stages DEF OrderStates
  <2>6. \A b \in Attempts, j \in {1, 2} : <<b, j>> # <<a, 2>> => Stage(b, j)' = Stage(b, j)
    <3> HIDE DEF n
    <3>1. QED
      BY <1>0, <2>1, <2>4, OthersKeep
  <2>7. Ledger!Move(a, 2, "unsent", "working")
    BY <2>4, <2>6, OneMoves
  <2>8. UNCHANGED ClosedTrades
    BY <2>1 DEF ClosedTrades
  <2>9. QED
    BY <2>5, <2>7, <2>8 DEF Ledger!Retry, Ledger!Next, ClosedTrades
<1>3. CASE Book(a)
  <2> DEFINE n == [r EXCEPT !.step = "booked"]
  <2>0. PICK last \in {1, 2} : last = IF r.o2 = "absent" THEN 1 ELSE 2
    OBVIOUS
  <2>1. attempt' = [attempt EXCEPT ![a] = n] /\ r.step = "booking"
    BY <1>3 DEF Book
  <2>2. attempt'[a] = n /\ n.step = "booked" /\ n.o1 = r.o1 /\ n.o2 = r.o2
    BY <1>0, <2>1 DEF Attempt
  <2>3. LastFilled(r) /\ r.of \in Trades
    BY <1>0, <2>1 DEF Sound
  <2>4. Stage(a, last) = "filled" /\ Stage(a, last)' = "booked"
    BY <1>0, <2>0, <2>1, <2>2, <2>3, Stages, StagesNext DEF LastFilled
  <2>5. \A j \in {1, 2} : j # last => Stage(a, j)' = Stage(a, j)
    BY <1>0, <2>0, <2>1, <2>2, Stages, StagesNext
  <2>6. Stage(a, 1) # "booked" /\ Stage(a, 2) # "booked"
    BY <1>0, <2>1, Stages DEF Attempt, OrderStates
  <2> HIDE DEF n
  <2>8. \A b \in Attempts, j \in {1, 2} : <<b, j>> # <<a, last>> => Stage(b, j)' = Stage(b, j)
    BY <1>0, <2>1, <2>5, OthersKeep
  <2>9. Ledger!Move(a, last, "filled", "booked")
    BY <2>4, <2>8, OneMoves
  <2>10. ClosedTrades' = ClosedTrades \cup {r.of}
    <3>1. trade' = [trade EXCEPT ![r.of] = [trade[r.of] EXCEPT !.status = "closed"]]
      BY <1>3 DEF Book
    <3>2. trade \in [Trades -> [strategy : Strategies, status : {"open", "closed"}]]
      BY <1>0 DEF TypeOK
    <3>3. trade'[r.of].status = "closed" /\ \A t \in Trades : t # r.of => trade'[t] = trade[t]
      BY <2>3, <3>1, <3>2
    <3>4. QED
      BY <2>3, <3>3 DEF ClosedTrades
  <2>11. \A j \in {1, 2} : StageMap[a][j] # "booked"
    BY <2>6 DEF StageMap
  <2>12. Ledger!Book(a, last)
    BY <2>3, <2>9, <2>10, <2>11 DEF Ledger!Book, Ledger!Orders, StageMap, ClosedTrades
  <2>13. QED
    BY <2>12 DEF Ledger!Next, Ledger!Orders
<1>4. CASE CloseFails(a) \/ SeeFill(a) \/ FirstEnds(a) \/ CancelWaitEnds(a) \/ RetryFails(a) \/ RetryEnds(a)
  <2>1. PICK n : /\ attempt' = [attempt EXCEPT ![a] = n]
                 /\ n.o1 = r.o1 /\ n.o2 = r.o2 /\ n.step # "booked"
    <3>1. CASE CloseFails(a)
      <4>1. LET n == [r EXCEPT !.step = "done"]
            IN  attempt' = [attempt EXCEPT ![a] = n] /\ n.o1 = r.o1 /\ n.o2 = r.o2 /\ n.step # "booked"
        BY <1>0, <3>1 DEF CloseFails, Attempt
      <4>2. QED
        BY <4>1
    <3>2. CASE SeeFill(a)
      <4>1. LET n == [r EXCEPT !.step = "booking"]
            IN  attempt' = [attempt EXCEPT ![a] = n] /\ n.o1 = r.o1 /\ n.o2 = r.o2 /\ n.step # "booked"
        BY <1>0, <3>2 DEF SeeFill, Attempt
      <4>2. QED
        BY <4>1
    <3>3. CASE FirstEnds(a)
      <4>1. PICK s \in {"requoting", "cancelling", "lost"}, c \in {r.cancels, {1}} :
              attempt' = [attempt EXCEPT ![a] = [r EXCEPT !.step = s, !.cancels = c]]
        BY <1>0, <3>3 DEF FirstEnds, Attempt
      <4>2. LET n == [r EXCEPT !.step = s, !.cancels = c]
            IN  n.o1 = r.o1 /\ n.o2 = r.o2 /\ n.step # "booked"
        BY <1>0 DEF Attempt
      <4>3. QED
        BY <4>1, <4>2
    <3>4. CASE CancelWaitEnds(a)
      <4>1. LET n == [r EXCEPT !.step = "requoting"]
            IN  attempt' = [attempt EXCEPT ![a] = n] /\ n.o1 = r.o1 /\ n.o2 = r.o2 /\ n.step # "booked"
        BY <1>0, <3>4 DEF CancelWaitEnds, Attempt
      <4>2. QED
        BY <4>1
    <3>5. CASE RetryFails(a)
      <4>1. LET n == [r EXCEPT !.step = "done"]
            IN  attempt' = [attempt EXCEPT ![a] = n] /\ n.o1 = r.o1 /\ n.o2 = r.o2 /\ n.step # "booked"
        BY <1>0, <3>5 DEF RetryFails, Attempt
      <4>2. QED
        BY <4>1
    <3>6. CASE RetryEnds(a)
      <4>1. PICK c : attempt' = [attempt EXCEPT ![a] = [r EXCEPT !.step = "done", !.cancels = c]]
        BY <3>6 DEF RetryEnds
      <4>2. LET n == [r EXCEPT !.step = "done", !.cancels = c]
            IN  n.o1 = r.o1 /\ n.o2 = r.o2 /\ n.step # "booked"
        BY <1>0 DEF Attempt
      <4>3. QED
        BY <4>1, <4>2
    <3>7. QED
      BY <1>4, <3>1, <3>2, <3>3, <3>4, <3>5, <3>6
  <2>2. r.step # "booked" /\ UNCHANGED trade
    BY <1>4 DEF CloseFails, SeeFill, FirstEnds, CancelWaitEnds, RetryFails, RetryEnds
  <2>3. QED
    BY <2>1, <2>2, QuietStep
<1>5. QED
  BY <1>1, <1>2, <1>3, <1>4 DEF Monitor

LEMMA BrokerRefines ==
    ASSUME IInv, AllSound', NEW a \in Attempts, BrokerMoves(a)
    PROVE  [Ledger!Next]_<<StageMap, ClosedTrades>>
<1> DEFINE r == attempt[a]
<1>0. Sound(r) /\ Sound(attempt'[a]) /\ TypeOK /\ r \in Attempt /\ attempt \in [Attempts -> Attempt]
  BY DEF IInv, AllSound, Sound, LastFilled, TypeOK
<1>1. UNCHANGED trade /\ UNCHANGED ClosedTrades
  BY DEF BrokerMoves, ClosedTrades
<1>2. PICK s \in {"filled", "cancelled"} :
        \/ r.o1 = "working" /\ attempt' = [attempt EXCEPT ![a] = [r EXCEPT !.o1 = s]]
        \/ r.o2 = "working" /\ attempt' = [attempt EXCEPT ![a] = [r EXCEPT !.o2 = s]]
  BY DEF BrokerMoves
<1> DEFINE to == IF s = "filled" THEN "filled" ELSE "void"
<1>3. CASE r.o1 = "working" /\ attempt' = [attempt EXCEPT ![a] = [r EXCEPT !.o1 = s]]
  <2> DEFINE n == [r EXCEPT !.o1 = s]
  <2>1. attempt'[a] = n /\ n.o1 = s /\ n.o2 = r.o2 /\ n.step = r.step
    BY <1>0, <1>3 DEF Attempt
  <2>2. r.step = "booked" => r.o2 # "absent"
    BY <1>0, <1>3 DEF Sound, LastFilled
  <2>3. Stage(a, 1) = "working" /\ Stage(a, 1)' = to /\ Stage(a, 2)' = Stage(a, 2)
    BY <1>0, <1>3, <2>1, <2>2, Stages, StagesNext
  <2>4. \A b \in Attempts, j \in {1, 2} : <<b, j>> # <<a, 1>> => Stage(b, j)' = Stage(b, j)
    BY <1>0, <1>3, <2>3, OthersKeep
  <2> HIDE DEF to
  <2>5. Ledger!Move(a, 1, "working", to)
    BY <2>3, <2>4, OneMoves
  <2>6. Ledger!Fill(a, 1) \/ Ledger!Void(a, 1)
    BY <1>1, <2>5 DEF to, Ledger!Fill, Ledger!Void, ClosedTrades
  <2>7. QED
    BY <2>6 DEF Ledger!Next, Ledger!Orders
<1>4. CASE r.o2 = "working" /\ attempt' = [attempt EXCEPT ![a] = [r EXCEPT !.o2 = s]]
  <2> DEFINE n == [r EXCEPT !.o2 = s]
  <2>1. attempt'[a] = n /\ n.o2 = s /\ n.o1 = r.o1 /\ n.step = r.step
    BY <1>0, <1>4 DEF Attempt
  <2>2. r.step # "booked"
    BY <1>0, <1>4 DEF Sound, LastFilled
  <2>3. Stage(a, 2) = "working" /\ Stage(a, 2)' = to /\ Stage(a, 1)' = Stage(a, 1)
    BY <1>0, <1>4, <2>1, <2>2, Stages, StagesNext
  <2>4. \A b \in Attempts, j \in {1, 2} : <<b, j>> # <<a, 2>> => Stage(b, j)' = Stage(b, j)
    BY <1>0, <1>4, <2>3, OthersKeep
  <2> HIDE DEF to
  <2>5. Ledger!Move(a, 2, "working", to)
    BY <2>3, <2>4, OneMoves
  <2>6. Ledger!Fill(a, 2) \/ Ledger!Void(a, 2)
    BY <1>1, <2>5 DEF to, Ledger!Fill, Ledger!Void, ClosedTrades
  <2>7. QED
    BY <2>6 DEF Ledger!Next, Ledger!Orders
<1>5. QED
  BY <1>2, <1>3, <1>4

LEMMA CrashRefines ==
    ASSUME IInv, AllSound', Crash PROVE UNCHANGED <<StageMap, ClosedTrades>>
<1>1. ASSUME NEW a \in Attempts PROVE Stage(a, 1)' = Stage(a, 1) /\ Stage(a, 2)' = Stage(a, 2)
  <2>1. Sound(attempt[a]) /\ Sound(attempt'[a])
    BY DEF IInv, AllSound, Sound, LastFilled
  <2>2. CASE attempt'[a] = attempt[a]
    BY <2>2 DEF Stage
  <2>3. CASE attempt[a].step # "booked" /\ attempt'[a] = [attempt[a] EXCEPT !.step = "lost"]
    <3>1. /\ attempt'[a].o1 = attempt[a].o1 /\ attempt'[a].o2 = attempt[a].o2
          /\ attempt'[a].step = "lost"
      BY <2>1, <2>3 DEF Sound, Attempt
    <3>2. attempt[a].step # "booked" /\ attempt'[a].step # "booked"
      BY <2>3, <3>1
    <3>3. QED
      BY <2>1, <3>1, <3>2, Stages, StagesNext
  <2>4. QED
    BY <2>2, <2>3 DEF Crash
<1>2. UNCHANGED trade
  BY DEF Crash
<1>3. QED
  BY <1>1, <1>2, Stutters

LEMMA BookFailsRefines ==
    ASSUME IInv, AllSound', NEW a \in Attempts, BookFails(a)
    PROVE  UNCHANGED <<StageMap, ClosedTrades>>
<1> DEFINE n == [attempt[a] EXCEPT !.step = "unbooked"]
<1>1. attempt[a].step = "booking" /\ attempt' = [attempt EXCEPT ![a] = n] /\ UNCHANGED trade
  BY DEF BookFails, AttemptStep
<1>2. n.o1 = attempt[a].o1 /\ n.o2 = attempt[a].o2 /\ n.step = "unbooked"
  BY DEF IInv, TypeOK, Attempt
<1> HIDE DEF n
<1>3. QED
  BY <1>1, <1>2, QuietStep

LEMMA NextRefines ==
    ASSUME IInv, IInv', [Next]_vars PROVE [Ledger!Next]_<<StageMap, ClosedTrades>>
<1>0. AllSound'
  BY DEF IInv
<1>1. ASSUME NEW a \in Attempts, NEW t \in Trades, CloseCommand(a, t)
      PROVE  UNCHANGED <<StageMap, ClosedTrades>>
  <2>1. Begin(a, t, "manual") /\ UNCHANGED trade
    BY <1>1 DEF CloseCommand
  <2>2. QED
    BY <1>0, <2>1, BeginRefines
<1>2. ASSUME NEW t \in Trades, NEW a \in Attempts, NEW reason \in {"stop", "target"},
             LeapTick(t, a, reason)
      PROVE  UNCHANGED <<StageMap, ClosedTrades>>
  <2>1. Begin(a, t, reason) /\ UNCHANGED trade
    BY <1>2 DEF LeapTick
  <2>2. QED
    BY <1>0, <2>1, BeginRefines
<1>3. ASSUME NEW a \in Attempts, Monitor(a) \/ BrokerMoves(a)
      PROVE  [Ledger!Next]_<<StageMap, ClosedTrades>>
  BY <1>0, <1>3, MonitorRefines, BrokerRefines
<1>4. CASE Crash
  BY <1>0, <1>4, CrashRefines
<1>5. ASSUME UNCHANGED <<attempt, trade>> PROVE UNCHANGED <<StageMap, ClosedTrades>>
  BY <1>5 DEF StageMap, ClosedTrades, Stage
<1>6. ASSUME NEW t \in Trades, Watch(t) \/ StrikeTick(t) \/ ProfitAlert(t)
      PROVE  UNCHANGED <<attempt, trade>>
  BY <1>6 DEF Watch, StrikeTick, ProfitAlert
<1>7. CASE Disconnect \/ Reconnect \/ Restart \/ UNCHANGED vars
  <2>1. UNCHANGED <<attempt, trade>>
    BY <1>7 DEF Disconnect, Reconnect, Restart, vars
  <2>2. QED
    BY <1>5, <2>1
<1>8. QED
  BY <1>0, <1>1, <1>2, <1>3, <1>4, <1>5, <1>6, <1>7, BookFailsRefines
     DEF Next, Ticks, Environment

-----------------------------------------------------------------------------
(***************************************************************************)
(* Fills in hand.  An order that can fill, or did, without a request to    *)
(* cancel it is the one its monitor watches; a monitor looks away from it  *)
(* with the fill in hand only, or in one of the ways of LetGo.             *)
(***************************************************************************)
Over == {"none", "booked", "unbooked", "done", "lost"}

\* A record, given whether there has been an outage.
Watching(r, outage) ==
    /\ r.o1 \in {"working", "filled"} /\ 1 \notin r.cancels =>
         \/ r.step \in {"first", "lost"}
         \/ r.o1 = "filled" /\ r.step \in {"booking", "booked", "unbooked"}
    /\ r.o2 \in {"working", "filled"} /\ 2 \notin r.cancels =>
         \/ r.step \in {"second", "lost"}
         \/ r.o2 = "filled" /\ r.step \in {"booking", "booked", "unbooked"}
         \/ r.step = "done" /\ outage

\* What ended an attempt did happen.
Accounted(a) ==
    /\ attempt[a].step = "booked" => trade[attempt[a].of].status = "closed"
    /\ attempt[a].step = "unbooked" => used["lockTimeout"] > 0
    /\ attempt[a].step = "lost" => used["crash"] > 0 \/ Outage

\* There is a connection unless an outage or a crash took it, and after a
\* crash nothing runs.
Linked == (~connected => ~up \/ Outage) /\ (~up => \A a \in Attempts : attempt[a].step \in Over)

InHand == Linked /\ \A a \in Attempts : Watching(attempt[a], Outage) /\ Accounted(a)

LEMMA InitInHand == Init => InHand
BY DEF Init, InHand, Linked, NewAttempt, Watching, Accounted

\* Faults are counted, never taken back, and those of a crash, a disconnect and
\* a refused booking are counted as such.
LEMMA FaultsGrow ==
    ASSUME TypeOK, [Next]_vars
    PROVE  /\ \A f \in Faults : used[f] > 0 => used'[f] > 0
           /\ Outage => Outage'
           /\ Crash => used'["crash"] > 0
           /\ Disconnect => Outage'
           /\ \A a \in Attempts : BookFails(a) => used'["lockTimeout"] > 0
<1>1. ASSUME NEW f \in Faults, Spend(f)
      PROVE  (\A g \in Faults : used[g] > 0 => used'[g] > 0) /\ used'[f] > 0
  BY <1>1 DEF Spend, TypeOK
<1>2. CASE ~Crash /\ ~Disconnect /\ \A a \in Attempts : ~BookFails(a)
  <2>1. UNCHANGED used
    BY <1>2 DEF Next, Ticks, Environment, CloseCommand, Monitor, Place, CloseFails, SeeFill,
       FirstEnds, CancelWaitEnds, Retry, RetryFails, RetryEnds, Book, LeapTick, Watch,
       StrikeTick, ProfitAlert, BrokerMoves, Reconnect, Restart, vars
  <2>2. QED
    BY <1>2, <2>1 DEF Outage
<1>3. Crash => Spend("crash")
  BY DEF Crash
<1>4. Disconnect => Spend("disconnect")
  BY DEF Disconnect
<1>5. \A a \in Attempts : BookFails(a) => Spend("lockTimeout")
  BY DEF BookFails
<1>6. \A f \in Faults : Spend(f) => (\A g \in Faults : used[g] > 0 => used'[g] > 0) /\ used'[f] > 0
  BY <1>1
<1>7. QED
  BY <1>2, <1>3, <1>4, <1>5, <1>6 DEF Faults, Outage

\* No step reopens a trade.
LEMMA ClosedStays ==
    ASSUME TypeOK, AllSound, [Next]_vars, NEW t \in Trades, trade[t].status = "closed"
    PROVE  trade'[t].status = "closed"
<1>1. ASSUME NEW a \in Attempts, Book(a) PROVE trade'[t].status = "closed"
  <2>1. trade' = [trade EXCEPT ![attempt[a].of] =
                    [trade[attempt[a].of] EXCEPT !.status = "closed"]]
    BY <1>1 DEF Book
  <2>2. QED
    BY <2>1 DEF TypeOK
<1>2. CASE \A a \in Attempts : ~Book(a)
  BY <1>2 DEF Next, Ticks, Environment, CloseCommand, Monitor, Place, CloseFails, SeeFill,
     FirstEnds, CancelWaitEnds, Retry, RetryFails, RetryEnds, BookFails, LeapTick, Watch,
     StrikeTick, ProfitAlert, BrokerMoves, Reconnect, Restart, Disconnect, Crash, vars
<1>3. QED
  BY <1>1, <1>2

\* The record of an attempt after its own step keeps to the order that can
\* fill.  It books what it ends as booked, and dies of an outage only.
LEMMA MonitorWatches ==
    ASSUME TypeOK, AllSound, Linked, NEW a \in Attempts, Watching(attempt[a], Outage), Monitor(a)
    PROVE  /\ Watching(attempt'[a], Outage)
           /\ attempt'[a].step = "booked" => Book(a)
           /\ attempt'[a].step # "unbooked"
           /\ attempt'[a].step = "lost" => Outage
           /\ \A b \in Attempts : b # a => attempt'[b] = attempt[b]
<1> DEFINE r == attempt[a]
           Fine == /\ Watching(attempt'[a], Outage)
                   /\ attempt'[a].step = "booked" => Book(a)
                   /\ attempt'[a].step # "unbooked"
                   /\ attempt'[a].step = "lost" => Outage
<1>0. Sound(r) /\ r \in Attempt /\ attempt \in [Attempts -> Attempt]
  BY DEF TypeOK, AllSound, Sound
<1>1. PICK n : attempt' = [attempt EXCEPT ![a] = n]
  BY DEF Monitor, Place, CloseFails, SeeFill, FirstEnds, CancelWaitEnds, Retry, RetryFails,
     RetryEnds, Book, AttemptStep
<1>2. attempt'[a] = n /\ \A b \in Attempts : b # a => attempt'[b] = attempt[b]
  BY <1>0, <1>1
<1>3. connected \/ Outage
  <2>1. r.step \notin Over
    BY DEF Monitor, Place, CloseFails, SeeFill, FirstEnds, CancelWaitEnds, Retry, RetryFails,
       RetryEnds, Book, AttemptStep, Over
  <2>2. QED
    BY <2>1 DEF Linked
<1> SUFFICES Fine
  BY <1>2
<1> USE DEF AttemptStep
<1>4. CASE Place(a)
  <2>1. attempt'[a] = [r EXCEPT !.step = "first", !.o1 = "working"] /\ r.step = "quoting"
    BY <1>0, <1>4 DEF Place
  <2>2. r.o2 = "absent"
    BY <1>0, <2>1 DEF Sound
  <2>3. QED
    BY <1>0, <2>1, <2>2 DEF Watching, Attempt
<1>5. CASE CloseFails(a)
  <2>1. attempt'[a] = [r EXCEPT !.step = "done"] /\ r.step = "quoting"
    BY <1>0, <1>5 DEF CloseFails
  <2>2. r.o1 = "absent" /\ r.o2 = "absent"
    BY <1>0, <2>1 DEF Sound
  <2>3. QED
    BY <1>0, <2>1, <2>2 DEF Watching, Attempt
<1>6. CASE SeeFill(a)
  <2>1. /\ attempt'[a] = [r EXCEPT !.step = "booking"]
        /\ \/ r.step = "first" /\ r.o1 = "filled"
           \/ r.step = "second" /\ r.o2 = "filled"
    BY <1>0, <1>6 DEF SeeFill
  <2>2. QED
    BY <1>0, <2>1 DEF Watching, Attempt, Sound
<1>7. CASE FirstEnds(a)
  <2>0. r.step = "first" /\ r.o2 = "absent"
    BY <1>0, <1>7 DEF FirstEnds, Sound
  <2>1. CASE r.o1 = "cancelled" /\ attempt' = [attempt EXCEPT ![a] = [r EXCEPT !.step = "requoting"]]
    BY <1>0, <2>0, <2>1 DEF Watching, Attempt
  <2>2. CASE attempt' = [attempt EXCEPT ![a] = [r EXCEPT !.step = "cancelling", !.cancels = {1}]]
    BY <1>0, <2>0, <2>2 DEF Watching, Attempt
  <2>3. CASE ~connected /\ attempt' = [attempt EXCEPT ![a] = [r EXCEPT !.step = "lost"]]
    BY <1>0, <1>3, <2>0, <2>3 DEF Watching, Attempt
  <2>4. QED
    BY <1>7, <2>1, <2>2, <2>3 DEF FirstEnds
<1>8. CASE CancelWaitEnds(a)
  BY <1>0, <1>8 DEF CancelWaitEnds, Watching, Attempt
<1>9. CASE Retry(a)
  <2>1. attempt'[a] = [r EXCEPT !.step = "second", !.o2 = "working"] /\ r.step = "requoting"
    BY <1>0, <1>9 DEF Retry
  <2>2. QED
    BY <1>0, <2>1 DEF Watching, Attempt
<1>10. CASE RetryFails(a)
  <2>1. attempt'[a] = [r EXCEPT !.step = "done"] /\ r.step = "requoting"
    BY <1>0, <1>10 DEF RetryFails
  <2>2. r.o2 = "absent"
    BY <1>0, <2>1 DEF Sound
  <2>3. QED
    BY <1>0, <2>1, <2>2 DEF Watching, Attempt
<1>11. CASE RetryEnds(a)
  <2>1. PICK c : /\ attempt'[a] = [r EXCEPT !.step = "done", !.cancels = c]
                 /\ c = IF connected /\ (r.o2 = "working" \/ Outage)
                        THEN r.cancels \cup {2} ELSE r.cancels
    BY <1>0, <1>11 DEF RetryEnds
  <2>2. r.step = "second" /\ (r.o2 # "filled" \/ Outage)
    BY <1>11 DEF RetryEnds
  <2>3. attempt'[a].step = "done" /\ attempt'[a].o1 = r.o1 /\ attempt'[a].o2 = r.o2
        /\ attempt'[a].cancels = c
    BY <1>0, <2>1 DEF Attempt
  <2>4. QED
    BY <1>3, <2>1, <2>2, <2>3 DEF Watching
<1>12. CASE Book(a)
  <2>1. attempt'[a] = [r EXCEPT !.step = "booked"] /\ r.step = "booking"
    BY <1>0, <1>12 DEF Book
  <2>2. QED
    BY <1>0, <1>12, <2>1 DEF Watching, Attempt
<1>13. QED
  BY <1>4, <1>5, <1>6, <1>7, <1>8, <1>9, <1>10, <1>11, <1>12 DEF Monitor

\* An order that can fill without a request to cancel it may do so at any time.
LEMMA BrokerWatches ==
    ASSUME TypeOK, NEW a \in Attempts, Watching(attempt[a], Outage), BrokerMoves(a)
    PROVE  /\ Watching(attempt'[a], Outage)
           /\ attempt'[a].step = attempt[a].step /\ attempt'[a].of = attempt[a].of
           /\ \A b \in Attempts : b # a => attempt'[b] = attempt[b]
BY DEF TypeOK, BrokerMoves, Watching, Attempt

LEMMA BeginWatches ==
    ASSUME TypeOK, NEW a \in Attempts, NEW t, NEW reason, Begin(a, t, reason)
    PROVE  /\ Watching(attempt'[a], Outage) /\ attempt'[a].step = "quoting"
           /\ \A b \in Attempts : b # a => attempt'[b] = attempt[b]
BY DEF TypeOK, Begin, Watching, NewAttempt

\* A refused booking and a crash leave the orders alone.
LEMMA EndsWatch ==
    ASSUME TypeOK, NEW a \in Attempts, Watching(attempt[a], Outage),
           \/ attempt'[a] = [attempt[a] EXCEPT !.step = "lost"]
           \/ /\ attempt[a].step = "booking"
              /\ attempt'[a] = [attempt[a] EXCEPT !.step = "unbooked"]
    PROVE  Watching(attempt'[a], Outage)
BY DEF TypeOK, Watching, Attempt

LEMMA NextLinked == ASSUME TypeOK, Linked, [Next]_vars PROVE Linked'
<1>1. CASE Crash
  <2>1. \A a \in Attempts : attempt'[a].step \in Over
    BY <1>1 DEF Crash, Over, TypeOK, Attempt
  <2>2. QED
    BY <1>1, <2>1 DEF Crash, Linked
<1>2. CASE Disconnect
  BY <1>2, FaultsGrow DEF Disconnect, Linked
<1>3. CASE Reconnect \/ Restart
  BY <1>3 DEF Reconnect, Restart, Linked
<1>4. CASE ~Crash /\ ~Disconnect /\ ~Reconnect /\ ~Restart
  <2>1. UNCHANGED worldVars
    BY <1>4 DEF Next, Ticks, Environment, CloseCommand, Monitor, Place, CloseFails, SeeFill,
       FirstEnds, CancelWaitEnds, Retry, RetryFails, RetryEnds, Book, BookFails, LeapTick,
       Watch, StrikeTick, ProfitAlert, BrokerMoves, vars
  <2>2. connected' = connected /\ up' = up
    BY <2>1 DEF worldVars
  <2>3. ASSUME ~up, NEW b \in Attempts PROVE attempt'[b].step \in Over
    <3>1. \A a \in Attempts : attempt[a].step \in Over
      BY <2>3 DEF Linked
    <3>2. \A a \in Attempts : ~Monitor(a) /\ ~BookFails(a)
      BY <3>1 DEF Over, Monitor, Place, CloseFails, SeeFill, FirstEnds, CancelWaitEnds, Retry,
         RetryFails, RetryEnds, Book, BookFails, AttemptStep
    <3>3. \/ UNCHANGED attempt
          \/ \E a \in Attempts : BrokerMoves(a)
      BY <1>4, <2>3, <3>2 DEF Next, Ticks, Environment, CloseCommand, LeapTick, Watch,
         StrikeTick, ProfitAlert, vars
    <3>4. attempt'[b].step = attempt[b].step
      BY <3>3 DEF BrokerMoves, TypeOK, Attempt
    <3>5. QED
      BY <3>1, <3>4
  <2>4. QED
    BY <2>2, <2>3, FaultsGrow DEF Linked
<1>5. QED
  BY <1>1, <1>2, <1>3, <1>4

LEMMA NextInHand == IInv /\ InHand /\ [Next]_vars => InHand'
<1> SUFFICES ASSUME TypeOK, AllSound, InHand, [Next]_vars
             PROVE  InHand'
  BY DEF IInv
<1> SUFFICES ASSUME NEW b \in Attempts
             PROVE  Watching(attempt'[b], Outage) /\ Accounted(b)'
  <2>1. Linked'
    BY NextLinked DEF InHand
  <2>2. Outage => Outage'
    BY FaultsGrow
  <2>3. \A a \in Attempts : Watching(attempt'[a], Outage) => Watching(attempt'[a], Outage')
    BY <2>2 DEF Watching
  <2>4. QED
    BY <2>1, <2>3 DEF InHand, Watching
<1> DEFINE Fine == Watching(attempt'[b], Outage) /\ Accounted(b)'
<1>0. Linked /\ Watching(attempt[b], Outage) /\ Accounted(b) /\ Sound(attempt[b])
  BY DEF InHand, AllSound
<1>g. /\ \A f \in Faults : used[f] > 0 => used'[f] > 0
      /\ Outage => Outage'
  BY FaultsGrow
\* An attempt that keeps its step stays accounted for.
<1>1. ASSUME attempt'[b].step = attempt[b].step, attempt'[b].of = attempt[b].of
      PROVE  Accounted(b)'
  <2>1. attempt'[b].step = "booked" => trade'[attempt'[b].of].status = "closed"
    BY <1>0, <1>1, ClosedStays DEF Accounted, Sound
  <2>2. QED
    BY <1>0, <1>1, <1>g, <2>1 DEF Accounted, Faults
<1>2. attempt'[b] = attempt[b] => Fine
  BY <1>0, <1>1
<1>3. ASSUME NEW a \in Attempts, Monitor(a) PROVE Fine
  <2>1. Watching(attempt[a], Outage) /\ attempt[a].of \in Trades
    <3>1. attempt[a].step # "none"
      BY <1>3 DEF Monitor, Place, CloseFails, SeeFill, FirstEnds, CancelWaitEnds, Retry,
         RetryFails, RetryEnds, Book, AttemptStep
    <3>2. QED
      BY <3>1 DEF InHand, AllSound, Sound
  <2>2. /\ Watching(attempt'[a], Outage)
        /\ attempt'[a].step = "booked" => Book(a)
        /\ attempt'[a].step # "unbooked"
        /\ attempt'[a].step = "lost" => Outage
        /\ \A c \in Attempts : c # a => attempt'[c] = attempt[c]
    BY <1>0, <1>3, <2>1, MonitorWatches
  <2>3. attempt'[a].of = attempt[a].of
    BY <1>3, MonitorSound DEF SamePurposes
  <2>4. Book(a) => trade'[attempt[a].of].status = "closed"
    <3>1. Book(a) => trade' = [trade EXCEPT ![attempt[a].of] =
                                 [trade[attempt[a].of] EXCEPT !.status = "closed"]]
      BY DEF Book
    <3>2. QED
      BY <2>1, <3>1 DEF TypeOK
  <2>5. Accounted(a)'
    BY <1>g, <2>2, <2>3, <2>4 DEF Accounted
  <2>6. QED
    BY <1>2, <2>2, <2>5
<1>4. ASSUME NEW a \in Attempts, BrokerMoves(a) PROVE Fine
  <2>1. CASE a = b
    BY <1>0, <1>1, <1>4, <2>1, BrokerWatches
  <2>2. CASE a # b
    BY <1>2, <1>4, <2>2 DEF BrokerMoves, TypeOK
  <2>3. QED
    BY <2>1, <2>2
<1>5. ASSUME NEW a \in Attempts, NEW t \in Trades, NEW reason, Begin(a, t, reason) PROVE Fine
  <2>1. CASE a = b
    BY <1>5, <2>1, BeginWatches DEF Accounted
  <2>2. CASE a # b
    BY <1>2, <1>5, <2>2 DEF Begin, TypeOK
  <2>3. QED
    BY <2>1, <2>2
<1>6. ASSUME NEW a \in Attempts, BookFails(a) PROVE Fine
  <2>1. CASE a = b
    <3>1. attempt[b].step = "booking" /\ attempt'[b] = [attempt[b] EXCEPT !.step = "unbooked"]
      BY <1>6, <2>1 DEF BookFails, AttemptStep, TypeOK
    <3>2. attempt'[b].step = "unbooked"
      BY <3>1 DEF TypeOK, Attempt
    <3>3. QED
      BY <1>0, <1>6, <3>1, <3>2, EndsWatch, FaultsGrow DEF Accounted
  <2>2. CASE a # b
    BY <1>2, <1>6, <2>2 DEF BookFails, AttemptStep, TypeOK
  <2>3. QED
    BY <2>1, <2>2
<1>7. CASE Crash
  <2>1. attempt'[b] = attempt[b] \/ attempt'[b] = [attempt[b] EXCEPT !.step = "lost"]
    BY <1>7 DEF Crash
  <2>2. CASE attempt'[b] = [attempt[b] EXCEPT !.step = "lost"]
    <3>1. attempt'[b].step = "lost"
      BY <2>2 DEF TypeOK, Attempt
    <3>2. QED
      BY <1>0, <1>7, <2>2, <3>1, EndsWatch, FaultsGrow DEF Accounted
  <2>3. QED
    BY <1>2, <2>1, <2>2
<1>8. CASE UNCHANGED attempt
  BY <1>2, <1>8
<1>9. QED
  <2>1. \/ UNCHANGED attempt \/ Crash
        \/ \E a \in Attempts : Monitor(a) \/ BookFails(a) \/ BrokerMoves(a)
        \/ \E a \in Attempts, t \in Trades : Begin(a, t, "manual")
        \/ \E t \in Trades, a \in Attempts, reason \in {"stop", "target"} : Begin(a, t, reason)
    BY DEF Next, Ticks, Environment, CloseCommand, LeapTick, Watch, StrikeTick, ProfitAlert,
       Disconnect, Reconnect, Restart, vars
  <2>2. QED
    BY <1>3, <1>4, <1>5, <1>6, <1>7, <1>8, <2>1

-----------------------------------------------------------------------------
\* Every state of the desk is of its type.
THEOREM TypeCorrect == Spec => []TypeOK
<1>1. IInv => TypeOK
  BY DEF IInv
<1>2. QED
  BY <1>1, Invariance, PTL

\* _monitor_close_fill never has two orders of one attempt at work without
\* having asked to cancel the first, for any number of attempts and outages.
THEOREM AtMostOneOrder == Spec => []OneOrderPerAttempt
<1>1. IInv => OneOrderPerAttempt
  BY DEF IInv, AllSound, Sound, OneOrderPerAttempt
<1>2. QED
  BY <1>1, Invariance, PTL

\* No monitor ever looks away from a close order that filled, or still can,
\* before it has booked the fill or asked to cancel the order, except in the
\* three ways of LetGo, for any number of trades, attempts at them and faults.
THEOREM FillsInHand == Spec => []FillIsInHand
<1>1. IInv /\ InHand => FillIsInHand
  <2> SUFFICES ASSUME IInv, InHand, NEW a \in Attempts, NEW i \in {1, 2}, FilledUncancelled(a, i)
               PROVE  \/ Closed(a)
                      \/ attempt[a].step = "booking"
                      \/ attempt[a].step = IF i = 1 THEN "first" ELSE "second"
                      \/ LetGo(a, i)
    BY DEF FillIsInHand
  <2>1. Watching(attempt[a], Outage) /\ Accounted(a)
    BY DEF InHand
  <2>2. attempt[a].step = "booked" => attempt[a].of \in Trades
    BY DEF IInv, AllSound, Sound
  <2>3. QED
    BY <2>1, <2>2 DEF FilledUncancelled, Watching, Accounted, Closed, LetGo
<1>2. QED
  BY <1>1, InitIInv, NextIInv, InitInHand, NextInHand, PTL DEF Spec

\* The stop of a LEAP is sent at most once per life of the process, for any
\* number of attempts: the count never exceeds the restarts by more than the
\* entry in _alerted accounts for.
THEOREM StopOnce == Spec => []StopFiresOnce
<1>1. IInv /\ StopsCounted => StopFiresOnce
  <2> SUFFICES ASSUME IInv, StopsCounted, NEW t \in Trades
               PROVE  Cardinality(StopsOf(t)) <= 1 + used["crash"]
    BY DEF StopFiresOnce, StopsOf
  <2>1. used["crash"] \in Nat /\ Cardinality(StopsOf(t)) \in Nat
    BY StopsFinite DEF IInv, TypeOK, Faults
  <2>2. Cardinality(StopsOf(t)) <= used["crash"] + (IF <<t, "stop">> \in alerted THEN 1 ELSE 0)
    BY DEF StopsCounted
  <2>3. (IF <<t, "stop">> \in alerted THEN 1 ELSE 0) \in {0, 1}
    OBVIOUS
  <2>4. QED
    BY <2>1, <2>2, <2>3
<1>2. QED
  BY <1>1, InitIInv, NextIInv, InitStops, NextStops, PTL DEF Spec

\* Closing implements its ledger, for any trades, attempts and faults: no
\* fill is booked twice, nothing but a booked fill closes a trade.
THEOREM ClosingKeepsLedger == Spec => ImplementsLedger
<1>1. Init => Ledger!Init
  BY InitRefines
<1>2. IInv /\ IInv' /\ [Next]_vars => [Ledger!Next]_<<StageMap, ClosedTrades>>
  BY NextRefines
<1>3. QED
  BY <1>1, <1>2, Invariance, PTL DEF Spec, ImplementsLedger, Ledger!Spec, StageMap, ClosedTrades
=============================================================================
