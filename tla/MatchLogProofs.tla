--------------------------- MODULE MatchLogProofs ---------------------------
(***************************************************************************)
(* Theorems about MatchLog, for every set of matches, team names and       *)
(* events: the row of a match always is what its timeline implies.         *)
(***************************************************************************)
EXTENDS MatchLog, FiniteSetTheorems, WellFoundedInduction, TLAPS

(* Induction over sets: what holds of 0 and of a successor holds of every   *)
(* number, stated of a set of numbers.                                      *)

LEMMA NatInSet ==
  ASSUME NEW S, 0 \in S, \A n \in Nat : n \in S => n + 1 \in S
  PROVE  Nat \subseteq S
<1> DEFINE T == Nat \ S
<1> SUFFICES ASSUME T # {} PROVE FALSE  OBVIOUS
<1>1. PICK x \in T : \A y \in T : ~ (<<y, x>> \in OpToRel(<, Nat))
  <2> HIDE DEF T
  <2>1. T \subseteq Nat  BY DEF T
  <2>2. QED  BY <2>1, NatLessThanWellFounded, WFMin
<1>2. x # 0 /\ x \in Nat  OBVIOUS
<1>3. x - 1 \in Nat  BY <1>2
<1>4. <<x - 1, x>> \in OpToRel(<, Nat)  BY <1>2, <1>3 DEF OpToRel
<1>5. x - 1 \in S  BY <1>1, <1>3, <1>4
<1>6. (x - 1) + 1 \in S  BY <1>5, <1>3
<1>7. QED  BY <1>6, <1>2

-----------------------------------------------------------------------------
(* Facts about the operators of MatchState. *)

\* What the SQL upsert returns is a row.
LEMMA LoadOrCreateType ==
  ASSUME NEW r \in Row \cup {NoRow}, NEW e \in Event
  PROVE  LoadOrCreate(r, e) \in Row
BY DEF LoadOrCreate, FreshRow, Row, Event, Statuses

\* Tally counts in Nat.
LEMMA TallyType ==
  ASSUME NEW n \in Nat, NEW e, NEW team
  PROVE  Tally(n, e, team) \in Nat
BY DEF Tally

\* The status a rule of the registry sets is one the matches table holds.
LEMMA RuleStatus ==
  ASSUME NEW e, SetsStatus(e)
  PROVE  RuleFor(e).status \in Statuses
<1>1. e.type \in {"kickoff", "half_time", "full_time"}
  BY DEF SetsStatus, RuleFor, Registry, RegisteredTypes, ZeroRule
<1>2. QED
  BY <1>1 DEF RuleFor, Registry, RegisteredTypes, Statuses

\* Reduce, field by field.
LEMMA ReduceFields ==
  ASSUME NEW r \in Row, NEW e \in Event
  PROVE  /\ Reduce(r, e) \in Row
         /\ Reduce(r, e).lastSequence = e.sequence
         /\ Reduce(r, e).homeScore = Tally(r.homeScore, e, "home")
         /\ Reduce(r, e).awayScore = Tally(r.awayScore, e, "away")
         /\ Reduce(r, e).teams = r.teams
         /\ SetsStatus(e) => Reduce(r, e).status = RuleFor(e).status
         /\ ~ SetsStatus(e) => Reduce(r, e).status = r.status
         /\ SetsClock(e) => Reduce(r, e).clockMins = e.minute
         /\ ~ SetsClock(e) => Reduce(r, e).clockMins = r.clockMins
<1> DEFINE status == IF SetsStatus(e) THEN RuleFor(e).status ELSE r.status
           clock  == IF SetsClock(e) THEN e.minute ELSE r.clockMins
           home   == Tally(r.homeScore, e, "home")
           away   == Tally(r.awayScore, e, "away")
<1>1. status \in Statuses
  BY RuleStatus DEF Row
<1>2. clock \in Nat
  BY DEF SetsClock, Row, Event
<1>3. home \in Nat /\ away \in Nat
  BY TallyType DEF Row
<1>4. e.sequence \in Nat
  BY DEF Event
<1>5. Reduce(r, e) = [r EXCEPT !.lastSequence = e.sequence, !.status = status,
                               !.homeScore = home, !.awayScore = away, !.clockMins = clock]
  BY DEF Reduce, Row
<1> HIDE DEF status, clock, home, away
<1>6. Reduce(r, e) \in Row
  BY <1>1, <1>2, <1>3, <1>4, <1>5 DEF Row
<1>7. /\ Reduce(r, e).lastSequence = e.sequence
      /\ Reduce(r, e).status = status
      /\ Reduce(r, e).homeScore = home
      /\ Reduce(r, e).awayScore = away
      /\ Reduce(r, e).clockMins = clock
      /\ Reduce(r, e).teams = r.teams
  BY <1>5 DEF Row
<1>8. QED
  BY <1>6, <1>7 DEF status, clock, home, away

\* One more event is one more goal exactly when Tally counts it.
LEMMA GoalsGrow ==
  ASSUME NEW T, IsFiniteSet(T), NEW e, e \notin T, NEW team
  PROVE  /\ IsFiniteSet(GoalsOf(T, team))
         /\ Cardinality(GoalsOf(T \cup {e}, team)) = Tally(Cardinality(GoalsOf(T, team)), e, team)
<1>1. IsFiniteSet(GoalsOf(T, team))
  <2>1. GoalsOf(T, team) \subseteq T  BY DEF GoalsOf
  <2>2. QED  BY <2>1, FS_Subset
<1>2. CASE Scores(e) /\ e.team = team
  <2>1. GoalsOf(T \cup {e}, team) = GoalsOf(T, team) \cup {e}  BY <1>2 DEF GoalsOf
  <2>2. e \notin GoalsOf(T, team)  BY DEF GoalsOf
  <2>3. Cardinality(GoalsOf(T, team) \cup {e}) = Cardinality(GoalsOf(T, team)) + 1
    BY <1>1, <2>2, FS_AddElement
  <2>4. QED  BY <1>1, <1>2, <2>1, <2>3 DEF Tally
<1>3. CASE ~ (Scores(e) /\ e.team = team)
  <2>1. GoalsOf(T \cup {e}, team) = GoalsOf(T, team)  BY <1>3 DEF GoalsOf
  <2>2. QED  BY <1>1, <1>3, <2>1 DEF Tally
<1>4. QED  BY <1>2, <1>3

-----------------------------------------------------------------------------
(* One event folded into a row: Derived is preserved. *)

\* The first event of a match, folded into the row its INSERT has just created.
LEMMA DerivedFirst ==
  ASSUME NEW e \in Event, e.sequence > 0
  PROVE  Derived(Reduce(FreshRow(e), e), {e})
<1> DEFINE fresh == FreshRow(e)
           next  == Reduce(fresh, e)
<1>1. fresh \in Row /\ fresh.status = "scheduled" /\ fresh.clockMins = 0
      /\ fresh.homeScore = 0 /\ fresh.awayScore = 0 /\ fresh.teams = e.teams
  BY DEF FreshRow, Row, Event, Statuses
<1>2. /\ next.lastSequence = e.sequence
      /\ next.homeScore = Tally(0, e, "home")
      /\ next.awayScore = Tally(0, e, "away")
      /\ next.teams = e.teams
      /\ SetsStatus(e) => next.status = RuleFor(e).status
      /\ ~ SetsStatus(e) => next.status = "scheduled"
      /\ SetsClock(e) => next.clockMins = e.minute
      /\ ~ SetsClock(e) => next.clockMins = 0
  <2> HIDE DEF fresh
  <2>1. QED  BY <1>1, ReduceFields
<1> HIDE DEF next
<1>3. ScoresAgree(next, {e})
  <2>1. \A team : Cardinality(GoalsOf({e}, team)) = Tally(0, e, team)
    <3>1. TAKE team
    <3>2. GoalsOf({}, team) = {}  BY DEF GoalsOf
    <3>3. {} \cup {e} = {e} /\ e \notin {}  OBVIOUS
    <3>4. Cardinality(GoalsOf({} \cup {e}, team)) = Tally(Cardinality(GoalsOf({}, team)), e, team)
      BY FS_EmptySet, GoalsGrow
    <3>5. QED  BY <3>2, <3>3, <3>4, FS_EmptySet
  <2>2. QED  BY <1>2, <2>1 DEF ScoresAgree
<1>4. SequenceAgrees(next, {e})
  BY <1>2 DEF SequenceAgrees, Event
<1>5. StatusAgrees(next, {e})
  BY <1>2 DEF StatusAgrees, IsLatest, Event
<1>6. ClockAgrees(next, {e})
  BY <1>2 DEF ClockAgrees, IsLatest, Event
<1>7. TeamsAgree(next, {e})
  BY <1>2 DEF TeamsAgree, Event
<1>8. QED
  BY <1>3, <1>4, <1>5, <1>6, <1>7 DEF Derived, next, fresh

\* A later event, folded into a row that says what its timeline implies.
LEMMA DerivedNext ==
  ASSUME NEW r \in Row, NEW T \in SUBSET Event, IsFiniteSet(T), Derived(r, T),
         NEW e \in Event, ~ Stale(r, e)
  PROVE  Derived(Reduce(r, e), T \cup {e})
<1> DEFINE next == Reduce(r, e)
           U    == T \cup {e}
<1>1. /\ next.lastSequence = e.sequence
      /\ next.homeScore = Tally(r.homeScore, e, "home")
      /\ next.awayScore = Tally(r.awayScore, e, "away")
      /\ next.teams = r.teams
      /\ SetsStatus(e) => next.status = RuleFor(e).status
      /\ ~ SetsStatus(e) => next.status = r.status
      /\ SetsClock(e) => next.clockMins = e.minute
      /\ ~ SetsClock(e) => next.clockMins = r.clockMins
  BY ReduceFields
<1> HIDE DEF next
<1>2. e.sequence \in Nat /\ \A f \in T : f.sequence \in Nat /\ f.sequence < e.sequence
  BY DEF Derived, SequenceAgrees, Stale, Row, Event
<1>3. e \notin T
  BY <1>2
<1>4. ScoresAgree(next, U)
  <2>1. \A team : Cardinality(GoalsOf(U, team)) = Tally(Cardinality(GoalsOf(T, team)), e, team)
    BY <1>3, GoalsGrow
  <2>2. QED  BY <1>1, <2>1 DEF ScoresAgree, Derived
<1>5. SequenceAgrees(next, U)
  BY <1>1, <1>2 DEF SequenceAgrees
<1>6. StatusAgrees(next, U)
  <2>1. CASE SetsStatus(e)
    BY <1>1, <1>2, <2>1 DEF StatusAgrees, IsLatest
  <2>2. CASE ~ SetsStatus(e)
    BY <1>1, <1>2, <2>2 DEF StatusAgrees, IsLatest, Derived
  <2>3. QED  BY <2>1, <2>2
<1>7. ClockAgrees(next, U)
  <2>1. CASE SetsClock(e)
    BY <1>1, <1>2, <2>1 DEF ClockAgrees, IsLatest
  <2>2. CASE ~ SetsClock(e)
    BY <1>1, <1>2, <2>2 DEF ClockAgrees, IsLatest, Derived
  <2>3. QED  BY <2>1, <2>2
<1>8. TeamsAgree(next, U)
  <2>1. PICK first \in T : r.teams = first.teams /\ \A f \in T : first.sequence <= f.sequence
    BY DEF Derived, TeamsAgree
  <2>2. \A f \in U : first.sequence <= f.sequence
    BY <1>2, <2>1
  <2>3. QED  BY <1>1, <2>1, <2>2 DEF TeamsAgree
<1>9. QED
  BY <1>4, <1>5, <1>6, <1>7, <1>8 DEF Derived, next, U

-----------------------------------------------------------------------------
(* The inductive invariant: RowMatchesTimeline needs the timelines finite (a  *)
(* score is a Cardinality), and OneEventPerSequence follows the same steps.   *)

TimelinesFinite == \A m \in Matches : IsFiniteSet(timeline[m])

LogInv == /\ LogTypeOK
          /\ TimelinesFinite
          /\ RowMatchesTimeline
          /\ OneEventPerSequence

\* What one Record does to the row and the timeline of each match.
LEMMA RecordEffect ==
  ASSUME LogTypeOK, NEW e \in Events, Record(e)
  PROVE  /\ e \in Event /\ e.match \in Matches
         /\ rows'[e.match] = Reduce(LoadOrCreate(rows[e.match], e), e)
         /\ timeline'[e.match] = timeline[e.match] \cup {e}
         /\ \A m \in Matches \ {e.match} : rows'[m] = rows[m] /\ timeline'[m] = timeline[m]
BY EventsAssumption DEF Record, LogTypeOK, Event

\* The event Record adds comes after everything recorded for its match.
LEMMA RecordIsLatest ==
  ASSUME LogInv, NEW e \in Events, Record(e)
  PROVE  /\ e.sequence \in Nat /\ e.sequence > 0
         /\ \A f \in timeline[e.match] : f.sequence \in Nat /\ f.sequence < e.sequence
<1>1. e \in Event /\ e.match \in Matches
  BY EventsAssumption DEF Event
<1>2. CASE rows[e.match] = NoRow
  <2>1. timeline[e.match] = {}
    BY <1>1, <1>2 DEF LogInv, RowMatchesTimeline
  <2>2. e.sequence > 0
    BY <1>1, <1>2 DEF Record, IsStale, Stale, LoadOrCreate, FreshRow, Event
  <2>3. QED  BY <1>1, <2>1, <2>2 DEF Event
<1>3. CASE rows[e.match] # NoRow
  <2>1. rows[e.match] \in Row /\ Derived(rows[e.match], timeline[e.match])
    BY <1>1, <1>3 DEF LogInv, LogTypeOK, RowMatchesTimeline
  <2>2. e.sequence > rows[e.match].lastSequence
    BY <1>1, <1>3, <2>1 DEF Record, IsStale, Stale, LoadOrCreate, Row, Event
  <2>3. timeline[e.match] \subseteq Event
    BY <1>1, EventsAssumption DEF LogInv, LogTypeOK
  <2>4. QED  BY <1>1, <2>1, <2>2, <2>3 DEF Derived, SequenceAgrees, Row, Event
<1>4. QED  BY <1>2, <1>3

\* The empty tables satisfy the invariant.
LEMMA LogInvInit == LogInit => LogInv
<1> SUFFICES ASSUME LogInit PROVE LogInv  OBVIOUS
<1>1. LogTypeOK  BY DEF LogInit, LogTypeOK
<1>2. TimelinesFinite  BY FS_EmptySet DEF LogInit, TimelinesFinite
<1>3. RowMatchesTimeline  BY DEF LogInit, RowMatchesTimeline
<1>4. OneEventPerSequence  BY DEF LogInit, OneEventPerSequence
<1>5. QED  BY <1>1, <1>2, <1>3, <1>4 DEF LogInv

\* Recording one event preserves it.
LEMMA LogInvStep == LogInv /\ [LogNext]_logVars => LogInv'
<1> SUFFICES ASSUME LogInv, [LogNext]_logVars PROVE LogInv'  OBVIOUS
<1>1. CASE UNCHANGED logVars
  BY <1>1 DEF logVars, LogInv, LogTypeOK, TimelinesFinite, RowMatchesTimeline, OneEventPerSequence
<1>2. CASE LogNext
  <2>1. PICK e \in Events : Record(e)  BY <1>2 DEF LogNext
  <2> DEFINE m == e.match
             loaded == LoadOrCreate(rows[m], e)
  <2>2. LogTypeOK  BY DEF LogInv
  <2>3. /\ e \in Event /\ m \in Matches
        /\ rows'[m] = Reduce(loaded, e)
        /\ timeline'[m] = timeline[m] \cup {e}
        /\ \A n \in Matches \ {m} : rows'[n] = rows[n] /\ timeline'[n] = timeline[n]
    BY <2>1, <2>2, RecordEffect
  <2>4. /\ e.sequence \in Nat /\ e.sequence > 0
        /\ \A f \in timeline[m] : f.sequence \in Nat /\ f.sequence < e.sequence
    BY <2>1, RecordIsLatest
  <2>5. loaded \in Row /\ Reduce(loaded, e) \in Row
    <3>1. loaded \in Row  BY <2>2, <2>3, LoadOrCreateType DEF LogTypeOK
    <3>2. QED  BY <2>3, <3>1, ReduceFields
  <2>6. LogTypeOK'
    BY <2>1, <2>2, <2>5 DEF LogTypeOK, Record
  <2>7. TimelinesFinite'
    <3>1. IsFiniteSet(timeline[m] \cup {e})
      BY <2>3, FS_AddElement DEF LogInv, TimelinesFinite
    <3>2. QED  BY <2>3, <3>1 DEF LogInv, TimelinesFinite
  <2>8. RowMatchesTimeline'
    <3>1. Derived(rows'[m], timeline'[m])
      <4>1. CASE rows[m] = NoRow
        <5>1. timeline[m] = {}  BY <2>3, <4>1 DEF LogInv, RowMatchesTimeline
        <5>2. timeline'[m] = {e} /\ loaded = FreshRow(e)
          BY <2>3, <4>1, <5>1 DEF LoadOrCreate
        <5>3. QED  BY <2>3, <2>4, <5>2, DerivedFirst
      <4>2. CASE rows[m] # NoRow
        <5>1. loaded = rows[m] /\ rows[m] \in Row /\ ~ Stale(rows[m], e)
          BY <2>1, <2>3, <2>5, <4>2 DEF LoadOrCreate, Record, IsStale
        <5>2. Derived(rows[m], timeline[m])
          BY <2>3, <4>2 DEF LogInv, RowMatchesTimeline
        <5>3. timeline[m] \in SUBSET Event /\ IsFiniteSet(timeline[m])
          BY <2>3, EventsAssumption DEF LogInv, LogTypeOK, TimelinesFinite
        <5>4. QED  BY <2>3, <5>1, <5>2, <5>3, DerivedNext
      <4>3. QED  BY <4>1, <4>2
    <3>2. rows'[m] # NoRow  BY <2>3, <2>5, NoRowAssumption
    <3>3. QED  BY <2>3, <3>1, <3>2 DEF LogInv, RowMatchesTimeline
  <2>9. OneEventPerSequence'
    BY <2>3, <2>4 DEF LogInv, OneEventPerSequence
  <2>10. QED  BY <2>6, <2>7, <2>8, <2>9 DEF LogInv
<1>3. QED  BY <1>1, <1>2

-----------------------------------------------------------------------------
(* The theorems. *)

\* The inductive invariant holds in every reachable state.
THEOREM LogInvariant == LogSpec => []LogInv
<1>1. QED  BY LogInvInit, LogInvStep, PTL DEF LogSpec

\* The tables hold rows and sets of events (the columns of the migrations).
THEOREM LogTypeCorrect == LogSpec => []LogTypeOK
<1>1. LogInv => LogTypeOK  BY DEF LogInv
<1>2. QED  BY <1>1, LogInvariant, PTL

\* The row that the readers of match-service return always is what the recorded
\* events imply: score, status, clock, last_sequence, team names.
THEOREM RowsTellTheTimeline == LogSpec => []RowMatchesTimeline
<1>1. LogInv => RowMatchesTimeline  BY DEF LogInv
<1>2. QED  BY <1>1, LogInvariant, PTL

\* The UNIQUE (match_id, sequence) constraint is implied by Reduce's guard.
THEOREM SequencesAreUnique == LogSpec => []OneEventPerSequence
<1>1. LogInv => OneEventPerSequence  BY DEF LogInv
<1>2. QED  BY <1>1, LogInvariant, PTL

\* Recording appends to the timeline.
THEOREM TimelinesAppend == LogSpec => TimelineAppends
<1> DEFINE Appends ==
      \A m \in Matches :
        /\ timeline[m] \subseteq timeline'[m]
        /\ \A old \in timeline[m], new \in timeline'[m] \ timeline[m] : old.sequence < new.sequence
<1>1. LogInv /\ [LogNext]_logVars => [Appends]_logVars
  <2> SUFFICES ASSUME LogInv, LogNext PROVE Appends  OBVIOUS
  <2>1. PICK e \in Events : Record(e)  BY DEF LogNext
  <2>2. LogTypeOK  BY DEF LogInv
  <2>3. QED  BY <2>1, <2>2, RecordEffect, RecordIsLatest
<1>2. QED  BY <1>1, LogInvariant, PTL DEF LogSpec, TimelineAppends

\* A row keeps its team names, never loses a goal and gains at most one a step.
THEOREM RowsEvolve == LogSpec => RowEvolves
<1> DEFINE Gain(m) == (rows'[m].homeScore - rows[m].homeScore)
                    + (rows'[m].awayScore - rows[m].awayScore)
           Kept(m) == /\ rows'[m] # NoRow
                      /\ rows'[m].teams = rows[m].teams
                      /\ rows'[m].lastSequence >= rows[m].lastSequence
                      /\ Gain(m) \in {0, 1} /\ rows'[m].homeScore >= rows[m].homeScore
                                            /\ rows'[m].awayScore >= rows[m].awayScore
           Evolves == \A m \in Matches : rows[m] # NoRow => Kept(m)
<1>1. LogInv /\ [LogNext]_logVars => [Evolves]_logVars
  <2> SUFFICES ASSUME LogInv, LogNext, NEW m \in Matches, rows[m] # NoRow PROVE Kept(m)
    OBVIOUS
  <2>1. PICK e \in Events : Record(e)  BY DEF LogNext
  <2>2. rows[m] \in Row  BY DEF LogInv, LogTypeOK
  <2>3. CASE m # e.match
    <3>1. rows'[m] = rows[m]  BY <2>1, <2>3, RecordEffect DEF LogInv
    <3>2. QED  BY <2>2, <3>1 DEF Row
  <2>4. CASE m = e.match
    <3>1. e \in Event /\ rows'[m] = Reduce(rows[m], e) /\ ~ Stale(rows[m], e)
      BY <2>1, <2>4, RecordEffect DEF LogInv, LoadOrCreate, Record, IsStale
    <3>2. /\ rows'[m] \in Row
          /\ rows'[m].lastSequence = e.sequence
          /\ rows'[m].homeScore = Tally(rows[m].homeScore, e, "home")
          /\ rows'[m].awayScore = Tally(rows[m].awayScore, e, "away")
          /\ rows'[m].teams = rows[m].teams
      BY <2>2, <3>1, ReduceFields
    <3>3. rows[m].lastSequence <= e.sequence
      BY <2>2, <3>1 DEF Stale, Row, Event
    <3>4. QED  BY <2>2, <3>2, <3>3, NoRowAssumption DEF Row, Tally
  <2>5. QED  BY <2>3, <2>4
<1>2. QED  BY <1>1, LogInvariant, PTL DEF LogSpec, RowEvolves

=============================================================================
