----------------------------- MODULE MatchState -----------------------------
(***************************************************************************)
(* The pure core of match-service: football's event vocabulary             *)
(* (internal/football/registry.go) and the reduction of one event into a   *)
(* match's derived state (internal/matchstate/reduce.go, types.go).        *)
(*                                                                         *)
(* An event keeps what Reduce and Store.Apply read of it: its match, its   *)
(* sequence number, its type, and three fields of its JSON payload:        *)
(*   team    "home", "away", or "none" for any other value or none at all, *)
(*   minute  a number, or NoMinute when payload["minute"] is not a number, *)
(*   teams   the pair home_team/away_team: NoTeams when the payload has    *)
(*           none, as for every type but kickoff.                          *)
(***************************************************************************)
EXTENDS Integers, FiniteSets

CONSTANTS Matches,   \* match ids
          TeamNames, \* pairs of team names a kickoff may carry
          NoTeams,   \* the pair of empty names
          NoRow      \* a match that has no row in the matches table

NoMinute == -1

RegisteredTypes == {"kickoff", "half_time", "full_time", "goal", "card"}

\* Every type a decoded event may have: "odds_update" is dropped by Route,
\* "unrecognised" stands for all the types the registry does not know.
EventTypes == RegisteredTypes \cup {"odds_update", "unrecognised"}

Categories == {"Unknown", "MatchStart", "PeriodBoundary", "MatchEnd", "ScoreEvent"}
Statuses == {"scheduled", "live", "half_time", "full_time"}

Event == [match    : Matches,
          sequence : Nat,
          type     : EventTypes,
          team     : {"home", "away", "none"},
          minute   : Nat \cup {NoMinute},
          teams    : TeamNames \cup {NoTeams}]

\* A row of the matches table. sport, created_at and updated_at are left out:
\* the first is one value per process, the others are never read back.
Row == [status       : Statuses,
        homeScore    : Nat,
        awayScore    : Nat,
        clockMins    : Nat,
        lastSequence : Nat,
        teams        : TeamNames \cup {NoTeams}]

ASSUME NoRowAssumption == NoRow \notin Row

-----------------------------------------------------------------------------
(* football.Registry, and the zero-value Rule of a type absent from it. *)

Registry ==
  [t \in RegisteredTypes |->
     CASE t = "kickoff"   -> [category |-> "MatchStart",     status |-> "live"]
       [] t = "half_time" -> [category |-> "PeriodBoundary", status |-> "half_time"]
       [] t = "full_time" -> [category |-> "MatchEnd",       status |-> "full_time"]
       [] t = "goal"      -> [category |-> "ScoreEvent",     status |-> ""]
       [] t = "card"      -> [category |-> "Unknown",        status |-> ""]]

ZeroRule == [category |-> "Unknown", status |-> ""]

RuleFor(e) == IF e.type \in RegisteredTypes THEN Registry[e.type] ELSE ZeroRule

SetsStatus(e) == RuleFor(e).category \in {"MatchStart", "PeriodBoundary", "MatchEnd"}
Scores(e)     == RuleFor(e).category = "ScoreEvent"

\* Faulty variant: the minute is used without the check that it is a number.
SetsClockUnchecked(e) == Scores(e)

SetsClock(e) == Scores(e) /\ e.minute # NoMinute

-----------------------------------------------------------------------------
(* Reduce. *)

\* Faulty variants: the last event itself is let through again; only the last
\* event is recognised.
StaleBelow(row, e) == e.sequence < row.lastSequence
StaleDuplicate(row, e) == e.sequence = row.lastSequence

\* A duplicate, or a late replay: Reduce returns ok = false.
Stale(row, e) == e.sequence <= row.lastSequence

\* One more goal for the team the payload names, if it names one.
Tally(score, e, team) == IF Scores(e) /\ e.team = team THEN score + 1 ELSE score

Reduce(row, e) ==
  [row EXCEPT !.lastSequence = e.sequence,
              !.status       = IF SetsStatus(e) THEN RuleFor(e).status ELSE @,
              !.homeScore    = Tally(@, e, "home"),
              !.awayScore    = Tally(@, e, "away"),
              !.clockMins    = IF SetsClock(e) THEN e.minute ELSE @]

\* The row that the first INSERT of a match creates: the columns' defaults and
\* whatever team names the event at hand carries.
FreshRow(e) ==
  [status |-> "scheduled", homeScore |-> 0, awayScore |-> 0, clockMins |-> 0,
   lastSequence |-> 0, teams |-> e.teams]

\* Faulty variant: ON CONFLICT also sets the team names.
LoadAndRename(row, e) ==
  IF row = NoRow THEN FreshRow(e) ELSE [row EXCEPT !.teams = e.teams]

\* INSERT ... ON CONFLICT DO UPDATE ... RETURNING: the row there is, or the
\* one just created.
LoadOrCreate(row, e) == IF row = NoRow THEN FreshRow(e) ELSE row

-----------------------------------------------------------------------------
(* What a row must say of the events recorded for its match. None of this is *)
(* computed by the code, which only ever folds one event into one row.       *)

\* e is the last event of the set T that satisfies P.
IsLatest(e, T, P(_)) == e \in T /\ P(e) /\ \A f \in T : P(f) => f.sequence <= e.sequence

GoalsOf(T, team) == {e \in T : Scores(e) /\ e.team = team}

ScoresAgree(row, T) == /\ row.homeScore = Cardinality(GoalsOf(T, "home"))
                       /\ row.awayScore = Cardinality(GoalsOf(T, "away"))

SequenceAgrees(row, T) == /\ \E e \in T : e.sequence = row.lastSequence
                          /\ \A e \in T : e.sequence <= row.lastSequence

StatusAgrees(row, T) ==
  IF \E e \in T : SetsStatus(e)
    THEN \E e \in T : IsLatest(e, T, SetsStatus) /\ row.status = RuleFor(e).status
    ELSE row.status = "scheduled"

ClockAgrees(row, T) ==
  IF \E e \in T : SetsClock(e)
    THEN \E e \in T : IsLatest(e, T, SetsClock) /\ row.clockMins = e.minute
    ELSE row.clockMins = 0

\* The names are those of the first event recorded, whatever its type.
TeamsAgree(row, T) ==
  \E e \in T : /\ row.teams = e.teams
               /\ \A f \in T : e.sequence <= f.sequence

\* The row is what the recorded events T imply.
Derived(row, T) == /\ ScoresAgree(row, T)
                   /\ SequenceAgrees(row, T)
                   /\ StatusAgrees(row, T)
                   /\ ClockAgrees(row, T)
                   /\ TeamsAgree(row, T)
=============================================================================
