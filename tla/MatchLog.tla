------------------------------ MODULE MatchLog ------------------------------
(***************************************************************************)
(* What Store.Apply promises, with no transaction in sight: recording an   *)
(* event is one step that folds it into its match's row and adds it to the *)
(* match's timeline (the match_events rows), and a stale event is no step  *)
(* at all. MatchStore implements this with sessions, locks and failures;   *)
(* MatchPipeline uses it for the effect of one Apply.                      *)
(***************************************************************************)
EXTENDS MatchState

CONSTANT Events      \* the events that may ever be published

ASSUME EventsAssumption == Events \subseteq Event

VARIABLES rows,      \* the matches table: one row per match, or NoRow
          timeline   \* the match_events table: the events of each match

logVars == <<rows, timeline>>

LogInit == /\ rows = [m \in Matches |-> NoRow]
           /\ timeline = [m \in Matches |-> {}]

\* Apply returns without writing.
IsStale(e) == Stale(LoadOrCreate(rows[e.match], e), e)

\* Apply commits.
Record(e) ==
  /\ ~ IsStale(e)
  /\ rows' = [rows EXCEPT ![e.match] = Reduce(LoadOrCreate(@, e), e)]
  /\ timeline' = [timeline EXCEPT ![e.match] = @ \cup {e}]

LogNext == \E e \in Events : Record(e)

LogSpec == LogInit /\ [][LogNext]_logVars

-----------------------------------------------------------------------------

LogTypeOK == /\ rows \in [Matches -> Row \cup {NoRow}]
             /\ timeline \in [Matches -> SUBSET Events]

\* A match's row and its timeline always tell the same story: the score is the
\* number of goals recorded for each side, the status and the clock are those of
\* the last event that sets them, last_sequence is the last event recorded, and
\* a match without a row has no event. (matches and match_events are written by
\* two statements of Store.Apply and read by two separate queries.)
RowMatchesTimeline ==
  \A m \in Matches : IF rows[m] = NoRow THEN timeline[m] = {}
                                        ELSE Derived(rows[m], timeline[m])

\* The events recorded for a match have distinct sequence numbers: what the
\* UNIQUE (match_id, sequence) constraint states.
OneEventPerSequence ==
  \A m \in Matches : \A e, f \in timeline[m] : e.sequence = f.sequence => e = f

\* A timeline only grows, at its end: an event recorded is never removed, and
\* one recorded later has a higher sequence number, so a reader that re-reads
\* the timeline never sees an event appear among those it already has.
TimelineAppends ==
  [][\A m \in Matches :
       /\ timeline[m] \subseteq timeline'[m]
       /\ \A old \in timeline[m], new \in timeline'[m] \ timeline[m] :
            old.sequence < new.sequence]_logVars

\* Once a match has a row it keeps it: its team names never change, its scores
\* and last_sequence never decrease, and one step adds at most one goal.
RowEvolves ==
  [][\A m \in Matches : rows[m] # NoRow =>
       /\ rows'[m] # NoRow
       /\ rows'[m].teams = rows[m].teams
       /\ rows'[m].lastSequence >= rows[m].lastSequence
       /\ LET gained == (rows'[m].homeScore - rows[m].homeScore)
                      + (rows'[m].awayScore - rows[m].awayScore)
          IN  gained \in {0, 1} /\ rows'[m].homeScore >= rows[m].homeScore
                                /\ rows'[m].awayScore >= rows[m].awayScore]_logVars
=============================================================================
