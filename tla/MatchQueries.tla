---------------------------- MODULE MatchQueries ----------------------------
(***************************************************************************)
(* The readers of match-service (internal/matchstate/query.go), as the     *)
(* match page of the frontend uses them (app/matches/[id]/page.tsx): it    *)
(* reads the match (GetMatch), then its timeline (ListEvents, which calls  *)
(* GetMatch again before it queries match_events). The queries are         *)
(* separate statements, so events may be recorded between them. Writers    *)
(* are the atomic steps of MatchLog, which MatchStore implements.          *)
(***************************************************************************)
EXTENDS MatchLog

VARIABLE page        \* per match: the page somebody is loading of it

queryVars == <<rows, timeline, page>>

NoPage == [step |-> "closed", row |-> NoRow, events |-> {}]

QueryInit == LogInit /\ page = [m \in Matches |-> NoPage]

\* GetMatch finds a row (ErrNotFound, the 404 page, otherwise).
GetMatch(m) ==
  /\ page[m].step = "closed"
  /\ rows[m] # NoRow
  /\ page' = [page EXCEPT ![m] = [@ EXCEPT !.step = "match", !.row = rows[m]]]
  /\ UNCHANGED logVars

\* ListEvents, first half: it finds the match too.
CheckMatch(m) ==
  /\ page[m].step = "match"
  /\ rows[m] # NoRow
  /\ page' = [page EXCEPT ![m].step = "checked"]
  /\ UNCHANGED logVars

\* ListEvents, second half: the match_events rows of the match.
ListEvents(m) ==
  /\ page[m].step = "checked"
  /\ page' = [page EXCEPT ![m] = [@ EXCEPT !.step = "loaded", !.events = timeline[m]]]
  /\ UNCHANGED logVars

\* The page is left, or one of its reads fails.
Leave(m) == /\ page[m].step # "closed"
            /\ page' = [page EXCEPT ![m] = NoPage]
            /\ UNCHANGED logVars

Write(e) == Record(e) /\ UNCHANGED page

QueryNext == \/ \E e \in Events : Write(e)
             \/ \E m \in Matches : GetMatch(m) \/ CheckMatch(m) \/ ListEvents(m) \/ Leave(m)

QuerySpec == QueryInit /\ [][QueryNext]_queryVars

-----------------------------------------------------------------------------

QueryTypeOK ==
  /\ LogTypeOK
  /\ page \in [Matches -> [step   : {"closed", "match", "checked", "loaded"},
                           row    : Row \cup {NoRow},
                           events : SUBSET Events]]

\* The events up to the last one that the row had seen when it was read.
UpTo(row, T) == {e \in T : e.sequence <= row.lastSequence}

\* A page is consistent although its two reads are not one snapshot: the match
\* it shows is exactly what the timeline it shows implies, up to the event the
\* match had reached when it was read; anything more in the timeline is later.
\* In particular a match that was found never has an empty timeline.
PageConsistent ==
  \A m \in Matches :
    page[m].step = "loaded" => Derived(page[m].row, UpTo(page[m].row, page[m].events))
=============================================================================
