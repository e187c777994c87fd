--------------------------- MODULE LiveMatchDetail ---------------------------
(***************************************************************************)
(* The page of one match (app/matches/[id]/page.tsx and                    *)
(* components/LiveMatchDetail.tsx): the server renders the match and its   *)
(* timeline from two queries, then the component follows the match's       *)
(* stream. A snapshot replaces the match; an update newer than             *)
(* lastSequence is reduced into it and added to the timeline.              *)
(***************************************************************************)
EXTENDS LiveStream, FiniteSets

CONSTANT Id   \* the match of the page

ASSUME DetailAssumption == Id \in Matches

VARIABLE page  \* the state of the page

detailVars == <<streamVars, page>>

Blank == [step |-> "blank", match |-> NoRow, events |-> <<>>, lastSequence |-> 0]

DetailInit == StreamInit /\ page = Blank

\* ORDER BY sequence.
InOrder(T) == {s \in [1 .. Cardinality(T) -> T] :
                 \A i, j \in DOMAIN s : i < j => s[i].sequence < s[j].sequence}

\* getMatch.
OpenMatch == /\ page.step = "blank" /\ rows[Id] # NoRow
             /\ page' = [page EXCEPT !.step = "match", !.match = Body(rows[Id])]
             /\ UNCHANGED streamVars

\* listMatchEvents, and the component's initial state.
OpenEvents ==
  /\ page.step = "match"
  /\ \E s \in InOrder(timeline[Id]) :
       page' = [page EXCEPT !.step = "live", !.events = s,
                            !.lastSequence = IF s = <<>> THEN 0 ELSE s[Len(s)].sequence]
  /\ UNCHANGED streamVars

\* The component has been mounted.
Connect == page.step = "live" /\ Register /\ UNCHANGED page

\* Faulty variant: a duplicate is let through.
OnUpdateAgain(e) ==
  IF e.type = "odds_update" \/ e.sequence < page.lastSequence THEN page
  ELSE [page EXCEPT !.match = PageReduce(@, e), !.events = Append(@, e),
                    !.lastSequence = e.sequence]

OnUpdate(e) ==
  IF e.type = "odds_update" \/ e.sequence <= page.lastSequence THEN page
  ELSE [page EXCEPT !.match = PageReduce(@, e), !.events = Append(@, e),
                    !.lastSequence = e.sequence]

\* The page handles the next frame.
Handle == /\ TakeFrame
          /\ page' = IF frames[1].kind = "snapshot"
                       THEN [page EXCEPT !.match = frames[1].body[Id]]
                       ELSE OnUpdate(frames[1].body)

DetailNext == (Elsewhere({Id}) /\ UNCHANGED page) \/ OpenMatch \/ OpenEvents \/ Connect \/ Handle

DetailSpec == DetailInit /\ [][DetailNext]_detailVars

\* Everything that is under way arrives, or is lost; EventSource connects again.
\* Nobody has to publish, and nothing has to fail.
Moves(A) == A /\ UNCHANGED page
FairDetailSpec ==
  /\ DetailSpec
  /\ WF_detailVars(Moves(Apply)) /\ WF_detailVars(Moves(Relay({Id})))
  /\ WF_detailVars(Moves(WriteSnapshot({Id}))) /\ WF_detailVars(Connect) /\ WF_detailVars(Handle)

-----------------------------------------------------------------------------

DetailTypeOK ==
  /\ StreamTypes
  /\ page.step \in {"blank", "match", "live"}
  /\ page.match \in IF page.step = "blank" THEN {NoRow} ELSE PageBody
  /\ page.events \in Seq(Events) /\ page.lastSequence \in Nat

\* The timeline shows each event once, in the order of their numbers, which are
\* also the keys of its list items: across the hand-over from the rendered page
\* to the stream, across reconnections, duplicates and late events.
TimelineAscends ==
  \A i, j \in DOMAIN page.events : i < j => page.events[i].sequence < page.events[j].sequence

\* The page never makes up an event: all it shows was published, and what the
\* timeline ends with is what lastSequence filters by.
TimelineIsReal ==
  /\ \A i \in DOMAIN page.events :
       \E j \in DOMAIN bus : page.events[i] = bus[j] /\ page.events[i].match = Id
  /\ page.step = "live" =>
       page.lastSequence = IF page.events = <<>> THEN 0
                           ELSE page.events[Len(page.events)].sequence

\* In every state, whatever the stream does.
DetailInv == DetailTypeOK /\ TimelineAscends /\ TimelineIsReal

\* A page that connected at a quiet moment is right: once everything published
\* has been handled, the score, status and clock that it has reduced for itself
\* are match-service's, whatever was published meanwhile and whatever the page
\* had missed before it connected.
QuietConnectAgrees ==
  Settled /\ aligned /\ intact /\ Ascending => page.match = Body(rows[Id])

\* A page is not stuck with old frames or without a connection: unless it is
\* refused, it always catches up again. (A connection broken more often than the
\* bound allows does not count.)
CatchesUp == page.step = "live" ~> \/ Settled
                                   \/ conn = "refused"
                                   \/ conn = "closed" /\ connects = MaxConnects

\* "a full match/odds snapshot on connect, deltas after" (docs/ARCHITECTURE.md:
\* 140-141): with nothing lost, duplicated or reordered, a page that has caught up
\* shows the match.
SnapshotThenDeltas == Settled /\ intact /\ Ascending => page.match = Body(rows[Id])
=============================================================================
