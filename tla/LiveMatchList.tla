---------------------------- MODULE LiveMatchList ----------------------------
(***************************************************************************)
(* The page of all matches (app/page.tsx and components/LiveMatchList.tsx):*)
(* the server renders the list, then the component follows the stream of   *)
(* every match. A snapshot replaces the list; an update of a listed match  *)
(* is reduced into it, one of an unknown match makes the page fetch that   *)
(* match, once, from GET /matches/{id}, and put the answer in the list.    *)
(***************************************************************************)
EXTENDS LiveStream

\* What is shown of a match differs from nothing.
ASSUME ListAssumption == NoRow \notin PageBody

VARIABLES mounted,       \* the component runs
          matches,       \* the list: what is shown of each match, or NoRow
          lastSequence,  \* per match
          fetch,         \* per match: the request in fetchingMatches
          fetched        \* history: the matches put in the list by a fetch since
                         \* the last snapshot

pageVars == <<mounted, matches, lastSequence, fetch, fetched>>
listVars == <<streamVars, pageVars>>

NoFetch == [step |-> "none", body |-> NoRow]

ListInit == /\ StreamInit
            /\ mounted = FALSE
            /\ matches = [m \in Matches |-> NoRow]
            /\ lastSequence = [m \in Matches |-> 0]
            /\ fetch = [m \in Matches |-> NoFetch]
            /\ fetched = {}

\* listMatches on the server, and the component's initial state.
Open == /\ ~ mounted
        /\ mounted' = TRUE
        /\ matches' = Answer(Matches)
        /\ UNCHANGED <<streamVars, lastSequence, fetch, fetched>>

ConnectAll == mounted /\ Register /\ UNCHANGED pageVars

HandleSnapshot == /\ TakeFrame
                  /\ frames[1].kind = "snapshot"
                  /\ matches' = frames[1].body
                  /\ fetched' = {}
                  /\ UNCHANGED <<mounted, lastSequence, fetch>>

\* Faulty variant: one number for all the matches.
StaleForAny(e) == e.type = "odds_update" \/ \E m \in Matches : e.sequence <= lastSequence[m]

\* The update is not looked at.
Ignored(e) == e.type = "odds_update" \/ e.sequence <= lastSequence[e.match]

HandleUpdate ==
  /\ TakeFrame
  /\ frames[1].kind = "update"
  /\ LET e == frames[1].body
         m == e.match
     IN  IF Ignored(e) THEN UNCHANGED <<matches, lastSequence, fetch>>
         ELSE /\ lastSequence' = [lastSequence EXCEPT ![m] = e.sequence]
              /\ IF matches[m] # NoRow
                   THEN /\ matches' = [matches EXCEPT ![m] = PageReduce(@, e)]
                        /\ UNCHANGED fetch
                   ELSE /\ fetch' = IF fetch[m].step = "none"
                                      THEN [fetch EXCEPT ![m].step = "asked"] ELSE fetch
                        /\ UNCHANGED matches
  /\ UNCHANGED <<mounted, fetched>>

\* GET /matches/{id} is answered: the match as it is now, or no such match.
AnswerFetch(m) ==
  /\ fetch[m].step = "asked"
  /\ fetch' = [fetch EXCEPT ![m] = IF rows[m] = NoRow THEN [@ EXCEPT !.step = "failed"]
                                   ELSE [step |-> "answered", body |-> Body(rows[m])]]
  /\ UNCHANGED <<streamVars, mounted, matches, lastSequence, fetched>>

\* The gateway or match-service cannot be reached.
FailFetch(m) == /\ fetch[m].step = "asked"
                /\ fetch' = [fetch EXCEPT ![m].step = "failed"]
                /\ intact' = FALSE
                /\ UNCHANGED <<logVars, bus, applied, relayed, conn, connects, frames, from,
                               aligned, mounted, matches, lastSequence, fetched>>

\* then(...): the answer takes the match's place in the list.
PutFetched(m) == /\ fetch[m].step = "answered"
                 /\ matches' = [matches EXCEPT ![m] = fetch[m].body]
                 /\ fetched' = fetched \cup {m}
                 /\ fetch' = [fetch EXCEPT ![m] = NoFetch]
                 /\ UNCHANGED <<streamVars, mounted, lastSequence>>

\* Faulty variant: a failure leaves the match in fetchingMatches.
KeepFetching(m) == /\ fetch[m].step = "failed"
                   /\ UNCHANGED listVars

\* catch(...).
ForgetFetch(m) == /\ fetch[m].step = "failed"
                  /\ fetch' = [fetch EXCEPT ![m] = NoFetch]
                  /\ UNCHANGED <<streamVars, mounted, matches, lastSequence, fetched>>

FetchStep(m) == AnswerFetch(m) \/ PutFetched(m) \/ ForgetFetch(m)

ListNext == \/ Elsewhere(Matches) /\ UNCHANGED pageVars
            \/ Open \/ ConnectAll \/ HandleSnapshot \/ HandleUpdate
            \/ \E m \in Matches : FetchStep(m) \/ FailFetch(m)

ListSpec == ListInit /\ [][ListNext]_listVars

\* A request is answered or fails, and its promise settles.
FairListSpec == ListSpec /\ \A m \in Matches : WF_listVars(FetchStep(m))

-----------------------------------------------------------------------------

ListBody == PageBody \cup {NoRow}

ListTypeOK ==
  /\ StreamTypes
  /\ mounted \in BOOLEAN /\ fetched \subseteq Matches
  /\ matches \in [Matches -> ListBody] /\ lastSequence \in [Matches -> Nat]
  /\ fetch \in [Matches -> [step : {"none", "asked", "answered", "failed"}, body : ListBody]]
  /\ \A m \in Matches : fetch[m].step = "answered" <=> fetch[m].body # NoRow

\* A list that connected at a quiet moment is right about every match that it has
\* not fetched since: once everything published has been handled, what it has
\* reduced for itself is match-service's row, whatever the other matches do.
QuietListAgrees ==
  Settled /\ aligned /\ intact /\ Ascending =>
    \A m \in Matches \ fetched : matches[m] # NoRow => matches[m] = Body(rows[m])

\* In every state the types; at rest, agreement.
ListInv == ListTypeOK /\ QuietListAgrees

\* A match is never left in fetchingMatches, which would keep the page from ever
\* fetching it again: each request ends, also one for a match that match-service
\* does not know yet.
FetchEnds == \A m \in Matches : fetch[m].step # "none" ~> fetch[m].step = "none"

=============================================================================
