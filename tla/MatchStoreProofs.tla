-------------------------- MODULE MatchStoreProofs --------------------------
(***************************************************************************)
(* The two users of MatchLog's tables, for every set of matches and events.*)
(* MatchStore implements MatchLog, for any number of sessions: however     *)
(* their transactions interleave and fail, each commit is one Record of    *)
(* MatchLog, so every theorem about MatchLog is one about MatchStore.      *)
(* MatchQueries: a match page is consistent although it reads the match    *)
(* and its timeline at different moments.                                  *)
(***************************************************************************)
EXTENDS MatchStore, MatchQueries, MatchLogProofs

\* The row lock makes the view of a transaction current until it commits.
StoreInv == /\ StoreTypeOK
            /\ RowLockExclusive
            /\ ViewIsCurrent

\* Facts about a session that is working on an event.
LEMMA BusyItem ==
  ASSUME StoreTypeOK, NEW s \in Sessions, phase[s] # "idle"
  PROVE  item[s] \in Events /\ item[s] \in Event /\ item[s].match \in Matches
BY EventsAssumption DEF StoreTypeOK, Event

\* Past its load, a session has a row in view.
LEMMA LoadedView ==
  ASSUME StoreTypeOK, NEW s \in Sessions, phase[s] \in {"loaded", "updated", "inserted"}
  PROVE  view[s] \in Row
BY DEF StoreTypeOK

-----------------------------------------------------------------------------
(* A commit is a Record; every other step leaves the tables alone. *)

\* Commit writes what Record would: the view it holds is one Reduce away from the
\* committed row.
LEMMA CommitRecords ==
  ASSUME StoreInv, NEW s \in Sessions, Commit(s)
  PROVE  item[s] \in Events /\ Record(item[s])
<1> DEFINE e == item[s]
<1>1. phase[s] = "inserted"  BY DEF Commit
<1>2. e \in Events /\ e \in Event /\ e.match \in Matches
  BY <1>1, BusyItem DEF StoreInv
<1>3. /\ ~ Stale(LoadOrCreate(rows[e.match], e), e)
      /\ view[s] = Reduce(LoadOrCreate(rows[e.match], e), e)
  BY <1>1 DEF StoreInv, ViewIsCurrent
<1>4. rows' = [rows EXCEPT ![e.match] = Reduce(LoadOrCreate(@, e), e)]
  BY <1>3 DEF Commit
<1>5. timeline' = [timeline EXCEPT ![e.match] = @ \cup {e}]
  BY DEF Commit
<1>6. QED  BY <1>2, <1>3, <1>4, <1>5 DEF Record, IsStale

\* Every step of the transactions is a step of the log, or none.
LEMMA StoreStepSimulates ==
  ASSUME StoreInv, [StoreNext]_storeVars
  PROVE  [LogNext]_logVars
<1>1. CASE UNCHANGED storeVars
  BY <1>1 DEF storeVars, logVars
<1>2. CASE \E s \in Sessions : Commit(s)
  BY <1>2, CommitRecords DEF LogNext
<1>3. CASE \E s \in Sessions : \/ \E e \in Events : Begin(s, e)
                               \/ Load(s) \/ Skip(s) \/ Update(s) \/ InsertEvent(s) \/ Abort(s)
  BY <1>3 DEF Begin, Load, Skip, Update, InsertEvent, Abort, logVars
<1>4. QED  BY <1>1, <1>2, <1>3 DEF StoreNext, Proceed

-----------------------------------------------------------------------------
(* The three parts of the invariant are preserved. *)

\* Every step of Apply keeps phases, items and views well typed.
LEMMA StoreTypeStep ==
  ASSUME StoreInv, LogInv, [StoreNext]_storeVars
  PROVE  StoreTypeOK'
<1> USE DEF StoreInv
<1>0. LogTypeOK'
  BY StoreStepSimulates, LogInvStep DEF LogInv
<1>1. CASE UNCHANGED storeVars
  BY <1>0, <1>1 DEF storeVars, StoreTypeOK
<1>2. ASSUME NEW s \in Sessions, NEW e \in Events, Begin(s, e)
      PROVE  StoreTypeOK'
  BY <1>0, <1>2, NoItemAssumption DEF Begin, Goto, StoreTypeOK, Phases
<1>3. ASSUME NEW s \in Sessions, Load(s)
      PROVE  StoreTypeOK'
  <2> DEFINE row == LoadOrCreate(rows[item[s].match], item[s])
  <2>1. item[s] \in Event /\ item[s].match \in Matches
    BY <1>3, BusyItem DEF Load
  <2>2. rows[item[s].match] \in Row \cup {NoRow}
    BY <2>1 DEF StoreTypeOK, LogTypeOK
  <2>3. row \in Row
    BY <2>1, <2>2, LoadOrCreateType
  <2>4. view' = [view EXCEPT ![s] = row] /\ phase' = [phase EXCEPT ![s] = "loaded"]
        /\ item' = item /\ phase[s] = "begun"
    BY <1>3 DEF Load, Goto
  <2> HIDE DEF row
  <2>5. QED  BY <1>0, <2>3, <2>4, NoRowAssumption DEF StoreTypeOK, Phases
<1>4. ASSUME NEW s \in Sessions, Update(s)
      PROVE  StoreTypeOK'
  <2> DEFINE row == Reduce(view[s], item[s])
  <2>1. row \in Row
    BY <1>4, BusyItem, LoadedView, ReduceFields DEF Update
  <2>2. view' = [view EXCEPT ![s] = row] /\ phase' = [phase EXCEPT ![s] = "updated"]
        /\ item' = item /\ phase[s] = "loaded"
    BY <1>4 DEF Update, Goto
  <2> HIDE DEF row
  <2>3. QED  BY <1>0, <2>1, <2>2, NoRowAssumption DEF StoreTypeOK, Phases
<1>5. ASSUME NEW s \in Sessions, InsertEvent(s)
      PROVE  StoreTypeOK'
  BY <1>0, <1>5 DEF InsertEvent, Goto, StoreTypeOK, Phases
<1>6. ASSUME NEW s \in Sessions, Close(s)
      PROVE  StoreTypeOK'
  BY <1>0, <1>6 DEF Close, StoreTypeOK, Phases
<1>7. QED
  BY <1>1, <1>2, <1>3, <1>4, <1>5, <1>6 DEF StoreNext, Proceed, Skip, Commit, Abort

\* A session gets the row of a match only when no other holds it.
LEMMA RowLockStep ==
  ASSUME StoreInv, [StoreNext]_storeVars
  PROVE  RowLockExclusive'
<1> USE DEF StoreInv, RowLockExclusive, Holds
<1>1. CASE UNCHANGED storeVars
  BY <1>1 DEF storeVars
<1>2. ASSUME NEW s \in Sessions, NEW e \in Events, Begin(s, e)
      PROVE  RowLockExclusive'
  BY <1>2 DEF Begin, Goto, StoreTypeOK
<1>3. ASSUME NEW s \in Sessions, Load(s)
      PROVE  RowLockExclusive'
  BY <1>3 DEF Load, Goto, StoreTypeOK
<1>4. ASSUME NEW s \in Sessions, Update(s) \/ InsertEvent(s)
      PROVE  RowLockExclusive'
  BY <1>4 DEF Update, InsertEvent, Goto, StoreTypeOK
<1>5. ASSUME NEW s \in Sessions, Close(s)
      PROVE  RowLockExclusive'
  BY <1>5 DEF Close, StoreTypeOK
<1>6. QED
  BY <1>1, <1>2, <1>3, <1>4, <1>5 DEF StoreNext, Proceed, Skip, Commit, Abort

\* Only a commit changes a row, and it holds the row's lock: no view of another
\* session can be outdated by it.
LEMMA ViewStep ==
  ASSUME StoreInv, [StoreNext]_storeVars
  PROVE  ViewIsCurrent'
<1> USE DEF StoreInv
<1> DEFINE Current(s) ==
      LET e == item[s]
          loaded == LoadOrCreate(rows[e.match], e)
      IN  /\ phase[s] = "loaded" => view[s] = loaded
          /\ phase[s] \in {"updated", "inserted"} => /\ ~ Stale(loaded, e)
                                                     /\ view[s] = Reduce(loaded, e)
<1>1. \A s \in Sessions : Current(s)
  BY DEF ViewIsCurrent
<1>2. SUFFICES ASSUME NEW t \in Sessions PROVE Current(t)'
  BY DEF ViewIsCurrent
<1>3. CASE UNCHANGED storeVars
  BY <1>1, <1>3 DEF storeVars
<1>4. ASSUME NEW s \in Sessions, NEW e \in Events, Begin(s, e)
      PROVE  Current(t)'
  BY <1>1, <1>4 DEF Begin, Goto, StoreTypeOK
<1>5. ASSUME NEW s \in Sessions, Load(s)
      PROVE  Current(t)'
  BY <1>1, <1>5 DEF Load, Goto, StoreTypeOK
<1>6. ASSUME NEW s \in Sessions, Update(s)
      PROVE  Current(t)'
  BY <1>1, <1>6 DEF Update, Goto, StoreTypeOK
<1>7. ASSUME NEW s \in Sessions, InsertEvent(s)
      PROVE  Current(t)'
  BY <1>1, <1>7 DEF InsertEvent, Goto, StoreTypeOK
<1>8. ASSUME NEW s \in Sessions, Skip(s) \/ Abort(s)
      PROVE  Current(t)'
  BY <1>1, <1>8 DEF Skip, Abort, Close, StoreTypeOK, logVars
<1>9. ASSUME NEW s \in Sessions, Commit(s)
      PROVE  Current(t)'
  <2>1. CASE t = s
    BY <1>9, <2>1 DEF Commit, Close, StoreTypeOK
  <2>2. CASE t # s /\ phase[t] \in {"loaded", "updated", "inserted"}
    <3>1. item[s].match \in Matches /\ item[t].match \in Matches
      BY <1>9, <2>2, BusyItem DEF Commit
    <3>2. item[t].match # item[s].match
      BY <1>9, <2>2, <3>1 DEF Commit, RowLockExclusive, Holds
    <3>3. rows'[item[t].match] = rows[item[t].match]
      BY <1>9, <3>1, <3>2 DEF Commit, StoreTypeOK, LogTypeOK
    <3>4. phase'[t] = phase[t] /\ item'[t] = item[t] /\ view'[t] = view[t]
      BY <1>9, <2>2 DEF Commit, Close, StoreTypeOK
    <3>5. QED  BY <1>1, <3>3, <3>4
  <2>3. CASE t # s /\ phase[t] \notin {"loaded", "updated", "inserted"}
    BY <1>9, <2>3 DEF Commit, Close, StoreTypeOK
  <2>4. QED  BY <2>1, <2>2, <2>3
<1>10. QED
  BY <1>3, <1>4, <1>5, <1>6, <1>7, <1>8, <1>9 DEF StoreNext, Proceed

-----------------------------------------------------------------------------
(* The theorems. *)

\* The inductive invariant holds in every reachable state, together with the one
\* of MatchLog.
THEOREM StoreInvariant == StoreSpec => [](StoreInv /\ LogInv)
<1>1. StoreInit => StoreInv /\ LogInv
  <2> SUFFICES ASSUME StoreInit PROVE StoreInv /\ LogInv  OBVIOUS
  <2>1. LogInv  BY LogInvInit DEF StoreInit
  <2>2. StoreTypeOK
    BY <2>1, NoItemAssumption DEF LogInv, StoreInit, StoreTypeOK, Phases
  <2>3. RowLockExclusive  BY DEF StoreInit, RowLockExclusive, Holds
  <2>4. ViewIsCurrent  BY DEF StoreInit, ViewIsCurrent
  <2>5. QED  BY <2>1, <2>2, <2>3, <2>4 DEF StoreInv
<1>2. (StoreInv /\ LogInv) /\ [StoreNext]_storeVars => (StoreInv /\ LogInv)'
  <2> SUFFICES ASSUME StoreInv, LogInv, [StoreNext]_storeVars PROVE (StoreInv /\ LogInv)'
    OBVIOUS
  <2>1. LogInv'  BY StoreStepSimulates, LogInvStep
  <2>2. QED  BY <2>1, StoreTypeStep, RowLockStep, ViewStep DEF StoreInv
<1>3. QED  BY <1>1, <1>2, PTL DEF StoreSpec

\* Whatever the interleaving of the transactions, the variables are well typed.
THEOREM StoreTypeCorrect == StoreSpec => []StoreTypeOK
<1>1. StoreInv /\ LogInv => StoreTypeOK  BY DEF StoreInv
<1>2. QED  BY <1>1, StoreInvariant, PTL

\* Lost updates are impossible: a transaction's view of its match is current.
THEOREM ViewsAreCurrent == StoreSpec => []ViewIsCurrent
<1>1. StoreInv /\ LogInv => ViewIsCurrent  BY DEF StoreInv
<1>2. QED  BY <1>1, StoreInvariant, PTL

\* The INSERT into match_events is never refused by its UNIQUE constraint.
THEOREM InsertsAreUnique == StoreSpec => []ConstraintNeverFires
<1>1. StoreInv /\ LogInv => ConstraintNeverFires
  <2> SUFFICES ASSUME StoreInv, LogInv, NEW s \in Sessions, phase[s] = "updated"
               PROVE  Unique(item[s])
    BY DEF ConstraintNeverFires
  <2> DEFINE e == item[s]
  <2>1. e \in Event /\ e.match \in Matches
    BY BusyItem DEF StoreInv
  <2>2. ~ Stale(LoadOrCreate(rows[e.match], e), e)
    BY DEF StoreInv, ViewIsCurrent
  <2>3. CASE rows[e.match] = NoRow
    BY <2>1, <2>3 DEF LogInv, RowMatchesTimeline, Unique
  <2>4. CASE rows[e.match] # NoRow
    <3>1. Derived(rows[e.match], timeline[e.match])
      BY <2>1, <2>4 DEF LogInv, RowMatchesTimeline
    <3>2. ~ Stale(rows[e.match], e)
      BY <2>2, <2>4 DEF LoadOrCreate
    <3>3. \A f \in timeline[e.match] : f.sequence # e.sequence
      BY <3>1, <3>2 DEF Derived, SequenceAgrees, Stale
    <3>4. QED  BY <3>3 DEF Unique
  <2>5. QED  BY <2>3, <2>4
<1>2. QED  BY <1>1, StoreInvariant, PTL

\* The transactions implement the atomic log: MatchStore refines MatchLog.
THEOREM StoreImplementsLog == StoreSpec => LogSpec
<1>1. StoreInit => LogInit  BY DEF StoreInit
<1>2. (StoreInv /\ LogInv) /\ [StoreNext]_storeVars => [LogNext]_logVars
  BY StoreStepSimulates
<1>3. QED  BY <1>1, <1>2, StoreInvariant, PTL DEF StoreSpec, LogSpec

\* So what is proved of the log holds of the tables the transactions write.
THEOREM StoredRowsTellTheTimeline == StoreSpec => []RowMatchesTimeline
BY StoreImplementsLog, RowsTellTheTimeline

\* And so do its action properties: match_events is append-only and a row never
\* loses a goal, whatever the transactions do.
THEOREM StoredTimelinesAppend == StoreSpec => TimelineAppends /\ RowEvolves
BY StoreImplementsLog, TimelinesAppend, RowsEvolve

-----------------------------------------------------------------------------
(* The readers of the tables. *)

\* The match a page has read is what the part of the timeline T it had seen implies.
SeesPrefix(p, T) == Derived(p.row, UpTo(p.row, T))

QueryInv ==
  /\ QueryTypeOK
  /\ \A m \in Matches :
       /\ page[m].step \in {"match", "checked"} => /\ page[m].row \in Row
                                                   /\ SeesPrefix(page[m], timeline[m])
       /\ page[m].step = "loaded" => SeesPrefix(page[m], page[m].events)

\* A row read from the matches table has seen the whole of its timeline.
LEMMA ReadSeesAll ==
  ASSUME LogInv, NEW m \in Matches, rows[m] # NoRow
  PROVE  rows[m] \in Row /\ Derived(rows[m], UpTo(rows[m], timeline[m]))
<1>1. rows[m] \in Row /\ Derived(rows[m], timeline[m])
  BY DEF LogInv, LogTypeOK, RowMatchesTimeline
<1>2. UpTo(rows[m], timeline[m]) = timeline[m]
  BY <1>1 DEF UpTo, Derived, SequenceAgrees
<1>3. QED  BY <1>1, <1>2

\* Recording an event leaves every prefix that a page has seen alone.
LEMMA RecordKeepsPrefix ==
  ASSUME LogInv, NEW e \in Events, Record(e), NEW m \in Matches, NEW r \in Row,
         Derived(r, UpTo(r, timeline[m]))
  PROVE  Derived(r, UpTo(r, timeline'[m]))
<1>1. CASE m # e.match
  <2>1. timeline'[m] = timeline[m]  BY <1>1, RecordEffect DEF LogInv
  <2>2. QED  BY <2>1
<1>2. CASE m = e.match
  <2>1. timeline'[m] = timeline[m] \cup {e}  BY <1>2, RecordEffect DEF LogInv
  <2>2. PICK f \in timeline[m] : f.sequence = r.lastSequence
    BY DEF Derived, SequenceAgrees, UpTo
  <2>3. f.sequence < e.sequence /\ e.sequence \in Nat /\ f.sequence \in Nat
    BY <1>2, <2>2, RecordIsLatest
  <2>4. e \notin UpTo(r, timeline'[m])
    BY <2>2, <2>3 DEF UpTo
  <2>5. UpTo(r, timeline'[m]) = UpTo(r, timeline[m])
    BY <2>1, <2>4 DEF UpTo
  <2>6. QED  BY <2>5
<1>3. QED  BY <1>1, <1>2

\* No page is open at first.
LEMMA QueryInvInit == QueryInit => QueryInv /\ LogInv
<1> SUFFICES ASSUME QueryInit PROVE QueryInv /\ LogInv  OBVIOUS
<1>1. LogInv  BY LogInvInit DEF QueryInit
<1>2. QueryTypeOK  BY <1>1 DEF LogInv, QueryInit, QueryTypeOK, NoPage
<1>3. QED  BY <1>1, <1>2 DEF QueryInv, QueryInit, NoPage

\* Neither a reader nor a writer breaks what a page has seen.
LEMMA QueryInvStep == (QueryInv /\ LogInv) /\ [QueryNext]_queryVars => (QueryInv /\ LogInv)'
<1> SUFFICES ASSUME QueryInv, LogInv, [QueryNext]_queryVars PROVE (QueryInv /\ LogInv)'
  OBVIOUS
<1> USE DEF QueryInv
<1>1. CASE UNCHANGED queryVars
  <2>1. LogInv'  BY <1>1, LogInvStep DEF queryVars, logVars
  <2>2. QED  BY <1>1, <2>1 DEF queryVars, QueryTypeOK, LogInv, SeesPrefix
<1>2. ASSUME NEW e \in Events, Write(e)
      PROVE  (QueryInv /\ LogInv)'
  <2>1. Record(e) /\ page' = page  BY <1>2 DEF Write
  <2>2. LogInv'  BY <2>1, LogInvStep DEF LogNext
  <2>3. QueryTypeOK'  BY <2>1, <2>2 DEF QueryTypeOK, LogInv
  <2>4. ASSUME NEW m \in Matches, page'[m].step \in {"match", "checked"}
        PROVE  page'[m].row \in Row /\ SeesPrefix(page'[m], timeline'[m])
    BY <2>1, <2>4, RecordKeepsPrefix DEF SeesPrefix
  <2>5. QED  BY <2>1, <2>2, <2>3, <2>4
<1>3. ASSUME NEW m \in Matches, UNCHANGED logVars,
             GetMatch(m) \/ CheckMatch(m) \/ ListEvents(m) \/ Leave(m)
      PROVE  (QueryInv /\ LogInv)'
  <2>1. LogInv'  BY <1>3, LogInvStep
  <2>2. QueryTypeOK'
    <3>1. LogTypeOK'  BY <2>1 DEF LogInv
    <3>2. rows[m] \in Row \cup {NoRow} /\ timeline[m] \in SUBSET Events
      BY DEF LogInv, LogTypeOK
    <3>3. CASE GetMatch(m)  BY <3>1, <3>2, <3>3 DEF GetMatch, QueryTypeOK
    <3>4. CASE CheckMatch(m)  BY <3>1, <3>4 DEF CheckMatch, QueryTypeOK
    <3>5. CASE ListEvents(m)  BY <3>1, <3>2, <3>5 DEF ListEvents, QueryTypeOK
    <3>6. CASE Leave(m)  BY <3>1, <3>6 DEF Leave, NoPage, QueryTypeOK
    <3>7. QED  BY <1>3, <3>3, <3>4, <3>5, <3>6
  <2>3. ASSUME NEW n \in Matches, n # m  PROVE page'[n] = page[n]
    BY <1>3, <2>3 DEF GetMatch, CheckMatch, ListEvents, Leave, QueryTypeOK
  <2>4. rows' = rows /\ timeline' = timeline
    BY <1>3 DEF logVars
  <2>5. /\ page'[m].step \in {"match", "checked"} => /\ page'[m].row \in Row
                                                     /\ SeesPrefix(page'[m], timeline[m])
        /\ page'[m].step = "loaded" => SeesPrefix(page'[m], page'[m].events)
    <3>1. CASE GetMatch(m)
      BY <3>1, ReadSeesAll DEF GetMatch, QueryTypeOK, SeesPrefix
    <3>2. CASE CheckMatch(m)
      BY <3>2 DEF CheckMatch, QueryTypeOK, SeesPrefix
    <3>3. CASE ListEvents(m)
      BY <3>3 DEF ListEvents, QueryTypeOK, SeesPrefix
    <3>4. CASE Leave(m)
      BY <3>4 DEF Leave, NoPage, QueryTypeOK
    <3>5. QED  BY <1>3, <3>1, <3>2, <3>3, <3>4
  <2>6. QED  BY <2>1, <2>2, <2>3, <2>4, <2>5
<1>4. QED
  BY <1>1, <1>2, <1>3 DEF QueryNext, GetMatch, CheckMatch, ListEvents, Leave

\* Every page shows a match and a timeline that belong together.
THEOREM PagesAreConsistent == QuerySpec => []PageConsistent
<1>1. QueryInv => PageConsistent  BY DEF QueryInv, PageConsistent, SeesPrefix
<1>2. QED  BY <1>1, QueryInvInit, QueryInvStep, PTL DEF QuerySpec

\* The pages being loaded are well typed.
THEOREM QueryTypeCorrect == QuerySpec => []QueryTypeOK
<1>1. QueryInv => QueryTypeOK  BY DEF QueryInv
<1>2. QED  BY <1>1, QueryInvInit, QueryInvStep, PTL DEF QuerySpec

=============================================================================
