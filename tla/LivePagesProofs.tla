--------------------------- MODULE LivePagesProofs ---------------------------
(***************************************************************************)
(* Theorems about the two live pages, for every set of matches and events  *)
(* and any number of events and connections: their reducer is Reduce, the  *)
(* timeline of the match page neither repeats nor invents an event, and a  *)
(* page that connects at a quiet moment ends up with the rows of           *)
(* match-service. What both need about the stream is proved once, for the  *)
(* matches F that the page follows and the bodies B that a snapshot may    *)
(* show of one: {Id} and PageBody for LiveMatchDetail, Matches and         *)
(* ListBody for LiveMatchList.                                             *)
(***************************************************************************)
EXTENDS LiveMatchDetail, LiveMatchList, MatchLogProofs, SequenceTheorems

-----------------------------------------------------------------------------
(* reduce.ts and reduce.go. *)

\* The score, status and clock that the page computes for itself are those that
\* match-service computes from the same row and event: "mirrors ... exactly"
\* (docs/frontend-application-design.md).
THEOREM ReducersAgree ==
  ASSUME NEW row \in Row, NEW e \in Event
  PROVE  PageReduce(Body(row), e) = Body(Reduce(row, e))
<1> DEFINE reduced == Reduce(row, e)
<1>1. /\ reduced \in Row
      /\ reduced.homeScore = Tally(row.homeScore, e, "home")
      /\ reduced.awayScore = Tally(row.awayScore, e, "away")
      /\ reduced.teams = row.teams
      /\ SetsStatus(e) => reduced.status = RuleFor(e).status
      /\ ~ SetsStatus(e) => reduced.status = row.status
      /\ SetsClock(e) => reduced.clockMins = e.minute
      /\ ~ SetsClock(e) => reduced.clockMins = row.clockMins
  BY ReduceFields
<1> HIDE DEF reduced
<1>2. e.type \in {"kickoff", "half_time", "full_time", "goal", "card", "odds_update", "unrecognised"}
  BY DEF Event, EventTypes, RegisteredTypes
<1>3. CASE e.type \in {"kickoff", "half_time", "full_time"}
  <2>1. SetsStatus(e) /\ ~ Scores(e) /\ ~ SetsClock(e)
    BY <1>3 DEF SetsStatus, Scores, SetsClock, RuleFor, Registry, RegisteredTypes
  <2>2. DOMAIN StatusRules = {"kickoff", "half_time", "full_time"}  BY DEF StatusRules
  <2>3. RuleFor(e).status = StatusRules[e.type]
    <3>1. CASE e.type = "kickoff"
      BY <3>1 DEF RuleFor, Registry, RegisteredTypes, StatusRules
    <3>2. CASE e.type = "half_time"
      BY <3>2 DEF RuleFor, Registry, RegisteredTypes, StatusRules
    <3>3. CASE e.type = "full_time"
      BY <3>3 DEF RuleFor, Registry, RegisteredTypes, StatusRules
    <3>4. QED  BY <1>3, <3>1, <3>2, <3>3
  <2>4. PageReduce(Body(row), e) = [Body(row) EXCEPT !.status = StatusRules[e.type]]
    BY <1>3, <2>2 DEF PageReduce
  <2> DEFINE rule == StatusRules[e.type]
  <2> HIDE DEF rule
  <2>5. /\ reduced.status = rule
        /\ reduced.homeScore = row.homeScore /\ reduced.awayScore = row.awayScore
        /\ reduced.clockMins = row.clockMins /\ reduced.teams = row.teams
    BY <1>1, <2>1, <2>3 DEF Tally, rule
  <2>6. Body(reduced) = [Body(row) EXCEPT !.status = rule]
    BY <2>5 DEF Body
  <2>7. QED  BY <2>4, <2>6 DEF rule, reduced
<1>4. CASE e.type = "goal"
  <2>1. ~ SetsStatus(e) /\ Scores(e) /\ (SetsClock(e) <=> e.minute # NoMinute)
    BY <1>4 DEF SetsStatus, Scores, SetsClock, RuleFor, Registry, RegisteredTypes
  <2>2. e.type \notin DOMAIN StatusRules  BY <1>4 DEF StatusRules
  <2>3. PageReduce(Body(row), e) =
          [Body(row) EXCEPT !.homeScore = IF e.team = "home" THEN @ + 1 ELSE @,
                            !.awayScore = IF e.team = "away" THEN @ + 1 ELSE @,
                            !.clockMins = IF e.minute # NoMinute THEN e.minute ELSE @]
    BY <1>4, <2>2 DEF PageReduce
  <2>4. QED  BY <1>1, <2>1, <2>3 DEF Body, Tally, reduced
<1>5. CASE e.type \in {"card", "odds_update", "unrecognised"}
  <2>1. ~ SetsStatus(e) /\ ~ Scores(e) /\ ~ SetsClock(e)
    BY <1>5 DEF SetsStatus, Scores, SetsClock, RuleFor, Registry, RegisteredTypes, ZeroRule
  <2>2. PageReduce(Body(row), e) = Body(row)
    BY <1>5 DEF PageReduce, StatusRules
  <2>3. QED  BY <1>1, <2>1, <2>2 DEF Body, Tally, reduced
<1>6. QED  BY <1>2, <1>3, <1>4, <1>5

\* The row of an event, as an answer shows it.
LEMMA BodyType ==
  ASSUME NEW row \in Row
  PROVE  Body(row) \in PageBody
BY DEF Body, PageBody, Row

\* The page's reducer stays within the type of an answer.
LEMMA PageReduceType ==
  ASSUME NEW body \in PageBody, NEW e \in Event
  PROVE  PageReduce(body, e) \in PageBody
<1> DEFINE row == [status |-> body.status, homeScore |-> body.homeScore,
                   awayScore |-> body.awayScore, clockMins |-> body.clockMins,
                   lastSequence |-> 0, teams |-> body.teams]
<1>1. row \in Row  BY DEF Row, PageBody
<1>2. Body(row) = body  BY DEF Body, PageBody
<1> HIDE DEF row
<1>3. Reduce(row, e) \in Row  BY <1>1, ReduceFields
<1>4. PageReduce(body, e) = Body(Reduce(row, e))
  BY <1>1, <1>2, ReducersAgree
<1>5. QED  BY <1>3, <1>4, BodyType

-----------------------------------------------------------------------------
(* The stream. What has been published, and what of it is about a match that  *)
(* is followed, bound the timelines of match-service and the frames under     *)
(* way; all of them only grow with the bus.                                   *)

Published == {e \in Events : \E j \in DOMAIN bus : bus[j] = e}
About(F) == {e \in Published : e.match \in F}
Frame(F, B) == {Snapshot(answer) : answer \in [F -> B]} \cup {Update(e) : e \in About(F)}

\* What is recorded was published.
RecordsAreReal == \A m \in Matches : \A e \in timeline[m] : e \in Published /\ e.match = m

\* Snapshots hold what is followed, and updates are published events about it.
FramesAreReal(F, B) == frames \in Seq(Frame(F, B))

StreamInv == LogInv /\ StreamTypes /\ RecordsAreReal

\* Publishing only adds.
LEMMA BusGrows ==
  ASSUME StreamTypes, bus' = bus \/ \E e \in Events : bus' = Append(bus, e)
  PROVE  Published \subseteq Published'
<1>1. \A j \in DOMAIN bus : j \in DOMAIN bus' /\ bus'[j] = bus[j]
  BY DEF StreamTypes
<1>2. QED  BY <1>1 DEF Published

\* A sequence over a set is one over a larger set.
LEMMA SeqGrows ==
  ASSUME NEW S, NEW T, S \subseteq T, NEW s \in Seq(S)
  PROVE  s \in Seq(T)
OBVIOUS

LEMMA FramesStayReal ==
  ASSUME NEW F, NEW B, Published \subseteq Published', FramesAreReal(F, B), frames' = frames
  PROVE  FramesAreReal(F, B)'
<1> DEFINE S == Frame(F, B)
           T == Frame(F, B)'
<1>1. S \subseteq T  BY DEF Frame, About
<1>2. frames \in Seq(S)  BY DEF FramesAreReal
<1> HIDE DEF S, T
<1>3. frames \in Seq(T)  BY <1>1, <1>2, SeqGrows
<1>4. QED  BY <1>3 DEF FramesAreReal, T

\* Apply records the event at hand or nothing, and never takes a row away.
LEMMA ApplyStep ==
  ASSUME StreamInv, Apply
  PROVE  /\ LogInv' /\ RecordsAreReal'
         /\ \A m \in Matches : rows[m] # NoRow => rows'[m] # NoRow
<1> DEFINE e == bus[applied + 1]
<1>1. e \in Events /\ e \in Published /\ bus' = bus
      /\ (UNCHANGED logVars \/ Record(e))
  BY DEF StreamInv, StreamTypes, Apply, Published
<1> HIDE DEF e
<1>2. PICK ev \in Events : ev \in Published /\ (UNCHANGED logVars \/ Record(ev))
  BY <1>1
<1>3. LogInv'
  BY <1>2, LogInvStep DEF StreamInv, LogNext
<1>4. Published' = Published
  BY <1>1 DEF Published
<1>5. CASE UNCHANGED logVars
  BY <1>3, <1>4, <1>5 DEF StreamInv, RecordsAreReal, logVars
<1>6. CASE Record(ev)
  <2>1. /\ ev \in Event /\ ev.match \in Matches
        /\ rows'[ev.match] = Reduce(LoadOrCreate(rows[ev.match], ev), ev)
        /\ timeline'[ev.match] = timeline[ev.match] \cup {ev}
        /\ \A m \in Matches \ {ev.match} : rows'[m] = rows[m] /\ timeline'[m] = timeline[m]
    BY <1>6, RecordEffect DEF StreamInv, LogInv
  <2>2. RecordsAreReal'
    BY <1>2, <1>4, <2>1 DEF StreamInv, RecordsAreReal
  <2>3. rows'[ev.match] \in Row
    <3>1. rows[ev.match] \in Row \cup {NoRow}
      BY <2>1 DEF StreamInv, LogInv, LogTypeOK
    <3>2. LoadOrCreate(rows[ev.match], ev) \in Row  BY <2>1, <3>1, LoadOrCreateType
    <3>3. QED  BY <2>1, <3>2, ReduceFields
  <2>4. QED  BY <1>3, <2>1, <2>2, <2>3, NoRowAssumption
<1>7. QED  BY <1>2, <1>5, <1>6

\* A step outside the page that leaves the log alone.
LEMMA LogUntouched ==
  ASSUME StreamInv, UNCHANGED logVars, bus' = bus \/ \E e \in Events : bus' = Append(bus, e)
  PROVE  LogInv' /\ RecordsAreReal'
<1>1. LogInv'  BY LogInvStep DEF StreamInv
<1>2. Published \subseteq Published'  BY BusGrows DEF StreamInv
<1>3. QED  BY <1>1, <1>2 DEF StreamInv, RecordsAreReal, logVars

\* The log, the bus and the types, step by step.
LEMMA StreamTypesStep ==
  ASSUME NEW F, StreamInv, Elsewhere(F)
  PROVE  /\ LogInv' /\ RecordsAreReal' /\ StreamTypes'
         /\ bus' = bus \/ \E e \in Events : bus' = Append(bus, e)
         /\ \A m \in Matches : rows[m] # NoRow => rows'[m] # NoRow
<1>1. CASE Apply
  <2>1. LogInv' /\ RecordsAreReal' /\ \A m \in Matches : rows[m] # NoRow => rows'[m] # NoRow
    BY <1>1, ApplyStep
  <2>2. LogTypeOK'  BY <2>1 DEF LogInv
  <2>3. /\ applied \in Nat /\ applied < Len(bus) /\ applied' = applied + 1
        /\ UNCHANGED <<bus, relayed, connVars>>
    BY <1>1 DEF Apply, StreamInv, StreamTypes
  <2>4. StreamTypes'
    BY <2>2, <2>3 DEF StreamInv, StreamTypes, connVars
  <2>5. QED  BY <2>1, <2>3, <2>4
<1>2. CASE ~ Apply
  <2>1. /\ UNCHANGED logVars
        /\ bus' = bus \/ \E e \in Events : bus' = Append(bus, e)
    <3>1. CASE \E e \in Events : Publish(e)  BY <3>1 DEF Publish
    <3>2. CASE Miss \/ Relay(F) \/ Drop  BY <3>2 DEF Miss, Relay, Drop
    <3>3. CASE WriteSnapshot(F)  BY <3>3 DEF WriteSnapshot
    <3>4. CASE Refuse \/ Disconnect  BY <3>4 DEF Refuse, Disconnect, Over
    <3>5. QED  BY <1>2, <3>1, <3>2, <3>3, <3>4 DEF Elsewhere
  <2>2. LogInv' /\ RecordsAreReal'  BY <2>1, LogUntouched
  <2>3. LogTypeOK'  BY <2>2 DEF LogInv
  <2>4. \A m \in Matches : rows[m] # NoRow => rows'[m] # NoRow
    BY <2>1 DEF logVars
  <2>5. bus' \in Seq(Events) /\ Len(bus) <= Len(bus') /\ Len(bus') \in Nat
    BY <2>1 DEF StreamInv, StreamTypes
  <2>6. StreamTypes'
    <3>1. CASE \E e \in Events : Publish(e)
      <4>1. UNCHANGED <<applied, relayed, conn, connects, from, aligned, intact>>
        BY <3>1 DEF Publish, connVars
      <4>2. applied \in 0 .. Len(bus') /\ relayed \in 0 .. Len(bus')
        BY <2>5 DEF StreamInv, StreamTypes
      <4>3. QED  BY <2>3, <2>5, <4>1, <4>2 DEF StreamInv, StreamTypes
    <3>2. CASE Miss \/ Relay(F) \/ Drop
      <4>1. UNCHANGED <<bus, conn, connects, from, aligned>> /\ intact' \in BOOLEAN
        BY <3>2 DEF Miss, Relay, Drop, StreamInv, StreamTypes
      <4>2. applied' \in 0 .. Len(bus) /\ relayed' \in 0 .. Len(bus) /\ relayed <= relayed'
        BY <3>2 DEF Miss, Relay, Drop, StreamInv, StreamTypes
      <4>3. QED  BY <2>3, <4>1, <4>2 DEF StreamInv, StreamTypes
    <3>3. CASE WriteSnapshot(F)
      <4>1. /\ conn' = "streaming" /\ from' = 0
            /\ UNCHANGED <<bus, applied, relayed, connects, intact>>
        BY <3>3 DEF WriteSnapshot
      <4>2. aligned' \in BOOLEAN  BY <3>3 DEF WriteSnapshot
      <4>3. QED  BY <2>3, <4>1, <4>2 DEF StreamInv, StreamTypes
    <3>4. CASE Refuse \/ Disconnect
      <4>1. /\ conn' \in {"closed", "refused"} /\ from' = 0
            /\ UNCHANGED <<bus, applied, relayed, connects>>
        BY <3>4 DEF Refuse, Disconnect, Over
      <4>2. aligned' \in BOOLEAN /\ intact' \in BOOLEAN
        BY <3>4 DEF Refuse, Disconnect, Over
      <4>3. QED  BY <2>3, <4>1, <4>2 DEF StreamInv, StreamTypes
    <3>5. QED  BY <1>2, <3>1, <3>2, <3>3, <3>4 DEF Elsewhere
  <2>7. QED  BY <2>1, <2>2, <2>4, <2>6
<1>3. QED  BY <1>1, <1>2

\* What is relayed to the page was published and is about what it follows.
LEMMA RelayedIsReal ==
  ASSUME NEW F, NEW B, StreamInv, FramesAreReal(F, B), Relay(F)
  PROVE  FramesAreReal(F, B)'
<1> DEFINE e == bus[relayed + 1]
           S == Frame(F, B)
<1>1. e \in Published
  BY DEF StreamInv, StreamTypes, Relay, Published
<1>2. /\ bus' = bus
      /\ frames' = frames \/ (e.match \in F /\ frames' = Append(frames, Update(e)))
  BY DEF Relay
<1> HIDE DEF e
<1>3. Frame(F, B)' = S  BY <1>2 DEF Frame, About, Published
<1>4. e.match \in F => Update(e) \in S
  BY <1>1 DEF Frame, About
<1>5. frames \in Seq(S)  BY DEF FramesAreReal
<1> HIDE DEF S
<1>6. frames' \in Seq(S)  BY <1>2, <1>4, <1>5
<1>7. QED  BY <1>3, <1>6 DEF FramesAreReal

\* The snapshot holds what is followed.
LEMMA SnapshotIsReal ==
  ASSUME NEW F, NEW B, StreamInv, FramesAreReal(F, B), Answer(F) \in [F -> B], WriteSnapshot(F)
  PROVE  FramesAreReal(F, B)'
<1> DEFINE S == Frame(F, B)
           first == Snapshot(Answer(F))
<1>1. first \in S  BY DEF Frame
<1>2. frames' = <<first>> \o frames /\ bus' = bus  BY DEF WriteSnapshot
<1>3. Frame(F, B)' = S  BY <1>2 DEF Frame, About, Published
<1>4. frames \in Seq(S)  BY DEF FramesAreReal
<1> HIDE DEF S, first
<1>5. frames' \in Seq(S)  BY <1>1, <1>2, <1>4
<1>6. QED  BY <1>3, <1>5 DEF FramesAreReal

\* A step outside the page keeps the stream's invariant.
LEMMA ElsewhereStep ==
  ASSUME NEW F, NEW B, StreamInv, FramesAreReal(F, B), Elsewhere(F),
         WriteSnapshot(F) => Answer(F) \in [F -> B]
  PROVE  StreamInv' /\ FramesAreReal(F, B)'
<1>1. /\ LogInv' /\ RecordsAreReal' /\ StreamTypes'
      /\ bus' = bus \/ \E e \in Events : bus' = Append(bus, e)
  BY StreamTypesStep
<1>2. Published \subseteq Published'  BY <1>1, BusGrows DEF StreamInv
<1>3. FramesAreReal(F, B)'
  <2>1. CASE \E e \in Events : Publish(e)
    <3>1. frames' = frames  BY <2>1 DEF Publish, connVars
    <3>2. QED  BY <1>2, <3>1, FramesStayReal
  <2>2. CASE Apply \/ Miss \/ Drop
    <3>1. frames' = frames  BY <2>2 DEF Apply, Miss, Drop, connVars
    <3>2. QED  BY <1>2, <3>1, FramesStayReal
  <2>3. CASE Relay(F)  BY <2>3, RelayedIsReal
  <2>4. CASE WriteSnapshot(F)  BY <2>4, SnapshotIsReal
  <2>5. CASE Refuse \/ Disconnect
    <3>1. frames' = <<>>  BY <2>5 DEF Refuse, Disconnect, Over
    <3>2. QED  BY <3>1 DEF FramesAreReal
  <2>6. QED  BY <2>1, <2>2, <2>3, <2>4, <2>5 DEF Elsewhere
<1>4. QED  BY <1>1, <1>3 DEF StreamInv

\* Only the page connects.
LEMMA ClosedStays ==
  ASSUME NEW F, Elsewhere(F), conn = "closed"
  PROVE  conn' = "closed"
BY DEF Elsewhere, Publish, Apply, Miss, Relay, Drop, WriteSnapshot, Refuse, Disconnect, Over,
       Connected, connVars

\* The invariant is kept when the page leaves the stream alone, or only learns that
\* something was lost,
LEMMA StreamAtRest ==
  ASSUME NEW F, NEW B, StreamInv, FramesAreReal(F, B),
         UNCHANGED <<logVars, bus, frames, applied, relayed, conn, connects, from, aligned>>,
         intact' \in BOOLEAN
  PROVE  StreamInv' /\ FramesAreReal(F, B)'
<1>1. Published' = Published  BY DEF Published
<1>2. LogInv'  BY LogInvStep DEF StreamInv
<1>3. LogTypeOK'  BY <1>2 DEF LogInv
<1>4. FramesAreReal(F, B)'  BY <1>1, FramesStayReal
<1>5. QED
  BY <1>1, <1>2, <1>3, <1>4 DEF StreamInv, StreamTypes, RecordsAreReal, logVars

\* connecting,
LEMMA RegisterStep ==
  ASSUME NEW F, NEW B, StreamInv, Register
  PROVE  StreamInv' /\ FramesAreReal(F, B)'
<1>1. /\ conn' = "registered" /\ frames' = <<>>
      /\ connects' = connects + 1 /\ connects < MaxConnects /\ from' = relayed
      /\ UNCHANGED <<logVars, bus, applied, relayed>>
  BY DEF Register
<1>2. aligned' \in BOOLEAN /\ intact' \in BOOLEAN
  BY DEF Register
<1>3. LogInv'  BY <1>1, LogInvStep DEF StreamInv
<1>4. LogTypeOK'  BY <1>3 DEF LogInv
<1>5. StreamTypes'
  BY <1>1, <1>2, <1>4, StreamAssumption DEF StreamInv, StreamTypes
<1>6. RecordsAreReal'
  BY <1>1 DEF StreamInv, RecordsAreReal, Published, logVars
<1>7. FramesAreReal(F, B)'
  BY <1>1 DEF FramesAreReal
<1>8. QED  BY <1>3, <1>5, <1>6, <1>7 DEF StreamInv

\* and being handed a frame.
LEMMA TakeFrameStep ==
  ASSUME NEW F, NEW B, StreamInv, FramesAreReal(F, B), TakeFrame
  PROVE  StreamInv' /\ FramesAreReal(F, B)'
<1> DEFINE S == Frame(F, B)
<1>1. /\ frames # <<>> /\ frames' = Tail(frames)
      /\ UNCHANGED <<logVars, bus, applied, relayed, conn, connects, from, aligned, intact>>
  BY DEF TakeFrame
<1>2. Published' = Published /\ Frame(F, B)' = S  BY <1>1 DEF Published, Frame, About
<1>3. frames \in Seq(S)  BY DEF FramesAreReal
<1>4. Tail(frames) \in Seq(S)
  <2> HIDE DEF S
  <2>1. QED  BY <1>1, <1>3
<1>5. LogInv'  BY <1>1, LogInvStep DEF StreamInv
<1>6. LogTypeOK'  BY <1>5 DEF LogInv
<1>7. StreamTypes'  BY <1>1, <1>6 DEF StreamInv, StreamTypes
<1>8. RecordsAreReal'  BY <1>1, <1>2 DEF StreamInv, RecordsAreReal, logVars
<1>9. FramesAreReal(F, B)'  BY <1>1, <1>2, <1>4 DEF FramesAreReal
<1>10. QED  BY <1>5, <1>7, <1>8, <1>9 DEF StreamInv

\* It is a snapshot or an update.
LEMMA FirstFrame ==
  ASSUME NEW F, NEW B, FramesAreReal(F, B), frames # <<>>
  PROVE  \/ \E answer \in [F -> B] : frames[1] = Snapshot(answer)
         \/ \E e \in About(F) : frames[1] = Update(e)
<1> DEFINE S == Frame(F, B)
<1>1. frames \in Seq(S)  BY DEF FramesAreReal
<1>2. frames[1] \in S
  <2> HIDE DEF S
  <2>1. QED  BY <1>1
<1>3. QED  BY <1>2 DEF Frame

\* Nothing has happened yet.
LEMMA StreamInvInit ==
  ASSUME NEW F, NEW B, StreamInit
  PROVE  StreamInv /\ FramesAreReal(F, B)
<1>1. /\ LogInit /\ bus = <<>> /\ applied = 0 /\ relayed = 0 /\ conn = "closed"
      /\ connects = 0 /\ frames = <<>> /\ from = 0
  BY DEF StreamInit
<1>2. aligned \in BOOLEAN /\ intact \in BOOLEAN  BY DEF StreamInit
<1>3. LogInv  BY <1>1, LogInvInit
<1>4. StreamTypes  BY <1>1, <1>2, <1>3, StreamAssumption DEF StreamTypes, LogInv
<1>5. RecordsAreReal  BY <1>1 DEF LogInit, RecordsAreReal
<1>6. FramesAreReal(F, B)  BY <1>1 DEF FramesAreReal
<1>7. QED  BY <1>3, <1>4, <1>5, <1>6 DEF StreamInv

-----------------------------------------------------------------------------
(* A match as its events unfold it. *)

\* What an event makes of what a page shows of match m.
Step(m, body, e) == IF e.match = m THEN PageReduce(body, e) ELSE body

\* g[k] is match m after the first k events of q, from the b-th to the n-th.
Trajectory(m, g, q, b, n) == /\ \A k \in b .. n : g[k] \in PageBody
                             /\ \A k \in b + 1 .. n : g[k] = Step(m, g[k - 1], q[k])

LEMMA StepType ==
  ASSUME NEW m, NEW body \in PageBody, NEW e \in Events
  PROVE  Step(m, body, e) \in PageBody
BY PageReduceType, EventsAssumption DEF Step

\* f is g and one more event.
Continues(f, g, m, q, b, n) == /\ Trajectory(m, f, q, b, n + 1)
                               /\ \A k \in b .. n : f[k] = g[k]

LEMMA TrajectoryNext ==
  ASSUME NEW m, NEW q \in Seq(Events), NEW b \in Nat, NEW n \in Nat, b <= n, n < Len(q),
         NEW g, Trajectory(m, g, q, b, n)
  PROVE  \E f : Continues(f, g, m, q, b, n)
<1> DEFINE next == Step(m, g[n], q[n + 1])
           f == [k \in b .. n + 1 |-> IF k = n + 1 THEN next ELSE g[k]]
<1>1. q[n + 1] \in Events  OBVIOUS
<1>2. next \in PageBody  BY <1>1, StepType DEF Trajectory
<1>3. \A k \in b .. n : f[k] = g[k]  OBVIOUS
<1>4. f[n + 1] = next  OBVIOUS
<1>5. \A k \in b .. n + 1 : f[k] \in PageBody
  <2> HIDE DEF f, next
  <2>1. QED  BY <1>2, <1>3, <1>4 DEF Trajectory
<1>6. \A k \in b + 1 .. n + 1 : f[k] = Step(m, f[k - 1], q[k])
  <2> SUFFICES ASSUME NEW k \in b + 1 .. n + 1 PROVE f[k] = Step(m, f[k - 1], q[k])  OBVIOUS
  <2> HIDE DEF f
  <2>1. k - 1 \in b .. n  OBVIOUS
  <2>2. CASE k = n + 1  BY <1>3, <1>4, <2>1, <2>2
  <2>3. CASE k \in b + 1 .. n  BY <1>3, <2>1, <2>3 DEF Trajectory
  <2>4. QED  BY <2>2, <2>3
<1>7. Continues(f, g, m, q, b, n)  BY <1>3, <1>5, <1>6 DEF Continues, Trajectory
<1>8. QED  BY <1>7

\* From every body there is one, for as many events as were published.
Starting(g, m, q, b, body) == Trajectory(m, g, q, b, Len(q)) /\ g[b] = body

LEMMA TrajectoryExists ==
  ASSUME NEW m, NEW q \in Seq(Events), NEW b \in Nat, b <= Len(q), NEW body \in PageBody
  PROVE  \E g : Starting(g, m, q, b, body)
<1> DEFINE S == {d \in Nat : b + d <= Len(q) =>
                               \E g : Trajectory(m, g, q, b, b + d) /\ g[b] = body}
<1>1. 0 \in S
  <2> DEFINE g == [k \in {b} |-> body]
  <2>1. Trajectory(m, g, q, b, b + 0) /\ g[b] = body  BY DEF Trajectory
  <2> HIDE DEF g
  <2>2. QED  BY <2>1
<1>2. ASSUME NEW d \in Nat, d \in S PROVE d + 1 \in S
  <2> SUFFICES ASSUME b + (d + 1) <= Len(q)
               PROVE  \E g : Trajectory(m, g, q, b, b + (d + 1)) /\ g[b] = body
    OBVIOUS
  <2>1. PICK g : Trajectory(m, g, q, b, b + d) /\ g[b] = body  BY <1>2
  <2> DEFINE n == b + d
  <2>2. n \in Nat /\ b <= n /\ n < Len(q) /\ n + 1 = b + (d + 1) /\ Trajectory(m, g, q, b, n)
    BY <2>1
  <2> HIDE DEF n
  <2>3. PICK f : Continues(f, g, m, q, b, n)  BY <2>2, TrajectoryNext
  <2>4. f[b] = body  BY <2>1, <2>2, <2>3 DEF Continues
  <2>5. QED  BY <2>2, <2>3, <2>4 DEF Continues
<1>3. Nat \subseteq S
  <2> HIDE DEF S
  <2>1. QED  BY <1>1, <1>2, NatInSet
<1>4. Len(q) - b \in Nat /\ b + (Len(q) - b) = Len(q)  OBVIOUS
<1>5. QED  BY <1>3, <1>4 DEF Starting

\* It is known further when an event is published.
LEMMA TrajectoryGrows ==
  ASSUME NEW m, NEW q \in Seq(Events), NEW e \in Events, NEW b \in Nat, b <= Len(q),
         NEW g, Trajectory(m, g, q, b, Len(q))
  PROVE  \E f : Continues(f, g, m, Append(q, e), b, Len(q))
<1> DEFINE r == Append(q, e)
<1>1. r \in Seq(Events) /\ Len(r) = Len(q) + 1 /\ \A k \in 1 .. Len(q) : r[k] = q[k]
  OBVIOUS
<1> HIDE DEF r
<1>2. b + 1 .. Len(q) \subseteq 1 .. Len(q)  OBVIOUS
<1>3. Trajectory(m, g, r, b, Len(q))  BY <1>1, <1>2 DEF Trajectory
<1>4. Len(q) \in Nat /\ Len(q) < Len(r)  BY <1>1
<1>5. PICK f : Continues(f, g, m, r, b, Len(q))  BY <1>1, <1>3, <1>4, TrajectoryNext
<1>6. QED  BY <1>5 DEF r

\* It stands still while nothing happens in the match.
NothingOf(m, q, h, k) == \A i \in h + 1 .. k : q[i].match # m

LEMMA TrajectoryRests ==
  ASSUME NEW m, NEW q \in Seq(Events), NEW b \in Nat, NEW n \in Nat,
         NEW g, Trajectory(m, g, q, b, n),
         NEW h \in b .. n, NEW k \in h .. n, NothingOf(m, q, h, k)
  PROVE  g[k] = g[h]
<1> DEFINE S == {d \in Nat : h + d <= k => g[h + d] = g[h]}
<1>1. 0 \in S  OBVIOUS
<1>2. ASSUME NEW d \in Nat, d \in S PROVE d + 1 \in S
  <2> SUFFICES ASSUME h + (d + 1) <= k PROVE g[h + (d + 1)] = g[h]  OBVIOUS
  <2> DEFINE j == h + (d + 1)
  <2>1. j \in b + 1 .. n /\ j \in h + 1 .. k /\ j - 1 = h + d /\ h + d <= k  OBVIOUS
  <2>2. g[h + d] = g[h]  BY <1>2, <2>1
  <2> HIDE DEF j
  <2>3. g[j] = Step(m, g[j - 1], q[j])  BY <2>1 DEF Trajectory
  <2>4. g[j] = g[j - 1]  BY <2>1, <2>3 DEF Step, NothingOf
  <2>5. QED  BY <2>1, <2>2, <2>4 DEF j
<1>3. Nat \subseteq S
  <2> HIDE DEF S
  <2>1. QED  BY <1>1, <1>2, NatInSet
<1>4. k - h \in Nat /\ h + (k - h) = k  OBVIOUS
<1>5. QED  BY <1>3, <1>4

\* The next event of the match moves it.
LEMMA TrajectoryMoves ==
  ASSUME NEW m, NEW q \in Seq(Events), NEW b \in Nat, NEW n \in Nat,
         NEW g, Trajectory(m, g, q, b, n),
         NEW h \in b .. n, NEW k \in h + 1 .. n, NothingOf(m, q, h, k - 1)
  PROVE  g[k] = Step(m, g[h], q[k])
<1> DEFINE prev == k - 1
<1>1. prev \in h .. n /\ k \in b + 1 .. n  OBVIOUS
<1>2. g[k] = Step(m, g[prev], q[k])  BY <1>1 DEF Trajectory
<1>3. NothingOf(m, q, h, prev)  OBVIOUS
<1> HIDE DEF prev
<1>4. g[prev] = g[h]  BY <1>1, <1>3, TrajectoryRests
<1>5. QED  BY <1>2, <1>4

-----------------------------------------------------------------------------
(* The updates under way to the page: after the first o frames, they are the  *)
(* events that it follows among bus(h .. r], at the positions pos.               *)

PendingAt(pos, F, fr, o, q, h, r) ==
  /\ \A i \in 1 .. Len(fr) - o : pos[i] \in h + 1 .. r /\ fr[o + i] = Update(q[pos[i]])
  /\ \A i, j \in 1 .. Len(fr) - o : i < j => pos[i] < pos[j]
  /\ \A k \in h + 1 .. r : q[k].match \in F <=> \E i \in 1 .. Len(fr) - o : pos[i] = k

Pending(F, fr, o, q, h, r) == \E pos : PendingAt(pos, F, fr, o, q, h, r)

LEMMA PendingNone ==
  ASSUME NEW F, NEW q, NEW r \in Nat
  PROVE  Pending(F, <<>>, 0, q, r, r)
<1>1. PendingAt(<<>>, F, <<>>, 0, q, r, r)  BY DEF PendingAt
<1>2. QED  BY <1>1 DEF Pending

\* The next event is followed, and relayed.
LEMMA PendingRelayed ==
  ASSUME NEW F, NEW S, NEW fr \in Seq(S), NEW o \in {0, 1}, o <= Len(fr), NEW q,
         NEW h \in Nat, NEW r \in Nat, h <= r,
         Pending(F, fr, o, q, h, r), q[r + 1].match \in F, Update(q[r + 1]) \in S
  PROVE  Pending(F, Append(fr, Update(q[r + 1])), o, q, h, r + 1)
<1> DEFINE n == Len(fr) - o
           u == Update(q[r + 1])
           long == Append(fr, u)
<1>1. PICK pos : PendingAt(pos, F, fr, o, q, h, r)  BY DEF Pending
<1> DEFINE more == [i \in 1 .. n + 1 |-> IF i = n + 1 THEN r + 1 ELSE pos[i]]
<1>2. n \in Nat /\ Len(long) - o = n + 1 /\ long[o + (n + 1)] = u
      /\ \A i \in 1 .. n : long[o + i] = fr[o + i]
  OBVIOUS
<1>3. more[n + 1] = r + 1 /\ \A i \in 1 .. n : more[i] = pos[i]  BY <1>2
<1>4. /\ \A i \in 1 .. n : pos[i] \in h + 1 .. r /\ fr[o + i] = Update(q[pos[i]])
      /\ \A i, j \in 1 .. n : i < j => pos[i] < pos[j]
      /\ \A k \in h + 1 .. r : q[k].match \in F <=> \E i \in 1 .. n : pos[i] = k
  BY <1>1 DEF PendingAt
<1> HIDE DEF more, long, n
<1>5. 1 .. n + 1 = (1 .. n) \cup {n + 1} /\ h + 1 .. r + 1 = (h + 1 .. r) \cup {r + 1}
      /\ r + 1 \notin h + 1 .. r
  BY <1>2
<1>6. \A i \in 1 .. n + 1 : more[i] \in h + 1 .. r + 1 /\ long[o + i] = Update(q[more[i]])
  BY <1>2, <1>3, <1>4, <1>5
<1>7. \A i, j \in 1 .. n + 1 : i < j => more[i] < more[j]
  <2> SUFFICES ASSUME NEW i \in 1 .. n + 1, NEW j \in 1 .. n + 1, i < j
               PROVE  more[i] < more[j]
    OBVIOUS
  <2>1. i \in 1 .. n  BY <1>2
  <2>2. CASE j \in 1 .. n  BY <1>3, <1>4, <2>1, <2>2
  <2>3. CASE j = n + 1  BY <1>3, <1>4, <2>1, <2>3
  <2>4. QED  BY <1>5, <2>2, <2>3
<1>8. \A k \in h + 1 .. r + 1 : q[k].match \in F <=> \E i \in 1 .. n + 1 : more[i] = k
  <2> SUFFICES ASSUME NEW k \in h + 1 .. r + 1
               PROVE  q[k].match \in F <=> \E i \in 1 .. n + 1 : more[i] = k
    OBVIOUS
  <2>1. CASE k = r + 1  BY <1>2, <1>3, <1>5, <2>1
  <2>2. CASE k \in h + 1 .. r
    <3>1. k # r + 1  BY <1>5, <2>2
    <3>2. (\E i \in 1 .. n + 1 : more[i] = k) <=> (\E i \in 1 .. n : pos[i] = k)
      BY <1>3, <1>5, <3>1
    <3>3. QED  BY <1>4, <2>2, <3>2
  <2>3. QED  BY <1>5, <2>1, <2>2
<1>9. PendingAt(more, F, long, o, q, h, r + 1)
  BY <1>2, <1>6, <1>7, <1>8 DEF PendingAt
<1>10. QED  BY <1>9 DEF Pending, long

\* It is not followed.
LEMMA PendingPassed ==
  ASSUME NEW F, NEW fr, NEW o, NEW q, NEW h \in Nat, NEW r \in Nat, h <= r,
         Pending(F, fr, o, q, h, r), q[r + 1].match \notin F
  PROVE  Pending(F, fr, o, q, h, r + 1)
<1>1. PICK pos : PendingAt(pos, F, fr, o, q, h, r)  BY DEF Pending
<1>2. h + 1 .. r + 1 = (h + 1 .. r) \cup {r + 1} /\ r + 1 \notin h + 1 .. r  OBVIOUS
<1>3. \A k \in h + 1 .. r + 1 :
        q[k].match \in F <=> \E i \in 1 .. Len(fr) - o : pos[i] = k
  BY <1>1, <1>2 DEF PendingAt
<1>4. PendingAt(pos, F, fr, o, q, h, r + 1)  BY <1>1, <1>2, <1>3 DEF PendingAt
<1>5. QED  BY <1>4 DEF Pending

\* What is published does not change what was.
LEMMA PendingGrows ==
  ASSUME NEW F, NEW fr, NEW o, NEW q \in Seq(Events), NEW e \in Events, NEW h \in Nat,
         NEW r \in 0 .. Len(q), Pending(F, fr, o, q, h, r)
  PROVE  Pending(F, fr, o, Append(q, e), h, r)
<1> DEFINE long == Append(q, e)
<1>1. \A k \in h + 1 .. r : long[k] = q[k]  OBVIOUS
<1> HIDE DEF long
<1>2. PICK pos : PendingAt(pos, F, fr, o, q, h, r)  BY DEF Pending
<1>3. PendingAt(pos, F, fr, o, long, h, r)  BY <1>1, <1>2 DEF PendingAt
<1>4. QED  BY <1>3 DEF Pending, long

\* The snapshot is put before them.
LEMMA PendingBehind ==
  ASSUME NEW F, NEW S, NEW fr \in Seq(S), NEW s \in S, NEW q, NEW h, NEW r,
         Pending(F, fr, 0, q, h, r)
  PROVE  Pending(F, <<s>> \o fr, 1, q, h, r)
<1> DEFINE long == <<s>> \o fr
<1>1. Len(long) - 1 = Len(fr) - 0 /\ \A i \in 1 .. Len(fr) - 0 : long[1 + i] = fr[0 + i]
  OBVIOUS
<1> HIDE DEF long
<1>2. PICK pos : PendingAt(pos, F, fr, 0, q, h, r)  BY DEF Pending
<1>3. PendingAt(pos, F, long, 1, q, h, r)  BY <1>1, <1>2 DEF PendingAt
<1>4. QED  BY <1>3 DEF Pending, long

\* And taken.
LEMMA PendingShown ==
  ASSUME NEW F, NEW S, NEW fr \in Seq(S), fr # <<>>, NEW q, NEW h, NEW r, Pending(F, fr, 1, q, h, r)
  PROVE  Pending(F, Tail(fr), 0, q, h, r)
<1> DEFINE rest == Tail(fr)
<1>1. Len(rest) - 0 = Len(fr) - 1 /\ \A i \in 1 .. Len(fr) - 1 : rest[0 + i] = fr[1 + i]
  OBVIOUS
<1> HIDE DEF rest
<1>2. PICK pos : PendingAt(pos, F, fr, 1, q, h, r)  BY DEF Pending
<1>3. PendingAt(pos, F, rest, 0, q, h, r)  BY <1>1, <1>2 DEF PendingAt
<1>4. QED  BY <1>3 DEF Pending, rest

\* The k-th event is the first of them, and the next that is followed.
NextIs(k, F, fr, q, h, r) == /\ fr[1] = Update(q[k]) /\ q[k].match \in F
                             /\ \A i \in h + 1 .. k - 1 : q[i].match \notin F
                             /\ Pending(F, Tail(fr), 0, q, k, r)

LEMMA PendingNext ==
  ASSUME NEW F, NEW S, NEW fr \in Seq(S), fr # <<>>, NEW q, NEW h \in Nat, NEW r \in Nat,
         Pending(F, fr, 0, q, h, r)
  PROVE  \E k \in h + 1 .. r : NextIs(k, F, fr, q, h, r)
<1> DEFINE n == Len(fr)
           rest == Tail(fr)
<1>1. PICK pos : PendingAt(pos, F, fr, 0, q, h, r)  BY DEF Pending
<1>2. n \in Nat /\ n >= 1 /\ Len(fr) - 0 = n /\ Len(rest) - 0 = n - 1
      /\ \A i \in 1 .. n - 1 : rest[0 + i] = fr[0 + (i + 1)]
  OBVIOUS
<1>3. /\ \A i \in 1 .. n : pos[i] \in h + 1 .. r /\ fr[0 + i] = Update(q[pos[i]])
      /\ \A i, j \in 1 .. n : i < j => pos[i] < pos[j]
      /\ \A k \in h + 1 .. r : q[k].match \in F <=> \E i \in 1 .. n : pos[i] = k
  BY <1>1, <1>2 DEF PendingAt
<1> HIDE DEF n, rest
<1> DEFINE k == pos[1]
           less == [i \in 1 .. n - 1 |-> pos[i + 1]]
<1>4. 1 \in 1 .. n /\ 0 + 1 = 1  BY <1>2
<1>5. k \in h + 1 .. r /\ fr[1] = Update(q[k]) /\ q[k].match \in F  BY <1>3, <1>4
<1>6. \A i \in 1 .. n - 1 : less[i] = pos[i + 1]  OBVIOUS
<1>7. \A i \in 1 .. n - 1 : i + 1 \in 1 .. n /\ 1 < i + 1  BY <1>2
<1> HIDE DEF k, less
<1>8. \A i \in 2 .. n : k < pos[i]  BY <1>2, <1>3, <1>4 DEF k
<1>9. \A i \in h + 1 .. k - 1 : q[i].match \notin F
  <2> SUFFICES ASSUME NEW i \in h + 1 .. k - 1, q[i].match \in F PROVE FALSE  OBVIOUS
  <2>1. i \in h + 1 .. r /\ i < k  BY <1>5
  <2>2. PICK j \in 1 .. n : pos[j] = i  BY <1>3, <2>1
  <2>3. CASE j = 1  BY <2>1, <2>2, <2>3, <1>5 DEF k
  <2>4. CASE j # 1
    <3>1. j \in 2 .. n  BY <1>2, <2>4
    <3>2. QED  BY <1>5, <1>8, <2>1, <2>2, <3>1
  <2>5. QED  BY <2>3, <2>4
<1>10. \A i \in 1 .. n - 1 : less[i] \in k + 1 .. r /\ rest[0 + i] = Update(q[less[i]])
  <2> SUFFICES ASSUME NEW i \in 1 .. n - 1
               PROVE  less[i] \in k + 1 .. r /\ rest[0 + i] = Update(q[less[i]])
    OBVIOUS
  <2>1. i + 1 \in 1 .. n /\ i + 1 \in 2 .. n  BY <1>2
  <2>2. pos[i + 1] \in h + 1 .. r /\ fr[0 + (i + 1)] = Update(q[pos[i + 1]])  BY <1>3, <2>1
  <2>3. k < pos[i + 1]  BY <1>8, <2>1
  <2>4. QED  BY <1>2, <1>5, <1>6, <2>2, <2>3
<1>11. \A i, j \in 1 .. n - 1 : i < j => less[i] < less[j]
  <2> SUFFICES ASSUME NEW i \in 1 .. n - 1, NEW j \in 1 .. n - 1, i < j
               PROVE  less[i] < less[j]
    OBVIOUS
  <2>1. i + 1 \in 1 .. n /\ j + 1 \in 1 .. n /\ i + 1 < j + 1  BY <1>2
  <2>2. QED  BY <1>3, <1>6, <2>1
<1>12. \A x \in k + 1 .. r : q[x].match \in F <=> \E i \in 1 .. n - 1 : less[i] = x
  <2> SUFFICES ASSUME NEW x \in k + 1 .. r
               PROVE  q[x].match \in F <=> \E i \in 1 .. n - 1 : less[i] = x
    OBVIOUS
  <2>1. x \in h + 1 .. r /\ x > k  BY <1>5
  <2>2. q[x].match \in F <=> \E i \in 1 .. n : pos[i] = x  BY <1>3, <2>1
  <2>3. ASSUME NEW i \in 1 .. n, pos[i] = x  PROVE \E j \in 1 .. n - 1 : less[j] = x
    <3>1. i # 1  BY <1>5, <2>1, <2>3 DEF k
    <3>2. i - 1 \in 1 .. n - 1 /\ (i - 1) + 1 = i  BY <1>2, <3>1
    <3>3. QED  BY <1>6, <2>3, <3>2
  <2>4. ASSUME NEW i \in 1 .. n - 1, less[i] = x  PROVE \E j \in 1 .. n : pos[j] = x
    BY <1>6, <1>7, <2>4
  <2>5. QED  BY <2>2, <2>3, <2>4
<1>13. PendingAt(less, F, rest, 0, q, k, r)
  BY <1>2, <1>10, <1>11, <1>12 DEF PendingAt
<1>14. NextIs(k, F, fr, q, h, r)  BY <1>5, <1>9, <1>13 DEF NextIs, Pending, rest
<1>15. QED  BY <1>5, <1>14

\* When there are none left, nothing is left to come.
LEMMA PendingOver ==
  ASSUME NEW F, NEW q, NEW h, NEW r, Pending(F, <<>>, 0, q, h, r)
  PROVE  \A k \in h + 1 .. r : q[k].match \notin F
BY DEF Pending, PendingAt

-----------------------------------------------------------------------------
(* Where match-service and the page stand in the events published.            *)

\* Match m has had, among the first n events, one numbered last or higher.
Behind(m, last, q, n) == \E j \in 1 .. n : q[j].match = m /\ last <= q[j].sequence

RowsBehind ==
  \A m \in Matches : rows[m] # NoRow => Behind(m, rows[m].lastSequence, bus, applied)

\* Updates come from the gateway.
FramesRelayed(F) ==
  \A i \in DOMAIN frames : frames[i].kind = "update" =>
    \E j \in 1 .. relayed : frames[i].body = bus[j] /\ bus[j].match \in F

\* While the snapshot is awaited, all that was relayed since Register is waiting.
Waiting(F) == conn = "registered" /\ intact => Pending(F, frames, 0, bus, from, relayed)

CourseInv(F) == RowsBehind /\ FramesRelayed(F) /\ Waiting(F)

\* The page has handled what was relayed up to the h-th event, and the rest is
\* under way, behind the snapshot if o is 1.
InStep(F, h, o) == /\ h \in Nat /\ h <= relayed
                   /\ o \in {0, 1} /\ o <= Len(frames)
                   /\ o = 1 => frames[1].kind = "snapshot"
                   /\ Pending(F, frames, o, bus, h, relayed)

\* g goes through the row of m at applied, and what is shown of it at h.
Through(g, b, m, h, shown) == /\ b \in Nat /\ b <= applied /\ b <= h
                              /\ Trajectory(m, g, bus, b, Len(bus))
                              /\ g[applied] = Body(rows[m]) /\ g[h] = shown

\* What is shown of m at h is on one trajectory with its row, and its next event
\* will not be taken for an old one.
OnCourse(m, h, shown, last) == /\ rows[m] # NoRow
                               /\ Behind(m, last, bus, h)
                               /\ \E g, b : Through(g, b, m, h, shown)

-----------------------------------------------------------------------------

LEMMA BehindMore ==
  ASSUME NEW m, NEW last, NEW q, NEW n \in Nat, NEW k \in Nat, n <= k, Behind(m, last, q, n)
  PROVE  Behind(m, last, q, k)
<1>1. 1 .. n \subseteq 1 .. k  OBVIOUS
<1>2. QED  BY <1>1 DEF Behind

LEMMA BehindGrows ==
  ASSUME NEW m, NEW last, NEW q \in Seq(Events), NEW e \in Events, NEW n \in 0 .. Len(q),
         Behind(m, last, q, n)
  PROVE  Behind(m, last, Append(q, e), n)
<1>1. \A j \in 1 .. n : Append(q, e)[j] = q[j]  OBVIOUS
<1>2. QED  BY <1>1 DEF Behind

\* The next event of the match is new.
LEMMA BehindNext ==
  ASSUME StreamTypes, Ascending, NEW m, NEW last \in Nat, NEW n \in 0 .. Len(bus),
         Behind(m, last, bus, n), NEW k \in n + 1 .. Len(bus), bus[k].match = m
  PROVE  last < bus[k].sequence
<1>1. PICK j \in 1 .. n : bus[j].match = m /\ last <= bus[j].sequence  BY DEF Behind
<1>2. j \in DOMAIN bus /\ k \in DOMAIN bus /\ j < k /\ bus[j] \in Events /\ bus[k] \in Events
  BY DEF StreamTypes
<1>3. bus[j].sequence < bus[k].sequence  BY <1>1, <1>2 DEF Ascending
<1>4. bus[j].sequence \in Nat /\ bus[k].sequence \in Nat
  BY <1>2, EventsAssumption DEF Event
<1>5. QED  BY <1>1, <1>3, <1>4

\* match-service follows the trajectory of every match that has a row.
LEMMA ApplyFollows ==
  ASSUME StreamInv, RowsBehind, Apply, NEW m \in Matches
  PROVE  /\ rows'[m] # NoRow => Behind(m, rows'[m].lastSequence, bus', applied')
         /\ Ascending /\ rows[m] # NoRow =>
              Body(rows'[m]) = Step(m, Body(rows[m]), bus[applied + 1])
<1> DEFINE e == bus[applied + 1]
<1>1. /\ applied \in Nat /\ applied + 1 \in 1 .. Len(bus) /\ applied' = applied + 1 /\ bus' = bus
      /\ applied \in 0 .. Len(bus) /\ applied + 1 \in applied + 1 .. Len(bus)
      /\ bus \in Seq(Events)
  BY DEF StreamInv, StreamTypes, Apply
<1>2. e \in Events /\ e \in Event /\ LogTypeOK
  BY <1>1, EventsAssumption DEF StreamInv, LogInv
<1>3. IF e.type = "odds_update" \/ IsStale(e) THEN UNCHANGED logVars ELSE Record(e)
  BY DEF Apply
<1>4. \A last : Behind(m, last, bus, applied) => Behind(m, last, bus', applied')
  BY <1>1, BehindMore
<1> HIDE DEF e
<1>5. CASE UNCHANGED logVars /\ (e.type = "odds_update" \/ IsStale(e))
  <2>1. rows' = rows  BY <1>5 DEF logVars
  <2>2. rows'[m] # NoRow => Behind(m, rows'[m].lastSequence, bus', applied')
    BY <1>4, <2>1 DEF RowsBehind
  <2>3. ASSUME Ascending, rows[m] # NoRow
        PROVE  Body(rows'[m]) = Step(m, Body(rows[m]), e)
    <3>1. CASE e.match # m  BY <2>1, <3>1 DEF Step
    <3>2. CASE e.match = m /\ e.type = "odds_update"
      BY <2>1, <3>2 DEF Step, PageReduce, StatusRules
    <3>3. CASE e.match = m /\ IsStale(e)
      <4>1. rows[m] \in Row  BY <1>2, <2>3 DEF LogTypeOK
      <4>2. rows[m].lastSequence \in Nat  BY <4>1 DEF Row
      <4>3. Behind(m, rows[m].lastSequence, bus, applied)  BY <2>3 DEF RowsBehind
      <4>4. rows[m].lastSequence < e.sequence
        BY <1>1, <2>3, <3>3, <4>2, <4>3, BehindNext DEF StreamInv, e
      <4>5. e.sequence <= rows[m].lastSequence
        BY <2>3, <3>3 DEF IsStale, Stale, LoadOrCreate
      <4>6. e.sequence \in Nat  BY <1>2 DEF Event
      <4>7. QED  BY <4>2, <4>4, <4>5, <4>6
    <3>4. QED  BY <1>5, <3>1, <3>2, <3>3
  <2>4. QED  BY <2>2, <2>3 DEF e
<1>6. CASE Record(e)
  <2>1. /\ e.match \in Matches
        /\ rows'[e.match] = Reduce(LoadOrCreate(rows[e.match], e), e)
        /\ \A x \in Matches \ {e.match} : rows'[x] = rows[x]
    BY <1>2, <1>6, RecordEffect
  <2>2. CASE e.match # m
    <3>1. rows'[m] = rows[m]  BY <2>1, <2>2
    <3>2. rows'[m] # NoRow => Behind(m, rows'[m].lastSequence, bus', applied')
      BY <1>4, <3>1 DEF RowsBehind
    <3>3. QED  BY <2>2, <3>1, <3>2 DEF Step, e
  <2>3. CASE e.match = m
    <3>1. LoadOrCreate(rows[m], e) \in Row
      BY <1>2, LoadOrCreateType DEF LogTypeOK
    <3>2. rows'[m].lastSequence = e.sequence
      BY <1>2, <2>1, <2>3, <3>1, ReduceFields
    <3>3. e.sequence \in Nat  BY <1>2 DEF Event
    <3>4. Behind(m, rows'[m].lastSequence, bus', applied')
      BY <1>1, <2>3, <3>2, <3>3 DEF Behind, e
    <3>5. ASSUME rows[m] # NoRow
          PROVE  Body(rows'[m]) = Step(m, Body(rows[m]), e)
      <4>1. LoadOrCreate(rows[m], e) = rows[m]  BY <3>5 DEF LoadOrCreate
      <4>2. PageReduce(Body(rows[m]), e) = Body(Reduce(rows[m], e))
        BY <1>2, <3>1, <4>1, ReducersAgree
      <4>3. QED  BY <2>1, <2>3, <4>1, <4>2 DEF Step
    <3>6. QED  BY <3>4, <3>5 DEF e
  <2>4. QED  BY <2>2, <2>3
<1>7. QED  BY <1>3, <1>5, <1>6

\* Nothing gets out of step or off course.
KeepsStep(F) == \A h, o : InStep(F, h, o) => InStep(F, h, o)' /\ (o = 1 => frames'[1] = frames[1])

KeepsCourse == \A m \in Matches : \A h \in 0 .. relayed : \A shown, last :
                 OnCourse(m, h, shown, last) => OnCourse(m, h, shown, last)'

LEMMA PublishCourse ==
  ASSUME NEW F, StreamInv, CourseInv(F), NEW e \in Events, Publish(e)
  PROVE  CourseInv(F)' /\ KeepsStep(F) /\ KeepsCourse /\ (Ascending' => Ascending)
<1> DEFINE long == Append(bus, e)
<1>1. /\ bus' = long /\ rows' = rows
      /\ UNCHANGED <<applied, relayed, conn, frames, from, aligned, intact>>
  BY DEF Publish, connVars, logVars
<1>2. /\ bus \in Seq(Events) /\ applied \in 0 .. Len(bus) /\ relayed \in 0 .. Len(bus)
      /\ from \in 0 .. relayed /\ from \in 0 .. Len(bus)
  BY DEF StreamInv, StreamTypes
<1>3. Len(long) = Len(bus) + 1 /\ \A j \in DOMAIN bus : j \in DOMAIN long /\ long[j] = bus[j]
  BY <1>2
<1>4. ASSUME NEW m, NEW last, NEW n \in 0 .. Len(bus), Behind(m, last, bus, n)
      PROVE  Behind(m, last, long, n)
  BY <1>2, <1>4, BehindGrows
<1>5. ASSUME NEW o, NEW h \in Nat, Pending(F, frames, o, bus, h, relayed)
      PROVE  Pending(F, frames, o, long, h, relayed)
  BY <1>2, <1>5, PendingGrows
<1>6. ASSUME NEW m, NEW b \in Nat, b <= Len(bus), NEW g, Trajectory(m, g, bus, b, Len(bus))
      PROVE  \E f : Continues(f, g, m, long, b, Len(bus))
  BY <1>2, <1>6, TrajectoryGrows
<1> HIDE DEF long
<1>7. RowsBehind'  BY <1>1, <1>2, <1>4 DEF CourseInv, RowsBehind
<1>8. FramesRelayed(F)'
  <2>1. \A j \in 1 .. relayed : long[j] = bus[j]  BY <1>2, <1>3
  <2>2. QED  BY <1>1, <2>1 DEF CourseInv, FramesRelayed
<1>9. Waiting(F)'
  <2>1. from \in Nat  BY <1>2
  <2>2. QED  BY <1>1, <1>5, <2>1 DEF CourseInv, Waiting
<1>10. KeepsStep(F)  BY <1>1, <1>5 DEF KeepsStep, InStep
<1>11. KeepsCourse
  <2> SUFFICES ASSUME NEW m \in Matches, NEW h \in 0 .. relayed, NEW shown, NEW last,
                      OnCourse(m, h, shown, last)
               PROVE  OnCourse(m, h, shown, last)'
    BY DEF KeepsCourse
  <2>1. PICK g, b : Through(g, b, m, h, shown)  BY DEF OnCourse
  <2>2. b \in Nat /\ b <= Len(bus) /\ applied \in b .. Len(bus) /\ h \in b .. Len(bus)
    BY <1>2, <2>1 DEF Through
  <2>3. PICK f : Continues(f, g, m, long, b, Len(bus))
    BY <1>6, <2>1, <2>2 DEF Through
  <2>4. Trajectory(m, f, long, b, Len(long)) /\ f[applied] = g[applied] /\ f[h] = g[h]
    BY <1>3, <2>2, <2>3 DEF Continues
  <2>5. Through(f, b, m, h, shown)'  BY <1>1, <2>1, <2>4 DEF Through
  <2>6. h \in 0 .. Len(bus)  BY <1>2
  <2>7. Behind(m, last, bus', h)  BY <1>1, <1>4, <2>6 DEF OnCourse
  <2>8. QED  BY <1>1, <2>5, <2>7 DEF OnCourse
<1>12. Ascending' => Ascending  BY <1>1, <1>3 DEF Ascending
<1>13. QED  BY <1>7, <1>8, <1>9, <1>10, <1>11, <1>12 DEF CourseInv

LEMMA ApplyCourse ==
  ASSUME NEW F, StreamInv, CourseInv(F), Apply
  PROVE  CourseInv(F)' /\ KeepsStep(F) /\ (Ascending => KeepsCourse)
<1>1. /\ applied < Len(bus) /\ applied' = applied + 1
      /\ UNCHANGED <<bus, relayed, conn, frames, from, aligned, intact>>
  BY DEF Apply, connVars
<1>2. /\ applied \in Nat /\ Len(bus) \in Nat  BY DEF StreamInv, StreamTypes
<1>3. RowsBehind'  BY ApplyFollows DEF CourseInv, RowsBehind
<1>4. FramesRelayed(F)' /\ Waiting(F)'  BY <1>1 DEF CourseInv, FramesRelayed, Waiting
<1>5. KeepsStep(F)  BY <1>1 DEF KeepsStep, InStep
<1>6. ASSUME Ascending, NEW m \in Matches, NEW h \in 0 .. relayed, NEW shown, NEW last,
             OnCourse(m, h, shown, last)
      PROVE  OnCourse(m, h, shown, last)'
  <2>1. PICK g, b : Through(g, b, m, h, shown)  BY <1>6 DEF OnCourse
  <2>2. Body(rows'[m]) = Step(m, Body(rows[m]), bus[applied + 1])
    BY <1>6, ApplyFollows DEF OnCourse, CourseInv
  <2>3. b \in Nat /\ b <= applied /\ applied + 1 \in b + 1 .. Len(bus) /\ (applied + 1) - 1 = applied
    BY <1>1, <1>2, <2>1 DEF Through
  <2>4. g[applied + 1] = Step(m, g[applied], bus[applied + 1])
    BY <2>1, <2>3 DEF Through, Trajectory
  <2>5. g[applied'] = Body(rows'[m]) /\ b <= applied'
    BY <1>1, <1>2, <2>1, <2>2, <2>3, <2>4 DEF Through
  <2>6. Through(g, b, m, h, shown)'  BY <1>1, <2>1, <2>5 DEF Through
  <2>7. rows'[m] # NoRow  BY <1>6, ApplyStep DEF OnCourse
  <2>8. QED  BY <1>1, <1>6, <2>6, <2>7 DEF OnCourse
<1>7. QED  BY <1>3, <1>4, <1>5, <1>6 DEF CourseInv, KeepsCourse

LEMMA LostCourse ==
  ASSUME NEW F, StreamInv, CourseInv(F), Miss \/ Drop
  PROVE  CourseInv(F)'
<1>1. /\ rows' = rows /\ intact' = FALSE
      /\ UNCHANGED <<bus, conn, frames, from>>
      /\ applied' \in {applied, applied + 1} /\ relayed' \in {relayed, relayed + 1}
  BY DEF Miss, Drop, logVars
<1>2. applied \in Nat /\ relayed \in Nat
  BY DEF StreamInv, StreamTypes
<1>3. \A m, last : Behind(m, last, bus, applied) => Behind(m, last, bus, applied')
  BY <1>1, <1>2, BehindMore
<1>4. RowsBehind'  BY <1>1, <1>3 DEF CourseInv, RowsBehind
<1>5. FramesRelayed(F)'
  <2>1. 1 .. relayed \subseteq 1 .. relayed'  BY <1>1, <1>2
  <2>2. QED  BY <1>1, <2>1 DEF CourseInv, FramesRelayed
<1>6. Waiting(F)'  BY <1>1 DEF Waiting
<1>7. QED  BY <1>4, <1>5, <1>6 DEF CourseInv

LEMMA RelayCourse ==
  ASSUME NEW F, NEW B, StreamInv, FramesAreReal(F, B), CourseInv(F), Relay(F)
  PROVE  CourseInv(F)' /\ (Connected => KeepsStep(F)) /\ KeepsCourse
<1> DEFINE e == bus[relayed + 1]
           u == Update(e)
           S == Frame(F, B)
<1>1. /\ relayed < Len(bus) /\ relayed' = relayed + 1 /\ rows' = rows
      /\ UNCHANGED <<bus, applied, conn, from, aligned, intact>>
      /\ frames' = IF Connected /\ e.match \in F THEN Append(frames, u) ELSE frames
  BY DEF Relay, logVars
<1>2. /\ relayed \in Nat /\ from \in Nat /\ from <= relayed
      /\ relayed + 1 \in 1 .. Len(bus) /\ e \in Published
  BY <1>1 DEF StreamInv, StreamTypes, Published
<1>3. frames \in Seq(S) /\ (e.match \in F => u \in S)
  BY <1>2 DEF FramesAreReal, Frame, About
<1>4. ASSUME Connected, NEW o \in {0, 1}, o <= Len(frames), NEW h \in Nat, h <= relayed,
             Pending(F, frames, o, bus, h, relayed)
      PROVE  Pending(F, frames', o, bus, h, relayed')
  <2> HIDE DEF S
  <2>1. CASE e.match \in F
    <3>1. frames' = Append(frames, Update(e))  BY <1>1, <1>4, <2>1
    <3>2. Pending(F, Append(frames, Update(e)), o, bus, h, relayed + 1)
      BY <1>2, <1>3, <1>4, <2>1, PendingRelayed
    <3>3. QED  BY <1>1, <3>1, <3>2
  <2>2. CASE e.match \notin F
    <3>1. frames' = frames  BY <1>1, <2>2
    <3>2. QED  BY <1>1, <1>2, <1>4, <2>2, <3>1, PendingPassed
  <2>3. QED  BY <2>1, <2>2
<1>5. /\ Len(frames) <= Len(frames') /\ Len(frames) \in Nat /\ Len(frames') \in Nat
      /\ \A i \in DOMAIN frames : frames'[i] = frames[i]
      /\ \A i \in DOMAIN frames' \ DOMAIN frames : frames'[i] = u /\ e.match \in F
  <2>1. frames' = frames \/ (e.match \in F /\ frames' = Append(frames, u))
    BY <1>1
  <2> HIDE DEF S, u, e
  <2>2. CASE frames' = frames  BY <1>3, <2>2
  <2>3. CASE e.match \in F /\ frames' = Append(frames, u)  BY <1>3, <2>3
  <2>4. QED  BY <2>1, <2>2, <2>3
<1> HIDE DEF S
<1>6. RowsBehind'  BY <1>1 DEF CourseInv, RowsBehind
<1>7. FramesRelayed(F)'
  <2>1. 1 .. relayed \subseteq 1 .. relayed' /\ relayed + 1 \in 1 .. relayed'  BY <1>1, <1>2
  <2>2. ASSUME NEW i \in DOMAIN frames', frames'[i].kind = "update"
        PROVE  \E j \in 1 .. relayed' : frames'[i].body = bus[j] /\ bus[j].match \in F
    <3>1. CASE i \in DOMAIN frames
      BY <1>5, <2>1, <2>2, <3>1 DEF CourseInv, FramesRelayed
    <3>2. CASE i \notin DOMAIN frames
      <4>1. frames'[i].body = e /\ e.match \in F  BY <1>5, <2>2, <3>2 DEF Update
      <4>2. QED  BY <2>1, <4>1
    <3>3. QED  BY <3>1, <3>2
  <2>3. QED  BY <1>1, <2>2 DEF FramesRelayed
<1>8. Waiting(F)'
  <2> SUFFICES ASSUME conn = "registered", intact
               PROVE  Pending(F, frames', 0, bus, from, relayed')
    BY <1>1 DEF Waiting
  <2>1. Pending(F, frames, 0, bus, from, relayed)  BY DEF CourseInv, Waiting
  <2>2. Connected /\ 0 <= Len(frames)  BY <1>5 DEF Connected
  <2>3. QED  BY <1>2, <1>4, <2>1, <2>2
<1>9. ASSUME Connected, NEW h, NEW o, InStep(F, h, o)
      PROVE  InStep(F, h, o)' /\ (o = 1 => frames'[1] = frames[1])
  <2>1. h \in Nat /\ h <= relayed /\ o \in {0, 1} /\ o <= Len(frames)
        /\ Pending(F, frames, o, bus, h, relayed)
    BY <1>9 DEF InStep
  <2>2. Pending(F, frames', o, bus, h, relayed')  BY <1>4, <1>9, <2>1
  <2>3. h <= relayed' /\ o <= Len(frames') /\ (o = 1 => frames'[1] = frames[1])
    BY <1>1, <1>2, <1>5, <2>1
  <2>4. QED  BY <1>1, <1>9, <2>1, <2>2, <2>3 DEF InStep
<1>10. Connected => KeepsStep(F)  BY <1>9 DEF KeepsStep
<1>11. KeepsCourse
  <2> SUFFICES ASSUME NEW m \in Matches, NEW h \in 0 .. relayed, NEW shown, NEW last,
                      OnCourse(m, h, shown, last)
               PROVE  OnCourse(m, h, shown, last)'
    BY DEF KeepsCourse
  <2>1. PICK g, b : Through(g, b, m, h, shown)  BY DEF OnCourse
  <2>2. Through(g, b, m, h, shown)'  BY <1>1, <2>1 DEF Through
  <2>3. QED  BY <1>1, <2>2 DEF OnCourse
<1>12. QED  BY <1>6, <1>7, <1>8, <1>10, <1>11 DEF CourseInv

LEMMA SnapshotCourse ==
  ASSUME NEW F, NEW B, StreamInv, FramesAreReal(F, B), CourseInv(F),
         Answer(F) \in [F -> B], WriteSnapshot(F)
  PROVE  CourseInv(F)' /\ frames'[1] = Snapshot(Answer(F))
<1> DEFINE S == Frame(F, B)
           first == Snapshot(Answer(F))
           long == <<first>> \o frames
<1>1. /\ conn' = "streaming" /\ rows' = rows /\ frames' = long
      /\ UNCHANGED <<bus, applied, relayed>>
  BY DEF WriteSnapshot, logVars
<1>2. first.kind = "snapshot"  BY DEF Snapshot
<1>3. frames \in Seq(S) /\ first \in S  BY DEF FramesAreReal, Frame
<1> HIDE DEF S, first
<1>4. /\ long[1] = first
      /\ \A i \in DOMAIN long : i = 1 \/ (i - 1 \in DOMAIN frames /\ long[i] = frames[i - 1])
  BY <1>3
<1> HIDE DEF long
<1>5. RowsBehind'  BY <1>1 DEF CourseInv, RowsBehind
<1>6. FramesRelayed(F)'  BY <1>1, <1>2, <1>4 DEF CourseInv, FramesRelayed
<1>7. Waiting(F)'  BY <1>1 DEF Waiting
<1>8. QED  BY <1>1, <1>4, <1>5, <1>6, <1>7 DEF CourseInv, first

\* The snapshot of an aligned connection puts what it shows on course.
Starts(F, h) == /\ h = from /\ h \in 0 .. relayed /\ InStep(F, h, 1)'
                /\ \A m \in Matches : rows[m] # NoRow => Behind(m, rows[m].lastSequence, bus, h)
                /\ \A m \in Matches : \A shown, last :
                     rows[m] # NoRow /\ shown = Body(rows[m]) /\ Behind(m, last, bus, h) =>
                       OnCourse(m, h, shown, last)'

LEMMA SnapshotStarts ==
  ASSUME NEW F, NEW B, StreamInv, FramesAreReal(F, B), CourseInv(F),
         Answer(F) \in [F -> B], WriteSnapshot(F), aligned', intact'
  PROVE  \E h : Starts(F, h)
<1> DEFINE S == Frame(F, B)
           first == Snapshot(Answer(F))
           long == <<first>> \o frames
<1>1. /\ conn = "registered" /\ rows' = rows /\ frames' = long /\ applied = from /\ intact
      /\ UNCHANGED <<bus, applied, relayed>>
  BY DEF WriteSnapshot, logVars
<1>2. /\ bus \in Seq(Events) /\ Len(bus) \in Nat /\ applied \in 0 .. Len(bus)
      /\ relayed \in 0 .. Len(bus) /\ from \in 0 .. relayed
  BY DEF StreamInv, StreamTypes
<1>3. first.kind = "snapshot"  BY DEF Snapshot
<1>4. frames \in Seq(S) /\ first \in S  BY DEF FramesAreReal, Frame
<1>5. PICK h : h = from  OBVIOUS
<1>6. h \in Nat /\ h <= relayed /\ h <= Len(bus) /\ applied = h
  BY <1>1, <1>2, <1>5
<1>7. Pending(F, frames, 0, bus, h, relayed)  BY <1>1, <1>5 DEF CourseInv, Waiting
<1> HIDE DEF S, first
<1>8. Len(long) = Len(frames) + 1 /\ 1 <= Len(long) /\ long[1] = first  BY <1>4
<1>9. Pending(F, long, 1, bus, h, relayed)  BY <1>4, <1>7, PendingBehind
<1> HIDE DEF long
<1>10. InStep(F, h, 1)'  BY <1>1, <1>3, <1>6, <1>8, <1>9 DEF InStep
<1>11. ASSUME NEW m \in Matches, NEW shown, NEW last,
              rows[m] # NoRow, shown = Body(rows[m]), Behind(m, last, bus, h)
       PROVE  OnCourse(m, h, shown, last)'
  <2>1. rows[m] \in Row  BY <1>11 DEF StreamInv, LogInv, LogTypeOK
  <2>2. shown \in PageBody  BY <1>11, <2>1, BodyType
  <2>3. PICK g : Starting(g, m, bus, h, shown)
    BY <1>2, <1>6, <2>2, TrajectoryExists
  <2>4. Through(g, h, m, h, shown)'  BY <1>1, <1>6, <1>11, <2>3 DEF Through, Starting
  <2>5. QED  BY <1>1, <1>11, <2>4 DEF OnCourse
<1>12. \A m \in Matches : rows[m] # NoRow => Behind(m, rows[m].lastSequence, bus, h)
  BY <1>6 DEF CourseInv, RowsBehind
<1>13. Starts(F, h)  BY <1>2, <1>5, <1>10, <1>11, <1>12 DEF Starts
<1>14. QED  BY <1>13

LEMMA OverCourse ==
  ASSUME NEW F, CourseInv(F), Refuse \/ Disconnect
  PROVE  CourseInv(F)' /\ conn' # "streaming"
<1>1. /\ rows' = rows /\ conn' \in {"refused", "closed"} /\ frames' = <<>>
      /\ UNCHANGED <<bus, applied, relayed>>
  BY DEF Refuse, Disconnect, Over, logVars
<1>2. QED  BY <1>1 DEF CourseInv, RowsBehind, FramesRelayed, Waiting

LEMMA ElsewhereCourse ==
  ASSUME NEW F, NEW B, StreamInv, FramesAreReal(F, B), CourseInv(F), Elsewhere(F),
         WriteSnapshot(F) => Answer(F) \in [F -> B]
  PROVE  CourseInv(F)'
BY PublishCourse, ApplyCourse, LostCourse, RelayCourse, SnapshotCourse, OverCourse DEF Elsewhere

\* Unless something is lost, a connection that streams stays in step and on course.
LEMMA ElsewhereKeeps ==
  ASSUME NEW F, NEW B, StreamInv, FramesAreReal(F, B), CourseInv(F), Elsewhere(F),
         conn = "streaming", conn' = "streaming", intact', Ascending'
  PROVE  aligned' = aligned /\ intact /\ Ascending /\ KeepsStep(F) /\ KeepsCourse
<1>1. CASE \E e \in Events : Publish(e)
  <2>1. aligned' = aligned /\ intact  BY <1>1 DEF Publish, connVars
  <2>2. QED  BY <1>1, <2>1, PublishCourse
<1>2. CASE Apply
  <2>1. aligned' = aligned /\ intact /\ bus' = bus  BY <1>2 DEF Apply, connVars
  <2>2. Ascending  BY <2>1 DEF Ascending
  <2>3. QED  BY <1>2, <2>1, <2>2, ApplyCourse
<1>3. CASE Relay(F)
  <2>1. aligned' = aligned /\ intact /\ bus' = bus  BY <1>3 DEF Relay
  <2>2. Ascending /\ Connected  BY <2>1 DEF Ascending, Connected
  <2>3. QED  BY <1>3, <2>1, <2>2, RelayCourse
<1>4. CASE Miss \/ Drop  BY <1>4 DEF Miss, Drop
<1>5. CASE WriteSnapshot(F)  BY <1>5 DEF WriteSnapshot
<1>6. CASE Refuse \/ Disconnect  BY <1>6, OverCourse
<1>7. QED  BY <1>1, <1>2, <1>3, <1>4, <1>5, <1>6 DEF Elsewhere

LEMMA RegisterCourse ==
  ASSUME NEW F, StreamInv, CourseInv(F), Register
  PROVE  CourseInv(F)' /\ conn' # "streaming"
<1>1. /\ conn' = "registered" /\ frames' = <<>> /\ from' = relayed /\ rows' = rows
      /\ UNCHANGED <<bus, applied, relayed>>
  BY DEF Register, logVars
<1>2. relayed \in Nat  BY DEF StreamInv, StreamTypes
<1>3. Pending(F, <<>>, 0, bus, relayed, relayed)  BY <1>2, PendingNone
<1>4. RowsBehind'  BY <1>1 DEF CourseInv, RowsBehind
<1>5. FramesRelayed(F)'  BY <1>1 DEF FramesRelayed
<1>6. Waiting(F)'  BY <1>1, <1>3 DEF Waiting
<1>7. QED  BY <1>1, <1>4, <1>5, <1>6 DEF CourseInv

LEMMA RestCourse ==
  ASSUME NEW F, CourseInv(F), UNCHANGED <<rows, bus, applied, relayed, conn, frames, from>>,
         intact' => intact
  PROVE  CourseInv(F)' /\ KeepsStep(F) /\ KeepsCourse
<1>1. CourseInv(F)'  BY DEF CourseInv, RowsBehind, FramesRelayed, Waiting
<1>2. KeepsStep(F)  BY DEF KeepsStep, InStep
<1>3. KeepsCourse  BY DEF KeepsCourse, OnCourse, Through
<1>4. QED  BY <1>1, <1>2, <1>3

LEMMA TakeFrameCourse ==
  ASSUME NEW F, NEW B, FramesAreReal(F, B), CourseInv(F), TakeFrame
  PROVE  CourseInv(F)' /\ KeepsCourse
<1> DEFINE S == Frame(F, B)
<1>1. /\ conn = "streaming" /\ frames # <<>> /\ frames' = Tail(frames) /\ rows' = rows
      /\ UNCHANGED <<bus, applied, relayed, conn, from, intact>>
  BY DEF TakeFrame, logVars
<1>2. frames \in Seq(S)  BY DEF FramesAreReal
<1> HIDE DEF S
<1>3. \A i \in DOMAIN frames' : i + 1 \in DOMAIN frames /\ frames'[i] = frames[i + 1]
  BY <1>1, <1>2
<1>4. RowsBehind'  BY <1>1 DEF CourseInv, RowsBehind
<1>5. FramesRelayed(F)'  BY <1>1, <1>3 DEF CourseInv, FramesRelayed
<1>6. Waiting(F)'  BY <1>1 DEF Waiting
<1>7. KeepsCourse  BY <1>1 DEF KeepsCourse, OnCourse, Through
<1>8. QED  BY <1>4, <1>5, <1>6, <1>7 DEF CourseInv

\* The snapshot is handled.
LEMMA SnapshotTaken ==
  ASSUME NEW F, NEW B, FramesAreReal(F, B), TakeFrame, NEW h, InStep(F, h, 1)
  PROVE  InStep(F, h, 0)'
<1> DEFINE S == Frame(F, B)
<1>1. /\ frames # <<>> /\ frames' = Tail(frames) /\ UNCHANGED <<bus, relayed>>
  BY DEF TakeFrame
<1>2. frames \in Seq(S)  BY DEF FramesAreReal
<1> HIDE DEF S
<1>3. 0 <= Len(frames')  BY <1>1, <1>2
<1>4. Pending(F, frames', 0, bus, h, relayed)  BY <1>1, <1>2, PendingShown DEF InStep
<1>5. QED  BY <1>1, <1>3, <1>4 DEF InStep

\* The k-th event is handled, the next that is followed after the h-th.
Advances(F, h, k) == /\ frames[1] = Update(bus[k]) /\ bus[k].match \in F
                     /\ \A i \in h + 1 .. k - 1 : bus[i].match \notin F
                     /\ InStep(F, k, 0)'

LEMMA UpdateTaken ==
  ASSUME NEW F, NEW B, StreamInv, FramesAreReal(F, B), TakeFrame, NEW h, InStep(F, h, 0)
  PROVE  \E k \in h + 1 .. relayed : Advances(F, h, k)
<1> DEFINE S == Frame(F, B)
<1>1. /\ frames # <<>> /\ frames' = Tail(frames) /\ UNCHANGED <<bus, relayed>>
  BY DEF TakeFrame
<1>2. frames \in Seq(S)  BY DEF FramesAreReal
<1>3. h \in Nat /\ relayed \in Nat /\ Pending(F, frames, 0, bus, h, relayed)
  BY DEF InStep, StreamInv, StreamTypes
<1> HIDE DEF S
<1>4. PICK k \in h + 1 .. relayed : NextIs(k, F, frames, bus, h, relayed)
  BY <1>1, <1>2, <1>3, PendingNext
<1>5. 0 <= Len(frames') /\ k \in Nat /\ k <= relayed  BY <1>1, <1>2, <1>3
<1>6. Pending(F, frames', 0, bus', k, relayed')  BY <1>1, <1>4 DEF NextIs
<1>7. InStep(F, k, 0)'  BY <1>1, <1>5, <1>6 DEF InStep
<1>8. Advances(F, h, k)  BY <1>4, <1>7 DEF Advances, NextIs
<1>9. QED  BY <1>8

\* What follows it stays on course.
LEMMA UpdateFollowed ==
  ASSUME NEW F, StreamInv, TakeFrame, NEW h \in Nat, NEW k \in h + 1 .. relayed, Advances(F, h, k),
         NEW m \in F, NEW shown, NEW last, OnCourse(m, h, shown, last),
         NEW new, new = Step(m, shown, bus[k]), NEW next, Behind(m, next, bus, k)
  PROVE  OnCourse(m, k, new, next)'
<1>1. rows' = rows /\ UNCHANGED <<bus, applied>>  BY DEF TakeFrame, logVars
<1>2. PICK g, b : Through(g, b, m, h, shown)  BY DEF OnCourse
<1> DEFINE n == Len(bus)
<1>3. /\ bus \in Seq(Events) /\ b \in Nat /\ n \in Nat /\ Trajectory(m, g, bus, b, n)
      /\ h \in b .. n /\ k \in h + 1 .. n
  BY <1>2 DEF Through, StreamInv, StreamTypes
<1>4. b <= k  BY <1>3
<1>5. NothingOf(m, bus, h, k - 1)  BY DEF Advances, NothingOf
<1> HIDE DEF n
<1>6. g[k] = Step(m, g[h], bus[k])  BY <1>3, <1>5, TrajectoryMoves
<1>7. g[k] = new  BY <1>2, <1>6 DEF Through
<1>8. Through(g, b, m, k, new)'  BY <1>1, <1>2, <1>4, <1>7 DEF Through
<1>9. QED  BY <1>1, <1>8 DEF OnCourse

\* When all is settled, both are at the end of it.
LEMMA SettledAgrees ==
  ASSUME NEW F, StreamInv, Settled, NEW h, NEW o, InStep(F, h, o),
         NEW m \in F, NEW shown, NEW last, OnCourse(m, h, shown, last)
  PROVE  shown = Body(rows[m])
<1> DEFINE n == Len(bus)
<1>1. applied = n /\ relayed = n /\ frames = <<>> /\ n \in Nat /\ bus \in Seq(Events)
  BY DEF Settled, StreamInv, StreamTypes
<1>2. o = 0 /\ h \in Nat /\ h <= n  BY <1>1 DEF InStep
<1>3. NothingOf(m, bus, h, n)
  <2>1. Pending(F, <<>>, 0, bus, h, n)  BY <1>1, <1>2 DEF InStep
  <2>2. QED  BY <2>1, PendingOver DEF NothingOf
<1>4. PICK g, b : Through(g, b, m, h, shown)  BY DEF OnCourse
<1>5. b \in Nat /\ h \in b .. n /\ n \in h .. n /\ Trajectory(m, g, bus, b, n)
  BY <1>1, <1>2, <1>4 DEF Through
<1> HIDE DEF n
<1>6. g[n] = g[h]  BY <1>1, <1>3, <1>5, TrajectoryRests
<1>7. QED  BY <1>1, <1>4, <1>6 DEF Through

LEMMA SettledInStep ==
  ASSUME NEW F, Settled, NEW h, NEW o, InStep(F, h, o)
  PROVE  o = 0
BY DEF Settled, InStep

-----------------------------------------------------------------------------
(* LiveMatchDetail: the inductive invariant of the page.                      *)

Mine == About({Id})

Page == [step : {"blank", "match", "live"}, match : PageBody \cup {NoRow},
         events : Seq(Events), lastSequence : Nat]

\* Only a live page has a connection.
ConnectionFits == page.step # "live" => conn = "closed"

\* A page that has been opened has its match, and the match has its row.
PageFits == /\ page \in Page
            /\ page.step = "blank" => page = Blank
            /\ page.step # "blank" => page.match \in PageBody /\ rows[Id] # NoRow
            /\ page.step = "match" => page.events = <<>> /\ page.lastSequence = 0
            /\ page.events \in Seq(Mine)

PageInv == PageFits /\ ConnectionFits /\ TimelineAscends /\ TimelineIsReal

DetailFrames == FramesAreReal({Id}, PageBody)

DetailIInv == StreamInv /\ DetailFrames /\ PageInv

LEMMA MineGrows ==
  ASSUME Published \subseteq Published'
  PROVE  Mine \subseteq Mine'
BY DEF Mine, About

\* The snapshot holds the match.
LEMMA SnapshotOfMatch ==
  ASSUME StreamInv, PageFits, ConnectionFits, WriteSnapshot({Id})
  PROVE  Answer({Id}) \in [{Id} -> PageBody] /\ rows[Id] # NoRow
<1>1. rows[Id] # NoRow
  <2>1. page.step # "blank"  BY DEF ConnectionFits, WriteSnapshot
  <2>2. QED  BY <2>1 DEF PageFits
<1>2. rows[Id] \in Row  BY <1>1, DetailAssumption DEF StreamInv, LogInv, LogTypeOK
<1>3. QED  BY <1>1, <1>2, BodyType DEF Answer

\* The page's part, while it does nothing.
LEMMA PageAtRest ==
  ASSUME StreamInv, PageInv, UNCHANGED page,
         bus' = bus \/ \E e \in Events : bus' = Append(bus, e),
         rows[Id] # NoRow => rows'[Id] # NoRow
  PROVE  PageFits' /\ TimelineAscends' /\ TimelineIsReal'
<1>1. Mine \subseteq Mine'  BY BusGrows, MineGrows DEF StreamInv
<1>2. page.events \in Seq(Mine)  BY DEF PageInv, PageFits
<1>3. page.events \in Seq(Mine')
  <2> DEFINE M == Mine
             N == Mine'
             s == page.events
  <2>1. s \in Seq(M) /\ M \subseteq N  BY <1>1, <1>2
  <2> HIDE DEF M, N, s
  <2>2. s \in Seq(N)  BY <2>1, SeqGrows
  <2>3. QED  BY <2>2 DEF N, s
<1>4. PageFits'
  BY <1>3 DEF PageInv, PageFits
<1>5. \A i \in DOMAIN page.events : page.events[i] \in Mine'
  BY <1>3
<1>6. TimelineIsReal'
  BY <1>5 DEF PageInv, TimelineIsReal, Mine, About, Published
<1>7. QED  BY <1>4, <1>6 DEF PageInv, TimelineAscends

\* The server reads the match.
LEMMA OpenMatchStep ==
  ASSUME DetailIInv, OpenMatch
  PROVE  DetailIInv'
<1>1. /\ page = Blank /\ rows[Id] # NoRow
      /\ page' = [step |-> "match", match |-> Body(rows[Id]), events |-> <<>>, lastSequence |-> 0]
      /\ UNCHANGED streamVars
  <2>1. page = Blank /\ rows[Id] # NoRow /\ UNCHANGED streamVars
    BY DEF OpenMatch, DetailIInv, PageInv, PageFits
  <2>2. page' = [page EXCEPT !.step = "match", !.match = Body(rows[Id])]
    BY DEF OpenMatch
  <2>3. QED  BY <2>1, <2>2 DEF Blank
<1>2. StreamInv' /\ DetailFrames'
  BY <1>1, StreamAtRest DEF DetailIInv, DetailFrames, StreamInv, StreamTypes, streamVars, connVars
<1>3. rows[Id] \in Row
  BY <1>1, DetailAssumption DEF DetailIInv, StreamInv, LogInv, LogTypeOK
<1>4. Body(rows[Id]) \in PageBody  BY <1>3, BodyType
<1>5. rows' = rows /\ conn' = conn /\ frames' = frames
  BY <1>1 DEF streamVars, logVars, connVars
<1>6. PageFits'
  <2>1. <<>> \in Seq(Events) /\ <<>> \in Seq(Mine')  OBVIOUS
  <2>2. page' \in Page  BY <1>1, <1>4, <2>1 DEF Page
  <2>3. QED  BY <1>1, <1>4, <1>5, <2>1, <2>2 DEF PageFits
<1>7. ConnectionFits'
  BY <1>1, <1>5 DEF ConnectionFits, DetailIInv, PageInv, Blank
<1>8. TimelineAscends' /\ TimelineIsReal'
  BY <1>1 DEF TimelineAscends, TimelineIsReal
<1>9. QED  BY <1>2, <1>6, <1>7, <1>8 DEF DetailIInv, PageInv

\* The server reads the timeline: its rows are published events about the match,
\* and the query sorts them.
LEMMA OpenEventsStep ==
  ASSUME DetailIInv, OpenEvents
  PROVE  DetailIInv'
<1>1. page.step = "match" /\ UNCHANGED streamVars  BY DEF OpenEvents
<1>2. PICK s \in InOrder(timeline[Id]) :
        page' = [page EXCEPT !.step = "live", !.events = s,
                             !.lastSequence = IF s = <<>> THEN 0 ELSE s[Len(s)].sequence]
  BY DEF OpenEvents
<1>3. Id \in Matches  BY DetailAssumption
<1>4. StreamInv' /\ DetailFrames'
  BY <1>1, StreamAtRest DEF DetailIInv, DetailFrames, StreamInv, StreamTypes, streamVars, connVars
<1>5. rows' = rows /\ conn' = conn /\ frames' = frames /\ Mine' = Mine
  BY <1>1 DEF streamVars, logVars, connVars, Mine, About, Published
<1>6. timeline[Id] \subseteq Mine /\ timeline[Id] \subseteq Events
      /\ Cardinality(timeline[Id]) \in Nat
  BY <1>3, FS_CardinalityType
  DEF DetailIInv, StreamInv, RecordsAreReal, Mine, About, LogInv, LogTypeOK, TimelinesFinite
<1>7. s \in Seq(timeline[Id])
  BY <1>6 DEF InOrder
<1>8. s \in Seq(Mine) /\ s \in Seq(Events)
  <2> DEFINE M == Mine
             T == timeline[Id]
  <2>1. T \subseteq M /\ T \subseteq Events /\ s \in Seq(T)  BY <1>6, <1>7
  <2> HIDE DEF M, T
  <2>2. s \in Seq(M) /\ s \in Seq(Events)  BY <2>1, SeqGrows
  <2>3. QED  BY <2>2 DEF M
<1>9. (IF s = <<>> THEN 0 ELSE s[Len(s)].sequence) \in Nat
  <2>1. CASE s = <<>>  BY <2>1
  <2>2. CASE s # <<>>
    <3>1. s[Len(s)] \in Events  BY <1>8, <2>2
    <3>2. s[Len(s)].sequence \in Nat  BY <3>1, EventsAssumption DEF Event
    <3>3. QED  BY <2>2, <3>2
  <2>3. QED  BY <2>1, <2>2
<1>10. /\ page \in Page /\ page.match \in PageBody /\ rows[Id] # NoRow
  BY <1>1 DEF DetailIInv, PageInv, PageFits
<1> DEFINE last == IF s = <<>> THEN 0 ELSE s[Len(s)].sequence
<1>11. page' = [page EXCEPT !.step = "live", !.events = s, !.lastSequence = last]
       /\ last \in Nat
  BY <1>2, <1>9
<1>12. last = IF s = <<>> THEN 0 ELSE s[Len(s)].sequence  OBVIOUS
<1> HIDE DEF last
<1>13. /\ page' \in Page
       /\ page'.step = "live" /\ page'.match = page.match
       /\ page'.events = s /\ page'.lastSequence = last
  BY <1>8, <1>10, <1>11 DEF Page
<1>14. PageFits'
  BY <1>5, <1>8, <1>10, <1>13 DEF PageFits
<1>15. ConnectionFits'
  BY <1>5, <1>13 DEF ConnectionFits, DetailIInv, PageInv
<1>16. TimelineAscends'
  BY <1>13 DEF TimelineAscends, InOrder
<1>17. TimelineIsReal'
  <2>1. \A i \in DOMAIN s : s[i] \in Mine  BY <1>8
  <2>2. bus' = bus  BY <1>1 DEF streamVars
  <2>3. QED  BY <1>12, <1>13, <2>1, <2>2 DEF TimelineIsReal, Mine, About, Published
<1>18. QED  BY <1>4, <1>14, <1>15, <1>16, <1>17 DEF DetailIInv, PageInv

\* The component connects.
LEMMA ConnectStep ==
  ASSUME DetailIInv, Connect
  PROVE  DetailIInv'
<1>1. /\ page' = page /\ page.step = "live" /\ Register /\ bus' = bus /\ rows' = rows
  BY DEF Connect, Register, logVars
<1>2. StreamInv' /\ DetailFrames'  BY <1>1, RegisterStep DEF DetailIInv, DetailFrames
<1>3. PageFits' /\ TimelineAscends' /\ TimelineIsReal'
  BY <1>1, PageAtRest DEF DetailIInv
<1>4. ConnectionFits'  BY <1>1 DEF ConnectionFits
<1>5. QED  BY <1>2, <1>3, <1>4 DEF DetailIInv, PageInv

\* A new update becomes the last entry of the timeline.
LEMMA OnUpdateEffect ==
  ASSUME PageInv, page.step = "live", NEW e \in Mine
  PROVE  /\ OnUpdate(e) \in Page
         /\ OnUpdate(e).step = "live" /\ OnUpdate(e).match \in PageBody
         /\ OnUpdate(e).events \in Seq(Mine)
         /\ \A i, j \in DOMAIN OnUpdate(e).events :
              i < j => OnUpdate(e).events[i].sequence < OnUpdate(e).events[j].sequence
         /\ OnUpdate(e).lastSequence =
              IF OnUpdate(e).events = <<>> THEN 0
              ELSE OnUpdate(e).events[Len(OnUpdate(e).events)].sequence
<1> DEFINE M == Mine
           s == page.events
           last == page.lastSequence
<1>1. /\ page \in Page /\ page.match \in PageBody /\ s \in Seq(M) /\ e \in M
      /\ s \in Seq(Events) /\ e \in Events
  BY DEF PageInv, PageFits, Page, Mine, About, Published
<1>2. /\ \A i, j \in DOMAIN s : i < j => s[i].sequence < s[j].sequence
      /\ last = IF s = <<>> THEN 0 ELSE s[Len(s)].sequence
  BY DEF PageInv, TimelineAscends, TimelineIsReal
<1>3. e \in Event /\ e.sequence \in Nat /\ last \in Nat
      /\ \A i \in DOMAIN s : s[i].sequence \in Nat
  BY <1>1, EventsAssumption DEF Event, Page
<1>4. CASE e.type = "odds_update" \/ e.sequence <= last
  <2>1. OnUpdate(e) = page  BY <1>4 DEF OnUpdate
  <2>2. QED  BY <1>1, <1>2, <2>1
<1>5. CASE ~ (e.type = "odds_update" \/ e.sequence <= last)
  <2> DEFINE longer == Append(s, e)
             body == PageReduce(page.match, e)
  <2>1. body \in PageBody  BY <1>1, <1>3, PageReduceType
  <2>2. OnUpdate(e) = [page EXCEPT !.match = body, !.events = longer, !.lastSequence = e.sequence]
    BY <1>5 DEF OnUpdate
  <2> HIDE DEF M, body
  <2>3. /\ longer \in Seq(M) /\ longer \in Seq(Events) /\ longer # <<>>
        /\ Len(longer) = Len(s) + 1 /\ longer[Len(longer)] = e
        /\ \A i \in DOMAIN s : longer[i] = s[i]
    BY <1>1
  <2>4. \A i \in DOMAIN s : s[i].sequence < e.sequence
    <3> SUFFICES ASSUME NEW i \in DOMAIN s PROVE s[i].sequence < e.sequence  OBVIOUS
    <3>1. Len(s) \in DOMAIN s /\ i \in 1 .. Len(s) /\ s # <<>>  BY <1>1
    <3>2. s[i].sequence <= s[Len(s)].sequence  BY <1>2, <1>3, <3>1
    <3>3. QED  BY <1>2, <1>3, <1>5, <3>1, <3>2
  <2>5. \A i, j \in DOMAIN longer : i < j => longer[i].sequence < longer[j].sequence
    <3> SUFFICES ASSUME NEW i \in DOMAIN longer, NEW j \in DOMAIN longer, i < j
                 PROVE  longer[i].sequence < longer[j].sequence
      OBVIOUS
    <3>1. i \in DOMAIN s /\ (j \in DOMAIN s \/ j = Len(longer))
      BY <1>1, <2>3
    <3>2. QED  BY <1>2, <2>3, <2>4, <3>1
  <2> HIDE DEF longer
  <2>6. OnUpdate(e) \in Page  BY <1>1, <1>3, <2>1, <2>2, <2>3 DEF Page
  <2>7. /\ OnUpdate(e).step = "live" /\ OnUpdate(e).match = body
        /\ OnUpdate(e).events = longer /\ OnUpdate(e).lastSequence = e.sequence
    BY <1>1, <2>2 DEF Page
  <2>8. QED  BY <2>1, <2>3, <2>5, <2>6, <2>7 DEF M
<1>6. QED  BY <1>4, <1>5

\* The page handles a frame.
LEMMA HandleStep ==
  ASSUME DetailIInv, Handle
  PROVE  DetailIInv'
<1> DEFINE f == frames[1]
<1>1. /\ TakeFrame /\ conn = "streaming" /\ frames # <<>>
      /\ UNCHANGED <<bus, conn, rows>>
  BY DEF Handle, TakeFrame, logVars
<1>2. page.step = "live"
  BY <1>1 DEF DetailIInv, PageInv, ConnectionFits
<1>3. StreamInv' /\ DetailFrames'  BY <1>1, TakeFrameStep DEF DetailIInv, DetailFrames
<1>4. Mine' = Mine  BY <1>1 DEF Mine, About, Published
<1>5. rows[Id] # NoRow /\ page \in Page /\ page.events \in Seq(Mine)
  BY <1>2 DEF DetailIInv, PageInv, PageFits
<1>6. /\ page' \in Page /\ page'.step = "live" /\ page'.match \in PageBody
      /\ page'.events \in Seq(Mine)
      /\ \A i, j \in DOMAIN page'.events :
           i < j => page'.events[i].sequence < page'.events[j].sequence
      /\ page'.lastSequence = IF page'.events = <<>> THEN 0
                              ELSE page'.events[Len(page'.events)].sequence
  <2> DEFINE answers == [{Id} -> PageBody]
  <2>0. (\E answer \in answers : f = Snapshot(answer)) \/ (\E e \in Mine : f = Update(e))
    BY <1>1, FirstFrame DEF DetailIInv, DetailFrames, Mine
  <2> HIDE DEF answers
  <2>1. CASE f.kind = "snapshot"
    <3>1. PICK answer \in answers : f = Snapshot(answer)
      <4>1. \A e : Update(e).kind = "update"  BY DEF Update
      <4>2. QED  BY <2>0, <2>1, <4>1
    <3>2. page' = [page EXCEPT !.match = answer[Id]] /\ answer[Id] \in PageBody
      BY <2>1, <3>1 DEF Handle, Snapshot, answers
    <3>3. /\ page' \in Page /\ page'.step = page.step /\ page'.match = answer[Id]
          /\ page'.events = page.events /\ page'.lastSequence = page.lastSequence
      BY <1>5, <3>2 DEF Page
    <3>4. QED
      BY <1>2, <1>5, <3>2, <3>3 DEF DetailIInv, PageInv, TimelineAscends, TimelineIsReal
  <2>2. CASE f.kind # "snapshot"
    <3>1. PICK e \in Mine : f = Update(e)
      <4>1. \A answer : Snapshot(answer).kind = "snapshot"  BY DEF Snapshot
      <4>2. QED  BY <2>0, <2>2, <4>1
    <3>2. page' = OnUpdate(e)
      BY <2>2, <3>1 DEF Handle, Update
    <3>3. PageInv  BY DEF DetailIInv
    <3>4. QED  BY <1>2, <3>2, <3>3, OnUpdateEffect
  <2>3. QED  BY <2>1, <2>2
<1>7. PageFits'
  BY <1>1, <1>4, <1>5, <1>6 DEF PageFits
<1>8. ConnectionFits'  BY <1>6 DEF ConnectionFits
<1>9. TimelineAscends'  BY <1>6 DEF TimelineAscends
<1>10. TimelineIsReal'
  <2>1. \A i \in DOMAIN page'.events : page'.events[i] \in Mine  BY <1>6
  <2>2. QED  BY <1>1, <1>6, <2>1 DEF TimelineIsReal, Mine, About, Published
<1>11. QED  BY <1>3, <1>7, <1>8, <1>9, <1>10 DEF DetailIInv, PageInv

-----------------------------------------------------------------------------
(* The timeline. *)

LEMMA DetailIInvInit == DetailInit => DetailIInv
<1> SUFFICES ASSUME DetailInit PROVE DetailIInv  OBVIOUS
<1>1. page = Blank /\ conn = "closed" /\ StreamInit  BY DEF DetailInit, StreamInit
<1>2. StreamInv /\ DetailFrames  BY <1>1, StreamInvInit DEF DetailFrames
<1>3. <<>> \in Seq(Mine) /\ <<>> \in Seq(Events)  OBVIOUS
<1>4. PageFits  BY <1>1, <1>3 DEF PageFits, Blank, Page
<1>5. ConnectionFits  BY <1>1 DEF ConnectionFits
<1>6. TimelineAscends /\ TimelineIsReal  BY <1>1 DEF TimelineAscends, TimelineIsReal, Blank
<1>7. QED  BY <1>2, <1>4, <1>5, <1>6 DEF DetailIInv, PageInv

LEMMA DetailIInvStep == DetailIInv /\ [DetailNext]_detailVars => DetailIInv'
<1> SUFFICES ASSUME DetailIInv, [DetailNext]_detailVars PROVE DetailIInv'
  OBVIOUS
<1>1. CASE Elsewhere({Id}) /\ UNCHANGED page
  <2>1. WriteSnapshot({Id}) => Answer({Id}) \in [{Id} -> PageBody]
    BY SnapshotOfMatch DEF DetailIInv, PageInv
  <2>2. StreamInv' /\ DetailFrames'
    BY <1>1, <2>1, ElsewhereStep DEF DetailIInv, DetailFrames
  <2>3. /\ bus' = bus \/ \E e \in Events : bus' = Append(bus, e)
        /\ rows[Id] # NoRow => rows'[Id] # NoRow
    BY <1>1, StreamTypesStep, DetailAssumption DEF DetailIInv
  <2>4. PageFits' /\ TimelineAscends' /\ TimelineIsReal'
    BY <1>1, <2>3, PageAtRest DEF DetailIInv
  <2>5. ConnectionFits'
    <3>1. conn = "closed" => conn' = "closed"  BY <1>1, ClosedStays
    <3>2. QED  BY <1>1, <3>1 DEF ConnectionFits, DetailIInv, PageInv
  <2>6. QED  BY <2>2, <2>4, <2>5 DEF DetailIInv, PageInv
<1>2. CASE OpenMatch  BY <1>2, OpenMatchStep
<1>3. CASE OpenEvents  BY <1>3, OpenEventsStep
<1>4. CASE Connect  BY <1>4, ConnectStep
<1>5. CASE Handle  BY <1>5, HandleStep
<1>6. CASE UNCHANGED detailVars
  <2>1. /\ UNCHANGED <<logVars, bus, frames, applied, relayed, conn, connects, from, aligned>>
        /\ intact' = intact /\ page' = page
    BY <1>6 DEF detailVars, streamVars, connVars
  <2>2. intact \in BOOLEAN  BY DEF DetailIInv, StreamInv, StreamTypes
  <2>3. StreamInv' /\ DetailFrames'
    BY <2>1, <2>2, StreamAtRest DEF DetailIInv, DetailFrames
  <2>4. rows' = rows  BY <2>1 DEF logVars
  <2>5. PageFits' /\ TimelineAscends' /\ TimelineIsReal'
    BY <2>1, <2>4, PageAtRest DEF DetailIInv
  <2>6. ConnectionFits'  BY <2>1 DEF ConnectionFits, DetailIInv, PageInv
  <2>7. QED  BY <2>3, <2>5, <2>6 DEF DetailIInv, PageInv
<1>7. QED  BY <1>1, <1>2, <1>3, <1>4, <1>5, <1>6 DEF DetailNext

\* In every state of the page, whatever is published, lost, repeated, reordered or
\* cut off: what it holds is well typed, its timeline ascends strictly, repeats
\* nothing and invents nothing, and lastSequence is the number it ends with.
THEOREM TimelineIsSound == DetailSpec => []DetailInv
<1>1. DetailIInv => DetailInv
  BY DEF DetailIInv, StreamInv, PageInv, PageFits, Page, DetailInv, DetailTypeOK, Blank
<1>2. QED  BY <1>1, DetailIInvInit, DetailIInvStep, PTL DEF DetailSpec

-----------------------------------------------------------------------------
(* Where a page that connected at a quiet moment stands. What it filters by   *)
(* is never ahead of what was published, applied or relayed to it, so that it *)
(* takes the next event of the match for a new one.                           *)

PageBehind ==
  page.step = "live" => \/ Behind(Id, page.lastSequence, bus, applied)
                        \/ Behind(Id, page.lastSequence, bus, relayed)

ReadBehind ==
  conn = "registered" => \/ Behind(Id, page.lastSequence, bus, applied)
                         \/ Behind(Id, page.lastSequence, bus, from)

\* The match as the snapshot that is the first frame shows it, or as the page does.
PageOnCourse(h, o, shown, last) ==
  /\ InStep({Id}, h, o) /\ OnCourse(Id, h, shown, last)
  /\ last = page.lastSequence
  /\ shown = IF o = 1 THEN frames[1].body[Id] ELSE page.match

StreamingTracks ==
  conn = "streaming" /\ aligned /\ intact /\ Ascending =>
    \E h, o, shown, last : PageOnCourse(h, o, shown, last)

QuietInv == DetailIInv /\ CourseInv({Id}) /\ PageBehind /\ ReadBehind /\ StreamingTracks

\* The bus and the counters only grow.
LEMMA BehindKept ==
  ASSUME StreamInv, bus' = bus \/ \E e \in Events : bus' = Append(bus, e),
         NEW n \in 0 .. Len(bus), NEW k \in Nat, n <= k, NEW m, NEW last, Behind(m, last, bus, n)
  PROVE  Behind(m, last, bus', k)
<1>1. PICK j \in 1 .. n : bus[j].match = m /\ last <= bus[j].sequence  BY DEF Behind
<1>2. bus'[j] = bus[j]  BY DEF StreamInv, StreamTypes
<1>3. j \in 1 .. k  OBVIOUS
<1>4. QED  BY <1>1, <1>2, <1>3 DEF Behind

LEMMA CountersGrow ==
  ASSUME NEW F, StreamInv, Elsewhere(F)
  PROVE  /\ applied <= applied' /\ relayed <= relayed' /\ applied' \in Nat /\ relayed' \in Nat
         /\ conn' = "registered" => conn = "registered" /\ from' = from
<1>1. applied \in Nat /\ relayed \in Nat  BY DEF StreamInv, StreamTypes
<1>2. QED
  BY <1>1
  DEF Elsewhere, Publish, Apply, Miss, Relay, Drop, WriteSnapshot, Refuse, Disconnect, Over,
      connVars

\* A step outside the page.
LEMMA QuietElsewhere ==
  ASSUME QuietInv, Elsewhere({Id}), UNCHANGED page
  PROVE  CourseInv({Id})' /\ PageBehind' /\ ReadBehind' /\ StreamingTracks'
<1>1. StreamInv /\ FramesAreReal({Id}, PageBody) /\ CourseInv({Id})
  BY DEF QuietInv, DetailIInv, DetailFrames
<1>2. WriteSnapshot({Id}) => Answer({Id}) \in [{Id} -> PageBody] /\ rows[Id] # NoRow
  BY SnapshotOfMatch DEF QuietInv, DetailIInv, PageInv
<1>3. CourseInv({Id})'  BY <1>1, <1>2, ElsewhereCourse
<1>4. /\ applied \in 0 .. Len(bus) /\ relayed \in 0 .. Len(bus) /\ from \in 0 .. Len(bus)
      /\ from \in Nat
  BY <1>1 DEF StreamInv, StreamTypes
<1>5. bus' = bus \/ \E e \in Events : bus' = Append(bus, e)  BY <1>1, StreamTypesStep
<1>6. /\ applied <= applied' /\ relayed <= relayed' /\ applied' \in Nat /\ relayed' \in Nat
      /\ conn' = "registered" => conn = "registered" /\ from' = from
  BY <1>1, CountersGrow
<1>7. \A last : Behind(Id, last, bus, applied) => Behind(Id, last, bus', applied')
  BY <1>1, <1>4, <1>5, <1>6, BehindKept
<1>8. \A last : Behind(Id, last, bus, relayed) => Behind(Id, last, bus', relayed')
  BY <1>1, <1>4, <1>5, <1>6, BehindKept
<1>9. \A last : Behind(Id, last, bus, from) => Behind(Id, last, bus', from)
  BY <1>1, <1>4, <1>5, BehindKept
<1>10. PageBehind'  BY <1>7, <1>8 DEF QuietInv, PageBehind
<1>11. ReadBehind'  BY <1>6, <1>7, <1>9 DEF QuietInv, ReadBehind
<1>12. StreamingTracks'
  <2> SUFFICES ASSUME conn' = "streaming", aligned', intact', Ascending'
               PROVE  \E h, o, shown, last : PageOnCourse(h, o, shown, last)'
    BY DEF StreamingTracks
  <2>1. CASE conn = "streaming"
    <3>1. aligned' = aligned /\ intact /\ Ascending /\ KeepsStep({Id}) /\ KeepsCourse
      BY <1>1, <2>1, ElsewhereKeeps
    <3>2. PICK h, o, shown, last : PageOnCourse(h, o, shown, last)
      BY <2>1, <3>1 DEF QuietInv, StreamingTracks
    <3>3. InStep({Id}, h, o)' /\ (o = 1 => frames'[1] = frames[1])
      BY <3>1, <3>2 DEF KeepsStep, PageOnCourse
    <3>4. h \in 0 .. relayed  BY <3>2, <1>4 DEF PageOnCourse, InStep
    <3>5. OnCourse(Id, h, shown, last)'
      BY <3>1, <3>2, <3>4, DetailAssumption DEF KeepsCourse, PageOnCourse
    <3>6. PageOnCourse(h, o, shown, last)'  BY <3>2, <3>3, <3>5 DEF PageOnCourse
    <3>7. QED  BY <3>6
  <2>2. CASE conn # "streaming"
    <3>1. WriteSnapshot({Id})
      BY <2>2
      DEF Elsewhere, Publish, Apply, Miss, Relay, Drop, Refuse, Disconnect, Over, connVars
    <3>2. PICK h : Starts({Id}, h)  BY <1>1, <1>2, <3>1, SnapshotStarts
    <3>3. frames'[1] = Snapshot(Answer({Id}))  BY <1>1, <1>2, <3>1, SnapshotCourse
    <3>4. applied = from /\ conn = "registered"  BY <3>1 DEF WriteSnapshot
    <3>5. PICK shown, last : shown = Body(rows[Id]) /\ last = page.lastSequence  OBVIOUS
    <3>6. h = from /\ Behind(Id, last, bus, h)
      BY <3>2, <3>4, <3>5 DEF Starts, QuietInv, ReadBehind
    <3>7. OnCourse(Id, h, shown, last)'
      BY <1>2, <3>1, <3>2, <3>5, <3>6, DetailAssumption DEF Starts
    <3>8. frames'[1].body[Id] = shown  BY <1>2, <3>1, <3>3, <3>5 DEF Snapshot, Answer
    <3>9. PageOnCourse(h, 1, shown, last)'
      BY <3>2, <3>5, <3>7, <3>8 DEF PageOnCourse, Starts
    <3>10. QED  BY <3>9
  <2>3. QED  BY <2>1, <2>2
<1>13. QED  BY <1>3, <1>10, <1>11, <1>12

LEMMA QuietOpenMatch ==
  ASSUME QuietInv, OpenMatch
  PROVE  CourseInv({Id})' /\ PageBehind' /\ ReadBehind' /\ StreamingTracks'
<1>1. page.step = "blank" /\ page'.step = "match" /\ UNCHANGED streamVars
  BY DEF OpenMatch, QuietInv, DetailIInv, PageInv, PageFits, Page
<1>2. conn = "closed"  BY <1>1 DEF QuietInv, DetailIInv, PageInv, ConnectionFits
<1>3. UNCHANGED <<rows, bus, applied, relayed, conn, frames, from>> /\ intact' = intact
  BY <1>1 DEF streamVars, logVars, connVars
<1>4. CourseInv({Id})'  BY <1>3, RestCourse DEF QuietInv
<1>5. QED  BY <1>1, <1>2, <1>3, <1>4 DEF PageBehind, ReadBehind, StreamingTracks

\* What the server has read of the timeline, match-service had recorded.
LEMMA QuietOpenEvents ==
  ASSUME QuietInv, OpenEvents
  PROVE  CourseInv({Id})' /\ PageBehind' /\ ReadBehind' /\ StreamingTracks'
<1>1. page.step = "match" /\ UNCHANGED streamVars  BY DEF OpenEvents
<1>2. PICK s \in InOrder(timeline[Id]) :
        page' = [page EXCEPT !.step = "live", !.events = s,
                             !.lastSequence = IF s = <<>> THEN 0 ELSE s[Len(s)].sequence]
  BY DEF OpenEvents
<1>3. page \in Page /\ rows[Id] # NoRow
  BY <1>1 DEF QuietInv, DetailIInv, PageInv, PageFits
<1>4. page'.lastSequence = IF s = <<>> THEN 0 ELSE s[Len(s)].sequence
  <2> DEFINE last == IF s = <<>> THEN 0 ELSE s[Len(s)].sequence
  <2>1. page' = [page EXCEPT !.step = "live", !.events = s, !.lastSequence = last]  BY <1>2
  <2> HIDE DEF last
  <2>2. page'.lastSequence = last  BY <1>3, <2>1 DEF Page
  <2>3. QED  BY <2>2 DEF last
<1>5. conn = "closed"  BY <1>1 DEF QuietInv, DetailIInv, PageInv, ConnectionFits
<1>6. UNCHANGED <<rows, bus, applied, relayed, conn, frames, from>> /\ intact' = intact
  BY <1>1 DEF streamVars, logVars, connVars
<1>7. PICK j \in 1 .. applied : bus[j].match = Id /\ rows[Id].lastSequence <= bus[j].sequence
  BY <1>3, DetailAssumption DEF QuietInv, CourseInv, RowsBehind, Behind
<1>8. bus[j].sequence \in Nat /\ rows[Id].lastSequence \in Nat
  <2>1. j \in DOMAIN bus /\ bus[j] \in Events
    BY DEF QuietInv, DetailIInv, StreamInv, StreamTypes
  <2>2. rows[Id] \in Row
    BY <1>3, DetailAssumption DEF QuietInv, DetailIInv, StreamInv, LogInv, LogTypeOK
  <2>3. QED  BY <2>1, <2>2, EventsAssumption DEF Event, Row
<1>9. page'.lastSequence <= bus[j].sequence
  <2>1. CASE s = <<>>  BY <1>4, <1>8, <2>1
  <2>2. CASE s # <<>>
    <3>1. Cardinality(timeline[Id]) \in Nat /\ timeline[Id] \in SUBSET Events
      BY DetailAssumption, FS_CardinalityType
      DEF QuietInv, DetailIInv, StreamInv, LogInv, LogTypeOK, TimelinesFinite
    <3>2. s \in Seq(timeline[Id])  BY <3>1 DEF InOrder
    <3>3. s[Len(s)] \in timeline[Id]  BY <2>2, <3>2
    <3>4. s[Len(s)].sequence <= rows[Id].lastSequence
      BY <1>3, <3>3, DetailAssumption
      DEF QuietInv, DetailIInv, StreamInv, LogInv, RowMatchesTimeline, Derived, SequenceAgrees
    <3>5. s[Len(s)].sequence \in Nat  BY <3>1, <3>3, EventsAssumption DEF Event
    <3>6. QED  BY <1>4, <1>7, <1>8, <2>2, <3>4, <3>5
  <2>3. QED  BY <2>1, <2>2
<1>10. Behind(Id, page'.lastSequence, bus, applied)  BY <1>7, <1>9 DEF Behind
<1>11. CourseInv({Id})'  BY <1>6, RestCourse DEF QuietInv
<1>12. QED  BY <1>5, <1>6, <1>10, <1>11 DEF PageBehind, ReadBehind, StreamingTracks

LEMMA QuietConnect ==
  ASSUME QuietInv, Connect
  PROVE  CourseInv({Id})' /\ PageBehind' /\ ReadBehind' /\ StreamingTracks'
<1>1. /\ page' = page /\ page.step = "live" /\ Register /\ from' = relayed
      /\ UNCHANGED <<bus, applied, relayed>>
  BY DEF Connect, Register
<1>2. CourseInv({Id})' /\ conn' # "streaming"
  BY <1>1, RegisterCourse DEF QuietInv, DetailIInv
<1>3. PageBehind' /\ ReadBehind'
  BY <1>1 DEF QuietInv, PageBehind, ReadBehind
<1>4. QED  BY <1>2, <1>3 DEF StreamingTracks

\* An update that is next is not passed over.
LEMMA UpdateTracks ==
  ASSUME StreamTypes, Ascending, NEW h \in 0 .. Len(bus), NEW k \in h + 1 .. Len(bus),
         page \in Page, page.match \in PageBody,
         bus[k].match = Id, Behind(Id, page.lastSequence, bus, h)
  PROVE  /\ OnUpdate(bus[k]).match = Step(Id, page.match, bus[k])
         /\ Behind(Id, OnUpdate(bus[k]).lastSequence, bus, k)
<1> DEFINE e == bus[k]
<1>1. k \in DOMAIN bus /\ k \in 1 .. k /\ h <= k /\ h \in Nat /\ k \in Nat /\ e \in Event
      /\ e.sequence \in Nat
  BY EventsAssumption DEF StreamTypes, Event
<1>2. page.lastSequence \in Nat  BY DEF Page
<1>3. page.lastSequence < e.sequence  BY <1>2, BehindNext
<1>4. Behind(Id, page.lastSequence, bus, k)  BY <1>1, BehindMore
<1>5. Behind(Id, e.sequence, bus, k)  BY <1>1 DEF Behind
<1> HIDE DEF e
<1>6. e.match = Id  BY DEF e
<1>7. CASE e.type = "odds_update"
  <2>1. OnUpdate(e) = page  BY <1>7 DEF OnUpdate
  <2>2. Step(Id, page.match, e) = page.match  BY <1>6, <1>7 DEF Step, PageReduce, StatusRules
  <2>3. QED  BY <1>4, <2>1, <2>2 DEF e
<1>8. CASE e.type # "odds_update"
  <2> DEFINE body == PageReduce(page.match, e)
             longer == Append(page.events, e)
  <2>1. OnUpdate(e) = [page EXCEPT !.match = body, !.events = longer, !.lastSequence = e.sequence]
    BY <1>1, <1>2, <1>3, <1>8 DEF OnUpdate
  <2>2. Step(Id, page.match, e) = body  BY <1>6 DEF Step
  <2> HIDE DEF body, longer
  <2>3. OnUpdate(e).match = body /\ OnUpdate(e).lastSequence = e.sequence
    BY <2>1 DEF Page
  <2>4. QED  BY <1>5, <2>2, <2>3 DEF e
<1>9. QED  BY <1>7, <1>8

\* A snapshot comes first, and leaves lastSequence as it is; an update is the next
\* event of the match, and moves the page along the trajectory.
LEMMA QuietHandle ==
  ASSUME QuietInv, Handle
  PROVE  CourseInv({Id})' /\ PageBehind' /\ ReadBehind' /\ StreamingTracks'
<1> DEFINE f == frames[1]
<1>1. /\ TakeFrame /\ conn = "streaming" /\ frames # <<>>
      /\ UNCHANGED <<bus, applied, relayed, conn, aligned, intact>>
      /\ page' = IF f.kind = "snapshot" THEN [page EXCEPT !.match = f.body[Id]]
                                        ELSE OnUpdate(f.body)
  BY DEF Handle, TakeFrame
<1>2. /\ bus \in Seq(Events) /\ applied \in 0 .. Len(bus) /\ relayed \in 0 .. Len(bus)
      /\ relayed \in Nat /\ StreamTypes /\ StreamInv
  BY DEF QuietInv, DetailIInv, StreamInv, StreamTypes
<1>3. page.step = "live" /\ page \in Page /\ page.match \in PageBody
  BY <1>1 DEF QuietInv, DetailIInv, PageInv, ConnectionFits, PageFits
<1>4. FramesAreReal({Id}, PageBody) /\ CourseInv({Id})
  BY DEF QuietInv, DetailIInv, DetailFrames
<1>5. CourseInv({Id})' /\ KeepsCourse  BY <1>1, <1>4, TakeFrameCourse
<1>6. f.kind \in {"snapshot", "update"}
  <2>1. \/ \E answer \in [{Id} -> PageBody] : f = Snapshot(answer)
        \/ \E e \in About({Id}) : f = Update(e)
    BY <1>1, <1>4, FirstFrame
  <2> HIDE DEF f
  <2>2. QED  BY <2>1 DEF Snapshot, Update
<1>7. f.kind = "update" => \E j \in 1 .. relayed : f.body = bus[j] /\ bus[j].match = Id
  <2>1. 1 \in DOMAIN frames
    <3> DEFINE S == Frame({Id}, PageBody)
    <3>1. frames \in Seq(S)  BY <1>4 DEF FramesAreReal
    <3> HIDE DEF S
    <3>2. QED  BY <1>1, <3>1
  <2>2. QED  BY <1>4, <2>1 DEF CourseInv, FramesRelayed
<1> HIDE DEF f
<1>8. f.kind = "snapshot" => /\ page'.match = f.body[Id] /\ page'.lastSequence = page.lastSequence
                             /\ page'.step = "live"
  BY <1>1, <1>3 DEF Page
<1>9. PageBehind'
  <2>1. CASE f.kind = "snapshot"
    BY <1>1, <1>3, <1>8, <2>1 DEF QuietInv, PageBehind
  <2>2. CASE f.kind = "update"
    <3>1. PICK j \in 1 .. relayed : f.body = bus[j] /\ bus[j].match = Id  BY <1>7, <2>2
    <3> DEFINE e == bus[j]
    <3>2. page' = OnUpdate(e)  BY <1>1, <2>2, <3>1
    <3>3. e \in Event /\ e.sequence \in Nat  BY <1>2, EventsAssumption DEF Event
    <3> HIDE DEF e
    <3>4. page'.lastSequence \in {page.lastSequence, e.sequence}
      <4> DEFINE body == PageReduce(page.match, e)
                 longer == Append(page.events, e)
      <4>1. page' = page \/ page' = [page EXCEPT !.match = body, !.events = longer,
                                                 !.lastSequence = e.sequence]
        BY <3>2 DEF OnUpdate
      <4> HIDE DEF body, longer
      <4>2. QED  BY <1>3, <4>1 DEF Page
    <3>5. Behind(Id, e.sequence, bus, relayed)  BY <3>1, <3>3 DEF Behind, e
    <3>6. QED  BY <1>1, <1>3, <3>4, <3>5 DEF QuietInv, PageBehind
  <2>3. QED  BY <1>6, <2>1, <2>2
<1>10. ReadBehind'  BY <1>1 DEF ReadBehind
<1>11. StreamingTracks'
  <2> SUFFICES ASSUME aligned, intact, Ascending
               PROVE  \E h, o, shown, last : PageOnCourse(h, o, shown, last)'
    BY <1>1 DEF StreamingTracks, Ascending
  <2>1. PICK h, o, shown, last : PageOnCourse(h, o, shown, last)
    BY <1>1 DEF QuietInv, StreamingTracks
  <2>2. h \in Nat /\ h <= relayed /\ o \in {0, 1} /\ h \in 0 .. relayed /\ h \in 0 .. Len(bus)
    BY <1>2, <2>1 DEF PageOnCourse, InStep
  <2>3. CASE o = 1
    <3>1. f.kind = "snapshot" /\ f.body[Id] = shown
      BY <2>1, <2>3 DEF PageOnCourse, InStep, f
    <3>2. InStep({Id}, h, 0)'  BY <1>1, <1>4, <2>1, <2>3, SnapshotTaken DEF PageOnCourse
    <3>3. OnCourse(Id, h, shown, last)'
      BY <1>5, <2>1, <2>2, DetailAssumption DEF KeepsCourse, PageOnCourse
    <3>4. PageOnCourse(h, 0, shown, last)'
      BY <1>8, <2>1, <3>1, <3>2, <3>3 DEF PageOnCourse
    <3>5. QED  BY <3>4
  <2>4. CASE o = 0
    <3>1. page.match = shown /\ InStep({Id}, h, 0) /\ OnCourse(Id, h, shown, last)
          /\ last = page.lastSequence /\ Behind(Id, last, bus, h)
      BY <2>1, <2>4 DEF PageOnCourse, OnCourse
    <3>2. PICK k \in h + 1 .. relayed : Advances({Id}, h, k)
      BY <1>1, <1>2, <1>4, <3>1, UpdateTaken
    <3>3. page' = OnUpdate(bus[k]) /\ bus[k].match = Id
      BY <1>1, <3>2 DEF Advances, Update, f
    <3>4. k \in h + 1 .. Len(bus)  BY <1>2, <2>2
    <3>5. PICK new, next : new = page'.match /\ next = page'.lastSequence  OBVIOUS
    <3>6. new = Step(Id, shown, bus[k]) /\ Behind(Id, next, bus, k)
      BY <1>2, <1>3, <2>2, <3>1, <3>3, <3>4, <3>5, UpdateTracks
    <3>7. OnCourse(Id, k, new, next)'
      <4>1. Id \in {Id}  OBVIOUS
      <4>2. QED  BY <1>1, <1>2, <2>2, <3>1, <3>2, <3>6, <4>1, UpdateFollowed
    <3>8. PageOnCourse(k, 0, new, next)'
      BY <3>2, <3>5, <3>7 DEF PageOnCourse, Advances
    <3>9. QED  BY <3>8
  <2>5. QED  BY <2>2, <2>3, <2>4
<1>12. QED  BY <1>5, <1>9, <1>10, <1>11

LEMMA QuietAtRest ==
  ASSUME QuietInv, UNCHANGED detailVars
  PROVE  CourseInv({Id})' /\ PageBehind' /\ ReadBehind' /\ StreamingTracks'
<1>1. UNCHANGED <<rows, bus, applied, relayed, conn, frames, from>>
      /\ aligned' = aligned /\ intact' = intact /\ page' = page
  BY DEF detailVars, streamVars, logVars, connVars
<1>2. CourseInv({Id})' /\ KeepsStep({Id}) /\ KeepsCourse
  BY <1>1, RestCourse DEF QuietInv
<1>3. PageBehind' /\ ReadBehind'  BY <1>1 DEF QuietInv, PageBehind, ReadBehind
<1>4. StreamingTracks'
  <2>1. ASSUME NEW h, NEW o, NEW shown, NEW last, PageOnCourse(h, o, shown, last)
        PROVE  PageOnCourse(h, o, shown, last)'
    <3>1. h \in 0 .. relayed
      BY <2>1 DEF PageOnCourse, InStep, QuietInv, DetailIInv, StreamInv, StreamTypes
    <3>2. InStep({Id}, h, o)'  BY <1>2, <2>1 DEF KeepsStep, PageOnCourse
    <3>3. OnCourse(Id, h, shown, last)'
      BY <1>2, <2>1, <3>1, DetailAssumption DEF KeepsCourse, PageOnCourse
    <3>4. QED  BY <1>1, <2>1, <3>2, <3>3 DEF PageOnCourse
  <2>2. QED  BY <1>1, <2>1 DEF QuietInv, StreamingTracks, Ascending
<1>5. QED  BY <1>2, <1>3, <1>4

LEMMA CourseInvInit ==
  ASSUME NEW F, StreamInit
  PROVE  CourseInv(F)
BY DEF StreamInit, LogInit, CourseInv, RowsBehind, FramesRelayed, Waiting

LEMMA QuietInvInit == DetailInit => QuietInv
<1> SUFFICES ASSUME DetailInit PROVE QuietInv  OBVIOUS
<1>1. DetailIInv  BY DetailIInvInit
<1>2. CourseInv({Id})  BY CourseInvInit DEF DetailInit
<1>3. page.step = "blank" /\ conn = "closed"  BY DEF DetailInit, StreamInit, Blank
<1>4. QED  BY <1>1, <1>2, <1>3 DEF QuietInv, PageBehind, ReadBehind, StreamingTracks

LEMMA QuietInvStep == QuietInv /\ [DetailNext]_detailVars => QuietInv'
<1> SUFFICES ASSUME QuietInv, [DetailNext]_detailVars PROVE QuietInv'
  OBVIOUS
<1>1. DetailIInv'  BY DetailIInvStep DEF QuietInv
<1>2. CourseInv({Id})' /\ PageBehind' /\ ReadBehind' /\ StreamingTracks'
  BY QuietElsewhere, QuietOpenMatch, QuietOpenEvents, QuietConnect, QuietHandle, QuietAtRest
  DEF DetailNext
<1>3. QED  BY <1>1, <1>2 DEF QuietInv

\* When all is settled, both are at the end of it.
LEMMA QuietAgrees ==
  ASSUME QuietInv
  PROVE  QuietConnectAgrees
<1> SUFFICES ASSUME Settled, aligned, intact, Ascending PROVE page.match = Body(rows[Id])
  BY DEF QuietConnectAgrees
<1>1. PICK h, o, shown, last : PageOnCourse(h, o, shown, last)
  BY DEF QuietInv, StreamingTracks, Settled
<1>2. InStep({Id}, h, o) /\ OnCourse(Id, h, shown, last) /\ StreamInv
  BY <1>1 DEF PageOnCourse, QuietInv, DetailIInv
<1>3. o = 0  BY <1>2, SettledInStep
<1>4. shown = Body(rows[Id])
  <2>1. Id \in {Id}  OBVIOUS
  <2>2. QED  BY <1>2, <2>1, SettledAgrees
<1>5. QED  BY <1>1, <1>3, <1>4 DEF PageOnCourse

\* A page that connected at a quiet moment is right once everything is handled: the
\* score, status and clock that it reduced for itself are match-service's, however
\* the two have overtaken each other in between and whatever the page missed before.
THEOREM QuietPagesAgree == DetailSpec => []QuietConnectAgrees
<1>1. QED  BY QuietInvInit, QuietInvStep, QuietAgrees, PTL DEF DetailSpec

-----------------------------------------------------------------------------
(* LiveMatchList: its types.                                                  *)

ListFrames == FramesAreReal(Matches, ListBody)

\* Only a mounted page has a connection.
ListConnects == ~ mounted => conn = "closed"

ListIInv == StreamInv /\ ListFrames /\ ListTypeOK /\ ListConnects

\* What the page keeps for itself.
OwnTypes ==
  /\ mounted \in BOOLEAN /\ fetched \subseteq Matches
  /\ matches \in [Matches -> ListBody] /\ lastSequence \in [Matches -> Nat]

Fetch == [step : {"none", "asked", "answered", "failed"}, body : ListBody]

FetchTypes ==
  /\ fetch \in [Matches -> Fetch]
  /\ \A m \in Matches : fetch[m].step = "answered" <=> fetch[m].body # NoRow

LEMMA ListTypesAre == ListTypeOK <=> StreamTypes /\ OwnTypes /\ FetchTypes
BY DEF ListTypeOK, OwnTypes, FetchTypes, Fetch

LEMMA RowIsShown ==
  ASSUME StreamInv, NEW m \in Matches, rows[m] # NoRow
  PROVE  Body(rows[m]) \in PageBody /\ Body(rows[m]) # NoRow
<1>1. rows[m] \in Row  BY DEF StreamInv, LogInv, LogTypeOK
<1>2. QED  BY <1>1, BodyType, ListAssumption

LEMMA AnswerType ==
  ASSUME StreamInv
  PROVE  Answer(Matches) \in [Matches -> ListBody]
BY RowIsShown DEF Answer, ListBody

LEMMA OpenStep ==
  ASSUME ListIInv, Open
  PROVE  ListIInv'
<1>1. /\ matches' = Answer(Matches) /\ mounted' = TRUE
      /\ UNCHANGED <<lastSequence, fetch, fetched>> /\ UNCHANGED streamVars
  BY DEF Open
<1>2. StreamInv' /\ ListFrames'
  BY <1>1, StreamAtRest DEF ListIInv, ListFrames, StreamInv, StreamTypes, streamVars, connVars
<1>3. OwnTypes /\ FetchTypes  BY ListTypesAre DEF ListIInv
<1>4. OwnTypes'  BY <1>1, <1>3, AnswerType DEF OwnTypes, ListIInv
<1>5. FetchTypes'  BY <1>1, <1>3 DEF FetchTypes
<1>6. ListTypeOK'  BY <1>2, <1>4, <1>5 DEF ListTypeOK, OwnTypes, FetchTypes, Fetch, StreamInv
<1>7. QED  BY <1>1, <1>2, <1>6 DEF ListIInv, ListConnects

LEMMA ConnectAllStep ==
  ASSUME ListIInv, ConnectAll
  PROVE  ListIInv'
<1>1. /\ mounted /\ Register
      /\ UNCHANGED <<mounted, matches, lastSequence, fetch, fetched>>
  BY DEF ConnectAll, pageVars
<1>2. StreamInv' /\ ListFrames'  BY <1>1, RegisterStep DEF ListIInv, ListFrames
<1>3. OwnTypes /\ FetchTypes  BY ListTypesAre DEF ListIInv
<1>4. OwnTypes' /\ FetchTypes'  BY <1>1, <1>3 DEF OwnTypes, FetchTypes
<1>5. ListTypeOK'  BY <1>2, <1>4 DEF ListTypeOK, OwnTypes, FetchTypes, Fetch, StreamInv
<1>6. QED  BY <1>1, <1>2, <1>5 DEF ListIInv, ListConnects

LEMMA HandleSnapshotStep ==
  ASSUME ListIInv, HandleSnapshot
  PROVE  ListIInv'
<1>1. /\ TakeFrame /\ frames # <<>> /\ conn' = conn
      /\ frames[1].kind = "snapshot" /\ matches' = frames[1].body /\ fetched' = {}
      /\ UNCHANGED <<mounted, lastSequence, fetch>>
  BY DEF HandleSnapshot, TakeFrame
<1>2. StreamInv' /\ ListFrames'  BY <1>1, TakeFrameStep DEF ListIInv, ListFrames
<1>3. OwnTypes /\ FetchTypes  BY ListTypesAre DEF ListIInv
<1>4. frames[1].body \in [Matches -> ListBody]
  <2> DEFINE answers == [Matches -> ListBody]
  <2>1. \/ \E answer \in answers : frames[1] = Snapshot(answer)
        \/ \E e \in About(Matches) : frames[1] = Update(e)
    BY <1>1, FirstFrame DEF ListIInv, ListFrames
  <2> HIDE DEF answers
  <2>2. PICK answer \in answers : frames[1] = Snapshot(answer)
    <3>1. \A e : Update(e).kind = "update"  BY DEF Update
    <3>2. QED  BY <1>1, <2>1, <3>1
  <2>3. frames[1].body \in answers  BY <2>2 DEF Snapshot
  <2>4. QED  BY <2>3 DEF answers
<1>5. OwnTypes'  BY <1>1, <1>3, <1>4 DEF OwnTypes
<1>6. FetchTypes'  BY <1>1, <1>3 DEF FetchTypes
<1>7. ListTypeOK'  BY <1>2, <1>5, <1>6 DEF ListTypeOK, OwnTypes, FetchTypes, Fetch, StreamInv
<1>8. QED  BY <1>1, <1>2, <1>7 DEF ListIInv, ListConnects

\* What an update of the list is.
LEMMA HandleUpdateIs ==
  ASSUME ListIInv, HandleUpdate
  PROVE  \E e \in About(Matches) : frames[1] = Update(e)
<1>1. TakeFrame /\ frames # <<>> /\ frames[1].kind = "update"  BY DEF HandleUpdate, TakeFrame
<1> DEFINE answers == [Matches -> ListBody]
<1>2. \/ \E answer \in answers : frames[1] = Snapshot(answer)
      \/ \E e \in About(Matches) : frames[1] = Update(e)
  BY <1>1, FirstFrame DEF ListIInv, ListFrames
<1> HIDE DEF answers
<1>3. \A answer : Snapshot(answer).kind = "snapshot"  BY DEF Snapshot
<1>4. QED  BY <1>1, <1>2, <1>3

\* It is ignored, reduced into the match, or makes the page ask for the match.
LEMMA HandleUpdateEffect ==
  ASSUME HandleUpdate, NEW e, frames[1] = Update(e)
  PROVE  \/ Ignored(e) /\ UNCHANGED <<matches, lastSequence, fetch>>
         \/ /\ ~ Ignored(e) /\ matches[e.match] # NoRow
            /\ lastSequence' = [lastSequence EXCEPT ![e.match] = e.sequence]
            /\ matches' = [matches EXCEPT ![e.match] = PageReduce(matches[e.match], e)]
            /\ fetch' = fetch
         \/ /\ ~ Ignored(e) /\ matches[e.match] = NoRow /\ matches' = matches
            /\ lastSequence' = [lastSequence EXCEPT ![e.match] = e.sequence]
            /\ \/ fetch' = fetch
               \/ /\ fetch[e.match].step = "none"
                  /\ fetch' = [fetch EXCEPT ![e.match].step = "asked"]
<1>1. frames[1].body = e  BY DEF Update
<1>2. QED  BY <1>1 DEF HandleUpdate

LEMMA HandleUpdateStep ==
  ASSUME ListIInv, HandleUpdate
  PROVE  ListIInv'
<1>1. /\ TakeFrame /\ frames # <<>> /\ conn' = conn
      /\ UNCHANGED <<mounted, fetched>>
  BY DEF HandleUpdate, TakeFrame
<1>2. StreamInv' /\ ListFrames'  BY <1>1, TakeFrameStep DEF ListIInv, ListFrames
<1>3. OwnTypes /\ FetchTypes  BY ListTypesAre DEF ListIInv
<1>4. PICK e \in About(Matches) : frames[1] = Update(e)  BY HandleUpdateIs
<1>5. e \in Event /\ e.match \in Matches /\ e.sequence \in Nat
  BY EventsAssumption DEF About, Published, Event
<1>6. matches' \in [Matches -> ListBody] /\ lastSequence' \in [Matches -> Nat]
  <2>1. matches[e.match] # NoRow => PageReduce(matches[e.match], e) \in PageBody
    BY <1>3, <1>5, PageReduceType DEF OwnTypes, ListBody
  <2> DEFINE reduced == PageReduce(matches[e.match], e)
  <2>2. \/ matches' = matches
        \/ matches[e.match] # NoRow /\ matches' = [matches EXCEPT ![e.match] = reduced]
    BY <1>4, HandleUpdateEffect
  <2>5. \/ lastSequence' = lastSequence
        \/ lastSequence' = [lastSequence EXCEPT ![e.match] = e.sequence]
    BY <1>4, HandleUpdateEffect
  <2> HIDE DEF reduced
  <2>3. matches[e.match] # NoRow => reduced \in ListBody  BY <2>1 DEF ListBody, reduced
  <2>4. QED  BY <1>3, <1>5, <2>2, <2>3, <2>5 DEF OwnTypes
<1>7. OwnTypes'  BY <1>1, <1>3, <1>6 DEF OwnTypes
<1>8. FetchTypes'
  <2>1. \/ fetch' = fetch
        \/ fetch[e.match].step = "none" /\ fetch' = [fetch EXCEPT ![e.match].step = "asked"]
    BY <1>4, HandleUpdateEffect
  <2>2. QED  BY <1>3, <1>5, <2>1 DEF FetchTypes, Fetch
<1>9. ListTypeOK'  BY <1>2, <1>7, <1>8 DEF ListTypeOK, OwnTypes, FetchTypes, Fetch, StreamInv
<1>10. QED  BY <1>1, <1>2, <1>9 DEF ListIInv, ListConnects

\* A request leaves the stream alone, or learns that something was lost.
LEMMA FetchSteps ==
  ASSUME ListIInv, NEW m \in Matches, FetchStep(m) \/ FailFetch(m)
  PROVE  ListIInv'
<1>1. UNCHANGED <<logVars, bus, frames, applied, relayed, conn, connects, from, aligned>>
      /\ mounted' = mounted /\ lastSequence' = lastSequence
  BY DEF FetchStep, AnswerFetch, PutFetched, ForgetFetch, FailFetch, streamVars, connVars
<1>2. intact' \in BOOLEAN
  BY DEF FetchStep, AnswerFetch, PutFetched, ForgetFetch, FailFetch, streamVars, connVars,
         ListIInv, StreamInv, StreamTypes
<1>3. StreamInv' /\ ListFrames'  BY <1>1, <1>2, StreamAtRest DEF ListIInv, ListFrames
<1>4. OwnTypes /\ FetchTypes /\ StreamInv  BY ListTypesAre DEF ListIInv
<1>5. OwnTypes'
  <2>1. CASE PutFetched(m)
    <3>1. fetch[m].body \in ListBody  BY <1>4 DEF FetchTypes, Fetch
    <3>2. matches' = [matches EXCEPT ![m] = fetch[m].body] /\ fetched' = fetched \cup {m}
      BY <2>1 DEF PutFetched
    <3>3. QED  BY <1>1, <1>4, <3>1, <3>2 DEF OwnTypes
  <2>2. CASE ~ PutFetched(m)
    <3>1. matches' = matches /\ fetched' = fetched
      BY <2>2 DEF FetchStep, AnswerFetch, ForgetFetch, FailFetch
    <3>2. QED  BY <1>1, <1>4, <3>1 DEF OwnTypes
  <2>3. QED  BY <2>1, <2>2
<1>6. FetchTypes'
  <2> SUFFICES ASSUME NEW new, fetch' = [fetch EXCEPT ![m] = new]
               PROVE  new \in Fetch /\ (new.step = "answered" <=> new.body # NoRow)
    <3>1. \E new : fetch' = [fetch EXCEPT ![m] = new]
      BY DEF FetchStep, AnswerFetch, PutFetched, ForgetFetch, FailFetch
    <3>2. QED  BY <1>4, <3>1 DEF FetchTypes
  <2>1. new = fetch'[m] /\ fetch[m] \in Fetch
        /\ (fetch[m].step = "answered" <=> fetch[m].body # NoRow)
    BY <1>4 DEF FetchTypes
  <2>2. CASE AnswerFetch(m) /\ rows[m] = NoRow
    <3>1. fetch[m].step = "asked" /\ new = [fetch[m] EXCEPT !.step = "failed"]
      BY <1>4, <2>1, <2>2 DEF AnswerFetch, FetchTypes
    <3>2. QED  BY <2>1, <3>1 DEF Fetch
  <2>3. CASE AnswerFetch(m) /\ rows[m] # NoRow
    <3> DEFINE body == Body(rows[m])
    <3>1. body \in ListBody /\ body # NoRow  BY <1>4, <2>3, RowIsShown DEF ListBody
    <3>2. new = [step |-> "answered", body |-> body]
      BY <1>4, <2>1, <2>3 DEF AnswerFetch, FetchTypes
    <3> HIDE DEF body
    <3>3. QED  BY <3>1, <3>2 DEF Fetch
  <2>4. CASE FailFetch(m)
    <3>1. fetch[m].step = "asked" /\ new = [fetch[m] EXCEPT !.step = "failed"]
      BY <1>4, <2>1, <2>4 DEF FailFetch, FetchTypes
    <3>2. QED  BY <2>1, <3>1 DEF Fetch
  <2>5. CASE PutFetched(m) \/ ForgetFetch(m)
    <3>1. new = NoFetch  BY <1>4, <2>1, <2>5 DEF PutFetched, ForgetFetch, FetchTypes
    <3>2. QED  BY <3>1 DEF Fetch, NoFetch, ListBody
  <2>6. QED  BY <2>2, <2>3, <2>4, <2>5 DEF FetchStep
<1>7. ListTypeOK'  BY <1>3, <1>5, <1>6 DEF ListTypeOK, OwnTypes, FetchTypes, Fetch, StreamInv
<1>8. QED  BY <1>1, <1>3, <1>7 DEF ListIInv, ListConnects

LEMMA ListIInvInit == ListInit => ListIInv
<1> SUFFICES ASSUME ListInit PROVE ListIInv  OBVIOUS
<1>1. StreamInv /\ ListFrames  BY StreamInvInit DEF ListInit, ListFrames
<1>2. OwnTypes  BY DEF ListInit, OwnTypes, ListBody
<1>3. FetchTypes
  <2>1. NoFetch \in Fetch /\ NoFetch.step # "answered" /\ NoFetch.body = NoRow
    BY DEF NoFetch, Fetch, ListBody
  <2>2. fetch = [m \in Matches |-> NoFetch]  BY DEF ListInit
  <2>3. QED  BY <2>1, <2>2 DEF FetchTypes
<1>4. ListTypeOK  BY <1>1, <1>2, <1>3, ListTypesAre DEF StreamInv
<1>5. ListConnects  BY DEF ListInit, StreamInit, ListConnects
<1>6. QED  BY <1>1, <1>4, <1>5 DEF ListIInv

LEMMA ListIInvStep == ListIInv /\ [ListNext]_listVars => ListIInv'
<1> SUFFICES ASSUME ListIInv, [ListNext]_listVars PROVE ListIInv'
  OBVIOUS
<1>1. CASE Elsewhere(Matches) /\ UNCHANGED pageVars
  <2>1. StreamInv' /\ ListFrames'
    BY <1>1, AnswerType, ElsewhereStep DEF ListIInv, ListFrames
  <2>2. UNCHANGED <<mounted, matches, lastSequence, fetch, fetched>>
    BY <1>1 DEF pageVars
  <2>3. OwnTypes /\ FetchTypes  BY ListTypesAre DEF ListIInv
  <2>4. OwnTypes' /\ FetchTypes'  BY <2>2, <2>3 DEF OwnTypes, FetchTypes
  <2>5. ListTypeOK'  BY <2>1, <2>4 DEF ListTypeOK, OwnTypes, FetchTypes, Fetch, StreamInv
  <2>6. conn = "closed" => conn' = "closed"  BY <1>1, ClosedStays
  <2>7. QED  BY <2>1, <2>2, <2>5, <2>6 DEF ListIInv, ListConnects
<1>2. CASE UNCHANGED listVars
  <2>1. /\ UNCHANGED <<logVars, bus, frames, applied, relayed, conn, connects, from, aligned>>
        /\ intact' = intact /\ UNCHANGED <<mounted, matches, lastSequence, fetch, fetched>>
    BY <1>2 DEF listVars, streamVars, connVars, pageVars
  <2>2. StreamInv' /\ ListFrames'
    BY <2>1, StreamAtRest DEF ListIInv, ListFrames, StreamInv, StreamTypes
  <2>3. OwnTypes /\ FetchTypes  BY ListTypesAre DEF ListIInv
  <2>4. OwnTypes' /\ FetchTypes'  BY <2>1, <2>3 DEF OwnTypes, FetchTypes
  <2>5. ListTypeOK'  BY <2>2, <2>4 DEF ListTypeOK, OwnTypes, FetchTypes, Fetch, StreamInv
  <2>6. QED  BY <2>1, <2>2, <2>5 DEF ListIInv, ListConnects
<1>3. QED
  BY <1>1, <1>2, OpenStep, ConnectAllStep, HandleSnapshotStep, HandleUpdateStep, FetchSteps
  DEF ListNext

-----------------------------------------------------------------------------
(* LiveMatchList: where a list that connected at a quiet moment stands.       *)

Known(m, last, q, n) == last = 0 \/ Behind(m, last, q, n)

ListBehind == \A m \in Matches : Known(m, lastSequence[m], bus, relayed)

ListReadBehind == conn = "registered" => \A m \in Matches : Known(m, lastSequence[m], bus, from)

\* The match as the snapshot that is the first frame shows it, or as the list does
\* if it has not been fetched.
Shows(m, o, shown) == /\ shown # NoRow
                      /\ IF o = 1 THEN shown = frames[1].body[m]
                                  ELSE m \notin fetched /\ shown = matches[m]

ListOnCourse(h, o) ==
  /\ InStep(Matches, h, o)
  /\ \A m \in Matches : \A shown, last :
       Shows(m, o, shown) /\ last = lastSequence[m] => OnCourse(m, h, shown, last)

ListTracks ==
  conn = "streaming" /\ aligned /\ intact /\ Ascending => \E h, o : ListOnCourse(h, o)

ListCourse == CourseInv(Matches) /\ ListBehind /\ ListReadBehind /\ ListTracks

ListQuiet == ListIInv /\ ListCourse

\* A step outside the page.
LEMMA ListElsewhere ==
  ASSUME ListQuiet, Elsewhere(Matches), UNCHANGED pageVars
  PROVE  ListCourse'
<1>1. StreamInv /\ FramesAreReal(Matches, ListBody) /\ CourseInv(Matches)
      /\ UNCHANGED <<matches, lastSequence, fetched>>
  BY DEF ListQuiet, ListCourse, ListIInv, ListFrames, pageVars
<1>2. Answer(Matches) \in [Matches -> ListBody]  BY <1>1, AnswerType
<1>3. CourseInv(Matches)'  BY <1>1, <1>2, ElsewhereCourse
<1>4. relayed \in 0 .. Len(bus) /\ from \in 0 .. Len(bus) /\ from \in Nat
  BY <1>1 DEF StreamInv, StreamTypes
<1>5. bus' = bus \/ \E e \in Events : bus' = Append(bus, e)  BY <1>1, StreamTypesStep
<1>6. /\ relayed <= relayed' /\ relayed' \in Nat
      /\ conn' = "registered" => conn = "registered" /\ from' = from
  BY <1>1, CountersGrow
<1>7. \A m, last : Behind(m, last, bus, relayed) => Behind(m, last, bus', relayed')
  BY <1>1, <1>4, <1>5, <1>6, BehindKept
<1>8. \A m, last : Behind(m, last, bus, from) => Behind(m, last, bus', from)
  BY <1>1, <1>4, <1>5, BehindKept
<1>9. ListBehind'  BY <1>1, <1>7 DEF ListQuiet, ListCourse, ListBehind, Known
<1>10. ListReadBehind'
  BY <1>1, <1>6, <1>8 DEF ListQuiet, ListCourse, ListReadBehind, Known
<1>11. ListTracks'
  <2> SUFFICES ASSUME conn' = "streaming", aligned', intact', Ascending'
               PROVE  \E h, o : ListOnCourse(h, o)'
    BY DEF ListTracks
  <2>1. CASE conn = "streaming"
    <3>1. aligned' = aligned /\ intact /\ Ascending /\ KeepsStep(Matches) /\ KeepsCourse
      BY <1>1, <2>1, ElsewhereKeeps
    <3>2. PICK h, o : ListOnCourse(h, o)
      BY <2>1, <3>1 DEF ListQuiet, ListCourse, ListTracks
    <3>3. InStep(Matches, h, o)' /\ (o = 1 => frames'[1] = frames[1])
      BY <3>1, <3>2 DEF KeepsStep, ListOnCourse
    <3>4. h \in 0 .. relayed  BY <3>2, <1>4 DEF ListOnCourse, InStep
    <3>5. ASSUME NEW m \in Matches, NEW shown, NEW last, Shows(m, o, shown)', last = lastSequence'[m]
          PROVE  OnCourse(m, h, shown, last)'
      <4>1. Shows(m, o, shown)  BY <1>1, <3>3, <3>5 DEF Shows
      <4>2. OnCourse(m, h, shown, last)  BY <1>1, <3>2, <3>5, <4>1 DEF ListOnCourse
      <4>3. QED  BY <3>1, <3>4, <4>2 DEF KeepsCourse
    <3>6. ListOnCourse(h, o)'  BY <3>3, <3>5 DEF ListOnCourse
    <3>7. QED  BY <3>6
  <2>2. CASE conn # "streaming"
    <3>1. WriteSnapshot(Matches)
      BY <2>2
      DEF Elsewhere, Publish, Apply, Miss, Relay, Drop, Refuse, Disconnect, Over, connVars
    <3>2. PICK h : Starts(Matches, h)  BY <1>1, <1>2, <3>1, SnapshotStarts
    <3>3. frames'[1] = Snapshot(Answer(Matches))  BY <1>1, <1>2, <3>1, SnapshotCourse
    <3>4. conn = "registered" /\ rows' = rows  BY <3>1 DEF WriteSnapshot, logVars
    <3>5. frames'[1].body = Answer(Matches)  BY <3>3 DEF Snapshot
    <3>6. ASSUME NEW m \in Matches, NEW shown, NEW last, Shows(m, 1, shown)', last = lastSequence'[m]
          PROVE  OnCourse(m, h, shown, last)'
      <4>1. rows[m] # NoRow /\ shown = Body(rows[m])
        BY <3>5, <3>6 DEF Shows, Answer
      <4>2. Known(m, last, bus, h)
        BY <1>1, <3>2, <3>4, <3>6 DEF Starts, ListQuiet, ListCourse, ListReadBehind
      <4>3. Behind(m, last, bus, h)
        <5>1. Behind(m, rows[m].lastSequence, bus, h)  BY <3>2, <4>1 DEF Starts
        <5>2. rows[m].lastSequence \in Nat
          BY <1>1, <4>1 DEF StreamInv, LogInv, LogTypeOK, Row
        <5>3. PICK j \in 1 .. h : bus[j].match = m /\ rows[m].lastSequence <= bus[j].sequence
          BY <5>1 DEF Behind
        <5>4. bus[j].sequence \in Nat
          <6>1. j \in DOMAIN bus
            BY <1>1, <3>2 DEF Starts, StreamInv, StreamTypes
          <6>2. bus[j] \in Events  BY <1>1, <6>1 DEF StreamInv, StreamTypes
          <6>3. QED  BY <6>2, EventsAssumption DEF Event
        <5>5. Behind(m, 0, bus, h)  BY <5>3, <5>4 DEF Behind
        <5>6. QED  BY <4>2, <5>5 DEF Known
      <4>4. QED  BY <3>2, <4>1, <4>3 DEF Starts
    <3>7. ListOnCourse(h, 1)'  BY <3>2, <3>6 DEF ListOnCourse, Starts
    <3>8. QED  BY <3>7
  <2>3. QED  BY <2>1, <2>2
<1>12. QED  BY <1>3, <1>9, <1>10, <1>11 DEF ListCourse

\* The server renders the list before anything is connected.
LEMMA ListOpen ==
  ASSUME ListQuiet, Open
  PROVE  ListCourse'
<1>1. /\ ~ mounted /\ lastSequence' = lastSequence /\ UNCHANGED streamVars
  BY DEF Open
<1>2. conn = "closed"  BY <1>1 DEF ListQuiet, ListIInv, ListConnects
<1>3. UNCHANGED <<rows, bus, applied, relayed, conn, frames, from>> /\ intact' = intact
  BY <1>1 DEF streamVars, logVars, connVars
<1>4. CourseInv(Matches)'  BY <1>3, RestCourse DEF ListQuiet, ListCourse
<1>5. ListBehind'  BY <1>1, <1>3 DEF ListQuiet, ListCourse, ListBehind
<1>6. QED  BY <1>2, <1>3, <1>4, <1>5 DEF ListCourse, ListReadBehind, ListTracks

LEMMA ListConnect ==
  ASSUME ListQuiet, ConnectAll
  PROVE  ListCourse'
<1>1. /\ Register /\ from' = relayed /\ lastSequence' = lastSequence
      /\ UNCHANGED <<bus, relayed>>
  BY DEF ConnectAll, Register, pageVars
<1>2. CourseInv(Matches)' /\ conn' # "streaming"
  BY <1>1, RegisterCourse DEF ListQuiet, ListCourse, ListIInv
<1>3. ListBehind' /\ ListReadBehind'
  BY <1>1 DEF ListQuiet, ListCourse, ListBehind, ListReadBehind
<1>4. QED  BY <1>2, <1>3 DEF ListCourse, ListTracks

\* A fetch takes a match out of what is claimed.
LEMMA ListRest ==
  ASSUME ListQuiet, UNCHANGED <<rows, bus, applied, relayed, conn, frames, from>>,
         aligned' = aligned, intact' => intact, lastSequence' = lastSequence,
         \A m \in Matches : m \notin fetched' => m \notin fetched /\ matches'[m] = matches[m]
  PROVE  ListCourse'
<1>1. CourseInv(Matches)' /\ KeepsStep(Matches) /\ KeepsCourse
  BY RestCourse DEF ListQuiet, ListCourse
<1>2. ListBehind' /\ ListReadBehind'
  BY DEF ListQuiet, ListCourse, ListBehind, ListReadBehind
<1>3. ASSUME NEW h, NEW o, ListOnCourse(h, o)
      PROVE  ListOnCourse(h, o)'
  <2>1. h \in 0 .. relayed
    BY <1>3 DEF ListOnCourse, InStep, ListQuiet, ListIInv, StreamInv, StreamTypes
  <2>2. InStep(Matches, h, o)'  BY <1>1, <1>3 DEF KeepsStep, ListOnCourse
  <2>3. ASSUME NEW m \in Matches, NEW shown, NEW last, Shows(m, o, shown)', last = lastSequence'[m]
        PROVE  OnCourse(m, h, shown, last)'
    <3>1. Shows(m, o, shown)  BY <2>3 DEF Shows
    <3>2. OnCourse(m, h, shown, last)  BY <1>3, <2>3, <3>1 DEF ListOnCourse
    <3>3. QED  BY <1>1, <2>1, <3>2 DEF KeepsCourse
  <2>4. QED  BY <2>2, <2>3 DEF ListOnCourse
<1>4. ListTracks'
  <2> SUFFICES ASSUME conn' = "streaming", aligned', intact', Ascending'
               PROVE  \E h, o : ListOnCourse(h, o)'
    BY DEF ListTracks
  <2>1. Ascending  BY DEF Ascending
  <2>2. PICK h, o : ListOnCourse(h, o)  BY <2>1 DEF ListQuiet, ListCourse, ListTracks
  <2>3. ListOnCourse(h, o)'  BY <1>3, <2>2
  <2>4. QED  BY <2>3
<1>5. QED  BY <1>1, <1>2, <1>4 DEF ListCourse

LEMMA ListFetch ==
  ASSUME ListQuiet, NEW m \in Matches, FetchStep(m) \/ FailFetch(m)
  PROVE  ListCourse'
<1>1. /\ UNCHANGED <<rows, bus, applied, relayed, conn, frames, from>>
      /\ aligned' = aligned /\ lastSequence' = lastSequence
  BY DEF FetchStep, AnswerFetch, PutFetched, ForgetFetch, FailFetch, streamVars, connVars, logVars
<1>2. intact' => intact
  BY DEF FetchStep, AnswerFetch, PutFetched, ForgetFetch, FailFetch, streamVars, connVars
<1>3. \A x \in Matches : x \notin fetched' => x \notin fetched /\ matches'[x] = matches[x]
  <2>1. CASE PutFetched(m)
    <3>1. matches' = [matches EXCEPT ![m] = fetch[m].body] /\ fetched' = fetched \cup {m}
      BY <2>1 DEF PutFetched
    <3>2. matches \in [Matches -> ListBody]
      BY DEF ListQuiet, ListIInv, ListTypeOK
    <3>3. QED  BY <3>1, <3>2
  <2>2. CASE ~ PutFetched(m)
    BY <2>2 DEF FetchStep, AnswerFetch, ForgetFetch, FailFetch
  <2>3. QED  BY <2>1, <2>2
<1>4. QED  BY <1>1, <1>2, <1>3, ListRest

\* A snapshot comes first: the list becomes what it shows.
LEMMA ListSnapshot ==
  ASSUME ListQuiet, HandleSnapshot
  PROVE  ListCourse'
<1>1. /\ TakeFrame /\ frames[1].kind = "snapshot" /\ matches' = frames[1].body
      /\ lastSequence' = lastSequence
      /\ conn = "streaming" /\ UNCHANGED <<bus, relayed, conn, aligned, intact>>
  BY DEF HandleSnapshot, TakeFrame
<1>2. StreamInv /\ FramesAreReal(Matches, ListBody) /\ CourseInv(Matches)
  BY DEF ListQuiet, ListCourse, ListIInv, ListFrames
<1>3. CourseInv(Matches)' /\ KeepsCourse  BY <1>1, <1>2, TakeFrameCourse
<1>4. ListBehind' /\ ListReadBehind'
  BY <1>1 DEF ListQuiet, ListCourse, ListBehind, ListReadBehind
<1>5. ListTracks'
  <2> SUFFICES ASSUME aligned, intact, Ascending PROVE \E h, o : ListOnCourse(h, o)'
    BY <1>1 DEF ListTracks, Ascending
  <2>1. PICK h, o : ListOnCourse(h, o)  BY <1>1 DEF ListQuiet, ListCourse, ListTracks
  <2>2. o = 1
    <3> SUFFICES ASSUME o = 0 PROVE FALSE  BY <2>1 DEF ListOnCourse, InStep
    <3>1. InStep(Matches, h, 0)  BY <2>1 DEF ListOnCourse
    <3>2. PICK k \in h + 1 .. relayed : Advances(Matches, h, k)
      BY <1>1, <1>2, <3>1, UpdateTaken
    <3>3. QED  BY <1>1, <3>2 DEF Advances, Update
  <2>3. InStep(Matches, h, 1)  BY <2>1, <2>2 DEF ListOnCourse
  <2>4. InStep(Matches, h, 0)'  BY <1>1, <1>2, <2>3, SnapshotTaken
  <2>5. h \in 0 .. relayed  BY <1>2, <2>3 DEF InStep, StreamInv, StreamTypes
  <2>6. ASSUME NEW m \in Matches, NEW shown, NEW last, Shows(m, 0, shown)', last = lastSequence'[m]
        PROVE  OnCourse(m, h, shown, last)'
    <3>1. Shows(m, 1, shown)  BY <1>1, <2>6 DEF Shows
    <3>2. OnCourse(m, h, shown, last)  BY <1>1, <2>1, <2>2, <2>6, <3>1 DEF ListOnCourse
    <3>3. QED  BY <1>3, <2>5, <3>2 DEF KeepsCourse
  <2>7. ListOnCourse(h, 0)'  BY <2>4, <2>6 DEF ListOnCourse
  <2>8. QED  BY <2>7
<1>6. QED  BY <1>3, <1>4, <1>5 DEF ListCourse

\* An update of the list is one of the events relayed.
LEMMA ListUpdateIsRelayed ==
  ASSUME ListQuiet, HandleUpdate
  PROVE  \E j \in 1 .. relayed : frames[1] = Update(bus[j])
<1>1. frames # <<>> /\ frames[1].kind = "update"  BY DEF HandleUpdate, TakeFrame
<1>2. PICK e \in About(Matches) : frames[1] = Update(e)
  BY HandleUpdateIs DEF ListQuiet
<1>3. 1 \in DOMAIN frames
  <2> DEFINE S == Frame(Matches, ListBody)
  <2>1. frames \in Seq(S)  BY DEF ListQuiet, ListIInv, ListFrames, FramesAreReal
  <2> HIDE DEF S
  <2>2. QED  BY <1>1, <2>1
<1>4. PICK j \in 1 .. relayed : frames[1].body = bus[j]
  BY <1>1, <1>3 DEF ListQuiet, ListCourse, CourseInv, FramesRelayed
<1>5. e = bus[j]  BY <1>2, <1>4 DEF Update
<1>6. QED  BY <1>2, <1>5

\* It moves what the list shows of a match along the trajectory, and lastSequence not
\* beyond it.
LEMMA ListUpdateMoves ==
  ASSUME ListQuiet, HandleUpdate, Ascending,
         NEW h \in 0 .. Len(bus), NEW k \in h + 1 .. Len(bus), frames[1] = Update(bus[k]),
         NEW m \in Matches, matches'[m] # NoRow, Behind(m, lastSequence[m], bus, h)
  PROVE  /\ matches'[m] = Step(m, matches[m], bus[k])
         /\ Behind(m, lastSequence'[m], bus, k)
<1> DEFINE e == bus[k]
<1>1. k \in DOMAIN bus /\ k \in 1 .. k /\ h <= k /\ h \in Nat /\ k \in Nat /\ e \in Event
      /\ e.sequence \in Nat
  BY EventsAssumption DEF ListQuiet, ListIInv, StreamInv, StreamTypes, Event
<1>2. matches \in [Matches -> ListBody] /\ lastSequence \in [Matches -> Nat] /\ StreamTypes
      /\ lastSequence[m] \in Nat
  BY DEF ListQuiet, ListIInv, ListTypeOK
<1>3. \/ Ignored(e) /\ UNCHANGED <<matches, lastSequence, fetch>>
      \/ /\ ~ Ignored(e) /\ matches[e.match] # NoRow
         /\ lastSequence' = [lastSequence EXCEPT ![e.match] = e.sequence]
         /\ matches' = [matches EXCEPT ![e.match] = PageReduce(matches[e.match], e)]
      \/ /\ ~ Ignored(e) /\ matches[e.match] = NoRow /\ matches' = matches
         /\ lastSequence' = [lastSequence EXCEPT ![e.match] = e.sequence]
  BY HandleUpdateEffect
<1>4. Behind(m, lastSequence[m], bus, k)  BY <1>1, BehindMore
<1>5. e.match = m => Behind(m, e.sequence, bus, k)  BY <1>1 DEF Behind
<1>6. e.match = m => lastSequence[m] < e.sequence  BY <1>2, BehindNext
<1> HIDE DEF e
<1>7. CASE e.match # m
  <2>1. matches'[m] = matches[m] /\ lastSequence'[m] = lastSequence[m]
    BY <1>2, <1>3, <1>7
  <2>2. Step(m, matches[m], e) = matches[m]  BY <1>7 DEF Step
  <2>3. QED  BY <1>4, <2>1, <2>2 DEF e
<1>8. CASE e.match = m /\ Ignored(e)
  <2>1. e.type = "odds_update"  BY <1>1, <1>2, <1>6, <1>8 DEF Ignored
  <2>2. matches' = matches /\ lastSequence' = lastSequence  BY <1>3, <1>8
  <2>3. Step(m, matches[m], e) = matches[m]
    BY <1>8, <2>1 DEF Step, PageReduce, StatusRules
  <2>4. QED  BY <1>4, <2>2, <2>3 DEF e
<1>9. CASE e.match = m /\ ~ Ignored(e)
  <2> DEFINE reduced == PageReduce(matches[m], e)
  <2>1. matches[m] # NoRow /\ matches' = [matches EXCEPT ![m] = reduced]
        /\ lastSequence' = [lastSequence EXCEPT ![m] = e.sequence]
    BY <1>3, <1>9
  <2>2. Step(m, matches[m], e) = reduced  BY <1>9 DEF Step
  <2> HIDE DEF reduced
  <2>3. matches'[m] = reduced /\ lastSequence'[m] = e.sequence  BY <1>2, <2>1
  <2>4. QED  BY <1>5, <1>9, <2>1, <2>2, <2>3 DEF e
<1>10. QED  BY <1>7, <1>8, <1>9

LEMMA ListUpdate ==
  ASSUME ListQuiet, HandleUpdate
  PROVE  ListCourse'
<1>1. /\ TakeFrame /\ frames[1].kind = "update" /\ fetched' = fetched
      /\ conn = "streaming" /\ UNCHANGED <<bus, relayed, conn, aligned, intact>>
  BY DEF HandleUpdate, TakeFrame
<1>2. StreamInv /\ FramesAreReal(Matches, ListBody) /\ CourseInv(Matches)
      /\ relayed \in Nat /\ relayed <= Len(bus)
  BY DEF ListQuiet, ListCourse, ListIInv, ListFrames, StreamInv, StreamTypes
<1>3. CourseInv(Matches)' /\ KeepsCourse  BY <1>1, <1>2, TakeFrameCourse
<1>4. ListBehind'
  <2>1. PICK j \in 1 .. relayed : frames[1] = Update(bus[j])  BY ListUpdateIsRelayed
  <2> DEFINE e == bus[j]
  <2>2. e.sequence \in Nat
    BY <1>2, EventsAssumption DEF StreamInv, StreamTypes, Event
  <2>3. Behind(e.match, e.sequence, bus, relayed)  BY <2>2 DEF Behind
  <2>4. \/ lastSequence' = lastSequence
        \/ lastSequence' = [lastSequence EXCEPT ![e.match] = e.sequence]
    BY <2>1, HandleUpdateEffect
  <2>5. lastSequence \in [Matches -> Nat]  BY DEF ListQuiet, ListIInv, ListTypeOK
  <2> HIDE DEF e
  <2>6. ASSUME NEW m \in Matches  PROVE Known(m, lastSequence'[m], bus, relayed)
    <3>1. Known(m, lastSequence[m], bus, relayed)
      BY DEF ListQuiet, ListCourse, ListBehind
    <3>2. \/ lastSequence'[m] = lastSequence[m]
          \/ m = e.match /\ lastSequence'[m] = e.sequence
      BY <2>4, <2>5
    <3>3. QED  BY <2>3, <3>1, <3>2 DEF Known
  <2>7. QED  BY <1>1, <2>6 DEF ListBehind
<1>5. ListReadBehind'  BY <1>1 DEF ListReadBehind
<1>6. ListTracks'
  <2> SUFFICES ASSUME aligned, intact, Ascending PROVE \E h, o : ListOnCourse(h, o)'
    BY <1>1 DEF ListTracks, Ascending
  <2>1. PICK h, o : ListOnCourse(h, o)  BY <1>1 DEF ListQuiet, ListCourse, ListTracks
  <2>2. o = 0 /\ InStep(Matches, h, 0)  BY <1>1, <2>1 DEF ListOnCourse, InStep
  <2>3. PICK k \in h + 1 .. relayed : Advances(Matches, h, k)
    BY <1>1, <1>2, <2>2, UpdateTaken
  <2>4. h \in Nat /\ h \in 0 .. Len(bus) /\ k \in h + 1 .. Len(bus)
    BY <1>2, <2>2 DEF InStep
  <2>5. frames[1] = Update(bus[k]) /\ InStep(Matches, k, 0)'  BY <2>3 DEF Advances
  <2>6. ASSUME NEW m \in Matches, NEW new, NEW next, Shows(m, 0, new)', next = lastSequence'[m]
        PROVE  OnCourse(m, k, new, next)'
    <3>1. new = matches'[m] /\ new # NoRow /\ m \notin fetched  BY <1>1, <2>6 DEF Shows
    <3>2. PICK shown, last : shown = matches[m] /\ last = lastSequence[m]  OBVIOUS
    <3>3. matches[m] # NoRow
      <4>1. \/ matches' = matches
            \/ /\ matches[bus[k].match] # NoRow
               /\ matches' = [matches EXCEPT ![bus[k].match] = PageReduce(matches[bus[k].match], bus[k])]
        BY <2>5, HandleUpdateEffect
      <4>2. matches \in [Matches -> ListBody]  BY DEF ListQuiet, ListIInv, ListTypeOK
      <4>3. QED  BY <3>1, <4>1, <4>2
    <3>4. OnCourse(m, h, shown, last)
      BY <2>1, <2>2, <3>1, <3>2, <3>3 DEF ListOnCourse, Shows
    <3>5. Behind(m, lastSequence[m], bus, h)  BY <3>2, <3>4 DEF OnCourse
    <3>6. new = Step(m, shown, bus[k]) /\ Behind(m, next, bus, k)
      BY <2>4, <2>5, <2>6, <3>1, <3>2, <3>5, ListUpdateMoves
    <3>7. QED  BY <1>1, <1>2, <2>3, <2>4, <3>4, <3>6, UpdateFollowed
  <2>7. ListOnCourse(k, 0)'  BY <2>5, <2>6 DEF ListOnCourse
  <2>8. QED  BY <2>7
<1>7. QED  BY <1>3, <1>4, <1>5, <1>6 DEF ListCourse

LEMMA ListQuietInit == ListInit => ListQuiet
<1> SUFFICES ASSUME ListInit PROVE ListQuiet  OBVIOUS
<1>1. ListIInv  BY ListIInvInit
<1>2. CourseInv(Matches)  BY CourseInvInit DEF ListInit
<1>3. conn = "closed" /\ \A m \in Matches : lastSequence[m] = 0
  BY DEF ListInit, StreamInit
<1>4. QED
  BY <1>1, <1>2, <1>3
  DEF ListQuiet, ListCourse, ListBehind, Known, ListReadBehind, ListTracks

LEMMA ListQuietStep == ListQuiet /\ [ListNext]_listVars => ListQuiet'
<1> SUFFICES ASSUME ListQuiet, [ListNext]_listVars PROVE ListQuiet'
  OBVIOUS
<1>1. ListIInv'  BY ListIInvStep DEF ListQuiet
<1>2. CASE UNCHANGED listVars
  <2>1. /\ UNCHANGED <<rows, bus, applied, relayed, conn, frames, from>>
        /\ aligned' = aligned /\ intact' = intact
        /\ UNCHANGED <<matches, lastSequence, fetched>>
    BY <1>2 DEF listVars, streamVars, logVars, connVars, pageVars
  <2>2. ListCourse'  BY <2>1, ListRest
  <2>3. QED  BY <1>1, <2>2 DEF ListQuiet
<1>3. CASE ListNext
  <2>1. ListCourse'
    BY <1>3, ListElsewhere, ListOpen, ListConnect, ListSnapshot, ListUpdate, ListFetch
    DEF ListNext
  <2>2. QED  BY <1>1, <2>1 DEF ListQuiet
<1>4. QED  BY <1>2, <1>3

\* When all is settled, the list and the rows are at the end of it.
LEMMA ListAgrees ==
  ASSUME ListQuiet
  PROVE  ListInv
<1>1. ListTypeOK  BY DEF ListQuiet, ListIInv
<1>2. QuietListAgrees
  <2> SUFFICES ASSUME Settled, aligned, intact, Ascending,
                      NEW m \in Matches \ fetched, matches[m] # NoRow
               PROVE  matches[m] = Body(rows[m])
    BY DEF QuietListAgrees
  <2>1. PICK h, o : ListOnCourse(h, o)
    BY DEF ListQuiet, ListCourse, ListTracks, Settled
  <2>2. InStep(Matches, h, o) /\ StreamInv  BY <2>1 DEF ListOnCourse, ListQuiet, ListIInv
  <2>3. o = 0  BY <2>2, SettledInStep
  <2>4. PICK shown, last : shown = matches[m] /\ last = lastSequence[m]  OBVIOUS
  <2>5. OnCourse(m, h, shown, last)  BY <2>1, <2>3, <2>4 DEF ListOnCourse, Shows
  <2>6. shown = Body(rows[m])  BY <2>2, <2>5, SettledAgrees
  <2>7. QED  BY <2>4, <2>6
<1>3. QED  BY <1>1, <1>2 DEF ListInv

\* A list that connected at a quiet moment is right about every match that it has not
\* fetched since, once everything is handled: each match keeps a number of its own, so
\* what the other matches do, and when their events arrive, makes no difference to what
\* the list reduces for it; and the types of the page hold throughout.
THEOREM ListIsSound == ListSpec => []ListInv
<1>1. QED  BY ListQuietInit, ListQuietStep, ListAgrees, PTL DEF ListSpec

=============================================================================
