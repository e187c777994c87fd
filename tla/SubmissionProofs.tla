-------------------------- MODULE SubmissionProofs --------------------------
(***************************************************************************)
(* Theorems about Submission, for every number of matches, scripts, lives  *)
(* of the simulator and messages: the tables tell the simulator's story,   *)
(* what comes out of order had timed out, and nothing disappears but in the *)
(* ways that are named.                                                    *)
(***************************************************************************)
EXTENDS Submission, MatchLogProofs

(* The two providers. *)

TwoRoutes == {"/events/provider-a", "/events/provider-b"}

\* A Runner alternates between two routes.
LEMMA RoutesAlternate ==
  ASSUME NEW m \in Matches, emittedCount[m] \in Nat
  PROVE  RouteOf(m) \in TwoRoutes
<1>1. emittedCount[m] % 2 \in {0, 1}  OBVIOUS
<1>2. Len(Routes) = 2  BY DEF Routes
<1>3. Routes[1] \in TwoRoutes /\ Routes[2] \in TwoRoutes  BY DEF Routes, TwoRoutes
<1>4. QED  BY <1>1, <1>2, <1>3 DEF RouteOf

\* Both encodings lose nothing: either handler decodes the event that was sent.
LEMMA RoundTrip ==
  ASSUME NEW e \in Events, NEW route
  PROVE  Decode(route, Encode(route, e)) = e
<1>1. e = [match |-> e.match, sequence |-> e.sequence, type |-> e.type,
           team |-> e.team, minute |-> e.minute, teams |-> e.teams]
  BY EventsAssumption DEF Event
<1>2. DecodeA(EncodeProviderA(e)) = e
  BY <1>1 DEF DecodeA, EncodeProviderA, Input, Payload
<1>3. DecodeB(EncodeProviderB(e)) = e
  BY <1>1 DEF DecodeB, EncodeProviderB, Input, Payload
<1>4. QED  BY <1>2, <1>3 DEF Decode, Encode

-----------------------------------------------------------------------------
(* The inductive invariant. *)

RequestRecord == [match : Matches, route : TwoRoutes,
                  wire : {EncodeProviderA(e) : e \in Events} \cup {EncodeProviderB(e) : e \in Events},
                  tale : Tales, at : {"sent", "published", "repeated"}, awaited : BOOLEAN]

RunTypes == /\ life \in 1 .. MaxLives
            /\ emittedCount \in [Matches -> Nat]
            /\ runner \in [Matches -> {"ranging", "submitting", "over"}]
            /\ cancelled \in [Matches -> BOOLEAN]
            /\ \A m \in Matches : script[m] \in Scripts[m] /\ emittedCount[m] <= Len(script[m])

QueueTypes == /\ requests \subseteq RequestRecord
              /\ bus \in Seq(Tales) /\ handled \in 0 .. Len(bus)
              /\ told \subseteq Tales /\ lost \subseteq Tales \X (Logged \cup Silent)

\* The requests that the Runner of m waits for: one while it submits.
Awaited(m) == {r \in requests : r.match = m /\ r.awaited}

WaitsForOne ==
  \A m \in Matches : IF runner[m] = "submitting" THEN \E r \in requests : Awaited(m) = {r}
                                                 ELSE Awaited(m) = {}

\* What Runners took in this life is what the engine has delivered so far.
ToldIsEmitted ==
  \A t \in told : /\ t.life <= life
                  /\ t.life = life =>
                       \E n \in 1 .. emittedCount[t.event.match] : t.event = script[t.event.match][n]

\* No two events of a match and life have the same number.
ToldApart ==
  \A t \in told :
    /\ t.event.sequence > 0
    /\ \A u \in told : /\ u.life = t.life /\ u.event.match = t.event.match
                       /\ u.event.sequence = t.event.sequence
                       => u.event = t.event

\* u comes after t, in its match and life.
Later(u, t) == /\ u.life = t.life /\ u.event.match = t.event.match
               /\ u.event.sequence > t.event.sequence

OnTheWay(u) == \/ \E r \in requests : r.tale = u
               \/ \E i \in DOMAIN bus : bus[i] = u

IsLast(t) == \A u : OnTheWay(u) => ~ Later(u, t)

\* Its submission timed out, or ended in silence, with its match or its simulator:
\* then no later event of theirs is sent.
GivenUp(r) == \/ LostBy(r.tale, {"submit event failed"})
              \/ /\ LostBy(r.tale, Silent)
                 /\ cancelled[r.match] \/ r.tale.life < life
                 /\ IsLast(r.tale)

\* A request carries an event that was taken: the last one of this life, if its
\* Runner still waits for it; and if not, it has been given up.
Faithful(r) == /\ Decode(r.route, r.wire) = r.tale.event
               /\ r.tale.event.match = r.match
               /\ r.tale \in told
               /\ r.awaited => /\ r.tale.life = life /\ emittedCount[r.match] > 0
                               /\ r.tale.event = script[r.match][emittedCount[r.match]]
               /\ ~ r.awaited => GivenUp(r)

RequestsAreFaithful == \A r \in requests : Faithful(r)

SubmissionIndInv == /\ LogTypeOK /\ RunTypes /\ QueueTypes
                    /\ WaitsForOne /\ ToldIsEmitted /\ ToldApart /\ RequestsAreFaithful
                    /\ StoryIsTrue /\ OvertakenTimedOut

-----------------------------------------------------------------------------
(* Facts about the invariant. *)

\* What a script holds are events of its match, in ascending order.
LEMMA ScriptFacts ==
  ASSUME RunTypes, NEW m \in Matches
  PROVE  /\ script[m] \in Seq(Events)
         /\ \A i \in 1 .. Len(script[m]) :
              script[m][i] \in Events /\ script[m][i].match = m /\ script[m][i].sequence > 0
         /\ \A i, j \in 1 .. Len(script[m]) :
              i < j => script[m][i].sequence < script[m][j].sequence
<1>1. script[m] \in Scripts[m] /\ Scripts[m] \subseteq Seq(Events)
  BY SubmissionAssumption DEF RunTypes
<1>2. script[m] \in Seq(Events)  BY <1>1
<1>3. DOMAIN script[m] = 1 .. Len(script[m])  BY <1>2
<1>4. QED  BY <1>1, <1>2, <1>3, SubmissionAssumption

\* Recording keeps the types of the tables.
LEMMA RecordType ==
  ASSUME LogTypeOK, NEW e \in Events, Record(e)
  PROVE  LogTypeOK'
<1>1. e \in Event  BY EventsAssumption
<1>2. e.match \in Matches  BY <1>1 DEF Event
<1>3. LoadOrCreate(rows[e.match], e) \in Row
  BY <1>1, <1>2, LoadOrCreateType DEF LogTypeOK
<1>4. Reduce(LoadOrCreate(rows[e.match], e), e) \in Row  BY <1>1, <1>3, ReduceFields
<1>5. QED  BY <1>2, <1>4 DEF LogTypeOK, Record

\* The event about to be taken, with its place in the story.
LEMMA UpcomingFacts ==
  ASSUME SubmissionIndInv, NEW m \in Matches, Ranging(m)
  PROVE  /\ Upcoming(m) \in Events /\ Upcoming(m).match = m
         /\ Tale(Upcoming(m)) \in Tales
         /\ Tale(Upcoming(m)).event = Upcoming(m) /\ Tale(Upcoming(m)).life = life
         /\ emittedCount[m] + 1 <= Len(script[m])
<1>1. /\ emittedCount[m] \in Nat /\ emittedCount[m] < Len(script[m]) /\ life \in 1 .. MaxLives
      /\ script[m] \in Seq(Events)
  BY ScriptFacts DEF SubmissionIndInv, RunTypes, Ranging
<1>2. emittedCount[m] + 1 \in 1 .. Len(script[m])  BY <1>1
<1>3. Upcoming(m) \in Events /\ Upcoming(m).match = m
  BY <1>2, ScriptFacts DEF Upcoming, SubmissionIndInv
<1>4. QED  BY <1>1, <1>2, <1>3 DEF Tale, Tales

\* What a loss is made of.
LEMMA LossType ==
  ASSUME NEW t \in Tales, NEW cause \in Logged \cup Silent
  PROVE  <<t, cause>> \in Tales \X (Logged \cup Silent)
OBVIOUS

\* What is on the way has been told.
LEMMA OnTheWayIsTold ==
  ASSUME SubmissionIndInv, NEW u, OnTheWay(u)
  PROVE  u \in told
BY DEF SubmissionIndInv, OnTheWay, RequestsAreFaithful, Faithful, StoryIsTrue

\* What has been told of a match in this life comes before the event that its
\* Runner waits for, or is it.
LEMMA AwaitedIsLatest ==
  ASSUME SubmissionIndInv, NEW r \in requests, r.awaited, NEW t \in told
  PROVE  ~ Later(t, r.tale)
<1> SUFFICES ASSUME Later(t, r.tale) PROVE FALSE  OBVIOUS
<1>1. r \in RequestRecord /\ Faithful(r)
  BY DEF SubmissionIndInv, QueueTypes, RequestsAreFaithful
<1>2. PICK m : m = r.match  OBVIOUS
<1>3. PICK n : n = emittedCount[m]  OBVIOUS
<1>4. m \in Matches  BY <1>1, <1>2 DEF RequestRecord
<1>5. r.tale.event.match = m /\ n > 0 /\ r.tale.event = script[m][n] /\ r.tale.life = life
  BY <1>1, <1>2, <1>3 DEF Faithful
<1>6. PICK k \in 1 .. n : t.event = script[m][k]
  BY <1>3, <1>5 DEF SubmissionIndInv, ToldIsEmitted, Later
<1>7. n \in Nat /\ n <= Len(script[m])  BY <1>3, <1>4 DEF SubmissionIndInv, RunTypes
<1>8. script[m] \in Seq(Events)  BY <1>4, ScriptFacts DEF SubmissionIndInv
<1>9. n \in 1 .. Len(script[m]) /\ k \in 1 .. Len(script[m])  BY <1>5, <1>7, <1>8
<1>10. k < n => script[m][k].sequence < script[m][n].sequence
  BY <1>9, <1>4, ScriptFacts DEF SubmissionIndInv
<1>11. script[m][k] \in Event /\ script[m][n] \in Event
  BY <1>9, <1>4, ScriptFacts, EventsAssumption DEF SubmissionIndInv
<1>12. script[m][k].sequence \in Nat /\ script[m][n].sequence \in Nat  BY <1>11 DEF Event
<1>13. script[m][k].sequence > script[m][n].sequence  BY <1>5, <1>6 DEF Later
<1>14. k < n \/ k = n  BY <1>6, <1>7
<1>15. QED  BY <1>10, <1>12, <1>13, <1>14

LEMMA AwaitedIsLast ==
  ASSUME SubmissionIndInv, NEW r \in requests, r.awaited
  PROVE  IsLast(r.tale)
BY OnTheWayIsTold, AwaitedIsLatest DEF IsLast

\* The last event sent of its match and life remains so while nothing is sent.
LEMMA LastStays ==
  ASSUME NEW t, IsLast(t), \A u : OnTheWay(u)' => OnTheWay(u)
  PROVE  IsLast(t)'
BY DEF IsLast, Later

\* A request that was given up stays so: a step that sends anything else sends
\* nothing of a cancelled match or an earlier life.
LEMMA GivenUpStays ==
  ASSUME SubmissionIndInv, NEW r \in requests, GivenUp(r), life' = life, lost \subseteq lost',
         cancelled[r.match] => cancelled'[r.match],
         cancelled[r.match] \/ r.tale.life < life =>
           \A u : OnTheWay(u)' => OnTheWay(u) \/ ~ Later(u, r.tale)
  PROVE  GivenUp(r)'
<1>1. CASE LostBy(r.tale, {"submit event failed"})  BY <1>1 DEF GivenUp, LostBy
<1>2. CASE ~ LostBy(r.tale, {"submit event failed"})
  <2>1. /\ LostBy(r.tale, Silent) /\ IsLast(r.tale)
        /\ cancelled[r.match] \/ r.tale.life < life
    BY <1>2 DEF GivenUp
  <2>2. LostBy(r.tale, Silent)'  BY <2>1 DEF LostBy, Silent
  <2>3. IsLast(r.tale)'  BY <2>1 DEF IsLast, Later
  <2>4. QED  BY <2>1, <2>2, <2>3 DEF GivenUp
<1>3. QED  BY <1>1, <1>2

\* A request stays faithful in a step that takes and sends nothing.
LEMMA StaysFaithful ==
  ASSUME SubmissionIndInv, NEW r \in requests, UNCHANGED <<life, script, emittedCount>>,
         told \subseteq told', lost \subseteq lost',
         \A k \in Matches : cancelled[k] => cancelled'[k],
         \A u : OnTheWay(u)' => OnTheWay(u)
  PROVE  Faithful(r)'
<1>1. Faithful(r) /\ r.match \in Matches
  BY DEF SubmissionIndInv, RequestsAreFaithful, QueueTypes, RequestRecord
<1>2. ~ r.awaited => GivenUp(r)'  BY <1>1, GivenUpStays DEF Faithful
<1>3. QED  BY <1>1, <1>2 DEF Faithful

\* Where nothing is taken, published or recorded, the story stays as it was.
LEMMA StoryStays ==
  ASSUME SubmissionIndInv, lost \subseteq lost',
         UNCHANGED <<life, script, emittedCount, bus, told, timeline>>
  PROVE  ToldIsEmitted' /\ ToldApart' /\ StoryIsTrue' /\ OvertakenTimedOut'
<1>1. ToldIsEmitted'  BY DEF SubmissionIndInv, ToldIsEmitted
<1>2. ToldApart'  BY DEF SubmissionIndInv, ToldApart
<1>3. StoryIsTrue'  BY DEF SubmissionIndInv, StoryIsTrue
<1>4. OvertakenTimedOut'
  <2>1. OvertakenTimedOut  BY DEF SubmissionIndInv
  <2>2. \A t : LostBy(t, {"submit event failed"}) => LostBy(t, {"submit event failed"})'
    BY DEF LostBy
  <2>3. QED  BY <2>1, <2>2 DEF OvertakenTimedOut
<1>5. QED  BY <1>1, <1>2, <1>3, <1>4

-----------------------------------------------------------------------------
(* The Runner takes an event. *)

\* The next event joins those that the engine has delivered.
LEMMA TakesKeeps ==
  ASSUME SubmissionIndInv, NEW m \in Matches, Ranging(m), Takes(m),
         UNCHANGED <<life, script, bus, timeline>>
  PROVE  /\ ToldIsEmitted' /\ ToldApart' /\ StoryIsTrue' /\ told \subseteq told'
         /\ emittedCount' \in [Matches -> Nat]
         /\ \A k \in Matches : emittedCount'[k] = IF k = m THEN emittedCount[m] + 1 ELSE emittedCount[k]
         /\ \A k \in Matches : emittedCount'[k] <= Len(script[k])
<1>1. emittedCount \in [Matches -> Nat]  BY DEF SubmissionIndInv, RunTypes
<1>2. \A k \in Matches : emittedCount'[k] = IF k = m THEN emittedCount[m] + 1 ELSE emittedCount[k]
  BY <1>1 DEF Takes
<1>3. emittedCount' \in [Matches -> Nat]  BY <1>1 DEF Takes
<1>4. \A k \in Matches : emittedCount'[k] <= Len(script[k])
  BY <1>2, UpcomingFacts DEF SubmissionIndInv, RunTypes
<1>5. ToldIsEmitted'
  <2> SUFFICES ASSUME NEW t \in told'
               PROVE  /\ t.life <= life
                      /\ t.life = life =>
                           \E n \in 1 .. emittedCount'[t.event.match] : t.event = script[t.event.match][n]
    BY DEF ToldIsEmitted
  <2>1. CASE t \in told
    <3>1. t.event.match \in Matches
      BY <2>1, EventsAssumption DEF SubmissionIndInv, QueueTypes, Tales, Event
    <3>2. emittedCount[t.event.match] <= emittedCount'[t.event.match]
      BY <3>1, <1>1, <1>2
    <3>3. 1 .. emittedCount[t.event.match] \subseteq 1 .. emittedCount'[t.event.match]
      BY <3>1, <3>2, <1>1, <1>3
    <3>4. QED  BY <2>1, <3>3 DEF SubmissionIndInv, ToldIsEmitted
  <2>2. CASE t = Tale(Upcoming(m))
    <3>1. t.event.match = m /\ t.life = life /\ t.event = Upcoming(m)  BY <2>2, UpcomingFacts
    <3>2. emittedCount'[m] \in 1 .. emittedCount'[m] /\ t.event = script[m][emittedCount'[m]]
      BY <1>1, <1>2, <3>1 DEF Upcoming
    <3>3. life \in Int  BY DEF SubmissionIndInv, RunTypes
    <3>4. QED  BY <3>1, <3>2, <3>3
  <2>3. QED  BY <2>1, <2>2 DEF Takes
<1>6. told \subseteq told'  BY DEF Takes
<1>7. StoryIsTrue'  BY <1>6 DEF SubmissionIndInv, StoryIsTrue
<1>8. PICK new : new = Tale(Upcoming(m))  OBVIOUS
<1>9. /\ told' = told \cup {new} /\ new.event \in Events /\ new.event.match = m
      /\ new.life = life /\ new.event = script[m][emittedCount[m] + 1]
      /\ emittedCount[m] + 1 \in 1 .. Len(script[m])
  <2>1. emittedCount[m] \in Nat /\ Len(script[m]) \in Nat
    BY <1>1, ScriptFacts DEF SubmissionIndInv
  <2>2. QED  BY <1>8, <2>1, UpcomingFacts DEF Takes, Upcoming
<1>10. new.event.sequence > 0  BY <1>9, ScriptFacts DEF SubmissionIndInv
<1>11. ASSUME NEW t \in told, t.life = life, t.event.match = m
       PROVE  t.event.sequence # new.event.sequence
  <2>1. PICK k \in 1 .. emittedCount[m] : t.event = script[m][k]
    BY <1>11 DEF SubmissionIndInv, ToldIsEmitted
  <2>2. emittedCount[m] \in Nat  BY <1>1
  <2>3. k \in 1 .. Len(script[m]) /\ k < emittedCount[m] + 1  BY <2>1, <2>2, <1>9
  <2>4. script[m][k].sequence < script[m][emittedCount[m] + 1].sequence
    BY <2>3, <1>9, ScriptFacts DEF SubmissionIndInv
  <2>5. script[m][k] \in Event /\ new.event \in Event
    BY <2>3, <1>9, ScriptFacts, EventsAssumption DEF SubmissionIndInv
  <2>6. script[m][k].sequence \in Nat /\ new.event.sequence \in Nat  BY <2>5 DEF Event
  <2>7. QED  BY <2>1, <2>4, <2>6, <1>9
<1>12. ToldApart'
  <2> SUFFICES ASSUME NEW t \in told'
               PROVE  /\ t.event.sequence > 0
                      /\ \A u \in told' : /\ u.life = t.life /\ u.event.match = t.event.match
                                          /\ u.event.sequence = t.event.sequence
                                          => u.event = t.event
    BY DEF ToldApart
  <2>1. t.event.sequence > 0  BY <1>9, <1>10 DEF SubmissionIndInv, ToldApart
  <2>2. ASSUME NEW u \in told', u.life = t.life, u.event.match = t.event.match,
               u.event.sequence = t.event.sequence
        PROVE  u.event = t.event
    <3>1. CASE t \in told /\ u \in told  BY <2>2, <3>1 DEF SubmissionIndInv, ToldApart
    <3>2. CASE t = new /\ u \in told  BY <2>2, <3>2, <1>9, <1>11
    <3>3. CASE t \in told /\ u = new  BY <2>2, <3>3, <1>9, <1>11
    <3>4. CASE t = new /\ u = new  BY <3>4
    <3>5. QED  BY <3>1, <3>2, <3>3, <3>4, <1>9
  <2>3. QED  BY <2>1, <2>2
<1>13. QED  BY <1>2, <1>3, <1>4, <1>5, <1>6, <1>7, <1>12

\* A request that its Runner no longer waits for, or that is another Runner's,
\* stays faithful.
LEMMA OthersStayFaithful ==
  ASSUME SubmissionIndInv, NEW m \in Matches, NEW r \in requests, r.match # m \/ ~ r.awaited,
         \A k \in Matches \ {m} : emittedCount'[k] = emittedCount[k],
         UNCHANGED <<life, script, cancelled>>, told \subseteq told', lost \subseteq lost',
         cancelled[r.match] \/ r.tale.life < life =>
           \A u : OnTheWay(u)' => OnTheWay(u) \/ ~ Later(u, r.tale)
  PROVE  Faithful(r)'
<1>1. Faithful(r) /\ r.match \in Matches
  BY DEF SubmissionIndInv, RequestsAreFaithful, QueueTypes, RequestRecord
<1>2. ~ r.awaited => GivenUp(r)'  BY <1>1, GivenUpStays DEF Faithful
<1>3. QED  BY <1>1, <1>2 DEF Faithful

\* A Runner that submits waited for nothing before.
LEMMA SubmitStep ==
  ASSUME SubmissionIndInv, NEW m \in Matches, Submit(m)
  PROVE  SubmissionIndInv'
<1>0. PICK new : new = Request(m, TRUE)  OBVIOUS
<1>1. Ranging(m) /\ Takes(m) /\ UNCHANGED <<life, script, bus, timeline>>
  BY DEF Submit, logVars
<1>2. /\ requests' = requests \cup {new}
      /\ runner' = [runner EXCEPT ![m] = "submitting"]
      /\ UNCHANGED <<rows, timeline, life, script, cancelled, bus, handled, lost>>
  BY <1>0 DEF Submit, logVars
<1>3. LogTypeOK'  BY <1>2 DEF SubmissionIndInv, LogTypeOK
<1>4. RunTypes'
  BY <1>1, <1>2, TakesKeeps DEF SubmissionIndInv, RunTypes
<1>5. /\ RouteOf(m) \in TwoRoutes /\ Upcoming(m) \in Events /\ Upcoming(m).match = m
      /\ Tale(Upcoming(m)) \in Tales /\ Tale(Upcoming(m)).event = Upcoming(m)
  BY <1>1, RoutesAlternate, UpcomingFacts DEF SubmissionIndInv, RunTypes
<1>6. new \in RequestRecord
  <2>1. Encode(RouteOf(m), Upcoming(m)) \in
          {EncodeProviderA(e) : e \in Events} \cup {EncodeProviderB(e) : e \in Events}
    BY <1>5 DEF Encode
  <2>2. QED  BY <1>0, <1>5, <2>1 DEF Request, RequestRecord
<1>7. QueueTypes'
  BY <1>1, <1>2, <1>5, <1>6 DEF SubmissionIndInv, QueueTypes, Takes
<1>8. new.match = m /\ new.awaited = TRUE /\ new.tale = Tale(Upcoming(m))
      /\ new.route = RouteOf(m) /\ new.wire = Encode(RouteOf(m), Upcoming(m))
  BY <1>0 DEF Request
<1>9. WaitsForOne'
  <2> SUFFICES ASSUME NEW k \in Matches
               PROVE  IF runner'[k] = "submitting" THEN \E r \in requests' : Awaited(k)' = {r}
                                                   ELSE Awaited(k)' = {}
    BY DEF WaitsForOne
  <2>1. CASE k = m
    <3>1. Awaited(m) = {}
      BY <1>1 DEF SubmissionIndInv, WaitsForOne, Ranging
    <3>2. Awaited(m)' = {new}  BY <3>1, <1>2, <1>8 DEF Awaited
    <3>3. QED  BY <2>1, <3>2, <1>2 DEF SubmissionIndInv, RunTypes
  <2>2. CASE k # m
    <3>1. Awaited(k)' = Awaited(k)  BY <2>2, <1>2, <1>8 DEF Awaited
    <3>2. runner'[k] = runner[k]  BY <2>2, <1>2 DEF SubmissionIndInv, RunTypes
    <3>3. QED  BY <3>1, <3>2, <1>2 DEF SubmissionIndInv, WaitsForOne
  <2>3. QED  BY <2>1, <2>2
<1>10. RequestsAreFaithful'
  <2>1. ASSUME NEW r \in requests  PROVE Faithful(r)'
    <3>1. r.match # m \/ ~ r.awaited
      BY <1>1 DEF SubmissionIndInv, WaitsForOne, Ranging, Awaited
    <3>2. ASSUME cancelled[r.match] \/ r.tale.life < life, NEW u, OnTheWay(u)'
          PROVE  OnTheWay(u) \/ ~ Later(u, r.tale)
      <4>1. CASE u = new.tale
        <5>1. Faithful(r) /\ r.tale.life \in Int /\ life \in Int
          BY DEF SubmissionIndInv, RequestsAreFaithful, QueueTypes, RequestRecord, RunTypes, Tales
        <5>2. u.life = life /\ u.event.match = m /\ ~ cancelled[m]
          BY <4>1, <1>1, <1>5, <1>8, UpcomingFacts DEF Submit
        <5>3. CASE cancelled[r.match]  BY <5>1, <5>2, <5>3 DEF Later, Faithful
        <5>4. CASE r.tale.life < life  BY <5>1, <5>2, <5>4 DEF Later
        <5>5. QED  BY <3>2, <5>3, <5>4
      <4>2. CASE u # new.tale  BY <3>2, <4>2, <1>2 DEF OnTheWay
      <4>3. QED  BY <4>1, <4>2
    <3>3. told \subseteq told'  BY <1>1, TakesKeeps
    <3>4. \A k \in Matches \ {m} : emittedCount'[k] = emittedCount[k]  BY <1>1, TakesKeeps
    <3>5. QED  BY <3>1, <3>2, <3>3, <3>4, <1>2, OthersStayFaithful
  <2>2. Faithful(new)'
    <3>1. Decode(new.route, new.wire) = new.tale.event /\ new.tale.event.match = new.match
      BY <1>5, <1>8, RoundTrip
    <3>2. new.tale \in told'  BY <1>1, <1>8 DEF Takes
    <3>3. emittedCount'[m] = emittedCount[m] + 1 /\ emittedCount[m] \in Nat
      BY <1>1, TakesKeeps DEF SubmissionIndInv, RunTypes
    <3>4. emittedCount'[m] > 0 /\ new.tale.event = script'[m][emittedCount'[m]]
      BY <3>3, <1>2, <1>5, <1>8 DEF Upcoming
    <3>5. new.tale.life = life'  BY <1>1, <1>2, <1>8, UpcomingFacts
    <3>6. QED  BY <3>1, <3>2, <3>4, <3>5, <1>8 DEF Faithful
  <2>3. QED  BY <2>1, <2>2, <1>2 DEF RequestsAreFaithful
<1>11. StoryIsTrue' /\ ToldIsEmitted' /\ ToldApart'  BY <1>1, TakesKeeps
<1>12. OvertakenTimedOut'  BY <1>2 DEF SubmissionIndInv, OvertakenTimedOut, LostBy
<1>13. QED  BY <1>3, <1>4, <1>7, <1>9, <1>10, <1>11, <1>12 DEF SubmissionIndInv

\* An event not sent leaves what is on the way.
LEMMA SubmitCancelledStep ==
  ASSUME SubmissionIndInv, NEW m \in Matches, SubmitCancelled(m)
  PROVE  SubmissionIndInv'
<1>1. Ranging(m) /\ Takes(m) /\ UNCHANGED <<life, script, bus, timeline>>
  BY DEF SubmitCancelled, logVars
<1>2. UNCHANGED <<rows, timeline, life, script, runner, cancelled, requests, bus, handled>>
  BY DEF SubmitCancelled, logVars
<1>3. lost' = lost \cup {<<Tale(Upcoming(m)), "cancelled">>} /\ "cancelled" \in Silent
  BY DEF SubmitCancelled, Loses, Silent
<1>4. LogTypeOK'  BY <1>2 DEF SubmissionIndInv, LogTypeOK
<1>5. RunTypes'  BY <1>1, <1>2, TakesKeeps DEF SubmissionIndInv, RunTypes
<1>6. QueueTypes'
  BY <1>1, <1>2, <1>3, UpcomingFacts DEF SubmissionIndInv, QueueTypes, Takes
<1>7. WaitsForOne'  BY <1>2 DEF SubmissionIndInv, WaitsForOne, Awaited
<1>8. RequestsAreFaithful'
  <2> SUFFICES ASSUME NEW r \in requests  PROVE Faithful(r)'
    BY <1>2 DEF RequestsAreFaithful
  <2>1. r.match # m \/ ~ r.awaited
    BY <1>1 DEF SubmissionIndInv, WaitsForOne, Ranging, Awaited
  <2>2. \A u : OnTheWay(u)' => OnTheWay(u)  BY <1>2 DEF OnTheWay
  <2>3. told \subseteq told'  BY <1>1, TakesKeeps
  <2>4. \A k \in Matches \ {m} : emittedCount'[k] = emittedCount[k]  BY <1>1, TakesKeeps
  <2>5. QED  BY <2>1, <2>2, <2>3, <2>4, <1>2, <1>3, OthersStayFaithful
<1>9. StoryIsTrue' /\ ToldIsEmitted' /\ ToldApart'  BY <1>1, TakesKeeps
<1>10. OvertakenTimedOut'  BY <1>2, <1>3 DEF SubmissionIndInv, OvertakenTimedOut, LostBy
<1>11. QED  BY <1>4, <1>5, <1>6, <1>7, <1>8, <1>9, <1>10 DEF SubmissionIndInv

-----------------------------------------------------------------------------
(* The Runner stops waiting. *)

\* The only request that the Runner of r waits for is r.
LEMMA OneIsAwaited ==
  ASSUME WaitsForOne, NEW r \in requests, r.match \in Matches, r.awaited
  PROVE  Awaited(r.match) = {r} /\ runner[r.match] = "submitting"
<1>1. r \in Awaited(r.match)  BY DEF Awaited
<1>2. QED  BY <1>1 DEF WaitsForOne

\* A request given up stays under way, as one that timed out, or as the last of a
\* cancelled match.
LEMMA GivesUpStep ==
  ASSUME SubmissionIndInv, NEW m \in Matches, NEW r \in requests,
         NEW cause \in {"submit event failed", "cancelled"}, GivesUp(m, r, cause),
         cancelled' \in [Matches -> BOOLEAN], \A k \in Matches : cancelled[k] => cancelled'[k],
         cause = "cancelled" => cancelled'[m],
         UNCHANGED <<logVars, life, script, emittedCount, bus, handled, told>>
  PROVE  SubmissionIndInv'
<1>0. PICK q : q = [r EXCEPT !.awaited = FALSE]  OBVIOUS
<1>1. /\ r.match = m /\ r.awaited
      /\ requests' = (requests \ {r}) \cup {q}
      /\ runner' = [runner EXCEPT ![m] = "ranging"]
      /\ lost' = lost \cup {<<r.tale, cause>>}
  BY <1>0 DEF GivesUp, Loses
<1>2. r \in RequestRecord  BY DEF SubmissionIndInv, QueueTypes
<1>3. /\ q \in RequestRecord /\ q.match = m /\ q.awaited = FALSE /\ q.tale = r.tale
      /\ q.route = r.route /\ q.wire = r.wire
  BY <1>0, <1>1, <1>2 DEF RequestRecord
<1>4. UNCHANGED <<rows, timeline, life, script, emittedCount, bus, handled, told>>
  BY DEF logVars
<1>5. lost \subseteq lost'  BY <1>1
<1>6. LogTypeOK'  BY <1>4 DEF SubmissionIndInv, LogTypeOK
<1>7. RunTypes'  BY <1>1, <1>4 DEF SubmissionIndInv, RunTypes
<1>8. QueueTypes'
  <2>1. r.tale \in Tales  BY <1>2 DEF RequestRecord
  <2>2. cause \in Logged \cup Silent  BY DEF Logged, Silent
  <2>3. <<r.tale, cause>> \in Tales \X (Logged \cup Silent)  BY <2>1, <2>2, LossType
  <2>4. lost' \subseteq Tales \X (Logged \cup Silent)
    BY <2>3, <1>1 DEF SubmissionIndInv, QueueTypes
  <2>5. QED  BY <1>1, <1>3, <1>4, <2>4 DEF SubmissionIndInv, QueueTypes
<1>9. WaitsForOne'
  <2> SUFFICES ASSUME NEW k \in Matches
               PROVE  IF runner'[k] = "submitting" THEN \E x \in requests' : Awaited(k)' = {x}
                                                   ELSE Awaited(k)' = {}
    BY DEF WaitsForOne
  <2>1. CASE k = m
    <3>1. Awaited(m) = {r}  BY <1>1, OneIsAwaited DEF SubmissionIndInv
    <3>2. Awaited(m)' = {}  BY <3>1, <1>1, <1>3 DEF Awaited
    <3>3. QED  BY <2>1, <3>2, <1>1 DEF SubmissionIndInv, RunTypes
  <2>2. CASE k # m
    <3>1. Awaited(k)' = Awaited(k)  BY <2>2, <1>1, <1>3 DEF Awaited
    <3>2. runner'[k] = runner[k]  BY <2>2, <1>1 DEF SubmissionIndInv, RunTypes
    <3>3. runner[k] = "submitting" => \E x \in requests' : Awaited(k) = {x}
      <4> SUFFICES ASSUME runner[k] = "submitting" PROVE \E x \in requests' : Awaited(k) = {x}
        OBVIOUS
      <4>1. PICK x \in requests : Awaited(k) = {x}  BY DEF SubmissionIndInv, WaitsForOne
      <4>2. x.match = k  BY <4>1 DEF Awaited
      <4>3. x \in requests'  BY <4>2, <2>2, <1>1
      <4>4. QED  BY <4>1, <4>3
    <3>4. QED  BY <3>1, <3>2, <3>3 DEF SubmissionIndInv, WaitsForOne
  <2>3. QED  BY <2>1, <2>2
<1>10. RequestsAreFaithful'
  <2>1. \A u : OnTheWay(u)' => OnTheWay(u)  BY <1>1, <1>3, <1>4 DEF OnTheWay
  <2>2. ASSUME NEW x \in requests  PROVE Faithful(x)'
    BY <2>1, <1>4, <1>5, StaysFaithful
  <2>3. GivenUp(q)'
    <3>1. CASE cause = "submit event failed"
      <4>1. <<q.tale, "submit event failed">> \in lost'  BY <3>1, <1>1, <1>3
      <4>2. QED  BY <4>1 DEF GivenUp, LostBy
    <3>2. CASE cause = "cancelled"
      <4>1. <<q.tale, "cancelled">> \in lost'  BY <3>2, <1>1, <1>3
      <4>2. LostBy(q.tale, Silent)'  BY <4>1 DEF LostBy, Silent
      <4>3. IsLast(r.tale)'  BY <2>1, <1>1, AwaitedIsLast, LastStays
      <4>4. QED  BY <3>2, <4>2, <4>3, <1>3 DEF GivenUp
    <3>3. QED  BY <3>1, <3>2
  <2>4. Faithful(q)'
    <3>1. Faithful(r)'  BY <2>2
    <3>2. /\ Decode(q.route, q.wire) = q.tale.event /\ q.tale.event.match = q.match
          /\ q.tale \in told'
      BY <3>1, <1>3, <1>1 DEF Faithful
    <3>3. QED  BY <3>2, <2>3, <1>3 DEF Faithful
  <2>5. QED  BY <2>2, <2>4, <1>1 DEF RequestsAreFaithful
<1>11. ToldIsEmitted' /\ ToldApart' /\ StoryIsTrue' /\ OvertakenTimedOut'
  BY <1>4, <1>5, StoryStays
<1>12. QED  BY <1>6, <1>7, <1>8, <1>9, <1>10, <1>11 DEF SubmissionIndInv

\* Answering ends a request and its Runner's wait.
LEMMA AnsweredStep ==
  ASSUME SubmissionIndInv, NEW r \in requests, Answered(r), lost \subseteq lost',
         lost' \subseteq lost \cup {<<r.tale, "submit event failed">>}
  PROVE  SubmissionIndInv'
<1>1. /\ requests' = requests \ {r}
      /\ runner' = IF r.awaited THEN [runner EXCEPT ![r.match] = "ranging"] ELSE runner
      /\ UNCHANGED <<rows, timeline, life, script, emittedCount, cancelled, bus, handled, told>>
  BY DEF Answered, logVars
<1>2. r \in RequestRecord  BY DEF SubmissionIndInv, QueueTypes
<1>3. r.match \in Matches /\ r.tale \in Tales  BY <1>2 DEF RequestRecord
<1>4. LogTypeOK'  BY <1>1 DEF SubmissionIndInv, LogTypeOK
<1>5. RunTypes'  BY <1>1, <1>3 DEF SubmissionIndInv, RunTypes
<1>6. QueueTypes'
  <2>1. "submit event failed" \in Logged \cup Silent  BY DEF Logged
  <2>2. <<r.tale, "submit event failed">> \in Tales \X (Logged \cup Silent)
    BY <2>1, <1>3, LossType
  <2>3. lost' \subseteq Tales \X (Logged \cup Silent)
    BY <2>2 DEF SubmissionIndInv, QueueTypes
  <2>4. QED  BY <2>3, <1>1 DEF SubmissionIndInv, QueueTypes
<1>7. WaitsForOne'
  <2> SUFFICES ASSUME NEW k \in Matches
               PROVE  IF runner'[k] = "submitting" THEN \E x \in requests' : Awaited(k)' = {x}
                                                   ELSE Awaited(k)' = {}
    BY DEF WaitsForOne
  <2>1. CASE r.awaited /\ k = r.match
    <3>1. Awaited(k) = {r}  BY <2>1, <1>3, OneIsAwaited DEF SubmissionIndInv
    <3>2. Awaited(k)' = {}  BY <3>1, <1>1 DEF Awaited
    <3>3. QED  BY <2>1, <3>2, <1>1 DEF SubmissionIndInv, RunTypes
  <2>2. CASE ~ (r.awaited /\ k = r.match)
    <3>1. Awaited(k)' = Awaited(k)  BY <2>2, <1>1 DEF Awaited
    <3>2. runner'[k] = runner[k]  BY <2>2, <1>1 DEF SubmissionIndInv, RunTypes
    <3>3. \A x \in requests : Awaited(k) = {x} => x \in requests'
      BY <2>2, <1>1 DEF Awaited
    <3>4. QED  BY <3>1, <3>2, <3>3 DEF SubmissionIndInv, WaitsForOne
  <2>3. QED  BY <2>1, <2>2
<1>8. RequestsAreFaithful'
  <2>1. \A u : OnTheWay(u)' => OnTheWay(u)  BY <1>1 DEF OnTheWay
  <2>2. QED  BY <2>1, <1>1, StaysFaithful DEF RequestsAreFaithful
<1>9. ToldIsEmitted' /\ ToldApart' /\ StoryIsTrue' /\ OvertakenTimedOut'
  BY <1>1, StoryStays
<1>10. QED  BY <1>4, <1>5, <1>6, <1>7, <1>8, <1>9 DEF SubmissionIndInv

-----------------------------------------------------------------------------
(* ingestion-service publishes. *)

\* What is published is the event taken; if a later one of its match and life is
\* out already, its Runner has gone on, and so its submission timed out.
LEMMA PublishStep ==
  ASSUME SubmissionIndInv, NEW r \in requests, NEW stage \in {"published", "repeated"},
         bus' = Append(bus, [event |-> Decode(r.route, r.wire), life |-> r.tale.life]),
         requests' = (requests \ {r}) \cup {[r EXCEPT !.at = stage]},
         UNCHANGED <<logVars, runVars, handled, told, lost>>
  PROVE  SubmissionIndInv'
<1>0. PICK q : q = [r EXCEPT !.at = stage]  OBVIOUS
<1>1. /\ requests' = (requests \ {r}) \cup {q}
      /\ UNCHANGED <<rows, timeline, life, script, emittedCount, runner, cancelled, handled,
                     told, lost>>
  BY <1>0 DEF logVars, runVars
<1>2. r \in RequestRecord /\ Faithful(r)
  BY DEF SubmissionIndInv, QueueTypes, RequestsAreFaithful
<1>3. /\ q \in RequestRecord /\ q.match = r.match /\ q.awaited = r.awaited /\ q.tale = r.tale
      /\ q.route = r.route /\ q.wire = r.wire
  BY <1>0, <1>2 DEF RequestRecord
<1>4. r.match \in Matches /\ r.tale \in Tales /\ r.awaited \in BOOLEAN
  BY <1>2 DEF RequestRecord
<1>5. [event |-> Decode(r.route, r.wire), life |-> r.tale.life] = r.tale
  BY <1>2, <1>4 DEF Faithful, Tales
<1>6. bus \in Seq(Tales) /\ bus' = Append(bus, r.tale)
  BY <1>5 DEF SubmissionIndInv, QueueTypes
<1>7. /\ Len(bus') = Len(bus) + 1 /\ DOMAIN bus' = 1 .. Len(bus) + 1 /\ Len(bus) \in Nat
      /\ \A i \in 1 .. Len(bus) : bus'[i] = bus[i]
      /\ bus'[Len(bus) + 1] = r.tale /\ DOMAIN bus = 1 .. Len(bus)
  BY <1>4, <1>6
<1>8. LogTypeOK' /\ RunTypes'  BY <1>1 DEF SubmissionIndInv, LogTypeOK, RunTypes
<1>9. QueueTypes'
  <2>1. bus' \in Seq(Tales)  BY <1>4, <1>6
  <2>2. handled' \in 0 .. Len(bus')  BY <1>1, <1>7 DEF SubmissionIndInv, QueueTypes
  <2>3. QED  BY <2>1, <2>2, <1>1, <1>3 DEF SubmissionIndInv, QueueTypes
<1>10. WaitsForOne'
  <2> SUFFICES ASSUME NEW k \in Matches
               PROVE  IF runner[k] = "submitting" THEN \E x \in requests' : Awaited(k)' = {x}
                                                  ELSE Awaited(k)' = {}
    BY <1>1 DEF WaitsForOne
  <2>1. CASE r.awaited /\ k = r.match
    <3>1. Awaited(k) = {r} /\ runner[k] = "submitting"
      BY <2>1, OneIsAwaited DEF SubmissionIndInv
    <3>2. Awaited(k)' = {q}  BY <2>1, <3>1, <1>1, <1>3 DEF Awaited
    <3>3. QED  BY <3>1, <3>2, <1>1
  <2>2. CASE ~ (r.awaited /\ k = r.match)
    <3>1. Awaited(k)' = Awaited(k)  BY <2>2, <1>1, <1>3 DEF Awaited
    <3>2. \A x \in requests : Awaited(k) = {x} => x \in requests'
      BY <2>2, <1>1 DEF Awaited
    <3>3. QED  BY <3>1, <3>2 DEF SubmissionIndInv, WaitsForOne
  <2>3. QED  BY <2>1, <2>2
<1>11. RequestsAreFaithful'
  <2>1. ASSUME NEW u, OnTheWay(u)'  PROVE OnTheWay(u)
    <3>1. CASE \E x \in requests' : x.tale = u  BY <3>1, <1>1, <1>3 DEF OnTheWay
    <3>2. CASE \E i \in DOMAIN bus' : bus'[i] = u
      <4>1. PICK i \in 1 .. Len(bus) + 1 : bus'[i] = u  BY <3>2, <1>7
      <4>2. i \in 1 .. Len(bus) \/ i = Len(bus) + 1  BY <1>7
      <4>3. u = r.tale \/ \E j \in DOMAIN bus : bus[j] = u  BY <4>1, <4>2, <1>7
      <4>4. QED  BY <4>3 DEF OnTheWay
    <3>3. QED  BY <2>1, <3>1, <3>2 DEF OnTheWay
  <2>2. ASSUME NEW x \in requests  PROVE Faithful(x)'
    BY <2>1, <1>1, StaysFaithful
  <2>3. Faithful(q)'
    <3>1. Faithful(r)'  BY <2>2
    <3>2. GivenUp(r)' => GivenUp(q)'  BY <1>3 DEF GivenUp
    <3>3. QED  BY <3>1, <3>2, <1>3 DEF Faithful
  <2>4. QED  BY <2>2, <2>3, <1>1 DEF RequestsAreFaithful
<1>12. ToldIsEmitted' /\ ToldApart'  BY <1>1 DEF SubmissionIndInv, ToldIsEmitted, ToldApart
<1>13. StoryIsTrue'
  <2>1. r.tale \in told  BY <1>2 DEF Faithful
  <2>2. \A i \in DOMAIN bus' : bus'[i] \in told
    <3> SUFFICES ASSUME NEW i \in 1 .. Len(bus) + 1 PROVE bus'[i] \in told  BY <1>7
    <3>1. CASE i = Len(bus) + 1  BY <3>1, <2>1, <1>7
    <3>2. CASE i # Len(bus) + 1
      <4>1. i \in 1 .. Len(bus)  BY <3>2, <1>7
      <4>2. QED  BY <4>1, <1>7 DEF SubmissionIndInv, StoryIsTrue
    <3>3. QED  BY <3>1, <3>2
  <2>3. QED  BY <2>2, <1>1 DEF SubmissionIndInv, StoryIsTrue
<1>14. ASSUME NEW u, OnTheWay(u), Later(u, r.tale)
       PROVE  LostBy(r.tale, {"submit event failed"})
  <2>1. r.awaited = FALSE
    BY <1>14, <1>4, OnTheWayIsTold, AwaitedIsLatest
  <2>2. GivenUp(r)  BY <2>1, <1>2 DEF Faithful
  <2>3. QED  BY <2>2, <1>14 DEF GivenUp, IsLast
<1>15. OvertakenTimedOut'
  <2> SUFFICES ASSUME NEW i \in 1 .. Len(bus) + 1, NEW j \in 1 .. Len(bus) + 1,
                      i < j, bus'[i].life = bus'[j].life,
                      bus'[i].event.match = bus'[j].event.match,
                      bus'[i].event.sequence > bus'[j].event.sequence
               PROVE  LostBy(bus'[j], {"submit event failed"})
    BY <1>1, <1>7 DEF OvertakenTimedOut, LostBy
  <2>1. i \in 1 .. Len(bus) /\ bus'[i] = bus[i]  BY <1>7
  <2>2. CASE j \in 1 .. Len(bus)
    BY <2>1, <2>2, <1>7 DEF SubmissionIndInv, OvertakenTimedOut
  <2>3. CASE j = Len(bus) + 1
    <3>1. OnTheWay(bus[i])  BY <2>1, <1>7 DEF OnTheWay
    <3>2. Later(bus[i], r.tale)  BY <2>1, <2>3, <1>7 DEF Later
    <3>3. QED  BY <3>1, <3>2, <2>3, <1>7, <1>14
  <2>4. j \in 1 .. Len(bus) \/ j = Len(bus) + 1  BY <1>7
  <2>5. QED  BY <2>2, <2>3, <2>4
<1>16. QED
  BY <1>8, <1>9, <1>10, <1>11, <1>12, <1>13, <1>15 DEF SubmissionIndInv

-----------------------------------------------------------------------------
(* The rest of the steps, and the theorem. *)

\* A Runner that is over waits for nothing.
LEMMA RangeEndsStep ==
  ASSUME SubmissionIndInv, NEW m \in Matches, RangeEnds(m)
  PROVE  SubmissionIndInv'
<1>1. /\ runner[m] = "ranging" /\ runner' = [runner EXCEPT ![m] = "over"]
      /\ UNCHANGED <<rows, timeline, life, script, emittedCount, cancelled, requests, bus,
                     handled, told, lost>>
  BY DEF RangeEnds, logVars
<1>2. LogTypeOK' /\ RunTypes' /\ QueueTypes'
  BY <1>1 DEF SubmissionIndInv, LogTypeOK, RunTypes, QueueTypes
<1>3. \A k \in Matches : /\ runner'[k] = "submitting" <=> runner[k] = "submitting"
                         /\ Awaited(k)' = Awaited(k)
  BY <1>1 DEF SubmissionIndInv, RunTypes, Awaited
<1>4. WaitsForOne'  BY <1>1, <1>3 DEF SubmissionIndInv, WaitsForOne
<1>5. ToldIsEmitted' /\ ToldApart' /\ StoryIsTrue' /\ OvertakenTimedOut'
  BY <1>1, StoryStays
<1>6. RequestsAreFaithful'
  <2>1. \A u : OnTheWay(u)' => OnTheWay(u)  BY <1>1 DEF OnTheWay
  <2>2. QED  BY <2>1, <1>1, StaysFaithful DEF RequestsAreFaithful
<1>7. QED  BY <1>2, <1>4, <1>5, <1>6 DEF SubmissionIndInv

\* match-service handles a message: the tables gain no event that was not told.
LEMMA HandledStep ==
  ASSUME SubmissionIndInv, Apply \/ ApplyFails \/ Miss
  PROVE  SubmissionIndInv'
<1>1. /\ handled < Len(bus) /\ handled' = handled + 1
      /\ UNCHANGED <<life, script, emittedCount, runner, cancelled, requests, bus, told>>
  BY DEF Apply, ApplyFails, Miss, runVars
<1>2. PICK t : t = bus[handled + 1]  OBVIOUS
<1>3. handled + 1 \in 1 .. Len(bus) /\ DOMAIN bus = 1 .. Len(bus) /\ handled \in Nat /\ Len(bus) \in Nat
  BY <1>1 DEF SubmissionIndInv, QueueTypes
<1>4. t \in told /\ t \in Tales /\ t.event \in Events
  BY <1>2, <1>3 DEF SubmissionIndInv, StoryIsTrue, QueueTypes, Tales
<1>5. UNCHANGED <<rows, timeline>> \/ Record(t.event)
  BY <1>2 DEF Apply, ApplyFails, Miss, logVars
<1>6. lost \subseteq lost' /\ lost' \subseteq lost \cup {<<t, "apply failed">>, <<t, "missed">>}
  BY <1>2 DEF Apply, ApplyFails, Miss, Loses
<1>7. LogTypeOK'
  <2>1. CASE UNCHANGED <<rows, timeline>>  BY <2>1 DEF SubmissionIndInv, LogTypeOK
  <2>2. CASE Record(t.event)  BY <2>2, <1>4, RecordType DEF SubmissionIndInv
  <2>3. QED  BY <1>5, <2>1, <2>2
<1>8. RunTypes'  BY <1>1 DEF SubmissionIndInv, RunTypes
<1>9. QueueTypes'
  <2>1. handled' \in 0 .. Len(bus)  BY <1>1, <1>3
  <2>2. lost' \subseteq Tales \X (Logged \cup Silent)
    <3>1. "apply failed" \in Logged \cup Silent /\ "missed" \in Logged \cup Silent
      BY DEF Logged, Silent
    <3>2. /\ <<t, "apply failed">> \in Tales \X (Logged \cup Silent)
          /\ <<t, "missed">> \in Tales \X (Logged \cup Silent)
      BY <3>1, <1>4, LossType
    <3>3. QED  BY <3>2, <1>6 DEF SubmissionIndInv, QueueTypes
  <2>3. QED  BY <2>1, <2>2, <1>1 DEF SubmissionIndInv, QueueTypes
<1>10. WaitsForOne'  BY <1>1 DEF SubmissionIndInv, WaitsForOne, Awaited
<1>11. RequestsAreFaithful'
  <2>1. \A u : OnTheWay(u)' => OnTheWay(u)  BY <1>1 DEF OnTheWay
  <2>2. QED  BY <2>1, <1>1, <1>6, StaysFaithful DEF RequestsAreFaithful
<1>12. ToldIsEmitted' /\ ToldApart'  BY <1>1 DEF SubmissionIndInv, ToldIsEmitted, ToldApart
<1>13. StoryIsTrue'
  <2>1. ASSUME NEW m \in Matches, NEW e \in timeline'[m]  PROVE e \in timeline[m] \/ e = t.event
    <3>1. CASE UNCHANGED <<rows, timeline>>  BY <2>1, <3>1
    <3>2. CASE Record(t.event)
      BY <2>1, <3>2, <1>4, RecordEffect DEF SubmissionIndInv
    <3>3. QED  BY <1>5, <3>1, <3>2
  <2>2. QED  BY <2>1, <1>1, <1>4 DEF SubmissionIndInv, StoryIsTrue
<1>14. OvertakenTimedOut'  BY <1>1, <1>6 DEF SubmissionIndInv, OvertakenTimedOut, LostBy
<1>15. QED
  BY <1>7, <1>8, <1>9, <1>10, <1>11, <1>12, <1>13, <1>14 DEF SubmissionIndInv

\* A restart begins a life of which nothing has been told; those whom the killed
\* Runners waited for were the last of the earlier one.
LEMMA RestartStep ==
  ASSUME SubmissionIndInv, Restart
  PROVE  SubmissionIndInv'
<1>1. /\ life < MaxLives /\ life' = life + 1
      /\ \A m \in Matches : script'[m] \in Scripts[m]
      /\ emittedCount' = [m \in Matches |-> 0]
      /\ runner' = [m \in Matches |-> "ranging"]
      /\ cancelled' = [m \in Matches |-> FALSE]
      /\ requests' = {[r EXCEPT !.awaited = FALSE] : r \in requests}
      /\ lost' = lost \cup {<<r.tale, "killed">> : r \in {q \in requests : q.awaited}}
      /\ UNCHANGED <<rows, timeline, bus, handled, told>>
  BY DEF Restart, logVars
<1>2. life' \in 1 .. MaxLives /\ \A n \in Int : n <= life => n <= life' /\ n # life'
  BY <1>1, SubmissionAssumption DEF SubmissionIndInv, RunTypes
<1>3. ASSUME NEW t \in told  PROVE t.life \in Int /\ t.life <= life' /\ t.life # life'
  <2>1. t.life \in Int /\ t.life <= life
    BY SubmissionAssumption DEF SubmissionIndInv, ToldIsEmitted, QueueTypes, Tales
  <2>2. QED  BY <2>1, <1>2
<1>4. LogTypeOK'  BY <1>1 DEF SubmissionIndInv, LogTypeOK
<1>5. RunTypes'
  <2>1. \A m \in Matches : script'[m] \in Seq(Events)  BY <1>1, SubmissionAssumption
  <2>2. \A m \in Matches : Len(script'[m]) \in Nat  BY <2>1
  <2>3. QED  BY <1>1, <1>2, <2>2 DEF RunTypes
<1>6. ASSUME NEW u, OnTheWay(u)'  PROVE OnTheWay(u)
  <2>1. CASE \E x \in requests' : x.tale = u
    <3>1. PICK r \in requests : u = [r EXCEPT !.awaited = FALSE].tale  BY <2>1, <1>1
    <3>2. r \in RequestRecord  BY DEF SubmissionIndInv, QueueTypes
    <3>3. u = r.tale  BY <3>1, <3>2 DEF RequestRecord
    <3>4. QED  BY <3>3 DEF OnTheWay
  <2>2. CASE \E i \in DOMAIN bus' : bus'[i] = u  BY <2>2, <1>1 DEF OnTheWay
  <2>3. QED  BY <1>6, <2>1, <2>2 DEF OnTheWay
<1>7. ASSUME NEW q \in requests'
      PROVE  q \in RequestRecord /\ q.awaited = FALSE /\ Faithful(q)'
  <2>1. PICK r \in requests : q = [r EXCEPT !.awaited = FALSE]  BY <1>1, <1>7
  <2>2. r \in RequestRecord /\ Faithful(r)
    BY DEF SubmissionIndInv, QueueTypes, RequestsAreFaithful
  <2>3. /\ q \in RequestRecord /\ q.match = r.match /\ q.awaited = FALSE /\ q.tale = r.tale
        /\ q.route = r.route /\ q.wire = r.wire
    BY <2>1, <2>2 DEF RequestRecord
  <2>4. r.tale \in told /\ r.awaited \in BOOLEAN  BY <2>2 DEF Faithful, RequestRecord
  <2>5. r.tale.life < life'
    <3>1. r.tale.life \in Int /\ r.tale.life <= life' /\ r.tale.life # life'  BY <2>4, <1>3
    <3>2. life' \in Int  BY <1>2
    <3>3. QED  BY <3>1, <3>2
  <2>6. GivenUp(q)'
    <3>1. CASE ~ r.awaited /\ LostBy(r.tale, {"submit event failed"})
      BY <3>1, <2>3, <1>1 DEF GivenUp, LostBy
    <3>2. CASE ~ r.awaited /\ ~ LostBy(r.tale, {"submit event failed"})
      <4>1. LostBy(r.tale, Silent) /\ IsLast(r.tale)  BY <3>2, <2>2 DEF Faithful, GivenUp
      <4>2. LostBy(r.tale, Silent)'  BY <4>1, <1>1 DEF LostBy, Silent
      <4>3. IsLast(r.tale)'  BY <4>1, <1>6, LastStays
      <4>4. QED  BY <4>2, <4>3, <2>3, <2>5 DEF GivenUp
    <3>3. CASE r.awaited
      <4>1. <<r.tale, "killed">> \in lost'  BY <3>3, <1>1
      <4>2. LostBy(r.tale, Silent)'  BY <4>1 DEF LostBy, Silent
      <4>3. IsLast(r.tale)'  BY <3>3, <1>6, AwaitedIsLast, LastStays
      <4>4. QED  BY <4>2, <4>3, <2>3, <2>5 DEF GivenUp
    <3>4. QED  BY <3>1, <3>2, <3>3
  <2>7. QED  BY <2>2, <2>3, <2>4, <2>6, <1>1 DEF Faithful
<1>8. QueueTypes'
  <2>1. \A r \in requests : r.tale \in Tales
    BY DEF SubmissionIndInv, QueueTypes, RequestRecord
  <2>2. lost' \subseteq Tales \X (Logged \cup Silent)
    BY <2>1, <1>1 DEF SubmissionIndInv, QueueTypes, Silent
  <2>3. QED  BY <2>2, <1>1, <1>7 DEF SubmissionIndInv, QueueTypes
<1>9. WaitsForOne'  BY <1>1, <1>7 DEF WaitsForOne, Awaited
<1>10. RequestsAreFaithful'  BY <1>7 DEF RequestsAreFaithful
<1>11. ToldIsEmitted'  BY <1>1, <1>3 DEF ToldIsEmitted
<1>12. StoryIsTrue' /\ ToldApart'  BY <1>1 DEF SubmissionIndInv, StoryIsTrue, ToldApart
<1>13. OvertakenTimedOut'  BY <1>1 DEF SubmissionIndInv, OvertakenTimedOut, LostBy
<1>14. QED
  BY <1>4, <1>5, <1>8, <1>9, <1>10, <1>11, <1>12, <1>13 DEF SubmissionIndInv

\* At first nothing has been told.
LEMMA SubmissionStarts ==
  ASSUME SubmissionInit
  PROVE  SubmissionIndInv
<1>1. /\ life = 1 /\ emittedCount = [m \in Matches |-> 0]
      /\ \A m \in Matches : script[m] \in Scripts[m]
      /\ runner = [m \in Matches |-> "ranging"] /\ cancelled = [m \in Matches |-> FALSE]
      /\ requests = {} /\ bus = <<>> /\ handled = 0 /\ told = {} /\ lost = {}
      /\ timeline = [m \in Matches |-> {}] /\ LogInit
  BY DEF SubmissionInit, LogInit
<1>2. LogTypeOK  BY <1>1 DEF LogInit, LogTypeOK
<1>3. RunTypes
  <2>1. \A m \in Matches : script[m] \in Seq(Events)  BY <1>1, SubmissionAssumption
  <2>2. \A m \in Matches : Len(script[m]) \in Nat  BY <2>1
  <2>3. QED  BY <1>1, <2>2, SubmissionAssumption DEF RunTypes
<1>4. QueueTypes  BY <1>1 DEF QueueTypes
<1>5. WaitsForOne  BY <1>1 DEF WaitsForOne, Awaited
<1>6. RequestsAreFaithful /\ ToldIsEmitted /\ ToldApart
  BY <1>1 DEF RequestsAreFaithful, ToldIsEmitted, ToldApart
<1>7. StoryIsTrue /\ OvertakenTimedOut  BY <1>1 DEF StoryIsTrue, OvertakenTimedOut
<1>8. QED  BY <1>2, <1>3, <1>4, <1>5, <1>6, <1>7 DEF SubmissionIndInv

\* Every step keeps the invariant.
LEMMA SubmissionStep == SubmissionIndInv /\ [SubmissionNext]_submissionVars => SubmissionIndInv'
<1> SUFFICES ASSUME SubmissionIndInv, [SubmissionNext]_submissionVars PROVE SubmissionIndInv'
  OBVIOUS
<1>1. CASE UNCHANGED submissionVars
  <2>1. UNCHANGED <<rows, timeline, life, script, emittedCount, runner, cancelled, requests, bus,
                    handled, told, lost>>
    BY <1>1 DEF submissionVars, runVars, logVars
  <2>2. LogTypeOK' /\ RunTypes' /\ QueueTypes'
    BY <2>1 DEF SubmissionIndInv, LogTypeOK, RunTypes, QueueTypes
  <2>3. WaitsForOne'  BY <2>1 DEF SubmissionIndInv, WaitsForOne, Awaited
  <2>4. RequestsAreFaithful'
    <3>1. \A u : OnTheWay(u)' => OnTheWay(u)  BY <2>1 DEF OnTheWay
    <3>2. QED  BY <3>1, <2>1, StaysFaithful DEF RequestsAreFaithful
  <2>5. ToldIsEmitted' /\ ToldApart' /\ StoryIsTrue' /\ OvertakenTimedOut'
    BY <2>1, StoryStays
  <2>6. QED  BY <2>2, <2>3, <2>4, <2>5 DEF SubmissionIndInv
<1>2. ASSUME NEW m \in Matches, RunnerStep(m)  PROVE SubmissionIndInv'
  BY <1>2, SubmitStep, SubmitCancelledStep, RangeEndsStep DEF RunnerStep
<1>3. ASSUME NEW m \in Matches, TimeOut(m)  PROVE SubmissionIndInv'
  <2>1. PICK r \in requests : GivesUp(m, r, "submit event failed")  BY <1>3 DEF TimeOut
  <2>2. UNCHANGED <<logVars, life, script, emittedCount, cancelled, bus, handled, told>>
    BY <1>3 DEF TimeOut
  <2>3. cancelled' \in [Matches -> BOOLEAN]  BY <2>2 DEF SubmissionIndInv, RunTypes
  <2>4. \A k \in Matches : cancelled[k] => cancelled'[k]  BY <2>2
  <2>5. QED  BY <2>1, <2>2, <2>3, <2>4, GivesUpStep
<1>4. ASSUME NEW m \in Matches, Cancel(m)  PROVE SubmissionIndInv'
  <2>1. UNCHANGED <<logVars, life, script, emittedCount, bus, handled, told>>
        /\ cancelled' = [cancelled EXCEPT ![m] = TRUE]
    BY <1>4 DEF Cancel
  <2>2. /\ cancelled' \in [Matches -> BOOLEAN] /\ cancelled'[m]
        /\ \A k \in Matches : cancelled[k] => cancelled'[k]
    BY <2>1 DEF SubmissionIndInv, RunTypes
  <2>3. CASE runner[m] = "submitting"
    <3>1. PICK r \in requests : GivesUp(m, r, "cancelled")  BY <1>4, <2>3 DEF Cancel
    <3>2. QED  BY <2>1, <2>2, <3>1, GivesUpStep
  <2>4. CASE runner[m] # "submitting"
    <3>1. UNCHANGED <<requests, runner, lost>>  BY <1>4, <2>4 DEF Cancel
    <3>2. RunTypes'  BY <3>1, <2>1, <2>2 DEF SubmissionIndInv, RunTypes
    <3>3. LogTypeOK' /\ QueueTypes' /\ WaitsForOne'
      BY <3>1, <2>1 DEF logVars, SubmissionIndInv, LogTypeOK, QueueTypes, WaitsForOne, Awaited
    <3>4. ToldIsEmitted' /\ ToldApart' /\ StoryIsTrue' /\ OvertakenTimedOut'
      BY <3>1, <2>1, StoryStays DEF logVars
    <3>5. RequestsAreFaithful'
      <4>1. \A u : OnTheWay(u)' => OnTheWay(u)  BY <3>1, <2>1 DEF OnTheWay
      <4>2. QED  BY <4>1, <3>1, <2>1, <2>2, StaysFaithful DEF RequestsAreFaithful
    <3>6. QED  BY <3>2, <3>3, <3>4, <3>5 DEF SubmissionIndInv
  <2>5. QED  BY <2>3, <2>4
<1>5. ASSUME NEW r \in requests, Handle(r)  PROVE SubmissionIndInv'
  <2>1. CASE Publish(r)  BY <2>1, PublishStep DEF Publish
  <2>2. CASE PublishAgain(r)  BY <2>2, PublishStep DEF PublishAgain
  <2>3. CASE Accept(r)  BY <2>3, AnsweredStep DEF Accept
  <2>4. CASE Fail(r)  BY <2>4, AnsweredStep DEF Fail, Loses
  <2>5. QED  BY <1>5, <2>1, <2>2, <2>3, <2>4 DEF Handle
<1>6. CASE Apply \/ ApplyFails \/ Miss  BY <1>6, HandledStep
<1>7. CASE Restart  BY <1>7, RestartStep
<1>8. QED  BY <1>1, <1>2, <1>3, <1>4, <1>5, <1>6, <1>7 DEF SubmissionNext

\* The inductive invariant says all that SubmissionInv does.
LEMMA SubmissionIndInvSuffices == SubmissionIndInv => SubmissionInv
<1> SUFFICES ASSUME SubmissionIndInv PROVE SubmissionInv  OBVIOUS
<1>1. ASSUME NEW m \in Matches
      PROVE  /\ script[m] \in Scripts[m] /\ emittedCount[m] \in 0 .. Len(script[m])
             /\ runner[m] \in {"ranging", "submitting", "over"} /\ cancelled[m] \in BOOLEAN
             /\ Cardinality({r \in requests : r.match = m /\ r.awaited})
                  = IF runner[m] = "submitting" THEN 1 ELSE 0
  <2>1. Len(script[m]) \in Nat  BY ScriptFacts DEF SubmissionIndInv
  <2>2. emittedCount[m] \in 0 .. Len(script[m])  BY <2>1 DEF SubmissionIndInv, RunTypes
  <2>3. Cardinality(Awaited(m)) = IF runner[m] = "submitting" THEN 1 ELSE 0
    <3>1. CASE runner[m] = "submitting"
      <4>1. PICK r \in requests : Awaited(m) = {r}  BY <3>1 DEF SubmissionIndInv, WaitsForOne
      <4>2. Cardinality({r}) = 1  BY FS_Singleton
      <4>3. QED  BY <3>1, <4>1, <4>2
    <3>2. CASE runner[m] # "submitting"
      <4>1. Awaited(m) = {}  BY <3>2 DEF SubmissionIndInv, WaitsForOne
      <4>2. QED  BY <3>2, <4>1, FS_EmptySet
    <3>3. QED  BY <3>1, <3>2
  <2>4. QED  BY <2>2, <2>3 DEF SubmissionIndInv, RunTypes, Awaited
<1>2. \A r \in requests : r.at \in {"sent", "published", "repeated"} /\ r.tale \in Tales
  BY DEF SubmissionIndInv, QueueTypes, RequestRecord
<1>3. SubmissionTypeOK
  BY <1>1, <1>2 DEF SubmissionTypeOK, SubmissionIndInv, RunTypes, QueueTypes
<1>4. QED  BY <1>3 DEF SubmissionInv, SubmissionIndInv

\* Whatever fails, is given up, is late or comes twice on the way from the Runners
\* to the tables, over either provider and across restarts of the simulator: only
\* events that were taken arrive, unaltered, and out of order only those whose
\* submission timed out, which was logged.
THEOREM TheStoryIsTrue == SubmissionSpec => []SubmissionInv
<1>1. SubmissionSpec => []SubmissionIndInv
  BY SubmissionStarts, SubmissionStep, PTL DEF SubmissionSpec
<1>2. QED  BY <1>1, SubmissionIndInvSuffices, PTL

-----------------------------------------------------------------------------
(* What becomes of the events. *)

Lost(t) == LostBy(t, Logged) \/ LostBy(t, Silent)

\* What StoryIsComplete admits of an event, once it is handled.
Settled(t) == \/ t.event \in timeline[t.event.match]
              \/ t.event.type = "odds_update"
              \/ Lost(t)
              \/ Hidden(t)

HandledIsSettled == \A i \in 1 .. handled : Settled(bus[i])

\* Nothing is recorded but what was handled.
RecordedWasHandled ==
  \A m \in Matches : \A e \in timeline[m] :
    e.match = m /\ \E i \in 1 .. handled : bus[i].event = e

PublishedIsOut ==
  \A r \in requests : r.at # "sent" => \E i \in 1 .. Len(bus) : bus[i] = r.tale

ToldIsSomewhere ==
  \A t \in told : \/ Lost(t)
                  \/ \E r \in requests : r.tale = t
                  \/ \E i \in 1 .. Len(bus) : bus[i] = t

FateInv == LogInv /\ HandledIsSettled /\ RecordedWasHandled /\ PublishedIsOut /\ ToldIsSomewhere

\* A loss is not undone, nor is anything else that settles an event.
LEMMA LostStays ==
  ASSUME NEW t, Lost(t), lost \subseteq lost'
  PROVE  Lost(t)'
BY DEF Lost, LostBy, Logged, Silent

LEMMA SettledStays ==
  ASSUME NEW t, Settled(t), t.event.match \in Matches,
         told \subseteq told', lost \subseteq lost',
         \A m \in Matches : timeline[m] \subseteq timeline'[m]
  PROVE  Settled(t)'
<1>1. CASE Lost(t)  BY <1>1, LostStays DEF Settled
<1>2. CASE Hidden(t)
  <2>1. PICK u \in told : /\ u.life # t.life /\ u.event.match = t.event.match
                          /\ u.event.sequence >= t.event.sequence
                          /\ u.event \in timeline[t.event.match]
    BY <1>2 DEF Hidden
  <2>2. u \in told' /\ u.event \in timeline'[t.event.match]  BY <2>1
  <2>3. Hidden(t)'  BY <2>1, <2>2 DEF Hidden
  <2>4. QED  BY <2>3 DEF Settled
<1>3. QED  BY <1>1, <1>2 DEF Settled

\* A step that handles nothing leaves what was handled as it is.
LEMMA PastStays ==
  ASSUME SubmissionIndInv, FateInv, told \subseteq told', lost \subseteq lost',
         UNCHANGED <<handled, rows, timeline>>,
         Len(bus') \in Nat, \A i \in 1 .. Len(bus) : bus'[i] = bus[i]
  PROVE  LogInv' /\ HandledIsSettled' /\ RecordedWasHandled'
<1>1. 1 .. handled \subseteq 1 .. Len(bus) /\ DOMAIN bus = 1 .. Len(bus)
  BY DEF SubmissionIndInv, QueueTypes
<1>2. ASSUME NEW i \in 1 .. handled
      PROVE  bus'[i] = bus[i] /\ bus[i].event.match \in Matches
  <2>1. i \in 1 .. Len(bus)  BY <1>1
  <2>2. bus[i] \in Tales  BY <2>1 DEF SubmissionIndInv, QueueTypes
  <2>3. QED  BY <2>1, <2>2, EventsAssumption DEF Tales, Event
<1>3. HandledIsSettled'
  <2> SUFFICES ASSUME NEW i \in 1 .. handled
               PROVE  Settled(bus[i])'
    BY <1>2 DEF HandledIsSettled
  <2>1. PICK t : t = bus[i]  OBVIOUS
  <2>2. Settled(t)  BY <2>1 DEF FateInv, HandledIsSettled
  <2>3. Settled(t)'  BY <1>2, <2>1, <2>2, SettledStays
  <2>4. bus'[i] = t  BY <2>1, <1>2
  <2>5. QED  BY <2>3, <2>4
<1>4. RecordedWasHandled'  BY <1>2 DEF FateInv, RecordedWasHandled
<1>5. LogInv'
  BY LogInvStep DEF FateInv, logVars
<1>6. QED  BY <1>3, <1>4, <1>5

\* The event that match-service drops as stale is recorded already, was overtaken
\* after its submission timed out, or is hidden by a match of another life.
LEMMA StaleIsSettled ==
  ASSUME SubmissionIndInv, FateInv, NEW t, t = bus[handled + 1], handled < Len(bus),
         IsStale(t.event)
  PROVE  Settled(t)
<1> DEFINE e == t.event
           m == e.match
<1>1. /\ handled \in Nat /\ Len(bus) \in Nat /\ handled + 1 \in 1 .. Len(bus)
      /\ DOMAIN bus = 1 .. Len(bus) /\ 1 .. handled \subseteq 1 .. Len(bus)
  BY DEF SubmissionIndInv, QueueTypes
<1>2. t \in told /\ t \in Tales
  BY <1>1 DEF SubmissionIndInv, StoryIsTrue, QueueTypes
<1>3. e \in Events /\ e \in Event /\ m \in Matches /\ e.sequence \in Nat
  BY <1>2, EventsAssumption DEF Tales, Event
<1>4. e.sequence > 0  BY <1>2 DEF SubmissionIndInv, ToldApart
<1>5. rows[m] # NoRow  BY <1>3, <1>4 DEF IsStale, Stale, LoadOrCreate, FreshRow
<1>6. rows[m] \in Row /\ Derived(rows[m], timeline[m]) /\ timeline[m] \subseteq Event
  BY <1>3, <1>5, EventsAssumption DEF FateInv, LogInv, LogTypeOK, RowMatchesTimeline
<1>7. PICK f \in timeline[m] : f.sequence = rows[m].lastSequence
  BY <1>6 DEF Derived, SequenceAgrees
<1>8. f.sequence >= e.sequence /\ f.sequence \in Nat
  BY <1>3, <1>5, <1>6, <1>7 DEF IsStale, Stale, LoadOrCreate, Event
<1>9. f.match = m /\ \E i \in 1 .. handled : bus[i].event = f
  BY <1>3, <1>7 DEF FateInv, RecordedWasHandled
<1>10. PICK i \in 1 .. handled : bus[i].event = f  BY <1>9
<1>11. PICK u : u = bus[i]  OBVIOUS
<1>12. i \in 1 .. Len(bus) /\ i < handled + 1  BY <1>1
<1>13. u \in told /\ u.event = f
  BY <1>1, <1>10, <1>11, <1>12 DEF SubmissionIndInv, StoryIsTrue
<1>14. CASE u.life # t.life
  <2>1. Hidden(t)  BY <1>14, <1>7, <1>8, <1>9, <1>13 DEF Hidden
  <2>2. QED  BY <2>1 DEF Settled
<1>15. CASE u.life = t.life /\ f.sequence > e.sequence
  <2>1. LostBy(t, {"submit event failed"})
    BY <1>1, <1>9, <1>10, <1>11, <1>12, <1>15 DEF SubmissionIndInv, OvertakenTimedOut
  <2>2. LostBy(t, Logged)  BY <2>1 DEF LostBy, Logged
  <2>3. QED  BY <2>2 DEF Settled, Lost
<1>16. CASE u.life = t.life /\ f.sequence = e.sequence
  <2>1. u.event = t.event
    BY <1>2, <1>9, <1>13, <1>16 DEF SubmissionIndInv, ToldApart
  <2>2. QED  BY <2>1, <1>7, <1>13 DEF Settled
<1>17. QED  BY <1>3, <1>8, <1>14, <1>15, <1>16

\* Steps by which requests come, change and go, but not those that publish: a
\* request that leaves is published, or lost.
LEMMA RequestsMove ==
  ASSUME SubmissionIndInv, FateInv, told \subseteq told', lost \subseteq lost',
         UNCHANGED <<logVars, bus, handled>>,
         \A q \in requests' : q.at # "sent" => \E r \in requests : r.at = q.at /\ r.tale = q.tale,
         \A t \in told' \ told : Lost(t)' \/ \E q \in requests' : q.tale = t,
         \A r \in requests :
           \/ \E q \in requests' : q.tale = r.tale
           \/ r.at # "sent"
           \/ Lost(r.tale)'
  PROVE  FateInv'
<1>1. UNCHANGED <<rows, timeline>> /\ bus' = bus  BY DEF logVars
<1>2. Len(bus') \in Nat  BY DEF SubmissionIndInv, QueueTypes
<1>3. LogInv' /\ HandledIsSettled' /\ RecordedWasHandled'
  BY <1>1, <1>2, PastStays
<1>4. PublishedIsOut'  BY DEF FateInv, PublishedIsOut
<1>5. ToldIsSomewhere'
  <2> SUFFICES ASSUME NEW t \in told'
               PROVE  \/ Lost(t)'
                      \/ \E q \in requests' : q.tale = t
                      \/ \E i \in 1 .. Len(bus) : bus[i] = t
    BY <1>1 DEF ToldIsSomewhere
  <2>1. CASE t \notin told  BY <2>1
  <2>2. CASE \E r \in requests : r.tale = t
    <3>1. PICK r \in requests : r.tale = t  BY <2>2
    <3>2. CASE r.at # "sent"  BY <3>1, <3>2 DEF FateInv, PublishedIsOut
    <3>3. CASE ~ (r.at # "sent")  BY <3>1, <3>3
    <3>4. QED  BY <3>2, <3>3
  <2>3. CASE Lost(t)  BY <2>3, LostStays
  <2>4. CASE t \in told /\ ~ Lost(t) /\ ~ \E r \in requests : r.tale = t
    BY <2>4 DEF FateInv, ToldIsSomewhere
  <2>5. QED  BY <2>1, <2>2, <2>3, <2>4
<1>6. QED  BY <1>3, <1>4, <1>5 DEF FateInv

\* What is published moves from the requests to the bus.
LEMMA PublishingKeepsFates ==
  ASSUME SubmissionIndInv, FateInv, NEW r \in requests, NEW stage \in {"published", "repeated"},
         bus' = Append(bus, [event |-> Decode(r.route, r.wire), life |-> r.tale.life]),
         requests' = (requests \ {r}) \cup {[r EXCEPT !.at = stage]},
         UNCHANGED <<logVars, runVars, handled, told, lost>>
  PROVE  FateInv'
<1>0. PICK q : q = [r EXCEPT !.at = stage]  OBVIOUS
<1>1. requests' = (requests \ {r}) \cup {q} /\ UNCHANGED <<rows, timeline, life, handled, told, lost>>
  BY <1>0 DEF logVars, runVars
<1>2. r \in RequestRecord /\ Faithful(r)
  BY DEF SubmissionIndInv, QueueTypes, RequestsAreFaithful
<1>3. q.tale = r.tale /\ r.tale \in Tales  BY <1>0, <1>2 DEF RequestRecord
<1>4. [event |-> Decode(r.route, r.wire), life |-> r.tale.life] = r.tale
  BY <1>2, <1>3 DEF Faithful, Tales
<1>5. bus \in Seq(Tales) /\ bus' = Append(bus, r.tale)
  BY <1>4 DEF SubmissionIndInv, QueueTypes
<1>6. /\ Len(bus') = Len(bus) + 1 /\ Len(bus) \in Nat
      /\ \A i \in 1 .. Len(bus) : bus'[i] = bus[i]
      /\ bus'[Len(bus) + 1] = r.tale
  BY <1>3, <1>5
<1>7. LogInv' /\ HandledIsSettled' /\ RecordedWasHandled'
  BY <1>1, <1>6, PastStays
<1>8. /\ 1 .. Len(bus) \subseteq 1 .. Len(bus')
      /\ Len(bus) + 1 \in 1 .. Len(bus')
  BY <1>6
<1>9. \E i \in 1 .. Len(bus') : bus'[i] = r.tale  BY <1>6, <1>8
<1>10. PublishedIsOut'
  <2> SUFFICES ASSUME NEW x \in requests', x.at # "sent"
               PROVE  \E i \in 1 .. Len(bus') : bus'[i] = x.tale
    BY DEF PublishedIsOut
  <2>1. CASE x = q  BY <2>1, <1>3, <1>9
  <2>2. CASE x \in requests
    <3>1. PICK i \in 1 .. Len(bus) : bus[i] = x.tale  BY <2>2 DEF FateInv, PublishedIsOut
    <3>2. QED  BY <3>1, <1>6, <1>8
  <2>3. QED  BY <2>1, <2>2, <1>1
<1>11. ToldIsSomewhere'
  <2> SUFFICES ASSUME NEW t \in told, ~ Lost(t)
               PROVE  \/ \E x \in requests' : x.tale = t
                      \/ \E i \in 1 .. Len(bus') : bus'[i] = t
    BY <1>1 DEF ToldIsSomewhere, Lost, LostBy
  <2>1. CASE \E x \in requests : x.tale = t  BY <2>1, <1>1, <1>9
  <2>2. CASE \E i \in 1 .. Len(bus) : bus[i] = t  BY <2>2, <1>6, <1>8
  <2>3. QED  BY <2>1, <2>2 DEF FateInv, ToldIsSomewhere
<1>12. QED  BY <1>7, <1>10, <1>11 DEF FateInv

\* match-service handles a message: it is recorded, dropped for a reason, or lost.
LEMMA HandlingSettles ==
  ASSUME SubmissionIndInv, FateInv, Apply \/ ApplyFails \/ Miss
  PROVE  FateInv'
<1>1. handled < Len(bus) /\ handled' = handled + 1 /\ UNCHANGED <<life, requests, bus, told>>
  BY DEF Apply, ApplyFails, Miss, runVars
<1>2. PICK t : t = bus[handled + 1]  OBVIOUS
<1>3. handled \in Nat /\ Len(bus) \in Nat /\ handled + 1 \in 1 .. Len(bus)
  BY <1>1 DEF SubmissionIndInv, QueueTypes
<1>4. t \in Tales /\ t.event \in Events /\ t.event.match \in Matches
  <2>1. t \in Tales  BY <1>2, <1>3 DEF SubmissionIndInv, QueueTypes
  <2>2. QED  BY <2>1, EventsAssumption DEF Tales, Event
<1>5. \/ UNCHANGED <<rows, timeline>>
      \/ Record(t.event)
  BY <1>2 DEF Apply, ApplyFails, Miss, logVars
<1>6. lost \subseteq lost'  BY DEF Apply, ApplyFails, Miss, Loses
<1>7. LogInv'
  <2>1. [LogNext]_logVars  BY <1>4, <1>5 DEF LogNext, logVars
  <2>2. QED  BY <2>1, LogInvStep DEF FateInv
<1>8. /\ \A m \in Matches : timeline[m] \subseteq timeline'[m]
      /\ \A m \in Matches : \A e \in timeline'[m] : e \in timeline[m] \/ (e = t.event /\ m = e.match)
  <2>1. CASE UNCHANGED <<rows, timeline>>  BY <2>1
  <2>2. CASE Record(t.event)
    <3>1. LogTypeOK  BY DEF FateInv, LogInv
    <3>2. /\ timeline'[t.event.match] = timeline[t.event.match] \cup {t.event}
          /\ \A m \in Matches \ {t.event.match} : timeline'[m] = timeline[m]
      BY <2>2, <3>1, <1>4, RecordEffect
    <3>3. QED  BY <3>2
  <2>3. QED  BY <1>5, <2>1, <2>2
<1>9. Settled(t)'
  <2>0. CASE ApplyFails
    <3>1. <<t, "apply failed">> \in lost'  BY <2>0, <1>2 DEF ApplyFails, Loses
    <3>2. LostBy(t, Logged)'  BY <3>1 DEF LostBy, Logged
    <3>3. QED  BY <3>2 DEF Settled, Lost
  <2>1. CASE Miss
    <3>1. <<t, "missed">> \in lost'  BY <2>1, <1>2 DEF Miss, Loses
    <3>2. LostBy(t, Silent)'  BY <3>1 DEF LostBy, Silent
    <3>3. QED  BY <3>2 DEF Settled, Lost
  <2>2. CASE Apply /\ t.event.type = "odds_update"  BY <2>2 DEF Settled
  <2>3. CASE Apply /\ t.event.type # "odds_update" /\ IsStale(t.event)
    <3>1. Settled(t)  BY <2>3, <1>1, <1>2, StaleIsSettled
    <3>2. QED  BY <3>1, <1>1, <1>4, <1>6, <1>8, SettledStays
  <2>4. CASE Apply /\ t.event.type # "odds_update" /\ ~ IsStale(t.event)
    <3>1. Record(t.event)  BY <2>4, <1>2 DEF Apply
    <3>2. t.event \in timeline'[t.event.match]
      BY <3>1, <1>4, RecordEffect DEF FateInv, LogInv
    <3>3. QED  BY <3>2 DEF Settled
  <2>5. QED  BY <2>0, <2>1, <2>2, <2>3, <2>4
<1>10. HandledIsSettled'
  <2> SUFFICES ASSUME NEW i \in 1 .. handled + 1
               PROVE  Settled(bus[i])'
    BY <1>1 DEF HandledIsSettled
  <2>1. PICK u : u = bus[i]  OBVIOUS
  <2>2. Settled(u)'
    <3>1. CASE i = handled + 1  BY <3>1, <2>1, <1>2, <1>9
    <3>2. CASE i # handled + 1
      <4>1. i \in 1 .. handled /\ i \in 1 .. Len(bus)  BY <3>2, <1>3
      <4>2. Settled(u)  BY <4>1, <2>1 DEF FateInv, HandledIsSettled
      <4>3. u.event.match \in Matches
        <5>1. u \in Tales  BY <4>1, <2>1 DEF SubmissionIndInv, QueueTypes
        <5>2. QED  BY <5>1, EventsAssumption DEF Tales, Event
      <4>4. QED  BY <4>2, <4>3, <1>1, <1>6, <1>8, SettledStays
    <3>3. QED  BY <3>1, <3>2
  <2>3. bus'[i] = u  BY <2>1, <1>1
  <2>4. QED  BY <2>2, <2>3
<1>11. RecordedWasHandled'
  <2> SUFFICES ASSUME NEW m \in Matches, NEW e \in timeline'[m]
               PROVE  e.match = m /\ \E i \in 1 .. handled + 1 : bus[i].event = e
    BY <1>1 DEF RecordedWasHandled
  <2>1. CASE e \in timeline[m]
    <3>1. PICK i \in 1 .. handled : bus[i].event = e
      BY <2>1 DEF FateInv, RecordedWasHandled
    <3>2. i \in 1 .. handled + 1  BY <1>3
    <3>3. QED  BY <2>1, <3>1, <3>2 DEF FateInv, RecordedWasHandled
  <2>2. CASE e = t.event /\ m = e.match
    <3>1. handled + 1 \in 1 .. handled + 1  BY <1>3
    <3>2. QED  BY <2>2, <3>1, <1>2
  <2>3. QED  BY <2>1, <2>2, <1>8
<1>12. PublishedIsOut' /\ ToldIsSomewhere'
  <2>1. PublishedIsOut'  BY <1>1 DEF FateInv, PublishedIsOut
  <2>2. \A u : Lost(u) => Lost(u)'  BY <1>6, LostStays
  <2>3. QED  BY <1>1, <2>1, <2>2 DEF FateInv, ToldIsSomewhere
<1>13. QED  BY <1>7, <1>10, <1>11, <1>12 DEF FateInv

LEMMA FatesStart == SubmissionInit => FateInv
<1> SUFFICES ASSUME SubmissionInit PROVE FateInv  OBVIOUS
<1>1. /\ requests = {} /\ handled = 0 /\ told = {} /\ LogInit
      /\ timeline = [m \in Matches |-> {}]
  BY DEF SubmissionInit, LogInit
<1>2. LogInv  BY <1>1, LogInvInit
<1>3. QED
  BY <1>1, <1>2 DEF FateInv, HandledIsSettled, RecordedWasHandled, PublishedIsOut, ToldIsSomewhere

\* A restart leaves the tables, the bus and the requests.
LEMMA RestartKeepsFates ==
  ASSUME SubmissionIndInv, FateInv, Restart
  PROVE  FateInv'
<1>1. /\ requests' = {[r EXCEPT !.awaited = FALSE] : r \in requests}
      /\ lost \subseteq lost' /\ UNCHANGED <<logVars, bus, handled, told>>
  BY DEF Restart
<1>2. ASSUME NEW r \in requests
      PROVE  [r EXCEPT !.awaited = FALSE].tale = r.tale /\ [r EXCEPT !.awaited = FALSE].at = r.at
  <2>1. r \in RequestRecord  BY DEF SubmissionIndInv, QueueTypes
  <2>2. QED  BY <2>1 DEF RequestRecord
<1>3. \A r \in requests : \E q \in requests' : q.tale = r.tale  BY <1>1, <1>2
<1>4. \A q \in requests' : \E r \in requests : r.at = q.at /\ r.tale = q.tale  BY <1>1, <1>2
<1>5. QED  BY <1>1, <1>3, <1>4, RequestsMove

\* Every step keeps track of what becomes of the events that Runners took.
LEMMA FatesStep == SubmissionIndInv /\ FateInv /\ [SubmissionNext]_submissionVars => FateInv'
<1> SUFFICES ASSUME SubmissionIndInv, FateInv, [SubmissionNext]_submissionVars PROVE FateInv'
  OBVIOUS
<1>1. CASE UNCHANGED submissionVars
  <2>1. UNCHANGED <<logVars, requests, bus, handled, told, lost>>
    BY <1>1 DEF submissionVars
  <2>2. QED  BY <2>1, RequestsMove
<1>2. ASSUME NEW m \in Matches, Submit(m)  PROVE FateInv'
  <2>1. PICK new : new = Request(m, TRUE)  OBVIOUS
  <2>2. new.at = "sent" /\ new.tale = Tale(Upcoming(m))  BY <2>1 DEF Request
  <2>3. /\ requests' = requests \cup {new} /\ told' = told \cup {new.tale}
        /\ UNCHANGED <<logVars, bus, handled, lost>>
    BY <1>2, <2>1, <2>2 DEF Submit, Takes
  <2>4. QED  BY <2>2, <2>3, RequestsMove
<1>3. ASSUME NEW m \in Matches, SubmitCancelled(m)  PROVE FateInv'
  <2>1. PICK t : t = Tale(Upcoming(m))  OBVIOUS
  <2>2. /\ lost' = lost \cup {<<t, "cancelled">>} /\ told' = told \cup {t}
        /\ UNCHANGED <<logVars, requests, bus, handled>>
    BY <1>3, <2>1 DEF SubmitCancelled, Takes, Loses
  <2>3. LostBy(t, Silent)'  BY <2>2 DEF LostBy, Silent
  <2>4. Lost(t)'  BY <2>3 DEF Lost
  <2>5. QED  BY <2>2, <2>4, RequestsMove
<1>4. ASSUME NEW m \in Matches, RangeEnds(m)  PROVE FateInv'
  <2>1. UNCHANGED <<logVars, requests, bus, handled, told, lost>>  BY <1>4 DEF RangeEnds
  <2>2. QED  BY <2>1, RequestsMove
<1>5. ASSUME NEW m \in Matches, NEW r \in requests, NEW cause, GivesUp(m, r, cause),
             UNCHANGED <<logVars, bus, handled, told>>
      PROVE  FateInv'
  <2>1. PICK q : q = [r EXCEPT !.awaited = FALSE]  OBVIOUS
  <2>2. r \in RequestRecord  BY DEF SubmissionIndInv, QueueTypes
  <2>3. q.at = r.at /\ q.tale = r.tale  BY <2>1, <2>2 DEF RequestRecord
  <2>4. requests' = (requests \ {r}) \cup {q} /\ lost \subseteq lost'
    BY <1>5, <2>1 DEF GivesUp, Loses
  <2>5. QED  BY <1>5, <2>3, <2>4, RequestsMove
<1>6. ASSUME NEW m \in Matches, TimeOut(m)  PROVE FateInv'
  <2>1. PICK r \in requests : GivesUp(m, r, "submit event failed")  BY <1>6 DEF TimeOut
  <2>2. UNCHANGED <<logVars, bus, handled, told>>  BY <1>6 DEF TimeOut
  <2>3. QED  BY <2>1, <2>2, <1>5
<1>7. ASSUME NEW m \in Matches, Cancel(m)  PROVE FateInv'
  <2>1. UNCHANGED <<logVars, bus, handled, told>>  BY <1>7 DEF Cancel
  <2>2. CASE runner[m] = "submitting"
    <3>1. PICK r \in requests : GivesUp(m, r, "cancelled")  BY <1>7, <2>2 DEF Cancel
    <3>2. QED  BY <2>1, <3>1, <1>5
  <2>3. CASE runner[m] # "submitting"
    <3>1. UNCHANGED <<requests, lost>>  BY <1>7, <2>3 DEF Cancel
    <3>2. QED  BY <2>1, <3>1, RequestsMove
  <2>4. QED  BY <2>2, <2>3
<1>8. ASSUME NEW r \in requests, Accept(r)  PROVE FateInv'
  <2>1. /\ r.at # "sent" /\ requests' = requests \ {r}
        /\ UNCHANGED <<logVars, bus, handled, told, lost>>
    BY <1>8 DEF Accept, Answered
  <2>2. QED  BY <2>1, RequestsMove
<1>9. ASSUME NEW r \in requests, Fail(r)  PROVE FateInv'
  <2>1. /\ requests' = requests \ {r} /\ lost \subseteq lost'
        /\ UNCHANGED <<logVars, bus, handled, told>>
    BY <1>9 DEF Fail, Answered, Loses
  <2>2. Lost(r.tale)'
    <3>1. CASE r.awaited
      <4>1. <<r.tale, "submit event failed">> \in lost'  BY <1>9, <3>1 DEF Fail, Loses
      <4>2. LostBy(r.tale, Logged)'  BY <4>1 DEF LostBy, Logged
      <4>3. QED  BY <4>2 DEF Lost
    <3>2. CASE ~ r.awaited
      <4>1. GivenUp(r)  BY <3>2 DEF SubmissionIndInv, RequestsAreFaithful, Faithful
      <4>2. Lost(r.tale)  BY <4>1 DEF GivenUp, Lost, LostBy, Logged
      <4>3. QED  BY <4>2, <2>1, LostStays
    <3>3. QED  BY <3>1, <3>2
  <2>3. QED  BY <2>1, <2>2, RequestsMove
<1>10. ASSUME NEW r \in requests, Publish(r) \/ PublishAgain(r)  PROVE FateInv'
  BY <1>10, PublishingKeepsFates DEF Publish, PublishAgain
<1>11. CASE Apply \/ ApplyFails \/ Miss  BY <1>11, HandlingSettles
<1>12. CASE Restart  BY <1>12, RestartKeepsFates
<1>13. ASSUME NEW m \in Matches, RunnerStep(m) \/ TimeOut(m) \/ Cancel(m)  PROVE FateInv'
  BY <1>13, <1>2, <1>3, <1>4, <1>6, <1>7 DEF RunnerStep
<1>14. ASSUME NEW r \in requests, Handle(r)  PROVE FateInv'
  BY <1>14, <1>8, <1>9, <1>10 DEF Handle
<1>15. QED  BY <1>1, <1>11, <1>12, <1>13, <1>14 DEF SubmissionNext

\* Whatever ingestion-service, Redis, match-service, the timeout, cancellations and
\* restarts do: an event that a Runner took and that is neither recorded nor under
\* way is an odds update, was logged as failed by the simulator or by match-service,
\* is hidden by a match of another life with the same id, or got lost in silence in
\* one of three ways: its match was cancelled, its simulator killed, or no
\* match-service heard of it.
THEOREM EveryLossHasItsCause == SubmissionSpec => []StoryIsComplete
<1>1. SubmissionSpec => [](SubmissionIndInv /\ FateInv)
  <2>1. SubmissionInit => SubmissionIndInv /\ FateInv  BY SubmissionStarts, FatesStart
  <2>2. SubmissionIndInv /\ FateInv /\ [SubmissionNext]_submissionVars
          => (SubmissionIndInv /\ FateInv)'
    BY SubmissionStep, FatesStep
  <2>3. QED  BY <2>1, <2>2, PTL DEF SubmissionSpec
<1>2. SubmissionIndInv /\ FateInv => StoryIsComplete
  <2> SUFFICES ASSUME SubmissionIndInv, FateInv, handled = Len(bus), NEW t \in told
               PROVE  \/ t.event \in timeline[t.event.match]
                      \/ t.event.type = "odds_update"
                      \/ \E r \in requests : r.tale = t /\ r.at = "sent"
                      \/ Lost(t)
                      \/ Hidden(t)
    BY DEF StoryIsComplete, Lost
  <2>1. CASE \E i \in 1 .. Len(bus) : bus[i] = t
    BY <2>1 DEF FateInv, HandledIsSettled, Settled
  <2>2. CASE \E r \in requests : r.tale = t
    <3>1. PICK r \in requests : r.tale = t  BY <2>2
    <3>2. CASE ~ (r.at # "sent")  BY <3>1, <3>2
    <3>3. CASE r.at # "sent"  BY <2>1, <3>1, <3>3 DEF FateInv, PublishedIsOut
    <3>4. QED  BY <3>2, <3>3
  <2>3. QED  BY <2>1, <2>2 DEF FateInv, ToldIsSomewhere
<1>3. QED  BY <1>1, <1>2, PTL
=============================================================================
