--------------------------- MODULE FootballProofs ---------------------------
(***************************************************************************)
(* Theorems about Football, for all template directories, all lengths of a *)
(* match and all anchors: whatever plays a match, its consumer sees a feed *)
(* as MatchFeed has it, a match by template is played by it, entry for     *)
(* entry, and one that only says how much is to happen is kept to its word.*)
(***************************************************************************)
EXTENDS Football, SequenceTheorems, FiniteSetTheorems, TLAPS

\* An entry that NextEvent can play: its payload names the minute it waits for,
\* or none, and it is not another kickoff.
Playable == {x \in [event : Event, due : Int] :
               /\ x.event.type \notin {"none", "kickoff"}
               /\ x.event.minute \in {NoMinute, x.due}}

-----------------------------------------------------------------------------
(* buildSchedule. *)

\* Random entries are playable, and finitely many.
LEMMA DrawsArePlayable ==
  ASSUME NEW type \in {"goal", "yellow", "red"}, NEW teams \in SUBSET Teams, NEW r,
         r.min \in Nat, r.max \in Int, NEW s \in Draws(type, teams, r)
  PROVE  s \in Seq(Playable)
<1>1. PICK n \in Count(r) : \E d \in [1 .. n -> teams \X RandomMinutes] :
        s = [k \in 1 .. n |-> Entry(Ev(type, d[k][1], d[k][2]), d[k][2])]
  BY DEF Draws
<1> PICK d \in [1 .. n -> teams \X RandomMinutes] :
       s = [k \in 1 .. n |-> Entry(Ev(type, d[k][1], d[k][2]), d[k][2])]
  BY <1>1
<1>2. n \in Nat  BY DEF Count
<1>3. ASSUME NEW k \in 1 .. n
      PROVE  Entry(Ev(type, d[k][1], d[k][2]), d[k][2]) \in Playable
  <2>1. d[k] \in teams \X RandomMinutes  OBVIOUS
  <2>2. d[k][1] \in Teams /\ d[k][2] \in Int
    BY <2>1, FootballAssumption DEF RandomMinutes
  <2>3. Ev(type, d[k][1], d[k][2]) \in Event
    BY <2>2 DEF Ev, Event
  <2>4. QED  BY <2>2, <2>3 DEF Entry, Ev, Playable
<1>4. QED  BY <1>2, <1>3

\* The anchors that every bounded schedule ends with.
LEMMA AnchorIsPlayable ==
  ASSUME NEW type \in {"half_time", "full_time"}, NEW minute \in Int
  PROVE  Anchor(type, minute) \in Playable
BY DEF Anchor, Entry, Ev, Event, NoMinute, Playable

\* Appending one part of a schedule to another.
LEMMA JoinIsPlayable ==
  ASSUME NEW A \in SUBSET Seq(Playable), NEW B \in SUBSET Seq(Playable)
  PROVE  Join(A, B) \in SUBSET Seq(Playable)
<1>1. ASSUME NEW s \in Join(A, B)  PROVE s \in Seq(Playable)
  <2>1. PICK a \in A, b \in B : s = a \o b  BY DEF Join
  <2>2. a \in Seq(Playable) /\ b \in Seq(Playable)  OBVIOUS
  <2>3. a \o b \in Seq(Playable)  BY <2>2, ConcatProperties
  <2>4. QED  BY <2>1, <2>3
<1>2. QED  BY <1>1

\* A bounded schedule is playable and never empty.
LEMMA BoundedIsPlayable ==
  ASSUME NEW t, \A r \in Ranges : t[r].min \in Nat /\ t[r].max \in Int, NEW s \in Bounded(t)
  PROVE  s \in Seq(Playable) /\ s # <<>>
<1> DEFINE anchors == <<Anchor("half_time", HalfTime), Anchor("full_time", FullTime)>>
           goals == Join(Draws("goal", {"home"}, t.homeGoals), Draws("goal", {"away"}, t.awayGoals))
           cards == Join(Draws("yellow", Teams, t.yellowCards), Draws("red", Teams, t.redCards))
<1>1. goals \in SUBSET Seq(Playable)
  BY DrawsArePlayable, JoinIsPlayable DEF Ranges, Teams
<1>2. cards \in SUBSET Seq(Playable)
  BY DrawsArePlayable, JoinIsPlayable DEF Ranges, Teams
<1>3. anchors \in Seq(Playable) /\ Len(anchors) = 2
  BY AnchorIsPlayable, FootballAssumption
<1>4. PICK d \in Join(goals, cards) : s = d \o anchors
  BY DEF Bounded
<1> HIDE DEF goals, cards, anchors
<1>5. d \in Seq(Playable)  BY <1>1, <1>2, JoinIsPlayable
<1>6. d \o anchors \in Seq(Playable) /\ Len(d \o anchors) = Len(d) + Len(anchors)
  BY <1>3, <1>5, ConcatProperties
<1>7. Len(s) # 0  BY <1>3, <1>4, <1>5, <1>6, LenProperties
<1>8. QED  BY <1>4, <1>6, <1>7, EmptySeq

\* So is a script: one of an unsupported event has no schedule at all.
LEMMA LiteralIsPlayable ==
  ASSUME NEW t, t.events \in Seq([type : STRING, team : {"home", "away", "none"}, minute : Int]),
         t.events # <<>>, Scripted(t), NEW s \in Literal(t)
  PROVE  s \in Seq(Playable) /\ s # <<>>
<1>1. s = [i \in DOMAIN t.events |-> FromScript(t.events[i])]  BY DEF Literal
<1>2. ASSUME NEW i \in DOMAIN t.events  PROVE FromScript(t.events[i]) \in Playable
  <2>1. /\ t.events[i].type \in {"goal", "yellow", "red", "half_time", "full_time"}
        /\ t.events[i].team \in {"home", "away", "none"} /\ t.events[i].minute \in Int
    <3>1. i \in 1 .. Len(t.events)  BY LenProperties
    <3>2. t.events[i] \in [type : STRING, team : {"home", "away", "none"}, minute : Int]
      BY <3>1, ElementOfSeq
    <3>3. t.events[i].type \in {"goal", "yellow", "red", "half_time", "full_time"}
      BY DEF Scripted
    <3>4. QED  BY <3>2, <3>3
  <2>2. CASE t.events[i].type \in {"half_time", "full_time"}
    BY <2>1, <2>2, AnchorIsPlayable DEF FromScript
  <2>3. CASE t.events[i].type \in {"goal", "yellow", "red"}
    <3>1. Ev(t.events[i].type, t.events[i].team, t.events[i].minute) \in Event
      BY <2>1, <2>3 DEF Ev, Event, Teams
    <3>2. QED  BY <2>1, <2>3, <3>1 DEF FromScript, Entry, Ev, Playable
  <2>4. QED  BY <2>1, <2>2, <2>3
<1>3. DOMAIN t.events = 1 .. Len(t.events) /\ Len(t.events) \in Nat  OBVIOUS
<1>4. s \in Seq(Playable) /\ Len(s) = Len(t.events)  BY <1>1, <1>2, <1>3
<1>5. QED  BY <1>4

\* sort.Slice keeps the entries, and puts them in the order of their minutes.
LEMMA SortedIsPlayable ==
  ASSUME NEW s \in Seq(Playable), s # <<>>, NEW a \in Sorted(s)
  PROVE  a \in Seq(Playable) /\ a # <<>> /\ Ascending(a)
<1>1. PICK p \in Shuffles(DOMAIN s) : a = [i \in DOMAIN s |-> s[p[i]]]
  BY DEF Sorted
<1>2. p \in [DOMAIN s -> DOMAIN s]  BY DEF Shuffles
<1>3. DOMAIN s = 1 .. Len(s) /\ Len(s) \in Nat  OBVIOUS
<1>4. a \in Seq(Playable) /\ Len(a) = Len(s)  BY <1>1, <1>2, <1>3
<1>5. Ascending(a)  BY DEF Sorted
<1>6. QED  BY <1>4, <1>5

\* What NewFromTemplate makes of a template that has been loaded.
LEMMA TemplateIsPlayable ==
  ASSUME files \in Directories, Loads, NEW n, NEW t \in Named(n),
         NEW s \in Drawn(t), NEW a \in Sorted(s)
  PROVE  a \in Seq(Playable) /\ a # <<>> /\ Ascending(a)
<1>1. PICK i \in DOMAIN files : t = files[i]  BY DEF Named
<1>2. Valid(t)  BY <1>1 DEF Loads
<1>3. s \in Seq(Playable) /\ s # <<>>
  <2>1. CASE t.kind = "bounded"
    <3>1. s \in Bounded(t)  BY <2>1 DEF Drawn
    <3>2. \A r \in Ranges : t[r].min \in Int /\ t[r].max \in Int
      BY <1>1, DirectoriesAssumption DEF Ranges
    <3>3. \A r \in Ranges : 0 <= t[r].min
      BY <1>2, <2>1 DEF Valid
    <3>4. \A r \in Ranges : t[r].min \in Nat /\ t[r].max \in Int
      BY <3>2, <3>3
    <3>5. QED  BY <3>1, <3>4, BoundedIsPlayable
  <2>2. CASE t.kind # "bounded"
    <3>1. Scripted(t) /\ s \in Literal(t)  BY <2>2 DEF Drawn
    <3>2. t.events # <<>>  BY <1>2, <2>2 DEF Valid
    <3>3. t.events \in Seq([type : STRING, team : {"home", "away", "none"}, minute : Int])
      BY <1>1, DirectoriesAssumption
    <3>4. QED  BY <3>1, <3>2, <3>3, LiteralIsPlayable
  <2>3. QED  BY <2>1, <2>2
<1>4. QED  BY <1>3, SortedIsPlayable

-----------------------------------------------------------------------------
(* The inductive invariant. *)

\* The clock and the number advance together, and rest until the kickoff.
ClockInv == sequence = clockMins /\ (~ kickoffEmitted => sequence = 0)

ScheduleInv == schedule \in Seq(Playable) /\ Ascending(schedule)

\* The minute of an event is not ahead of what is still to be played.
Precedes(e) ==
  e.minute = NoMinute \/ \A j \in DOMAIN schedule : j > scheduleIdx => e.minute <= schedule[j].due

\* Every event taken is in the past of the clock, of the numbers, and of the schedule.
ReceivedInv ==
  \A i \in DOMAIN received : /\ received[i].sequence <= sequence
                             /\ received[i].minute <= clockMins
                             /\ Precedes(received[i])

\* The event being sent is one that a feed can go on with, and the only one that
\* may be the last.
SendingInv ==
  pc = "sending" =>
    /\ kickoffEmitted
    /\ out.sequence = sequence /\ out.minute <= clockMins
    /\ IF received = <<>> THEN Feed!Opens(out) ELSE Feed!Continues(out)
    /\ Precedes(out)
    /\ done <=> out.type = "full_time"

\* Where the engine is in the match.
StageInv ==
  /\ pc = "new" => scheduleIdx = 0 /\ ~ kickoffEmitted /\ template = Default
  /\ ~ kickoffEmitted => received = <<>>
  /\ kickoffEmitted /\ received = <<>> => pc = "sending"
  /\ received # <<>> /\ received[Len(received)].type = "full_time" => pc \in {"ending", "closed"}

\* A match by template is not in the random mode.
HasSchedule == pc \notin {"new", "refused"} /\ template # Default => schedule # <<>>

FeedInv == /\ files \in Directories
           /\ FootballTypeOK /\ HasSchedule
           /\ ClockInv /\ ScheduleInv /\ ReceivedInv /\ SendingInv /\ StageInv

\* A playable schedule is a well-typed one.
LEMMA PlayableIsTyped ==
  ASSUME NEW s \in Seq(Playable)  PROVE s \in Seq([event : Event, due : Int])
<1>1. Playable \subseteq [event : Event, due : Int]  BY DEF Playable
<1>2. QED  BY <1>1, SeqMonotonic

LEMMA FeedInvInit == FootballInit => FeedInv
<1> SUFFICES ASSUME FootballInit PROVE FeedInv  OBVIOUS
<1> USE DEF FootballInit
<1>1. FootballTypeOK
  <2>1. NoEvent \in Event  BY DEF NoEvent, Ev, Event, NoMinute
  <2>2. schedule \in Seq([event : Event, due : Int]) /\ received \in Seq(Event)
    BY EmptySeq
  <2>3. scheduleIdx \in 0 .. Len(schedule)  BY EmptySeq
  <2>4. QED  BY <2>1, <2>2, <2>3 DEF FootballTypeOK
<1>2. HasSchedule /\ ClockInv /\ ReceivedInv /\ SendingInv /\ StageInv
  BY DEF HasSchedule, ClockInv, ReceivedInv, SendingInv, StageInv
<1>3. ScheduleInv  BY EmptySeq DEF ScheduleInv, Ascending
<1>4. QED  BY <1>1, <1>2, <1>3 DEF FeedInv

\* A tick that has no event.
LEMMA QuietStep ==
  ASSUME FeedInv, Tick, kickoffEmitted, NEW over \in BOOLEAN, Quiet(over),
         kickoffEmitted' = kickoffEmitted, halfTimeEmitted' = halfTimeEmitted,
         scheduleIdx' = scheduleIdx
  PROVE  FeedInv'
<1> USE DEF FeedInv, Tick, Quiet
<1>1. FootballTypeOK'  BY DEF FootballTypeOK
<1>2. clockMins \in Nat /\ sequence \in Nat  BY DEF FootballTypeOK
<1>3. HasSchedule'  BY DEF HasSchedule
<1>4. ClockInv' /\ ScheduleInv'  BY <1>2 DEF ClockInv, ScheduleInv
<1>5. ReceivedInv'
  <2> SUFFICES ASSUME NEW i \in DOMAIN received
               PROVE  /\ received[i].sequence <= sequence'
                      /\ received[i].minute <= clockMins'
                      /\ Precedes(received[i])'
    BY DEF ReceivedInv
  <2>1. received[i] \in Event  BY LenProperties, ElementOfSeq DEF FootballTypeOK
  <2>2. received[i].sequence \in Nat /\ received[i].minute \in Int  BY <2>1 DEF Event
  <2>3. QED  BY <1>2, <2>2 DEF ReceivedInv, Precedes
<1>6. SendingInv' /\ StageInv'  BY DEF SendingInv, StageInv
<1>7. QED  BY <1>1, <1>3, <1>4, <1>5, <1>6

\* A tick that has one: the kickoff, or an event whose minute is neither ahead of
\* the clock or of the schedule nor behind what has been taken.
LEMMA SendStep ==
  ASSUME FeedInv, Tick, NEW e \in Event, NEW over \in BOOLEAN, Send(e, over),
         kickoffEmitted', halfTimeEmitted' \in BOOLEAN,
         scheduleIdx' \in scheduleIdx .. Len(schedule),
         kickoffEmitted <=> e.type # "kickoff",
         over <=> e.type = "full_time",
         e.minute <= clockMins',
         Precedes(e)',
         e.minute = NoMinute \/
           \A i \in DOMAIN received : \/ received[i].minute = NoMinute
                                      \/ received[i].minute <= e.minute
  PROVE  FeedInv'
<1> USE DEF FeedInv, Tick, Send
<1>1. clockMins \in Nat /\ sequence \in Nat  BY DEF FootballTypeOK
<1>2. out' = [e EXCEPT !.sequence = sequence'] /\ sequence' = sequence + 1  OBVIOUS
<1>3. /\ out' \in Event /\ out'.sequence = sequence' /\ out'.minute = e.minute
      /\ out'.type = e.type
  BY <1>1, <1>2 DEF Event
<1>4. FootballTypeOK'  BY <1>1, <1>3 DEF FootballTypeOK
<1>5. HasSchedule'  BY DEF HasSchedule
<1>6. ClockInv' /\ ScheduleInv'  BY <1>1 DEF ClockInv, ScheduleInv
<1>7. ASSUME NEW i \in DOMAIN received
      PROVE  /\ received[i].sequence \in Nat /\ received[i].minute \in Int
             /\ received[i].sequence <= sequence /\ received[i].minute <= clockMins
             /\ Precedes(received[i])
  <2>1. received[i] \in Event  BY LenProperties, ElementOfSeq DEF FootballTypeOK
  <2>2. QED  BY <2>1 DEF Event, ReceivedInv
<1>8. ReceivedInv'
  <2> SUFFICES ASSUME NEW i \in DOMAIN received
               PROVE  /\ received[i].sequence <= sequence'
                      /\ received[i].minute <= clockMins'
                      /\ Precedes(received[i])'
    BY DEF ReceivedInv
  <2>1. scheduleIdx <= scheduleIdx' /\ scheduleIdx \in Nat /\ scheduleIdx' \in Nat
    BY DEF FootballTypeOK
  <2>2. Precedes(received[i])'
    <3>1. schedule' = schedule /\ Precedes(received[i])  BY <1>7
    <3>2. CASE received[i].minute = NoMinute  BY <3>2 DEF Precedes
    <3>3. ASSUME NEW j \in DOMAIN schedule, j > scheduleIdx', received[i].minute # NoMinute
          PROVE  received[i].minute <= schedule[j].due
      <4>1. j \in Int  BY LenProperties DEF ScheduleInv
      <4>2. j > scheduleIdx  BY <2>1, <3>3, <4>1
      <4>3. QED  BY <3>1, <3>3, <4>2 DEF Precedes
    <3>4. QED  BY <3>1, <3>2, <3>3 DEF Precedes
  <2>3. QED  BY <1>1, <1>2, <1>7, <2>2
<1>9. SendingInv'
  <2>1. Precedes(out)'  BY <1>3 DEF Precedes
  <2>2. IF received' = <<>> THEN Feed!Opens(out)' ELSE Feed!Continues(out)'
    <3>1. CASE received = <<>>
      <4>1. ~ kickoffEmitted  BY <3>1 DEF StageInv
      <4>2. sequence' = 1  BY <1>2, <4>1 DEF ClockInv
      <4>3. QED  BY <1>3, <3>1, <4>1, <4>2 DEF Feed!Opens
    <3>2. CASE received # <<>>
      <4>1. e.type # "kickoff"  BY <3>2 DEF StageInv
      <4>2. Len(received) \in DOMAIN received
        BY <3>2, EmptySeq, LenProperties DEF FootballTypeOK
      <4>3. out'.sequence > received[Len(received)].sequence
        BY <1>1, <1>2, <1>3, <1>7, <4>2
      <4>4. received[Len(received)].type # "full_time"  BY <3>2 DEF StageInv
      <4>5. out'.minute <= out'.sequence  BY <1>1, <1>2, <1>3 DEF ClockInv
      <4>6. QED
        BY <1>3, <3>2, <4>1, <4>3, <4>4, <4>5 DEF Feed!Continues, Feed!NoMinute, NoMinute
    <3>3. QED  BY <3>1, <3>2
  <2>3. QED  BY <1>3, <2>1, <2>2 DEF SendingInv
<1>10. StageInv'  BY DEF StageInv
<1>11. QED  BY <1>4, <1>5, <1>6, <1>8, <1>9, <1>10

-----------------------------------------------------------------------------
(* The actions. *)

\* Taking from the channel: the event joins the past, and full_time ends it.
LEMMA ReceiveStep == ASSUME FeedInv, Receive PROVE FeedInv'
<1> USE DEF FeedInv, Receive, sportVars
<1>1. /\ received \in Seq(Event) /\ out \in Event /\ Len(received) \in Nat
      /\ DOMAIN received = 1 .. Len(received)
  BY LenProperties DEF FootballTypeOK
<1>2. /\ received' \in Seq(Event) /\ Len(received') = Len(received) + 1
      /\ DOMAIN received' = 1 .. Len(received) + 1
      /\ received'[Len(received')] = out
      /\ \A i \in DOMAIN received : received'[i] = received[i]
  BY <1>1
<1>3. FootballTypeOK'
  <2>1. NoEvent \in Event  BY DEF NoEvent, Ev, Event, NoMinute
  <2>2. QED  BY <1>2, <2>1 DEF FootballTypeOK
<1>4. HasSchedule' /\ ClockInv' /\ ScheduleInv'
  BY DEF HasSchedule, ClockInv, ScheduleInv
<1>5. ReceivedInv'
  <2>1. ASSUME NEW i \in DOMAIN received'
        PROVE  /\ received'[i].sequence <= sequence /\ received'[i].minute <= clockMins
               /\ Precedes(received'[i])
    <3>1. CASE i \in DOMAIN received  BY <1>2, <3>1 DEF ReceivedInv
    <3>2. CASE i = Len(received')
      <4>1. sequence \in Nat  BY DEF FootballTypeOK
      <4>2. QED  BY <1>2, <3>2, <4>1 DEF SendingInv
    <3>3. QED  BY <1>1, <1>2, <3>1, <3>2
  <2>2. QED  BY <2>1 DEF ReceivedInv, Precedes
<1>6. SendingInv'  BY DEF SendingInv
<1>7. StageInv'
  <2>1. kickoffEmitted /\ (done <=> out.type = "full_time")  BY DEF SendingInv
  <2>2. received' # <<>>  BY <1>1, <1>2, EmptySeq
  <2>3. QED  BY <1>2, <2>1, <2>2 DEF StageInv
<1>8. QED  BY <1>3, <1>4, <1>5, <1>6, <1>7

\* The steps that touch neither the clock nor what has been taken.
LEMMA StillStep ==
  ASSUME FeedInv, New \/ (\E n \in TemplateNames : Refuse(n)) \/ Cancel \/ SeeCancelled \/ CloseOut
  PROVE  FeedInv'
<1> USE DEF FeedInv, New, Refuse, Cancel, SeeCancelled, CloseOut, sportVars, engineVars
<1>1. FootballTypeOK'  BY DEF FootballTypeOK
<1>2. HasSchedule'  BY DEF HasSchedule, StageInv
<1>3. ClockInv' /\ ScheduleInv'  BY DEF ClockInv, ScheduleInv
<1>4. ReceivedInv'  BY DEF ReceivedInv, Precedes
<1>5. SendingInv'
  BY DEF SendingInv, Precedes, Feed!Opens, Feed!Continues, Feed!NoMinute
<1>6. StageInv'
  <2>1. /\ scheduleIdx' = scheduleIdx /\ kickoffEmitted' = kickoffEmitted
        /\ received' = received /\ template' = template
    OBVIOUS
  <2>2. \/ pc' = pc
        \/ pc \in {"new", "ticking", "ending"} /\ pc' \in {"ending", "closed"}
        \/ pc = "new" /\ pc' \in {"ticking", "refused"}
    OBVIOUS
  <2> HIDE DEF New, Refuse, Cancel, SeeCancelled, CloseOut
  <2>3. QED  BY <2>1, <2>2 DEF StageInv
<1>7. QED  BY <1>1, <1>2, <1>3, <1>4, <1>5, <1>6

\* A match from a template starts with a schedule that can be played.
LEMMA TemplateStep ==
  ASSUME FeedInv, NEW n \in TemplateNames, NewFromTemplate(n)  PROVE FeedInv'
<1>1. schedule' \in Seq(Playable) /\ schedule' # <<>> /\ Ascending(schedule')
  BY TemplateIsPlayable DEF NewFromTemplate, FeedInv
<1>2. /\ pc = "new" /\ pc' = "ticking" /\ files' = files
      /\ scheduleIdx' = scheduleIdx /\ kickoffEmitted' = kickoffEmitted
      /\ halfTimeEmitted' = halfTimeEmitted
      /\ clockMins' = clockMins /\ sequence' = sequence /\ out' = out /\ done' = done
      /\ cancelled' = cancelled /\ received' = received
  BY DEF NewFromTemplate, engineVars
<1>3. received = <<>> /\ scheduleIdx = 0 /\ ~ kickoffEmitted  BY <1>2 DEF FeedInv, StageInv
<1>4. FootballTypeOK'
  <2>1. schedule' \in Seq([event : Event, due : Int]) /\ Len(schedule') \in Nat
    BY <1>1, PlayableIsTyped, LenProperties
  <2>2. QED  BY <1>2, <1>3, <2>1 DEF FeedInv, FootballTypeOK
<1>5. HasSchedule' /\ ClockInv' /\ SendingInv' /\ StageInv'
  BY <1>1, <1>2, <1>3 DEF FeedInv, HasSchedule, ClockInv, SendingInv, StageInv
<1>6. ScheduleInv'  BY <1>1 DEF ScheduleInv, Ascending
<1>7. ReceivedInv'
  <2>1. DOMAIN received' = {}  BY <1>2, <1>3, EmptySeq, LenProperties
  <2>2. QED  BY <2>1 DEF ReceivedInv
<1>8. QED  BY <1>2, <1>4, <1>5, <1>6, <1>7 DEF FeedInv

\* The entry at the index goes before the rest of the schedule, and after all
\* that has been taken.
LEMMA PlayEntryStep == ASSUME FeedInv, PlayEntry PROVE FeedInv'
<1> USE DEF FeedInv, PlayEntry, Scheduled
<1> PICK x : x = schedule[scheduleIdx + 1]  OBVIOUS
<1>1. /\ scheduleIdx \in Nat /\ Len(schedule) \in Nat /\ DOMAIN schedule = 1 .. Len(schedule)
      /\ scheduleIdx + 1 \in DOMAIN schedule
  BY LenProperties DEF FootballTypeOK, ScheduleInv
<1>2. x \in Playable  BY <1>1, ElementOfSeq DEF ScheduleInv
<1>3. /\ x.event \in Event /\ x.due \in Int /\ x.event.type \notin {"none", "kickoff"}
      /\ x.event.minute = NoMinute \/ x.event.minute = x.due
  BY <1>2 DEF Playable
<1>4. clockMins' \in Nat /\ x.due <= clockMins' /\ x.event.minute <= clockMins'
  BY <1>3 DEF Tick, FootballTypeOK, NoMinute
<1>5. \A j \in DOMAIN schedule : j > scheduleIdx + 1 => x.due <= schedule[j].due
  BY <1>1 DEF ScheduleInv, Ascending
<1>6. Precedes(x.event)'  BY <1>3, <1>5 DEF Precedes, Tick
<1>7. \A i \in DOMAIN received : \/ received[i].minute = NoMinute
                                 \/ received[i].minute <= x.due
  BY <1>1 DEF ReceivedInv, Precedes
<1>8. Tick /\ Send(x.event, x.event.type = "full_time") /\ kickoffEmitted' = kickoffEmitted
      /\ halfTimeEmitted' = halfTimeEmitted /\ scheduleIdx' = scheduleIdx + 1
  OBVIOUS
<1> HIDE DEF PlayEntry, Scheduled
<1>9. kickoffEmitted  BY DEF PlayEntry, Scheduled
<1>10. halfTimeEmitted' \in BOOLEAN  BY <1>8 DEF FootballTypeOK
<1>11. scheduleIdx' \in scheduleIdx .. Len(schedule)  BY <1>1, <1>8
<1>12. QED
  BY <1>3, <1>4, <1>6, <1>7, <1>8, <1>9, <1>10, <1>11, SendStep

\* The default mode has no schedule, and its minutes are the clock's.
LEMMA RandomStep ==
  ASSUME FeedInv, RandomHalfTime \/ RandomFullTime \/ RandomEvent  PROVE FeedInv'
<1>1. /\ Tick /\ kickoffEmitted /\ kickoffEmitted' = kickoffEmitted
      /\ scheduleIdx' = scheduleIdx /\ scheduleIdx \in scheduleIdx .. Len(schedule)
      /\ schedule = <<>> /\ schedule' = <<>>
      /\ clockMins \in Nat /\ clockMins' = clockMins + 1
  <2>1. Random /\ Tick  BY DEF RandomHalfTime, RandomFullTime, RandomEvent
  <2>2. scheduleIdx \in 0 .. Len(schedule) /\ clockMins \in Nat  BY DEF FeedInv, FootballTypeOK
  <2>3. Len(schedule) \in Nat  BY LenProperties DEF FeedInv, FootballTypeOK
  <2>4. scheduleIdx \in scheduleIdx .. Len(schedule)  BY <2>2, <2>3
  <2>5. QED  BY <2>1, <2>2, <2>4 DEF Random, Tick
<1>2. halfTimeEmitted' \in BOOLEAN
  BY DEF RandomHalfTime, RandomFullTime, RandomEvent, FeedInv, FootballTypeOK
<1>3. ASSUME NEW e \in Event, NEW over \in BOOLEAN, Send(e, over),
             e.type \notin {"none", "kickoff"}, over <=> e.type = "full_time",
             e.minute \in {NoMinute, clockMins'}
      PROVE  FeedInv'
  <2>1. e.minute <= clockMins'  BY <1>1, <1>3 DEF NoMinute
  <2>2. Precedes(e)'  BY <1>1, EmptySeq, LenProperties DEF Precedes
  <2>3. ASSUME NEW i \in DOMAIN received, e.minute # NoMinute
        PROVE  received[i].minute <= e.minute
    <3>1. received[i] \in Event
      BY LenProperties, ElementOfSeq DEF FeedInv, FootballTypeOK
    <3>2. received[i].minute \in Int /\ received[i].minute <= clockMins
      BY <3>1 DEF Event, FeedInv, ReceivedInv
    <3>3. QED  BY <1>1, <1>3, <2>3, <3>2
  <2>4. QED  BY <1>1, <1>2, <1>3, <2>1, <2>2, <2>3, SendStep
<1>4. CASE RandomHalfTime
  <2>1. Send(Ev("half_time", "none", NoMinute), FALSE)  BY <1>4 DEF RandomHalfTime
  <2>2. Ev("half_time", "none", NoMinute) \in Event  BY DEF Ev, Event, NoMinute
  <2>3. QED  BY <1>3, <2>1, <2>2 DEF Ev
<1>5. CASE RandomFullTime
  <2>1. Send(Ev("full_time", "none", NoMinute), TRUE)  BY <1>5 DEF RandomFullTime
  <2>2. Ev("full_time", "none", NoMinute) \in Event  BY DEF Ev, Event, NoMinute
  <2>3. QED  BY <1>3, <2>1, <2>2 DEF Ev
<1>6. CASE RandomEvent
  <2>1. CASE Quiet(FALSE)
    BY <1>1, <1>6, <2>1, QuietStep DEF RandomEvent
  <2>2. CASE Send(Ev("odds_update", "none", NoMinute), FALSE)
    <3>1. Ev("odds_update", "none", NoMinute) \in Event  BY DEF Ev, Event, NoMinute
    <3>2. QED  BY <1>3, <2>2, <3>1 DEF Ev
  <2>3. ASSUME NEW type \in {"goal", "card"}, NEW team \in Teams,
               Send(Ev(type, team, clockMins'), FALSE)
        PROVE  FeedInv'
    <3>1. Ev(type, team, clockMins') \in Event  BY <1>1 DEF Ev, Event
    <3>2. QED  BY <1>3, <2>3, <3>1 DEF Ev
  <2>4. QED  BY <1>6, <2>1, <2>2, <2>3 DEF RandomEvent
<1>7. QED  BY <1>4, <1>5, <1>6

LEMMA KickoffStep == ASSUME FeedInv, Kickoff PROVE FeedInv'
<1>1. Ev("kickoff", "none", NoMinute) \in Event  BY DEF Ev, Event, NoMinute
<1>2. /\ Tick /\ ~ kickoffEmitted /\ kickoffEmitted' /\ Send(Ev("kickoff", "none", NoMinute), FALSE)
      /\ scheduleIdx' = scheduleIdx /\ halfTimeEmitted' = halfTimeEmitted
  BY DEF Kickoff
<1>3. /\ scheduleIdx' \in scheduleIdx .. Len(schedule) /\ halfTimeEmitted' \in BOOLEAN
      /\ NoMinute <= clockMins'
  BY <1>2, LenProperties DEF FeedInv, FootballTypeOK, Tick, NoMinute
<1>4. QED  BY <1>1, <1>2, <1>3, SendStep DEF Ev, Precedes

LEMMA FeedInvStep == FeedInv /\ [FootballNext]_footballVars => FeedInv'
<1> SUFFICES ASSUME FeedInv, [FootballNext]_footballVars PROVE FeedInv'  OBVIOUS
<1>1. CASE Kickoff  BY <1>1, KickoffStep
<1>2. CASE Exhausted  BY <1>2, QuietStep DEF Exhausted, Scheduled
<1>3. CASE HoldBack  BY <1>3, QuietStep DEF HoldBack, Scheduled
<1>4. CASE PlayEntry  BY <1>4, PlayEntryStep
<1>5. CASE RandomHalfTime \/ RandomFullTime \/ RandomEvent  BY <1>5, RandomStep
<1>6. CASE Receive  BY <1>6, ReceiveStep
<1>7. CASE New \/ (\E n \in TemplateNames : Refuse(n)) \/ Cancel \/ SeeCancelled \/ CloseOut
  BY <1>7, StillStep
<1>8. CASE \E n \in TemplateNames : NewFromTemplate(n)  BY <1>8, TemplateStep
<1>9. CASE UNCHANGED footballVars
  <2> USE <1>9 DEF footballVars, sportVars, FeedInv
  <2>1. FootballTypeOK' /\ HasSchedule' /\ ClockInv'
    BY DEF FootballTypeOK, HasSchedule, ClockInv
  <2>2. ScheduleInv' /\ ReceivedInv'  BY DEF ScheduleInv, Ascending, ReceivedInv, Precedes
  <2>3. SendingInv'
    BY DEF SendingInv, Precedes, Feed!Opens, Feed!Continues, Feed!NoMinute
  <2>4. StageInv'  BY DEF StageInv
  <2>5. QED  BY <2>1, <2>2, <2>3, <2>4
<1>10. QED
  BY <1>1, <1>2, <1>3, <1>4, <1>5, <1>6, <1>7, <1>8, <1>9 DEF FootballNext, NextEvent

-----------------------------------------------------------------------------

\* A match, whatever plays it, is a feed to its consumer: taking an event is the
\* feed's Deliver, the end of the goroutine its Close, and nothing else shows.
LEMMA FeedStep ==
  FeedInv /\ [FootballNext]_footballVars => [Feed!FeedNext]_(Feed!feedVars)
<1> SUFFICES ASSUME FeedInv, [FootballNext]_footballVars
             PROVE  [Feed!FeedNext]_(Feed!feedVars)
  OBVIOUS
<1>1. CASE Receive
  <2>1. /\ received \in Seq(Event) /\ out \in Event /\ received' = Append(received, out)
    BY <1>1 DEF Receive, FeedInv, FootballTypeOK
  <2>2. received' # received /\ received'[Len(received')] = out  BY <2>1, LenProperties
  <2>3. pc # "closed" /\ pc' # "closed"  BY <1>1 DEF Receive
  <2>4. IF received = <<>> THEN Feed!Opens(out) ELSE Feed!Continues(out)
    BY <1>1 DEF Receive, FeedInv, SendingInv
  <2>5. Feed!Deliver(out)  BY <2>1, <2>3, <2>4 DEF Feed!Deliver
  <2>6. QED  BY <2>2, <2>5 DEF Feed!FeedNext
<1>2. CASE CloseOut
  BY <1>2 DEF CloseOut, engineVars, Feed!FeedNext, Feed!Close
<1>3. CASE received' = received /\ (pc' = "closed" <=> pc = "closed")
  BY <1>3 DEF Feed!feedVars
<1>4. QED
  BY <1>1, <1>2, <1>3
     DEF FootballNext, NextEvent, footballVars, engineVars, sportVars, New, NewFromTemplate, Refuse,
         Kickoff, Exhausted, HoldBack, PlayEntry, RandomHalfTime, RandomFullTime, RandomEvent,
         Tick, Send, Quiet, Cancel, SeeCancelled

\* Hence every engine implements the feed that Submission builds on.
THEOREM MatchesAreFeeds == FootballSpec => ImplementsFeed
<1>1. FootballInit => Feed!FeedInit  BY DEF FootballInit, Feed!FeedInit
<1>2. QED
  BY <1>1, FeedInvInit, FeedInvStep, FeedStep, PTL
     DEF FootballSpec, ImplementsFeed, Feed!FeedSpec

-----------------------------------------------------------------------------
(* How often a bounded template plays what it promises.                       *)

\* Whether an entry is of this type, for one of these teams.
Matches(x, type, team) == x.event.type = type /\ x.event.team \in team

\* All entries of s are, wait for a random minute, and are as many as r says.
Drew(s, type, team, r) == /\ s \in Seq(Playable) /\ Within(Len(s), r)
                          /\ \A k \in DOMAIN s : /\ Matches(s[k], type, team)
                                                 /\ s[k].due \in RandomMinutes

\* A range that validates.
Promise(r) == r.min \in Nat /\ r.max \in Int /\ r.min <= r.max

\* The random entries of one range are of one kind, and as many as it says.
LEMMA DrawsAreDrawn ==
  ASSUME NEW type \in {"goal", "yellow", "red"}, NEW teams \in SUBSET Teams, NEW r, Promise(r),
         NEW s \in Draws(type, teams, r)
  PROVE  Drew(s, type, teams, r)
<1>1. s \in Seq(Playable)  BY DrawsArePlayable DEF Promise
<1>2. PICK n \in Count(r) : \E d \in [1 .. n -> teams \X RandomMinutes] :
        s = [k \in 1 .. n |-> Entry(Ev(type, d[k][1], d[k][2]), d[k][2])]
  BY DEF Draws
<1>3. PICK d \in [1 .. n -> teams \X RandomMinutes] :
        s = [k \in 1 .. n |-> Entry(Ev(type, d[k][1], d[k][2]), d[k][2])]
  BY <1>2
<1>4. n \in Nat /\ Within(n, r)  BY DEF Count, Promise, Within
<1>5. Len(s) = n /\ DOMAIN s = 1 .. n  BY <1>1, <1>3, <1>4
<1>6. ASSUME NEW k \in 1 .. n  PROVE Matches(s[k], type, teams) /\ s[k].due \in RandomMinutes
  <2>1. d[k] \in teams \X RandomMinutes  OBVIOUS
  <2>2. d[k][1] \in teams /\ d[k][2] \in RandomMinutes  BY <2>1
  <2>3. s[k] = Entry(Ev(type, d[k][1], d[k][2]), d[k][2])  BY <1>3
  <2>4. QED  BY <2>2, <2>3 DEF Entry, Ev, Matches
<1>7. QED  BY <1>1, <1>4, <1>5, <1>6 DEF Drew

\* The parts of an unsorted schedule: a goals of the home team, b of the away team,
\* c yellow and d red cards, half_time and full_time.
Part(s, type, team, lo, hi) == \A k \in DOMAIN s : Matches(s[k], type, team) <=> k \in lo .. hi

Layout(s, t, a, b, c, d) ==
  /\ Within(a, t.homeGoals) /\ Within(b, t.awayGoals)
  /\ Within(c, t.yellowCards) /\ Within(d, t.redCards)
  /\ s \in Seq(Playable) /\ Len(s) = a + b + c + d + 2
  /\ Part(s, "goal", {"home"}, 1, a)
  /\ Part(s, "goal", {"away"}, a + 1, a + b)
  /\ Part(s, "yellow", Teams, a + b + 1, a + b + c)
  /\ Part(s, "red", Teams, a + b + c + 1, a + b + c + d)
  /\ Part(s, "half_time", {"none"}, a + b + c + d + 1, a + b + c + d + 1)
  /\ Part(s, "full_time", {"none"}, a + b + c + d + 2, a + b + c + d + 2)
  /\ \A k \in DOMAIN s : s[k].event.type = "full_time" => k = Len(s) /\ s[k].due = FullTime
  /\ \A k \in DOMAIN s : s[k].event.type # "full_time" => s[k].due < FullTime

LEMMA Concatenated ==
  ASSUME NEW S, NEW x \in Seq(S), NEW y \in Seq(S)
  PROVE  /\ x \o y \in Seq(S) /\ Len(x \o y) = Len(x) + Len(y)
         /\ \A k \in 1 .. Len(x) + Len(y) :
              (x \o y)[k] = IF k <= Len(x) THEN x[k] ELSE y[k - Len(x)]
BY ConcatProperties

\* What Join is made of.
IsJoined(s, A, B) == \E a \in A : \E b \in B : s = a \o b

LEMMA Joined ==
  ASSUME NEW A, NEW B, NEW s \in Join(A, B)
  PROVE  IsJoined(s, A, B)
BY DEF Join, IsJoined

Quarters(s, W, X, Y, Z) ==
  \E w \in W : \E x \in X : \E y \in Y : \E z \in Z : s = (w \o x) \o (y \o z)

LEMMA JoinedTwice ==
  ASSUME NEW W, NEW X, NEW Y, NEW Z, NEW s \in Join(Join(W, X), Join(Y, Z))
  PROVE  Quarters(s, W, X, Y, Z)
<1>1. IsJoined(s, Join(W, X), Join(Y, Z))  BY Joined
<1>2. PICK g \in Join(W, X) : \E h \in Join(Y, Z) : s = g \o h  BY <1>1 DEF IsJoined
<1>3. PICK h \in Join(Y, Z) : s = g \o h  BY <1>2
<1>4. IsJoined(g, W, X) /\ IsJoined(h, Y, Z)  BY Joined
<1>5. PICK w \in W : \E x \in X : g = w \o x  BY <1>4 DEF IsJoined
<1>6. PICK x \in X : g = w \o x  BY <1>5
<1>7. PICK y \in Y : \E z \in Z : h = y \o z  BY <1>4 DEF IsJoined
<1>8. PICK z \in Z : h = y \o z  BY <1>7
<1>9. s = (w \o x) \o (y \o z)  BY <1>3, <1>6, <1>8
<1>10. QED  BY <1>9 DEF Quarters

\* One entry of a draw.
LEMMA DrawnEntry ==
  ASSUME NEW q, NEW type, NEW team, NEW r, Drew(q, type, team, r), NEW k \in DOMAIN q
  PROVE  q[k].event.type = type /\ q[k].event.team \in team /\ q[k].due \in RandomMinutes
BY DEF Drew, Matches

LEMMA BoundedHasLayout ==
  ASSUME NEW t, \A r \in Ranges : Promise(t[r]), NEW s \in Bounded(t)
  PROVE  \E a, b, c, d \in Nat : Layout(s, t, a, b, c, d)
<1> DEFINE P == Playable
           anchors == <<Anchor("half_time", HalfTime), Anchor("full_time", FullTime)>>
<1>1. PICK w \in Draws("goal", {"home"}, t.homeGoals), x \in Draws("goal", {"away"}, t.awayGoals),
           y \in Draws("yellow", Teams, t.yellowCards), z \in Draws("red", Teams, t.redCards) :
        s = ((w \o x) \o (y \o z)) \o anchors
  <2> DEFINE W == Draws("goal", {"home"}, t.homeGoals)
             X == Draws("goal", {"away"}, t.awayGoals)
             Y == Draws("yellow", Teams, t.yellowCards)
             Z == Draws("red", Teams, t.redCards)
  <2>1. PICK q \in Join(Join(W, X), Join(Y, Z)) : s = q \o anchors  BY DEF Bounded
  <2> HIDE DEF W, X, Y, Z, anchors
  <2>2. Quarters(q, W, X, Y, Z)  BY JoinedTwice
  <2>3. PICK w \in W, x \in X, y \in Y, z \in Z : q = (w \o x) \o (y \o z)
    BY <2>2 DEF Quarters
  <2>4. s = ((w \o x) \o (y \o z)) \o anchors  BY <2>1, <2>3
  <2>5. QED  BY <2>4 DEF W, X, Y, Z
<1>2. /\ Drew(w, "goal", {"home"}, t.homeGoals) /\ Drew(x, "goal", {"away"}, t.awayGoals)
      /\ Drew(y, "yellow", Teams, t.yellowCards) /\ Drew(z, "red", Teams, t.redCards)
  BY DrawsAreDrawn DEF Ranges, Teams
<1> DEFINE a == Len(w)
           b == Len(x)
           c == Len(y)
           d == Len(z)
<1>3. w \in Seq(P) /\ x \in Seq(P) /\ y \in Seq(P) /\ z \in Seq(P)  BY <1>2 DEF Drew
<1>4. /\ a \in Nat /\ b \in Nat /\ c \in Nat /\ d \in Nat
      /\ DOMAIN w = 1 .. a /\ DOMAIN x = 1 .. b /\ DOMAIN y = 1 .. c /\ DOMAIN z = 1 .. d
  BY <1>3, LenProperties
<1>5. anchors \in Seq(P) /\ Len(anchors) = 2
      /\ anchors[1] = Anchor("half_time", HalfTime) /\ anchors[2] = Anchor("full_time", FullTime)
  BY AnchorIsPlayable, FootballAssumption
<1> HIDE DEF a, b, c, d, anchors, P
<1>6. PICK g : g = w \o x  OBVIOUS
<1>7. PICK h : h = y \o z  OBVIOUS
<1>8. PICK e : e = g \o h  OBVIOUS
<1>9. /\ g \in Seq(P) /\ Len(g) = a + b
      /\ \A k \in 1 .. a + b : g[k] = IF k <= a THEN w[k] ELSE x[k - a]
  BY <1>3, <1>6, Concatenated DEF a, b
<1>10. /\ h \in Seq(P) /\ Len(h) = c + d
      /\ \A k \in 1 .. c + d : h[k] = IF k <= c THEN y[k] ELSE z[k - c]
  BY <1>3, <1>7, Concatenated DEF c, d
<1>11. /\ e \in Seq(P) /\ Len(e) = (a + b) + (c + d)
      /\ \A k \in 1 .. (a + b) + (c + d) : e[k] = IF k <= a + b THEN g[k] ELSE h[k - (a + b)]
  <2>1. /\ g \o h \in Seq(P) /\ Len(g \o h) = Len(g) + Len(h)
        /\ \A k \in 1 .. Len(g) + Len(h) :
             (g \o h)[k] = IF k <= Len(g) THEN g[k] ELSE h[k - Len(g)]
    BY <1>9, <1>10, Concatenated
  <2>2. QED  BY <1>9, <1>10, <1>8, <2>1
<1>12. /\ s \in Seq(P) /\ Len(s) = a + b + c + d + 2
      /\ \A k \in 1 .. a + b + c + d + 2 :
           s[k] = IF k <= a + b + c + d THEN e[k] ELSE anchors[k - (a + b + c + d)]
  <2>1. s = e \o anchors  BY <1>1, <1>6, <1>7, <1>8 DEF anchors
  <2>2. e \in Seq(P) /\ Len(e) = a + b + c + d  BY <1>4, <1>11
  <2>3. /\ e \o anchors \in Seq(P) /\ Len(e \o anchors) = Len(e) + Len(anchors)
        /\ \A k \in 1 .. Len(e) + Len(anchors) :
             (e \o anchors)[k] = IF k <= Len(e) THEN e[k] ELSE anchors[k - Len(e)]
    BY <1>5, <2>2, Concatenated
  <2>4. QED  BY <1>4, <1>5, <2>1, <2>2, <2>3
<1>13. DOMAIN s = 1 .. a + b + c + d + 2  BY <1>4, <1>12, LenProperties
<1>14. ASSUME NEW k \in 1 .. a
       PROVE  s[k].event.type = "goal" /\ s[k].event.team = "home" /\ s[k].due \in RandomMinutes
  <2>1. k \in 1 .. a + b /\ k \in 1 .. (a + b) + (c + d) /\ k <= a /\ k <= a + b  BY <1>4
  <2>2. g[k] = w[k]  BY <1>9, <2>1
  <2>3. e[k] = g[k]  BY <1>11, <2>1
  <2>4. s[k] = e[k]  BY <1>4, <1>12, <2>1
  <2>5. w[k].event.type = "goal" /\ w[k].event.team \in {"home"} /\ w[k].due \in RandomMinutes
    BY <1>2, <1>4, DrawnEntry
  <2>6. QED  BY <2>2, <2>3, <2>4, <2>5
<1>15. ASSUME NEW k \in a + 1 .. a + b
       PROVE  s[k].event.type = "goal" /\ s[k].event.team = "away" /\ s[k].due \in RandomMinutes
  <2>1. /\ k \in 1 .. a + b /\ k \in 1 .. (a + b) + (c + d) /\ ~ (k <= a) /\ k <= a + b
        /\ k - a \in 1 .. b
    BY <1>4
  <2>2. g[k] = x[k - a]  BY <1>9, <2>1
  <2>3. e[k] = g[k]  BY <1>11, <2>1
  <2>4. s[k] = e[k]  BY <1>4, <1>12, <2>1
  <2>5. /\ x[k - a].event.type = "goal" /\ x[k - a].event.team \in {"away"}
        /\ x[k - a].due \in RandomMinutes
    BY <1>2, <1>4, <2>1, DrawnEntry
  <2>6. QED  BY <2>2, <2>3, <2>4, <2>5
<1>16. ASSUME NEW k \in a + b + 1 .. a + b + c
       PROVE  s[k].event.type = "yellow" /\ s[k].event.team \in Teams /\ s[k].due \in RandomMinutes
  <2>1. k - (a + b) \in 1 .. c  BY <1>4
  <2>2. k \in 1 .. a + b + c + d /\ k > a + b  BY <1>4
  <2>3. s[k] = h[k - (a + b)]
    <3>1. s[k] = e[k]  BY <1>4, <1>12, <2>2
    <3>2. k \in 1 .. (a + b) + (c + d) /\ ~ (k <= a + b)  BY <1>4, <2>2
    <3>3. e[k] = h[k - (a + b)]  BY <1>11, <3>2
    <3>4. QED  BY <3>1, <3>3
  <2>4. s[k] = y[k - (a + b)]
    <3>1. k - (a + b) \in 1 .. c + d /\ k - (a + b) <= c  BY <1>4, <2>1
    <3>2. QED  BY <1>10, <2>3, <3>1
  <2>5. k - (a + b) \in DOMAIN y  BY <1>4, <2>1
  <2>6. /\ y[k - (a + b)].event.type = "yellow" /\ y[k - (a + b)].event.team \in Teams
        /\ y[k - (a + b)].due \in RandomMinutes
    BY <1>2, <2>5, DrawnEntry
  <2>7. QED  BY <2>4, <2>6
<1>17. ASSUME NEW k \in a + b + c + 1 .. a + b + c + d
       PROVE  s[k].event.type = "red" /\ s[k].event.team \in Teams /\ s[k].due \in RandomMinutes
  <2>1. k - (a + b) \in c + 1 .. c + d /\ k - (a + b) - c \in 1 .. d  BY <1>4
  <2>2. k \in 1 .. a + b + c + d /\ k > a + b  BY <1>4
  <2>3. s[k] = h[k - (a + b)]
    <3>1. s[k] = e[k]  BY <1>4, <1>12, <2>2
    <3>2. k \in 1 .. (a + b) + (c + d) /\ ~ (k <= a + b)  BY <1>4, <2>2
    <3>3. e[k] = h[k - (a + b)]  BY <1>11, <3>2
    <3>4. QED  BY <3>1, <3>3
  <2>4. s[k] = z[k - (a + b) - c]
    <3>1. k - (a + b) \in 1 .. c + d /\ ~ (k - (a + b) <= c)  BY <1>4, <2>1
    <3>2. h[k - (a + b)] = z[k - (a + b) - c]  BY <1>10, <3>1
    <3>3. QED  BY <2>3, <3>2
  <2>5. k - (a + b) - c \in DOMAIN z  BY <1>4, <2>1
  <2>6. /\ z[k - (a + b) - c].event.type = "red" /\ z[k - (a + b) - c].event.team \in Teams
        /\ z[k - (a + b) - c].due \in RandomMinutes
    BY <1>2, <2>5, DrawnEntry
  <2>7. QED  BY <2>4, <2>6
<1>18. ASSUME NEW k, k = a + b + c + d + 1
       PROVE  s[k].event.type = "half_time" /\ s[k].event.team = "none" /\ s[k].due = HalfTime
  <2>1. s[k] = anchors[1]  BY <1>4, <1>12, <1>18
  <2>2. QED  BY <1>5, <2>1 DEF Anchor, Entry, Ev
<1>19. ASSUME NEW k, k = a + b + c + d + 2
       PROVE  s[k].event.type = "full_time" /\ s[k].event.team = "none" /\ s[k].due = FullTime
  <2>1. s[k] = anchors[2]  BY <1>4, <1>12, <1>19
  <2>2. QED  BY <1>5, <2>1 DEF Anchor, Entry, Ev
<1>20. ASSUME NEW k \in DOMAIN s
       PROVE  \/ k \in 1 .. a \/ k \in a + 1 .. a + b \/ k \in a + b + 1 .. a + b + c
              \/ k \in a + b + c + 1 .. a + b + c + d
              \/ k = a + b + c + d + 1 \/ k = a + b + c + d + 2
  BY <1>4, <1>13
<1>21. Part(s, "goal", {"home"}, 1, a)
  BY <1>4, <1>14, <1>15, <1>16, <1>17, <1>18, <1>19, <1>20 DEF Part, Matches
<1>22. Part(s, "goal", {"away"}, a + 1, a + b)
  BY <1>4, <1>14, <1>15, <1>16, <1>17, <1>18, <1>19, <1>20 DEF Part, Matches
<1>23. Part(s, "yellow", Teams, a + b + 1, a + b + c)
  BY <1>4, <1>14, <1>15, <1>16, <1>17, <1>18, <1>19, <1>20 DEF Part, Matches
<1>24. Part(s, "red", Teams, a + b + c + 1, a + b + c + d)
  BY <1>4, <1>14, <1>15, <1>16, <1>17, <1>18, <1>19, <1>20 DEF Part, Matches
<1>25. Part(s, "half_time", {"none"}, a + b + c + d + 1, a + b + c + d + 1)
  BY <1>4, <1>14, <1>15, <1>16, <1>17, <1>18, <1>19, <1>20 DEF Part, Matches
<1>26. Part(s, "full_time", {"none"}, a + b + c + d + 2, a + b + c + d + 2)
  BY <1>4, <1>14, <1>15, <1>16, <1>17, <1>18, <1>19, <1>20 DEF Part, Matches
<1>27. \A m \in RandomMinutes : m < FullTime  BY FootballAssumption DEF RandomMinutes
<1>28. \A k \in DOMAIN s : s[k].event.type = "full_time" => k = Len(s) /\ s[k].due = FullTime
  BY <1>12, <1>14, <1>15, <1>16, <1>17, <1>18, <1>19, <1>20
<1>29. \A k \in DOMAIN s : s[k].event.type # "full_time" => s[k].due < FullTime
  BY <1>14, <1>15, <1>16, <1>17, <1>18, <1>19, <1>20, <1>27, FootballAssumption
<1>30. Layout(s, t, a, b, c, d)
  BY <1>2, <1>12, <1>28, <1>29, <1>21, <1>22, <1>23, <1>24, <1>25, <1>26
  DEF Layout, Drew, a, b, c, d, P
<1>31. QED  BY <1>4, <1>30

\* The schedule is such a sequence, sorted.
Arranges(order, s, p) == /\ p \in Shuffles(1 .. Len(s)) /\ Len(order) = Len(s)
                         /\ \A i \in 1 .. Len(s) : order[i] = s[p[i]]
                         /\ Ascending(order) /\ DOMAIN order = 1 .. Len(s)

\* full_time waits longest, so it comes last.
LEMMA FullTimeIsLast ==
  ASSUME NEW t, NEW s, NEW a \in Nat, NEW b \in Nat, NEW c \in Nat, NEW d \in Nat,
         Layout(s, t, a, b, c, d), NEW order, NEW p, Arranges(order, s, p),
         NEW i \in 1 .. Len(s), order[i].event.type = "full_time"
  PROVE  i = Len(s)
<1> DEFINE n == Len(s)
<1> SUFFICES i = n  OBVIOUS
<1>1. n \in Nat /\ n >= 2 /\ DOMAIN s = 1 .. n /\ s \in Seq(Playable)  BY DEF Layout
<1> HIDE DEF n
<1>2. p \in [1 .. n -> 1 .. n] /\ \A j, k \in 1 .. n : p[j] = p[k] => j = k
  BY DEF Arranges, Shuffles, n
<1>3. i \in 1 .. n /\ n \in 1 .. n /\ p[i] \in 1 .. n /\ p[n] \in 1 .. n  BY <1>1, <1>2 DEF n
<1>4. order[i] = s[p[i]] /\ order[n] = s[p[n]]  BY <1>3 DEF Arranges, n
<1>5. p[i] = n /\ order[i].due = FullTime  BY <1>1, <1>3, <1>4 DEF Layout, n
<1>6. SUFFICES ASSUME i < n PROVE FALSE  BY <1>1, <1>3
<1>7. order[i].due <= order[n].due  BY <1>3, <1>6 DEF Arranges, Ascending, n
<1>8. s[p[n]] \in Playable  BY <1>1, <1>3, ElementOfSeq
<1>9. order[n].due \in Int  BY <1>4, <1>8 DEF Playable
<1>10. s[p[n]].event.type = "full_time"
  <2>1. s[p[n]].event.type # "full_time" => s[p[n]].due < FullTime
    BY <1>1, <1>3 DEF Layout
  <2>2. FullTime <= s[p[n]].due /\ s[p[n]].due \in Int  BY <1>4, <1>5, <1>7, <1>9
  <2>3. QED  BY <2>1, <2>2, FootballAssumption
<1>11. p[n] = n  BY <1>1, <1>3, <1>10 DEF Layout, n
<1>12. QED  BY <1>2, <1>3, <1>5, <1>6, <1>11

\* What p maps to lo .. hi, moved on by one, is as many as there are in lo .. hi.
LEMMA CountedThrough ==
  ASSUME NEW n \in Nat, NEW p \in Shuffles(1 .. n), NEW lo \in 1 .. n + 1, NEW hi \in lo - 1 .. n
  PROVE  Cardinality({i \in 1 .. n + 1 : i > 1 /\ p[i - 1] \in lo .. hi}) = hi - lo + 1
<1> DEFINE D == 1 .. n
           R == {i \in 1 .. n + 1 : i > 1 /\ p[i - 1] \in lo .. hi}
           f == [i \in R |-> p[i - 1]]
<1>1. p \in [D -> D] /\ \A i, j \in D : p[i] = p[j] => i = j  BY DEF Shuffles
<1>2. IsFiniteSet(D)  BY FS_Interval
<1>3. p \in Injection(D, D)  BY <1>1 DEF Injection, IsInjective
<1>4. p \in Surjection(D, D)  BY <1>2, <1>3, FS_Injection
<1>5. \A k \in D : \E i \in D : p[i] = k  BY <1>4 DEF Surjection
<1>6. IsFiniteSet(R)
  <2>1. R \subseteq 1 .. n + 1 /\ IsFiniteSet(1 .. n + 1)  BY FS_Interval
  <2>2. QED  BY <2>1, FS_Subset
<1>7. \A i \in R : i - 1 \in D /\ f[i] = p[i - 1] /\ p[i - 1] \in lo .. hi  OBVIOUS
<1>8. f \in [R -> lo .. hi]  OBVIOUS
<1>9. \A i, j \in R : f[i] = f[j] => i = j
  <2> SUFFICES ASSUME NEW i \in R, NEW j \in R, f[i] = f[j] PROVE i = j  OBVIOUS
  <2>1. i - 1 = j - 1  BY <1>1, <1>7
  <2>2. QED  BY <2>1
<1>10. \A k \in lo .. hi : \E i \in R : f[i] = k
  <2> SUFFICES ASSUME NEW k \in lo .. hi PROVE \E i \in R : f[i] = k  OBVIOUS
  <2>1. k \in D  OBVIOUS
  <2>2. PICK i \in D : p[i] = k  BY <1>5, <2>1
  <2>3. i + 1 \in 1 .. n + 1 /\ i + 1 > 1 /\ (i + 1) - 1 = i  OBVIOUS
  <2>4. i + 1 \in R  BY <2>2, <2>3
  <2>5. f[i + 1] = k  BY <1>7, <2>2, <2>3, <2>4
  <2>6. QED  BY <2>4, <2>5
<1> HIDE DEF R, f
<1>11. f \in Bijection(R, lo .. hi)
  BY <1>8, <1>9, <1>10 DEF Bijection, Injection, IsInjective, Surjection
<1>12. Cardinality(lo .. hi) = Cardinality(R)
  BY <1>6, <1>11, FS_Bijection DEF ExistsBijection
<1>13. Cardinality(lo .. hi) = hi - lo + 1
  <2>1. lo \in Int /\ hi \in Int /\ hi >= lo - 1  OBVIOUS
  <2>2. Cardinality(lo .. hi) = IF lo > hi THEN 0 ELSE hi - lo + 1  BY <2>1, FS_Interval
  <2>3. QED  BY <2>1, <2>2
<1>14. QED  BY <1>12, <1>13 DEF R

\* The events received, with the one being sent, are the kickoff and the entries up to
\* the index, and all of them, up to a full_time, once the match has ended.
NotBegun == ~ kickoffEmitted => scheduleIdx = 0 /\ received = <<>>
Keeping == kickoffEmitted => Len(received) + (IF pc = "sending" THEN 1 ELSE 0) = 1 + scheduleIdx
ReceivedPlays == \A i \in DOMAIN received : Plays(received[i], i)
SendingPlays == pc = "sending" => Plays(out, scheduleIdx + 1)
EndReached == pc \in {"ending", "closed"} /\ ~ cancelled =>
               kickoffEmitted /\ (scheduleIdx = Len(schedule) \/ EndsWithFullTime)

PlayedInv == NotBegun /\ Keeping /\ ReceivedPlays /\ SendingPlays /\ EndReached

\* The schedule of a bounded template has the layout of one.
Arranged == \E s, p : \E a, b, c, d \in Nat :
              Layout(s, template, a, b, c, d) /\ Arranges(schedule, s, p)

BoundedInv == template.kind = "bounded" => Arranged

\* The schedule is one that the template gives rise to.
Built == \E s \in Drawn(template) : schedule \in Sorted(s)

ByTemplate == pc \notin {"new", "refused"} /\ template # Default

KeptInv == FeedInv /\ BoundedInv /\ (ByTemplate => Built /\ PlayedInv)

\* What the range of a file that loads says can be kept.
LEMMA PromisesAreKeepable ==
  ASSUME files \in Directories, Loads, NEW n, NEW t \in Named(n), t.kind = "bounded"
  PROVE  \A r \in Ranges : Promise(t[r])
<1>1. PICK i \in DOMAIN files : t = files[i]  BY DEF Named
<1>2. \A r \in Ranges : 0 <= t[r].min /\ t[r].min <= t[r].max  BY <1>1 DEF Loads, Valid
<1>3. \A r \in Ranges : t[r].min \in Int /\ t[r].max \in Int
  BY <1>1, DirectoriesAssumption DEF Ranges
<1>4. QED  BY <1>2, <1>3 DEF Promise

\* Sorting only moves the entries.
LEMMA SortedArranges ==
  ASSUME NEW s \in Seq(Playable), NEW order \in Sorted(s)
  PROVE  \E p : Arranges(order, s, p)
<1>1. DOMAIN s = 1 .. Len(s) /\ Len(s) \in Nat  BY LenProperties
<1>2. Ascending(order)  BY DEF Sorted
<1>3. PICK p \in Shuffles(DOMAIN s) : order = [i \in DOMAIN s |-> s[p[i]]]
  BY DEF Sorted
<1>4. p \in [DOMAIN s -> DOMAIN s]  BY DEF Shuffles
<1>5. order \in Seq(Playable) /\ Len(order) = Len(s) /\ DOMAIN order = 1 .. Len(s)
  BY <1>1, <1>3, <1>4
<1>6. Arranges(order, s, p)  BY <1>1, <1>2, <1>3, <1>5 DEF Arranges
<1>7. QED  BY <1>6

\* A template that is accepted gets a schedule with its layout, none of it played yet.
LEMMA KeptTemplate ==
  ASSUME KeptInv, NEW n \in TemplateNames, NewFromTemplate(n)
  PROVE  KeptInv'
<1>1. FeedInv'  BY TemplateStep DEF KeptInv
<1>2. PICK t \in Named(n) : template' = t /\ \E s \in Drawn(t) : schedule' \in Sorted(s)
  BY DEF NewFromTemplate
<1>3. PICK s \in Drawn(t) : schedule' \in Sorted(s)  BY <1>2
<1>4. /\ pc = "new" /\ pc' = "ticking" /\ Loads /\ scheduleIdx' = scheduleIdx
      /\ kickoffEmitted' = kickoffEmitted /\ received' = received /\ files \in Directories
  BY DEF NewFromTemplate, engineVars, KeptInv, FeedInv
<1>5. scheduleIdx = 0 /\ ~ kickoffEmitted /\ received = <<>>
  BY <1>4 DEF KeptInv, FeedInv, StageInv
<1>6. PlayedInv'
  BY <1>4, <1>5, EmptySeq, LenProperties
  DEF PlayedInv, NotBegun, Keeping, ReceivedPlays, SendingPlays, EndReached
<1>7. Built'  BY <1>2, <1>3 DEF Built
<1>8. ASSUME t.kind = "bounded"  PROVE Arranged'
  <2>1. s \in Bounded(t)  BY <1>3, <1>8 DEF Drawn
  <2>2. \A r \in Ranges : Promise(t[r])  BY <1>2, <1>4, <1>8, PromisesAreKeepable
  <2>3. PICK a, b, c, d \in Nat : Layout(s, t, a, b, c, d)  BY <2>1, <2>2, BoundedHasLayout
  <2>4. s \in Seq(Playable)  BY <2>3 DEF Layout
  <2>5. PICK p : Arranges(schedule', s, p)  BY <1>3, <2>4, SortedArranges
  <2>6. QED  BY <1>2, <2>3, <2>5 DEF Arranged
<1>9. BoundedInv'  BY <1>2, <1>8 DEF BoundedInv
<1>10. QED  BY <1>1, <1>6, <1>7, <1>9 DEF KeptInv

\* Nothing is left behind a full_time that has been sent, which ends the match.
LEMMA FullTimeEnds ==
  ASSUME FeedInv, Arranged, scheduleIdx > 0, schedule[scheduleIdx].event.type = "full_time"
  PROVE  scheduleIdx = Len(schedule)
<1>1. PICK s, p :
        \E a, b, c, d \in Nat : Layout(s, template, a, b, c, d) /\ Arranges(schedule, s, p)
  BY DEF Arranged
<1>2. PICK a, b, c, d \in Nat : Layout(s, template, a, b, c, d) /\ Arranges(schedule, s, p)
  BY <1>1
<1>3. scheduleIdx \in 1 .. Len(schedule) /\ Len(schedule) = Len(s)
  BY <1>2 DEF FeedInv, FootballTypeOK, Arranges
<1>4. QED  BY <1>2, <1>3, FullTimeIsLast

\* A tick of a match by template.
LEMMA KeptTick ==
  ASSUME FeedInv, schedule # <<>>, PlayedInv, NextEvent
  PROVE  PlayedInv'
<1>1. /\ scheduleIdx \in 0 .. Len(schedule) /\ Len(schedule) \in Nat /\ scheduleIdx \in Nat
      /\ received \in Seq(Event) /\ Len(received) \in Nat
  BY LenProperties DEF FeedInv, FootballTypeOK
<1>2. /\ pc = "ticking" /\ schedule' = schedule /\ received' = received /\ cancelled' = cancelled
  BY DEF NextEvent, Kickoff, Exhausted, HoldBack, PlayEntry, RandomHalfTime, RandomFullTime,
         RandomEvent, Tick
<1>3. ReceivedPlays'  BY <1>2 DEF PlayedInv, ReceivedPlays, Plays
<1>4. CASE Kickoff
  <2>1. /\ ~ kickoffEmitted /\ kickoffEmitted' /\ scheduleIdx' = scheduleIdx /\ pc' = "sending"
        /\ out' = [Ev("kickoff", "none", NoMinute) EXCEPT !.sequence = sequence']
    BY <1>4 DEF Kickoff, Send
  <2>2. scheduleIdx = 0 /\ Len(received) = 0  BY <2>1, EmptySeq DEF PlayedInv, NotBegun
  <2>3. out'.type = "kickoff"  BY <2>1 DEF Ev
  <2>4. SendingPlays'  BY <2>1, <2>2, <2>3 DEF Plays, SendingPlays
  <2>5. Keeping'  BY <1>2, <2>1, <2>2 DEF Keeping
  <2>6. NotBegun' /\ EndReached'  BY <2>1 DEF NotBegun, EndReached
  <2>7. QED  BY <1>3, <2>4, <2>5, <2>6 DEF PlayedInv
<1>5. CASE Exhausted \/ HoldBack
  <2>1. /\ kickoffEmitted /\ kickoffEmitted' = kickoffEmitted /\ scheduleIdx' = scheduleIdx
        /\ pc' \in {"ending", "ticking"} /\ (pc' = "ending" => scheduleIdx >= Len(schedule))
    BY <1>5 DEF Exhausted, HoldBack, Scheduled, Quiet
  <2>2. Keeping'  BY <1>2, <2>1 DEF PlayedInv, Keeping
  <2>3. pc' = "ending" => scheduleIdx' = Len(schedule')  BY <1>1, <1>2, <2>1
  <2>4. EndReached'  BY <2>1, <2>3 DEF EndReached
  <2>5. NotBegun' /\ SendingPlays'  BY <2>1 DEF NotBegun, SendingPlays
  <2>6. QED  BY <1>3, <2>2, <2>4, <2>5 DEF PlayedInv
<1>6. CASE PlayEntry
  <2>1. PICK x : x = schedule[scheduleIdx + 1]  OBVIOUS
  <2>2. /\ kickoffEmitted /\ kickoffEmitted' = kickoffEmitted /\ scheduleIdx' = scheduleIdx + 1
        /\ pc' = "sending" /\ out' = [x.event EXCEPT !.sequence = sequence']
        /\ scheduleIdx < Len(schedule)
    BY <1>6, <2>1 DEF PlayEntry, Scheduled, Send
  <2>3. x.event \in Event
    <3>1. scheduleIdx + 1 \in 1 .. Len(schedule)  BY <1>1, <2>2
    <3>2. x \in Playable  BY <2>1, <3>1, ElementOfSeq DEF FeedInv, ScheduleInv
    <3>3. QED  BY <3>2 DEF Playable
  <2>4. /\ out'.type = x.event.type /\ out'.team = x.event.team /\ out'.minute = x.event.minute
        /\ out'.sequence = sequence'
    <3>1. sequence' \in Nat  BY <1>6 DEF PlayEntry, Tick, FeedInv, FootballTypeOK
    <3>2. QED  BY <2>2, <2>3, <3>1 DEF Event
  <2>5. SendingPlays'
    <3>1. scheduleIdx' + 1 # 1 /\ (scheduleIdx' + 1) - 1 = scheduleIdx + 1  BY <1>1, <2>2
    <3>2. scheduleIdx + 1 \in DOMAIN schedule  BY <1>1, <2>2, LenProperties DEF FeedInv, FootballTypeOK
    <3>3. clockMins' >= x.due /\ sequence' = clockMins'
      BY <1>6, <2>1 DEF PlayEntry, Tick, FeedInv, ClockInv
    <3>4. x.due <= out'.sequence
      <4>1. x.due \in Int
        BY <2>1, <3>2, ElementOfSeq, LenProperties DEF FeedInv, ScheduleInv, Playable
      <4>2. clockMins' \in Int  BY <1>6 DEF PlayEntry, Tick, FeedInv, FootballTypeOK
      <4>3. QED  BY <2>4, <3>3, <4>1, <4>2
    <3>5. Plays(out', scheduleIdx' + 1)  BY <2>1, <2>4, <3>1, <3>2, <3>4 DEF Plays
    <3>6. QED  BY <1>2, <3>5 DEF Plays, SendingPlays
  <2>6. Keeping'  BY <1>1, <1>2, <2>2 DEF PlayedInv, Keeping
  <2>7. NotBegun' /\ EndReached'  BY <2>2 DEF NotBegun, EndReached
  <2>8. QED  BY <1>3, <2>5, <2>6, <2>7 DEF PlayedInv
<1>7. QED
  BY <1>4, <1>5, <1>6 DEF NextEvent, RandomHalfTime, RandomFullTime, RandomEvent, Random

\* The consumer takes the event being sent.
LEMMA KeptReceive ==
  ASSUME FeedInv, PlayedInv, Receive
  PROVE  PlayedInv'
<1>1. /\ scheduleIdx \in Nat /\ received \in Seq(Event) /\ Len(received) \in Nat /\ out \in Event
      /\ DOMAIN received = 1 .. Len(received)
  BY LenProperties DEF FeedInv, FootballTypeOK
<1>2. /\ pc = "sending" /\ received' = Append(received, out)
      /\ pc' = IF done THEN "ending" ELSE "ticking"
      /\ schedule' = schedule /\ scheduleIdx' = scheduleIdx /\ kickoffEmitted' = kickoffEmitted
  BY DEF Receive, sportVars
<1>3. kickoffEmitted /\ (done <=> out.type = "full_time")
  BY <1>2 DEF FeedInv, SendingInv
<1>4. Len(received) = scheduleIdx /\ Plays(out, scheduleIdx + 1)
  <2>1. Len(received) + 1 = 1 + scheduleIdx  BY <1>2, <1>3 DEF PlayedInv, Keeping
  <2>2. Plays(out, scheduleIdx + 1)  BY <1>2 DEF PlayedInv, SendingPlays
  <2>3. Len(received) \in Nat /\ scheduleIdx \in Nat  BY <1>1
  <2>4. Len(received) = scheduleIdx  BY <2>1, <2>3
  <2>5. QED  BY <2>2, <2>4
<1>5. /\ Len(received') = Len(received) + 1 /\ DOMAIN received' = 1 .. Len(received) + 1
      /\ received'[Len(received) + 1] = out
      /\ \A i \in 1 .. Len(received) : received'[i] = received[i]
  BY <1>1, <1>2
<1>6. ReceivedPlays'
  <2> SUFFICES ASSUME NEW i \in DOMAIN received' PROVE Plays(received[i], i)'
    BY DEF ReceivedPlays
  <2>1. PICK e : e = received'[i]  OBVIOUS
  <2>2. Plays(received[i], i)' <=> Plays(e, i)  BY <1>2, <2>1 DEF Plays
  <2>3. CASE i = Len(received) + 1
    <3>1. e = out /\ i = scheduleIdx + 1  BY <1>4, <1>5, <2>1, <2>3
    <3>2. QED  BY <1>4, <2>2, <3>1
  <2>4. CASE i \in 1 .. Len(received)
    <3>1. e = received[i] /\ Plays(received[i], i)
      BY <1>1, <1>5, <2>1, <2>4 DEF PlayedInv, ReceivedPlays
    <3>2. QED  BY <2>2, <3>1
  <2>5. QED  BY <1>1, <1>5, <2>3, <2>4
<1>7. done => EndsWithFullTime'
  <2>1. Len(received') = Len(received) + 1 /\ received' # <<>>  BY <1>1, <1>2, <1>5, EmptySeq
  <2>2. QED  BY <1>3, <1>5, <2>1 DEF EndsWithFullTime
<1>8. Keeping'  BY <1>1, <1>2, <1>4, <1>5 DEF Keeping
<1>9. NotBegun' /\ SendingPlays' /\ EndReached'
  BY <1>2, <1>3, <1>7 DEF NotBegun, SendingPlays, EndReached
<1>10. QED  BY <1>6, <1>8, <1>9 DEF PlayedInv

\* Before a template is accepted there is no promise.
LEMMA DefaultIsRandom == Default.kind = "random"
BY DEF Default

LEMMA KeptInvInit == FootballInit => KeptInv
<1>1. FootballInit => template = Default  BY DEF FootballInit
<1>2. QED  BY <1>1, FeedInvInit, DefaultIsRandom DEF KeptInv, BoundedInv, ByTemplate

LEMMA KeptInvStep == KeptInv /\ [FootballNext]_footballVars => KeptInv'
<1> SUFFICES ASSUME KeptInv, [FootballNext]_footballVars PROVE KeptInv'  OBVIOUS
<1>1. FeedInv'  BY FeedInvStep DEF KeptInv
<1>2. CASE \E n \in TemplateNames : NewFromTemplate(n)  BY <1>2, KeptTemplate
<1>3. CASE pc = "new" /\ template' = template
  <2>1. template = Default  BY <1>3 DEF KeptInv, FeedInv, StageInv
  <2>2. BoundedInv' /\ ~ ByTemplate'  BY <1>3, <2>1, DefaultIsRandom DEF BoundedInv, ByTemplate
  <2>3. QED  BY <1>1, <2>2 DEF KeptInv
<1>4. ASSUME template' = template, schedule' = schedule, ByTemplate' => ByTemplate,
             ByTemplate => PlayedInv'
      PROVE  KeptInv'
  <2>1. BoundedInv'  BY <1>4 DEF KeptInv, BoundedInv, Arranged
  <2>2. Built => Built'  BY <1>4 DEF Built
  <2>3. QED  BY <1>1, <1>4, <2>1, <2>2 DEF KeptInv
<1>5. CASE NextEvent \/ Receive
  <2>1. template' = template /\ schedule' = schedule /\ pc \in {"ticking", "sending"}
    BY <1>5
    DEF NextEvent, Kickoff, Exhausted, HoldBack, PlayEntry, RandomHalfTime, RandomFullTime,
        RandomEvent, Tick, Receive, sportVars
  <2>2. ByTemplate => FeedInv /\ schedule # <<>> /\ PlayedInv
    BY DEF KeptInv, FeedInv, HasSchedule, ByTemplate
  <2>3. ByTemplate => PlayedInv'  BY <1>5, <2>2, KeptTick, KeptReceive
  <2>4. ByTemplate' => ByTemplate  BY <2>1 DEF ByTemplate
  <2>5. QED  BY <2>1, <2>3, <2>4, <1>4
<1>6. CASE Cancel \/ SeeCancelled \/ CloseOut \/ UNCHANGED footballVars
  <2>1. /\ template' = template /\ schedule' = schedule /\ scheduleIdx' = scheduleIdx
        /\ kickoffEmitted' = kickoffEmitted /\ received' = received /\ out' = out
        /\ (pc' = "sending" <=> pc = "sending")
        /\ (pc \in {"new", "refused"} => pc' = pc)
    BY <1>6 DEF Cancel, SeeCancelled, CloseOut, footballVars, sportVars, engineVars
  <2>2. pc' \in {"ending", "closed"} /\ ~ cancelled' => pc \in {"ending", "closed"} /\ ~ cancelled
    BY <1>6 DEF Cancel, SeeCancelled, CloseOut, footballVars, engineVars
  <2>3. PlayedInv => PlayedInv'
    <3> SUFFICES ASSUME PlayedInv PROVE PlayedInv'  OBVIOUS
    <3>1. NotBegun' /\ Keeping' /\ ReceivedPlays' /\ SendingPlays'
      BY <2>1 DEF PlayedInv, NotBegun, Keeping, ReceivedPlays, SendingPlays, Plays
    <3>2. EndReached'  BY <2>1, <2>2 DEF PlayedInv, EndReached, EndsWithFullTime
    <3>3. QED  BY <3>1, <3>2 DEF PlayedInv
  <2>4. ByTemplate' => ByTemplate  BY <2>1 DEF ByTemplate
  <2>5. QED  BY <2>1, <2>3, <2>4, <1>4 DEF KeptInv
<1>7. QED
  BY <1>2, <1>3, <1>5, <1>6
  DEF FootballNext, New, Refuse

\* A match asked for by template is played by it: its consumer gets the kickoff and
\* then the entries that the template gives rise to, each once, in the order of
\* their minutes and none before its minute, and never the dice; and, when nobody
\* cancels, all of them, or all up to a full_time, by the time the match is over.
THEOREM TemplatesAreFollowed == FootballSpec => []FootballInv
<1>1. KeptInv => FootballInv
  <2> SUFFICES ASSUME KeptInv, ByTemplate
               PROVE  /\ schedule # <<>> /\ Built
                      /\ ReceivedPlays
                      /\ pc = "closed" /\ ~ cancelled => \/ Len(received) = Len(schedule) + 1
                                                        \/ EndsWithFullTime
    BY DEF KeptInv, FeedInv, FootballInv, TemplateIsFollowed, ByTemplate, Built, ReceivedPlays
  <2>1. schedule # <<>> /\ Built /\ PlayedInv
    BY DEF KeptInv, FeedInv, HasSchedule, ByTemplate
  <2>2. ASSUME pc = "closed", ~ cancelled, ~ EndsWithFullTime
        PROVE  Len(received) = Len(schedule) + 1
    <3>1. kickoffEmitted /\ scheduleIdx = Len(schedule)
      BY <2>1, <2>2 DEF PlayedInv, EndReached
    <3>2. Len(received) + 0 = 1 + scheduleIdx  BY <2>1, <2>2, <3>1 DEF PlayedInv, Keeping
    <3>3. Len(received) \in Nat /\ Len(schedule) \in Nat
      BY LenProperties DEF KeptInv, FeedInv, FootballTypeOK
    <3>4. QED  BY <3>1, <3>2, <3>3
  <2>3. QED  BY <2>1, <2>2 DEF PlayedInv
<1>2. QED  BY <1>1, KeptInvInit, KeptInvStep, PTL DEF FootballSpec

\* At the end, every part of the schedule has been received.
LEMMA PartReceived ==
  ASSUME NEW s, NEW p, Arranges(schedule, s, p), Len(s) \in Nat, s \in Seq(Playable),
         PlayedInv, kickoffEmitted, pc # "sending", scheduleIdx = Len(schedule),
         received \in Seq(Event),
         NEW type, type # "kickoff", NEW team,
         NEW lo \in 1 .. Len(s) + 1, NEW hi \in lo - 1 .. Len(s), Part(s, type, team, lo, hi)
  PROVE  Numbered(type, team) = hi - lo + 1
<1> DEFINE n == Len(s)
           R == {i \in 1 .. n + 1 : i > 1 /\ p[i - 1] \in lo .. hi}
<1>1. Len(received) = n + 1 /\ DOMAIN received = 1 .. n + 1
  <2>1. Len(received) + 0 = 1 + Len(schedule) /\ Len(schedule) = n
    BY DEF PlayedInv, Keeping, Arranges
  <2>2. QED  BY <2>1, LenProperties
<1>2. p \in Shuffles(1 .. n) /\ p \in [1 .. n -> 1 .. n]  BY DEF Arranges, Shuffles
<1>3. ASSUME NEW i \in 1 .. n + 1
      PROVE  received[i].type = type /\ received[i].team \in team
               <=> i > 1 /\ p[i - 1] \in lo .. hi
  <2>1. Plays(received[i], i)  BY <1>1 DEF PlayedInv, ReceivedPlays
  <2>2. CASE i = 1  BY <2>1, <2>2 DEF Plays
  <2>3. CASE i # 1
    <3>1. i - 1 \in 1 .. n /\ i > 1  BY <2>3
    <3>2. schedule[i - 1] = s[p[i - 1]] /\ p[i - 1] \in DOMAIN s
      BY <1>2, <3>1, LenProperties DEF Arranges
    <3>3. received[i].type = s[p[i - 1]].event.type /\ received[i].team = s[p[i - 1]].event.team
      BY <2>1, <2>3, <3>2 DEF Plays
    <3>4. Matches(s[p[i - 1]], type, team) <=> p[i - 1] \in lo .. hi  BY <3>2 DEF Part
    <3>5. QED  BY <3>1, <3>3, <3>4 DEF Matches
  <2>4. QED  BY <2>2, <2>3
<1>4. {i \in DOMAIN received : received[i].type = type /\ received[i].team \in team} = R
  BY <1>1, <1>3
<1>5. Cardinality(R) = hi - lo + 1  BY <1>2, CountedThrough
<1> HIDE DEF R
<1>6. QED  BY <1>4, <1>5 DEF Numbered

LEMMA KeptAtTheEnd == KeptInv => BoundedKept
<1> SUFFICES ASSUME KeptInv, pc = "closed", template.kind = "bounded", ~ cancelled
             PROVE  /\ Within(Numbered("goal", {"home"}), template.homeGoals)
                    /\ Within(Numbered("goal", {"away"}), template.awayGoals)
                    /\ Within(Numbered("yellow", Teams), template.yellowCards)
                    /\ Within(Numbered("red", Teams), template.redCards)
                    /\ Numbered("half_time", {"none"}) = 1 /\ Numbered("full_time", {"none"}) = 1
  BY DEF BoundedKept
<1>1. Arranged /\ PlayedInv /\ received \in Seq(Event) /\ FeedInv
  <2>1. ByTemplate  BY DefaultIsRandom DEF ByTemplate
  <2>2. QED  BY <2>1 DEF KeptInv, BoundedInv, FeedInv, FootballTypeOK
<1>2. PICK s, p :
        \E a, b, c, d \in Nat : Layout(s, template, a, b, c, d) /\ Arranges(schedule, s, p)
  BY <1>1 DEF Arranged
<1>3. PICK a, b, c, d \in Nat : Layout(s, template, a, b, c, d) /\ Arranges(schedule, s, p)
  BY <1>2
<1>4. kickoffEmitted /\ scheduleIdx = Len(schedule) /\ pc # "sending"
  <2>1. kickoffEmitted /\ (scheduleIdx = Len(schedule) \/ EndsWithFullTime)
    BY <1>1 DEF PlayedInv, EndReached
  <2>2. ASSUME EndsWithFullTime PROVE scheduleIdx = Len(schedule)
    <3>1. Len(received) + 0 = 1 + scheduleIdx  BY <1>1, <2>1 DEF PlayedInv, Keeping
    <3>2. scheduleIdx \in Nat /\ Len(received) \in Nat /\ DOMAIN received = 1 .. Len(received)
      BY <1>1, LenProperties DEF FeedInv, FootballTypeOK
    <3>3. scheduleIdx + 1 \in DOMAIN received /\ Len(received) = scheduleIdx + 1  BY <3>1, <3>2
    <3>4. Plays(received[scheduleIdx + 1], scheduleIdx + 1)
      BY <1>1, <3>3 DEF PlayedInv, ReceivedPlays
    <3>5. received[scheduleIdx + 1].type = "full_time"  BY <2>2, <3>3 DEF EndsWithFullTime
    <3>6. scheduleIdx + 1 # 1  BY <3>4, <3>5 DEF Plays
    <3>7. scheduleIdx > 0 /\ (scheduleIdx + 1) - 1 = scheduleIdx  BY <3>2, <3>6
    <3>8. schedule[scheduleIdx].event.type = "full_time"  BY <3>4, <3>5, <3>6, <3>7 DEF Plays
    <3>9. QED  BY <1>1, <3>7, <3>8, FullTimeEnds
  <2>3. QED  BY <2>1, <2>2
<1> DEFINE n == a + b + c + d
<1>5. Len(s) = n + 2 /\ Len(s) \in Nat /\ s \in Seq(Playable)  BY <1>3 DEF Layout
<1>6. ASSUME NEW type \in {"goal", "yellow", "red", "half_time", "full_time"}, NEW team,
             NEW lo \in 1 .. Len(s) + 1, NEW hi \in lo - 1 .. Len(s), Part(s, type, team, lo, hi)
      PROVE  Numbered(type, team) = hi - lo + 1
  <2>1. type # "kickoff"  OBVIOUS
  <2>2. Part(s, type, team, lo, hi)  BY <1>6
  <2> HIDE DEF n
  <2>3. QED  BY <1>1, <1>3, <1>4, <1>5, <2>1, <2>2, PartReceived
<1>7. Numbered("goal", {"home"}) = a
  <2>1. Part(s, "goal", {"home"}, 1, a)  BY <1>3 DEF Layout
  <2>2. /\ a \in 1 - 1 .. Len(s)
        /\ 1 \in 1 .. Len(s) + 1
    BY <1>5
  <2>3. Numbered("goal", {"home"}) = a - 1 + 1  BY <1>6, <2>1, <2>2
  <2>4. QED  BY <2>3
<1>8. Numbered("goal", {"away"}) = b
  <2>1. Part(s, "goal", {"away"}, a + 1, a + b)  BY <1>3 DEF Layout
  <2>2. /\ a + b \in (a + 1) - 1 .. Len(s)
        /\ a + 1 \in 1 .. Len(s) + 1
    BY <1>5
  <2>3. Numbered("goal", {"away"}) = (a + b) - (a + 1) + 1  BY <1>6, <2>1, <2>2
  <2>4. QED  BY <2>3
<1>9. Numbered("yellow", Teams) = c
  <2>1. Part(s, "yellow", Teams, a + b + 1, a + b + c)  BY <1>3 DEF Layout
  <2>2. /\ a + b + c \in (a + b + 1) - 1 .. Len(s)
        /\ a + b + 1 \in 1 .. Len(s) + 1
    BY <1>5
  <2>3. Numbered("yellow", Teams) = (a + b + c) - (a + b + 1) + 1  BY <1>6, <2>1, <2>2
  <2>4. QED  BY <2>3
<1>10. Numbered("red", Teams) = d
  <2>1. Part(s, "red", Teams, a + b + c + 1, n)  BY <1>3 DEF Layout
  <2>2. /\ n \in (a + b + c + 1) - 1 .. Len(s)
        /\ a + b + c + 1 \in 1 .. Len(s) + 1
    BY <1>5
  <2>3. Numbered("red", Teams) = n - (a + b + c + 1) + 1  BY <1>6, <2>1, <2>2
  <2>4. QED  BY <2>3
<1>11. Numbered("half_time", {"none"}) = 1
  <2>1. Part(s, "half_time", {"none"}, n + 1, n + 1)  BY <1>3 DEF Layout
  <2>2. /\ n + 1 \in (n + 1) - 1 .. Len(s)
        /\ n + 1 \in 1 .. Len(s) + 1
    BY <1>5
  <2>3. Numbered("half_time", {"none"}) = (n + 1) - (n + 1) + 1  BY <1>6, <2>1, <2>2
  <2>4. QED  BY <2>3
<1>12. Numbered("full_time", {"none"}) = 1
  <2>1. Part(s, "full_time", {"none"}, n + 2, n + 2)  BY <1>3 DEF Layout
  <2>2. /\ n + 2 \in (n + 2) - 1 .. Len(s)
        /\ n + 2 \in 1 .. Len(s) + 1
    BY <1>5
  <2>3. Numbered("full_time", {"none"}) = (n + 2) - (n + 2) + 1  BY <1>6, <2>1, <2>2
  <2>4. QED  BY <2>3
<1>13. QED  BY <1>3, <1>7, <1>8, <1>9, <1>10, <1>11, <1>12 DEF Layout

\* A bounded template played to its end has kept its promise, for any ranges and any
\* draw of the minutes: as many goals of each team and cards of each colour as its
\* ranges allow, one half_time and one full_time, however the minutes collide and
\* wherever the unstable sort puts the entries that share one.
THEOREM PromisesAreKept == FootballSpec => []BoundedKept
<1>1. QED  BY KeptInvInit, KeptInvStep, KeptAtTheEnd, PTL DEF FootballSpec

=============================================================================
