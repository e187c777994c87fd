------------------------------ MODULE Football ------------------------------
(***************************************************************************)
(* One simulated match, from its template to its last event: the templates *)
(* directory (internal/simulator/template), Football with its precomputed  *)
(* schedule or its dice (internal/simulator/football), and MatchEngine     *)
(* (internal/simulator/domain), which ticks it, numbers its events and     *)
(* hands them to the Runner over an unbuffered channel.                    *)
(*                                                                         *)
(* HalfTime and FullTime stand for minutes 45 and 90. The seeded generator *)
(* is a free choice: of a count in its range, a minute, a team, the dice   *)
(* of a tick, and the order in which the unstable sort leaves two entries  *)
(* of one minute. Team names, odds and timestamps are left out.            *)
(***************************************************************************)
EXTENDS Integers, Sequences, FiniteSets

CONSTANTS Directories,       \* what TEMPLATES_DIR may hold: its *.json files, in
                             \* the order of their paths
          TemplateNames,     \* names that requests ask for; "" is the default
          HalfTime, FullTime,
          MaxClock           \* bound: ticks of one match

ASSUME FootballAssumption ==
  /\ HalfTime \in Nat /\ FullTime \in Nat /\ MaxClock \in Nat
  /\ 1 <= HalfTime /\ HalfTime < FullTime

\* What json.Unmarshal lets through of a file: a minute may be any number.
ASSUME DirectoriesAssumption ==
  \A d \in Directories : \A i \in DOMAIN d :
    /\ d[i].events \in Seq([type : STRING, team : {"home", "away", "none"}, minute : Int])
    /\ \A r \in {"homeGoals", "awayGoals", "yellowCards", "redCards"} :
         d[i][r].min \in Int /\ d[i][r].max \in Int

VARIABLES files,            \* the template files
          template,         \* the template of the match, or Default
          schedule,         \* Football.schedule: <<>> is nil, the random mode
          scheduleIdx,      \* counts from 0, as in the code
          kickoffEmitted, halfTimeEmitted,
          clockMins, sequence,  \* MatchState
          pc,               \* the engine: new, refused, ticking, sending, ending, closed
          out,              \* the event that the engine is sending
          done,             \* NextEvent reported the end along with out
          cancelled,        \* the match's context is cancelled
          received          \* the events that the Runner has taken

sportVars == <<schedule, scheduleIdx, kickoffEmitted, halfTimeEmitted>>
footballVars == <<files, template, sportVars, clockMins, sequence, pc, out, done,
                  cancelled, received>>

NoMinute == -1
Teams == {"home", "away"}

\* A DomainEvent; the engine fills in the number.
Ev(type, team, minute) == [type |-> type, team |-> team, minute |-> minute, sequence |-> 0]
NoEvent == Ev("none", "none", NoMinute)

\* A schedule's entry: an event, and the minute it waits for.
Entry(event, minute) == [event |-> event, due |-> minute]

-----------------------------------------------------------------------------
(* template.LoadAll. *)

Ranges == {"homeGoals", "awayGoals", "yellowCards", "redCards"}

Default == [name |-> "", kind |-> "random", events |-> <<>>]

\* Faulty variant: an empty script is accepted.
ValidThoughEmpty(t) ==
  /\ t.name # ""
  /\ \/ t.kind = "literal"
     \/ t.kind = "bounded" /\ \A r \in Ranges : 0 <= t[r].min /\ t[r].min <= t[r].max

Valid(t) == /\ t.name # ""
            /\ \/ t.kind = "literal" /\ t.events # <<>>
               \/ /\ t.kind = "bounded"
                  /\ \A r \in Ranges : 0 <= t[r].min /\ t[r].min <= t[r].max

\* One bad file and none is loaded.
Loads == \A i \in DOMAIN files : Valid(files[i])

\* The map is keyed by name: a later file replaces an earlier one.
Named(n) == {files[i] : i \in {j \in DOMAIN files :
                 /\ files[j].name = n
                 /\ \A k \in DOMAIN files : files[k].name = n => k <= j}}

-----------------------------------------------------------------------------
(* buildSchedule. *)

\* Faulty variant: the last minute is the match's last.
MinutesToTheEnd == 1 .. FullTime

RandomMinutes == 1 .. FullTime - 1

Count(r) == IF r.max <= r.min THEN {r.min} ELSE r.min .. r.max

\* The ways to draw as many entries as the range r says, of this type, for one
\* of these teams each.
Draws(type, teams, r) ==
  UNION {{[k \in 1 .. n |-> Entry(Ev(type, d[k][1], d[k][2]), d[k][2])] :
            d \in [1 .. n -> teams \X RandomMinutes]} : n \in Count(r)}

Anchor(type, minute) == Entry(Ev(type, "none", NoMinute), minute)

Join(A, B) == {a \o b : a \in A, b \in B}

Bounded(t) ==
  {s \o <<Anchor("half_time", HalfTime), Anchor("full_time", FullTime)>> :
     s \in Join(Join(Draws("goal", {"home"}, t.homeGoals), Draws("goal", {"away"}, t.awayGoals)),
               Join(Draws("yellow", Teams, t.yellowCards), Draws("red", Teams, t.redCards)))}

\* scriptedEventToDomain knows the type of each event.
Scripted(t) == \A i \in DOMAIN t.events :
                 t.events[i].type \in {"goal", "yellow", "red", "half_time", "full_time"}

FromScript(se) ==
  IF se.type \in {"half_time", "full_time"} THEN Anchor(se.type, se.minute)
                                            ELSE Entry(Ev(se.type, se.team, se.minute), se.minute)

Literal(t) == {[i \in DOMAIN t.events |-> FromScript(t.events[i])]}

\* The unsorted schedules that a template may give rise to; none is an error.
Drawn(t) == IF t.kind = "bounded" THEN Bounded(t)
            ELSE IF Scripted(t) THEN Literal(t) ELSE {}

Ascending(s) == \A i, j \in DOMAIN s : i < j => s[i].due <= s[j].due

Shuffles(D) == {p \in [D -> D] : \A i, j \in D : p[i] = p[j] => i = j}

\* sort.Slice by minute: any arrangement in which the minutes ascend.
Sorted(s) == {a \in {[i \in DOMAIN s |-> s[p[i]]] : p \in Shuffles(DOMAIN s)} : Ascending(a)}

-----------------------------------------------------------------------------
(* Manager.buildSport: the default mode, a template, or an error. *)

FootballInit == /\ files \in Directories
                /\ template = Default
                /\ schedule = <<>> /\ scheduleIdx = 0
                /\ kickoffEmitted = FALSE /\ halfTimeEmitted = FALSE
                /\ clockMins = 0 /\ sequence = 0
                /\ pc = "new"
                /\ out = NoEvent /\ done = FALSE
                /\ cancelled = FALSE
                /\ received = <<>>

engineVars == <<clockMins, sequence, out, done, cancelled, received>>

New == /\ pc = "new" /\ "" \in TemplateNames
       /\ pc' = "ticking"
       /\ UNCHANGED <<files, template, sportVars, engineVars>>

NewFromTemplate(n) ==
  /\ pc = "new" /\ n # ""
  /\ Loads
  /\ \E t \in Named(n) : /\ template' = t
                         /\ \E s \in Drawn(t) : schedule' \in Sorted(s)
  /\ pc' = "ticking"
  /\ UNCHANGED <<files, scheduleIdx, kickoffEmitted, halfTimeEmitted, engineVars>>

\* A file that does not load, a name that no file has, an unsupported event.
Refuse(n) == /\ pc = "new" /\ n # ""
             /\ Loads => \A t \in Named(n) : Drawn(t) = {}
             /\ pc' = "refused"
             /\ UNCHANGED <<files, template, sportVars, engineVars>>

-----------------------------------------------------------------------------
(* MatchEngine.Run: a tick advances the clock and the number, whether or not *)
(* NextEvent has an event for it. Each action below is a tick with one case  *)
(* of NextEvent's switch, guarded by the negation of those above it.         *)

Tick == /\ pc = "ticking" /\ clockMins < MaxClock
        /\ clockMins' = clockMins + 1
        /\ sequence' = sequence + 1
        /\ UNCHANGED <<files, template, schedule, cancelled, received>>

\* hasEvent: the engine fills in the number and blocks on its channel.
Send(e, over) == /\ out' = [e EXCEPT !.sequence = sequence']
                 /\ done' = over
                 /\ pc' = "sending"

Quiet(over) == /\ pc' = IF over THEN "ending" ELSE "ticking"
               /\ UNCHANGED <<out, done>>

Kickoff == /\ ~ kickoffEmitted
           /\ Tick
           /\ kickoffEmitted' = TRUE
           /\ Send(Ev("kickoff", "none", NoMinute), FALSE)
           /\ UNCHANGED <<scheduleIdx, halfTimeEmitted>>

Scheduled == kickoffEmitted /\ schedule # <<>> /\ UNCHANGED <<kickoffEmitted, halfTimeEmitted>>

\* Faulty variant: the match goes on when its schedule is exhausted.
ExhaustedButOn == /\ Scheduled /\ scheduleIdx >= Len(schedule)
                  /\ Tick
                  /\ Quiet(FALSE)
                  /\ UNCHANGED scheduleIdx

Exhausted == /\ Scheduled /\ scheduleIdx >= Len(schedule)
             /\ Tick
             /\ Quiet(TRUE)
             /\ UNCHANGED scheduleIdx

HoldBack == /\ Scheduled /\ scheduleIdx < Len(schedule)
            /\ Tick
            /\ clockMins' < schedule[scheduleIdx + 1].due
            /\ Quiet(FALSE)
            /\ UNCHANGED scheduleIdx

\* Faulty variant: full_time does not end the match.
PlayThrough == /\ Scheduled /\ scheduleIdx < Len(schedule)
               /\ Tick
               /\ clockMins' >= schedule[scheduleIdx + 1].due
               /\ scheduleIdx' = scheduleIdx + 1
               /\ Send(schedule[scheduleIdx + 1].event, FALSE)

\* Faulty variant: of the entries that are due, only the last is played.
PlayLatest == /\ Scheduled /\ scheduleIdx < Len(schedule)
              /\ Tick
              /\ clockMins' >= schedule[scheduleIdx + 1].due
              /\ scheduleIdx' = Cardinality({i \in DOMAIN schedule : schedule[i].due <= clockMins'})
              /\ Send(schedule[scheduleIdx'].event,
                      schedule[scheduleIdx'].event.type = "full_time")

PlayEntry == /\ Scheduled /\ scheduleIdx < Len(schedule)
             /\ Tick
             /\ clockMins' >= schedule[scheduleIdx + 1].due
             /\ scheduleIdx' = scheduleIdx + 1
             /\ Send(schedule[scheduleIdx + 1].event,
                     schedule[scheduleIdx + 1].event.type = "full_time")

Random == kickoffEmitted /\ schedule = <<>> /\ UNCHANGED <<scheduleIdx, kickoffEmitted>>

HalfTimeDue == clockMins' = HalfTime /\ ~ halfTimeEmitted

RandomHalfTime == /\ Random
                  /\ Tick
                  /\ HalfTimeDue
                  /\ halfTimeEmitted' = TRUE
                  /\ Send(Ev("half_time", "none", NoMinute), FALSE)

RandomFullTime == /\ Random
                  /\ Tick
                  /\ ~ HalfTimeDue /\ clockMins' >= FullTime
                  /\ UNCHANGED halfTimeEmitted
                  /\ Send(Ev("full_time", "none", NoMinute), TRUE)

\* The dice: an odds_update, a goal, a card of no colour, or nothing.
RandomEvent == /\ Random
               /\ Tick
               /\ ~ HalfTimeDue /\ clockMins' < FullTime
               /\ UNCHANGED halfTimeEmitted
               /\ \/ Quiet(FALSE)
                  \/ Send(Ev("odds_update", "none", NoMinute), FALSE)
                  \/ \E type \in {"goal", "card"}, team \in Teams :
                       Send(Ev(type, team, clockMins'), FALSE)

-----------------------------------------------------------------------------

\* The Runner takes the event.
Receive == /\ pc = "sending"
           /\ received' = Append(received, out)
           /\ pc' = IF done THEN "ending" ELSE "ticking"
           /\ out' = NoEvent
           /\ UNCHANGED <<files, template, sportVars, clockMins, sequence, done, cancelled>>

\* Stop, or the service's shutdown, at any time.
Cancel == /\ pc \in {"ticking", "sending"} /\ ~ cancelled
          /\ cancelled' = TRUE
          /\ UNCHANGED <<files, template, sportVars, clockMins, sequence, pc, out, done, received>>

\* The select sees ctx.Done; it may prefer a tick that is there as well.
SeeCancelled == /\ pc = "ticking" /\ cancelled
                /\ pc' = "ending"
                /\ UNCHANGED <<files, template, sportVars, engineVars>>

\* The deferred calls of the goroutine: the ticker stops, the channel closes.
CloseOut == /\ pc = "ending"
            /\ pc' = "closed"
            /\ UNCHANGED <<files, template, sportVars, engineVars>>

NextEvent == \/ Kickoff \/ Exhausted \/ HoldBack \/ PlayEntry
             \/ RandomHalfTime \/ RandomFullTime \/ RandomEvent

FootballNext == \/ New
                \/ \E n \in TemplateNames : NewFromTemplate(n) \/ Refuse(n)
                \/ NextEvent \/ Receive \/ Cancel \/ SeeCancelled \/ CloseOut

FootballSpec == FootballInit /\ [][FootballNext]_footballVars

\* The ticker ticks, and the Runner comes back for the next event: it submits
\* each with a timeout. Nobody has to cancel; a tick may always win the select.
FairFootballSpec == FootballSpec /\ WF_footballVars(NextEvent) /\ WF_footballVars(Receive)
                                 /\ WF_footballVars(CloseOut)

-----------------------------------------------------------------------------

Event == [type     : {"none", "kickoff", "goal", "card", "yellow", "red", "odds_update",
                      "half_time", "full_time"},
          team     : Teams \cup {"none"},
          minute   : Int,
          sequence : Nat]

FootballTypeOK ==
  /\ schedule \in Seq([event : Event, due : Int]) /\ scheduleIdx \in 0 .. Len(schedule)
  /\ kickoffEmitted \in BOOLEAN /\ halfTimeEmitted \in BOOLEAN
  /\ clockMins \in Nat /\ sequence \in Nat
  /\ pc \in {"new", "refused", "ticking", "sending", "ending", "closed"}
  /\ out \in Event /\ done \in BOOLEAN /\ cancelled \in BOOLEAN
  /\ received \in Seq(Event)

\* The events of the match, as its consumer sees them.
Feed == INSTANCE MatchFeed WITH sent <- received, closed <- (pc = "closed")

\* Whatever mode or template plays a match, its consumer sees a feed: the
\* kickoff first and numbered 1, ascending numbers, nothing after full_time, and
\* payload minutes that neither go back nor run ahead of the clock, although
\* scripts come unsorted, entries share minutes and are played one a tick.
ImplementsFeed == Feed!FeedSpec

Numbered(type, team) ==
  Cardinality({i \in DOMAIN received : received[i].type = type /\ received[i].team \in team})

Within(n, r) == r.min <= n /\ n <= r.max

\* "exact or ranged goal/card counts ... kickoff/half_time/full_time always
\* happen regardless" (README of the service): a bounded template played to its
\* end has kept its promise, however its minutes collide.
BoundedKept ==
  pc = "closed" /\ template.kind = "bounded" /\ ~ cancelled =>
    /\ Within(Numbered("goal", {"home"}), template.homeGoals)
    /\ Within(Numbered("goal", {"away"}), template.awayGoals)
    /\ Within(Numbered("yellow", Teams), template.yellowCards)
    /\ Within(Numbered("red", Teams), template.redCards)
    /\ Numbered("half_time", {"none"}) = 1 /\ Numbered("full_time", {"none"}) = 1

\* The i-th event of a match by template is the kickoff, or the entry before the
\* i-th, and not earlier than its minute.
Plays(e, i) ==
  IF i = 1 THEN e.type = "kickoff"
  ELSE /\ i - 1 \in DOMAIN schedule
       /\ e.type = schedule[i - 1].event.type /\ e.team = schedule[i - 1].event.team
       /\ e.minute = schedule[i - 1].event.minute
       /\ schedule[i - 1].due <= e.sequence

EndsWithFullTime == received # <<>> /\ received[Len(received)].type = "full_time"

\* A match asked for by template is played by it, and never by the dice of the
\* default mode, which the nil schedule of an empty script would mean. Its consumer
\* gets what the template says, in the order of its minutes, none left out, twice or
\* too early, although entries that share a minute are played one a tick; and all
\* of it, up to a full_time, unless the match is cancelled.
TemplateIsFollowed ==
  pc \notin {"new", "refused"} /\ template # Default =>
    /\ schedule # <<>> /\ \E s \in Drawn(template) : schedule \in Sorted(s)
    /\ \A i \in DOMAIN received : Plays(received[i], i)
    /\ pc = "closed" /\ ~ cancelled => \/ Len(received) = Len(schedule) + 1
                                      \/ EndsWithFullTime

\* In every state.
FootballInv == FootballTypeOK /\ TemplateIsFollowed

\* Every match that starts comes to an end, so the Runner's loop does, and the
\* Manager can count on onComplete.
MatchEnds == pc = "ticking" ~> pc = "closed"

=============================================================================
