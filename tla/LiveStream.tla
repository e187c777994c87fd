----------------------------- MODULE LiveStream -----------------------------
(***************************************************************************)
(* What a page of the frontend sees of the matches it follows: the events  *)
(* published on Redis reach match-service, which records them, and the     *)
(* gateway, which relays them, each in order and at its own pace. A page   *)
(* connects to GET /events (gateway-service's sse.go): the gateway         *)
(* registers it, reads a snapshot from match-service over gRPC, and writes *)
(* the snapshot and then the relayed events as frames. The page's reducer  *)
(* (lib/gateway/reduce.ts) is here too; LiveMatchDetail and LiveMatchList  *)
(* add what each page does with a frame.                                   *)
(*                                                                         *)
(* One page is modelled. That a registered client gets every message in    *)
(* order unless its buffer is full is what Gateway shows of the registry;  *)
(* MatchPipeline shows that match-service applies a match's events in the  *)
(* order of publication.                                                   *)
(***************************************************************************)
EXTENDS MatchLog, Sequences

CONSTANTS MaxPublished,  \* bound: events published
          MaxConnects    \* bound: connections of the page

ASSUME StreamAssumption == MaxPublished \in Nat /\ MaxConnects \in Nat

VARIABLES bus,       \* the events published, in order
          applied,   \* how many of them match-service has handled
          relayed,   \* how many of them the gateway has handled
          conn,      \* closed, registered, streaming, or refused for good
          connects,  \* connections made so far
          frames,    \* on their way to the page
          from,      \* history: how many events had been relayed at Register, until
                     \* the snapshot is read
          aligned,   \* history: match-service had handled exactly these when the
                     \* snapshot was read
          intact     \* history: nothing was lost since Register

connVars == <<conn, connects, frames, from, aligned, intact>>
streamVars == <<logVars, bus, applied, relayed, connVars>>

StreamInit == /\ LogInit
              /\ bus = <<>> /\ applied = 0 /\ relayed = 0
              /\ conn = "closed" /\ connects = 0 /\ frames = <<>>
              /\ from = 0 /\ aligned = FALSE /\ intact = FALSE

-----------------------------------------------------------------------------
(* The shape of a match in an answer: query.go's MatchRecord, toProtoMatch, *)
(* resolver.Match. It leaves out last_sequence.                             *)

Body(row) == [status |-> row.status, homeScore |-> row.homeScore, awayScore |-> row.awayScore,
              clockMins |-> row.clockMins, teams |-> row.teams]

PageBody == [status : Statuses, homeScore : Nat, awayScore : Nat, clockMins : Nat,
             teams : TeamNames \cup {NoTeams}]

\* reduce.ts: RULES and reduce. A score event adds to the side that the payload
\* names, and its minute, if it is a number, becomes the clock.
StatusRules == [kickoff |-> "live", half_time |-> "half_time", full_time |-> "full_time"]

PageReduce(body, e) ==
  CASE e.type \in DOMAIN StatusRules -> [body EXCEPT !.status = StatusRules[e.type]]
    [] e.type = "goal" ->
         [body EXCEPT !.homeScore = IF e.team = "home" THEN @ + 1 ELSE @,
                      !.awayScore = IF e.team = "away" THEN @ + 1 ELSE @,
                      !.clockMins = IF e.minute # NoMinute THEN e.minute ELSE @]
    [] OTHER -> body

\* ListMatches, or GetMatch for a page of one match. `followed' are the matches that
\* the page's connection is for.
Answer(followed) == [m \in followed |-> IF rows[m] = NoRow THEN NoRow ELSE Body(rows[m])]

Snapshot(answer) == [kind |-> "snapshot", body |-> answer]
Update(e) == [kind |-> "update", body |-> e]

-----------------------------------------------------------------------------

Publish(e) == /\ Len(bus) < MaxPublished
              /\ bus' = Append(bus, e)
              /\ UNCHANGED <<logVars, applied, relayed, connVars>>

\* match-service handles the next event: Route drops odds updates, Apply drops
\* stale events and records the others.
Apply == /\ applied < Len(bus)
         /\ applied' = applied + 1
         /\ LET e == bus[applied + 1]
            IN  IF e.type = "odds_update" \/ IsStale(e) THEN UNCHANGED logVars ELSE Record(e)
         /\ UNCHANGED <<bus, relayed, connVars>>

\* It fails to: Apply's error is logged, or the process was down.
Miss == /\ applied < Len(bus)
        /\ applied' = applied + 1
        /\ intact' = FALSE
        /\ UNCHANGED <<logVars, bus, relayed, conn, connects, frames, from, aligned>>

Connected == conn \in {"registered", "streaming"}

\* The gateway broadcasts the next event.
Relay(followed) == /\ relayed < Len(bus)
                   /\ relayed' = relayed + 1
                   /\ LET e == bus[relayed + 1]
                      IN  frames' = IF Connected /\ e.match \in followed THEN Append(frames, Update(e))
                                                                         ELSE frames
                   /\ UNCHANGED <<logVars, bus, applied, conn, connects, from, aligned, intact>>

\* The page's buffer is full, or the gateway was not subscribed at the time.
Drop == /\ relayed < Len(bus)
        /\ relayed' = relayed + 1
        /\ intact' = FALSE
        /\ UNCHANGED <<logVars, bus, applied, conn, connects, frames, from, aligned>>

-----------------------------------------------------------------------------
(* The handler of GET /events. *)

\* EventSource connects, or connects again, and the handler registers it. What
\* it will be relayed starts here.
Register == /\ conn = "closed" /\ connects < MaxConnects
            /\ conn' = "registered"
            /\ connects' = connects + 1
            /\ frames' = <<>>
            /\ from' = relayed /\ aligned' = FALSE /\ intact' = TRUE
            /\ UNCHANGED <<logVars, bus, applied, relayed>>

\* Faulty variant: the snapshot waits behind what was relayed meanwhile.
SnapshotLast(followed) == /\ conn = "registered"
                          /\ conn' = "streaming"
                          /\ frames' = Append(frames, Snapshot(Answer(followed)))
                          /\ aligned' = (applied = from) /\ from' = 0
                          /\ UNCHANGED <<logVars, bus, applied, relayed, connects, intact>>

\* Faulty variant: it is written together with the first update.
SnapshotWaits(followed) == /\ conn = "registered" /\ frames # <<>>
                           /\ conn' = "streaming"
                           /\ frames' = <<Snapshot(Answer(followed))>> \o frames
                           /\ aligned' = (applied = from) /\ from' = 0
                           /\ UNCHANGED <<logVars, bus, applied, relayed, connects, intact>>

\* writeSnapshot: it is read after Register, and written before any update.
WriteSnapshot(followed) == /\ conn = "registered"
                           /\ conn' = "streaming"
                           /\ frames' = <<Snapshot(Answer(followed))>> \o frames
                           /\ aligned' = (applied = from) /\ from' = 0
                           /\ UNCHANGED <<logVars, bus, applied, relayed, connects, intact>>

\* The connection is no more, with the frames in it.
Over(how) == /\ conn' = how
             /\ frames' = <<>>
             /\ from' = 0 /\ aligned' = FALSE /\ intact' = FALSE
             /\ UNCHANGED <<logVars, bus, applied, relayed, connects>>

\* The snapshot cannot be had: the answer is an error status, after which an
\* EventSource does not connect again.
Refuse == /\ conn = "registered"
          /\ Over("refused")

\* The connection breaks.
Disconnect == /\ Connected
              /\ Over("closed")

\* The page is handed its next frame; what it does with it is its own.
TakeFrame == /\ conn = "streaming" /\ frames # <<>>
             /\ frames' = Tail(frames)
             /\ UNCHANGED <<logVars, bus, applied, relayed, conn, connects, from, aligned, intact>>

\* Whatever happens outside the page.
Elsewhere(followed) == \/ \E e \in Events : Publish(e)
                       \/ Apply \/ Miss \/ Relay(followed) \/ Drop
                       \/ WriteSnapshot(followed) \/ Refuse \/ Disconnect

\* Nothing is under way between the simulator and the page.
Settled == /\ applied = Len(bus) /\ relayed = Len(bus)
           /\ conn = "streaming" /\ frames = <<>>

\* The events were published in the order of their numbers.
Ascending == \A i, j \in DOMAIN bus :
               i < j /\ bus[i].match = bus[j].match => bus[i].sequence < bus[j].sequence

StreamTypes ==
  /\ LogTypeOK
  /\ bus \in Seq(Events) /\ applied \in 0 .. Len(bus) /\ relayed \in 0 .. Len(bus)
  /\ conn \in {"closed", "registered", "streaming", "refused"}
  /\ connects \in 0 .. MaxConnects /\ from \in 0 .. relayed
  /\ aligned \in BOOLEAN /\ intact \in BOOLEAN
=============================================================================
