----------------------------- MODULE Submission -----------------------------
(***************************************************************************)
(* How the events of simulated matches get to the tables: each match's     *)
(* Runner (feed-simulator's internal/simulator/runner.go) encodes an event *)
(* for one of two providers in turn and POSTs it (submitter.go) to         *)
(* ingestion-service, whose handler decodes it, publishes it on Redis and  *)
(* answers (internal/api, internal/eventbus); match-service records it.    *)
(*                                                                         *)
(* The Runner waits for the answer, but not longer than the client's       *)
(* timeout, and only logs an error, unless its match was cancelled; the    *)
(* request it has given up may still be served later. The simulator may be *)
(* killed and started again: its match ids then start again from the       *)
(* first. A match's events are one of Scripts, which are feeds as MatchFeed*)
(* has them. Timestamps are left out.                                      *)
(***************************************************************************)
EXTENDS MatchLog, Sequences

CONSTANTS Scripts,   \* the sequences of events that a match may consist of
          MaxLives,  \* bound: how often the simulator is started
          MaxBus     \* bound: messages published

ASSUME SubmissionAssumption ==
  /\ Scripts \in [Matches -> SUBSET Seq(Events)]
  /\ \A m \in Matches : \A s \in Scripts[m] : \A i, j \in DOMAIN s :
       /\ s[i].match = m /\ s[i].sequence > 0
       /\ i < j => s[i].sequence < s[j].sequence
  /\ MaxLives \in Nat \ {0} /\ MaxBus \in Nat

VARIABLES life,          \* how often the simulator has been started
          script,        \* per match: its events, in the order of the engine's channel
          emittedCount,  \* per match: how many of them its Runner has taken
          runner,        \* per match: ranging, submitting, over
          cancelled,     \* per match: its context is cancelled
          requests,      \* the POSTs that are not answered yet
          bus,           \* what Redis has passed on, in order
          handled,       \* how much of it match-service has handled
          told,          \* history: the events that Runners took, with their life
          lost           \* history: those that may not get to the tables, with the cause

runVars == <<life, script, emittedCount, runner, cancelled>>
submissionVars == <<logVars, runVars, requests, bus, handled, told, lost>>

SubmissionInit == /\ LogInit
                  /\ life = 1
                  /\ script \in {f \in [Matches -> UNION {Scripts[m] : m \in Matches}] :
                                   \A m \in Matches : f[m] \in Scripts[m]}
                  /\ emittedCount = [m \in Matches |-> 0]
                  /\ runner = [m \in Matches |-> "ranging"]
                  /\ cancelled = [m \in Matches |-> FALSE]
                  /\ requests = {} /\ bus = <<>> /\ handled = 0
                  /\ told = {} /\ lost = {}

\* An event and the life of the simulator that it belongs to.
Tale(e) == [event |-> e, life |-> life]

\* What keeps an event from the tables. Runner.Run logs the error of Submit, unless
\* it is context.Canceled, and a worker that of store.Apply; nobody logs the others:
\* the match was cancelled or its simulator killed during the submission, or no
\* match-service lived to record what Redis had passed on.
Logged == {"submit event failed", "apply failed"}
Silent == {"cancelled", "killed", "missed"}

Loses(t, cause) == lost' = lost \cup {<<t, cause>>}

LostBy(t, causes) == \E cause \in causes : <<t, cause>> \in lost

-----------------------------------------------------------------------------
(* The two wire formats (providers.go) and the handlers' inputs (api.go),   *)
(* which declare the same field names. JSON keeps what they carry.          *)

Payload(e) == [team |-> e.team, minute |-> e.minute, teams |-> e.teams]

EncodeProviderA(e) ==
  [data |-> [mid |-> e.match, seq |-> e.sequence, typ |-> e.type, pl |-> Payload(e)]]

EncodeProviderB(e) ==
  [match_id |-> e.match, sequence |-> e.sequence, event_type |-> e.type, details |-> Payload(e)]

Input(match, sequence, type, payload) ==
  [match |-> match, sequence |-> sequence, type |-> type,
   team |-> payload.team, minute |-> payload.minute, teams |-> payload.teams]

DecodeA(w) == Input(w.data.mid, w.data.seq, w.data.typ, w.data.pl)

DecodeB(w) == Input(w.match_id, w.sequence, w.event_type, w.details)

Routes == <<"/events/provider-a", "/events/provider-b">>

RouteOf(m) == Routes[(emittedCount[m] % Len(Routes)) + 1]

Encode(route, e) == IF route = Routes[1] THEN EncodeProviderA(e) ELSE EncodeProviderB(e)
Decode(route, w) == IF route = Routes[1] THEN DecodeA(w) ELSE DecodeB(w)

-----------------------------------------------------------------------------
(* Runner.Run and HTTPSubmitter.Submit. *)

Upcoming(m) == script[m][emittedCount[m] + 1]

Request(m, awaited) ==
  [match |-> m, route |-> RouteOf(m), wire |-> Encode(RouteOf(m), Upcoming(m)),
   tale |-> Tale(Upcoming(m)), at |-> "sent", awaited |-> awaited]

Ranging(m) == runner[m] = "ranging" /\ emittedCount[m] < Len(script[m])

\* The next event of the channel.
Takes(m) == /\ emittedCount' = [emittedCount EXCEPT ![m] = @ + 1]
            /\ told' = told \cup {Tale(Upcoming(m))}

\* Faulty variant: it does not wait for the answer.
SubmitAndGoOn(m) == /\ Ranging(m) /\ ~ cancelled[m]
                    /\ Takes(m)
                    /\ requests' = requests \cup {Request(m, FALSE)}
                    /\ UNCHANGED <<logVars, life, script, runner, cancelled, bus, handled, lost>>

Submit(m) == /\ Ranging(m) /\ ~ cancelled[m]
             /\ Takes(m)
             /\ requests' = requests \cup {Request(m, TRUE)}
             /\ runner' = [runner EXCEPT ![m] = "submitting"]
             /\ UNCHANGED <<logVars, life, script, cancelled, bus, handled, lost>>

\* With a cancelled context nothing is sent, and nothing logged.
SubmitCancelled(m) == /\ Ranging(m) /\ cancelled[m]
                      /\ Takes(m)
                      /\ Loses(Tale(Upcoming(m)), "cancelled")
                      /\ UNCHANGED <<logVars, life, script, runner, cancelled, requests, bus, handled>>

\* The channel is closed: the match is over, or its context is cancelled.
RangeEnds(m) == /\ runner[m] = "ranging"
                /\ emittedCount[m] = Len(script[m]) \/ cancelled[m]
                /\ runner' = [runner EXCEPT ![m] = "over"]
                /\ UNCHANGED <<logVars, life, script, emittedCount, cancelled, requests, bus,
                               handled, told, lost>>

\* Submit returns without an answer; the request stays where it is.
GivesUp(m, r, cause) == /\ r.match = m /\ r.awaited
                        /\ requests' = (requests \ {r}) \cup {[r EXCEPT !.awaited = FALSE]}
                        /\ runner' = [runner EXCEPT ![m] = "ranging"]
                        /\ Loses(r.tale, cause)

\* Faulty variant: the client has no timeout.
NoTimeOut(m) == FALSE /\ UNCHANGED submissionVars

\* submitTimeout has passed: an error that is logged.
TimeOut(m) == /\ \E r \in requests : GivesUp(m, r, "submit event failed")
              /\ UNCHANGED <<logVars, life, script, emittedCount, cancelled, bus, handled, told>>

\* Stop, or the shutdown of the service: Submit returns context.Canceled.
Cancel(m) == /\ runner[m] # "over" /\ ~ cancelled[m]
             /\ cancelled' = [cancelled EXCEPT ![m] = TRUE]
             /\ IF runner[m] = "submitting"
                THEN \E r \in requests : GivesUp(m, r, "cancelled")
                ELSE UNCHANGED <<requests, runner, lost>>
             /\ UNCHANGED <<logVars, life, script, emittedCount, bus, handled, told>>

-----------------------------------------------------------------------------
(* The handlers of ingestion-service. *)

Publish(r) == /\ r.at = "sent" /\ Len(bus) < MaxBus
              /\ bus' = Append(bus, [event |-> Decode(r.route, r.wire), life |-> r.tale.life])
              /\ requests' = (requests \ {r}) \cup {[r EXCEPT !.at = "published"]}
              /\ UNCHANGED <<logVars, runVars, handled, told, lost>>

\* The Redis client does not see the reply to its PUBLISH, and repeats it.
PublishAgain(r) == /\ r.at = "published" /\ Len(bus) < MaxBus
                   /\ bus' = Append(bus, [event |-> Decode(r.route, r.wire), life |-> r.tale.life])
                   /\ requests' = (requests \ {r}) \cup {[r EXCEPT !.at = "repeated"]}
                   /\ UNCHANGED <<logVars, runVars, handled, told, lost>>

\* The request is over; a Runner that waits for it goes on.
Answered(r) == /\ requests' = requests \ {r}
               /\ runner' = IF r.awaited THEN [runner EXCEPT ![r.match] = "ranging"] ELSE runner
               /\ UNCHANGED <<logVars, life, script, emittedCount, cancelled, bus, handled, told>>

\* "accepted".
Accept(r) == /\ r.at # "sent"
             /\ Answered(r)
             /\ UNCHANGED lost

\* Faulty variant: Submit does not look at the status.
FailUnnoticed(r) == /\ Answered(r)
                    /\ UNCHANGED lost

\* The publication failed, or its reply did not arrive, or ingestion-service is
\* not there: an error, before or after the event is out, which only a Runner that
\* still waits for the answer logs.
Fail(r) == /\ Answered(r)
           /\ IF r.awaited THEN Loses(r.tale, "submit event failed") ELSE UNCHANGED lost

-----------------------------------------------------------------------------

\* match-service: Route drops odds updates, Apply records or drops as stale.
Apply == /\ handled < Len(bus)
         /\ handled' = handled + 1
         /\ LET e == bus[handled + 1].event
            IN  IF e.type = "odds_update" \/ IsStale(e) THEN UNCHANGED logVars ELSE Record(e)
         /\ UNCHANGED <<runVars, requests, bus, told, lost>>

\* store.Apply returns an error, which its worker logs.
ApplyFails == /\ handled < Len(bus)
              /\ handled' = handled + 1
              /\ bus[handled + 1].event.type # "odds_update"
              /\ Loses(bus[handled + 1], "apply failed")
              /\ UNCHANGED <<logVars, runVars, requests, bus, told>>

\* match-service is not subscribed, or is killed before it has recorded the event.
\* Redis counts receivers but refuses nothing: whoever published it was answered
\* "accepted" all the same.
Miss == /\ handled < Len(bus)
        /\ handled' = handled + 1
        /\ Loses(bus[handled + 1], "missed")
        /\ UNCHANGED <<logVars, runVars, requests, bus, told>>

\* The simulator is killed and started again: its first match is match-1 again.
Restart == /\ life < MaxLives
           /\ life' = life + 1
           /\ \E f \in [Matches -> UNION {Scripts[m] : m \in Matches}] :
                (\A m \in Matches : f[m] \in Scripts[m]) /\ script' = f
           /\ emittedCount' = [m \in Matches |-> 0]
           /\ runner' = [m \in Matches |-> "ranging"]
           /\ cancelled' = [m \in Matches |-> FALSE]
           /\ requests' = {[r EXCEPT !.awaited = FALSE] : r \in requests}
           /\ lost' = lost \cup {<<r.tale, "killed">> : r \in {q \in requests : q.awaited}}
           /\ UNCHANGED <<logVars, bus, handled, told>>

RunnerStep(m) == Submit(m) \/ SubmitCancelled(m) \/ RangeEnds(m)
Handle(r) == Publish(r) \/ PublishAgain(r) \/ Accept(r) \/ Fail(r)

SubmissionNext == \/ \E m \in Matches : RunnerStep(m) \/ TimeOut(m) \/ Cancel(m)
                  \/ \E r \in requests : Handle(r)
                  \/ Apply \/ ApplyFails \/ Miss \/ Restart

SubmissionSpec == SubmissionInit /\ [][SubmissionNext]_submissionVars

\* The engine delivers its events, and the client's timer fires. Nothing is
\* assumed of ingestion-service or of Redis.
FairSubmissionSpec ==
  SubmissionSpec /\ \A m \in Matches : /\ WF_submissionVars(RunnerStep(m))
                                       /\ WF_submissionVars(TimeOut(m))

-----------------------------------------------------------------------------

Tales == [event : Events, life : 1 .. MaxLives]

\* A Runner waits for exactly one request, or for none.
SubmissionTypeOK ==
  /\ LogTypeOK
  /\ life \in 1 .. MaxLives
  /\ \A m \in Matches :
       /\ script[m] \in Scripts[m] /\ emittedCount[m] \in 0 .. Len(script[m])
       /\ runner[m] \in {"ranging", "submitting", "over"} /\ cancelled[m] \in BOOLEAN
       /\ Cardinality({r \in requests : r.match = m /\ r.awaited})
            = IF runner[m] = "submitting" THEN 1 ELSE 0
  /\ \A r \in requests : r.at \in {"sent", "published", "repeated"} /\ r.tale \in Tales
  /\ bus \in Seq(Tales) /\ handled \in 0 .. Len(bus)
  /\ told \subseteq Tales /\ lost \subseteq Tales \X (Logged \cup Silent)

\* Nothing is made up on the way, over either provider: what is published, and
\* so what is recorded, is an event that a Runner took, to its last field.
StoryIsTrue ==
  /\ \A i \in DOMAIN bus : bus[i] \in told
  /\ \A m \in Matches : \A e \in timeline[m] : \E t \in told : t.event = e

\* A Runner submits one event at a time: an event is published after a later one of
\* its match and life only if its submission timed out, and that was logged. One given
\* up in silence, with its match or its simulator, may be published late as well, but
\* nothing overtakes it.
OvertakenTimedOut ==
  \A i, j \in DOMAIN bus :
    /\ i < j /\ bus[i].life = bus[j].life
    /\ bus[i].event.match = bus[j].event.match
    /\ bus[i].event.sequence > bus[j].event.sequence
    => LostBy(bus[j], {"submit event failed"})

\* Whatever fails, is late or comes twice, in every state.
SubmissionInv == SubmissionTypeOK /\ StoryIsTrue /\ OvertakenTimedOut

\* A match of another life, with the same id, has been recorded up to this number.
Hidden(t) == \E u \in told : /\ u.life # t.life
                             /\ u.event.match = t.event.match
                             /\ u.event.sequence >= t.event.sequence
                             /\ u.event \in timeline[t.event.match]

\* Where every event is that a Runner took, once match-service has handled what was
\* published: recorded; an odds update, which is not; at ingestion-service, before it
\* is published; reported by an error; lost in one of the three silent ways; or
\* dropped because a match of another life has used its number. It never disappears
\* in any other way.
StoryIsComplete ==
  handled = Len(bus) =>
    \A t \in told : \/ t.event \in timeline[t.event.match]
                    \/ t.event.type = "odds_update"
                    \/ \E r \in requests : r.tale = t /\ r.at = "sent"
                    \/ LostBy(t, Logged)
                    \/ LostBy(t, Silent)
                    \/ Hidden(t)

\* A match is played to its end whatever becomes of ingestion-service: a Runner
\* never waits for ever, so neither does the Manager for its completion.
PlayedOut == \A m \in Matches : []<>(runner[m] = "over")

=============================================================================
