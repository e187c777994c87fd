# match-flow: specifications, model checks and proofs

match-flow simulates football matches and carries their events to web pages:
feed-simulator plays matches and POSTs each event to ingestion-service, which
publishes it on one Redis channel; match-service folds the events of a match
into its row in PostgreSQL, and gateway-service and the frontend show it live.
This directory holds TLA+ models of that code, the TLC configurations that
check them on small instances, and TLAPS proofs of the theorems that hold for
every instance. `PROJECT.json` lists the runs, the theorems, and, for each
definition, the source lines it stands for.

    cd tla
    tlc -config MCMatchStore.cfg MCMatchStore      # any run: see "Runs"
    tlapm MatchStoreProofs.tla                     # any *Proofs module

## Inventory

| Component | State it keeps | Operations | What makes it correct |
|---|---|---|---|
| feed-simulator: manager (`manager.go`) | `running`, `auto`, `autoTemplate` under one mutex; one goroutine per match | Start, Stop, Trigger, spawn, onComplete | every match being played can be stopped; the loop survives while it is on, and ends when it is off |
| feed-simulator: templates, schedules, football, engine | the loaded templates; clock, schedule index and sequence of one match | LoadAll, buildSchedule, NextEvent per tick, Run | kickoff first and only once, nothing after full time, numbers ascend, a template's promise is kept, every match ends |
| feed-simulator: runner, submitter, encodings | the number of events emitted | encode, POST, log a failure, give up after the timeout | events are submitted in order, one at a time, and a submission never holds a match for ever |
| ingestion-service | none | decode, normalise, publish, answer | what is published was submitted, and a publication that fails is answered with an error (one that nobody receives is not a failure to Redis) |
| match-service: event stream and pool | go-redis's channel, one channel per worker | Run, Route, Send, Close | per match: nothing lost, duplicated or overtaken; a shutdown drains |
| match-service: store | tables `matches`, `match_events` | Apply, GetMatch, ListEvents, ListMatches | the row is what the recorded events imply, at any time, for any reader |
| gateway: registry, SSE | copy-on-write map of clients, a buffer each | Register, unregister, Broadcast, snapshot | no client lost by a race; a client's snapshot and updates fit together |
| frontend: live views | the match shown, `lastSequence`, the timeline | reduce, snapshot, fetch | the page converges to what match-service has |

Interactions: HTTP (simulator to ingestion), Redis pub/sub (ingestion to
match-service and gateway: no acknowledgement, nothing kept), SQL transactions,
gRPC (gateway to match-service), SSE (gateway to page).

The rest of the repository (migrations at start-up, the protobuf definition and
generated code, REST and gRPC conversions, CORS, deployment) is listed with its
reasons in `PROJECT.json` and under "Not modelled".

Hard behaviours: sharded concurrency with back-pressure; transactions of two
processes on one match; duplicate, late and lost events; cancellation and
drain; callbacks that race with HTTP handlers; reads that are not one snapshot;
requests given up but served later; restarts that use ids again; pages that
reconnect between two processes at different paces.
`PROJECT.json` "hazards" lists them by line, those that no property covers yet
included.

## What is modelled

Modules, in the order they build on each other:

* **MatchState**: the registry, `Reduce` and the row, as pure operators.
  `Derived(row, T)` says what a row must show when the events `T` are recorded:
  goals counted, status and clock of the last event that sets them, the names
  of the first event. No code computes this; it is the yardstick.
* **MatchLog**: what `Store.Apply` promises. `Record(e)` folds one event that is
  not stale into its match's row and adds it to the timeline, in one step.
* **MatchStore**: how `Store.Apply` does it: `Begin`, `Load` (the upsert, which
  waits for the row lock), `Skip` (stale: the deferred Rollback), `Update`,
  `InsertEvent`, `Commit`, and `Abort` at any point. Sessions are connections,
  of one process or of two. Each Apply may be given any event at any time, so
  duplicates, replays and reordering are all there. `LogSpec` is checked, and
  proved, as a property of it.
* **MatchQueries**: the match page's reads (`GetMatch`; then `ListEvents`, which
  calls `GetMatch` again) between the steps of MatchLog.
* **MatchPipeline**: one match-service process from Redis to the tables: the
  go-redis reader goroutine, its buffered channel, `Run`'s select and drain,
  `handle`, the pool's channels and workers, the signal, the exit, a kill and a
  restart. One Apply is one step here, as MatchStore justifies.
* **Manager**: feed-simulator's Manager. A critical section is one step, and so
  is what a goroutine does between two of them. An HTTP caller is `idle`,
  `called` (before Start's section), `spawning` (before buildSport),
  `inserting` (has an id, no entry yet) or `cancelling` (calls the cancel
  functions). A match is `reserved`, `live`, `ended` (runner.Run returned),
  `leaving` (onComplete has left its section and holds its decision in `want`).
* **Gateway**: gateway-service's client registry, the subscription that broadcasts
  to it, and the handler of `GET /events`, which goes from `absent` to `gone`.
  Register and unregister are a load and a compare-and-swap each; `current`
  stands for the comparison of pointers. A broadcast loads the map once and then
  offers its message to one client at a time (`todo`), while the map changes
  under it. `written`, `dropped` and `due` are history variables.

* **MatchFeed**: what the consumer of a simulated match may rely on, whatever plays
  it: an abstract specification with two variables, `sent` and `closed`.
* **Football**: how one match is played: the directory of templates and its
  validation (`LoadAll`), the two kinds of schedule or the dice of the default
  mode, `NextEvent` with all its cases, and `MatchEngine.Run`, which numbers the
  events and hands them over. The seeded generator is a free choice. `pc` is where
  the engine stands: `new`, `refused` (no such template, or the directory did not
  load), `ticking`, `sending` (its channel is unbuffered), `ending`, `closed`.
  It implements MatchFeed, checked and proved.
* **Submission**: from the engine's channel to the tables. A Runner takes an event,
  encodes it for one of the two providers in turn, POSTs it and waits for the
  answer or for the timeout; a request it has given up may be served later;
  ingestion-service decodes, publishes, sometimes twice, and answers; match-service
  records. The simulator may be restarted, and its ids start again at 1 (`life`).
  A match's events are one of `Scripts`, any sequences of events. `told` and `lost`
  are history variables: the events that Runners took, and those that something may
  have kept from the tables, each with its cause. Two causes are logged (an error of
  Submit that is not a cancellation, an error of Apply), three are not: the match was
  cancelled during the submission (`runner.go:59`), the simulator was killed, or
  Redis passed the event on and no match-service lived to record it.
* **LiveStream**: what a page sees of all this: events published (`bus`), handled
  by match-service (`applied`) and relayed by the gateway (`relayed`), each in
  order and at its own pace, and the handler of `GET /events` for this page, from
  Register to the snapshot and the updates (`frames`). Losses, refusals and
  reconnections are actions. `from`, `aligned` and `intact` are history variables.
  What Gateway and MatchPipeline show is used here as single steps.
* **LiveMatchDetail** and **LiveMatchList**: the two pages on top of LiveStream: the
  reads of the server, the component's handling of each frame with
  `lastSequence`, and, for the list, the fetches of unknown matches.

The `MC` modules instantiate them. `MatchLogProofs`, `MatchStoreProofs`
(with MatchQueries), `MatchPipelineProofs`, `ManagerProofs`, `GatewayProofs`, `FootballProofs`,
`SubmissionProofs` and `LivePagesProofs` (both pages) hold the theorems. In each module,
a definition commented "Faulty variant" changes one definition the way a bug would; it is
not part of the specification, and the run named with it in `PROJECT.json` "mutants"
refutes a property as soon as it replaces the original.

Abstractions: an event keeps the three payload fields that the code reads; JSON
and wording are left out (a payload that does not parse is `Garbage`); a match's
worker is an arbitrary function of the match, instead of FNV-32a; columns that
nothing reads back are left out. PostgreSQL, Redis and go-redis are external:
PostgreSQL at READ COMMITTED with the row lock of `ON CONFLICT DO UPDATE`; Redis
delivers in order to whoever is connected and keeps nothing; go-redis's reader
closes the channel once the subscription is closed, and drops a message when the
channel stays full. The branch of `Run` for a channel closed without a
cancellation (`run.go:42-45`) is left out: only `sub.Close` closes it, and only
the cancellation calls that before Run returns. In Gateway a message is its number
and its match; the end of the subscription is that no more messages are
broadcast, a malformed message is no step, and what a departed client's channel
still receives is left out, since nobody reads it; what its frames hold is in
LiveStream. The browser's EventSource is external: it connects again after a broken
connection, and not after an answer that is not a success, as its standard says
(gateway-service's README, lines 60-66, expects it to keep trying after a 404).
A minute is an integer, as the simulator sends it; for a fractional one, which only
another client could POST, `reduce.go` would truncate and `reduce.ts` would not.
An HTTP request is served at most once, but may be served after its client has
gone; go-redis may repeat a PUBLISH whose reply is lost.

## Runs

| Run | Instance | What it shows |
|---|---|---|
| store | 2 sessions; match m1 with 6 events (two of the same number, one numbered 0), m2 with one | row and timeline agree in every committed state; no lost update; the UNIQUE constraint is never hit; the transactions implement MatchLog; every Apply returns |
| queries | 2 matches, 9 events of every kind, one page per match | a page's match and timeline belong together although read separately |
| pipeline | 2 matches (3 events and 1) on 2 workers, every buffer of size 1, malformed payloads, failures, signals, kills, one restart | per match: nothing lost, duplicated or overtaken; a graceful exit loses nothing received; no send after close; back-pressure is no deadlock; a cancelled process ends |
| manager | 2 callers, 2 match ids, a template that may fail to build and one that cannot | no orphan, no ghost, the loop never loses its last carrier; Stop and shutdown are final in the end |
| gateway | 3 clients (two of one match, one of all), 2 matches, 3 messages, buffers of size 1 | no client lost or kept by a race; a client misses only what its own full buffer dropped, in order, once; no client holds up another; those who leave do leave |
| football | 10 directories of templates, good and bad; a clock of 14 ticks with half time at 3 and full time at 5 | every match is a feed; a match by template is played entry for entry, none left out, repeated or too early, and never by the dice; a bounded template keeps its counts; every match ends |
| submission | one match of up to two events with three scripts, two lives of the simulator, 2 messages on the bus | nothing is made up or altered on the way; an event is overtaken only after a timeout that was logged; one that is missing was logged, or lost in one of the three silent ways, or hidden under a number that another life has used; every Runner gets through |
| match_page | one match with 5 events (two share a number), 3 published in any order, 2 connections | the timeline ascends, repeats and invents nothing; the score is right after a quiet connect; the page catches up |
| match_list | two matches with 3 events in all, one of them missed its beginning, 2 connections | matches do not disturb each other; every fetch ends |
| manager_stop | 1 caller, 3 ids | **violated**: a match is played after Stop |
| manager_start | 1 caller that only calls Start, 3 ids | **violated**: two matches are played |
| match_page_deltas | as match_page | **violated**: a goal is counted twice by the page |

Why the bounds are enough. Two sessions are all a row lock arbitrates between.
The events of m1 contain each pair that Reduce tells apart (stale, equal and
conflicting numbers, both teams, with and without a minute, with and without a
status). Buffers of size 1 fill soonest: three events of one match
leave the first being applied, the second in the channel and Run waiting with the
third, while the other worker goes on. (Several matches on one worker are left to the
proof, which has any number.) One restart lets a process begin with
tables that are not empty; a second would begin the same way. Two callers give
every pair of racing operations, and two ids a match that leaves and one that is
spawned, or two that run; the violations use three. Ids are used again once nothing
refers to them, which keeps the state finite without hiding a race
(`Unreferenced`). Three clients let a swap fail because of another client, and fail
again; with buffers of size 1, three messages fill one, drop one, and deliver one
after the drop. In football the ranges of minutes shrink from 90 to 5, which makes
every collision that the code can have (two entries of one minute, an entry at
half time, one pushed past the end, one before the start) happen with few entries;
MaxClock leaves the dice more ticks than the latest full time needs. Two events are
the least that can overtake each other, and two lives the least in which an id
comes again; two messages are enough for one overtaking another, for one repeated
and for one hidden by another life. A page needs two
connections to reconnect once, and three published events to have one missed, one
in the snapshot and one relayed after it.

Deadlock is checked in the store and the queries; a pipeline may exit, a manager
may have shut down, a gateway may have no clients and no messages left, a match
ends, and publishing is bounded in the others.

The manager's LoopNeverStalls speaks of a loop whose template always builds: with
one that may fail it is false, as the code says (the failure is logged and the
loop ends while `auto` is still on), so what is shown is that the next Start with
a template that builds gets a match going again, whatever the one before it asked
for. A Start that is refused has already replaced the template of the loop
(`manager.go:93`), which is one of the cases that it leaves out.

### Disagreements with the documentation

Found by a run:

* **manager_stop.** `onComplete` reads `auto`, releases the lock, and spawns.
  Stop may run in between: it empties `running`, returns (and the endpoint
  reports 0 running), and then the replacement is inserted and played to its
  end. The comment (`manager.go:104-106`) promises a hard stop of every match.
  What does hold is weaker: StopIsFinal says that this match is not replaced,
  NoOrphan that another Stop would reach it.
* **manager_start.** `running` is empty between a completion and its respawn. A
  Start in that window finds nothing running and spawns too: two matches, and
  each is replaced when it ends, so the loop stays doubled until the next Stop.
  The comment (`manager.go:88-90`) says that calling Start again just changes
  the template.
* **match_page_deltas.** An event may be recorded before the snapshot is read and
  relayed after Register: the page then reduces it into a match that has it already,
  and a goal counts twice until the next snapshot. Nothing in a snapshot tells, as
  it has no last_sequence. (gateway-service's README, lines 56-59, promises a
  snapshot and then each *subsequent* event.) QuietConnectAgrees says when the page
  is right.

Seen while modelling, and no property of their own:

* `football.go:57-60` says that every schedule ends with a full_time entry. A
  script without one ends with its last entry (the service's README, lines 77-79,
  says so too); MatchEnds holds for it nevertheless.
* `schedule.go:12-15` says that a random minute is never half time's own. It is
  drawn from 1 to fullTimeMinute - 1, which contains it. BoundedKept holds
  nevertheless: the entries that collide are played one a tick.
* `persist.go:38-39` says that the event which creates a row is always the
  kickoff. Any first event that arrives creates it; if the kickoff is lost, the
  names stay empty for ever (TeamsAgree, in Derived, says whose names they are).
* `LiveMatchList.tsx:84-87`: an update of an unknown match makes the page fetch
  it. The gateway may relay an event before match-service records it: the fetch is
  then a 404, and the match stays unlisted until its next event. A test's title
  (`LiveMatchList.test.tsx:178`) says that such an update is ignored.
* `LiveMatchList.tsx:93`: the answer to a fetch replaces the match, whatever updates
  were reduced meanwhile. QuietListAgrees leaves out fetched matches, so nothing is
  shown of them until the next snapshot.
* `LiveMatchDetail.tsx:39`: events that were missed while a page was disconnected are
  in its score after the next snapshot, but not in its timeline, which nothing
  refills. No property says otherwise.
* `eventbus.go:37-40`: PUBLISH succeeds without a subscriber, so an event published
  while match-service is down is answered with "accepted", and nobody logs its loss.

## Fairness

* MatchStore: a session's next statement is executed (the workers use a context
  that is never cancelled): WF; a waiter gets the row lock in turn although
  others compete for it, as PostgreSQL queues them: SF on `Load`.
* MatchPipeline: WF for each goroutine. `select` chooses at random between ready
  cases, so the cancellation cannot be passed over for ever: SF on `Cancel`.
  After a signal, `server.Shutdown` makes `ListenAndServe` return. Nothing is
  assumed of Redis, of signals or of the outcome of an Apply.
* Manager: WF for callers and match goroutines; a match ends, as its schedule is
  finite. Nobody is assumed to call or to stop anything.
* Gateway: WF for the subscription's goroutine while it broadcasts, and for a
  handler while it is in Register or unregister. Clients need neither read nor
  disconnect. LeaversLeave depends on there being finitely many clients: a
  compare-and-swap loop may lose for ever against rivals that never end.
* Football: WF for the engine's tick, for the Runner, which comes back for the next
  event because each submission has a timeout, and for the end of the channel.
* Submission: WF for a Runner's step and for the client's timer. Nothing is assumed
  of ingestion-service or of Redis: PlayedOut rests on the timer alone.
* LiveMatchDetail: WF for match-service, for the gateway's subscription, its
  snapshot and the page's connection and handler. Nobody has to publish; failures
  may happen and are bounded (MaxConnects), and CatchesUp excepts a page that has
  used up its connections or was refused.
* LiveMatchList: WF for a fetch: it is answered or fails, and its promise settles.

## Proofs

All are for arbitrary constants: any events, matches, sessions, callers and
templates, under the named assumptions of the modules (`EventsAssumption`: the
events have the type of the code's; `NoRowAssumption`, `NoItemAssumption`,
`ManagerAssumption`: the markers differ from the values they stand beside;
`GatewayAssumption`: a client asks for a match or for all, and buffers hold at
least one message; `DirectoriesAssumption`: a template file holds what
json.Unmarshal lets through, so any counts and any minutes; `SubmissionAssumption`:
a script holds events of its match, numbered upwards from a positive number, which
FootballProofs proves of what the simulator plays; `PipelineAssumption`: every match
has a worker, its feed ascends from a positive number, as a simulated match does, and
buffers hold at least one message; `DetailAssumption`: the page's match is one of them;
`ListAssumption`: what is shown of a match differs from nothing).

* **MatchLogProofs.** The invariant `LogInv` joins `RowMatchesTimeline` with types,
  `OneEventPerSequence` and the finiteness of timelines, which counting goals
  needs. The argument: an event that is not stale has a number above all that are
  recorded (`RecordIsLatest`, from SequenceAgrees), so it is the latest for
  status and clock, adds one to exactly one count (`GoalsGrow`), and leaves the
  first event first (`DerivedFirst`, `DerivedNext`).
* **MatchStoreProofs.** `RowLockExclusive` and `ViewIsCurrent` are inductive
  together: only Commit changes a row, and its session holds that row's lock, so
  no other view of it exists. Then Commit is MatchLog's Record and every other
  step a stutter (`StoreImplementsLog`), and what is proved of the log holds of the
  tables. ConstraintNeverFires follows from ViewIsCurrent and the log's invariant.
  The same module holds MatchQueries' theorem: what a page has seen is a prefix of
  the timeline, and Record only appends, hence PageConsistent.
* **MatchPipelineProofs.** The inductive invariant `PipeInv` has six parts.
  `Stages` orders the life of the process: what has been closed, drained or exited
  by the time Run and main are where they are, so that every message has a place
  (PoolClosedLast). `Sharded`: a worker's channel holds events of its own
  matches only. `InOrderNothingLost`: per match, received is settled, then the
  worker's item, its channel, what Run holds, and msgs. Each step moves one
  event over one of these borders; the lemmas on `Of` (the events of a match in a
  queue, which distributes over concatenation) and `Join` say that the whole does
  not change. `InFeedOrder`: that whole, with what the reader holds, is a
  subsequence of the feed already published, so it ascends. `SettledRecorded`: the
  timeline is what the workers have settled, less what failed. Hence an event being
  applied has a number above all recorded ones (WorkIsNeverStale, which needs the
  feed to ascend: what happens when it does not is Submission's subject), an exit with
  all queues empty has settled all (ShutdownLosesNothing), and every step is
  MatchLog's Record or a stutter (PipelineImplementsLog).
* **ManagerProofs.** NoOrphan and RunningHasNoGhosts are inductive once a caller
  is known to hold cancel functions only while it cancels (`CallersConsistent`).
  LoopIsCarried: a Start that spawns nothing has found a match in running, which
  has not left (RunningHasNoGhosts) and so will respawn; a completion takes over
  the template under the same lock that deletes the match; and a match that leaves
  without a successor was no carrier. Hence LoopNeverStalls.
* **GatewayProofs.** MapIsExact is inductive with `LoadsAreCurrent`: as long as no
  swap has succeeded since a handler's load, what it holds is the registry's map,
  so a swap that succeeds adds or removes its own client only. StreamsAreComplete
  adds StreamComplete to it: what a client has been given ascends, because what is
  still to be offered to it is the event of the Broadcast under way, above all that
  were; and a Broadcast has exactly the registered clients to offer to, by MapIsExact.
* **FootballProofs.** The invariant says of the schedule that an accepted template
  has at least one entry (an empty script does not validate, a bounded one has its
  anchors) and that it is sorted by minute; of the match, that the sequence number
  is the clock, that everything received has a lower number or the same, and that
  no minute named so far exceeds the next entry's (`FeedInv`). Hence each Receive is
  MatchFeed's Deliver, the end of the channel its Close, and all else a stutter
  (MatchesAreFeeds). TemplatesAreFollowed needs to know where each event comes from:
  however many entries are due, a tick sends one, so what has been received is the
  kickoff and the entries up to the index, each when it was due (`PlayedInv`, for a
  schedule that is a sorted draw of the template, `Built`), and an engine that has
  stopped by itself has used them all or sent a full_time. For PromisesAreKept, the
  unsorted schedule of a bounded template has six parts, one after the other, as long
  as was drawn (`Layout`); sorted, it is a permutation of that, and full_time, which
  waits longer than any random minute, is its last entry (`FullTimeIsLast`), so that
  all of it is received. The permutation then takes the events of each kind
  one-to-one onto their part (`CountedThrough`), whose length is a number within the
  range.
* **SubmissionProofs.** Both encodings are inverted by their decoders (`RoundTrip`),
  for any event. The invariant relates the places an event can be in: what Runners
  took in this life is a prefix of the scripts, and two events of a match and life
  have different numbers (`ToldApart`); a request carries an event taken, the last of
  its match as long as its Runner waits, and one given up either timed out, which was
  logged, or is the last that its match or its life submits (`Faithful`, `GivenUp`);
  a Runner waits for exactly one request while it submits (`WaitsForOne`). Hence a
  request published after a later event of its match has timed out, and TheStoryIsTrue
  follows; that the published event is the one taken is RoundTrip.
  EveryLossHasItsCause adds where each event is, of this life or an earlier one
  (`FateInv`, with MatchLog's invariant). The step that matters is an event dropped
  as stale (`StaleIsSettled`): the row is derived from the timeline, so an event
  with a number at least as high is recorded, and it was published. Of another life,
  it hides the one dropped; of the same life with a higher number, it overtook it,
  which therefore timed out; with the same number, it is the same event.
* **LivePagesProofs.** ReducersAgree: reduce.ts and reduce.go compute the same
  from the same row and event, type by type. TimelineIsSound: what is under way to
  the page, what is recorded and what the page shows are events published about its
  match (`Mine`), which only grows; the page's timeline ends with lastSequence, and
  only an update above it is added, so it ascends across every hand-over.
  QuietPagesAgree: the events published unfold the match along a trajectory, from
  the state that the snapshot shows (`Trajectory`, which exists for every start).
  Row and page are two readers of it, either ahead of the other: the row stands where
  match-service has got to (`ApplyFollows`, by ReducersAgree), and what the page shows
  stands where the frames under way begin (`Pending`, `UpdateTaken`). Neither passes over an
  event, because every number that the row or the page compares with belongs to an event
  already behind it (`Behind`) and the numbers ascend. Settled, both are at the end.
  All of this is stated once for a page that follows the matches F, as `CourseInv(F)`,
  `InStep` and `OnCourse`. ListIsSound is the same argument for every match of the list
  at once: one queue of frames is shared by all, so an update of one match moves the
  place of all (`Advances`), and the others, whose trajectories rest meanwhile, stay on
  course. It needs of `lastSequence` that each match has a number of its own, which is
  0 or behind what was relayed (`ListBehind`); and an answer to a fetch, which may be
  older than the updates already reduced, takes its match out of the claim (`fetched`).

Induction over the length of a queue, which some of these need, is done over sets:
`NatInSet` says that a set with 0 and every successor contains all numbers, from the
well-foundedness of < (WFMin), and needs no operator as a parameter.

Only model-checked: the liveness properties (ApplyReturns, ShutdownCompletes,
EverythingSettles, StopIsFinal, ShutdownIsFinal, BroadcastEnds, LeaversLeave,
MatchEnds, PlayedOut, CatchesUp, FetchEnds), which need fairness and ENABLED. Every
invariant and every step property of a passing run is a theorem.

## Not modelled

Migrations and start-up checks: a bounded sequential retry around library calls.
The REST routes of match-service, a second copy of the conversions that its gRPC
server makes, and the status filter of its list. The schema checks of
ingestion-service, which no payload of the simulator fails, and failures of
json.Marshal, which its types exclude. Timestamps, team names drawn at random and
the prices of odds, which nothing reads back. The simulator's HTTP decoding and
`GET /templates`. In the frontend the tabs, the filters, the clock inferred between
events and the connection indicator. CORS, health checks, generated code,
deployment, logging, wording and layout.

## Plan

What the provers can reach of the properties that the runs check is proved. What
could be added are the safety halves of the liveness properties: that whoever waits
for a queue, a lock or an answer always has someone left to provide it, which is what
the progress arguments would start from.
