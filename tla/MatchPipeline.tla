--------------------------- MODULE MatchPipeline ---------------------------
(***************************************************************************)
(* match-service from Redis to the tables: the subscription's reader       *)
(* goroutine (go-redis, external) fills the buffered channel msgs; Run     *)
(* (internal/eventstream/run.go) moves each message to the channel of the  *)
(* worker its match hashes to (eventstream.go); the workers of the pool    *)
(* (internal/matchstate/pool.go) apply their channel's items one by one;   *)
(* main (cmd/match-service/main.go) cancels Run and waits for the drain.   *)
(*                                                                         *)
(* One Apply is one step here (MatchLog's Record, or nothing): MatchStore  *)
(* shows that its transactions amount to that.                             *)
(***************************************************************************)
EXTENDS MatchLog, Sequences, SequencesExt

CONSTANTS Workers,     \* the pool's worker indices
          WorkerIndex, \* the hash of a match id: the worker of each match
          Feed,        \* per match, the events that are published, in order
          MsgsBuffer,  \* capacity of msgs (100 in go-redis)
          ChannelBuffer, \* capacity of a worker's channel (channelBuffer, 32)
          MaxRestarts, \* bound: how often the process may be started again
          NoItem,      \* nothing in hand
          Garbage      \* a payload that is not JSON

Ascending(q) == \A i, j \in 1..Len(q) : i < j => q[i].sequence < q[j].sequence

ASSUME PipelineAssumption ==
  /\ WorkerIndex \in [Matches -> Workers]
  /\ \A m \in Matches : /\ Feed[m] \in Seq({e \in Events : e.match = m})
                        /\ Ascending(Feed[m])
                        /\ \A i \in DOMAIN Feed[m] : Feed[m][i].sequence > 0
  /\ MsgsBuffer \in Nat \ {0} /\ ChannelBuffer \in Nat \ {0} /\ MaxRestarts \in Nat
  /\ NoItem \notin Events /\ Garbage \notin Events /\ NoItem # Garbage

VARIABLES published, \* per match, how much of its feed has been published
          reader,    \* the message the reader goroutine has in hand
          msgs,      \* go-redis's channel to Run
          msgsClosed,
          subOpen,   \* the subscription is open
          run,       \* where Run is: select, draining, closing, returned
          held,      \* the message Run is handling
          chans,     \* per worker, its channel
          chansClosed,
          busy,      \* per worker, the item it applies
          exited,    \* the workers whose goroutine has ended
          ctxDone,   \* the context of main is cancelled
          main,      \* serving, stopping (waits for Run), exited, killed
          restarts,
          received,  \* history: per match, what entered msgs (and is routed)
          settled,   \* history: per match, what a worker has finished with
          failed     \* history: the events whose Apply returned an error

feedVars    == <<published, restarts>>
redisVars   == <<reader, msgs, msgsClosed, subOpen>>
runVars     == <<run, held>>
poolVars    == <<chans, chansClosed, busy, exited>>
mainVars    == <<ctxDone, main>>
historyVars == <<received, settled, failed>>
pipeVars    == <<logVars, feedVars, redisVars, runVars, poolVars, mainVars, historyVars>>

Alive == main \in {"serving", "stopping"}

\* Events that Route sends to a worker: everything but odds_update.
Routed(e) == e # Garbage /\ e.type # "odds_update"

\* Append the item to the history of its match, if it is one that is routed.
Log(history, e) == IF Routed(e) THEN [history EXCEPT ![e.match] = Append(@, e)] ELSE history

PipeInit == /\ LogInit
            /\ reader = NoItem
            /\ msgs = <<>>
            /\ msgsClosed = FALSE
            /\ subOpen = TRUE
            /\ run = "select"
            /\ held = NoItem
            /\ chans = [w \in Workers |-> <<>>]
            /\ chansClosed = FALSE
            /\ busy = [w \in Workers |-> NoItem]
            /\ exited = {}
            /\ ctxDone = FALSE
            /\ main = "serving"
            /\ received = [m \in Matches |-> <<>>]
            /\ settled = [m \in Matches |-> <<>>]
            /\ failed = {}
            /\ published = [m \in Matches |-> 0]
            /\ restarts = 0

-----------------------------------------------------------------------------
(* Redis pub/sub and the reader goroutine of the subscription (external). *)

Publish(m) == /\ published[m] < Len(Feed[m])
              /\ published' = [published EXCEPT ![m] = @ + 1]
              /\ UNCHANGED <<logVars, restarts, msgs, msgsClosed, subOpen, runVars, poolVars,
                             mainVars, historyVars>>

\* The reader goroutine reads what is published while it has a connection.
Deliver(m) == /\ Alive /\ subOpen /\ reader = NoItem
              /\ Publish(m)
              /\ reader' = Feed[m][published[m] + 1]

\* Nobody is subscribed, or the connection is being re-established: Redis
\* keeps nothing.
Miss(m) == Publish(m) /\ UNCHANGED reader

DeliverGarbage == /\ Alive /\ subOpen /\ reader = NoItem
                  /\ reader' = Garbage
                  /\ UNCHANGED <<logVars, feedVars, msgs, msgsClosed, subOpen, runVars, poolVars,
                                 mainVars, historyVars>>

ReaderPut == /\ Alive /\ reader # NoItem
             /\ Len(msgs) < MsgsBuffer
             /\ msgs' = Append(msgs, reader)
             /\ received' = Log(received, reader)
             /\ reader' = NoItem
             /\ UNCHANGED <<logVars, feedVars, msgsClosed, subOpen, runVars, poolVars, mainVars,
                            settled, failed>>

\* msgs has been full for a minute: go-redis drops the message.
ReaderDrop == /\ Alive /\ reader # NoItem
              /\ Len(msgs) = MsgsBuffer
              /\ reader' = NoItem
              /\ UNCHANGED <<logVars, feedVars, msgs, msgsClosed, subOpen, runVars, poolVars,
                             mainVars, historyVars>>

\* pool.ErrClosed: the reader closes msgs and ends.
ReaderExit == /\ Alive /\ reader = NoItem /\ ~ subOpen /\ ~ msgsClosed
              /\ msgsClosed' = TRUE
              /\ UNCHANGED <<logVars, feedVars, reader, msgs, subOpen, runVars, poolVars, mainVars,
                             historyVars>>

-----------------------------------------------------------------------------
(* Run. Its select takes either branch when both are ready. *)

\* Faulty variant: the subscription is left open for the drain.
CancelKeepsSubscription ==
  /\ Alive /\ run = "select" /\ held = NoItem
  /\ ctxDone
  /\ run' = "draining"
  /\ UNCHANGED <<logVars, feedVars, redisVars, held, poolVars, mainVars, historyVars>>

\* case <-ctx.Done(): sub.Close().
Cancel == /\ Alive /\ run = "select" /\ held = NoItem
          /\ ctxDone
          /\ subOpen' = FALSE
          /\ run' = "draining"
          /\ UNCHANGED <<logVars, feedVars, reader, msgs, msgsClosed, held, poolVars, mainVars,
                         historyVars>>

\* case msg := <-msgs, or the next turn of the drain's range over msgs.
Take == /\ Alive /\ run \in {"select", "draining"} /\ held = NoItem
        /\ msgs # <<>>
        /\ held' = Head(msgs)
        /\ msgs' = Tail(msgs)
        /\ UNCHANGED <<logVars, feedVars, reader, msgsClosed, subOpen, run, poolVars, mainVars,
                       historyVars>>

\* handle: Decode fails, or Route says no worker wants it.
Discard == /\ Alive /\ held # NoItem
           /\ ~ Routed(held)
           /\ held' = NoItem
           /\ UNCHANGED <<logVars, feedVars, redisVars, run, poolVars, mainVars, historyVars>>

\* Faulty variant: the event is hashed, not its match.
RouteByEvent(e) == IF e.sequence = 1 THEN WorkerIndex[e.match]
                                     ELSE CHOOSE w \in Workers : w # WorkerIndex[e.match]

\* The worker that every event of the same match is sent to.
Route(e) == WorkerIndex[e.match]

\* Faulty variants: the item is dropped when the channel is full; the channel
\* has no limit.
SendOrDrop == /\ Alive /\ held # NoItem
              /\ Routed(held)
              /\ chans' = IF Len(chans[Route(held)]) < ChannelBuffer
                            THEN [chans EXCEPT ![Route(held)] = Append(@, held)]
                            ELSE chans
              /\ held' = NoItem
              /\ UNCHANGED <<logVars, feedVars, redisVars, run, chansClosed, busy, exited,
                             mainVars, historyVars>>

SendUnbounded == /\ Alive /\ held # NoItem
                 /\ Routed(held)
                 /\ chans' = [chans EXCEPT ![Route(held)] = Append(@, held)]
                 /\ held' = NoItem
                 /\ UNCHANGED <<logVars, feedVars, redisVars, run, chansClosed, busy, exited,
                                mainVars, historyVars>>

\* pool.Send, once the worker's channel has room.
Send == /\ Alive /\ held # NoItem
        /\ Routed(held)
        /\ Len(chans[Route(held)]) < ChannelBuffer
        /\ chans' = [chans EXCEPT ![Route(held)] = Append(@, held)]
        /\ held' = NoItem
        /\ UNCHANGED <<logVars, feedVars, redisVars, run, chansClosed, busy, exited, mainVars,
                       historyVars>>

\* Faulty variant: the drain stops as soon as msgs is empty, closed or not.
ClosePoolWhenEmpty ==
  /\ Alive /\ run = "draining" /\ held = NoItem
  /\ msgs = <<>>
  /\ chansClosed' = TRUE
  /\ run' = "closing"
  /\ UNCHANGED <<logVars, feedVars, redisVars, held, chans, busy, exited, mainVars, historyVars>>

\* The range over msgs ends when msgs is closed and empty; pool.Close closes
\* the workers' channels.
ClosePool == /\ Alive /\ run = "draining" /\ held = NoItem
             /\ msgs = <<>> /\ msgsClosed
             /\ chansClosed' = TRUE
             /\ run' = "closing"
             /\ UNCHANGED <<logVars, feedVars, redisVars, held, chans, busy, exited, mainVars,
                            historyVars>>

\* wg.Wait returns: Run returns.
RunReturn == /\ Alive /\ run = "closing"
             /\ exited = Workers
             /\ run' = "returned"
             /\ UNCHANGED <<logVars, feedVars, redisVars, held, poolVars, mainVars, historyVars>>

-----------------------------------------------------------------------------
(* The pool's workers. *)

WorkerTake(w) == /\ Alive /\ busy[w] = NoItem /\ w \notin exited
                 /\ chans[w] # <<>>
                 /\ busy' = [busy EXCEPT ![w] = Head(chans[w])]
                 /\ chans' = [chans EXCEPT ![w] = Tail(@)]
                 /\ UNCHANGED <<logVars, feedVars, redisVars, runVars, chansClosed, exited,
                                mainVars, historyVars>>

\* Apply returns.
WorkerDone(w) == /\ Alive /\ busy[w] # NoItem
                 /\ busy' = [busy EXCEPT ![w] = NoItem]
                 /\ settled' = Log(settled, busy[w])
                 /\ UNCHANGED <<feedVars, redisVars, runVars, chans, chansClosed, exited,
                                mainVars, received>>

\* The event is committed, or found stale.
WorkerApply(w) == /\ WorkerDone(w)
                  /\ IF IsStale(busy[w]) THEN UNCHANGED logVars ELSE Record(busy[w])
                  /\ UNCHANGED failed

\* Faulty variant: the worker's goroutine returns on an error.
WorkerFailExits(w) ==
  /\ Alive /\ busy[w] # NoItem
  /\ busy' = [busy EXCEPT ![w] = NoItem]
  /\ settled' = Log(settled, busy[w])
  /\ failed' = failed \cup {busy[w]}
  /\ exited' = exited \cup {w}
  /\ UNCHANGED <<logVars, feedVars, redisVars, runVars, chans, chansClosed, mainVars, received>>

\* Apply returns an error: it is logged and the event is gone.
WorkerFail(w) == /\ WorkerDone(w)
                 /\ failed' = failed \cup {busy[w]}
                 /\ UNCHANGED logVars

WorkerExit(w) == /\ Alive /\ busy[w] = NoItem /\ chans[w] = <<>> /\ chansClosed
                 /\ w \notin exited
                 /\ exited' = exited \cup {w}
                 /\ UNCHANGED <<logVars, feedVars, redisVars, runVars, chans, chansClosed, busy,
                                mainVars, historyVars>>

-----------------------------------------------------------------------------
(* main. *)

\* SIGINT or SIGTERM.
Signal == /\ Alive /\ ~ ctxDone
          /\ ctxDone' = TRUE
          /\ UNCHANGED <<logVars, feedVars, redisVars, runVars, poolVars, main, historyVars>>

\* ListenAndServe returns: after Shutdown, or because the server failed.
ServeReturns == /\ main = "serving"
                /\ main' = "stopping"
                /\ ctxDone' = TRUE
                /\ UNCHANGED <<logVars, feedVars, redisVars, runVars, poolVars, historyVars>>

\* Faulty variant: main does not wait for runDone.
ExitAtOnce == /\ main = "stopping"
              /\ main' = "exited"
              /\ UNCHANGED <<logVars, feedVars, redisVars, runVars, poolVars, ctxDone, historyVars>>

\* <-runDone
Exit == /\ main = "stopping"
        /\ run = "returned"
        /\ main' = "exited"
        /\ UNCHANGED <<logVars, feedVars, redisVars, runVars, poolVars, ctxDone, historyVars>>

\* The volatile state of a process that has just subscribed and started its pool.
FreshProcess == /\ reader' = NoItem
                /\ msgs' = <<>>
                /\ msgsClosed' = FALSE
                /\ subOpen' = TRUE
                /\ run' = "select"
                /\ held' = NoItem
                /\ chans' = [w \in Workers |-> <<>>]
                /\ chansClosed' = FALSE
                /\ busy' = [w \in Workers |-> NoItem]
                /\ exited' = {}
                /\ ctxDone' = FALSE
                /\ received' = [m \in Matches |-> <<>>]
                /\ settled' = [m \in Matches |-> <<>>]
                /\ failed' = {}
                /\ UNCHANGED <<logVars, published>>

\* The process is killed: everything but the tables is gone.
Kill == /\ Alive
        /\ FreshProcess
        /\ main' = "killed"
        /\ UNCHANGED restarts

\* It is started again.
Restart == /\ ~ Alive
           /\ restarts < MaxRestarts
           /\ restarts' = restarts + 1
           /\ FreshProcess
           /\ main' = "serving"

Reader == ReaderPut \/ ReaderExit
Runner == Take \/ Discard \/ Send \/ ClosePool \/ RunReturn
Worker(w) == WorkerTake(w) \/ WorkerApply(w) \/ WorkerFail(w) \/ WorkerExit(w)

PipeNext == \/ \E m \in Matches : Deliver(m) \/ Miss(m)
            \/ DeliverGarbage \/ ReaderDrop \/ Reader
            \/ Cancel \/ Runner
            \/ \E w \in Workers : Worker(w)
            \/ Signal \/ ServeReturns \/ Exit \/ Kill \/ Restart

PipeSpec == PipeInit /\ [][PipeNext]_pipeVars

\* Every goroutine runs when it can. A select with two ready cases picks one at
\* random, so one that is ready again and again is taken: SF for Cancel. After a
\* signal, server.Shutdown makes ListenAndServe return.
PipeFairness == /\ WF_pipeVars(Reader)
                /\ WF_pipeVars(Runner)
                /\ SF_pipeVars(Cancel)
                /\ \A w \in Workers : WF_pipeVars(Worker(w))
                /\ WF_pipeVars(ctxDone /\ ServeReturns)
                /\ WF_pipeVars(Exit)

FairPipeSpec == PipeSpec /\ PipeFairness

-----------------------------------------------------------------------------

Messages == Events \cup {Garbage}

PipeTypeOK ==
  /\ LogTypeOK
  /\ published \in [Matches -> Nat] /\ restarts \in 0..MaxRestarts
  /\ {reader, held} \subseteq Messages \cup {NoItem}
  /\ msgs \in Seq(Messages) /\ Len(msgs) <= MsgsBuffer
  /\ run \in {"select", "draining", "closing", "returned"}
  /\ chans \in [Workers -> Seq(Events)]
  /\ \A w \in Workers : Len(chans[w]) <= ChannelBuffer
  /\ busy \in [Workers -> Events \cup {NoItem}]
  /\ exited \subseteq Workers
  /\ {msgsClosed, subOpen, chansClosed, ctxDone} \subseteq BOOLEAN
  /\ main \in {"serving", "stopping", "exited", "killed"}
  /\ received \in [Matches -> Seq(Events)] /\ settled \in [Matches -> Seq(Events)]
  /\ failed \subseteq Events

\* The events of match m among the messages of q that go to a worker.
Of(m, q) ==
  LET upTo[i \in 0 .. Len(q)] ==
        IF i = 0 THEN <<>>
        ELSE IF Routed(q[i]) /\ q[i].match = m THEN Append(upTo[i - 1], q[i])
        ELSE upTo[i - 1]
  IN  upTo[Len(q)]

InHand(x) == IF x = NoItem THEN <<>> ELSE <<x>>

\* Where an event of match m may be between msgs and the end of its Apply, the
\* oldest first.
InFlight(m) == LET w == WorkerIndex[m]
               IN  Of(m, InHand(busy[w]) \o chans[w] \o InHand(held) \o msgs)

\* Per match, nothing that entered msgs is lost, duplicated or overtaken on its
\* way to the end of its Apply, whatever the other matches of the shard and the
\* other workers do, before, during and after the drain.
InOrderNothingLost == \A m \in Matches : received[m] = settled[m] \o InFlight(m)

\* When events are published in order, a worker never meets a stale one: not one
\* is dropped by Reduce because of the pipeline itself, across restarts too.
NoStaleWork == \A w \in Workers : busy[w] # NoItem => ~ IsStale(busy[w])

\* Run's promise for a shutdown: when the process exits on its own, each event
\* that had been received is recorded (or its Apply reported an error).
ExitLosesNothing ==
  main = "exited" => \A m \in Matches :
                       ToSet(received[m]) \subseteq timeline[m] \cup failed

\* A worker's channel is closed only when nothing is left to be sent, so that
\* Send can neither panic on a closed channel nor block on a worker that has gone.
ClosedAfterLastSend == chansClosed => held = NoItem /\ msgs = <<>> /\ msgsClosed /\ reader = NoItem

\* A cancelled process comes to an end: the drain terminates although the reader
\* may still hold a message and every buffer may be full.
ShutdownCompletes == ctxDone ~> ~ Alive

\* Whatever was received is eventually settled: back-pressure (Send blocks while
\* a channel is full) never becomes a deadlock.
EverythingSettles ==
  \A m \in Matches : (received[m] # settled[m] /\ Alive) ~> (received[m] = settled[m] \/ ~ Alive)
=============================================================================
