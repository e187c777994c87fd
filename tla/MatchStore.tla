----------------------------- MODULE MatchStore -----------------------------
(***************************************************************************)
(* Store.Apply of match-service (internal/matchstate/persist.go): one      *)
(* transaction per event, run by sessions that interleave statement by     *)
(* statement and may fail at any of them.                                  *)
(*                                                                         *)
(* A session is one database connection in use by a pool worker. Two       *)
(* sessions may work on the same match: one process shards matches over    *)
(* its workers, but a second process (a restart while the old one is still *)
(* draining, a second replica) subscribes to the same channel and receives *)
(* the same events. So a session may take any event, any number of times.  *)
(*                                                                         *)
(* PostgreSQL is external and modelled at READ COMMITTED: what a           *)
(* transaction writes is visible to others when it commits, and the row    *)
(* that INSERT ... ON CONFLICT DO UPDATE returned stays locked until then. *)
(***************************************************************************)
EXTENDS MatchLog

CONSTANTS Sessions,
          NoItem     \* a session that works on nothing

ASSUME NoItemAssumption == NoItem \notin Events

VARIABLES phase,     \* how far each session is in Apply
          item,      \* the event it applies
          view       \* the match's row as its transaction sees it

storeVars == <<rows, timeline, phase, item, view>>

Phases == {"idle", "begun", "loaded", "updated", "inserted"}

StoreInit == /\ LogInit
             /\ phase = [s \in Sessions |-> "idle"]
             /\ item  = [s \in Sessions |-> NoItem]
             /\ view  = [s \in Sessions |-> NoRow]

\* Faulty variant: a plain SELECT, the row is only locked by the UPDATE.
HoldsAfterUpdate(s, m) == phase[s] \in {"updated", "inserted"} /\ item[s].match = m

\* The session's transaction holds the lock of match m's row.
Holds(s, m) == phase[s] \in {"loaded", "updated", "inserted"} /\ item[s].match = m

\* The transaction is over, committed or rolled back: its locks are released.
Close(s) == /\ phase' = [phase EXCEPT ![s] = "idle"]
            /\ item'  = [item EXCEPT ![s] = NoItem]
            /\ view'  = [view EXCEPT ![s] = NoRow]

Goto(s, p) == phase' = [phase EXCEPT ![s] = p]

\* s.pool.Begin for the next event a worker took. A Begin that fails returns
\* with nothing done: it is no step here.
Begin(s, e) == /\ phase[s] = "idle"
               /\ Goto(s, "begun")
               /\ item' = [item EXCEPT ![s] = e]
               /\ UNCHANGED <<rows, timeline, view>>

\* Faulty variant: the load waits for no other transaction.
LoadUnlocked(s) ==
  /\ phase[s] = "begun"
  /\ Goto(s, "loaded")
  /\ view' = [view EXCEPT ![s] = LoadOrCreate(rows[item[s].match], item[s])]
  /\ UNCHANGED <<rows, timeline, item>>

\* INSERT ... ON CONFLICT ... RETURNING: waits while another transaction has
\* inserted or locked the row, then sees the row as last committed.
Load(s) == /\ phase[s] = "begun"
           /\ \A t \in Sessions : ~ Holds(t, item[s].match)
           /\ Goto(s, "loaded")
           /\ view' = [view EXCEPT ![s] = LoadOrCreate(rows[item[s].match], item[s])]
           /\ UNCHANGED <<rows, timeline, item>>

\* Faulty variant: the transaction is not rolled back.
SkipLeavesOpen(s) == phase[s] = "loaded" /\ Stale(view[s], item[s]) /\ UNCHANGED storeVars

\* Reduce reports a stale event: return nil, and the deferred Rollback undoes
\* the row that Load may have created.
Skip(s) == /\ phase[s] = "loaded"
           /\ Stale(view[s], item[s])
           /\ Close(s)
           /\ UNCHANGED logVars

\* UPDATE matches with what Reduce returned.
Update(s) == /\ phase[s] = "loaded"
             /\ ~ Stale(view[s], item[s])
             /\ Goto(s, "updated")
             /\ view' = [view EXCEPT ![s] = Reduce(@, item[s])]
             /\ UNCHANGED <<rows, timeline, item>>

\* UNIQUE (match_id, sequence)
Unique(e) == \A f \in timeline[e.match] : f.sequence # e.sequence

\* Faulty variant: the event is inserted outside the transaction.
InsertOutside(s) ==
  /\ phase[s] = "updated"
  /\ Unique(item[s])
  /\ Goto(s, "inserted")
  /\ timeline' = [timeline EXCEPT ![item[s].match] = @ \cup {item[s]}]
  /\ UNCHANGED <<rows, item, view>>

\* INSERT INTO match_events: when the constraint refuses it, only Abort is left.
InsertEvent(s) == /\ phase[s] = "updated"
                  /\ Unique(item[s])
                  /\ Goto(s, "inserted")
                  /\ UNCHANGED <<rows, timeline, item, view>>

\* Commit. A commit whose answer is lost has the same effect: Apply returns an
\* error, which the worker only logs.
Commit(s) ==
  /\ phase[s] = "inserted"
  /\ rows' = [rows EXCEPT ![item[s].match] = view[s]]
  /\ timeline' = [timeline EXCEPT ![item[s].match] = @ \cup {item[s]}]
  /\ Close(s)

\* A statement fails, the connection is lost, or the process dies (then each of
\* its sessions aborts): the transaction is rolled back and its event is gone.
Abort(s) == /\ phase[s] # "idle"
            /\ Close(s)
            /\ UNCHANGED logVars

Proceed(s) == Skip(s) \/ Update(s) \/ InsertEvent(s) \/ Commit(s)

StoreNext == \E s \in Sessions : \/ \E e \in Events : Begin(s, e)
                                 \/ Load(s)
                                 \/ Proceed(s)
                                 \/ Abort(s)

StoreSpec == StoreInit /\ [][StoreNext]_storeVars

\* A worker runs its transaction to the end (its context is never cancelled),
\* and PostgreSQL serves the waiters of a row lock in turn.
StoreFairness == \A s \in Sessions : WF_storeVars(Proceed(s)) /\ SF_storeVars(Load(s))

FairStoreSpec == StoreSpec /\ StoreFairness

-----------------------------------------------------------------------------

StoreTypeOK ==
  /\ LogTypeOK
  /\ phase \in [Sessions -> Phases]
  /\ item \in [Sessions -> Events \cup {NoItem}]
  /\ view \in [Sessions -> Row \cup {NoRow}]
  /\ \A s \in Sessions : /\ phase[s] = "idle" <=> item[s] = NoItem
                         /\ phase[s] \in {"idle", "begun"} <=> view[s] = NoRow

\* At most one transaction at a time is between the load and the commit of a
\* match: no two workers can reduce two events from the same row.
RowLockExclusive ==
  \A s, t \in Sessions : \A m \in Matches : Holds(s, m) /\ Holds(t, m) => s = t

\* What a transaction holds is what the committed row implies: nobody changed
\* the row between its load and its commit.
ViewIsCurrent ==
  \A s \in Sessions :
    LET e == item[s]
        loaded == LoadOrCreate(rows[e.match], e)
    IN  /\ phase[s] = "loaded" => view[s] = loaded
        /\ phase[s] \in {"updated", "inserted"} => /\ ~ Stale(loaded, e)
                                                   /\ view[s] = Reduce(loaded, e)

\* The check of Reduce against last_sequence is enough: an INSERT into
\* match_events is never refused by the UNIQUE constraint, whatever duplicates
\* and replays the sessions race with (a refused INSERT would drop its event
\* with an error instead of skipping it).
ConstraintNeverFires == \A s \in Sessions : phase[s] = "updated" => Unique(item[s])

\* Every Apply returns: no transaction is left open and none waits for a row lock
\* for ever, although sessions keep taking events of the same match.
ApplyReturns == \A s \in Sessions : phase[s] # "idle" ~> phase[s] = "idle"
=============================================================================
