------------------------------ MODULE Manager ------------------------------
(***************************************************************************)
(* feed-simulator's Manager (internal/simulator/manager/manager.go): HTTP  *)
(* handlers call Start, Stop and Trigger while the goroutine of each match *)
(* calls onComplete when its match ends. All of them share running, auto   *)
(* and autoTemplate under one mutex, but release it between reading them   *)
(* and spawning: each critical section is one step here, and so is what a  *)
(* goroutine does between two of them.                                     *)
(*                                                                         *)
(* Match ids are taken from a finite set and used again once nothing       *)
(* refers to them: nextID only makes sure that two matches differ.         *)
(***************************************************************************)
EXTENDS Naturals, FiniteSets

CONSTANTS Callers,    \* HTTP requests in progress at a time
          Ops,        \* which operations they call
          MatchIds,   \* bound: how many matches may exist at a time
          Templates,  \* template names; "default" is the empty name
          NoId

ASSUME ManagerAssumption ==
  /\ Ops \subseteq {"start", "stop", "trigger"}
  /\ "none" \notin Templates
  /\ NoId \notin MatchIds

VARIABLES auto,          \* the auto-respawn loop is on
          autoTemplate,  \* the template of its respawns
          running,       \* the ids (with their cancel functions) of Manager.running
          match,         \* per id: free, reserved, live, ended, leaving
          want,          \* per leaving id: the template to respawn, or "none"
          cancelled,     \* the ids whose own context has been cancelled
          op,            \* per caller: where it is in its operation
          template,      \* per caller: the template of its Start or Trigger
          pending,       \* per caller: the ids that its Stop still has to cancel
          mine,          \* per caller: the id that its spawn has reserved
          baseDone,      \* baseCtx is cancelled: the service shuts down
          serverUp,      \* the HTTP server still accepts requests
          quiet          \* history: a Stop has emptied running, and no Start or
                         \* Trigger was under way then or has been called since

matchVars  == <<running, match, want, cancelled>>
autoVars   == <<auto, autoTemplate>>
callerVars == <<op, template, pending, mine>>
shutVars   == <<baseDone, serverUp>>
managerVars == <<matchVars, autoVars, callerVars, shutVars, quiet>>

ManagerInit == /\ auto = FALSE
               /\ autoTemplate = "default"
               /\ running = {}
               /\ match = [i \in MatchIds |-> "free"]
               /\ want = [i \in MatchIds |-> "none"]
               /\ cancelled = {}
               /\ op = [c \in Callers |-> "idle"]
               /\ template = [c \in Callers |-> "default"]
               /\ pending = [c \in Callers |-> {}]
               /\ mine = [c \in Callers |-> NoId]
               /\ baseDone = FALSE
               /\ serverUp = TRUE
               /\ quiet = FALSE

\* No Stop holds the cancel function of a former match with this id.
Unreferenced(i) == \A c \in Callers : i \notin pending[c]

\* An id that nothing refers to any more.
Fresh(i) == match[i] = "free" /\ Unreferenced(i)

\* buildSport reads the template files each time: any template but the default,
\* which has none, may turn out to be missing or invalid.
MayFail(t) == t # "default"

Spawning(c) == op[c] \in {"called", "spawning", "inserting"}

-----------------------------------------------------------------------------
(* spawn, up to the second critical section: buildSport, nextID.Add, and a *)
(* context derived from baseCtx.                                           *)

Reserve(i) == /\ Fresh(i)
              /\ match' = [match EXCEPT ![i] = "reserved"]
              /\ UNCHANGED <<running, want, cancelled, autoVars, shutVars, quiet>>

\* The critical section of spawn, and the start of the match's goroutine; a
\* caller that waits for this id returns it.
Insert(i) == /\ match[i] = "reserved"
             /\ running' = running \cup {i}
             /\ match' = [match EXCEPT ![i] = "live"]
             /\ op' = [c \in Callers |-> IF mine[c] = i THEN "idle" ELSE op[c]]
             /\ mine' = [c \in Callers |-> IF mine[c] = i THEN NoId ELSE mine[c]]
             /\ UNCHANGED <<want, cancelled, autoVars, template, pending, shutVars, quiet>>

-----------------------------------------------------------------------------
(* The operations, called by HTTP handlers (internal/api) and by main. *)

\* A request to start or to trigger arrives.
Call(c, t, what) ==
  /\ serverUp /\ op[c] = "idle" /\ what \in Ops
  /\ template' = [template EXCEPT ![c] = t]
  /\ quiet' = FALSE
  /\ UNCHANGED <<matchVars, autoVars, pending, mine, shutVars>>

CallStart(c, t) == Call(c, t, "start") /\ op' = [op EXCEPT ![c] = "called"]

\* Trigger is spawn and nothing else.
CallTrigger(c, t) == Call(c, t, "trigger") /\ op' = [op EXCEPT ![c] = "spawning"]

\* Start's critical section: the loop is on, and a match is needed if none runs.
Start(c) == /\ op[c] = "called"
            /\ auto' = TRUE
            /\ autoTemplate' = template[c]
            /\ op' = [op EXCEPT ![c] = IF running = {} THEN "spawning" ELSE "idle"]
            /\ UNCHANGED <<matchVars, template, pending, mine, shutVars, quiet>>

Spawn(c, i) == /\ op[c] = "spawning"
               /\ Reserve(i)
               /\ op' = [op EXCEPT ![c] = "inserting"]
               /\ mine' = [mine EXCEPT ![c] = i]
               /\ UNCHANGED <<template, pending>>

\* buildSport fails: the caller gets the error.
SpawnFails(c) == /\ op[c] = "spawning"
                 /\ MayFail(template[c])
                 /\ op' = [op EXCEPT ![c] = "idle"]
                 /\ UNCHANGED <<matchVars, autoVars, template, pending, mine, shutVars, quiet>>

\* Faulty variant: the cancel functions are collected from the new, empty map.
StopCollectsLate(c) ==
  /\ serverUp /\ op[c] = "idle" /\ "stop" \in Ops
  /\ auto' = FALSE
  /\ running' = {}
  /\ pending' = [pending EXCEPT ![c] = {}]
  /\ op' = [op EXCEPT ![c] = "cancelling"]
  /\ quiet' = (\A d \in Callers : ~ Spawning(d))
  /\ UNCHANGED <<autoTemplate, match, want, cancelled, template, mine, shutVars>>

\* Stop's critical section: the loop is off, and running is emptied.
Stop(c) == /\ serverUp /\ op[c] = "idle" /\ "stop" \in Ops
           /\ auto' = FALSE
           /\ pending' = [pending EXCEPT ![c] = running]
           /\ running' = {}
           /\ op' = [op EXCEPT ![c] = "cancelling"]
           /\ quiet' = (\A d \in Callers : ~ Spawning(d))
           /\ UNCHANGED <<autoTemplate, match, want, cancelled, template, mine, shutVars>>

\* Then it calls the cancel functions one by one, in no particular order.
CancelOne(c) == /\ op[c] = "cancelling"
                /\ \E i \in pending[c] :
                     /\ pending' = [pending EXCEPT ![c] = @ \ {i}]
                     /\ cancelled' = IF match[i] = "free" THEN cancelled ELSE cancelled \cup {i}
                /\ UNCHANGED <<running, match, want, autoVars, op, template, mine, shutVars, quiet>>

\* Faulty variant: the cancel functions are called after Stop has returned.
StopReturnsEarly(c) ==
  /\ op[c] = "cancelling"
  /\ op' = [op EXCEPT ![c] = "idle"]
  /\ UNCHANGED <<matchVars, autoVars, template, pending, mine, shutVars, quiet>>

StopReturns(c) == /\ op[c] = "cancelling"
                  /\ pending[c] = {}
                  /\ op' = [op EXCEPT ![c] = "idle"]
                  /\ UNCHANGED <<matchVars, autoVars, template, pending, mine, shutVars, quiet>>

-----------------------------------------------------------------------------
(* The goroutine of a match. *)

\* runner.Run returns: full time, or one of its contexts is cancelled.
Finish(i) == /\ match[i] = "live"
             /\ match' = [match EXCEPT ![i] = "ended"]
             /\ UNCHANGED <<running, want, cancelled, autoVars, callerVars, shutVars, quiet>>

\* Faulty variants: the match is only deleted when its loop goes on; it is
\* replaced whether the loop is on or not.
OnCompleteKeepsEntry(i) ==
  /\ match[i] = "ended"
  /\ running' = IF auto THEN running \ {i} ELSE running
  /\ match' = [match EXCEPT ![i] = "leaving"]
  /\ want' = [want EXCEPT ![i] = IF auto THEN autoTemplate ELSE "none"]
  /\ UNCHANGED <<cancelled, autoVars, callerVars, shutVars, quiet>>

OnCompleteAlwaysRespawns(i) ==
  /\ match[i] = "ended"
  /\ running' = running \ {i}
  /\ match' = [match EXCEPT ![i] = "leaving"]
  /\ want' = [want EXCEPT ![i] = autoTemplate]
  /\ UNCHANGED <<cancelled, autoVars, callerVars, shutVars, quiet>>

\* onComplete's critical section.
OnComplete(i) == /\ match[i] = "ended"
                 /\ running' = running \ {i}
                 /\ match' = [match EXCEPT ![i] = "leaving"]
                 /\ want' = [want EXCEPT ![i] = IF auto THEN autoTemplate ELSE "none"]
                 /\ UNCHANGED <<cancelled, autoVars, callerVars, shutVars, quiet>>

\* The goroutine of i is over.
Gone(i) == /\ match[i] = "leaving"
           /\ want' = [want EXCEPT ![i] = "none"]
           /\ cancelled' = cancelled \ {i}

\* Nothing to respawn, or the service is shutting down.
Leave(i) == /\ Gone(i)
            /\ want[i] = "none" \/ baseDone
            /\ match' = [match EXCEPT ![i] = "free"]
            /\ UNCHANGED <<running, autoVars, callerVars, shutVars, quiet>>

\* Faulty variant: baseCtx is not looked at.
RespawnAnyway(i, j) ==
  /\ Gone(i)
  /\ want[i] # "none"
  /\ Fresh(j) \/ (j = i /\ Unreferenced(i))
  /\ match' = [match EXCEPT ![i] = "free", ![j] = "reserved"]
  /\ UNCHANGED <<running, autoVars, callerVars, shutVars, quiet>>

\* spawn(nextTemplate): from here on the new match is j, whose Insert follows.
\* (j may be i, to which nothing refers then.)
Respawn(i, j) == /\ Gone(i)
                 /\ want[i] # "none" /\ ~ baseDone
                 /\ Fresh(j) \/ (j = i /\ Unreferenced(i))
                 /\ match' = [match EXCEPT ![i] = "free", ![j] = "reserved"]
                 /\ UNCHANGED <<running, autoVars, callerVars, shutVars, quiet>>

\* The template cannot be built: the error is logged.
RespawnFails(i) == /\ Gone(i)
                   /\ want[i] # "none" /\ ~ baseDone /\ MayFail(want[i])
                   /\ match' = [match EXCEPT ![i] = "free"]
                   /\ UNCHANGED <<running, autoVars, callerVars, shutVars, quiet>>

-----------------------------------------------------------------------------
(* main: a signal cancels baseCtx, then the HTTP server is shut down. *)

Signal == /\ ~ baseDone
          /\ baseDone' = TRUE
          /\ UNCHANGED <<matchVars, autoVars, callerVars, serverUp, quiet>>

ServerShutdown == /\ baseDone /\ serverUp
                  /\ serverUp' = FALSE
                  /\ UNCHANGED <<matchVars, autoVars, callerVars, baseDone, quiet>>

CallerStep(c) == \/ Start(c) \/ SpawnFails(c) \/ CancelOne(c) \/ StopReturns(c)
                 \/ \E i \in MatchIds : Spawn(c, i)

MatchStep(i) == \/ Insert(i) \/ Finish(i) \/ OnComplete(i) \/ Leave(i) \/ RespawnFails(i)
                \/ \E j \in MatchIds : Respawn(i, j)

ManagerNext == \/ \E c \in Callers : \/ \E t \in Templates : CallStart(c, t) \/ CallTrigger(c, t)
                                     \/ Stop(c)
                                     \/ CallerStep(c)
               \/ \E i \in MatchIds : MatchStep(i)
               \/ Signal \/ ServerShutdown

ManagerSpec == ManagerInit /\ [][ManagerNext]_managerVars

\* Goroutines run, and every match ends: its schedule is finite (a random match
\* ends at minute 90). Nobody has to call anything, or to stop the service; but
\* once it is stopped, main shuts the server down.
ManagerFairness == /\ \A c \in Callers : WF_managerVars(CallerStep(c))
                   /\ \A i \in MatchIds : WF_managerVars(MatchStep(i))
                   /\ WF_managerVars(ServerShutdown)

FairManagerSpec == ManagerSpec /\ ManagerFairness

-----------------------------------------------------------------------------

ManagerTypes ==
  /\ auto \in BOOLEAN /\ autoTemplate \in Templates \cup {"default"}
  /\ running \subseteq MatchIds /\ cancelled \subseteq MatchIds
  /\ match \in [MatchIds -> {"free", "reserved", "live", "ended", "leaving"}]
  /\ want \in [MatchIds -> Templates \cup {"none", "default"}]
  /\ op \in [Callers -> {"idle", "called", "spawning", "inserting", "cancelling"}]
  /\ template \in [Callers -> Templates \cup {"default"}]
  /\ pending \in [Callers -> SUBSET MatchIds]
  /\ mine \in [Callers -> MatchIds \cup {NoId}]
  /\ baseDone \in BOOLEAN /\ serverUp \in BOOLEAN /\ quiet \in BOOLEAN

\* A caller has an id or a list of cancel functions only where it needs it.
CallersConsistent ==
  \A c \in Callers : /\ op[c] = "inserting" <=> mine[c] # NoId
                     /\ op[c] # "cancelling" => pending[c] = {}

ManagerTypeOK == ManagerTypes /\ CallersConsistent

Live == {i \in MatchIds : match[i] = "live"}
BeingCancelled == UNION {pending[c] : c \in Callers}

\* No match is out of reach: one that is being played can be cancelled by the
\* next Stop, is about to be cancelled by one under way, or has been cancelled.
\* (Stop replaces the map while spawns and completions are in progress.)
NoOrphan == Live \subseteq running \cup BeingCancelled \cup cancelled

\* running holds no match that has left, so RunningCount never over-reports and
\* Start never skips the first match because of a leftover entry.
RunningHasNoGhosts == \A i \in running : match[i] \in {"live", "ended"}

\* While the loop is on with a template that always builds, something is left
\* that will keep it going: a match whose completion will respawn, or a spawn
\* under way, and neither can fail to build a leftover template of an earlier
\* Start or Trigger.
LoopNeverStalls ==
  auto /\ ~ MayFail(autoTemplate) /\ ~ baseDone =>
    \/ \E i \in MatchIds : \/ match[i] \in {"reserved", "live", "ended"}
                           \/ match[i] = "leaving" /\ want[i] # "none" /\ ~ MayFail(want[i])
    \/ \E c \in Callers : op[c] = "spawning" /\ ~ MayFail(template[c])

NoMatches == \A i \in MatchIds : match[i] = "free"

\* Stop is a stop in the end: unless somebody starts or triggers a match again,
\* a time comes when no match is left. (A match respawned by a completion that
\* overlapped with the Stop is played to its end, and is not replaced.)
StopIsFinal == quiet ~> (NoMatches \/ ~ quiet)

\* The service quiets down when it is told to shut down: no chain of matches
\* respawns for ever from the cancelled base context.
ShutdownIsFinal == baseDone ~> [](NoMatches /\ \A c \in Callers : op[c] = "idle")

\* "Stop turns the auto-respawn loop off and immediately cancels every
\* currently-running match" (manager.go:104-106, README of the service): after a
\* Stop, and before the next Start or Trigger, no match is played that has not
\* been cancelled.
StopHolds == quiet => Live \subseteq BeingCancelled \cup cancelled

\* "calling Start again just changes the template future respawns use"
\* (manager.go:86-90): Start on its own never has two matches played at a time.
StartKeepsOneMatch == Cardinality(running) <= 1
=============================================================================
