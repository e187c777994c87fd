--------------------------- MODULE ManagerProofs ---------------------------
(***************************************************************************)
(* Theorems about Manager, for any number of callers, matches and          *)
(* templates: no interleaving of handlers and completions puts a match out *)
(* of the reach of Stop, or leaves an entry behind in running.             *)
(***************************************************************************)
EXTENDS Manager, TLAPS

ManagerInv == /\ ManagerTypeOK
              /\ NoOrphan
              /\ RunningHasNoGhosts

\* Every step keeps the variables well typed.
LEMMA TypesStep ==
  ASSUME ManagerTypes, [ManagerNext]_managerVars
  PROVE  ManagerTypes'
<1> USE ManagerAssumption DEF ManagerTypes, matchVars, autoVars, callerVars, shutVars
<1>1. CASE UNCHANGED managerVars
  BY <1>1 DEF managerVars
<1>2. ASSUME NEW c \in Callers, NEW t \in Templates, CallStart(c, t) \/ CallTrigger(c, t)
      PROVE  ManagerTypes'
  <2>1. CASE CallStart(c, t)  BY <2>1 DEF CallStart, Call
  <2>2. CASE CallTrigger(c, t)  BY <2>2 DEF CallTrigger, Call
  <2>3. QED  BY <1>2, <2>1, <2>2
<1>3. ASSUME NEW c \in Callers, Start(c)
      PROVE  ManagerTypes'
  BY <1>3 DEF Start
<1>4. ASSUME NEW c \in Callers, NEW i \in MatchIds, Spawn(c, i)
      PROVE  ManagerTypes'
  BY <1>4 DEF Spawn, Reserve
<1>5. ASSUME NEW c \in Callers, SpawnFails(c)
      PROVE  ManagerTypes'
  BY <1>5 DEF SpawnFails
<1>6. ASSUME NEW c \in Callers, Stop(c)
      PROVE  ManagerTypes'
  BY <1>6 DEF Stop
<1>7. ASSUME NEW c \in Callers, CancelOne(c)
      PROVE  ManagerTypes'
  BY <1>7 DEF CancelOne
<1>8. ASSUME NEW c \in Callers, StopReturns(c)
      PROVE  ManagerTypes'
  BY <1>8 DEF StopReturns
<1>9. ASSUME NEW i \in MatchIds, Insert(i)
      PROVE  ManagerTypes'
  BY <1>9 DEF Insert
<1>10. ASSUME NEW i \in MatchIds, Finish(i) \/ OnComplete(i) \/ Leave(i) \/ RespawnFails(i)
       PROVE  ManagerTypes'
  BY <1>10 DEF Finish, OnComplete, Leave, RespawnFails, Gone
<1>11. ASSUME NEW i \in MatchIds, NEW j \in MatchIds, Respawn(i, j)
       PROVE  ManagerTypes'
  BY <1>11 DEF Respawn, Gone
<1>12. CASE Signal \/ ServerShutdown
  BY <1>12 DEF Signal, ServerShutdown
<1>13. QED
  BY <1>1, <1>2, <1>3, <1>4, <1>5, <1>6, <1>7, <1>8, <1>9, <1>10, <1>11, <1>12
     DEF ManagerNext, CallerStep, MatchStep

\* A caller holds an id or cancel functions only while its operation needs them.
LEMMA CallersStep ==
  ASSUME ManagerTypeOK, [ManagerNext]_managerVars
  PROVE  CallersConsistent'
<1> USE ManagerAssumption
    DEF ManagerTypeOK, ManagerTypes, CallersConsistent, matchVars, autoVars, callerVars, shutVars
<1>1. CASE UNCHANGED managerVars
  BY <1>1 DEF managerVars
<1>2. ASSUME NEW c \in Callers, NEW t \in Templates, CallStart(c, t) \/ CallTrigger(c, t)
      PROVE  CallersConsistent'
  BY <1>2 DEF CallStart, CallTrigger, Call
<1>3. ASSUME NEW c \in Callers, Start(c) \/ SpawnFails(c)
      PROVE  CallersConsistent'
  BY <1>3 DEF Start, SpawnFails
<1>4. ASSUME NEW c \in Callers, NEW i \in MatchIds, Spawn(c, i)
      PROVE  CallersConsistent'
  BY <1>4 DEF Spawn, Reserve
<1>5. ASSUME NEW c \in Callers, Stop(c)
      PROVE  CallersConsistent'
  BY <1>5 DEF Stop
<1>6. ASSUME NEW c \in Callers, CancelOne(c) \/ StopReturns(c)
      PROVE  CallersConsistent'
  BY <1>6 DEF CancelOne, StopReturns
<1>7. ASSUME NEW i \in MatchIds, Insert(i)
      PROVE  CallersConsistent'
  <2>1. SUFFICES ASSUME NEW c \in Callers
                 PROVE  /\ op'[c] = "inserting" <=> mine'[c] # NoId
                        /\ op'[c] # "cancelling" => pending'[c] = {}
    OBVIOUS
  <2>2. /\ op'[c] = IF mine[c] = i THEN "idle" ELSE op[c]
        /\ mine'[c] = IF mine[c] = i THEN NoId ELSE mine[c]
        /\ pending'[c] = pending[c]
    BY <1>7 DEF Insert
  <2>3. CASE mine[c] = i  BY <2>2, <2>3
  <2>4. CASE mine[c] # i  BY <2>2, <2>4
  <2>5. QED  BY <2>3, <2>4
<1>8. ASSUME NEW i \in MatchIds, Finish(i) \/ OnComplete(i) \/ Leave(i) \/ RespawnFails(i)
      PROVE  CallersConsistent'
  BY <1>8 DEF Finish, OnComplete, Leave, RespawnFails
<1>9. ASSUME NEW i \in MatchIds, NEW j \in MatchIds, Respawn(i, j)
      PROVE  CallersConsistent'
  BY <1>9 DEF Respawn
<1>10. CASE Signal \/ ServerShutdown
  BY <1>10 DEF Signal, ServerShutdown
<1>11. QED
  BY <1>1, <1>2, <1>3, <1>4, <1>5, <1>6, <1>7, <1>8, <1>9, <1>10
     DEF ManagerNext, CallerStep, MatchStep

\* A match that is being played is in running, in the hands of a Stop, or cancelled.
LEMMA OrphanStep ==
  ASSUME ManagerInv, [ManagerNext]_managerVars
  PROVE  NoOrphan'
<1> USE DEF ManagerInv, ManagerTypeOK, ManagerTypes, CallersConsistent, NoOrphan, Live, BeingCancelled,
            matchVars, autoVars, callerVars, shutVars
<1>1. CASE UNCHANGED managerVars
  BY <1>1 DEF managerVars
<1>2. ASSUME NEW c \in Callers, NEW t \in Templates, CallStart(c, t) \/ CallTrigger(c, t)
      PROVE  NoOrphan'
  BY <1>2 DEF CallStart, CallTrigger, Call
<1>3. ASSUME NEW c \in Callers, Start(c) \/ SpawnFails(c) \/ StopReturns(c)
      PROVE  NoOrphan'
  BY <1>3 DEF Start, SpawnFails, StopReturns
<1>4. ASSUME NEW c \in Callers, NEW i \in MatchIds, Spawn(c, i)
      PROVE  NoOrphan'
  BY <1>4 DEF Spawn, Reserve
<1>5. ASSUME NEW c \in Callers, Stop(c)
      PROVE  NoOrphan'
  <2>1. pending'[c] = running /\ \A d \in Callers : pending[d] \subseteq pending'[d]
    <3>1. /\ pending' = [pending EXCEPT ![c] = running] /\ op[c] = "idle"
      BY <1>5 DEF Stop
    <3>2. pending[c] = {}
      BY <3>1
    <3>3. QED  BY <3>1, <3>2
  <2>2. BeingCancelled \subseteq BeingCancelled' /\ running \subseteq BeingCancelled'
    BY <2>1
  <2>3. QED  BY <1>5, <2>2 DEF Stop
<1>6. ASSUME NEW c \in Callers, CancelOne(c)
      PROVE  NoOrphan'
  <2>1. PICK i \in pending[c] :
          /\ pending' = [pending EXCEPT ![c] = @ \ {i}]
          /\ cancelled' = IF match[i] = "free" THEN cancelled ELSE cancelled \cup {i}
    BY <1>6 DEF CancelOne
  <2>2. BeingCancelled \subseteq BeingCancelled' \cup {i}
    <3>1. \A d \in Callers : pending[d] \subseteq pending'[d] \cup {i}  BY <2>1
    <3>2. QED  BY <3>1
  <2>3. QED  BY <1>6, <2>1, <2>2 DEF CancelOne
<1>7. ASSUME NEW i \in MatchIds, Insert(i)
      PROVE  NoOrphan'
  BY <1>7 DEF Insert
<1>8. ASSUME NEW i \in MatchIds, Finish(i) \/ OnComplete(i) \/ Leave(i) \/ RespawnFails(i)
      PROVE  NoOrphan'
  BY <1>8 DEF Finish, OnComplete, Leave, RespawnFails, Gone
<1>9. ASSUME NEW i \in MatchIds, NEW j \in MatchIds, Respawn(i, j)
      PROVE  NoOrphan'
  BY <1>9 DEF Respawn, Gone
<1>10. CASE Signal \/ ServerShutdown
  BY <1>10 DEF Signal, ServerShutdown
<1>11. QED
  BY <1>1, <1>2, <1>3, <1>4, <1>5, <1>6, <1>7, <1>8, <1>9, <1>10
     DEF ManagerNext, CallerStep, MatchStep

\* An entry of running is removed by the completion of its match, or by Stop.
LEMMA GhostStep ==
  ASSUME ManagerInv, [ManagerNext]_managerVars
  PROVE  RunningHasNoGhosts'
<1> USE DEF ManagerInv, ManagerTypeOK, ManagerTypes, RunningHasNoGhosts,
            matchVars, autoVars, callerVars, shutVars
<1>1. CASE UNCHANGED managerVars
  BY <1>1 DEF managerVars
<1>2. ASSUME NEW c \in Callers,
             \/ \E t \in Templates : CallStart(c, t) \/ CallTrigger(c, t)
             \/ Start(c) \/ SpawnFails(c) \/ StopReturns(c) \/ CancelOne(c)
      PROVE  RunningHasNoGhosts'
  BY <1>2 DEF CallStart, CallTrigger, Call, Start, SpawnFails, StopReturns, CancelOne
<1>3. ASSUME NEW c \in Callers, NEW i \in MatchIds, Spawn(c, i)
      PROVE  RunningHasNoGhosts'
  BY <1>3 DEF Spawn, Reserve, Fresh
<1>4. ASSUME NEW c \in Callers, Stop(c)
      PROVE  RunningHasNoGhosts'
  BY <1>4 DEF Stop
<1>5. ASSUME NEW i \in MatchIds, Insert(i) \/ Finish(i) \/ OnComplete(i)
      PROVE  RunningHasNoGhosts'
  BY <1>5 DEF Insert, Finish, OnComplete
<1>6. ASSUME NEW i \in MatchIds, Leave(i) \/ RespawnFails(i)
      PROVE  RunningHasNoGhosts'
  BY <1>6 DEF Leave, RespawnFails, Gone
<1>7. ASSUME NEW i \in MatchIds, NEW j \in MatchIds, Respawn(i, j)
      PROVE  RunningHasNoGhosts'
  BY <1>7 DEF Respawn, Gone, Fresh
<1>8. CASE Signal \/ ServerShutdown
  BY <1>8 DEF Signal, ServerShutdown
<1>9. QED
  BY <1>1, <1>2, <1>3, <1>4, <1>5, <1>6, <1>7, <1>8 DEF ManagerNext, CallerStep, MatchStep

\* The inductive invariant holds in every reachable state.
THEOREM ManagerInvariant == ManagerSpec => []ManagerInv
<1>1. ManagerInit => ManagerInv
  <2> SUFFICES ASSUME ManagerInit PROVE ManagerInv  OBVIOUS
  <2>1. ManagerTypes  BY DEF ManagerInit, ManagerTypes
  <2>2. CallersConsistent  BY DEF ManagerInit, CallersConsistent
  <2>3. NoOrphan  BY DEF ManagerInit, NoOrphan, Live
  <2>4. RunningHasNoGhosts  BY DEF ManagerInit, RunningHasNoGhosts
  <2>5. QED  BY <2>1, <2>2, <2>3, <2>4 DEF ManagerInv, ManagerTypeOK
<1>2. ManagerInv /\ [ManagerNext]_managerVars => ManagerInv'
  BY TypesStep, CallersStep, OrphanStep, GhostStep DEF ManagerInv, ManagerTypeOK
<1>3. QED  BY <1>1, <1>2, PTL DEF ManagerSpec

\* The variables of Manager are well typed, and its callers consistent.
THEOREM ManagerTypeCorrect == ManagerSpec => []ManagerTypeOK
<1>1. ManagerInv => ManagerTypeOK  BY DEF ManagerInv
<1>2. QED  BY <1>1, ManagerInvariant, PTL

\* Every match being played can be, is being, or has been cancelled.
THEOREM NoMatchIsOrphaned == ManagerSpec => []NoOrphan
<1>1. ManagerInv => NoOrphan  BY DEF ManagerInv
<1>2. QED  BY <1>1, ManagerInvariant, PTL

\* RunningCount and Start's test of running never count a match that has left.
THEOREM RunningIsExact == ManagerSpec => []RunningHasNoGhosts
<1>1. ManagerInv => RunningHasNoGhosts  BY DEF ManagerInv
<1>2. QED  BY <1>1, ManagerInvariant, PTL

-----------------------------------------------------------------------------
(* The loop. *)

\* What keeps the loop going: a match whose completion will respawn, or a spawn
\* under way that cannot fail.
Carries(i) == \/ match[i] \in {"reserved", "live", "ended"}
              \/ match[i] = "leaving" /\ want[i] # "none" /\ ~ MayFail(want[i])
SpawnCarries(c) == op[c] = "spawning" /\ ~ MayFail(template[c])
Carried == (\E i \in MatchIds : Carries(i)) \/ (\E c \in Callers : SpawnCarries(c))

\* A caller's step, other than Start, leaves every carrier but its own spawn.
LEMMA CallerKeepsCarrier ==
  ASSUME ManagerInv, Carried, NEW c \in Callers,
         \/ \E t \in Templates : CallStart(c, t) \/ CallTrigger(c, t)
         \/ Stop(c) \/ CancelOne(c) \/ StopReturns(c) \/ SpawnFails(c)
         \/ \E i \in MatchIds : Spawn(c, i)
  PROVE  Carried'
<1> USE DEF ManagerInv, ManagerTypeOK, ManagerTypes, Carries, SpawnCarries,
            matchVars, autoVars, callerVars, shutVars
<1>1. CASE \E i \in MatchIds : Spawn(c, i)
  <2>1. PICK i \in MatchIds : match' = [match EXCEPT ![i] = "reserved"]
    BY <1>1 DEF Spawn, Reserve
  <2>2. Carries(i)'  BY <2>1
  <2>3. QED  BY <2>2 DEF Carried
<1>2. CASE \/ \E t \in Templates : CallStart(c, t) \/ CallTrigger(c, t)
           \/ Stop(c) \/ CancelOne(c) \/ StopReturns(c) \/ SpawnFails(c)
  <2>1. match' = match /\ want' = want
    BY <1>2 DEF CallStart, CallTrigger, Call, Stop, CancelOne, StopReturns, SpawnFails
  <2>2. \A i \in MatchIds : Carries(i) => Carries(i)'  BY <2>1
  <2>3. ASSUME NEW d \in Callers, SpawnCarries(d)  PROVE SpawnCarries(d)'
    BY <1>2, <2>3 DEF CallStart, CallTrigger, Call, Stop, CancelOne, StopReturns, SpawnFails
  <2>4. QED  BY <2>2, <2>3 DEF Carried
<1>3. QED  BY <1>1, <1>2

\* A match's step hands the loop on, as long as auto is on and its template builds.
LEMMA MatchKeepsCarrier ==
  ASSUME ManagerInv, Carried, auto, ~ MayFail(autoTemplate), ~ baseDone,
         NEW i \in MatchIds, MatchStep(i)
  PROVE  Carried'
<1> USE ManagerAssumption
    DEF ManagerInv, ManagerTypeOK, ManagerTypes, matchVars, autoVars, callerVars, shutVars
<1>1. CASE Insert(i)
  <2>1. match'[i] = "live"  BY <1>1 DEF Insert
  <2>2. QED  BY <2>1 DEF Carried, Carries
<1>2. CASE Finish(i)
  <2>1. match'[i] = "ended"  BY <1>2 DEF Finish
  <2>2. QED  BY <2>1 DEF Carried, Carries
<1>3. CASE OnComplete(i)
  <2>1. match'[i] = "leaving" /\ want'[i] = autoTemplate  BY <1>3 DEF OnComplete
  <2>2. autoTemplate # "none"  BY DEF MayFail
  <2>3. QED  BY <2>1, <2>2 DEF Carried, Carries
<1>4. CASE Leave(i) \/ RespawnFails(i)
  <2>1. ~ Carries(i)
    BY <1>4 DEF Leave, RespawnFails, Gone, Carries
  <2>2. \A j \in MatchIds \ {i} : match'[j] = match[j] /\ want'[j] = want[j]
    <3>1. CASE Leave(i)  BY <3>1 DEF Leave, Gone
    <3>2. CASE RespawnFails(i)  BY <3>2 DEF RespawnFails, Gone
    <3>3. QED  BY <1>4, <3>1, <3>2
  <2>3. UNCHANGED <<op, template>>  BY <1>4 DEF Leave, RespawnFails
  <2>4. QED  BY <2>1, <2>2, <2>3 DEF Carried, Carries, SpawnCarries
<1>5. CASE \E j \in MatchIds : Respawn(i, j)
  <2>1. PICK j \in MatchIds : match' = [match EXCEPT ![i] = "free", ![j] = "reserved"]
    BY <1>5 DEF Respawn
  <2>2. Carries(j)'  BY <2>1 DEF Carries
  <2>3. QED  BY <2>2 DEF Carried
<1>6. QED  BY <1>1, <1>2, <1>3, <1>4, <1>5 DEF MatchStep

\* A Start that finds a match in running has a carrier there, and another one
\* becomes one.
LEMMA StartCarries ==
  ASSUME ManagerInv, NEW c \in Callers, Start(c), ~ MayFail(autoTemplate')
  PROVE  Carried'
<1> USE DEF ManagerInv, ManagerTypeOK, ManagerTypes, matchVars, autoVars, callerVars, shutVars
<1>1. CASE running = {}
  <2>1. op'[c] = "spawning" /\ template'[c] = autoTemplate'  BY <1>1 DEF Start
  <2>2. QED  BY <2>1 DEF Carried, SpawnCarries
<1>2. CASE running # {}
  <2>1. PICK i \in running : match'[i] \in {"live", "ended"}
    BY <1>2 DEF Start, RunningHasNoGhosts
  <2>2. QED  BY <2>1 DEF Carried, Carries
<1>3. QED  BY <1>1, <1>2

\* The loop never loses its last carrier: no interleaving of Start, Trigger, Stop
\* and completions leaves auto on, with a template that builds, and nothing to act
\* on it.
THEOREM LoopIsCarried == ManagerSpec => []LoopNeverStalls
<1> DEFINE Loop == auto /\ ~ MayFail(autoTemplate) /\ ~ baseDone => Carried
<1>1. ManagerInit => Loop  BY DEF ManagerInit
<1>2. ManagerInv /\ Loop /\ [ManagerNext]_managerVars => Loop'
  <2> SUFFICES ASSUME ManagerInv, Loop, [ManagerNext]_managerVars,
                      auto', ~ MayFail(autoTemplate'), ~ baseDone'
               PROVE  Carried'
    BY DEF MayFail
  <2> USE DEF matchVars, autoVars, callerVars, shutVars
  <2>1. ASSUME UNCHANGED <<autoVars, baseDone>>  PROVE Carried
    BY <2>1
  <2> HIDE DEF Loop
  <2>2. CASE UNCHANGED managerVars
    BY <2>1, <2>2 DEF managerVars, Carried, Carries, SpawnCarries
  <2>3. ASSUME NEW c \in Callers,
               \/ \E t \in Templates : CallStart(c, t) \/ CallTrigger(c, t)
               \/ CancelOne(c) \/ StopReturns(c) \/ SpawnFails(c)
               \/ \E i \in MatchIds : Spawn(c, i)
        PROVE  Carried'
    <3>1. UNCHANGED <<autoVars, baseDone>>
      BY <2>3 DEF CallStart, CallTrigger, Call, CancelOne, StopReturns, SpawnFails, Spawn, Reserve
    <3>2. QED  BY <2>1, <2>3, <3>1, CallerKeepsCarrier
  <2>4. ASSUME NEW c \in Callers, Stop(c)  PROVE Carried'
    BY <2>4 DEF Stop
  <2>5. ASSUME NEW c \in Callers, Start(c)  PROVE Carried'
    BY <2>5, StartCarries
  <2>6. ASSUME NEW i \in MatchIds, MatchStep(i)  PROVE Carried'
    <3>1. UNCHANGED <<autoVars, baseDone>>
      BY <2>6 DEF MatchStep, Insert, Finish, OnComplete, Leave, RespawnFails, Respawn
    <3>2. auto /\ ~ MayFail(autoTemplate) /\ ~ baseDone
      BY <3>1 DEF MayFail
    <3>3. QED  BY <2>1, <2>6, <3>1, <3>2, MatchKeepsCarrier
  <2>7. CASE Signal \/ ServerShutdown
    <3>1. baseDone \in BOOLEAN  BY DEF ManagerInv, ManagerTypeOK, ManagerTypes
    <3>2. CASE Signal  BY <3>2 DEF Signal
    <3>3. CASE ServerShutdown
      <4>1. baseDone' = baseDone  BY <3>3 DEF ServerShutdown
      <4>2. baseDone  BY <3>3 DEF ServerShutdown
      <4>3. QED  BY <4>1, <4>2, <3>1
    <3>4. QED  BY <2>7, <3>2, <3>3
  <2>8. ASSUME NEW c \in Callers, CallerStep(c)  PROVE Carried'
    BY <2>8, <2>3, <2>5 DEF CallerStep
  <2>9. ASSUME NEW c \in Callers, NEW t \in Templates, CallStart(c, t) \/ CallTrigger(c, t)
        PROVE  Carried'
    BY <2>9, <2>3
  <2>10. QED
    BY <2>2, <2>4, <2>6, <2>7, <2>8, <2>9 DEF ManagerNext
<1>3. Loop => LoopNeverStalls  BY DEF LoopNeverStalls, Carried, Carries, SpawnCarries
<1> HIDE DEF Loop
<1>4. QED  BY <1>1, <1>2, <1>3, ManagerInvariant, PTL DEF ManagerSpec
=============================================================================
