------------------------------ MODULE Gateway ------------------------------
(***************************************************************************)
(* gateway-service's realtime package: the registry of SSE clients         *)
(* (registry.go), an immutable map behind an atomic pointer that each      *)
(* handler replaces by compare-and-swap; the goroutine of the Redis        *)
(* subscription (subscribe.go), which broadcasts each message to the       *)
(* clients of the map it has loaded; and the handler of GET /events        *)
(* (sse.go), from Register to unregister.                                  *)
(*                                                                         *)
(* Compare-and-swap compares pointers, and a map that some handler still   *)
(* refers to is not collected, so no other map has its address: a swap     *)
(* succeeds exactly when no other one has since the load. current[c] says  *)
(* so, and stands for the pointer.                                         *)
(***************************************************************************)
EXTENDS Naturals, Sequences, SequencesExt

CONSTANTS Clients,      \* one per request to GET /events; nextID never repeats
          Matches,
          AllMatches,   \* the empty match_id: every match
          Wants,        \* the match_id that each client asks for
          ClientBuffer, \* capacity of a client's channel (clientBufferSize, 16)
          MaxMessages   \* bound: how many messages are broadcast

ASSUME GatewayAssumption ==
  /\ AllMatches \notin Matches
  /\ Wants \in [Clients -> Matches \cup {AllMatches}]
  /\ ClientBuffer \in Nat \ {0}
  /\ MaxMessages \in Nat

VARIABLES clients,   \* the registry's map: the clients in it
          step,      \* where each client's handler is
          loaded,    \* the map that its Register or unregister has loaded
          current,   \* the registry's pointer is still the one it loaded
          todo,      \* the clients that the broadcast under way still has to offer
                     \* its message
          sent,      \* how many messages have been broadcast: they are numbered
          buffer,    \* each client's channel
          written,   \* history: the updates written to each client
          dropped,   \* history: the messages dropped for each client
          due        \* history: the messages of its match whose broadcast began
                     \* while the client was registered

mapVars     == <<clients, loaded, current>>
messageVars == <<todo, sent>>
streamVars  == <<buffer, written, dropped, due>>
gatewayVars == <<mapVars, step, messageVars, streamVars>>

Steps == {"absent", "joining", "swappingIn", "registered", "streaming",
          "leaving", "swappingOut", "gone"}

GatewayInit == /\ clients = {}
               /\ step = [c \in Clients |-> "absent"]
               /\ loaded = [c \in Clients |-> {}]
               /\ current = [c \in Clients |-> FALSE]
               /\ todo = {}
               /\ sent = 0
               /\ buffer = [c \in Clients |-> <<>>]
               /\ written = [c \in Clients |-> <<>>]
               /\ dropped = [c \in Clients |-> {}]
               /\ due = [c \in Clients |-> {}]

Goto(c, from, to) == step[c] = from /\ step' = [step EXCEPT ![c] = to]

-----------------------------------------------------------------------------
(* Register and unregister: load the map, copy it, swap the copy in. *)

Load(c) == /\ loaded' = [loaded EXCEPT ![c] = clients]
           /\ current' = [current EXCEPT ![c] = TRUE]
           /\ UNCHANGED <<clients, messageVars, streamVars>>

\* Faulty variants: a plain Store of the copy; a loop that does not load again.
StoreCopy(c, from, retry, to, copy) ==
  /\ Goto(c, from, to)
  /\ clients' = copy
  /\ current' = [d \in Clients |-> FALSE]
  /\ loaded' = [loaded EXCEPT ![c] = {}]
  /\ UNCHANGED <<messageVars, streamVars>>

SwapStaleAgain(c, from, retry, to, copy) ==
  /\ Goto(c, from, IF current[c] THEN to ELSE from)
  /\ clients' = IF current[c] THEN copy ELSE clients
  /\ current' = IF current[c] THEN [d \in Clients |-> FALSE] ELSE current
  /\ UNCHANGED <<loaded, messageVars, streamVars>>

\* CompareAndSwap(old, &copy): it succeeds, or the loop begins again.
Swap(c, from, retry, to, copy) ==
  /\ Goto(c, from, IF current[c] THEN to ELSE retry)
  /\ clients' = IF current[c] THEN copy ELSE clients
  /\ current' = IF current[c] THEN [d \in Clients |-> FALSE] ELSE current
  /\ loaded' = [loaded EXCEPT ![c] = {}]
  /\ UNCHANGED <<messageVars, streamVars>>

\* GET /events arrives.
Connect(c) == Goto(c, "absent", "joining") /\ UNCHANGED <<mapVars, messageVars, streamVars>>

RegisterLoad(c) == Goto(c, "joining", "swappingIn") /\ Load(c)
RegisterSwap(c) == Swap(c, "swappingIn", "joining", "registered", loaded[c] \cup {c})

\* The deferred unregister; it has nothing to do if the map lacks the client.
UnregisterLoad(c) ==
  IF c \in clients THEN Goto(c, "leaving", "swappingOut") /\ Load(c)
                   ELSE Goto(c, "leaving", "gone") /\ UNCHANGED <<mapVars, messageVars, streamVars>>
UnregisterSwap(c) == Swap(c, "swappingOut", "leaving", "gone", loaded[c] \ {c})

-----------------------------------------------------------------------------
(* The handler between the two. *)

\* writeSnapshot succeeds.
Snapshot(c) == Goto(c, "registered", "streaming") /\ UNCHANGED <<mapVars, messageVars, streamVars>>

\* case payload := <-ch: the update frame is written.
Write(c) == /\ step[c] = "streaming"
            /\ buffer[c] # <<>>
            /\ written' = [written EXCEPT ![c] = Append(@, Head(buffer[c]))]
            /\ buffer' = [buffer EXCEPT ![c] = Tail(@)]
            /\ UNCHANGED <<mapVars, step, messageVars, dropped, due>>

\* The snapshot fails, a write fails, or the client disconnects: the handler
\* returns. Nobody reads its channel any more, so what is in it, and what is
\* offered to it until it is out of the map, is left out.
Return(c) == /\ step[c] \in {"registered", "streaming"}
             /\ step' = [step EXCEPT ![c] = "leaving"]
             /\ buffer' = [buffer EXCEPT ![c] = <<>>]
             /\ written' = [written EXCEPT ![c] = <<>>]
             /\ dropped' = [dropped EXCEPT ![c] = {}]
             /\ due' = [due EXCEPT ![c] = {}]
             /\ UNCHANGED <<mapVars, messageVars>>

-----------------------------------------------------------------------------
(* Subscribe: one message at a time. A malformed one is skipped, and when the *)
(* loop returns there is no Broadcast any more: neither is a step here.       *)

Wanting(m) == {c \in Clients : Wants[c] \in {m, AllMatches}}

Registered == {c \in Clients : step[c] \in {"registered", "streaming"}}

\* Broadcast loads the map, once.
Broadcast(m) ==
  /\ todo = {}
  /\ sent < MaxMessages
  /\ sent' = sent + 1
  /\ todo' = clients \cap Wanting(m)
  /\ due' = [c \in Clients |-> IF c \in Registered \cap Wanting(m) THEN due[c] \cup {sent'}
                                                                  ELSE due[c]]
  /\ UNCHANGED <<mapVars, step, buffer, written, dropped>>

\* The send to c's channel, which has room; and the default branch, when it is
\* full.
Accept(c) == buffer' = [buffer EXCEPT ![c] = Append(@, sent)] /\ UNCHANGED dropped
Drop(c)   == dropped' = [dropped EXCEPT ![c] = @ \cup {sent}] /\ UNCHANGED buffer

\* Faulty variant: one message too many.
HasRoomAndOne(c) == Len(buffer[c]) <= ClientBuffer

HasRoom(c) == Len(buffer[c]) < ClientBuffer

\* Faulty variants: the send waits for room; the loop ends at a full channel.
OfferBlocks(c) ==
  /\ c \in todo
  /\ IF c \in Registered THEN HasRoom(c) /\ Accept(c) ELSE UNCHANGED <<buffer, dropped>>
  /\ todo' = todo \ {c}
  /\ UNCHANGED <<mapVars, step, sent, written, due>>

OfferGivesUp(c) ==
  /\ c \in todo
  /\ IF c \notin Registered THEN UNCHANGED <<buffer, dropped>>
       ELSE IF HasRoom(c) THEN Accept(c) ELSE Drop(c)
  /\ todo' = IF c \in Registered /\ ~ HasRoom(c) THEN {} ELSE todo \ {c}
  /\ UNCHANGED <<mapVars, step, sent, written, due>>

\* select { case c.ch <- payload: default: } for one client of the map, which are
\* visited in no particular order; the client may have left since.
Offer(c) ==
  /\ c \in todo
  /\ IF c \notin Registered THEN UNCHANGED <<buffer, dropped>>
       ELSE IF HasRoom(c) THEN Accept(c) ELSE Drop(c)
  /\ todo' = todo \ {c}
  /\ UNCHANGED <<mapVars, step, sent, written, due>>

Handler(c) == \/ RegisterLoad(c) \/ RegisterSwap(c)
              \/ UnregisterLoad(c) \/ UnregisterSwap(c)

GatewayNext == \/ \E c \in Clients : \/ Connect(c) \/ Handler(c)
                                     \/ Snapshot(c) \/ Write(c) \/ Return(c)
                                     \/ Offer(c)
               \/ \E m \in Matches : Broadcast(m)

GatewaySpec == GatewayInit /\ [][GatewayNext]_gatewayVars

\* The subscription's goroutine runs, and so do the handlers while they are in
\* Register or unregister. Clients are not assumed to read, or to disconnect.
GatewayFairness == /\ WF_gatewayVars(\E c \in Clients : Offer(c))
                   /\ \A c \in Clients : WF_gatewayVars(Handler(c))

FairGatewaySpec == GatewaySpec /\ GatewayFairness

-----------------------------------------------------------------------------

GatewayTypeOK ==
  /\ clients \subseteq Clients /\ todo \subseteq Clients
  /\ step \in [Clients -> Steps]
  /\ loaded \in [Clients -> SUBSET Clients]
  /\ current \in [Clients -> BOOLEAN]
  /\ sent \in Nat /\ sent <= MaxMessages
  /\ todo # {} => sent # 0
  /\ buffer \in [Clients -> Seq(1..MaxMessages)]
  /\ written \in [Clients -> Seq(1..MaxMessages)]
  /\ \A c \in Clients : Len(buffer[c]) <= ClientBuffer
  /\ dropped \in [Clients -> SUBSET (1..MaxMessages)]
  /\ due \in [Clients -> SUBSET (1..MaxMessages)]

\* The map holds exactly the clients that have registered and not yet
\* unregistered: racing copies neither lose a client (whose page would never be
\* updated) nor bring one back (whose channel nobody would read or remove).
MapIsExact ==
  clients = {c \in Clients : step[c] \in {"registered", "streaming", "leaving", "swappingOut"}}

\* The message of the broadcast under way, if client c is yet to be offered it.
Pending(c) == IF c \in todo THEN {sent} ELSE {}

\* What client c has been sent, and what waits in its channel.
Delivered(c) == written[c] \o buffer[c]

\* A registered client gets each message of its match whose broadcast began after
\* it registered, once and in order, whoever registers, leaves or is slow in the
\* meantime; all it misses is what was dropped while its own buffer was full.
StreamComplete ==
  \A c \in Registered :
    /\ \A i, j \in DOMAIN Delivered(c) : i < j => Delivered(c)[i] < Delivered(c)[j]
    /\ Pending(c) \subseteq due[c] \ dropped[c]
    /\ ToSet(Delivered(c)) = due[c] \ (dropped[c] \cup Pending(c))

\* A slow client, or one that never reads, holds up no one else: every broadcast
\* comes to its end.
BroadcastEnds == todo # {} ~> todo = {}

\* A handler whose client has gone leaves the registry in the end, although its
\* swaps may fail again and again while others come and go. (Finitely many do: a
\* compare-and-swap loop promises nothing against rivals that never end.)
LeaversLeave == \A c \in Clients : step[c] = "leaving" ~> step[c] = "gone"
=============================================================================
