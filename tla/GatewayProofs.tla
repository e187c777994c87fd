--------------------------- MODULE GatewayProofs ---------------------------
(***************************************************************************)
(* Theorems about Gateway, for any number of clients, matches and          *)
(* messages: the copy-on-write registry loses no client and keeps none.    *)
(***************************************************************************)
EXTENDS Gateway, TLAPS

\* A handler whose pointer is still the registry's holds the registry's map.
LoadsAreCurrent ==
  \A c \in Clients :
    step[c] \in {"swappingIn", "swappingOut"} /\ current[c] => loaded[c] = clients

MapTypes == /\ clients \subseteq Clients
            /\ step \in [Clients -> Steps]
            /\ loaded \in [Clients -> SUBSET Clients]
            /\ current \in [Clients -> BOOLEAN]

MapInv == MapTypes /\ LoadsAreCurrent /\ MapIsExact

-----------------------------------------------------------------------------
(* The registry's map. *)

\* A swap that succeeds replaces the map that was loaded, which is the registry's
\* still; one that fails changes nothing.
LEMMA SwapStep ==
  ASSUME MapInv, NEW c \in Clients, RegisterSwap(c) \/ UnregisterSwap(c)
  PROVE  MapInv'
<1> USE DEF MapInv, MapTypes, LoadsAreCurrent, MapIsExact, Steps
<1>1. CASE RegisterSwap(c) /\ current[c]
  <2>1. /\ step[c] = "swappingIn" /\ step' = [step EXCEPT ![c] = "registered"]
        /\ clients' = loaded[c] \cup {c}
        /\ current' = [d \in Clients |-> FALSE]
        /\ loaded' = [loaded EXCEPT ![c] = {}]
    BY <1>1 DEF RegisterSwap, Swap, Goto
  <2>2. clients' = clients \cup {c}  BY <1>1, <2>1
  <2>3. MapTypes'  BY <2>1, <2>2
  <2>4. LoadsAreCurrent'  BY <2>1
  <2>5. MapIsExact'  BY <2>1, <2>2
  <2>6. QED  BY <2>3, <2>4, <2>5
<1>2. CASE UnregisterSwap(c) /\ current[c]
  <2>1. /\ step[c] = "swappingOut" /\ step' = [step EXCEPT ![c] = "gone"]
        /\ clients' = loaded[c] \ {c}
        /\ current' = [d \in Clients |-> FALSE]
        /\ loaded' = [loaded EXCEPT ![c] = {}]
    BY <1>2 DEF UnregisterSwap, Swap, Goto
  <2>2. clients' = clients \ {c}  BY <1>2, <2>1
  <2>3. MapTypes'  BY <2>1, <2>2
  <2>4. LoadsAreCurrent'  BY <2>1
  <2>5. MapIsExact'  BY <2>1, <2>2
  <2>6. QED  BY <2>3, <2>4, <2>5
<1>3. CASE ~ current[c]
  <2>1. /\ step[c] \in {"swappingIn", "swappingOut"}
        /\ step' = [step EXCEPT ![c] = IF step[c] = "swappingIn" THEN "joining" ELSE "leaving"]
        /\ clients' = clients /\ current' = current
        /\ loaded' = [loaded EXCEPT ![c] = {}]
    BY <1>3 DEF RegisterSwap, UnregisterSwap, Swap, Goto
  <2>2. MapTypes'  BY <2>1
  <2>3. LoadsAreCurrent'  BY <2>1
  <2>4. MapIsExact'  BY <2>1
  <2>5. QED  BY <2>2, <2>3, <2>4
<1>4. QED  BY <1>1, <1>2, <1>3

\* A load begins a swap with the registry's map; it changes nothing else.
LEMMA LoadStep ==
  ASSUME MapInv, NEW c \in Clients, RegisterLoad(c) \/ UnregisterLoad(c)
  PROVE  MapInv'
<1> USE DEF MapInv, MapTypes, LoadsAreCurrent, MapIsExact, Steps
<1>1. CASE RegisterLoad(c)
  BY <1>1 DEF RegisterLoad, Load, Goto
<1>2. CASE UnregisterLoad(c) /\ c \in clients
  <2>1. /\ step[c] = "leaving" /\ step' = [step EXCEPT ![c] = "swappingOut"]
        /\ loaded' = [loaded EXCEPT ![c] = clients]
        /\ current' = [current EXCEPT ![c] = TRUE]
        /\ clients' = clients
    BY <1>2 DEF UnregisterLoad, Load, Goto
  <2>2. MapTypes'  BY <2>1
  <2>3. LoadsAreCurrent'  BY <2>1
  <2>4. MapIsExact'  BY <2>1
  <2>5. QED  BY <2>2, <2>3, <2>4
<1>3. CASE UnregisterLoad(c) /\ c \notin clients
  <2>1. step[c] = "leaving"  BY <1>3 DEF UnregisterLoad, Goto
  <2>2. c \in clients  BY <2>1
  <2>3. QED  BY <1>3, <2>2
<1>4. QED  BY <1>1, <1>2, <1>3

\* The rest of the handler, and the broadcasts, leave the map alone.
LEMMA MapStep == MapInv /\ [GatewayNext]_gatewayVars => MapInv'
<1> SUFFICES ASSUME MapInv, [GatewayNext]_gatewayVars PROVE MapInv'  OBVIOUS
<1> USE DEF mapVars, messageVars, streamVars
<1>1. CASE UNCHANGED gatewayVars
  BY <1>1 DEF gatewayVars, MapInv, MapTypes, LoadsAreCurrent, MapIsExact
<1>2. ASSUME NEW c \in Clients, Handler(c)
      PROVE  MapInv'
  BY <1>2, SwapStep, LoadStep DEF Handler
<1>3. ASSUME NEW c \in Clients, Connect(c) \/ Snapshot(c) \/ Return(c)
      PROVE  MapInv'
  BY <1>3 DEF Connect, Snapshot, Return, Goto, MapInv, MapTypes, LoadsAreCurrent, MapIsExact, Steps
<1>4. CASE \/ \E c \in Clients : Write(c) \/ Offer(c)
           \/ \E m \in Matches : Broadcast(m)
  BY <1>4 DEF Write, Offer, Broadcast, MapInv, MapTypes, LoadsAreCurrent, MapIsExact
<1>5. QED  BY <1>1, <1>2, <1>3, <1>4 DEF GatewayNext

\* The inductive invariant of the map holds in every reachable state.
THEOREM MapInvariant == GatewaySpec => []MapInv
<1>1. GatewayInit => MapInv
  BY DEF GatewayInit, MapInv, MapTypes, LoadsAreCurrent, MapIsExact, Steps
<1>2. QED  BY <1>1, MapStep, PTL DEF GatewaySpec

\* No race between Register and unregister loses a client or keeps one.
THEOREM RegistryIsExact == GatewaySpec => []MapIsExact
<1>1. MapInv => MapIsExact  BY DEF MapInv
<1>2. QED  BY <1>1, MapInvariant, PTL

-----------------------------------------------------------------------------
(* Types, and the bounds of the buffers. *)

\* Every step keeps the variables well typed and each buffer within its capacity.
LEMMA GatewayTypeStep == GatewayTypeOK /\ [GatewayNext]_gatewayVars => GatewayTypeOK'
<1> SUFFICES ASSUME GatewayTypeOK, [GatewayNext]_gatewayVars PROVE GatewayTypeOK'  OBVIOUS
<1> USE GatewayAssumption DEF GatewayTypeOK, Steps, mapVars, messageVars, streamVars
<1>1. CASE UNCHANGED gatewayVars
  BY <1>1 DEF gatewayVars
<1>2. ASSUME NEW c \in Clients, Connect(c) \/ Snapshot(c)
      PROVE  GatewayTypeOK'
  BY <1>2 DEF Connect, Snapshot, Goto
<1>3. ASSUME NEW c \in Clients, Handler(c)
      PROVE  GatewayTypeOK'
  <2>1. /\ clients' \subseteq Clients
        /\ step' \in [Clients -> Steps]
        /\ loaded' \in [Clients -> SUBSET Clients]
        /\ current' \in [Clients -> BOOLEAN]
    <3>1. CASE RegisterLoad(c)  BY <3>1 DEF RegisterLoad, Load, Goto
    <3>2. CASE RegisterSwap(c)  BY <3>2 DEF RegisterSwap, Swap, Goto
    <3>3. CASE UnregisterLoad(c)
      <4>1. step' = [step EXCEPT ![c] = "swappingOut"] \/ step' = [step EXCEPT ![c] = "gone"]
        BY <3>3 DEF UnregisterLoad, Goto
      <4>2. /\ clients' = clients
            /\ loaded' = loaded \/ loaded' = [loaded EXCEPT ![c] = clients]
            /\ current' = current \/ current' = [current EXCEPT ![c] = TRUE]
        BY <3>3 DEF UnregisterLoad, Load
      <4>3. step' \in [Clients -> Steps]  BY <4>1
      <4>4. loaded' \in [Clients -> SUBSET Clients]
        <5>1. clients \in SUBSET Clients  OBVIOUS
        <5>2. CASE loaded' = loaded  BY <5>2
        <5>3. CASE loaded' = [loaded EXCEPT ![c] = clients]  BY <5>1, <5>3
        <5>4. QED  BY <4>2, <5>2, <5>3
      <4>5. current' \in [Clients -> BOOLEAN]  BY <4>2
      <4>6. QED  BY <4>2, <4>3, <4>4, <4>5
    <3>4. CASE UnregisterSwap(c)  BY <3>4 DEF UnregisterSwap, Swap, Goto
    <3>5. QED  BY <1>3, <3>1, <3>2, <3>3, <3>4 DEF Handler
  <2>2. UNCHANGED <<messageVars, streamVars>>
    BY <1>3 DEF Handler, RegisterLoad, RegisterSwap, UnregisterLoad, UnregisterSwap, Load, Swap
  <2>3. QED  BY <2>1, <2>2
<1>4. ASSUME NEW c \in Clients, Return(c)
      PROVE  GatewayTypeOK'
  <2>1. /\ <<>> \in Seq(1..MaxMessages)
        /\ Len(<<>>) <= ClientBuffer
    OBVIOUS
  <2>2. /\ buffer' \in [Clients -> Seq(1..MaxMessages)]
        /\ written' \in [Clients -> Seq(1..MaxMessages)]
    BY <1>4, <2>1 DEF Return
  <2>3. \A d \in Clients : Len(buffer'[d]) <= ClientBuffer  BY <1>4, <2>1 DEF Return
  <2>4. /\ step' \in [Clients -> Steps]
        /\ dropped' \in [Clients -> SUBSET (1..MaxMessages)]
        /\ due' \in [Clients -> SUBSET (1..MaxMessages)]
    BY <1>4 DEF Return
  <2>5. UNCHANGED <<clients, loaded, current, todo, sent>>  BY <1>4 DEF Return
  <2>6. QED  BY <2>2, <2>3, <2>4, <2>5
<1>5. ASSUME NEW c \in Clients, Write(c)
      PROVE  GatewayTypeOK'
  <2>1. /\ buffer[c] \in Seq(1..MaxMessages) /\ buffer[c] # <<>>
        /\ written[c] \in Seq(1..MaxMessages)
    BY <1>5 DEF Write
  <2>2. /\ Tail(buffer[c]) \in Seq(1..MaxMessages)
        /\ Len(Tail(buffer[c])) <= ClientBuffer
        /\ Head(buffer[c]) \in 1..MaxMessages
    BY <2>1
  <2>3. buffer' \in [Clients -> Seq(1..MaxMessages)]  BY <1>5, <2>2 DEF Write
  <2>4. \A d \in Clients : Len(buffer'[d]) <= ClientBuffer  BY <1>5, <2>2 DEF Write
  <2>5. written' \in [Clients -> Seq(1..MaxMessages)]  BY <1>5, <2>1, <2>2 DEF Write
  <2>6. QED  BY <1>5, <2>3, <2>4, <2>5 DEF Write
<1>6. ASSUME NEW c \in Clients, Offer(c)
      PROVE  GatewayTypeOK'
  <2>1. sent \in 1..MaxMessages /\ c \in todo  BY <1>6 DEF Offer
  <2>2. CASE buffer' = buffer /\ dropped' = dropped
    BY <1>6, <2>1, <2>2 DEF Offer
  <2>3. CASE HasRoom(c) /\ Accept(c)
    <3>1. buffer' \in [Clients -> Seq(1..MaxMessages)]  BY <2>1, <2>3 DEF Accept
    <3>2. \A d \in Clients : Len(buffer'[d]) <= ClientBuffer  BY <2>1, <2>3 DEF HasRoom, Accept
    <3>3. QED  BY <1>6, <2>3, <3>1, <3>2 DEF Offer, Accept
  <2>4. CASE Drop(c)
    BY <1>6, <2>1, <2>4 DEF Offer, Drop
  <2>5. QED  BY <1>6, <2>2, <2>3, <2>4 DEF Offer
<1>7. ASSUME NEW m \in Matches, Broadcast(m)
      PROVE  GatewayTypeOK'
  <2>1. sent' \in 1..MaxMessages  BY <1>7 DEF Broadcast
  <2>2. due' \in [Clients -> SUBSET (1..MaxMessages)]
    <3>1. \A d \in Clients : due[d] \cup {sent'} \in SUBSET (1..MaxMessages)  BY <2>1
    <3>2. QED  BY <1>7, <3>1 DEF Broadcast
  <2>3. QED  BY <1>7, <2>1, <2>2 DEF Broadcast
<1>8. QED  BY <1>1, <1>2, <1>3, <1>4, <1>5, <1>6, <1>7 DEF GatewayNext

\* The variables of Gateway are well typed; no buffer holds more than its capacity.
THEOREM GatewayTypeCorrect == GatewaySpec => []GatewayTypeOK
<1>1. GatewayInit => GatewayTypeOK
  BY GatewayAssumption DEF GatewayInit, GatewayTypeOK, Steps
<1>2. QED  BY <1>1, GatewayTypeStep, PTL DEF GatewaySpec

-----------------------------------------------------------------------------
(* What clients are sent. *)

\* What StreamComplete says of one client.
IsComplete(c) ==
  /\ \A i, j \in DOMAIN Delivered(c) : i < j => Delivered(c)[i] < Delivered(c)[j]
  /\ Pending(c) \subseteq due[c] \ dropped[c]
  /\ ToSet(Delivered(c)) = due[c] \ (dropped[c] \cup Pending(c))

\* Before it registers and once its handler has returned, there is nothing.
IsEmpty(c) == written[c] = <<>> /\ buffer[c] = <<>> /\ due[c] = {} /\ dropped[c] = {}

\* What is due has been broadcast, and only what is due is dropped.
IsNumbered(c) == dropped[c] \subseteq due[c] /\ due[c] \subseteq 1 .. sent

\* Only clients that have registered are offered a message, and messages are
\* numbered in the order of their broadcasts.
StreamInv == /\ \A c \in Clients : IF c \in Registered THEN IsComplete(c) ELSE IsEmpty(c)
             /\ \A c \in todo : step[c] \notin {"absent", "joining", "swappingIn"}
             /\ \A c \in Clients : IsNumbered(c)

\* An empty stream is complete if nothing is due.
LEMMA EmptyIsComplete ==
  ASSUME NEW c \in Clients, IsEmpty(c), c \notin todo
  PROVE  IsComplete(c)
<1>1. Delivered(c) = <<>>  BY DEF Delivered, IsEmpty
<1>2. DOMAIN Delivered(c) = {} /\ ToSet(Delivered(c)) = {}  BY <1>1 DEF ToSet
<1>3. QED  BY <1>2 DEF IsComplete, IsEmpty, Pending

\* A step that leaves one client's part of the streams, and whether it is
\* registered, alone.
LEMMA OthersUntouched ==
  ASSUME StreamInv, NEW d \in Clients, d \in Registered' <=> d \in Registered,
         written'[d] = written[d], buffer'[d] = buffer[d],
         due'[d] = due[d], dropped'[d] = dropped[d], sent' = sent, d \in todo' <=> d \in todo
  PROVE  /\ IF d \in Registered' THEN IsComplete(d)' ELSE IsEmpty(d)'
         /\ IsNumbered(d)'
BY DEF StreamInv, IsComplete, IsEmpty, IsNumbered, Delivered, Pending

\* A step of a handler that touches neither messages nor channels.
LEMMA HandlerStep ==
  ASSUME GatewayTypeOK, StreamInv, NEW c \in Clients, Connect(c) \/ Handler(c) \/ Snapshot(c)
  PROVE  StreamInv'
<1>1. UNCHANGED <<todo, sent, buffer, written, dropped, due>>
  BY DEF Connect, Handler, Snapshot, RegisterLoad, RegisterSwap, UnregisterLoad, UnregisterSwap,
         Load, Swap, messageVars, streamVars
<1>2. \A d \in Clients \ {c} : step'[d] = step[d]
  <2>1. \E to : step' = [step EXCEPT ![c] = to]
    BY DEF Connect, Handler, Snapshot, RegisterLoad, RegisterSwap, UnregisterLoad,
           UnregisterSwap, Swap, Goto
  <2>2. QED  BY <2>1 DEF GatewayTypeOK
<1>3. \/ step[c] \in {"absent", "joining", "swappingIn"}
         /\ step'[c] \in {"joining", "swappingIn", "registered"}
      \/ step[c] = "registered" /\ step'[c] = "streaming"
      \/ step[c] \in {"leaving", "swappingOut"} /\ step'[c] \in {"leaving", "swappingOut", "gone"}
  BY DEF Connect, Handler, Snapshot, RegisterLoad, RegisterSwap, UnregisterLoad,
         UnregisterSwap, Swap, Goto, GatewayTypeOK
<1>4. \A d \in todo' : d \in Clients /\ step'[d] \notin {"absent", "joining", "swappingIn"}
  <2>1. TAKE d \in todo'
  <2>2. d \in todo /\ d \in Clients /\ step[d] \notin {"absent", "joining", "swappingIn"}
    BY <1>1 DEF StreamInv, GatewayTypeOK
  <2>3. QED  BY <1>2, <1>3, <2>2
<1>5. ASSUME NEW d \in Clients
      PROVE  /\ IF d \in Registered' THEN IsComplete(d)' ELSE IsEmpty(d)'
             /\ IsNumbered(d)'
  <2>1. CASE d # c \/ step[d] \notin {"absent", "joining", "swappingIn"}
    <3>1. d \in Registered' <=> d \in Registered  BY <1>2, <1>3, <2>1 DEF Registered
    <3>2. QED  BY <1>1, <3>1, OthersUntouched
  <2>2. CASE d = c /\ step[c] \in {"absent", "joining", "swappingIn"}
    <3>1. d \notin todo /\ IsEmpty(d) /\ IsNumbered(d)
      BY <2>2 DEF StreamInv, Registered
    <3>2. IsComplete(d)  BY <3>1, EmptyIsComplete
    <3>3. IsComplete(d)'  BY <1>1, <3>2 DEF IsComplete, Delivered, Pending
    <3>4. IsEmpty(d)'  BY <1>1, <3>1 DEF IsEmpty
    <3>5. IsNumbered(d)'  BY <1>1, <3>1 DEF IsNumbered
    <3>6. QED  BY <3>3, <3>4, <3>5
  <2>3. QED  BY <2>1, <2>2
<1>6. QED  BY <1>4, <1>5 DEF StreamInv

\* The handler returns.
LEMMA ReturnStep ==
  ASSUME GatewayTypeOK, StreamInv, NEW c \in Clients, Return(c)
  PROVE  StreamInv'
<1>1. /\ step' = [step EXCEPT ![c] = "leaving"]
      /\ written' = [written EXCEPT ![c] = <<>>] /\ buffer' = [buffer EXCEPT ![c] = <<>>]
      /\ due' = [due EXCEPT ![c] = {}] /\ dropped' = [dropped EXCEPT ![c] = {}]
      /\ todo' = todo /\ sent' = sent
  BY DEF Return, messageVars
<1>2. c \notin Registered' /\ IsEmpty(c)' /\ IsNumbered(c)'
  BY <1>1 DEF GatewayTypeOK, Registered, IsEmpty, IsNumbered
<1>3. \A d \in Clients \ {c} : /\ IF d \in Registered' THEN IsComplete(d)' ELSE IsEmpty(d)'
                               /\ IsNumbered(d)'
  <2>1. TAKE d \in Clients \ {c}
  <2>2. /\ step'[d] = step[d] /\ written'[d] = written[d] /\ buffer'[d] = buffer[d]
        /\ due'[d] = due[d] /\ dropped'[d] = dropped[d]
    BY <1>1 DEF GatewayTypeOK
  <2>3. d \in Registered' <=> d \in Registered  BY <2>2 DEF Registered
  <2>4. QED  BY <1>1, <2>2, <2>3, OthersUntouched
<1>4. \A d \in todo' : step'[d] \notin {"absent", "joining", "swappingIn"}
  BY <1>1 DEF StreamInv, GatewayTypeOK
<1>5. QED  BY <1>2, <1>3, <1>4 DEF StreamInv

\* A frame is written: what has been delivered stays the same.
LEMMA WriteStep ==
  ASSUME GatewayTypeOK, StreamInv, NEW c \in Clients, Write(c)
  PROVE  StreamInv'
<1> DEFINE w == written[c]
           b == buffer[c]
<1>1. /\ w \in Seq(1 .. MaxMessages) /\ b \in Seq(1 .. MaxMessages) /\ b # <<>>
      /\ written' = [written EXCEPT ![c] = Append(w, Head(b))]
      /\ buffer' = [buffer EXCEPT ![c] = Tail(b)]
      /\ UNCHANGED <<step, due, dropped, todo, sent>>
  BY DEF Write, GatewayTypeOK, messageVars
<1>2. Delivered(c)' = Delivered(c)
  <2>1. written'[c] = Append(w, Head(b)) /\ buffer'[c] = Tail(b)
    BY <1>1 DEF GatewayTypeOK
  <2>2. Append(w, Head(b)) \o Tail(b) = w \o b
    <3> HIDE DEF w, b
    <3>1. QED  BY <1>1
  <2>3. QED  BY <2>1, <2>2 DEF Delivered
<1>3. c \in Registered /\ c \in Registered'
  BY <1>1 DEF Write, Registered
<1>4. IsComplete(c)' /\ IsNumbered(c)'
  BY <1>1, <1>2, <1>3 DEF StreamInv, IsComplete, IsNumbered, Pending
<1>5. \A d \in Clients \ {c} : /\ IF d \in Registered' THEN IsComplete(d)' ELSE IsEmpty(d)'
                               /\ IsNumbered(d)'
  <2>1. TAKE d \in Clients \ {c}
  <2>2. written'[d] = written[d] /\ buffer'[d] = buffer[d]
    BY <1>1 DEF GatewayTypeOK
  <2>3. d \in Registered' <=> d \in Registered  BY <1>1 DEF Registered
  <2>4. QED  BY <1>1, <2>2, <2>3, OthersUntouched
<1>6. QED  BY <1>1, <1>3, <1>4, <1>5 DEF StreamInv

\* A message is offered to one client, which takes it as the last of its stream or
\* misses it for good.
LEMMA OfferStep ==
  ASSUME GatewayTypeOK, StreamInv, NEW c \in Clients, Offer(c)
  PROVE  StreamInv'
<1>1. c \in todo /\ todo' = todo \ {c} /\ UNCHANGED <<step, sent, written, due>>
  BY DEF Offer
<1>2. \A d \in Clients \ {c} : buffer'[d] = buffer[d] /\ dropped'[d] = dropped[d]
  BY DEF Offer, Accept, Drop, GatewayTypeOK
<1>3. \A d \in todo' : step'[d] \notin {"absent", "joining", "swappingIn"}
  BY <1>1 DEF StreamInv
<1>4. \A d \in Clients : d \in Registered' <=> d \in Registered
  BY <1>1 DEF Registered
<1>5. \A d \in Clients \ {c} : /\ IF d \in Registered' THEN IsComplete(d)' ELSE IsEmpty(d)'
                               /\ IsNumbered(d)'
  <2>1. TAKE d \in Clients \ {c}
  <2>2. written'[d] = written[d] /\ due'[d] = due[d] /\ sent' = sent /\ (d \in todo' <=> d \in todo)
    BY <1>1
  <2>3. QED  BY <1>2, <1>4, <2>2, OthersUntouched
<1>6. CASE c \notin Registered
  <2>1. buffer' = buffer /\ dropped' = dropped  BY <1>6 DEF Offer
  <2>2. IsEmpty(c)' /\ IsNumbered(c)'
    BY <1>1, <1>6, <2>1 DEF StreamInv, IsEmpty, IsNumbered
  <2>3. QED  BY <1>3, <1>4, <1>5, <1>6, <2>2 DEF StreamInv
<1>7. CASE c \in Registered /\ HasRoom(c)
  <2> DEFINE s == Delivered(c)
  <2>1. buffer'[c] = Append(buffer[c], sent) /\ dropped' = dropped
    BY <1>7 DEF Offer, Accept, GatewayTypeOK
  <2>2. s \in Seq(Nat) /\ sent \in Nat
    BY GatewayAssumption DEF GatewayTypeOK, Delivered
  <2>3. Delivered(c)' = Append(s, sent)
    <3> DEFINE w == written[c]
               b == buffer[c]
    <3>1. w \in Seq(Nat) /\ b \in Seq(Nat)
      BY GatewayAssumption DEF GatewayTypeOK
    <3>2. w \o Append(b, sent) = Append(w \o b, sent)
      <4> HIDE DEF w, b
      <4>1. QED  BY <2>2, <3>1
    <3>3. QED  BY <1>1, <2>1, <3>2 DEF Delivered
  <2>4. /\ \A i, j \in DOMAIN s : i < j => s[i] < s[j]
        /\ sent \in due[c] /\ sent \notin dropped[c] /\ due[c] \subseteq 1 .. sent
        /\ {s[i] : i \in DOMAIN s} = due[c] \ (dropped[c] \cup {sent})
    BY <1>1, <1>7 DEF StreamInv, IsComplete, IsNumbered, Pending, ToSet
  <2>5. \A i \in DOMAIN s : s[i] < sent
    <3>1. TAKE i \in DOMAIN s
    <3>2. s[i] \in 1 .. sent /\ s[i] # sent  BY <2>4
    <3>3. QED  BY <2>2, <3>2
  <2> HIDE DEF s
  <2> DEFINE t == Append(s, sent)
  <2>6. /\ DOMAIN t = DOMAIN s \cup {Len(s) + 1}
        /\ t[Len(s) + 1] = sent /\ \A i \in DOMAIN s : t[i] = s[i]
    BY <2>2
  <2>7. \A i, j \in DOMAIN t : i < j => t[i] < t[j]
    <3> SUFFICES ASSUME NEW i \in DOMAIN t, NEW j \in DOMAIN t, i < j PROVE t[i] < t[j]  OBVIOUS
    <3>1. i \in DOMAIN s  BY <2>2
    <3>2. QED  BY <2>4, <2>5, <2>6, <3>1
  <2>8. {t[i] : i \in DOMAIN t} = due[c] \ dropped[c]
    BY <2>4, <2>6
  <2> HIDE DEF t
  <2>9. IsComplete(c)'
    BY <1>1, <2>1, <2>3, <2>7, <2>8 DEF IsComplete, Pending, ToSet, t
  <2>10. IsNumbered(c)'  BY <1>1, <2>1 DEF StreamInv, IsNumbered
  <2>11. QED  BY <1>3, <1>4, <1>5, <1>7, <2>9, <2>10 DEF StreamInv
<1>8. CASE c \in Registered /\ ~ HasRoom(c)
  <2>1. buffer' = buffer /\ dropped'[c] = dropped[c] \cup {sent}
    BY <1>8 DEF Offer, Drop, GatewayTypeOK
  <2>2. Delivered(c)' = Delivered(c)  BY <1>1, <2>1 DEF Delivered
  <2>3. IsComplete(c)' /\ IsNumbered(c)'
    BY <1>1, <1>8, <2>1, <2>2 DEF StreamInv, IsComplete, IsNumbered, Pending
  <2>4. QED  BY <1>3, <1>4, <1>5, <1>8, <2>3 DEF StreamInv
<1>9. QED  BY <1>6, <1>7, <1>8

\* A broadcast begins: as the map is exact, the clients it is for are those for
\* which it becomes due, and some whose handlers have returned.
LEMMA BroadcastStep ==
  ASSUME GatewayTypeOK, MapIsExact, StreamInv, NEW m \in Matches, Broadcast(m)
  PROVE  StreamInv'
<1>1. /\ todo = {} /\ sent' = sent + 1 /\ todo' = clients \cap Wanting(m) /\ sent \in Nat
      /\ \A c \in Clients : due'[c] = IF c \in Registered \cap Wanting(m)
                                        THEN due[c] \cup {sent'} ELSE due[c]
      /\ UNCHANGED <<step, buffer, written, dropped>>
  BY DEF Broadcast, GatewayTypeOK
<1>2. ASSUME NEW c \in Clients
      PROVE  /\ IF c \in Registered' THEN IsComplete(c)' ELSE IsEmpty(c)'
             /\ IsNumbered(c)'
  <2>1. Delivered(c)' = Delivered(c) /\ (c \in Registered' <=> c \in Registered)
    BY <1>1 DEF Delivered, Registered
  <2>2. CASE c \in Registered /\ c \in Wanting(m)
    <3>1. c \in todo' /\ due'[c] = due[c] \cup {sent'}
      BY <1>1, <2>2 DEF MapIsExact, Registered
    <3>2. sent' \notin due[c] /\ sent' \notin dropped[c]
      BY <1>1 DEF StreamInv, IsNumbered
    <3>3. QED
      BY <1>1, <2>1, <2>2, <3>1, <3>2 DEF StreamInv, IsComplete, IsNumbered, Pending
  <2>3. CASE c \in Registered /\ c \notin Wanting(m)
    <3>1. c \notin todo' /\ c \notin todo /\ due'[c] = due[c]  BY <1>1, <2>3
    <3>2. QED
      BY <1>1, <2>1, <2>3, <3>1 DEF StreamInv, IsComplete, IsNumbered, Pending
  <2>4. CASE c \notin Registered
    <3>1. due'[c] = due[c]  BY <1>1, <2>4
    <3>2. QED
      BY <1>1, <2>1, <2>4, <3>1 DEF StreamInv, IsEmpty, IsNumbered
  <2>5. QED  BY <2>2, <2>3, <2>4
<1>3. \A c \in todo' : step'[c] \notin {"absent", "joining", "swappingIn"}
  BY <1>1 DEF MapIsExact
<1>4. QED  BY <1>2, <1>3 DEF StreamInv

\* A client misses no message but those that its own full buffer dropped, and gets
\* the others once and in order: for any number of clients, matches and messages.
THEOREM StreamsAreComplete == GatewaySpec => []StreamComplete
<1>1. GatewayInit => StreamInv
  BY DEF GatewayInit, StreamInv, Registered, IsEmpty, IsNumbered
<1>2. StreamInv /\ GatewayTypeOK /\ MapIsExact /\ [GatewayNext]_gatewayVars => StreamInv'
  <2> SUFFICES ASSUME StreamInv, GatewayTypeOK, MapIsExact, [GatewayNext]_gatewayVars
               PROVE  StreamInv'
    OBVIOUS
  <2>1. CASE UNCHANGED gatewayVars
    <3>1. UNCHANGED <<step, todo, sent, buffer, written, dropped, due>>
      BY <2>1 DEF gatewayVars, messageVars, streamVars
    <3>2. Registered' = Registered  BY <3>1 DEF Registered
    <3>3. ASSUME NEW c \in Clients
          PROVE  (IF c \in Registered' THEN IsComplete(c)' ELSE IsEmpty(c)') /\ IsNumbered(c)'
      BY <3>1, <3>2, OthersUntouched
    <3>4. QED  BY <3>1, <3>3 DEF StreamInv
  <2>2. ASSUME NEW c \in Clients, Connect(c) \/ Handler(c) \/ Snapshot(c)
        PROVE  StreamInv'
    BY <2>2, HandlerStep
  <2>3. ASSUME NEW c \in Clients, Return(c)  PROVE StreamInv'  BY <2>3, ReturnStep
  <2>4. ASSUME NEW c \in Clients, Write(c)   PROVE StreamInv'  BY <2>4, WriteStep
  <2>5. ASSUME NEW c \in Clients, Offer(c)   PROVE StreamInv'  BY <2>5, OfferStep
  <2>6. ASSUME NEW m \in Matches, Broadcast(m)  PROVE StreamInv'  BY <2>6, BroadcastStep
  <2>7. QED  BY <2>1, <2>2, <2>3, <2>4, <2>5, <2>6 DEF GatewayNext
<1>3. StreamInv => StreamComplete
  BY DEF StreamInv, StreamComplete, IsComplete, Registered
<1>4. QED  BY <1>1, <1>2, <1>3, RegistryIsExact, GatewayTypeCorrect, PTL DEF GatewaySpec
=============================================================================
