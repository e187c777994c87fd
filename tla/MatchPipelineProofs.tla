------------------------- MODULE MatchPipelineProofs -------------------------
(***************************************************************************)
(* Theorems about MatchPipeline, for every number of matches, workers and  *)
(* restarts, every feed and every buffer size.                             *)
(***************************************************************************)
EXTENDS MatchPipeline, MatchLogProofs, SequenceTheorems

(* Induction over sets again (NatInSet), for sequences. *)

LEMMA SeqInSet ==
  ASSUME NEW A, NEW S, <<>> \in S,
         \A s \in Seq(A) : \A e \in A : s \in S => Append(s, e) \in S
  PROVE  Seq(A) \subseteq S
<1> DEFINE N == {n \in Nat : \A s \in Seq(A) : Len(s) = n => s \in S}
<1>1. 0 \in N  BY EmptySeq
<1>2. ASSUME NEW n \in Nat, n \in N  PROVE n + 1 \in N
  <2> SUFFICES ASSUME NEW s \in Seq(A), Len(s) = n + 1 PROVE s \in S  OBVIOUS
  <2>1. s # <<>>  BY <1>2
  <2>2. PICK r \in Seq(A), e \in A : s = Append(r, e)  BY <2>1, SequenceEmptyOrAppend
  <2>3. Len(r) = n  BY <1>2, <2>2, AppendProperties
  <2>4. QED  BY <1>2, <2>2, <2>3
<1>3. Nat \subseteq N
  <2> HIDE DEF N
  <2>1. QED  BY <1>1, <1>2, NatInSet
<1>4. QED  BY <1>3, LenProperties

LEMMA ConcatAppend ==
  ASSUME NEW A, NEW p \in Seq(A), NEW q \in Seq(A), NEW x \in A
  PROVE  p \o Append(q, x) = Append(p \o q, x)
<1>1. <<x>> \in Seq(A) /\ p \o q \in Seq(A)  BY ConcatProperties
<1>2. Append(q, x) = q \o <<x>> /\ Append(p \o q, x) = (p \o q) \o <<x>>
  BY <1>1, AppendIsConcat
<1>3. QED  BY <1>1, <1>2, ConcatAssociative

-----------------------------------------------------------------------------
(* The events of a match among those of a queue. *)

Wanted(m, x) == Routed(x) /\ x.match = m

\* The recursion of Of, written as an equation.
FilterOf(m, q, f) == f = [i \in 0 .. Len(q) |-> IF i = 0 THEN <<>>
                                                ELSE IF Wanted(m, q[i]) THEN Append(f[i - 1], q[i])
                                                ELSE f[i - 1]]

LEMMA FilterExists ==
  ASSUME NEW m, NEW A, NEW q \in Seq(A)
  PROVE  \E f : FilterOf(m, q, f) /\ Of(m, q) = f[Len(q)]
<1> DEFINE Part(n, h) == h = [i \in 0 .. n |-> IF i = 0 THEN <<>>
                                               ELSE IF Wanted(m, q[i]) THEN Append(h[i - 1], q[i])
                                               ELSE h[i - 1]]
           N == {n \in Nat : \E h : Part(n, h)}
<1>1. 0 \in N
  <2>1. Part(0, [i \in 0 .. 0 |-> <<>>])  OBVIOUS
  <2>2. QED  BY <2>1
<1>2. ASSUME NEW n \in Nat, n \in N  PROVE n + 1 \in N
  <2>1. PICK f : Part(n, f)  BY <1>2
  <2>2. /\ f[0] = <<>>
        /\ \A i \in 1 .. n : f[i] = IF Wanted(m, q[i]) THEN Append(f[i - 1], q[i]) ELSE f[i - 1]
    <3>1. 0 \in 0 .. n /\ 1 .. n \subseteq 0 .. n /\ 0 \notin 1 .. n  OBVIOUS
    <3>2. QED  BY <2>1, <3>1
  <2> DEFINE last == IF Wanted(m, q[n + 1]) THEN Append(f[n], q[n + 1]) ELSE f[n]
             g == [i \in 0 .. n + 1 |-> IF i <= n THEN f[i] ELSE last]
  <2>3. /\ \A i \in 0 .. n : g[i] = f[i]
        /\ g[n + 1] = last
    <3> HIDE DEF last
    <3>1. QED  OBVIOUS
  <2>4. Part(n + 1, g)
    <3> DEFINE body(i) == IF i = 0 THEN <<>>
                          ELSE IF Wanted(m, q[i]) THEN Append(g[i - 1], q[i])
                          ELSE g[i - 1]
    <3>1. ASSUME NEW i \in 0 .. n + 1  PROVE  g[i] = body(i)
      <4> HIDE DEF g
      <4>1. CASE i = 0  BY <4>1, <2>2, <2>3
      <4>2. CASE i \in 1 .. n
        <5>1. g[i] = f[i] /\ g[i - 1] = f[i - 1]  BY <4>2, <2>3
        <5>2. QED  BY <4>2, <5>1, <2>2
      <4>3. CASE i = n + 1
        <5>1. g[i - 1] = f[n] /\ i # 0 /\ i - 1 = n  BY <4>3, <2>3
        <5>2. QED  BY <4>3, <5>1, <2>3
      <4>4. QED  BY <4>1, <4>2, <4>3
    <3>2. g = [i \in 0 .. n + 1 |-> g[i]]  OBVIOUS
    <3> HIDE DEF g
    <3>3. g = [i \in 0 .. n + 1 |-> body(i)]
      <4> HIDE DEF body
      <4>1. QED  BY <3>1, <3>2
    <3>4. QED  BY <3>3
  <2> HIDE DEF g, Part
  <2>5. QED  BY <2>4
<1>3. Nat \subseteq N
  <2> HIDE DEF N
  <2>1. QED  BY <1>1, <1>2, NatInSet
<1>4. Len(q) \in Nat  OBVIOUS
<1>5. \E h : Part(Len(q), h)  BY <1>3, <1>4
<1>6. Part(Len(q), CHOOSE h : Part(Len(q), h))  BY <1>5
<1>7. Of(m, q) = (CHOOSE h : Part(Len(q), h))[Len(q)]  BY DEF Of, Wanted
<1>8. QED  BY <1>6, <1>7 DEF FilterOf

LEMMA OfEmpty ==
  ASSUME NEW m
  PROVE  Of(m, <<>>) = <<>>
<1>1. <<>> \in Seq({})  OBVIOUS
<1>2. PICK f : FilterOf(m, <<>>, f) /\ Of(m, <<>>) = f[Len(<<>>)]  BY <1>1, FilterExists
<1>3. QED  BY <1>2 DEF FilterOf

\* One more message.
LEMMA OfAppend ==
  ASSUME NEW m, NEW A, NEW q \in Seq(A), NEW x \in A
  PROVE  Of(m, Append(q, x)) = IF Wanted(m, x) THEN Append(Of(m, q), x) ELSE Of(m, q)
<1> DEFINE r == Append(q, x)
           n == Len(q)
<1>1. r \in Seq(A) /\ n \in Nat /\ Len(r) = n + 1 /\ r[n + 1] = x /\ \A i \in 1 .. n : r[i] = q[i]
  BY AppendProperties
<1>2. PICK f : FilterOf(m, q, f) /\ Of(m, q) = f[n]  BY FilterExists
<1>3. PICK g : FilterOf(m, r, g) /\ Of(m, r) = g[n + 1]  BY <1>1, FilterExists
<1> HIDE DEF r, n
<1>4. /\ f[0] = <<>> /\ g[0] = <<>>
      /\ \A i \in 1 .. n : f[i] = IF Wanted(m, q[i]) THEN Append(f[i - 1], q[i]) ELSE f[i - 1]
      /\ \A i \in 1 .. n + 1 : g[i] = IF Wanted(m, r[i]) THEN Append(g[i - 1], r[i]) ELSE g[i - 1]
  <2>1. Len(q) = n /\ Len(r) = n + 1  BY <1>1 DEF n
  <2>2. f = [i \in 0 .. n |-> IF i = 0 THEN <<>>
                              ELSE IF Wanted(m, q[i]) THEN Append(f[i - 1], q[i]) ELSE f[i - 1]]
    BY <1>2, <2>1 DEF FilterOf
  <2>3. g = [i \in 0 .. n + 1 |-> IF i = 0 THEN <<>>
                                  ELSE IF Wanted(m, r[i]) THEN Append(g[i - 1], r[i]) ELSE g[i - 1]]
    BY <1>3, <2>1 DEF FilterOf
  <2>4. 0 \in 0 .. n /\ 0 \in 0 .. n + 1 /\ 1 .. n \subseteq 0 .. n
        /\ 1 .. n + 1 \subseteq 0 .. n + 1 /\ 0 \notin 1 .. n + 1 /\ 0 \notin 1 .. n
    BY <1>1
  <2>5. f[0] = <<>> /\ g[0] = <<>>  BY <2>2, <2>3, <2>4
  <2>6. \A i \in 1 .. n : f[i] = IF Wanted(m, q[i]) THEN Append(f[i - 1], q[i]) ELSE f[i - 1]
    BY <2>2, <2>4
  <2>7. \A i \in 1 .. n + 1 : g[i] = IF Wanted(m, r[i]) THEN Append(g[i - 1], r[i]) ELSE g[i - 1]
    BY <2>3, <2>4
  <2>8. QED  BY <2>5, <2>6, <2>7
<1> DEFINE N == {k \in Nat : k <= n => f[k] = g[k]}
<1>5. 0 \in N  BY <1>4
<1>6. ASSUME NEW k \in Nat, k \in N  PROVE k + 1 \in N
  <2> SUFFICES ASSUME k + 1 <= n PROVE f[k + 1] = g[k + 1]  OBVIOUS
  <2>1. k + 1 \in 1 .. n /\ k + 1 \in 1 .. n + 1 /\ (k + 1) - 1 = k  BY <1>1
  <2>2. f[k] = g[k] /\ r[k + 1] = q[k + 1]  BY <1>1, <1>6, <2>1
  <2>3. QED  BY <2>1, <2>2, <1>4
<1>7. Nat \subseteq N
  <2> HIDE DEF N
  <2>1. QED  BY <1>5, <1>6, NatInSet
<1>8. f[n] = g[n]  BY <1>1, <1>7
<1>9. g[n + 1] = IF Wanted(m, x) THEN Append(g[n], x) ELSE g[n]
  <2>1. n + 1 \in 1 .. n + 1 /\ (n + 1) - 1 = n  BY <1>1
  <2>2. QED  BY <2>1, <1>1, <1>4
<1>10. QED  BY <1>2, <1>3, <1>8, <1>9 DEF r

LEMMA OfType ==
  ASSUME NEW m, NEW A, NEW q \in Seq(A)
  PROVE  Of(m, q) \in Seq({x \in A : Wanted(m, x)})
<1> DEFINE B == {x \in A : Wanted(m, x)}
           S == {s \in Seq(A) : Of(m, s) \in Seq(B)}
<1>1. <<>> \in S  BY OfEmpty, EmptySeq
<1>2. ASSUME NEW s \in Seq(A), NEW e \in A, s \in S  PROVE Append(s, e) \in S
  <2>1. Of(m, s) \in Seq(B) /\ (Wanted(m, e) => e \in B)  BY <1>2
  <2>2. Append(s, e) \in Seq(A)  BY AppendProperties
  <2>3. Of(m, Append(s, e)) = IF Wanted(m, e) THEN Append(Of(m, s), e) ELSE Of(m, s)  BY OfAppend
  <2> HIDE DEF B
  <2>4. Of(m, Append(s, e)) \in Seq(B)  BY <2>1, <2>3, AppendProperties
  <2>5. QED  BY <2>2, <2>4
<1>3. Seq(A) \subseteq S
  <2> HIDE DEF S
  <2>1. QED  BY <1>1, <1>2, SeqInSet
<1>4. QED  BY <1>3

LEMMA OfSeq ==
  ASSUME NEW m, NEW A, NEW q \in Seq(A)
  PROVE  Of(m, q) \in Seq(A)
<1> DEFINE B == {x \in A : Wanted(m, x)}
<1>1. Of(m, q) \in Seq(B)  BY OfType
<1>2. B \subseteq A  OBVIOUS
<1> HIDE DEF B
<1>3. QED  BY <1>1, <1>2

\* The filter goes through a queue piece by piece.
LEMMA OfConcat ==
  ASSUME NEW m, NEW A, NEW p \in Seq(A), NEW q \in Seq(A)
  PROVE  Of(m, p \o q) = Of(m, p) \o Of(m, q)
<1> DEFINE S == {s \in Seq(A) : Of(m, p \o s) = Of(m, p) \o Of(m, s)}
<1>1. <<>> \in S
  <2>1. Of(m, p) \in Seq(A)  BY OfSeq
  <2>2. p \o <<>> = p /\ Of(m, p) \o <<>> = Of(m, p)  BY <2>1, ConcatEmptySeq
  <2>3. QED  BY <2>2, OfEmpty, EmptySeq
<1>2. ASSUME NEW s \in Seq(A), NEW e \in A, s \in S  PROVE Append(s, e) \in S
  <2>1. p \o Append(s, e) = Append(p \o s, e) /\ p \o s \in Seq(A) /\ Append(s, e) \in Seq(A)
    BY ConcatAppend, ConcatProperties, AppendProperties
  <2>2. Of(m, Append(p \o s, e)) = IF Wanted(m, e) THEN Append(Of(m, p \o s), e) ELSE Of(m, p \o s)
    BY <2>1, OfAppend
  <2>3. Of(m, Append(s, e)) = IF Wanted(m, e) THEN Append(Of(m, s), e) ELSE Of(m, s)
    BY OfAppend
  <2>4. Of(m, p) \in Seq(A) /\ Of(m, s) \in Seq(A)  BY OfSeq
  <2>5. Of(m, p) \o Append(Of(m, s), e) = Append(Of(m, p) \o Of(m, s), e)  BY <2>4, ConcatAppend
  <2>6. Of(m, p \o s) = Of(m, p) \o Of(m, s)  BY <1>2
  <2>7. Of(m, Append(p \o s, e)) = Of(m, p) \o Of(m, Append(s, e))  BY <2>2, <2>3, <2>5, <2>6
  <2>8. QED  BY <2>1, <2>7
<1>3. Seq(A) \subseteq S
  <2> HIDE DEF S
  <2>1. QED  BY <1>1, <1>2, SeqInSet
<1>4. QED  BY <1>3

-----------------------------------------------------------------------------
(* The inductive invariant, in parts. *)

\* What a worker has was routed to it.
Sharded ==
  \A w \in Workers :
    /\ busy[w] # NoItem => Routed(busy[w]) /\ Route(busy[w]) = w
    /\ \A i \in 1 .. Len(chans[w]) : Routed(chans[w][i]) /\ Route(chans[w][i]) = w

\* The events of match m that this process still has to settle, the oldest first.
InTransit(m) == InFlight(m) \o Of(m, InHand(reader))

Above(row, n) == row # NoRow => n > row.lastSequence

\* q comes from the first p events of the feed of m, in its order, and none of it has
\* been overtaken by the row.
Follows(m, q, p, row) == /\ \A i \in 1 .. Len(q) : \E k \in 1 .. p : q[i] = Feed[m][k]
                         /\ Ascending(q)
                         /\ \A i \in 1 .. Len(q) : Above(row, q[i].sequence)

\* What is in transit follows the row, and so does what is still to be published.
InFeedOrder ==
  \A m \in Matches :
    /\ published[m] <= Len(Feed[m])
    /\ Follows(m, InTransit(m), published[m], rows[m])
    /\ \A k \in published[m] + 1 .. Len(Feed[m]) : Above(rows[m], Feed[m][k].sequence)

\* The stages of a shutdown, each with what the previous ones have established.
Stages ==
  /\ msgsClosed => ~ subOpen /\ reader = NoItem
  /\ chansClosed <=> run \in {"closing", "returned"}
  /\ chansClosed => held = NoItem /\ msgs = <<>> /\ msgsClosed
  /\ exited # {} => chansClosed
  /\ \A w \in exited : chans[w] = <<>> /\ busy[w] = NoItem
  /\ run = "returned" => exited = Workers
  /\ main = "exited" => run = "returned"

\* What has been settled is recorded, or its Apply returned an error.
SettledRecorded == \A m \in Matches : ToSet(settled[m]) \subseteq timeline[m] \cup failed

PipeInv == /\ PipeTypeOK
           /\ Sharded
           /\ InOrderNothingLost
           /\ InFeedOrder
           /\ Stages
           /\ SettledRecorded

-----------------------------------------------------------------------------
(* Types. *)

LEMMA EventFacts ==
  ASSUME NEW e \in Events
  PROVE  /\ e \in Event /\ e.match \in Matches /\ e.sequence \in Nat
         /\ e # NoItem /\ e # Garbage /\ Route(e) \in Workers
BY EventsAssumption, PipelineAssumption DEF Event, Route

LEMMA FeedLength ==
  ASSUME NEW m \in Matches
  PROVE  Len(Feed[m]) \in Nat
<1> DEFINE Own == {e \in Events : e.match = m}
<1>1. Feed[m] \in Seq(Own)  BY PipelineAssumption
<1> HIDE DEF Own
<1>2. QED  BY <1>1, LenProperties

LEMMA FeedFacts ==
  ASSUME NEW m \in Matches, NEW k \in 1 .. Len(Feed[m])
  PROVE  /\ Feed[m][k] \in Events /\ Feed[m][k].match = m /\ Feed[m][k].sequence > 0
         /\ Len(Feed[m]) \in Nat
         /\ \A j \in 1 .. Len(Feed[m]) : k < j => Feed[m][k].sequence < Feed[m][j].sequence
<1> DEFINE Own == {e \in Events : e.match = m}
<1>1. /\ Feed[m] \in Seq(Own) /\ Ascending(Feed[m])
      /\ \A i \in DOMAIN Feed[m] : Feed[m][i].sequence > 0
  BY PipelineAssumption
<1>2. Feed[m][k] \in Own /\ Len(Feed[m]) \in Nat /\ DOMAIN Feed[m] = 1 .. Len(Feed[m])
  <2> HIDE DEF Own
  <2>1. QED  BY <1>1, ElementOfSeq, LenProperties
<1>3. QED  BY <1>1, <1>2 DEF Ascending

\* A history takes the item if it belongs to the match.
LEMMA LogFields ==
  ASSUME NEW h \in [Matches -> Seq(Events)], NEW e \in Messages
  PROVE  /\ Log(h, e) \in [Matches -> Seq(Events)]
         /\ \A m \in Matches : Log(h, e)[m] = IF Wanted(m, e) THEN Append(h[m], e) ELSE h[m]
<1>1. CASE Routed(e)
  <2>1. e \in Events  BY <1>1 DEF Routed, Messages
  <2>2. e.match \in Matches  BY <2>1, EventFacts
  <2>3. Append(h[e.match], e) \in Seq(Events)  BY <2>1, <2>2, AppendProperties
  <2>4. QED  BY <1>1, <2>2, <2>3 DEF Log, Wanted
<1>2. CASE ~ Routed(e)  BY <1>2 DEF Log, Wanted
<1>3. QED  BY <1>1, <1>2

LEMMA RecordTypes ==
  ASSUME LogTypeOK, NEW e \in Events, Record(e)
  PROVE  LogTypeOK'
<1>1. /\ e \in Event /\ e.match \in Matches
      /\ rows' = [rows EXCEPT ![e.match] = Reduce(LoadOrCreate(rows[e.match], e), e)]
      /\ timeline' = [timeline EXCEPT ![e.match] = timeline[e.match] \cup {e}]
  BY EventFacts DEF Record
<1>2. rows[e.match] \in Row \cup {NoRow}  BY <1>1 DEF LogTypeOK
<1>3. Reduce(LoadOrCreate(rows[e.match], e), e) \in Row
  BY <1>1, <1>2, LoadOrCreateType, ReduceFields
<1>4. QED  BY <1>1, <1>3 DEF LogTypeOK

LEMMA FreshTypes ==
  ASSUME PipeTypeOK, FreshProcess, restarts' \in 0 .. MaxRestarts,
         main' \in {"serving", "stopping", "exited", "killed"}
  PROVE  PipeTypeOK'
<1>1. LogTypeOK'  BY DEF PipeTypeOK, FreshProcess, LogTypeOK, logVars
<1>2. <<>> \in Seq(Messages) /\ <<>> \in Seq(Events) /\ Len(<<>>) = 0  BY EmptySeq
<1>3. /\ chans' \in [Workers -> Seq(Events)]
      /\ \A w \in Workers : Len(chans'[w]) <= ChannelBuffer
      /\ busy' \in [Workers -> Events \cup {NoItem}]
      /\ received' \in [Matches -> Seq(Events)] /\ settled' \in [Matches -> Seq(Events)]
  BY <1>2, PipelineAssumption DEF FreshProcess
<1>4. msgs' \in Seq(Messages) /\ Len(msgs') <= MsgsBuffer
  BY <1>2, PipelineAssumption DEF FreshProcess
<1>5. published' \in [Matches -> Nat] /\ restarts' \in 0 .. MaxRestarts
  BY DEF FreshProcess, PipeTypeOK
<1>6. {reader', held'} \subseteq Messages \cup {NoItem} /\ failed' \subseteq Events
      /\ {msgsClosed', subOpen', chansClosed', ctxDone'} \subseteq BOOLEAN
      /\ exited' \subseteq Workers /\ run' \in {"select", "draining", "closing", "returned"}
  BY DEF FreshProcess
<1>7. QED  BY <1>1, <1>3, <1>4, <1>5, <1>6 DEF PipeTypeOK

LEMMA PipeTypeStep ==
  ASSUME PipeTypeOK, PipeNext
  PROVE  PipeTypeOK'
<1> USE DEF logVars, feedVars, redisVars, runVars, poolVars, mainVars, historyVars
<1>1. ASSUME NEW m \in Matches, Deliver(m)  PROVE PipeTypeOK'
  <2>1. published[m] \in Nat /\ published[m] + 1 \in 1 .. Len(Feed[m])
    <3>1. published[m] \in Nat /\ Feed[m] \in Seq({e \in Events : e.match = m})
      BY PipelineAssumption DEF PipeTypeOK
    <3>2. Len(Feed[m]) \in Nat  BY <3>1
    <3>3. QED  BY <1>1, <3>1, <3>2 DEF Deliver, Publish
  <2>2. reader' \in Messages  BY <1>1, <2>1, FeedFacts DEF Deliver, Messages
  <2>3. published' \in [Matches -> Nat]  BY <1>1, <2>1 DEF Deliver, Publish, PipeTypeOK
  <2>4. QED  BY <1>1, <2>2, <2>3 DEF Deliver, Publish, PipeTypeOK, LogTypeOK
<1>2. ASSUME NEW m \in Matches, Miss(m)  PROVE PipeTypeOK'
  <2>1. published' \in [Matches -> Nat]  BY <1>2 DEF Miss, Publish, PipeTypeOK
  <2>2. QED  BY <1>2, <2>1 DEF Miss, Publish, PipeTypeOK, LogTypeOK
<1>3. CASE DeliverGarbage  BY <1>3 DEF DeliverGarbage, PipeTypeOK, LogTypeOK, Messages
<1>4. CASE ReaderDrop  BY <1>4 DEF ReaderDrop, PipeTypeOK, LogTypeOK
<1>5. CASE ReaderPut
  <2>1. reader \in Messages /\ msgs \in Seq(Messages)  BY <1>5 DEF ReaderPut, PipeTypeOK
  <2>2. msgs' \in Seq(Messages) /\ Len(msgs') <= MsgsBuffer
    BY <1>5, <2>1, AppendProperties, LenProperties, PipelineAssumption DEF ReaderPut
  <2>3. received' \in [Matches -> Seq(Events)]  BY <1>5, <2>1, LogFields DEF ReaderPut, PipeTypeOK
  <2>4. QED  BY <1>5, <2>2, <2>3 DEF ReaderPut, PipeTypeOK, LogTypeOK
<1>6. CASE ReaderExit  BY <1>6 DEF ReaderExit, PipeTypeOK, LogTypeOK
<1>7. CASE Cancel  BY <1>7 DEF Cancel, PipeTypeOK, LogTypeOK
<1>8. CASE Take
  <2>1. msgs \in Seq(Messages) /\ msgs # <<>>  BY <1>8 DEF Take, PipeTypeOK
  <2>2. Head(msgs) \in Messages /\ Tail(msgs) \in Seq(Messages) /\ Len(Tail(msgs)) <= Len(msgs)
    BY <2>1, HeadTailProperties, LenProperties
  <2>3. Len(Tail(msgs)) <= MsgsBuffer
    BY <2>1, <2>2, LenProperties, PipelineAssumption DEF PipeTypeOK
  <2>4. QED  BY <1>8, <2>2, <2>3 DEF Take, PipeTypeOK, LogTypeOK
<1>9. CASE Discard  BY <1>9 DEF Discard, PipeTypeOK, LogTypeOK
<1>10. CASE Send
  <2>1. held \in Events  BY <1>10 DEF Send, PipeTypeOK, Messages, Routed
  <2>2. Route(held) \in Workers  BY <2>1, EventFacts
  <2>3. chans[Route(held)] \in Seq(Events)  BY <2>2 DEF PipeTypeOK
  <2>4. /\ Append(chans[Route(held)], held) \in Seq(Events)
        /\ Len(Append(chans[Route(held)], held)) <= ChannelBuffer
    BY <1>10, <2>1, <2>3, AppendProperties, LenProperties, PipelineAssumption DEF Send
  <2>5. /\ chans' \in [Workers -> Seq(Events)]
        /\ \A w \in Workers : Len(chans'[w]) <= ChannelBuffer
    BY <1>10, <2>2, <2>4 DEF Send, PipeTypeOK
  <2>6. QED  BY <1>10, <2>5 DEF Send, PipeTypeOK, LogTypeOK
<1>11. CASE ClosePool  BY <1>11 DEF ClosePool, PipeTypeOK, LogTypeOK
<1>12. CASE RunReturn  BY <1>12 DEF RunReturn, PipeTypeOK, LogTypeOK
<1>13. ASSUME NEW w \in Workers, WorkerTake(w)  PROVE PipeTypeOK'
  <2>1. chans[w] \in Seq(Events) /\ chans[w] # <<>>  BY <1>13 DEF WorkerTake, PipeTypeOK
  <2>2. /\ Head(chans[w]) \in Events /\ Tail(chans[w]) \in Seq(Events)
        /\ Len(Tail(chans[w])) <= Len(chans[w])
    BY <2>1, HeadTailProperties, LenProperties
  <2>3. Len(Tail(chans[w])) <= ChannelBuffer
    BY <2>1, <2>2, LenProperties, PipelineAssumption DEF PipeTypeOK
  <2>4. /\ chans' \in [Workers -> Seq(Events)]
        /\ \A v \in Workers : Len(chans'[v]) <= ChannelBuffer
        /\ busy' \in [Workers -> Events \cup {NoItem}]
    BY <1>13, <2>2, <2>3 DEF WorkerTake, PipeTypeOK
  <2>5. QED  BY <1>13, <2>4 DEF WorkerTake, PipeTypeOK, LogTypeOK
<1>14. ASSUME NEW w \in Workers, WorkerDone(w), LogTypeOK', failed' \subseteq Events
       PROVE  PipeTypeOK'
  <2>1. busy[w] \in Events  BY <1>14 DEF WorkerDone, PipeTypeOK
  <2>2. settled' \in [Matches -> Seq(Events)]
    BY <1>14, <2>1, LogFields DEF WorkerDone, PipeTypeOK, Messages
  <2>3. busy' \in [Workers -> Events \cup {NoItem}]  BY <1>14 DEF WorkerDone, PipeTypeOK
  <2>4. QED  BY <1>14, <2>2, <2>3 DEF WorkerDone, PipeTypeOK
<1>15. ASSUME NEW w \in Workers, WorkerApply(w)  PROVE PipeTypeOK'
  <2>1. busy[w] \in Events  BY <1>15 DEF WorkerApply, WorkerDone, PipeTypeOK
  <2>2. LogTypeOK'
    <3>1. CASE IsStale(busy[w])  BY <1>15, <3>1 DEF WorkerApply, PipeTypeOK, LogTypeOK
    <3>2. CASE ~ IsStale(busy[w])  BY <1>15, <2>1, <3>2, RecordTypes DEF WorkerApply, PipeTypeOK
    <3>3. QED  BY <3>1, <3>2
  <2>3. QED  BY <1>14, <1>15, <2>2 DEF WorkerApply, PipeTypeOK
<1>16. ASSUME NEW w \in Workers, WorkerFail(w)  PROVE PipeTypeOK'
  <2>1. busy[w] \in Events  BY <1>16 DEF WorkerFail, WorkerDone, PipeTypeOK
  <2>2. LogTypeOK' /\ failed' \subseteq Events
    BY <1>16, <2>1 DEF WorkerFail, PipeTypeOK, LogTypeOK
  <2>3. QED  BY <1>14, <1>16, <2>2 DEF WorkerFail
<1>17. ASSUME NEW w \in Workers, WorkerExit(w)  PROVE PipeTypeOK'
  BY <1>17 DEF WorkerExit, PipeTypeOK, LogTypeOK
<1>18. CASE Signal  BY <1>18 DEF Signal, PipeTypeOK, LogTypeOK
<1>19. CASE ServeReturns  BY <1>19 DEF ServeReturns, PipeTypeOK, LogTypeOK
<1>20. CASE Exit  BY <1>20 DEF Exit, PipeTypeOK, LogTypeOK
<1>21. CASE Kill
  <2>1. restarts' \in 0 .. MaxRestarts  BY <1>21 DEF Kill, PipeTypeOK
  <2>2. QED  BY <1>21, <2>1, FreshTypes DEF Kill
<1>22. CASE Restart
  <2>1. restarts' \in 0 .. MaxRestarts  BY <1>22, PipelineAssumption DEF Restart, PipeTypeOK
  <2>2. QED  BY <1>22, <2>1, FreshTypes DEF Restart
<1>23. QED
  BY <1>1, <1>2, <1>3, <1>4, <1>5, <1>6, <1>7, <1>8, <1>9, <1>10, <1>11, <1>12, <1>13, <1>15,
     <1>16, <1>17, <1>18, <1>19, <1>20, <1>21, <1>22
  DEF PipeNext, Reader, Runner, Worker

-----------------------------------------------------------------------------
(* Every item a worker has was routed to it. *)

LEMMA ShardedStep ==
  ASSUME PipeTypeOK, Sharded, PipeNext
  PROVE  Sharded'
<1> USE DEF runVars, poolVars
<1>1. ASSUME FreshProcess  PROVE Sharded'
  <2>1. \A w \in Workers : chans'[w] = <<>> /\ busy'[w] = NoItem  BY <1>1 DEF FreshProcess
  <2>2. QED  BY <2>1, EmptySeq DEF Sharded
<1>2. ASSUME UNCHANGED <<chans, busy>>  PROVE Sharded'  BY <1>2 DEF Sharded
<1>3. CASE Send
  <2>1. held \in Events /\ Routed(held)  BY <1>3 DEF Send, PipeTypeOK, Messages, Routed
  <2> SUFFICES ASSUME NEW w \in Workers
               PROVE  /\ busy'[w] # NoItem => Routed(busy'[w]) /\ Route(busy'[w]) = w
                      /\ \A i \in 1 .. Len(chans'[w]) :
                           Routed(chans'[w][i]) /\ Route(chans'[w][i]) = w
    BY DEF Sharded
  <2>2. chans[w] \in Seq(Events)  BY DEF PipeTypeOK
  <2>3. CASE w = Route(held)
    <3>1. chans'[w] = Append(chans[w], held) /\ busy' = busy
      BY <1>3, <2>3 DEF Send, PipeTypeOK
    <3>2. ASSUME NEW i \in 1 .. Len(chans'[w])
          PROVE  Routed(chans'[w][i]) /\ Route(chans'[w][i]) = w
      <4>1. CASE i \in 1 .. Len(chans[w])
        <5>1. chans'[w][i] = chans[w][i]  BY <2>1, <2>2, <3>1, <4>1, AppendProperties
        <5>2. QED  BY <4>1, <5>1 DEF Sharded
      <4>2. CASE i \notin 1 .. Len(chans[w])
        <5>1. i = Len(chans[w]) + 1 /\ chans'[w][i] = held
          BY <2>1, <2>2, <3>1, <3>2, <4>2, AppendProperties, LenProperties
        <5>2. QED  BY <2>1, <2>3, <5>1
      <4>3. QED  BY <4>1, <4>2
    <3>3. QED  BY <3>1, <3>2 DEF Sharded
  <2>4. CASE w # Route(held)
    <3>1. chans'[w] = chans[w] /\ busy' = busy  BY <1>3, <2>4 DEF Send, PipeTypeOK
    <3>2. QED  BY <3>1 DEF Sharded
  <2>5. QED  BY <2>3, <2>4
<1>4. ASSUME NEW v \in Workers, WorkerTake(v)  PROVE Sharded'
  <2> SUFFICES ASSUME NEW w \in Workers
               PROVE  /\ busy'[w] # NoItem => Routed(busy'[w]) /\ Route(busy'[w]) = w
                      /\ \A i \in 1 .. Len(chans'[w]) :
                           Routed(chans'[w][i]) /\ Route(chans'[w][i]) = w
    BY DEF Sharded
  <2>1. CASE w = v
    <3>1. chans[w] \in Seq(Events) /\ chans[w] # <<>>  BY <1>4, <2>1 DEF WorkerTake, PipeTypeOK
    <3>2. chans'[w] = Tail(chans[w]) /\ busy'[w] = Head(chans[w])
      BY <1>4, <2>1 DEF WorkerTake, PipeTypeOK
    <3>3. /\ 1 \in 1 .. Len(chans[w]) /\ Head(chans[w]) = chans[w][1]
          /\ \A i \in 1 .. Len(Tail(chans[w])) :
               i + 1 \in 1 .. Len(chans[w]) /\ Tail(chans[w])[i] = chans[w][i + 1]
      BY <3>1, HeadTailProperties, LenProperties
    <3>4. QED  BY <3>2, <3>3 DEF Sharded
  <2>2. CASE w # v
    <3>1. chans'[w] = chans[w] /\ busy'[w] = busy[w]  BY <1>4, <2>2 DEF WorkerTake, PipeTypeOK
    <3>2. QED  BY <3>1 DEF Sharded
  <2>3. QED  BY <2>1, <2>2
<1>5. ASSUME NEW v \in Workers, WorkerDone(v)  PROVE Sharded'
  <2>1. chans' = chans /\ \A w \in Workers : busy'[w] = NoItem \/ busy'[w] = busy[w]
    BY <1>5 DEF WorkerDone, PipeTypeOK
  <2>2. QED  BY <2>1 DEF Sharded
<1>6. QED
  BY <1>1, <1>2, <1>3, <1>4, <1>5
  DEF PipeNext, Deliver, Publish, Miss, DeliverGarbage, ReaderDrop, Reader, ReaderPut, ReaderExit,
      Cancel, Runner, Take, Discard, ClosePool, RunReturn, Worker, WorkerApply, WorkerFail,
      WorkerExit, Signal, ServeReturns, Exit, Kill, Restart

-----------------------------------------------------------------------------
(* What each step does to the events of a match that are in flight. *)

\* What a variable that holds one message, and one that holds a queue, may be.
Slot == Messages \cup {NoItem}
Queue == Seq(Messages)

\* Concatenation, as the algebra that follows needs it.
Join(p, q) == p \o q

LEMMA JoinLaws ==
  /\ \A a, b \in Queue : Join(a, b) \in Queue
  /\ \A a, b, c \in Queue : Join(Join(a, b), c) = Join(a, Join(b, c))
  /\ \A a \in Queue : Join(a, <<>>) = a /\ Join(<<>>, a) = a
  /\ <<>> \in Queue
<1>1. ASSUME NEW a \in Queue, NEW b \in Queue  PROVE Join(a, b) \in Queue
  BY ConcatProperties DEF Queue, Join
<1>2. ASSUME NEW a \in Queue, NEW b \in Queue, NEW c \in Queue
      PROVE  Join(Join(a, b), c) = Join(a, Join(b, c))
  BY ConcatAssociative DEF Queue, Join
<1>3. ASSUME NEW a \in Queue  PROVE Join(a, <<>>) = a /\ Join(<<>>, a) = a
  BY ConcatEmptySeq DEF Queue, Join
<1>4. <<>> \in Queue  BY EmptySeq DEF Queue
<1>5. QED  BY <1>1, <1>2, <1>3, <1>4

LEMMA OfInHand ==
  ASSUME NEW m, NEW x
  PROVE  /\ Of(m, InHand(x)) = IF x # NoItem /\ Wanted(m, x) THEN <<x>> ELSE <<>>
         /\ \A A : x \in A \cup {NoItem} => InHand(x) \in Seq(A) /\ Of(m, InHand(x)) \in Seq(A)
<1>1. CASE x = NoItem
  <2>1. InHand(x) = <<>>  BY <1>1 DEF InHand
  <2>2. QED  BY <1>1, <2>1, OfEmpty, EmptySeq
<1>2. CASE x # NoItem
  <2>1. InHand(x) = <<x>> /\ <<x>> = Append(<<>>, x)  BY <1>2 DEF InHand
  <2>2. Of(m, Append(<<>>, x)) = IF Wanted(m, x) THEN Append(Of(m, <<>>), x) ELSE Of(m, <<>>)
    <3>1. <<>> \in Seq({x}) /\ x \in {x}  BY EmptySeq
    <3>2. QED  BY <3>1, OfAppend
  <2>3. Of(m, <<x>>) = IF Wanted(m, x) THEN <<x>> ELSE <<>>
    BY <2>1, <2>2, OfEmpty
  <2>4. ASSUME NEW A, x \in A  PROVE <<x>> \in Seq(A) /\ <<>> \in Seq(A)  BY <2>4
  <2>5. QED  BY <1>2, <2>1, <2>3, <2>4
<1>3. QED  BY <1>1, <1>2

\* The four places in line, and filtered one by one.
Line(b, c, h, q) == InHand(b) \o c \o InHand(h) \o q

FourIn(a, b, c, d) == Join(Join(Join(a, b), c), d)

Pieces(m, b, c, h, q) == FourIn(Of(m, InHand(b)), Of(m, c), Of(m, InHand(h)), Of(m, q))

LEMMA OfPieces ==
  ASSUME NEW m, NEW b \in Slot, NEW c \in Queue, NEW h \in Slot, NEW q \in Queue
  PROVE  Of(m, Line(b, c, h, q)) = Pieces(m, b, c, h, q)
<1> USE DEF Queue
<1>1. InHand(b) \in Seq(Messages) /\ InHand(h) \in Seq(Messages)  BY OfInHand DEF Slot
<1> DEFINE bc == InHand(b) \o c
           bch == bc \o InHand(h)
<1>2. bc \in Seq(Messages) /\ Of(m, bc) = Of(m, InHand(b)) \o Of(m, c)
  BY <1>1, OfConcat, ConcatProperties
<1>3. bch \in Seq(Messages) /\ Of(m, bch) = Of(m, bc) \o Of(m, InHand(h))
  <2> HIDE DEF bc
  <2> DEFINE hand == InHand(h)
  <2>1. bc \in Seq(Messages) /\ hand \in Seq(Messages)  BY <1>1, <1>2
  <2> HIDE DEF hand
  <2>2. bc \o hand \in Seq(Messages)  BY <2>1, ConcatProperties
  <2>3. Of(m, bc \o hand) = Of(m, bc) \o Of(m, hand)  BY <2>1, OfConcat
  <2>4. QED  BY <2>2, <2>3 DEF hand
<1>4. Of(m, bch \o q) = Of(m, bch) \o Of(m, q)
  <2> HIDE DEF bch
  <2>1. QED  BY <1>3, OfConcat
<1>5. QED  BY <1>2, <1>3, <1>4 DEF Pieces, FourIn, Join, Line

LEMMA SlotFacts ==
  /\ NoItem \notin Messages /\ Events \subseteq Messages /\ NoItem \in Slot
  /\ \A m : \A x \in Slot : Of(m, InHand(x)) \in Queue
  /\ \A m : \A q \in Queue : Of(m, q) \in Queue
  /\ \A m : Of(m, InHand(NoItem)) = <<>>
  /\ \A q \in Seq(Events) : q \in Queue
<1>1. NoItem \notin Messages /\ Events \subseteq Messages /\ NoItem \in Slot
  BY PipelineAssumption DEF Messages, Slot
<1>2. ASSUME NEW m, NEW x \in Slot  PROVE Of(m, InHand(x)) \in Queue
  BY OfInHand DEF Slot, Queue
<1>3. ASSUME NEW m, NEW q \in Queue  PROVE Of(m, q) \in Queue
  BY OfSeq DEF Queue
<1>4. ASSUME NEW m  PROVE Of(m, InHand(NoItem)) = <<>>
  BY OfInHand
<1>5. ASSUME NEW q \in Seq(Events)  PROVE q \in Queue
  BY <1>1, SeqMonotonic DEF Queue
<1>6. QED  BY <1>1, <1>2, <1>3, <1>4, <1>5

\* The first of a queue, then the others.
LEMMA OfHead ==
  ASSUME NEW m, NEW q \in Queue, q # <<>>
  PROVE  Of(m, q) = Join(Of(m, InHand(Head(q))), Of(m, Tail(q)))
<1> USE DEF Queue
<1>1. Head(q) \in Messages /\ Tail(q) \in Seq(Messages)  BY HeadTailProperties
<1>2. InHand(Head(q)) = <<Head(q)>>  BY <1>1, SlotFacts DEF InHand
<1>3. q = <<Head(q)>> \o Tail(q)  BY HeadTailProperties
<1>4. <<Head(q)>> \in Seq(Messages)  BY <1>1
<1>5. Of(m, <<Head(q)>> \o Tail(q)) = Of(m, <<Head(q)>>) \o Of(m, Tail(q))
  BY <1>1, <1>4, OfConcat
<1>6. QED  BY <1>2, <1>3, <1>5 DEF Join

\* One more at the end.
LEMMA OfLast ==
  ASSUME NEW m, NEW q \in Queue, NEW x \in Messages
  PROVE  Of(m, Append(q, x)) = Join(Of(m, q), Of(m, InHand(x)))
<1> USE DEF Queue
<1>1. Of(m, q) \in Seq(Messages)  BY SlotFacts
<1>2. Of(m, Append(q, x)) = IF Wanted(m, x) THEN Append(Of(m, q), x) ELSE Of(m, q)
  BY OfAppend
<1>3. Of(m, InHand(x)) = IF Wanted(m, x) THEN <<x>> ELSE <<>>  BY OfInHand, SlotFacts
<1>4. Of(m, q) \o <<>> = Of(m, q) /\ Of(m, q) \o <<x>> = Append(Of(m, q), x)
  BY <1>1, ConcatEmptySeq, AppendIsConcat
<1>5. QED  BY <1>2, <1>3, <1>4 DEF Join

\* A history grows by what the match has of the item.
LEMMA LogJoin ==
  ASSUME NEW h \in [Matches -> Seq(Events)], NEW e \in Messages, NEW m \in Matches
  PROVE  Log(h, e)[m] = Join(h[m], Of(m, InHand(e)))
<1>1. Log(h, e)[m] = IF Wanted(m, e) THEN Append(h[m], e) ELSE h[m]  BY LogFields
<1>2. Of(m, InHand(e)) = IF Wanted(m, e) THEN <<e>> ELSE <<>>  BY OfInHand, SlotFacts
<1>3. h[m] \in Seq(Messages)  BY SlotFacts DEF Queue
<1>4. h[m] \o <<>> = h[m] /\ h[m] \o <<e>> = Append(h[m], e)
  BY <1>3, ConcatEmptySeq, AppendIsConcat
<1>5. QED  BY <1>1, <1>2, <1>4 DEF Join

LEMMA StateSlots ==
  ASSUME PipeTypeOK
  PROVE  /\ reader \in Slot /\ held \in Slot /\ msgs \in Queue
         /\ \A w \in Workers : busy[w] \in Slot /\ chans[w] \in Queue
         /\ \A m \in Matches : received[m] \in Queue /\ settled[m] \in Queue
<1>1. reader \in Slot /\ held \in Slot /\ msgs \in Queue  BY DEF PipeTypeOK, Slot, Queue
<1>2. ASSUME NEW w \in Workers  PROVE busy[w] \in Slot /\ chans[w] \in Queue
  <2>1. chans[w] \in Seq(Events) /\ busy[w] \in Events \cup {NoItem}  BY DEF PipeTypeOK
  <2>2. QED  BY <2>1, SlotFacts DEF Slot
<1>3. ASSUME NEW m \in Matches  PROVE received[m] \in Queue /\ settled[m] \in Queue
  <2>1. received[m] \in Seq(Events) /\ settled[m] \in Seq(Events)  BY DEF PipeTypeOK
  <2>2. QED  BY <2>1, SlotFacts
<1>4. QED  BY <1>1, <1>2, <1>3

\* InFlight in pieces, in the state before a step and in the state after it.
InPieces ==
  \A m \in Matches : \A w \in Workers : w = WorkerIndex[m] =>
    /\ InFlight(m) = Pieces(m, busy[w], chans[w], held, msgs)
    /\ Of(m, InHand(busy[w])) \in Queue /\ Of(m, chans[w]) \in Queue
    /\ Of(m, InHand(held)) \in Queue /\ Of(m, msgs) \in Queue
    /\ InFlight(m) \in Queue

LEMMA PiecesNow == PipeTypeOK => InPieces
<1> SUFFICES ASSUME PipeTypeOK, NEW m \in Matches, NEW w \in Workers, w = WorkerIndex[m]
             PROVE  /\ InFlight(m) = Pieces(m, busy[w], chans[w], held, msgs)
                    /\ Of(m, InHand(busy[w])) \in Queue /\ Of(m, chans[w]) \in Queue
                    /\ Of(m, InHand(held)) \in Queue /\ Of(m, msgs) \in Queue
                    /\ InFlight(m) \in Queue
  BY DEF InPieces
<1>1. busy[w] \in Slot /\ held \in Slot /\ msgs \in Queue /\ chans[w] \in Queue
  BY StateSlots
<1>2. Of(m, Line(busy[w], chans[w], held, msgs)) = Pieces(m, busy[w], chans[w], held, msgs)
  BY <1>1, OfPieces
<1>3. InFlight(m) = Of(m, Line(busy[w], chans[w], held, msgs))  BY DEF InFlight, Line
<1>4. /\ Of(m, InHand(busy[w])) \in Queue /\ Of(m, chans[w]) \in Queue
      /\ Of(m, InHand(held)) \in Queue /\ Of(m, msgs) \in Queue
  BY <1>1, SlotFacts
<1>5. Pieces(m, busy[w], chans[w], held, msgs) \in Queue  BY <1>4, JoinLaws DEF Pieces, FourIn
<1>6. QED  BY <1>2, <1>3, <1>4, <1>5

LEMMA PiecesNext == PipeTypeOK' => InPieces'
<1>1. QED  BY PiecesNow, PTL

\* The pieces of the two states of a step.
LEMMA StepPieces ==
  ASSUME PipeTypeOK, PipeTypeOK', NEW m \in Matches, NEW w, w = WorkerIndex[m]
  PROVE  /\ w \in Workers
         /\ InFlight(m) = FourIn(Of(m, InHand(busy[w])), Of(m, chans[w]), Of(m, InHand(held)),
                                 Of(m, msgs))
         /\ InFlight(m)' = FourIn(Of(m, InHand(busy'[w])), Of(m, chans'[w]), Of(m, InHand(held')),
                                  Of(m, msgs'))
         /\ Of(m, InHand(busy[w])) \in Queue /\ Of(m, InHand(busy'[w])) \in Queue
         /\ Of(m, chans[w]) \in Queue /\ Of(m, chans'[w]) \in Queue
         /\ Of(m, InHand(held)) \in Queue /\ Of(m, InHand(held')) \in Queue
         /\ Of(m, msgs) \in Queue /\ Of(m, msgs') \in Queue
         /\ InFlight(m) \in Queue /\ InFlight(m)' \in Queue
<1>1. w \in Workers  BY PipelineAssumption
<1>2. InPieces /\ InPieces'  BY PiecesNow, PiecesNext
<1>3. QED  BY <1>1, <1>2 DEF InPieces, Pieces

\* The reader adds its message at the end of what is in flight.
LEMMA FlowPut ==
  ASSUME PipeTypeOK, PipeTypeOK', ReaderPut, NEW m \in Matches
  PROVE  InFlight(m)' = Join(InFlight(m), Of(m, InHand(reader)))
<1> DEFINE w == WorkerIndex[m]
<1>1. busy' = busy /\ chans' = chans /\ held' = held /\ msgs' = Append(msgs, reader)
      /\ reader \in Messages /\ reader \in Slot /\ msgs \in Queue
  BY StateSlots DEF ReaderPut, runVars, poolVars, PipeTypeOK
<1>2. Of(m, msgs') = Join(Of(m, msgs), Of(m, InHand(reader)))  BY <1>1, OfLast
<1>3. Of(m, InHand(reader)) \in Queue  BY <1>1, SlotFacts
<1> DEFINE b == Of(m, InHand(busy[w]))
           c == Of(m, chans[w])
           h == Of(m, InHand(held))
           q == Of(m, msgs)
           r == Of(m, InHand(reader))
<1>4. /\ InFlight(m) = FourIn(b, c, h, q) /\ InFlight(m)' = FourIn(b, c, h, Join(q, r))
      /\ b \in Queue /\ c \in Queue /\ h \in Queue /\ q \in Queue
  BY <1>1, <1>2, StepPieces
<1> HIDE DEF b, c, h, q, r
<1>5. r \in Queue  BY <1>3 DEF r
<1>6. QED  BY <1>4, <1>5, JoinLaws DEF FourIn, r

\* From msgs to a worker's hand, items change place but not order.
LEMMA FlowSame ==
  ASSUME PipeTypeOK, PipeTypeOK', NEW m \in Matches,
         Take \/ Discard \/ Send \/ \E w \in Workers : WorkerTake(w)
  PROVE  InFlight(m)' = InFlight(m)
<1> DEFINE w == WorkerIndex[m]
           b == Of(m, InHand(busy[w]))
           c == Of(m, chans[w])
           h == Of(m, InHand(held))
           q == Of(m, msgs)
           bb == Of(m, InHand(busy'[w]))
           cc == Of(m, chans'[w])
           hh == Of(m, InHand(held'))
           qq == Of(m, msgs')
<1>1. /\ w \in Workers
      /\ InFlight(m) = FourIn(b, c, h, q) /\ InFlight(m)' = FourIn(bb, cc, hh, qq)
      /\ b \in Queue /\ c \in Queue /\ h \in Queue /\ q \in Queue
      /\ bb \in Queue /\ cc \in Queue /\ hh \in Queue /\ qq \in Queue
  BY StepPieces
<1>2. Of(m, InHand(NoItem)) = <<>>  BY SlotFacts
<1>3. CASE Take
  <2>1. held = NoItem /\ msgs # <<>> /\ held' = Head(msgs) /\ msgs' = Tail(msgs)
        /\ busy' = busy /\ chans' = chans
    BY <1>3 DEF Take, poolVars
  <2>2. h = <<>> /\ q = Join(hh, qq) /\ bb = b /\ cc = c
    BY <2>1, <1>2, OfHead, StateSlots
  <2> HIDE DEF b, c, h, q, bb, cc, hh, qq
  <2>3. QED  BY <1>1, <2>2, JoinLaws DEF FourIn
<1>4. CASE Discard
  <2>1. ~ Wanted(m, held) /\ held' = NoItem /\ msgs' = msgs /\ busy' = busy /\ chans' = chans
    BY <1>4 DEF Discard, poolVars, redisVars, Wanted
  <2>2. h = <<>> /\ hh = <<>> /\ qq = q /\ bb = b /\ cc = c
    BY <2>1, <1>2, OfInHand
  <2>3. QED  BY <1>1, <2>2
<1>5. CASE Send
  <2>1. held \in Events /\ held' = NoItem /\ msgs' = msgs /\ busy' = busy
        /\ chans' = [chans EXCEPT ![Route(held)] = Append(@, held)]
    BY <1>5 DEF Send, redisVars, PipeTypeOK, Messages, Routed
  <2>2. hh = <<>> /\ qq = q /\ bb = b  BY <2>1, <1>2
  <2>3. CASE Route(held) = w
    <3>1. chans'[w] = Append(chans[w], held)
      BY <1>1, <2>1, <2>3 DEF PipeTypeOK
    <3>2. chans[w] \in Queue /\ held \in Messages  BY <1>1, <2>1, StateSlots, SlotFacts
    <3>3. cc = Join(c, h)  BY <3>1, <3>2, OfLast
    <3> HIDE DEF b, c, h, q, bb, cc, hh, qq
    <3>4. QED  BY <1>1, <2>2, <3>3, JoinLaws DEF FourIn
  <2>4. CASE Route(held) # w
    <3>1. chans'[w] = chans[w]  BY <1>1, <2>1, <2>4 DEF PipeTypeOK
    <3>2. ~ Wanted(m, held)  BY <2>4 DEF Wanted, Route
    <3>3. h = <<>> /\ cc = c  BY <3>1, <3>2, OfInHand
    <3>4. QED  BY <1>1, <2>2, <3>3
  <2>5. QED  BY <2>3, <2>4
<1>6. ASSUME NEW v \in Workers, WorkerTake(v)  PROVE InFlight(m)' = InFlight(m)
  <2>1. held' = held /\ msgs' = msgs /\ busy' = [busy EXCEPT ![v] = Head(chans[v])]
        /\ chans' = [chans EXCEPT ![v] = Tail(@)] /\ busy[v] = NoItem /\ chans[v] # <<>>
    BY <1>6 DEF WorkerTake, redisVars, runVars
  <2>2. hh = h /\ qq = q  BY <2>1
  <2>3. CASE v = w
    <3>1. busy'[w] = Head(chans[w]) /\ chans'[w] = Tail(chans[w]) /\ busy[w] = NoItem
      BY <1>1, <2>1, <2>3 DEF PipeTypeOK
    <3>2. chans[w] \in Queue /\ chans[w] # <<>>  BY <1>1, <2>1, <2>3, StateSlots
    <3>3. b = <<>> /\ c = Join(bb, cc)  BY <3>1, <3>2, <1>2, OfHead
    <3> HIDE DEF b, c, h, q, bb, cc, hh, qq
    <3>4. QED  BY <1>1, <2>2, <3>3, JoinLaws DEF FourIn
  <2>4. CASE v # w
    <3>1. busy'[w] = busy[w] /\ chans'[w] = chans[w]  BY <1>1, <2>1, <2>4 DEF PipeTypeOK
    <3>2. QED  BY <1>1, <2>2, <3>1
  <2>5. QED  BY <2>3, <2>4
<1>7. QED  BY <1>3, <1>4, <1>5, <1>6

\* A worker that is done takes the item off the front of what is in flight.
LEMMA FlowDone ==
  ASSUME PipeTypeOK, PipeTypeOK', Sharded, NEW m \in Matches, NEW v \in Workers, WorkerDone(v)
  PROVE  InFlight(m) = Join(Of(m, InHand(busy[v])), InFlight(m)')
<1> DEFINE w == WorkerIndex[m]
           b == Of(m, InHand(busy[w]))
           c == Of(m, chans[w])
           h == Of(m, InHand(held))
           q == Of(m, msgs)
           bb == Of(m, InHand(busy'[w]))
<1>1. /\ busy' = [busy EXCEPT ![v] = NoItem] /\ chans' = chans /\ held' = held /\ msgs' = msgs
      /\ busy[v] # NoItem
  BY DEF WorkerDone, redisVars, runVars
<1>2. /\ w \in Workers
      /\ InFlight(m) = FourIn(b, c, h, q) /\ InFlight(m)' = FourIn(bb, c, h, q)
      /\ b \in Queue /\ c \in Queue /\ h \in Queue /\ q \in Queue
      /\ InFlight(m)' \in Queue
  BY <1>1, StepPieces
<1>3. CASE v = w
  <2>1. busy'[w] = NoItem  BY <1>1, <1>2, <1>3 DEF PipeTypeOK
  <2>2. bb = <<>>  BY <2>1, SlotFacts
  <2>3. Of(m, InHand(busy[v])) = b  BY <1>3
  <2> HIDE DEF b, c, h, q, bb
  <2>4. QED  BY <1>2, <2>2, <2>3, JoinLaws DEF FourIn
<1>4. CASE v # w
  <2>1. busy'[w] = busy[w]  BY <1>1, <1>2, <1>4 DEF PipeTypeOK
  <2>2. Route(busy[v]) = v  BY <1>1 DEF Sharded
  <2>3. ~ Wanted(m, busy[v])  BY <1>4, <2>2 DEF Wanted, Route
  <2>4. bb = b /\ Of(m, InHand(busy[v])) = <<>>  BY <2>1, <2>3, OfInHand
  <2> HIDE DEF b, c, h, q, bb
  <2>5. QED  BY <1>2, <2>4, JoinLaws
<1>5. QED  BY <1>3, <1>4

LEMMA FlowFresh ==
  ASSUME PipeTypeOK, PipeTypeOK', NEW m \in Matches, FreshProcess
  PROVE  InFlight(m)' = <<>>
<1> DEFINE w == WorkerIndex[m]
<1>1. w \in Workers /\ busy'[w] = NoItem /\ chans'[w] = <<>> /\ held' = NoItem /\ msgs' = <<>>
  BY PipelineAssumption DEF FreshProcess
<1>2. Of(m, InHand(NoItem)) = <<>> /\ Of(m, <<>>) = <<>>  BY SlotFacts, OfEmpty
<1>3. InFlight(m)' = FourIn(<<>>, <<>>, <<>>, <<>>)  BY <1>1, <1>2, StepPieces
<1>4. QED  BY <1>3, JoinLaws DEF FourIn

LEMMA FlowIdle ==
  ASSUME NEW m \in Matches, UNCHANGED <<busy, chans, held, msgs>>
  PROVE  InFlight(m)' = InFlight(m)
BY DEF InFlight

-----------------------------------------------------------------------------
(* InOrderNothingLost. *)

LEMMA InOrderStep ==
  ASSUME PipeTypeOK, PipeTypeOK', Sharded, InOrderNothingLost, PipeNext
  PROVE  InOrderNothingLost'
<1> USE DEF runVars, poolVars, redisVars, historyVars
<1> SUFFICES ASSUME NEW m \in Matches
             PROVE  received'[m] = Join(settled'[m], InFlight(m)')
  BY DEF InOrderNothingLost, Join
<1>1. received[m] = Join(settled[m], InFlight(m))  BY DEF InOrderNothingLost, Join
<1>2. /\ received[m] \in Queue /\ settled[m] \in Queue
      /\ InFlight(m) \in Queue /\ InFlight(m)' \in Queue
  BY StateSlots, StepPieces
<1>3. CASE ReaderPut
  <2>1. reader \in Messages /\ received' = Log(received, reader) /\ settled' = settled
    BY <1>3 DEF ReaderPut, PipeTypeOK
  <2>2. received'[m] = Join(received[m], Of(m, InHand(reader)))
    BY <2>1, LogJoin DEF PipeTypeOK
  <2>3. Of(m, InHand(reader)) \in Queue  BY StateSlots, SlotFacts
  <2>4. InFlight(m)' = Join(InFlight(m), Of(m, InHand(reader)))  BY <1>3, FlowPut
  <2> DEFINE f == InFlight(m)
             g == InFlight(m)'
             r == Of(m, InHand(reader))
  <2> HIDE DEF f, g, r
  <2>5. Join(Join(settled[m], f), r) = Join(settled[m], Join(f, r))
    BY <1>2, <2>3, JoinLaws DEF f, r
  <2>6. QED  BY <1>1, <2>1, <2>2, <2>4, <2>5 DEF f, g, r
<1>4. ASSUME Take \/ Discard \/ Send \/ \E w \in Workers : WorkerTake(w)
      PROVE  received'[m] = Join(settled'[m], InFlight(m)')
  <2>1. received' = received /\ settled' = settled
    BY <1>4 DEF Take, Discard, Send, WorkerTake
  <2>2. QED  BY <1>1, <1>4, <2>1, FlowSame
<1>5. ASSUME NEW v \in Workers, WorkerDone(v)
      PROVE  received'[m] = Join(settled'[m], InFlight(m)')
  <2>1. busy[v] \in Messages /\ settled' = Log(settled, busy[v]) /\ received' = received
    BY <1>5 DEF WorkerDone, PipeTypeOK, Messages
  <2>2. settled'[m] = Join(settled[m], Of(m, InHand(busy[v])))
    BY <2>1, LogJoin DEF PipeTypeOK
  <2>3. Of(m, InHand(busy[v])) \in Queue  BY StateSlots, SlotFacts
  <2>4. InFlight(m) = Join(Of(m, InHand(busy[v])), InFlight(m)')  BY <1>5, FlowDone
  <2> DEFINE g == InFlight(m)'
             b == Of(m, InHand(busy[v]))
  <2> HIDE DEF g, b
  <2>5. Join(Join(settled[m], b), g) = Join(settled[m], Join(b, g))
    BY <1>2, <2>3, JoinLaws DEF b, g
  <2>6. QED  BY <1>1, <2>1, <2>2, <2>4, <2>5 DEF b, g
<1>6. ASSUME FreshProcess  PROVE received'[m] = Join(settled'[m], InFlight(m)')
  <2>1. received'[m] = <<>> /\ settled'[m] = <<>>  BY <1>6 DEF FreshProcess
  <2>2. QED  BY <1>6, <2>1, FlowFresh, JoinLaws
<1>7. ASSUME UNCHANGED <<busy, chans, held, msgs, received, settled>>
      PROVE  received'[m] = Join(settled'[m], InFlight(m)')
  BY <1>1, <1>7, FlowIdle
<1>8. QED
  BY <1>3, <1>4, <1>5, <1>6, <1>7
  DEF PipeNext, Deliver, Publish, Miss, DeliverGarbage, ReaderDrop, Reader, ReaderExit,
      Cancel, Runner, ClosePool, RunReturn, Worker, WorkerApply, WorkerFail,
      WorkerExit, Signal, ServeReturns, Exit, Kill, Restart

-----------------------------------------------------------------------------
(* InFeedOrder. *)

LEMMA JoinElements ==
  ASSUME NEW a \in Queue, NEW b \in Queue
  PROVE  /\ Len(a) \in Nat /\ Len(b) \in Nat /\ Len(Join(a, b)) = Len(a) + Len(b)
         /\ \A i \in 1 .. Len(a) : Join(a, b)[i] = a[i]
         /\ \A i \in 1 .. Len(b) : Join(a, b)[Len(a) + i] = b[i]
<1>1. Len(a) \in Nat /\ Len(b) \in Nat /\ Len(a \o b) = Len(a) + Len(b)
  BY LenProperties, ConcatProperties DEF Queue
<1>2. \A i \in 1 .. Len(a) + Len(b) : (a \o b)[i] = IF i <= Len(a) THEN a[i] ELSE b[i - Len(a)]
  BY ConcatProperties DEF Queue
<1>3. ASSUME NEW i \in 1 .. Len(a)  PROVE (a \o b)[i] = a[i]  BY <1>1, <1>2
<1>4. ASSUME NEW i \in 1 .. Len(b)  PROVE (a \o b)[Len(a) + i] = b[i]
  <2>1. Len(a) + i \in 1 .. Len(a) + Len(b) /\ ~ (Len(a) + i <= Len(a)) /\ (Len(a) + i) - Len(a) = i
    BY <1>1
  <2>2. QED  BY <1>2, <2>1
<1>5. QED  BY <1>1, <1>3, <1>4 DEF Join

LEMMA FollowsEmpty ==
  ASSUME NEW m, NEW p, NEW row
  PROVE  Follows(m, <<>>, p, row)
BY EmptySeq DEF Follows, Ascending

LEMMA FollowsMore ==
  ASSUME NEW m, NEW q, NEW p \in Nat, NEW row, Follows(m, q, p, row)
  PROVE  Follows(m, q, p + 1, row)
<1>1. 1 .. p \subseteq 1 .. p + 1  OBVIOUS
<1>2. QED  BY <1>1 DEF Follows

LEMMA FollowsPrefix ==
  ASSUME NEW m, NEW a \in Queue, NEW b \in Queue, NEW p, NEW row, Follows(m, Join(a, b), p, row)
  PROVE  Follows(m, a, p, row)
<1>1. /\ Len(a) \in Nat /\ 1 .. Len(a) \subseteq 1 .. Len(Join(a, b))
      /\ \A i \in 1 .. Len(a) : Join(a, b)[i] = a[i]
  BY JoinElements
<1>2. \A i \in 1 .. Len(a) : (\E k \in 1 .. p : a[i] = Feed[m][k]) /\ Above(row, a[i].sequence)
  BY <1>1 DEF Follows
<1>3. Ascending(a)  BY <1>1 DEF Follows, Ascending
<1>4. QED  BY <1>2, <1>3 DEF Follows

LEMMA FollowsSuffix ==
  ASSUME NEW m, NEW a \in Queue, NEW b \in Queue, NEW p, NEW row, Follows(m, Join(a, b), p, row)
  PROVE  Follows(m, b, p, row)
<1>1. /\ Len(b) \in Nat /\ Len(a) \in Nat
      /\ \A i \in 1 .. Len(b) : Len(a) + i \in 1 .. Len(Join(a, b)) /\ Join(a, b)[Len(a) + i] = b[i]
  BY JoinElements
<1>2. \A i \in 1 .. Len(b) : (\E k \in 1 .. p : b[i] = Feed[m][k]) /\ Above(row, b[i].sequence)
  BY <1>1 DEF Follows
<1>3. ASSUME NEW i \in 1 .. Len(b), NEW j \in 1 .. Len(b), i < j
      PROVE  b[i].sequence < b[j].sequence
  <2>1. Len(a) + i < Len(a) + j  BY <1>1, <1>3
  <2>2. Join(a, b)[Len(a) + i].sequence < Join(a, b)[Len(a) + j].sequence
    BY <1>1, <2>1 DEF Follows, Ascending
  <2>3. QED  BY <1>1, <2>2
<1>4. QED  BY <1>2, <1>3 DEF Follows, Ascending

\* After the first one has become the row, the others follow the new row.
LEMMA FollowsRow ==
  ASSUME NEW m, NEW x \in Messages, NEW b \in Queue, NEW p, NEW row,
         Follows(m, Join(<<x>>, b), p, row), NEW next, next.lastSequence = x.sequence, \A i \in 1 .. Len(b) : b[i].sequence \in Nat,
         x.sequence \in Nat
  PROVE  Follows(m, b, p, next)
<1> DEFINE a == <<x>>
<1>1. a \in Queue /\ Len(a) = 1 /\ a[1] = x /\ Follows(m, Join(a, b), p, row)  BY DEF Queue
<1> HIDE DEF a
<1>2. /\ Len(b) \in Nat /\ Len(Join(a, b)) = 1 + Len(b)
      /\ Join(a, b)[1] = x
      /\ \A i \in 1 .. Len(b) : Join(a, b)[1 + i] = b[i]
  <2>1. /\ Len(b) \in Nat /\ Len(Join(a, b)) = Len(a) + Len(b)
        /\ \A i \in 1 .. Len(a) : Join(a, b)[i] = a[i]
        /\ \A i \in 1 .. Len(b) : Join(a, b)[Len(a) + i] = b[i]
    BY <1>1, JoinElements
  <2>2. 1 \in 1 .. Len(a)  BY <1>1
  <2>3. QED  BY <1>1, <2>1, <2>2
<1>3. Follows(m, b, p, row)  BY <1>1, FollowsSuffix
<1>4. ASSUME NEW i \in 1 .. Len(b)  PROVE Above(next, b[i].sequence)
  <2>1. 1 \in 1 .. 1 + Len(b) /\ 1 + i \in 1 .. 1 + Len(b) /\ 1 < 1 + i  BY <1>2
  <2>2. Join(a, b)[1].sequence < Join(a, b)[1 + i].sequence
    BY <1>1, <1>2, <2>1 DEF Follows, Ascending
  <2>3. x.sequence < b[i].sequence  BY <1>2, <2>2
  <2>4. QED  BY <2>3 DEF Above
<1>5. QED  BY <1>3, <1>4 DEF Follows

\* The next event of the feed may join what follows the row.
LEMMA FollowsNext ==
  ASSUME NEW m \in Matches, NEW q \in Queue, NEW p \in Nat, NEW row, Follows(m, q, p, row),
         p + 1 <= Len(Feed[m]), Above(row, Feed[m][p + 1].sequence)
  PROVE  Follows(m, Append(q, Feed[m][p + 1]), p + 1, row)
<1> DEFINE x == Feed[m][p + 1]
           r == Append(q, x)
           n == Len(q)
<1>1. p + 1 \in 1 .. Len(Feed[m]) /\ Len(Feed[m]) \in Nat
  BY PipelineAssumption
<1>2. x \in Messages /\ \A k \in 1 .. p : Feed[m][k].sequence < x.sequence
  <2>1. x \in Events  BY <1>1, FeedFacts
  <2>2. ASSUME NEW k \in 1 .. p  PROVE Feed[m][k].sequence < x.sequence
    <3>1. k \in 1 .. Len(Feed[m]) /\ k < p + 1  BY <1>1
    <3>2. QED  BY <1>1, <3>1, FeedFacts
  <2>3. QED  BY <2>1, <2>2, SlotFacts
<1> HIDE DEF x
<1>3. n \in Nat /\ Len(r) = n + 1 /\ r[n + 1] = x /\ \A i \in 1 .. n : r[i] = q[i]
  BY <1>2, AppendProperties, LenProperties DEF Queue
<1> HIDE DEF r, n
<1>4. ASSUME NEW i \in 1 .. n + 1
      PROVE  (\E k \in 1 .. p + 1 : r[i] = Feed[m][k]) /\ Above(row, r[i].sequence)
  <2>1. CASE i \in 1 .. n
    <3>1. PICK k \in 1 .. p : q[i] = Feed[m][k]  BY <2>1 DEF Follows, n
    <3>2. Above(row, q[i].sequence)  BY <2>1 DEF Follows, n
    <3>3. k \in 1 .. p + 1  OBVIOUS
    <3>4. QED  BY <1>3, <2>1, <3>1, <3>2, <3>3
  <2>2. CASE i = n + 1
    <3>1. p + 1 \in 1 .. p + 1  OBVIOUS
    <3>2. QED  BY <1>3, <2>2, <3>1 DEF x
  <2>3. QED  BY <1>3, <2>1, <2>2
<1>5. ASSUME NEW i \in 1 .. n + 1, NEW j \in 1 .. n + 1, i < j
      PROVE  r[i].sequence < r[j].sequence
  <2>1. i \in 1 .. n /\ r[i] = q[i]  BY <1>3, <1>5
  <2>2. CASE j \in 1 .. n  BY <1>3, <1>5, <2>1, <2>2 DEF Follows, Ascending, n
  <2>3. CASE j = n + 1
    <3>1. PICK k \in 1 .. p : q[i] = Feed[m][k]  BY <2>1 DEF Follows, n
    <3>2. QED  BY <1>2, <1>3, <2>1, <2>3, <3>1
  <2>4. QED  BY <1>3, <2>2, <2>3
<1>6. Len(r) = n + 1 /\ Ascending(r)  BY <1>3, <1>5 DEF Ascending
<1>7. QED  BY <1>4, <1>6 DEF Follows, r, x

\* What is in transit, in the state before a step and in the state after it.
Transit ==
  \A m \in Matches : /\ InTransit(m) = Join(InFlight(m), Of(m, InHand(reader)))
                     /\ Of(m, InHand(reader)) \in Queue /\ InFlight(m) \in Queue
                     /\ InTransit(m) \in Queue
                     /\ reader = NoItem => InTransit(m) = InFlight(m)

LEMMA TransitNow == PipeTypeOK => Transit
<1> SUFFICES ASSUME PipeTypeOK, NEW m \in Matches
             PROVE  /\ InTransit(m) = Join(InFlight(m), Of(m, InHand(reader)))
                    /\ Of(m, InHand(reader)) \in Queue /\ InFlight(m) \in Queue
                    /\ InTransit(m) \in Queue
                    /\ reader = NoItem => InTransit(m) = InFlight(m)
  BY DEF Transit
<1>1. WorkerIndex[m] \in Workers  BY PipelineAssumption
<1>2. InFlight(m) \in Queue  BY <1>1, PiecesNow DEF InPieces
<1>3. Of(m, InHand(reader)) \in Queue  BY StateSlots, SlotFacts
<1>4. InTransit(m) = Join(InFlight(m), Of(m, InHand(reader)))  BY DEF InTransit, Join
<1>5. Join(InFlight(m), Of(m, InHand(reader))) \in Queue  BY <1>2, <1>3, JoinLaws
<1>6. ASSUME reader = NoItem  PROVE InTransit(m) = InFlight(m)
  <2>1. Of(m, InHand(reader)) = <<>>  BY <1>6, SlotFacts
  <2>2. QED  BY <1>2, <1>4, <2>1, JoinLaws
<1>7. QED  BY <1>2, <1>3, <1>4, <1>5, <1>6

LEMMA TransitNext == PipeTypeOK' => Transit'
<1>1. QED  BY TransitNow, PTL

\* What a worker has in hand is the first of what is in transit for its match.
LEMMA BusyIsFirst ==
  ASSUME PipeTypeOK, Sharded, NEW w \in Workers, busy[w] # NoItem
  PROVE  /\ busy[w] \in Events /\ busy[w].match \in Matches
         /\ Of(busy[w].match, InHand(busy[w])) = << busy[w] >>
         /\ Len(InTransit(busy[w].match)) > 0 /\ InTransit(busy[w].match)[1] = busy[w]
<1> DEFINE x == busy[w]
           m == x.match
           c == Of(m, chans[w])
           h == Of(m, InHand(held))
           q == Of(m, msgs)
           r == Of(m, InHand(reader))
<1>1. x \in Events /\ m \in Matches  BY EventFacts DEF PipeTypeOK
<1>2. Routed(x) /\ WorkerIndex[m] = w  BY DEF Sharded, Route
<1>3. Of(m, InHand(x)) = <<x>>  BY <1>1, <1>2, OfInHand, SlotFacts DEF Wanted
<1>4. /\ InFlight(m) = FourIn(<<x>>, c, h, q) /\ InTransit(m) = Join(InFlight(m), r)
      /\ <<x>> \in Queue /\ c \in Queue /\ h \in Queue /\ q \in Queue /\ r \in Queue
  <2>1. InPieces /\ Transit  BY PiecesNow, TransitNow
  <2>2. QED  BY <1>1, <1>2, <1>3, <2>1 DEF InPieces, Transit, Pieces
<1> DEFINE a == <<x>>
           rest == Join(c, Join(h, Join(q, r)))
<1>5. Len(a) = 1 /\ a[1] = x  OBVIOUS
<1>6. InTransit(m) = Join(a, rest) /\ a \in Queue /\ rest \in Queue
  <2> HIDE DEF c, h, q, r, x, m
  <2>1. a \in Queue  BY <1>4
  <2> HIDE DEF a
  <2>2. Join(c, h) \in Queue /\ Join(Join(c, h), q) \in Queue /\ Join(q, r) \in Queue
        /\ Join(h, Join(q, r)) \in Queue /\ rest \in Queue
    BY <1>4, JoinLaws
  <2>3. Join(FourIn(a, c, h, q), r) = Join(a, rest)
    <3>1. FourIn(a, c, h, q) = Join(a, Join(Join(c, h), q))
      BY <1>4, <2>1, <2>2, JoinLaws DEF FourIn
    <3>2. Join(Join(a, Join(Join(c, h), q)), r) = Join(a, Join(Join(Join(c, h), q), r))
      BY <1>4, <2>1, <2>2, JoinLaws
    <3>3. Join(Join(Join(c, h), q), r) = rest  BY <1>4, <2>2, JoinLaws
    <3>4. QED  BY <3>1, <3>2, <3>3
  <2>4. InTransit(m) = Join(FourIn(a, c, h, q), r)  BY <1>4 DEF a
  <2>5. QED  BY <2>1, <2>2, <2>3, <2>4
<1>7. Len(InTransit(m)) > 0 /\ InTransit(m)[1] = x
  <2> HIDE DEF a, rest, x, m
  <2>1. 1 \in 1 .. Len(a)  BY <1>5
  <2>2. Len(Join(a, rest)) = Len(a) + Len(rest) /\ Len(rest) \in Nat /\ Join(a, rest)[1] = a[1]
    BY <1>6, <2>1, JoinElements
  <2>3. QED  BY <1>5, <1>6, <2>2
<1>8. QED  BY <1>1, <1>3, <1>7

\* A row that is recorded carries the sequence number of the event.
LEMMA RecordedRow ==
  ASSUME LogTypeOK, NEW e \in Events, Record(e)
  PROVE  /\ e.match \in Matches /\ rows'[e.match].lastSequence = e.sequence
         /\ \A m \in Matches \ {e.match} : rows'[m] = rows[m]
<1>1. /\ e \in Event /\ e.match \in Matches
      /\ rows'[e.match] = Reduce(LoadOrCreate(rows[e.match], e), e)
      /\ \A m \in Matches \ {e.match} : rows'[m] = rows[m]
  BY RecordEffect
<1>2. rows[e.match] \in Row \cup {NoRow}  BY <1>1 DEF LogTypeOK
<1>3. LoadOrCreate(rows[e.match], e) \in Row  BY <1>1, <1>2, LoadOrCreateType
<1>4. QED  BY <1>1, <1>3, ReduceFields

\* The part of InFeedOrder that speaks of match m.
FeedOrder(m) ==
  /\ published[m] <= Len(Feed[m])
  /\ Follows(m, InTransit(m), published[m], rows[m])
  /\ \A k \in published[m] + 1 .. Len(Feed[m]) : Above(rows[m], Feed[m][k].sequence)

\* A step that takes something out of what is in transit and leaves the row.
LEMMA FeedOrderShrinks ==
  ASSUME PipeTypeOK, NEW m \in Matches, FeedOrder(m),
         published'[m] = published[m], rows'[m] = rows[m],
         Follows(m, InTransit(m)', published[m], rows[m])
  PROVE  FeedOrder(m)'
BY DEF FeedOrder

\* A worker that is done.
LEMMA FeedOrderDone ==
  ASSUME PipeTypeOK, PipeTypeOK', Sharded, NEW m \in Matches, FeedOrder(m),
         NEW v \in Workers, WorkerDone(v), UNCHANGED rows \/ Record(busy[v])
  PROVE  FeedOrder(m)'
<1> DEFINE x == busy[v]
           b == Of(m, InHand(x))
           f == InFlight(m)'
           r == Of(m, InHand(reader))
           t == InTransit(m)'
<1>1. /\ busy[v] # NoItem /\ published' = published /\ reader' = reader
  BY DEF WorkerDone, feedVars, redisVars
<1>2. InTransit(m) = Join(b, t) /\ b \in Queue /\ t \in Queue
  <2>1. /\ InTransit(m) = Join(InFlight(m), r) /\ t = Join(f, r)
        /\ f \in Queue /\ r \in Queue /\ t \in Queue
    BY <1>1, TransitNow, TransitNext DEF Transit
  <2>2. InFlight(m) = Join(b, f)  BY FlowDone
  <2>3. b \in Queue  BY StateSlots, SlotFacts
  <2> HIDE DEF b, f, r, t
  <2>4. Join(Join(b, f), r) = Join(b, Join(f, r))  BY <2>1, <2>3, JoinLaws
  <2>5. QED  BY <2>1, <2>2, <2>3, <2>4
<1>3. Follows(m, t, published[m], rows[m])
  <2>1. Follows(m, Join(b, t), published[m], rows[m])  BY <1>2 DEF FeedOrder
  <2> HIDE DEF b, t
  <2>2. QED  BY <1>2, <2>1, FollowsSuffix
<1>4. CASE rows'[m] = rows[m]  BY <1>1, <1>3, <1>4, FeedOrderShrinks
<1>5. CASE rows'[m] # rows[m]
  <2>1. x \in Events /\ x.match \in Matches /\ LogTypeOK /\ Record(x)
    BY <1>1, <1>5, BusyIsFirst DEF PipeTypeOK
  <2>2. x.match = m /\ rows'[m].lastSequence = x.sequence  BY <1>5, <2>1, RecordedRow
  <2>3. b = <<x>> /\ InTransit(m)[1] = x /\ 1 \in 1 .. Len(InTransit(m))
    <3>1. Len(InTransit(m)) \in Nat  BY TransitNow, LenProperties DEF Transit, Queue
    <3>2. QED  BY <1>1, <2>2, <3>1, BusyIsFirst
  <2>4. PICK k \in 1 .. published[m] : x = Feed[m][k]  BY <2>3 DEF FeedOrder, Follows
  <2>5. published[m] \in Nat /\ Len(Feed[m]) \in Nat /\ x \in Messages /\ x.sequence \in Nat
    <3>1. Feed[m] \in Seq({e \in Events : e.match = m})  BY PipelineAssumption
    <3>2. QED  BY <2>1, <3>1, EventFacts, SlotFacts DEF PipeTypeOK
  <2>6. ASSUME NEW j \in published[m] + 1 .. Len(Feed[m])
        PROVE  Above(rows'[m], Feed[m][j].sequence)
    <3>1. k \in 1 .. Len(Feed[m]) /\ j \in 1 .. Len(Feed[m]) /\ k < j  BY <2>5
    <3>2. Feed[m][k].sequence < Feed[m][j].sequence  BY <3>1, FeedFacts
    <3>3. QED  BY <2>2, <2>4, <3>2 DEF Above
  <2>7. \A i \in 1 .. Len(t) : t[i].sequence \in Nat
    <3>1. ASSUME NEW i \in 1 .. Len(t)  PROVE t[i].sequence \in Nat
      <4>1. PICK j \in 1 .. published[m] : t[i] = Feed[m][j]  BY <1>3 DEF Follows
      <4>2. j \in 1 .. Len(Feed[m])  BY <2>5 DEF FeedOrder
      <4>3. QED  BY <4>1, <4>2, FeedFacts, EventFacts
    <3>2. QED  BY <3>1
  <2>8. Follows(m, t, published[m], rows'[m])
    <3>1. Follows(m, Join(<<x>>, t), published[m], rows[m])  BY <1>2, <2>3 DEF FeedOrder
    <3> HIDE DEF x, t
    <3>2. QED  BY <1>2, <2>2, <2>5, <2>7, <3>1, FollowsRow
  <2>9. QED  BY <1>1, <2>6, <2>8 DEF FeedOrder
<1>6. QED  BY <1>4, <1>5

\* A message of the feed is read by the subscription.
LEMMA FeedOrderDeliver ==
  ASSUME PipeTypeOK, PipeTypeOK', NEW m \in Matches, FeedOrder(m), NEW n \in Matches, Deliver(n)
  PROVE  FeedOrder(m)'
<1> USE DEF runVars, poolVars, feedVars, redisVars, logVars
<1> DEFINE x == Feed[n][published[n] + 1]
           f == InFlight(m)
<1>1. /\ reader = NoItem /\ reader' = x /\ published' = [published EXCEPT ![n] = @ + 1]
      /\ UNCHANGED <<busy, chans, held, msgs, rows>> /\ published[n] < Len(Feed[n])
  BY DEF Deliver, Publish
<1>2. published[m] \in Nat /\ published[n] \in Nat /\ Len(Feed[m]) \in Nat /\ Len(Feed[n]) \in Nat
  <2>1. published \in [Matches -> Nat]  BY DEF PipeTypeOK
  <2>2. QED  BY <2>1, FeedLength
<1>3. x \in Events /\ x.match = n  BY <1>1, <1>2, FeedFacts
<1>4. x # NoItem /\ x \in Messages  BY <1>3, EventFacts, SlotFacts
<1>5. /\ InTransit(m) = f /\ f \in Queue
      /\ InTransit(m)' = Join(f, Of(m, InHand(x)))
  BY <1>1, TransitNow, TransitNext, FlowIdle DEF Transit
<1>6. Of(m, InHand(x)) = IF Wanted(m, x) THEN <<x>> ELSE <<>>  BY <1>4, OfInHand
<1>7. CASE m # n
  <2>1. InTransit(m)' = InTransit(m)  BY <1>3, <1>5, <1>6, <1>7, JoinLaws DEF Wanted
  <2>2. published'[m] = published[m]  BY <1>1, <1>7 DEF PipeTypeOK
  <2>3. QED  BY <1>1, <2>1, <2>2 DEF FeedOrder
<1>8. CASE m = n
  <2> DEFINE p == published[m]
  <2>1. published'[m] = p + 1 /\ p + 1 <= Len(Feed[m])  BY <1>1, <1>2, <1>8 DEF PipeTypeOK
  <2>2. Follows(m, InTransit(m)', p + 1, rows[m])
    <3>1. Follows(m, f, p, rows[m])  BY <1>5 DEF FeedOrder
    <3>2. Above(rows[m], Feed[m][p + 1].sequence)
      <4>1. p + 1 \in p + 1 .. Len(Feed[m])  BY <1>2, <2>1
      <4>2. QED  BY <4>1 DEF FeedOrder
    <3>3. CASE Wanted(m, x)
      <4>1. InTransit(m)' = Append(f, Feed[m][p + 1])
        <5>1. Join(f, <<x>>) = Append(f, x)  BY <1>4, <1>5, AppendIsConcat DEF Join, Queue
        <5>2. QED  BY <1>5, <1>6, <1>8, <3>3, <5>1
      <4> HIDE DEF f, p, x
      <4>2. Follows(m, Append(f, Feed[m][p + 1]), p + 1, rows[m])
        BY <1>2, <1>5, <2>1, <3>1, <3>2, FollowsNext DEF p
      <4>3. QED  BY <4>1, <4>2
    <3>4. CASE ~ Wanted(m, x)
      <4>1. InTransit(m)' = f  BY <1>5, <1>6, <3>4, JoinLaws
      <4>2. QED  BY <1>2, <3>1, <4>1, FollowsMore
    <3>5. QED  BY <3>3, <3>4
  <2>3. \A k \in (p + 1) + 1 .. Len(Feed[m]) : Above(rows[m], Feed[m][k].sequence)
    <3>1. (p + 1) + 1 .. Len(Feed[m]) \subseteq p + 1 .. Len(Feed[m])  BY <1>2
    <3>2. QED  BY <3>1 DEF FeedOrder
  <2>4. QED  BY <1>1, <2>1, <2>2, <2>3 DEF FeedOrder
<1>9. QED  BY <1>7, <1>8

\* A message nobody read: the feed goes on.
LEMMA FeedOrderMiss ==
  ASSUME PipeTypeOK, PipeTypeOK', NEW m \in Matches, FeedOrder(m), NEW n \in Matches, Miss(n)
  PROVE  FeedOrder(m)'
<1> USE DEF runVars, poolVars, feedVars, redisVars, logVars
<1>1. /\ published' = [published EXCEPT ![n] = @ + 1]
      /\ UNCHANGED <<busy, chans, held, msgs, rows, reader>> /\ published[n] < Len(Feed[n])
  BY DEF Miss, Publish
<1>2. published[m] \in Nat /\ Len(Feed[m]) \in Nat
  <2>1. published \in [Matches -> Nat]  BY DEF PipeTypeOK
  <2>2. QED  BY <2>1, FeedLength
<1>3. InTransit(m)' = InTransit(m)
  BY <1>1, FlowIdle, TransitNow, TransitNext DEF Transit
<1>4. CASE m # n
  <2>1. published'[m] = published[m]  BY <1>1, <1>4 DEF PipeTypeOK
  <2>2. QED  BY <1>1, <1>3, <2>1 DEF FeedOrder
<1>5. CASE m = n
  <2>1. published'[m] = published[m] + 1 /\ published[m] + 1 <= Len(Feed[m])
    BY <1>1, <1>2, <1>5 DEF PipeTypeOK
  <2>2. Follows(m, InTransit(m), published[m] + 1, rows[m])  BY <1>2, FollowsMore DEF FeedOrder
  <2>3. (published[m] + 1) + 1 .. Len(Feed[m]) \subseteq published[m] + 1 .. Len(Feed[m])  BY <1>2
  <2>4. QED  BY <1>1, <1>3, <2>1, <2>2, <2>3 DEF FeedOrder
<1>6. QED  BY <1>4, <1>5

LEMMA InFeedOrderStep ==
  ASSUME PipeTypeOK, PipeTypeOK', Sharded, InFeedOrder, PipeNext
  PROVE  InFeedOrder'
<1> USE DEF runVars, poolVars, feedVars, redisVars, logVars
<1> SUFFICES ASSUME NEW m \in Matches PROVE FeedOrder(m)'
  BY DEF InFeedOrder, FeedOrder
<1>1. FeedOrder(m)  BY DEF InFeedOrder, FeedOrder
<1>2. /\ InTransit(m) = Join(InFlight(m), Of(m, InHand(reader)))
      /\ InTransit(m)' = Join(InFlight(m)', Of(m, InHand(reader')))
      /\ InFlight(m) \in Queue /\ InFlight(m)' \in Queue /\ Of(m, InHand(reader)) \in Queue
      /\ reader = NoItem => InTransit(m) = InFlight(m)
      /\ reader' = NoItem => InTransit(m)' = InFlight(m)'
  BY TransitNow, TransitNext DEF Transit
<1>3. ASSUME UNCHANGED <<published, rows>>, InTransit(m)' = InTransit(m)  PROVE FeedOrder(m)'
  BY <1>1, <1>3 DEF FeedOrder
<1>4. CASE DeliverGarbage
  <2>1. /\ reader = NoItem /\ reader' = Garbage
        /\ UNCHANGED <<published, rows, busy, chans, held, msgs>>
    BY <1>4 DEF DeliverGarbage
  <2>2. Of(m, InHand(Garbage)) = <<>>  BY OfInHand DEF Wanted, Routed
  <2>3. QED  BY <1>2, <1>3, <2>1, <2>2, FlowIdle, JoinLaws
<1>5. CASE ReaderDrop
  <2>1. reader' = NoItem /\ UNCHANGED <<published, rows, busy, chans, held, msgs>>
    BY <1>5 DEF ReaderDrop
  <2>2. InTransit(m)' = InFlight(m)  BY <1>2, <2>1, FlowIdle
  <2>3. Follows(m, InFlight(m), published[m], rows[m])
    BY <1>1, <1>2, FollowsPrefix DEF FeedOrder
  <2>4. QED  BY <1>1, <2>1, <2>2, <2>3, FeedOrderShrinks
<1>6. CASE ReaderPut
  <2>1. reader' = NoItem /\ UNCHANGED <<published, rows>>  BY <1>6 DEF ReaderPut
  <2>2. InFlight(m)' = Join(InFlight(m), Of(m, InHand(reader)))  BY <1>6, FlowPut
  <2>3. QED  BY <1>2, <1>3, <2>1, <2>2
<1>7. ASSUME Take \/ Discard \/ Send \/ \E w \in Workers : WorkerTake(w)  PROVE FeedOrder(m)'
  <2>1. UNCHANGED <<published, rows, reader>>
    BY <1>7 DEF Take, Discard, Send, WorkerTake
  <2>2. InFlight(m)' = InFlight(m)  BY <1>7, FlowSame
  <2>3. QED  BY <1>2, <1>3, <2>1, <2>2
<1>8. ASSUME NEW w \in Workers, WorkerApply(w) \/ WorkerFail(w)  PROVE FeedOrder(m)'
  <2>1. WorkerDone(w) /\ (UNCHANGED rows \/ Record(busy[w]))
    BY <1>8 DEF WorkerApply, WorkerFail
  <2>2. QED  BY <1>1, <2>1, FeedOrderDone
<1>9. ASSUME FreshProcess  PROVE FeedOrder(m)'
  <2>1. reader' = NoItem /\ UNCHANGED <<published, rows>>  BY <1>9 DEF FreshProcess
  <2>2. InTransit(m)' = <<>>  BY <1>2, <1>9, <2>1, FlowFresh
  <2>3. QED  BY <1>1, <2>1, <2>2, FollowsEmpty, FeedOrderShrinks
<1>10. ASSUME UNCHANGED <<published, rows, busy, chans, held, msgs, reader>>  PROVE FeedOrder(m)'
  BY <1>2, <1>3, <1>10, FlowIdle
<1>11. ASSUME NEW n \in Matches, Deliver(n)  PROVE FeedOrder(m)'  BY <1>1, <1>11, FeedOrderDeliver
<1>12. ASSUME NEW n \in Matches, Miss(n)  PROVE FeedOrder(m)'  BY <1>1, <1>12, FeedOrderMiss
<1>13. QED
  BY <1>4, <1>5, <1>6, <1>7, <1>8, <1>9, <1>10, <1>11, <1>12
  DEF PipeNext, Reader, ReaderExit, Cancel, Runner, ClosePool, RunReturn, Worker,
      WorkerExit, Signal, ServeReturns, Exit, Kill, Restart

\* What a worker has in hand is newer than the row of its match.
LEMMA NoStaleInOrder ==
  ASSUME PipeTypeOK, Sharded, InFeedOrder, NEW w \in Workers, busy[w] # NoItem
  PROVE  ~ IsStale(busy[w])
<1> DEFINE x == busy[w]
           m == x.match
<1>1. x \in Events /\ m \in Matches /\ Len(InTransit(m)) > 0 /\ InTransit(m)[1] = x
  BY BusyIsFirst
<1>2. 1 \in 1 .. Len(InTransit(m))
  <2>1. Len(InTransit(m)) \in Nat  BY <1>1, TransitNow, LenProperties DEF Transit, Queue
  <2>2. QED  BY <1>1, <2>1
<1>3. Above(rows[m], x.sequence) /\ \E k \in 1 .. published[m] : x = Feed[m][k]
  BY <1>1, <1>2 DEF InFeedOrder, Follows
<1>4. x.sequence \in Nat /\ x.sequence > 0
  <2>1. PICK k \in 1 .. published[m] : x = Feed[m][k]  BY <1>3
  <2>2. published[m] \in Nat /\ published[m] <= Len(Feed[m]) /\ Len(Feed[m]) \in Nat
    BY <1>1, FeedLength DEF PipeTypeOK, InFeedOrder
  <2>3. QED  BY <1>1, <2>1, <2>2, FeedFacts, EventFacts
<1>5. rows[m] = NoRow \/ rows[m].lastSequence \in Nat
  <2>1. rows[m] \in Row \cup {NoRow}  BY <1>1 DEF PipeTypeOK, LogTypeOK
  <2>2. QED  BY <2>1 DEF Row
<1> HIDE DEF x
<1>6. /\ LoadOrCreate(rows[m], x).lastSequence < x.sequence
      /\ LoadOrCreate(rows[m], x).lastSequence \in Nat
  BY <1>3, <1>4, <1>5 DEF LoadOrCreate, FreshRow, Above
<1>7. QED  BY <1>4, <1>6 DEF IsStale, Stale, x

-----------------------------------------------------------------------------
(* The stages of a shutdown, and what it leaves behind. *)

LEMMA StagesStep ==
  ASSUME PipeTypeOK, Stages, PipeNext
  PROVE  Stages'
<1> USE DEF runVars, poolVars, redisVars, mainVars, Alive
<1>1. ASSUME FreshProcess, main' # "exited"  PROVE Stages'  BY <1>1 DEF FreshProcess, Stages
<1>2. ASSUME NEW m \in Matches, Deliver(m) \/ Miss(m)  PROVE Stages'
  <2>1. \/ UNCHANGED <<redisVars, runVars, poolVars, mainVars>>
        \/ subOpen /\ UNCHANGED <<msgs, msgsClosed, subOpen, runVars, poolVars, mainVars>>
    BY <1>2 DEF Deliver, Publish, Miss
  <2>2. QED  BY <2>1 DEF Stages
<1>3. CASE DeliverGarbage  BY <1>3 DEF DeliverGarbage, Stages
<1>4. CASE ReaderDrop  BY <1>4 DEF ReaderDrop, Stages
<1>5. CASE ReaderPut  BY <1>5 DEF ReaderPut, Stages
<1>6. CASE ReaderExit  BY <1>6 DEF ReaderExit, Stages
<1>7. CASE Cancel  BY <1>7 DEF Cancel, Stages
<1>8. CASE Take  BY <1>8 DEF Take, Stages
<1>9. CASE Discard  BY <1>9 DEF Discard, Stages
<1>10. CASE Send
  <2>1. exited = {} /\ ~ chansClosed  BY <1>10 DEF Send, Stages
  <2>2. QED  BY <1>10, <2>1 DEF Send, Stages
<1>11. CASE ClosePool  BY <1>11 DEF ClosePool, Stages
<1>12. CASE RunReturn  BY <1>12 DEF RunReturn, Stages
<1>13. ASSUME NEW w \in Workers, WorkerTake(w)  PROVE Stages'
  <2>1. \A v \in exited : chans'[v] = chans[v] /\ busy'[v] = busy[v]
    BY <1>13 DEF WorkerTake, PipeTypeOK
  <2>2. QED  BY <1>13, <2>1 DEF WorkerTake, Stages
<1>14. ASSUME NEW w \in Workers, WorkerApply(w) \/ WorkerFail(w)  PROVE Stages'
  <2>1. \A v \in exited : busy'[v] = busy[v]
    BY <1>14 DEF WorkerApply, WorkerFail, WorkerDone, PipeTypeOK, Stages
  <2>2. QED  BY <1>14, <2>1 DEF WorkerApply, WorkerFail, WorkerDone, Stages
<1>15. ASSUME NEW w \in Workers, WorkerExit(w)  PROVE Stages'
  <2>1. run # "returned"  BY <1>15 DEF WorkerExit, Stages
  <2>2. QED  BY <1>15, <2>1 DEF WorkerExit, Stages
<1>16. CASE Signal  BY <1>16 DEF Signal, Stages
<1>17. CASE ServeReturns  BY <1>17 DEF ServeReturns, Stages
<1>18. CASE Exit  BY <1>18 DEF Exit, Stages
<1>19. CASE Kill  BY <1>1, <1>19 DEF Kill
<1>20. CASE Restart  BY <1>1, <1>20 DEF Restart
<1>21. QED
  BY <1>2, <1>3, <1>4, <1>5, <1>6, <1>7, <1>8, <1>9, <1>10, <1>11, <1>12, <1>13, <1>14, <1>15,
     <1>16, <1>17, <1>18, <1>19, <1>20
  DEF PipeNext, Reader, Runner, Worker

LEMMA SettledStep ==
  ASSUME PipeTypeOK, PipeTypeOK', Sharded, InFeedOrder, SettledRecorded, PipeNext
  PROVE  SettledRecorded'
<1> USE DEF logVars, historyVars
<1>1. ASSUME FreshProcess  PROVE SettledRecorded'
  <2>1. \A m \in Matches : settled'[m] = <<>>  BY <1>1 DEF FreshProcess
  <2>2. QED  BY <2>1, EmptySeq DEF SettledRecorded, ToSet
<1>2. ASSUME UNCHANGED <<settled, timeline, failed>>  PROVE SettledRecorded'
  BY <1>2 DEF SettledRecorded
<1>3. ASSUME NEW w \in Workers, WorkerApply(w) \/ WorkerFail(w)  PROVE SettledRecorded'
  <2> DEFINE x == busy[w]
  <2>1. busy[w] # NoItem /\ settled' = Log(settled, x)
    BY <1>3 DEF WorkerApply, WorkerFail, WorkerDone
  <2>2. x \in Events /\ x.match \in Matches  BY <2>1, BusyIsFirst
  <2>3. failed \subseteq failed' /\ (x \in failed' \/ Record(x))
    <3>1. ~ IsStale(x)  BY <2>1, NoStaleInOrder
    <3>2. CASE WorkerApply(w)  BY <3>1, <3>2 DEF WorkerApply
    <3>3. CASE WorkerFail(w)
      <4>1. failed' = failed \cup {x}  BY <3>3 DEF WorkerFail
      <4>2. QED  BY <4>1
    <3>4. QED  BY <1>3, <3>2, <3>3
  <2>4. /\ \A m \in Matches : timeline[m] \subseteq timeline'[m]
        /\ x \in timeline'[x.match] \cup failed'
    <3>1. ASSUME Record(x)
          PROVE  (\A m \in Matches : timeline[m] \subseteq timeline'[m]) /\ x \in timeline'[x.match]
      <4>1. LogTypeOK  BY DEF PipeTypeOK
      <4>2. /\ timeline'[x.match] = timeline[x.match] \cup {x}
            /\ \A m \in Matches \ {x.match} : timeline'[m] = timeline[m]
        <5> HIDE DEF x
        <5>1. QED  BY <2>2, <3>1, <4>1, RecordEffect
      <4>3. QED  BY <4>2
    <3>2. UNCHANGED timeline \/ Record(x)
      BY <1>3 DEF WorkerApply, WorkerFail
    <3>3. QED  BY <2>3, <3>1, <3>2
  <2> SUFFICES ASSUME NEW m \in Matches PROVE ToSet(settled'[m]) \subseteq timeline'[m] \cup failed'
    BY DEF SettledRecorded
  <2>5. settled'[m] = IF Wanted(m, x) THEN Append(settled[m], x) ELSE settled[m]
    <3>1. settled \in [Matches -> Seq(Events)]  BY DEF PipeTypeOK
    <3>2. QED  BY <2>1, <2>2, <3>1, SlotFacts, LogFields
  <2>6. settled[m] \in Seq(Events)  BY DEF PipeTypeOK
  <2>7. ASSUME NEW i \in DOMAIN settled'[m]
        PROVE  \/ settled'[m][i] \in ToSet(settled[m])
               \/ settled'[m][i] = x /\ x.match = m
    <3>1. CASE Wanted(m, x)
      <4>1. settled'[m] = Append(settled[m], x) /\ x.match = m  BY <2>5, <3>1 DEF Wanted
      <4>2. DOMAIN settled'[m] = 1 .. Len(settled[m]) + 1 /\ Len(settled[m]) \in Nat
            /\ settled'[m][Len(settled[m]) + 1] = x
            /\ \A j \in 1 .. Len(settled[m]) : settled'[m][j] = settled[m][j]
            /\ DOMAIN settled[m] = 1 .. Len(settled[m])
        BY <2>2, <2>6, <4>1, AppendProperties, LenProperties
      <4>3. i = Len(settled[m]) + 1 \/ i \in 1 .. Len(settled[m])  BY <2>7, <4>2
      <4>4. QED  BY <4>1, <4>2, <4>3 DEF ToSet
    <3>2. CASE ~ Wanted(m, x)
      <4>1. settled'[m] = settled[m]  BY <2>5, <3>2
      <4>2. i \in DOMAIN settled[m] /\ settled'[m][i] = settled[m][i]  BY <2>7, <4>1
      <4>3. settled[m][i] \in ToSet(settled[m])  BY <4>2 DEF ToSet
      <4>4. QED  BY <4>2, <4>3
    <3>3. QED  BY <3>1, <3>2
  <2>8. ToSet(settled[m]) \subseteq timeline'[m] \cup failed'
    BY <2>3, <2>4 DEF SettledRecorded
  <2> HIDE DEF x
  <2>9. \A i \in DOMAIN settled'[m] : settled'[m][i] \in timeline'[m] \cup failed'
    BY <2>4, <2>7, <2>8
  <2>10. QED  BY <2>9 DEF ToSet
<1>4. QED
  BY <1>1, <1>2, <1>3
  DEF PipeNext, Deliver, Publish, Miss, DeliverGarbage, ReaderDrop, Reader, ReaderPut, ReaderExit,
      Cancel, Runner, Take, Discard, Send, ClosePool, RunReturn, Worker, WorkerTake, WorkerExit,
      Signal, ServeReturns, Exit, Kill, Restart

-----------------------------------------------------------------------------
(* The invariant. *)

LEMMA PipeInvInit == PipeInit => PipeInv
<1> SUFFICES ASSUME PipeInit PROVE PipeInv  OBVIOUS
<1> USE DEF PipeInit
<1>1. <<>> \in Seq(Messages) /\ <<>> \in Seq(Events) /\ Len(<<>>) = 0  BY EmptySeq
<1>2. PipeTypeOK
  <2>1. LogTypeOK  BY DEF LogInit, LogTypeOK
  <2>2. /\ chans \in [Workers -> Seq(Events)] /\ busy \in [Workers -> Events \cup {NoItem}]
        /\ \A w \in Workers : Len(chans[w]) <= ChannelBuffer
        /\ received \in [Matches -> Seq(Events)] /\ settled \in [Matches -> Seq(Events)]
        /\ published \in [Matches -> Nat] /\ restarts \in 0 .. MaxRestarts
        /\ msgs \in Seq(Messages) /\ Len(msgs) <= MsgsBuffer
    BY <1>1, PipelineAssumption
  <2>3. QED  BY <2>1, <2>2 DEF PipeTypeOK
<1>3. Sharded  BY <1>1 DEF Sharded
<1>4. \A m \in Matches : InFlight(m) = <<>> /\ InTransit(m) = <<>>
  <2> TAKE m \in Matches
  <2> DEFINE w == WorkerIndex[m]
  <2>1. w \in Workers /\ busy[w] = NoItem /\ chans[w] = <<>> /\ held = NoItem /\ msgs = <<>>
        /\ reader = NoItem
    BY PipelineAssumption
  <2>2. InFlight(m) = FourIn(Of(m, InHand(NoItem)), Of(m, <<>>), Of(m, InHand(NoItem)), Of(m, <<>>))
        /\ InTransit(m) = InFlight(m)
    BY <1>2, <2>1, PiecesNow, TransitNow DEF InPieces, Transit, Pieces
  <2>3. Of(m, InHand(NoItem)) = <<>> /\ Of(m, <<>>) = <<>>  BY SlotFacts, OfEmpty
  <2>4. QED  BY <2>2, <2>3, JoinLaws DEF FourIn
<1>5. InOrderNothingLost
  <2>1. <<>> \o <<>> = <<>>  BY <1>1, ConcatEmptySeq
  <2>2. QED  BY <1>4, <2>1 DEF InOrderNothingLost
<1>6. InFeedOrder
  <2>1. ASSUME NEW m \in Matches
        PROVE  /\ published[m] <= Len(Feed[m])
               /\ Follows(m, InTransit(m), published[m], rows[m])
               /\ \A k \in published[m] + 1 .. Len(Feed[m]) : Above(rows[m], Feed[m][k].sequence)
    <3>1. rows[m] = NoRow /\ published[m] = 0 /\ Len(Feed[m]) \in Nat  BY FeedLength DEF LogInit
    <3>2. QED  BY <1>4, <3>1, FollowsEmpty DEF Above
  <2>2. QED  BY <2>1 DEF InFeedOrder
<1>7. Stages  BY DEF Stages
<1>8. SettledRecorded  BY <1>1 DEF SettledRecorded, ToSet
<1>9. QED  BY <1>2, <1>3, <1>5, <1>6, <1>7, <1>8 DEF PipeInv

LEMMA PipeInvStep == PipeInv /\ [PipeNext]_pipeVars => PipeInv'
<1>1. ASSUME PipeInv, PipeNext  PROVE PipeInv'
  <2>1. PipeTypeOK'  BY <1>1, PipeTypeStep DEF PipeInv
  <2>2. Sharded'  BY <1>1, ShardedStep DEF PipeInv
  <2>3. InOrderNothingLost'  BY <1>1, <2>1, InOrderStep DEF PipeInv
  <2>4. InFeedOrder'  BY <1>1, <2>1, InFeedOrderStep DEF PipeInv
  <2>5. Stages'  BY <1>1, StagesStep DEF PipeInv
  <2>6. SettledRecorded'  BY <1>1, <2>1, SettledStep DEF PipeInv
  <2>7. QED  BY <2>1, <2>2, <2>3, <2>4, <2>5, <2>6 DEF PipeInv
<1>2. ASSUME PipeInv, UNCHANGED pipeVars  PROVE PipeInv'
  <2> USE <1>2 DEF pipeVars, logVars, feedVars, redisVars, runVars, poolVars, mainVars, historyVars
  <2>1. PipeTypeOK'  BY DEF PipeInv, PipeTypeOK, LogTypeOK
  <2>2. Sharded'  BY DEF PipeInv, Sharded
  <2>3. InOrderNothingLost'  BY DEF PipeInv, InOrderNothingLost, InFlight
  <2>4. InFeedOrder'  BY DEF PipeInv, InFeedOrder, InTransit, InFlight
  <2>5. Stages'  BY DEF PipeInv, Stages
  <2>6. SettledRecorded'  BY DEF PipeInv, SettledRecorded
  <2>7. QED  BY <2>1, <2>2, <2>3, <2>4, <2>5, <2>6 DEF PipeInv
<1>3. QED  BY <1>1, <1>2

THEOREM PipeInvariant == PipeSpec => []PipeInv
<1>1. QED  BY PipeInvInit, PipeInvStep, PTL DEF PipeSpec

\* Every variable of the process stays in its range: no buffer ever holds more than its
\* capacity, and a worker is only ever sent events.
THEOREM PipeTypeCorrect == PipeSpec => []PipeTypeOK
<1>1. PipeInv => PipeTypeOK  BY DEF PipeInv
<1>2. QED  BY <1>1, PipeInvariant, PTL

\* Per match, what entered msgs is what the workers have settled followed by what is in
\* flight: Run, the pool and the drain neither lose, nor duplicate, nor reorder an event.
THEOREM EventsKeepOrder == PipeSpec => []InOrderNothingLost
<1>1. PipeInv => InOrderNothingLost  BY DEF PipeInv
<1>2. QED  BY <1>1, PipeInvariant, PTL

\* No event is stale when a worker applies it, across restarts too: Reduce's guard never
\* drops an event because of the pipeline.
THEOREM WorkIsNeverStale == PipeSpec => []NoStaleWork
<1>1. PipeInv => NoStaleWork  BY NoStaleInOrder DEF PipeInv, NoStaleWork
<1>2. QED  BY <1>1, PipeInvariant, PTL

\* A process that exits on its own has recorded, or reported, all it had received.
THEOREM ShutdownLosesNothing == PipeSpec => []ExitLosesNothing
<1>1. PipeInv => ExitLosesNothing
  <2> SUFFICES ASSUME PipeInv, main = "exited", NEW m \in Matches
               PROVE  ToSet(received[m]) \subseteq timeline[m] \cup failed
    BY DEF ExitLosesNothing
  <2> DEFINE w == WorkerIndex[m]
  <2>1. w \in Workers /\ chans[w] = <<>> /\ busy[w] = NoItem /\ held = NoItem /\ msgs = <<>>
    BY PipelineAssumption DEF PipeInv, Stages
  <2>2. InFlight(m) = FourIn(Of(m, InHand(NoItem)), Of(m, <<>>), Of(m, InHand(NoItem)), Of(m, <<>>))
    BY <2>1, PiecesNow DEF PipeInv, InPieces, Pieces
  <2>3. Of(m, InHand(NoItem)) = <<>> /\ Of(m, <<>>) = <<>>  BY SlotFacts, OfEmpty
  <2>4. InFlight(m) = <<>>  BY <2>2, <2>3, JoinLaws DEF FourIn
  <2>5. received[m] = Join(settled[m], <<>>) /\ settled[m] \in Queue
    BY <2>4, StateSlots DEF PipeInv, InOrderNothingLost, Join
  <2>6. received[m] = settled[m]  BY <2>5, JoinLaws
  <2>7. QED  BY <2>6 DEF PipeInv, SettledRecorded
<1>2. QED  BY <1>1, PipeInvariant, PTL

\* Send never meets a closed channel: the pool is closed when nothing is left to be sent.
THEOREM PoolClosedLast == PipeSpec => []ClosedAfterLastSend
<1>1. PipeInv => ClosedAfterLastSend  BY DEF PipeInv, Stages, ClosedAfterLastSend
<1>2. QED  BY <1>1, PipeInvariant, PTL

\* The process writes the tables only as MatchLog does: every step records one event that
\* is not stale, or leaves them alone. What is proved of MatchLog holds of the process.
THEOREM PipelineImplementsLog == PipeSpec => LogSpec
<1>1. PipeInit => LogInit  BY DEF PipeInit
<1>2. PipeInv /\ [PipeNext]_pipeVars => [LogNext]_logVars
  <2> SUFFICES ASSUME PipeInv, PipeNext PROVE LogNext \/ UNCHANGED logVars
    BY DEF pipeVars
  <2>1. ASSUME NEW w \in Workers, WorkerApply(w)  PROVE LogNext \/ UNCHANGED logVars
    <3>1. busy[w] \in Events  BY <2>1, BusyIsFirst DEF PipeInv, WorkerApply, WorkerDone
    <3>2. QED  BY <2>1, <3>1 DEF WorkerApply, LogNext
  <2>2. QED
    BY <2>1
    DEF PipeNext, Deliver, Publish, Miss, DeliverGarbage, ReaderDrop, Reader, ReaderPut, ReaderExit,
        Cancel, Runner, Take, Discard, Send, ClosePool, RunReturn, Worker, WorkerTake, WorkerFail,
        WorkerExit, Signal, ServeReturns, Exit, Kill, Restart, FreshProcess
<1>3. QED  BY <1>1, <1>2, PipeInvariant, PTL DEF PipeSpec, LogSpec
=============================================================================
