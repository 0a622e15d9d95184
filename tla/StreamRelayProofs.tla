------------------------- MODULE StreamRelayProofs -------------------------
(***************************************************************************)
(* Proofs about StreamRelay, for upstream bodies of any length and any     *)
(* channel capacities.                                                     *)
(*                                                                         *)
(* The invariant is an account of the chunks: the ones on the wire, in the *)
(* second channel, in the relay's hand, in the first channel and in the    *)
(* pump's hand are, in this order, 1, 2, ..., read.  A failure of the      *)
(* upstream travels behind the last of them.  The account is given up      *)
(* where a dropped receiver loses what it held.                            *)
(***************************************************************************)
EXTENDS StreamRelay, TLAPS, SequenceTheorems

(* The relay still moves chunks. *)
Relaying == relay \in {"selecting", "sending"}

RelayHand == IF relay = "sending" THEN 1 ELSE 0

PumpHand == IF pump = "sending" /\ pumpItem # Failure THEN 1 ELSE 0

(* The last item of a channel is the failure; how many chunks it holds. *)
EndsInFailure(q) == Len(q) > 0 /\ q[Len(q)] = Failure

Chunks(q) == IF EndsInFailure(q) THEN Len(q) - 1 ELSE Len(q)

(* The pump holds the last chunk it read, or the failure of a source that  *)
(* is exhausted; when it is done the failure is the last item it sent.     *)
PumpInv ==
  /\ pump = "sending" =>
       IF pumpItem = Failure THEN read = source.size /\ source.fails
                             ELSE pumpItem = read
  /\ pump = "done" /\ Relaying =>
       read = source.size /\ (source.fails => EndsInFailure(first))

(* What has been read and not relayed. *)
FirstInv ==
  Relaying =>
    /\ \A n \in 1..Len(first) :
         IF first[n] = Failure THEN n = Len(first) /\ pump = "done" /\ source.fails
                               ELSE first[n] = bytes + RelayHand + n
    /\ read = bytes + RelayHand + Chunks(first) + PumpHand
    /\ relay = "sending" => relayItem = bytes + 1

(* A relay that is through has relayed all there was, or lost its reader.  *)
RelayInv ==
  /\ bytes <= read
  /\ ~Relaying /\ ~Hung =>
       /\ bytes = source.size /\ pump = "done"
       /\ source.fails => ending = "upstream_stream_error"
  /\ relay = "failing" => ending = "upstream_stream_error"

(* What has been relayed and is not on the wire. *)
SecondInv ==
  /\ Hung => second = <<>>
  /\ ~Hung => bytes = Len(received) + Chunks(second)
  /\ \A n \in 1..Len(second) :
       IF second[n] = Failure THEN n = Len(second) /\ relay = "done" /\ source.fails
                              ELSE second[n] = Len(received) + n
  /\ ~Hung /\ relay = "done" /\ source.fails => EndsInFailure(second)

(* Nothing is written past what hyper wants, and a client is cut short     *)
(* only by a relay that is done.                                           *)
WireInv ==
  /\ Len(received) <= bytes
  /\ Wanted >= 0 => Len(received) <= Wanted
  /\ client = "truncated" => relay = "done"

(* The log has the one line of a relay that is past it, and the outcome is *)
(* right from the moment it is decided.                                    *)
LogInv ==
  /\ log = IF relay \in {"failing", "done"}
           THEN <<[outcome |-> ending, bytes |-> bytes]>> ELSE <<>>
  /\ Relaying => ending = "complete"
  /\ ~Relaying =>
       /\ ending = "complete" =>
            bytes = announced \/ (bytes = source.size /\ ~source.fails)
       /\ ending = "upstream_stream_error" => source.fails /\ bytes = source.size
       /\ ending = "client_disconnected" => Hung

Inv == /\ TypeOK /\ PumpInv /\ FirstInv /\ RelayInv
       /\ SecondInv /\ WireInv /\ LogInv

----------------------------------------------------------------------------
(* Sending puts an item behind the others. *)
LEMMA SendFacts ==
  ASSUME NEW q \in Seq(Items), NEW x \in Items
  PROVE  /\ Append(q, x) \in Seq(Items) /\ Len(Append(q, x)) = Len(q) + 1
         /\ \A n \in 1..Len(q) : Append(q, x)[n] = q[n]
         /\ Append(q, x)[Len(q) + 1] = x
         /\ EndsInFailure(Append(q, x)) <=> x = Failure
         /\ Chunks(Append(q, x)) = IF x = Failure THEN Len(q) ELSE Len(q) + 1
<1>1. /\ Append(q, x) \in Seq(Items) /\ Len(Append(q, x)) = Len(q) + 1
      /\ \A n \in 1..Len(q) : Append(q, x)[n] = q[n]
      /\ Append(q, x)[Len(q) + 1] = x
  OBVIOUS
<1>2. Len(q) \in Nat
  OBVIOUS
<1>3. EndsInFailure(Append(q, x)) <=> x = Failure
  BY <1>1, <1>2 DEF EndsInFailure
<1> QED
  BY <1>1, <1>2, <1>3 DEF Chunks

(* Receiving takes the first item and leaves the others in their order. *)
LEMMA ReceiveFacts ==
  ASSUME NEW q \in Seq(Items), q # <<>>
  PROVE  /\ Tail(q) \in Seq(Items) /\ Len(Tail(q)) = Len(q) - 1 /\ Len(q) \in Nat \ {0}
         /\ \A n \in 1..Len(Tail(q)) : Tail(q)[n] = q[n + 1]
         /\ Head(q) = q[1] /\ Head(q) \in Items
         /\ Len(q) > 1 => (EndsInFailure(Tail(q)) <=> EndsInFailure(q))
         /\ Len(q) = 1 => ~EndsInFailure(Tail(q))
<1>1. /\ Tail(q) \in Seq(Items) /\ Len(Tail(q)) = Len(q) - 1 /\ Len(q) \in Nat \ {0}
      /\ Head(q) = q[1] /\ Head(q) \in Items
  BY HeadTailProperties, EmptySeq
<1>2. \A n \in 1..Len(Tail(q)) : Tail(q)[n] = q[n + 1]
  BY HeadTailProperties
<1>3. Len(q) > 1 => (EndsInFailure(Tail(q)) <=> EndsInFailure(q))
  <2> SUFFICES ASSUME Len(q) > 1 PROVE EndsInFailure(Tail(q)) <=> EndsInFailure(q)
    OBVIOUS
  <2>1. Len(Tail(q)) \in 1..Len(Tail(q)) /\ Len(Tail(q)) + 1 = Len(q)
    BY <1>1
  <2>2. Tail(q)[Len(Tail(q))] = q[Len(q)]
    BY <1>2, <2>1
  <2> QED
    BY <1>1, <2>1, <2>2 DEF EndsInFailure
<1>4. Len(q) = 1 => ~EndsInFailure(Tail(q))
  <2> DEFINE t == Tail(q)
  <2>1. Len(t) = Len(q) - 1 /\ Len(q) \in Nat
    BY <1>1
  <2> HIDE DEF t
  <2>2. Len(q) = 1 => ~EndsInFailure(t)
    BY <2>1 DEF EndsInFailure
  <2> QED
    BY <2>2 DEF t
<1> QED
  BY <1>1, <1>2, <1>3, <1>4

(* The empty channel. *)
LEMMA EmptyFacts == /\ <<>> \in Seq(Items) /\ Len(<<>>) = 0
                    /\ ~EndsInFailure(<<>>) /\ Chunks(<<>>) = 0
BY DEF EndsInFailure, Chunks

(* A channel holds as many chunks as items, or one less. *)
LEMMA ChunksType ==
  ASSUME NEW q \in Seq(Items)
  PROVE  /\ Chunks(q) \in Nat /\ Chunks(q) <= Len(q) /\ Len(q) \in Nat
         /\ Len(q) <= Chunks(q) + 1
<1>1. Len(q) \in Nat
  OBVIOUS
<1> QED
  BY <1>1 DEF Chunks, EndsInFailure

----------------------------------------------------------------------------
(* The invariant holds before anything has been read. *)
LEMMA InitInv == Init => Inv
<1> SUFFICES ASSUME Init PROVE Inv
  OBVIOUS
<1> USE EmptyFacts, CapacityAssumption
    DEF Init, CapacityAssumption, Items, Failure, Endings, Relaying, Hung
<1>1. TypeOK
  BY DEF TypeOK
<1>2. PumpInv /\ RelayInv
  BY DEF PumpInv, RelayInv
<1>3. FirstInv
  BY DEF FirstInv, RelayHand, PumpHand
<1>4. SecondInv /\ WireInv
  BY DEF SecondInv, WireInv, Wanted
<1>5. LogInv
  BY DEF LogInv
<1> QED
  BY <1>1, <1>2, <1>3, <1>4, <1>5 DEF Inv

(* The pump reads: only its own hand changes. *)
LEMMA PumpReadsInv == Inv /\ PumpReads => Inv'
<1> SUFFICES ASSUME Inv, PumpReads PROVE Inv'
  OBVIOUS
<1> USE DEF PumpReads, inputs, relayVars, wireVars, Relaying, Hung, RelayDone
<1>1. /\ source.size \in Nat /\ source.size <= MaxChunks /\ read \in Nat
      /\ bytes \in Nat /\ Chunks(first) \in Nat
  BY ChunksType, CapacityAssumption DEF Inv, TypeOK, CapacityAssumption
<1>2. TypeOK'
  <2>1. read \in 0..source.size /\ pumpItem \in Items /\ MaxChunks \in Nat
    BY CapacityAssumption DEF Inv, TypeOK, CapacityAssumption
  <2>2. read' \in 0..source.size /\ pumpItem' \in Items
    BY <1>1, <2>1 DEF Items, Failure
  <2> QED
    BY <2>2 DEF Inv, TypeOK
<1>3. pump = "reading" => PumpHand = 0
  BY DEF PumpHand
<1>4. PumpInv'
  BY <1>1, <1>3 DEF Inv, TypeOK, PumpInv, FirstInv, Failure
<1>5. FirstInv'
  <2>1. Relaying => read' = bytes' + RelayHand' + Chunks(first') + PumpHand'
    BY <1>1 DEF Inv, FirstInv, RelayHand, PumpHand, Failure
  <2> QED
    BY <2>1 DEF Inv, FirstInv, RelayHand
<1>6. RelayInv' /\ SecondInv' /\ WireInv' /\ LogInv'
  BY <1>1 DEF Inv, RelayInv, SecondInv, WireInv, LogInv, Wanted
<1> QED
  BY <1>2, <1>4, <1>5, <1>6 DEF Inv

(* The pump sends: its hand empties into the first channel, or the channel *)
(* is gone.                                                                *)
LEMMA PumpSendsInv == Inv /\ PumpSends => Inv'
<1> SUFFICES ASSUME Inv, PumpSends PROVE Inv'
  OBVIOUS
<1> USE DEF inputs, relayVars, wireVars, Relaying, Hung, RelayDone
<1>1. /\ first \in Seq(Items) /\ pumpItem \in Items /\ Chunks(first) \in Nat
      /\ bytes \in Nat /\ read \in Nat /\ Len(first) \in Nat /\ RelayHand \in {0, 1}
  BY ChunksType, CapacityAssumption DEF Inv, TypeOK, CapacityAssumption, RelayHand
<1>2. UNCHANGED <<inputs, read, pumpItem, relayVars, second, wireVars>> /\ pump = "sending"
  BY DEF PumpSends
<1>3. CASE RelayDone
  <2>1. pump' = "done" /\ first' = first
    BY <1>3 DEF PumpSends
  <2>2. TypeOK' /\ PumpInv' /\ FirstInv'
    BY <1>2, <1>3, <2>1 DEF Inv, TypeOK, PumpInv, FirstInv
  <2>3. RelayInv' /\ SecondInv' /\ WireInv' /\ LogInv'
    BY <1>2, <2>1 DEF Inv, RelayInv, SecondInv, WireInv, LogInv, Wanted
  <2> QED
    BY <2>2, <2>3 DEF Inv
<1>4. CASE ~RelayDone
  <2>1. /\ first' = Append(first, pumpItem) /\ Len(first) < PipeCapacity
        /\ pump' = IF pumpItem = Failure THEN "done" ELSE "reading"
    BY <1>4 DEF PumpSends
  <2>2. /\ first' \in Seq(Items) /\ Len(first') = Len(first) + 1
        /\ \A n \in 1..Len(first) : first'[n] = first[n]
        /\ first'[Len(first) + 1] = pumpItem
        /\ EndsInFailure(first') <=> pumpItem = Failure
        /\ Chunks(first') = IF pumpItem = Failure THEN Len(first) ELSE Len(first) + 1
    BY <1>1, <2>1, SendFacts
  <2>3. TypeOK'
    <3>1. Len(first') <= PipeCapacity
      BY <1>1, <2>1, <2>2, CapacityAssumption DEF CapacityAssumption
    <3> QED
      BY <1>2, <2>1, <2>2, <3>1 DEF Inv, TypeOK
  <2>4. PumpInv'
    BY <1>2, <2>1, <2>2 DEF Inv, PumpInv
  <2>5. Relaying => /\ Chunks(first) = Len(first)
                    /\ \A n \in 1..Len(first) :
                         first[n] # Failure /\ first[n] = bytes + RelayHand + n
    <3>1. Relaying => \A n \in 1..Len(first) :
                         first[n] # Failure /\ first[n] = bytes + RelayHand + n
      BY <1>2 DEF Inv, FirstInv
    <3>2. Relaying => ~EndsInFailure(first)
      BY <1>1, <3>1 DEF EndsInFailure
    <3> QED
      BY <3>1, <3>2 DEF Chunks
  <2>6. FirstInv'
    <3> SUFFICES ASSUME Relaying PROVE FirstInv'
      BY <1>2 DEF FirstInv
    <3>1. RelayHand' = RelayHand /\ bytes' = bytes /\ read' = read /\ source' = source
      BY <1>2 DEF RelayHand
    <3>2. PumpHand = (IF pumpItem = Failure THEN 0 ELSE 1) /\ PumpHand' = 0
      BY <1>2, <2>1 DEF PumpHand
    <3>3. read = bytes + RelayHand + Len(first) + PumpHand
      BY <2>5 DEF Inv, FirstInv
    <3>4. read' = bytes' + RelayHand' + Chunks(first') + PumpHand'
      <4>1. CASE pumpItem = Failure
        BY <1>1, <2>2, <3>1, <3>2, <3>3, <4>1
      <4>2. CASE pumpItem # Failure
        BY <1>1, <2>2, <3>1, <3>2, <3>3, <4>2
      <4> QED
        BY <4>1, <4>2
    <3>5. pumpItem = Failure => source.fails
      BY <1>2 DEF Inv, PumpInv
    <3>6. pumpItem # Failure => pumpItem = bytes + RelayHand + Len(first) + 1
      BY <1>1, <1>2, <3>2, <3>3 DEF Inv, PumpInv
    <3>7. \A n \in 1..Len(first') :
            IF first'[n] = Failure
            THEN n = Len(first') /\ pump' = "done" /\ source'.fails
            ELSE first'[n] = bytes' + RelayHand' + n
      <4> TAKE n \in 1..Len(first')
      <4>1. n \in 1..Len(first) \/ n = Len(first) + 1
        BY <1>1, <2>2
      <4> QED
        BY <1>1, <2>1, <2>2, <2>5, <3>1, <3>5, <3>6, <4>1, SMTT(30)
    <3>8. relay' = "sending" => relayItem' = bytes' + 1
      BY <1>2 DEF Inv, FirstInv
    <3> QED
      BY <3>4, <3>7, <3>8 DEF FirstInv
  <2>7. RelayInv'
    BY <1>2, <1>4, <2>1 DEF Inv, RelayInv
  <2>8. SecondInv' /\ WireInv' /\ LogInv'
    BY <1>2 DEF Inv, SecondInv, WireInv, LogInv, Wanted
  <2> QED
    BY <2>3, <2>4, <2>6, <2>7, <2>8 DEF Inv
<1> QED
  BY <1>3, <1>4

(* The relay takes the first item: a chunk into its hand, or the failure,  *)
(* which is the last item of an exhausted source.                          *)
LEMMA RelayReceivesInv == Inv /\ RelayReceives => Inv'
<1> SUFFICES ASSUME Inv, RelayReceives PROVE Inv'
  OBVIOUS
<1> USE DEF inputs, pumpVars, wireVars, Relaying, Hung
<1>1. /\ UNCHANGED <<inputs, pumpVars, bytes, log, second, wireVars>>
      /\ relay = "selecting" /\ first # <<>> /\ first' = Tail(first)
      /\ relayItem' = Head(first)
      /\ IF Head(first) = Failure
         THEN relay' = "logging" /\ ending' = "upstream_stream_error"
         ELSE relay' = "sending" /\ ending' = ending
  BY DEF RelayReceives
<1>2. /\ first' \in Seq(Items) /\ Len(first') = Len(first) - 1 /\ Len(first) \in Nat \ {0}
      /\ \A n \in 1..Len(first') : first'[n] = first[n + 1]
      /\ relayItem' = first[1] /\ relayItem' \in Items
      /\ Len(first) > 1 => (EndsInFailure(first') <=> EndsInFailure(first))
      /\ Len(first) = 1 => ~EndsInFailure(first')
  BY <1>1, ReceiveFacts DEF Inv, TypeOK
<1>3. TypeOK'
  <2>1. Len(first') <= PipeCapacity
    BY <1>2, CapacityAssumption DEF Inv, TypeOK, CapacityAssumption
  <2> QED
    BY <1>1, <1>2, <2>1 DEF Inv, TypeOK, Endings
<1>4. /\ \A n \in 1..Len(first) :
           IF first[n] = Failure THEN n = Len(first) /\ pump = "done" /\ source.fails
                                 ELSE first[n] = bytes + n
      /\ read = bytes + Chunks(first) + PumpHand
      /\ read \in Nat /\ bytes \in Nat /\ PumpHand \in {0, 1}
  <2>1. RelayHand = 0 /\ PumpHand \in {0, 1}
    BY <1>1 DEF RelayHand, PumpHand
  <2>2. read \in Nat /\ bytes \in Nat
    BY DEF Inv, TypeOK
  <2>3. /\ \A n \in 1..Len(first) :
             IF first[n] = Failure THEN n = Len(first) /\ pump = "done" /\ source.fails
                                   ELSE first[n] = bytes + 0 + n
        /\ read = bytes + 0 + Chunks(first) + PumpHand
    BY <1>1, <2>1 DEF Inv, FirstInv
  <2> QED
    BY <2>1, <2>2, <2>3, ChunksType DEF Inv, TypeOK
<1>5. 1 \in 1..Len(first)
  BY <1>2
<1>6. SecondInv' /\ WireInv'
  BY <1>1 DEF Inv, SecondInv, WireInv, Wanted
<1>7. CASE Head(first) = Failure
  <2>1. relay' = "logging" /\ ending' = "upstream_stream_error" /\ first[1] = Failure
    BY <1>1, <1>2, <1>7
  <2>2. Len(first) = 1 /\ pump = "done" /\ source.fails
    BY <1>4, <1>5, <2>1
  <2>3. Chunks(first) = 0 /\ PumpHand = 0
    BY <2>1, <2>2 DEF Chunks, EndsInFailure, PumpHand
  <2>4. read = bytes /\ read = source.size
    BY <1>1, <1>4, <2>2, <2>3 DEF Inv, PumpInv
  <2>5. PumpInv' /\ FirstInv' /\ RelayInv'
    BY <1>1, <1>4, <2>1, <2>2, <2>4 DEF Inv, PumpInv, FirstInv, RelayInv
  <2>6. LogInv'
    BY <1>1, <2>1, <2>2, <2>4 DEF Inv, LogInv
  <2> QED
    BY <1>3, <1>6, <2>5, <2>6 DEF Inv
<1>8. CASE Head(first) # Failure
  <2>1. relay' = "sending" /\ ending' = ending /\ first[1] # Failure
    BY <1>1, <1>2, <1>8
  <2>2. Len(first) = 1 => ~EndsInFailure(first)
    BY <2>1 DEF EndsInFailure
  <2>3. EndsInFailure(first') <=> EndsInFailure(first)
    <3>1. Len(first) > 1 \/ Len(first) = 1
      BY <1>2
    <3> QED
      BY <1>2, <2>2, <3>1
  <2>4. Chunks(first) = Chunks(first') + 1 /\ Chunks(first') \in Nat
    BY <1>2, <2>3, ChunksType DEF Chunks
  <2>5. PumpInv'
    BY <1>1, <2>1, <2>3 DEF Inv, PumpInv
  <2>6. FirstInv'
    <3>1. RelayHand' = 1 /\ PumpHand' = PumpHand
      BY <1>1, <2>1 DEF RelayHand, PumpHand
    <3>2. read' = bytes' + RelayHand' + Chunks(first') + PumpHand'
      BY <1>1, <1>4, <2>4, <3>1
    <3>3. \A n \in 1..Len(first') :
            IF first'[n] = Failure
            THEN n = Len(first') /\ pump' = "done" /\ source'.fails
            ELSE first'[n] = bytes' + RelayHand' + n
      <4> TAKE n \in 1..Len(first')
      <4>1. n + 1 \in 1..Len(first) /\ first'[n] = first[n + 1] /\ n \in Nat
        BY <1>2
      <4>2. IF first[n + 1] = Failure
            THEN n + 1 = Len(first) /\ pump = "done" /\ source.fails
            ELSE first[n + 1] = bytes + (n + 1)
        BY <1>4, <4>1
      <4>3. bytes' = bytes /\ source' = source /\ pump' = pump
        BY <1>1
      <4> QED
        BY <1>2, <1>4, <3>1, <4>1, <4>2, <4>3
    <3>4. relayItem' = bytes' + 1
      BY <1>1, <1>2, <1>4, <1>5, <2>1
    <3> QED
      BY <3>2, <3>3, <3>4 DEF FirstInv
  <2>7. RelayInv' /\ LogInv'
    BY <1>1, <2>1 DEF Inv, RelayInv, LogInv
  <2> QED
    BY <1>3, <1>6, <2>5, <2>6, <2>7 DEF Inv
<1> QED
  BY <1>7, <1>8

(* The relay meets the end of the stream: everything has been relayed. *)
LEMMA RelayEndsInv == Inv /\ RelayEnds => Inv'
<1> SUFFICES ASSUME Inv, RelayEnds PROVE Inv'
  OBVIOUS
<1> USE DEF RelayEnds, inputs, pumpVars, wireVars, Relaying, Hung, PumpDone
<1>1. TypeOK'
  BY DEF Inv, TypeOK
<1>2. RelayHand = 0 /\ PumpHand = 0 /\ Chunks(first) = 0 /\ ~EndsInFailure(first)
  BY EmptyFacts DEF RelayHand, PumpHand
<1>3. bytes = read /\ read = source.size /\ ~source.fails
  BY <1>2 DEF Inv, TypeOK, PumpInv, FirstInv
<1>4. PumpInv' /\ FirstInv' /\ RelayInv'
  BY <1>3 DEF Inv, PumpInv, FirstInv, RelayInv
<1>5. SecondInv' /\ WireInv'
  BY DEF Inv, SecondInv, WireInv, Wanted
<1>6. LogInv'
  <2>1. ending = "complete"
    BY DEF Inv, LogInv
  <2> QED
    BY <1>3, <2>1 DEF Inv, LogInv
<1> QED
  BY <1>1, <1>4, <1>5, <1>6 DEF Inv

(* The relay finds the receiver of its channel gone. *)
LEMMA RelaySeesCloseInv == Inv /\ RelaySeesClose => Inv'
<1> SUFFICES ASSUME Inv, RelaySeesClose PROVE Inv'
  OBVIOUS
<1> USE DEF RelaySeesClose, inputs, pumpVars, wireVars, Relaying, Hung, FromChannelClose
<1>1. TypeOK'
  BY DEF Inv, TypeOK, Endings
<1>2. PumpInv' /\ FirstInv' /\ RelayInv'
  BY DEF Inv, PumpInv, FirstInv, RelayInv
<1>3. SecondInv' /\ WireInv' /\ LogInv'
  BY DEF Inv, SecondInv, WireInv, LogInv, Wanted
<1> QED
  BY <1>1, <1>2, <1>3 DEF Inv

(* The relay sends the chunk in its hand, or finds the receiver gone. *)
LEMMA RelaySendsInv == Inv /\ RelaySends => Inv'
<1> SUFFICES ASSUME Inv, RelaySends PROVE Inv'
  OBVIOUS
<1> USE DEF inputs, pumpVars, wireVars, Relaying, Hung
<1>1. /\ UNCHANGED <<inputs, pumpVars, first, relayItem, log, wireVars>>
      /\ relay = "sending"
  BY DEF RelaySends
<1>2. /\ relayItem = bytes + 1 /\ bytes \in Nat /\ read \in Nat
      /\ read = bytes + 1 + Chunks(first) + PumpHand
      /\ PumpHand \in {0, 1} /\ Chunks(first) \in Nat
  <2>1. RelayHand = 1 /\ PumpHand \in {0, 1}
    BY <1>1 DEF RelayHand, PumpHand
  <2> QED
    BY <1>1, <2>1, ChunksType DEF Inv, TypeOK, FirstInv
<1>3. CASE Hung
  <2>1. relay' = "logging" /\ ending' = FromChannelClose(bytes) /\ UNCHANGED <<second, bytes>>
    BY <1>3 DEF RelaySends
  <2> USE DEF FromChannelClose
  <2>2. TypeOK'
    BY <1>1, <2>1 DEF Inv, TypeOK, Endings
  <2>3. PumpInv' /\ FirstInv' /\ RelayInv'
    BY <1>1, <1>3, <2>1 DEF Inv, PumpInv, FirstInv, RelayInv
  <2>4. SecondInv' /\ WireInv' /\ LogInv'
    BY <1>1, <1>3, <2>1 DEF Inv, SecondInv, WireInv, LogInv, Wanted
  <2> QED
    BY <2>2, <2>3, <2>4 DEF Inv
<1>4. CASE ~Hung
  <2>1. /\ second' = Append(second, relayItem) /\ Len(second) < StreamCapacity
        /\ bytes' = bytes + 1 /\ relay' = "selecting" /\ ending' = ending
    BY <1>4 DEF RelaySends
  <2>2. second \in Seq(Items) /\ relayItem \in Items /\ Len(second) \in Nat
    BY DEF Inv, TypeOK
  <2>3. relayItem # Failure
    BY <1>2 DEF Failure
  <2>4. /\ second' \in Seq(Items) /\ Len(second') = Len(second) + 1
        /\ \A n \in 1..Len(second) : second'[n] = second[n]
        /\ second'[Len(second) + 1] = relayItem
        /\ Chunks(second') = Len(second) + 1
    BY <2>1, <2>2, <2>3, SendFacts
  <2>5. \A n \in 1..Len(second) : second[n] # Failure /\ second[n] = Len(received) + n
    BY <1>1 DEF Inv, SecondInv
  <2>6. bytes = Len(received) + Len(second) /\ Len(received) \in Nat
    <3>1. ~EndsInFailure(second)
      BY <2>2, <2>5 DEF EndsInFailure
    <3>2. Chunks(second) = Len(second)
      BY <3>1 DEF Chunks
    <3>3. Len(received) \in Nat
      BY DEF Inv, TypeOK
    <3> QED
      BY <1>4, <3>2, <3>3 DEF Inv, SecondInv
  <2>7. bytes' <= read'
    BY <1>1, <1>2, <2>1
  <2>8. TypeOK'
    <3>1. Len(second') <= StreamCapacity
      BY <2>1, <2>2, <2>4, CapacityAssumption DEF CapacityAssumption
    <3>2. bytes' \in 0..MaxChunks
      <4>1. read \in 0..source.size /\ source.size \in 0..MaxChunks
        BY DEF Inv, TypeOK
      <4> QED
        BY <1>1, <1>2, <2>1, <2>7, <4>1, CapacityAssumption DEF CapacityAssumption
    <3> QED
      BY <1>1, <2>1, <2>4, <3>1, <3>2 DEF Inv, TypeOK
  <2>9. PumpInv' /\ RelayInv'
    BY <1>1, <2>1, <2>7 DEF Inv, PumpInv, RelayInv
  <2>10. FirstInv'
    <3>1. RelayHand = 1 /\ RelayHand' = 0 /\ PumpHand' = PumpHand
      BY <1>1, <2>1 DEF RelayHand, PumpHand
    <3>2. read' = bytes' + RelayHand' + Chunks(first') + PumpHand'
      BY <1>1, <1>2, <2>1, <3>1
    <3>3. \A n \in 1..Len(first') :
            IF first'[n] = Failure
            THEN n = Len(first') /\ pump' = "done" /\ source'.fails
            ELSE first'[n] = bytes' + RelayHand' + n
      <4> TAKE n \in 1..Len(first')
      <4>1. IF first[n] = Failure
            THEN n = Len(first) /\ pump = "done" /\ source.fails
            ELSE first[n] = bytes + RelayHand + n
        BY <1>1 DEF Inv, FirstInv
      <4>2. n \in Int /\ first' = first /\ source' = source /\ pump' = pump
        BY <1>1
      <4> QED
        BY <1>2, <2>1, <3>1, <4>1, <4>2
    <3> QED
      BY <2>1, <3>2, <3>3 DEF FirstInv
  <2>11. SecondInv'
    <3>1. bytes' = Len(received') + Chunks(second')
      BY <1>1, <2>1, <2>2, <2>4, <2>6
    <3>2. \A n \in 1..Len(second') : second'[n] # Failure /\ second'[n] = Len(received') + n
      <4> TAKE n \in 1..Len(second')
      <4>1. n \in 1..Len(second) \/ n = Len(second) + 1
        BY <2>2, <2>4
      <4>2. received' = received
        BY <1>1
      <4>3. CASE n \in 1..Len(second)
        BY <2>4, <2>5, <4>2, <4>3
      <4>4. CASE n = Len(second) + 1
        BY <1>2, <2>2, <2>3, <2>4, <2>6, <4>2, <4>4
      <4> QED
        BY <4>1, <4>3, <4>4
    <3> QED
      BY <1>1, <1>4, <2>1, <3>1, <3>2 DEF SecondInv
  <2>12. WireInv'
    <3>1. Len(received') <= bytes'
      BY <1>1, <1>2, <2>1, <2>2, <2>6
    <3> QED
      BY <1>1, <1>4, <3>1 DEF Inv, WireInv, Wanted
  <2>13. LogInv'
    BY <1>1, <2>1 DEF Inv, LogInv
  <2> QED
    BY <2>8, <2>9, <2>10, <2>11, <2>12, <2>13 DEF Inv
<1> QED
  BY <1>3, <1>4

(* The relay writes the log line. *)
LEMMA RelayLogsInv == Inv /\ RelayLogs => Inv'
<1> SUFFICES ASSUME Inv, RelayLogs PROVE Inv'
  OBVIOUS
<1> USE DEF inputs, pumpVars, wireVars, Relaying, Hung
<1>1. /\ UNCHANGED <<inputs, pumpVars, first, relayItem, bytes, ending, second, wireVars>>
      /\ relay = "logging"
      /\ relay' = IF ending = "upstream_stream_error" THEN "failing" ELSE "done"
      /\ log' = Append(log, [outcome |-> ending, bytes |-> bytes])
  BY DEF RelayLogs
<1>2. log' = <<[outcome |-> ending, bytes |-> bytes]>>
  BY <1>1 DEF Inv, LogInv
<1>3. TypeOK'
  <2>1. [outcome |-> ending, bytes |-> bytes] \in [outcome : Endings, bytes : 0..MaxChunks]
    BY DEF Inv, TypeOK
  <2>2. log' \in Seq([outcome : Endings, bytes : 0..MaxChunks])
    BY <1>2, <2>1
  <2> QED
    BY <1>1, <2>2 DEF Inv, TypeOK
<1>4. PumpInv' /\ FirstInv' /\ RelayInv'
  BY <1>1 DEF Inv, PumpInv, FirstInv, RelayInv
<1>5. SecondInv'
  <2>1. ~Hung /\ relay' = "done" => ~source.fails
    BY <1>1 DEF Inv, RelayInv
  <2> QED
    BY <1>1, <2>1 DEF Inv, SecondInv
<1>6. WireInv' /\ LogInv'
  BY <1>1, <1>2 DEF Inv, WireInv, LogInv, Wanted
<1> QED
  BY <1>3, <1>4, <1>5, <1>6 DEF Inv

(* The relay sends the failure on behind the last chunk. *)
LEMMA RelayFailsInv == Inv /\ RelayFails => Inv'
<1> SUFFICES ASSUME Inv, RelayFails PROVE Inv'
  OBVIOUS
<1> USE DEF inputs, pumpVars, wireVars, Relaying, Hung
<1>1. /\ UNCHANGED <<inputs, pumpVars, first, relayItem, bytes, ending, log, wireVars>>
      /\ relay = "failing" /\ relay' = "done"
  BY DEF RelayFails
<1>2. PumpInv' /\ FirstInv' /\ RelayInv' /\ WireInv' /\ LogInv'
  BY <1>1 DEF Inv, PumpInv, FirstInv, RelayInv, WireInv, LogInv, Wanted
<1>3. CASE Hung
  <2>1. second' = second
    BY <1>3 DEF RelayFails
  <2>2. TypeOK' /\ SecondInv'
    BY <1>1, <1>3, <2>1 DEF Inv, TypeOK, SecondInv
  <2> QED
    BY <1>2, <2>2 DEF Inv
<1>4. CASE ~Hung
  <2>1. second' = Append(second, Failure) /\ Len(second) < StreamCapacity
    BY <1>4 DEF RelayFails
  <2>2. second \in Seq(Items) /\ Failure \in Items /\ Len(second) \in Nat
    BY CapacityAssumption DEF Inv, TypeOK, Items, Failure, CapacityAssumption
  <2>3. /\ second' \in Seq(Items) /\ Len(second') = Len(second) + 1
        /\ \A n \in 1..Len(second) : second'[n] = second[n]
        /\ second'[Len(second) + 1] = Failure
        /\ EndsInFailure(second') /\ Chunks(second') = Len(second)
    BY <2>1, <2>2, SendFacts
  <2>4. \A n \in 1..Len(second) : second[n] # Failure /\ second[n] = Len(received) + n
    BY <1>1 DEF Inv, SecondInv
  <2>5. Chunks(second) = Len(second)
    <3>1. ~EndsInFailure(second)
      BY <2>2, <2>4 DEF EndsInFailure
    <3> QED
      BY <3>1 DEF Chunks
  <2>6. source.fails
    BY <1>1 DEF Inv, LogInv, RelayInv
  <2>7. TypeOK'
    <3>1. Len(second') <= StreamCapacity
      BY <2>1, <2>2, <2>3, CapacityAssumption DEF CapacityAssumption
    <3> QED
      BY <1>1, <2>3, <3>1 DEF Inv, TypeOK
  <2>8. SecondInv'
    <3>1. bytes' = Len(received') + Chunks(second')
      BY <1>1, <1>4, <2>3, <2>5 DEF Inv, SecondInv
    <3>2. \A n \in 1..Len(second') :
            IF second'[n] = Failure
            THEN n = Len(second') /\ relay' = "done" /\ source'.fails
            ELSE second'[n] = Len(received') + n
      <4> TAKE n \in 1..Len(second')
      <4>1. n \in 1..Len(second) \/ n = Len(second) + 1
        BY <2>2, <2>3
      <4>2. received' = received /\ source' = source
        BY <1>1
      <4> QED
        BY <1>1, <2>3, <2>4, <2>6, <4>1, <4>2
    <3> QED
      BY <1>1, <1>4, <2>3, <3>1, <3>2 DEF SecondInv
  <2> QED
    BY <1>2, <2>7, <2>8 DEF Inv
<1> QED
  BY <1>3, <1>4

(* Whoever drops the body loses what the second channel holds. *)
LEMMA BodyDropped ==
  ASSUME Inv, client = "reading", client' \in {"complete", "truncated", "gone"},
         client' = "truncated" => relay = "done", second' = <<>>,
         UNCHANGED <<inputs, pumpVars, first, relayVars, received>>
  PROVE  Inv'
<1> USE DEF inputs, pumpVars, relayVars, Relaying, Hung
<1>1. TypeOK'
  <2>1. second' \in Seq(Items) /\ Len(second') <= StreamCapacity
    BY EmptyFacts, CapacityAssumption DEF CapacityAssumption
  <2> QED
    BY <2>1 DEF Inv, TypeOK
<1>2. PumpInv' /\ FirstInv' /\ RelayInv'
  BY DEF Inv, PumpInv, FirstInv, RelayInv, RelayHand, PumpHand
<1>3. SecondInv' /\ WireInv' /\ LogInv'
  BY DEF Inv, SecondInv, WireInv, LogInv, Wanted
<1> QED
  BY <1>1, <1>2, <1>3 DEF Inv

(* hyper writes a chunk to the client, or meets the failure. *)
LEMMA HyperWritesInv == Inv /\ HyperWrites => Inv'
<1> SUFFICES ASSUME Inv, HyperWrites PROVE Inv'
  OBVIOUS
<1>1. /\ UNCHANGED <<inputs, pumpVars, first, relayVars>>
      /\ client = "reading" /\ second # <<>> /\ Len(received) # Wanted
  BY DEF HyperWrites
<1>2. second \in Seq(Items) /\ received \in Seq(Items) /\ Len(received) \in Nat /\ bytes \in Nat
  BY DEF Inv, TypeOK
<1>3. /\ Tail(second) \in Seq(Items) /\ Len(Tail(second)) = Len(second) - 1
      /\ Len(second) \in Nat \ {0}
      /\ \A n \in 1..Len(Tail(second)) : Tail(second)[n] = second[n + 1]
      /\ Head(second) = second[1] /\ Head(second) \in Items
      /\ Len(second) > 1 => (EndsInFailure(Tail(second)) <=> EndsInFailure(second))
      /\ Len(second) = 1 => ~EndsInFailure(Tail(second))
  BY <1>1, <1>2, ReceiveFacts
<1>4. CASE Head(second) = Failure
  <2>1. client' = "truncated" /\ second' = <<>> /\ received' = received
    BY <1>4 DEF HyperWrites
  <2>2. second[1] = Failure /\ 1 \in 1..Len(second)
    BY <1>3, <1>4
  <2>3. relay = "done"
    BY <2>2 DEF Inv, SecondInv
  <2> QED
    BY <1>1, <2>1, <2>3, BodyDropped
<1>5. CASE Head(second) # Failure
  <2>1. received' = Append(received, Head(second)) /\ second' = Tail(second) /\ client' = client
    BY <1>5 DEF HyperWrites
  <2>2. received' \in Seq(Items) /\ Len(received') = Len(received) + 1
    BY <1>2, <1>3, <2>1, SendFacts
  <2>3. /\ second' \in Seq(Items) /\ Len(second') = Len(second) - 1
        /\ \A n \in 1..Len(second') : second'[n] = second[n + 1]
        /\ Len(second) > 1 => (EndsInFailure(second') <=> EndsInFailure(second))
        /\ Len(second) = 1 => ~EndsInFailure(second')
    BY <1>3, <2>1
  <2>4. second[1] # Failure
    BY <1>3, <1>5
  <2>5. Len(second) = 1 => ~EndsInFailure(second)
    BY <2>4 DEF EndsInFailure
  <2>6. EndsInFailure(second') <=> EndsInFailure(second)
    <3>1. Len(second) > 1 \/ Len(second) = 1
      BY <1>3
    <3> QED
      BY <2>3, <2>5, <3>1
  <2>7. Chunks(second) = Chunks(second') + 1 /\ Chunks(second') \in Nat
    BY <1>3, <2>3, <2>6, ChunksType DEF Chunks
  <2>8. bytes = Len(received) + Chunks(second)
    BY <1>1 DEF Inv, SecondInv, Hung
  <2>9. bytes' = bytes /\ source' = source /\ relay' = relay /\ Wanted' = Wanted
    BY <1>1 DEF inputs, relayVars, Wanted
  <2>10. TypeOK'
    <3>1. Len(second') <= StreamCapacity
      BY <1>3, <2>3, CapacityAssumption DEF Inv, TypeOK, CapacityAssumption
    <3> QED
      BY <1>1, <2>1, <2>2, <2>3, <3>1 DEF Inv, TypeOK, inputs, pumpVars, relayVars
  <2>11. PumpInv' /\ FirstInv' /\ RelayInv'
    BY <1>1, <2>1
    DEF Inv, PumpInv, FirstInv, RelayInv, RelayHand, PumpHand, Relaying, Hung,
        inputs, pumpVars, relayVars
  <2>12. SecondInv'
    <3>1. bytes' = Len(received') + Chunks(second')
      BY <1>2, <2>2, <2>7, <2>8, <2>9
    <3>2. \A n \in 1..Len(second') :
            IF second'[n] = Failure
            THEN n = Len(second') /\ relay' = "done" /\ source'.fails
            ELSE second'[n] = Len(received') + n
      <4> TAKE n \in 1..Len(second')
      <4>1. n + 1 \in 1..Len(second) /\ second'[n] = second[n + 1] /\ n \in Nat
        BY <1>3, <2>3
      <4>2. IF second[n + 1] = Failure
            THEN n + 1 = Len(second) /\ relay = "done" /\ source.fails
            ELSE second[n + 1] = Len(received) + (n + 1)
        BY <4>1 DEF Inv, SecondInv
      <4>3. CASE second[n + 1] = Failure
        <5>1. n + 1 = Len(second) /\ relay = "done" /\ source.fails
          BY <4>2, <4>3
        <5>2. n = Len(second')
          <6>1. Len(second') = Len(second) - 1 /\ n \in Nat
            BY <2>3, <4>1
          <6> QED
            BY <5>1, <6>1
        <5>3. relay' = "done" /\ source'.fails
          BY <2>9, <5>1
        <5> QED
          BY <4>1, <4>3, <5>2, <5>3
      <4>4. CASE second[n + 1] # Failure
        <5>1. second[n + 1] = Len(received) + (n + 1)
          BY <4>2, <4>4
        <5>2. Len(received') + n = Len(received) + (n + 1)
          BY <1>2, <2>2, <4>1
        <5> QED
          BY <4>1, <4>4, <5>1, <5>2
      <4> QED
        BY <4>3, <4>4
    <3>3. relay' = "done" /\ source'.fails => EndsInFailure(second')
      BY <1>1, <2>6, <2>9 DEF Inv, SecondInv, Hung
    <3> QED
      BY <1>1, <2>1, <3>1, <3>2, <3>3 DEF SecondInv, Hung
  <2>13. WireInv'
    <3>1. Len(received') <= bytes'
      BY <1>2, <2>2, <2>7, <2>8, <2>9
    <3>2. Wanted' >= 0 => Len(received') <= Wanted'
      <4>1. Wanted \in Int
        BY DEF Inv, TypeOK, Wanted
      <4> QED
        BY <1>1, <1>2, <2>2, <2>9, <4>1 DEF Inv, WireInv
    <3> QED
      BY <1>1, <2>1, <3>1, <3>2 DEF WireInv
  <2>14. LogInv'
    BY <1>1, <2>1 DEF Inv, LogInv, Relaying, Hung, inputs, relayVars
  <2> QED
    BY <2>10, <2>11, <2>12, <2>13, <2>14 DEF Inv
<1> QED
  BY <1>4, <1>5

(* Every step keeps the invariant. *)
LEMMA NextInv == Inv /\ [Next]_vars => Inv'
<1> SUFFICES ASSUME Inv, [Next]_vars PROVE Inv'
  OBVIOUS
<1>1. CASE Pump
  BY <1>1, PumpReadsInv, PumpSendsInv DEF Pump
<1>2. CASE Relay
  BY <1>2, RelayReceivesInv, RelayEndsInv, RelaySeesCloseInv, RelaySendsInv,
     RelayLogsInv, RelayFailsInv DEF Relay
<1>3. CASE Hyper
  <2>1. HyperFinishes => Inv'
    BY BodyDropped DEF HyperFinishes
  <2>2. HyperSeesEnd => Inv'
    <3> SUFFICES ASSUME HyperSeesEnd PROVE Inv'
      OBVIOUS
    <3>1. /\ client = "reading" /\ client' \in {"complete", "truncated"} /\ relay = "done"
          /\ second' = <<>> /\ UNCHANGED <<inputs, pumpVars, first, relayVars, received>>
      BY DEF HyperSeesEnd, RelayDone
    <3> QED
      BY <3>1, BodyDropped
  <2> QED
    BY <1>3, <2>1, <2>2, HyperWritesInv DEF Hyper
<1>4. CASE ClientLeaves
  BY <1>4, BodyDropped DEF ClientLeaves
<1>5. CASE UNCHANGED vars
  BY <1>5 DEF vars, inputs, pumpVars, relayVars, wireVars, Inv, TypeOK, PumpInv, FirstInv,
     RelayInv, SecondInv, WireInv, LogInv, Relaying, RelayHand, PumpHand, Hung, Wanted
<1> QED
  BY <1>1, <1>2, <1>3, <1>4, <1>5 DEF Next, Stopped

(* The account holds in every behaviour of the relay. *)
LEMMA RelayInvariant == Spec => []Inv
BY InitInv, NextInv, PTL DEF Spec

----------------------------------------------------------------------------
(* Channels keep to their capacities, counters to the size of the source.  *)
THEOREM RelayTyped == Spec => []TypeOK
<1>1. Inv => TypeOK
  BY DEF Inv
<1> QED
  BY <1>1, RelayInvariant, PTL

(* A slow client cannot make the host buffer more than the two channels    *)
(* and the two hands, however long the body.                               *)
THEOREM RelayBuffersBounded == Spec => []BoundedBuffering
<1>1. Inv => BoundedBuffering
  <2> SUFFICES ASSUME Inv, ~Hung
               PROVE  read - Len(received) <= PipeCapacity + StreamCapacity + 2
    BY DEF BoundedBuffering
  <2>1. /\ Len(received) \in Nat /\ read \in Nat /\ bytes \in Nat
        /\ PipeCapacity \in Nat /\ StreamCapacity \in Nat
    BY CapacityAssumption DEF Inv, TypeOK, CapacityAssumption
  <2>2. /\ Chunks(first) \in Nat /\ Chunks(first) <= PipeCapacity
        /\ Chunks(second) \in Nat /\ Chunks(second) <= StreamCapacity
    <3>1. /\ first \in Seq(Items) /\ Len(first) <= PipeCapacity
          /\ second \in Seq(Items) /\ Len(second) <= StreamCapacity
      BY DEF Inv, TypeOK
    <3> QED
      BY <2>1, <3>1, ChunksType
  <2>3. bytes = Len(received) + Chunks(second)
    BY DEF Inv, SecondInv
  <2> DEFINE wire == Len(received)
             c1 == Chunks(first)
             c2 == Chunks(second)
  <2>4. Relaying => read = bytes + RelayHand + c1 + PumpHand
    BY DEF Inv, FirstInv
  <2>5. ~Relaying => read <= bytes
    BY DEF Inv, TypeOK, RelayInv
  <2>6. RelayHand \in 0..1 /\ PumpHand \in 0..1
    BY DEF RelayHand, PumpHand
  <2>7. /\ wire \in Nat /\ c1 \in Nat /\ c2 \in Nat /\ bytes = wire + c2
        /\ c1 <= PipeCapacity /\ c2 <= StreamCapacity
    BY <2>1, <2>2, <2>3
  <2> HIDE DEF wire, c1, c2
  <2>8. read - wire <= PipeCapacity + StreamCapacity + 2
    BY <2>1, <2>4, <2>5, <2>6, <2>7
  <2> QED
    BY <2>8 DEF wire
<1> QED
  BY <1>1, RelayInvariant, PTL

(* The one log line of a stream tells what happened to it. *)
THEOREM RelayLogTruthful == Spec => []LogIsTruthful
<1>1. Inv => LogIsTruthful
  <2> SUFFICES ASSUME Inv PROVE LogIsTruthful
    OBVIOUS
  <2> DEFINE line == [outcome |-> ending, bytes |-> bytes]
  <2>1. bytes \in Len(received)..read
    BY DEF Inv, TypeOK, RelayInv, WireInv
  <2>2. CASE relay \in {"failing", "done"}
    <3>1. log = <<line>>
      BY <2>2 DEF Inv, LogInv
    <3>2. Len(log) = 1 /\ DOMAIN log = {1} /\ log[1] = line
      BY <3>1
    <3> QED
      BY <2>1, <2>2, <3>2 DEF LogIsTruthful, Inv, LogInv, Relaying
  <2>3. CASE relay \notin {"failing", "done"}
    <3>1. log = <<>>
      BY <2>3 DEF Inv, LogInv
    <3>2. Len(log) = 0 /\ DOMAIN log = {}
      BY <3>1
    <3> QED
      BY <3>2 DEF LogIsTruthful
  <2> QED
    BY <2>2, <2>3
<1> QED
  BY <1>1, RelayInvariant, PTL

(* A truncated client finds its request in the log. *)
THEOREM RelayLogsFirst == Spec => []LoggedBeforeFailure
<1>1. Inv => LoggedBeforeFailure
  <2> SUFFICES ASSUME Inv, client = "truncated" PROVE Len(log) = 1
    BY DEF LoggedBeforeFailure
  <2>1. log = <<[outcome |-> ending, bytes |-> bytes]>>
    BY DEF Inv, WireInv, LogInv
  <2> QED
    BY <2>1
<1> QED
  BY <1>1, RelayInvariant, PTL

----------------------------------------------------------------------------
(* Every step of the relay is a step of the delivery or does not show. *)
LEMMA StepDelivers == Inv /\ [Next]_vars => [Promise!Next]_(Promise!vars)
<1> SUFFICES ASSUME Inv, [Next]_vars PROVE [Promise!Next]_(Promise!vars)
  OBVIOUS
<1> USE DEF inputs, pumpVars, relayVars, wireVars, Promise!vars
<1>1. CASE Pump
  BY <1>1 DEF Pump, PumpReads, PumpSends, Wanted
<1>2. CASE Relay
  BY <1>2 DEF Relay, RelayReceives, RelayEnds, RelaySeesClose, RelaySends, RelayLogs,
     RelayFails, Wanted
<1>3. CASE ClientLeaves
  BY <1>3 DEF ClientLeaves, Wanted, Promise!Next, Promise!BreakOff
<1>4. CASE HyperFinishes
  BY <1>4 DEF HyperFinishes, Wanted, Promise!Next, Promise!Complete
<1>5. CASE HyperWrites
  <2>1. CASE Head(second) = Failure
    BY <1>5, <2>1 DEF HyperWrites, Wanted, Promise!Next, Promise!BreakOff
  <2>2. CASE Head(second) # Failure
    <3>1. second \in Seq(Items) /\ Len(received) \in Nat /\ bytes \in Nat
      BY DEF Inv, TypeOK
    <3>2. Head(second) = second[1] /\ 1 \in 1..Len(second) /\ Len(second) \in Nat
      BY <1>5, <3>1, ReceiveFacts DEF HyperWrites
    <3>3. Head(second) = Len(received) + 1
      BY <2>2, <3>2 DEF Inv, SecondInv
    <3>4. Chunks(second) \in Nat /\ Chunks(second) >= 1
      <4>1. Len(second) = 1 => ~EndsInFailure(second)
        BY <2>2, <3>2 DEF EndsInFailure
      <4>2. Chunks(second) \in Nat /\ Len(second) <= Chunks(second) + 1
        BY <3>1, ChunksType
      <4>3. Len(second) = 1 => Chunks(second) = 1
        BY <4>1 DEF Chunks
      <4>4. Len(second) \in Nat /\ Len(second) >= 1
        BY <3>2
      <4> DEFINE l == Len(second)
                 c == Chunks(second)
      <4>5. /\ c \in Nat /\ l <= c + 1 /\ l \in Nat /\ l >= 1
            /\ l = 1 => c = 1
        BY <4>2, <4>3, <4>4
      <4> HIDE DEF l, c
      <4>6. c \in Nat /\ c >= 1
        BY <4>5
      <4> QED
        BY <4>6 DEF c
    <3>5. Len(received) < source.size
      <4>1. bytes = Len(received) + Chunks(second) /\ bytes <= source.size
        BY <1>5 DEF Inv, TypeOK, SecondInv, RelayInv, HyperWrites, Hung
      <4> QED
        BY <3>1, <3>4, <4>1, ChunksType DEF Inv, TypeOK
    <3>6. received' = Append(received, Len(received) + 1)
      BY <1>5, <2>2, <3>3 DEF HyperWrites
    <3> QED
      BY <1>5, <2>2, <3>5, <3>6 DEF HyperWrites, Wanted, Promise!Next, Promise!NextChunk
  <2> QED
    BY <2>1, <2>2
<1>6. CASE HyperSeesEnd
  <2>1. /\ client = "reading" /\ relay = "done" /\ second = <<>> /\ Len(received) # Wanted
        /\ UNCHANGED <<inputs, received>>
        /\ client' = IF announced = -1 THEN "complete" ELSE "truncated"
    BY <1>6 DEF HyperSeesEnd, RelayDone
  <2>2. CASE announced # -1
    BY <2>1, <2>2 DEF Wanted, Promise!Next, Promise!BreakOff
  <2>3. CASE announced = -1
    <3>1. Wanted = -1
      BY <2>1, <2>3 DEF Inv, TypeOK, WireInv, Wanted
    <3>2. ~EndsInFailure(second) /\ Chunks(second) = 0
      BY <2>1, EmptyFacts
    <3>3. Len(received) = source.size /\ ~source.fails
      BY <2>1, <3>2 DEF Inv, TypeOK, SecondInv, RelayInv, Relaying, Hung
    <3> QED
      BY <2>1, <2>3, <3>1, <3>3 DEF Wanted, Promise!Next, Promise!Complete
  <2> QED
    BY <2>2, <2>3
<1>7. CASE UNCHANGED vars
  BY <1>7 DEF vars, Wanted
<1> QED
  BY <1>1, <1>2, <1>3, <1>4, <1>5, <1>6, <1>7 DEF Next, Hyper, Stopped

(***************************************************************************)
(* The relay delivers: chunks in order, none lost or repeated, and no body *)
(* that ends normally is incomplete.                                       *)
(***************************************************************************)
THEOREM RelayImplementsDelivery == Spec => ImplementsDelivery
<1>1. Init => Promise!Init
  BY CapacityAssumption DEF Init, Promise!Init, Wanted, CapacityAssumption
<1> QED
  BY <1>1, RelayInvariant, StepDelivers, PTL
  DEF Spec, ImplementsDelivery, Promise!Spec

----------------------------------------------------------------------------
(***************************************************************************)
(* What StreamIsLogged rests on, apart from fairness.  Each of the three   *)
(* is ready when its next step need not wait for anybody.                  *)
(***************************************************************************)
PumpReady ==
  \/ pump = "reading"
  \/ pump = "sending" /\ (RelayDone \/ Len(first) < PipeCapacity)

RelayReady ==
  \/ relay = "selecting" /\ (first # <<>> \/ PumpDone \/ Hung)
  \/ relay \in {"sending", "failing"} /\ (Hung \/ Len(second) < StreamCapacity)
  \/ relay = "logging"

HyperReady ==
  client = "reading" /\ (Len(received) = Wanted \/ second # <<>> \/ RelayDone)

NobodyWaitsInVain ==
  (PumpDone /\ RelayDone /\ Hung) \/ PumpReady \/ RelayReady \/ HyperReady

(* The steps that can still be taken, at most: a chunk that is read has    *)
(* four places to leave, a failure that was sent on three.                 *)
PumpWork ==
  IF pump = "reading" THEN 5 * (source.size - read) + 5
  ELSE IF pump = "done" THEN 0
  ELSE IF pumpItem = Failure THEN 4 ELSE 5 * (source.size - read) + 9

RelayWork ==
  CASE relay = "sending"   -> 6
    [] relay = "selecting" -> 4
    [] relay = "logging"   -> 3
    [] relay = "failing"   -> 2
    [] relay = "done"      -> 0

WireWork == IF Hung THEN 0 ELSE 1

WorkLeft == PumpWork + 3 * Len(first) + RelayWork + Len(second) + WireWork

(***************************************************************************)
(* No deadlock: in whatever way channels are full and ends are dropped,    *)
(* pump, relay or hyper can take a step without the others until all three *)
(* are through.                                                            *)
(***************************************************************************)
THEOREM RelayNeverStalls == Spec => []NobodyWaitsInVain
<1>1. TypeOK => NobodyWaitsInVain
  <2> SUFFICES ASSUME TypeOK, ~PumpReady, ~RelayReady, ~HyperReady
               PROVE  PumpDone /\ RelayDone /\ Hung
    BY DEF NobodyWaitsInVain
  <2>1. /\ Len(first) \in Nat /\ Len(second) \in Nat
        /\ first = <<>> <=> Len(first) = 0
        /\ second = <<>> <=> Len(second) = 0
    BY EmptySeq, LenProperties DEF TypeOK
  <2>2. 0 < PipeCapacity /\ 0 < StreamCapacity
    BY CapacityAssumption DEF CapacityAssumption
  <2>3. CASE Hung
    <3>1. relay \in {"selecting", "done"} /\ (relay = "selecting" => first = <<>> /\ ~PumpDone)
      BY <2>3 DEF TypeOK, RelayReady
    <3>2. pump = "done" \/ (pump = "sending" /\ ~RelayDone /\ Len(first) >= PipeCapacity)
      BY <2>1, CapacityAssumption DEF TypeOK, PumpReady, CapacityAssumption
    <3>3. relay = "done"
      <4>1. CASE pump = "done"
        BY <3>1, <4>1 DEF PumpDone
      <4>2. CASE Len(first) >= PipeCapacity
        BY <2>1, <2>2, <3>1, <4>2, CapacityAssumption DEF CapacityAssumption
      <4> QED
        BY <3>2, <4>1, <4>2
    <3> QED
      BY <2>3, <3>2, <3>3 DEF PumpDone, RelayDone
  <2>4. CASE ~Hung
    <3>1. second = <<>> /\ ~RelayDone
      BY <2>4 DEF HyperReady, Hung
    <3>2. relay = "selecting" /\ first = <<>> /\ ~PumpDone
      BY <2>1, <2>2, <3>1 DEF TypeOK, RelayReady, RelayDone
    <3> QED
      BY <2>1, <2>2, <3>2 DEF TypeOK, PumpReady, PumpDone
  <2> QED
    BY <2>3, <2>4
<1> QED
  BY <1>1, RelayTyped, PTL

(***************************************************************************)
(* No livelock: every step, of whomever, uses up some of the work, so a    *)
(* body of n chunks is over after 5 * n + 10 steps at most, and nobody     *)
(* can turn in circles.                                                    *)
(***************************************************************************)
LEMMA WorkTyped ==
  TypeOK => /\ PumpWork \in Nat /\ RelayWork \in Nat /\ WireWork \in Nat
            /\ Len(first) \in Nat /\ Len(second) \in Nat /\ WorkLeft \in Nat
<1> SUFFICES ASSUME TypeOK
             PROVE  /\ PumpWork \in Nat /\ RelayWork \in Nat /\ WireWork \in Nat
                    /\ Len(first) \in Nat /\ Len(second) \in Nat /\ WorkLeft \in Nat
  OBVIOUS
<1>1. source.size - read \in Nat
  BY CapacityAssumption DEF TypeOK, CapacityAssumption
<1>2. PumpWork \in Nat
  BY <1>1 DEF PumpWork
<1>3. RelayWork \in Nat
  BY DEF TypeOK, RelayWork
<1>4. WireWork \in Nat /\ Len(first) \in Nat /\ Len(second) \in Nat
  BY LenProperties DEF TypeOK, WireWork
<1> QED
  BY <1>2, <1>3, <1>4 DEF WorkLeft

LEMMA StepUsesWork == Inv /\ Next => WorkLeft' < WorkLeft \/ UNCHANGED vars
<1> SUFFICES ASSUME Inv, Next, ~UNCHANGED vars
             PROVE  WorkLeft' < WorkLeft
  OBVIOUS
<1>0. TypeOK /\ TypeOK'
  BY NextInv DEF Inv
<1>1. /\ PumpWork \in Nat /\ RelayWork \in Nat /\ WireWork \in Nat
      /\ Len(first) \in Nat /\ Len(second) \in Nat
      /\ PumpWork' \in Nat /\ RelayWork' \in Nat /\ WireWork' \in Nat
      /\ Len(first') \in Nat /\ Len(second') \in Nat
  <2>1. (TypeOK => /\ PumpWork \in Nat /\ RelayWork \in Nat /\ WireWork \in Nat
                   /\ Len(first) \in Nat /\ Len(second) \in Nat /\ WorkLeft \in Nat)'
    BY WorkTyped, PTL
  <2> QED
    BY <1>0, <2>1, WorkTyped
<1>2. /\ WorkLeft = PumpWork + 3 * Len(first) + RelayWork + Len(second) + WireWork
      /\ WorkLeft' = PumpWork' + 3 * Len(first') + RelayWork' + Len(second') + WireWork'
  BY DEF WorkLeft
<1>3. source.size - read \in Nat /\ source.size \in Nat /\ read \in Nat
  <2>1. source.size \in 0..MaxChunks /\ read \in 0..source.size /\ MaxChunks \in Nat
    BY <1>0, CapacityAssumption DEF TypeOK, CapacityAssumption
  <2> QED
    BY <2>1
<1>4. CASE PumpReads
  <2>1. PumpWork = 5 * (source.size - read) + 5 /\ source' = source
    BY <1>4 DEF PumpReads, PumpWork, inputs
  <2>2. PumpWork' < PumpWork
    <3>1. CASE pump' = "done"
      BY <1>3, <2>1, <3>1 DEF PumpWork
    <3>2. CASE pump' = "sending" /\ pumpItem' = Failure
      BY <1>3, <2>1, <3>2 DEF PumpWork
    <3>3. CASE pump' = "sending" /\ pumpItem' # Failure
      <4>1. read' = read + 1
        BY <1>4, <3>3 DEF PumpReads
      <4>2. PumpWork' = 5 * (source.size - (read + 1)) + 9
        BY <2>1, <3>3, <4>1 DEF PumpWork
      <4> QED
        BY <1>3, <2>1, <4>2
    <3> QED
      BY <1>4, <3>1, <3>2, <3>3 DEF PumpReads
  <2>3. first' = first /\ RelayWork' = RelayWork /\ second' = second /\ WireWork' = WireWork
    BY <1>4 DEF PumpReads, relayVars, wireVars, RelayWork, WireWork, Hung
  <2> QED
    BY <1>1, <1>2, <2>2, <2>3
<1>5. CASE PumpSends
  <2>1. RelayWork' = RelayWork /\ second' = second /\ WireWork' = WireWork
    BY <1>5 DEF PumpSends, relayVars, wireVars, RelayWork, WireWork, Hung
  <2>2. CASE RelayDone
    <3>1. PumpWork' = 0 /\ PumpWork > 0 /\ UNCHANGED first
      BY <1>3, <1>5, <2>2 DEF PumpSends, PumpWork
    <3> QED
      BY <1>1, <1>2, <2>1, <3>1
  <2>3. CASE ~RelayDone
    <3>1. PumpWork' + 4 = PumpWork
      BY <1>3, <1>5, <2>3 DEF PumpSends, PumpWork, inputs
    <3>2. Len(first') = Len(first) + 1
      BY <1>0, <1>5, <2>3, AppendProperties DEF PumpSends, TypeOK
    <3> DEFINE l == Len(first)
               m == Len(first')
               p == PumpWork
               q == PumpWork'
    <3>3. l \in Nat /\ m \in Nat /\ p \in Nat /\ q \in Nat /\ q + 4 = p /\ m = l + 1
      BY <1>1, <3>1, <3>2
    <3>4. q + 3 * m < p + 3 * l
      <4> HIDE DEF l, m, p, q
      <4> QED
        BY <3>3
    <3>5. PumpWork' + 3 * Len(first') < PumpWork + 3 * Len(first)
      BY <3>4
    <3> DEFINE a == PumpWork + 3 * Len(first)
               b == PumpWork' + 3 * Len(first')
    <3>6. /\ WorkLeft = a + RelayWork + Len(second) + WireWork
          /\ WorkLeft' = b + RelayWork + Len(second) + WireWork
      BY <1>2, <2>1
    <3>7. a \in Nat /\ b \in Nat /\ b < a
      BY <1>1, <3>5
    <3> HIDE DEF a, b
    <3> QED
      BY <1>1, <3>6, <3>7
  <2> QED
    BY <2>2, <2>3
<1>6. CASE RelayReceives
  <2>1. PumpWork' = PumpWork /\ second' = second /\ WireWork' = WireWork
    BY <1>6 DEF RelayReceives, pumpVars, inputs, wireVars, PumpWork, WireWork, Hung
  <2>2. Len(first') = Len(first) - 1 /\ Len(first) > 0
    BY <1>0, <1>6, ReceiveFacts DEF RelayReceives, TypeOK
  <2>3. RelayWork = 4 /\ RelayWork' <= 6
    BY <1>6 DEF RelayReceives, RelayWork
  <2> QED
    BY <1>1, <1>2, <2>1, <2>2, <2>3
<1>7. CASE RelayEnds \/ RelaySeesClose
  <2>1. PumpWork' = PumpWork /\ first' = first /\ second' = second /\ WireWork' = WireWork
    BY <1>7 DEF RelayEnds, RelaySeesClose, pumpVars, inputs, wireVars, PumpWork, WireWork, Hung
  <2>2. RelayWork = 4 /\ RelayWork' = 3
    BY <1>7 DEF RelayEnds, RelaySeesClose, RelayWork
  <2> QED
    BY <1>1, <1>2, <2>1, <2>2
<1>8. CASE RelaySends
  <2>1. PumpWork' = PumpWork /\ first' = first /\ WireWork' = WireWork
    BY <1>8 DEF RelaySends, pumpVars, inputs, wireVars, PumpWork, WireWork, Hung
  <2>2. \/ RelayWork = 6 /\ RelayWork' = 4 /\ Len(second') = Len(second) + 1
        \/ RelayWork = 6 /\ RelayWork' = 3 /\ UNCHANGED second
    <3>1. Len(Append(second, relayItem)) = Len(second) + 1
      BY <1>0, AppendProperties DEF TypeOK
    <3> QED
      BY <1>8, <3>1 DEF RelaySends, RelayWork
  <2> QED
    BY <1>1, <1>2, <2>1, <2>2
<1>9. CASE RelayLogs
  <2>1. PumpWork' = PumpWork /\ first' = first /\ second' = second /\ WireWork' = WireWork
    BY <1>9 DEF RelayLogs, pumpVars, inputs, wireVars, PumpWork, WireWork, Hung
  <2>2. RelayWork = 3 /\ RelayWork' <= 2
    BY <1>9 DEF RelayLogs, RelayWork
  <2> QED
    BY <1>1, <1>2, <2>1, <2>2
<1>10. CASE RelayFails
  <2>1. PumpWork' = PumpWork /\ first' = first /\ WireWork' = WireWork
    BY <1>10 DEF RelayFails, pumpVars, inputs, wireVars, PumpWork, WireWork, Hung
  <2>2. Len(second') <= Len(second) + 1
    <3>1. Len(Append(second, Failure)) = Len(second) + 1
      BY <1>0, AppendProperties DEF TypeOK, Items, Failure
    <3> QED
      BY <1>1, <1>10, <3>1 DEF RelayFails
  <2>3. RelayWork = 2 /\ RelayWork' = 0
    BY <1>10 DEF RelayFails, RelayWork
  <2> QED
    BY <1>1, <1>2, <2>1, <2>2, <2>3
<1>11. CASE HyperWrites \/ HyperSeesEnd \/ HyperFinishes \/ ClientLeaves
  <2>1. PumpWork' = PumpWork /\ first' = first /\ RelayWork' = RelayWork
    BY <1>11 DEF HyperWrites, HyperSeesEnd, HyperFinishes, ClientLeaves, pumpVars, inputs,
                 relayVars, PumpWork, RelayWork
  <2>2. CASE WireWork' = 0 /\ WireWork = 1 /\ Len(second') <= Len(second)
    BY <1>1, <1>2, <2>1, <2>2
  <2>3. CASE Len(second') = Len(second) - 1 /\ UNCHANGED WireWork
    BY <1>1, <1>2, <2>1, <2>3
  <2>4. Len(<<>>) = 0
    BY EmptySeq
  <2>5. second # <<>> => Len(Tail(second)) = Len(second) - 1
    BY <1>0, ReceiveFacts DEF TypeOK
  <2>6. CASE HyperWrites
    BY <1>1, <2>2, <2>3, <2>4, <2>5, <2>6 DEF HyperWrites, WireWork, Hung
  <2>7. CASE HyperSeesEnd \/ HyperFinishes \/ ClientLeaves
    BY <1>1, <2>2, <2>4, <2>7 DEF HyperSeesEnd, HyperFinishes, ClientLeaves, WireWork, Hung
  <2> QED
    BY <1>11, <2>6, <2>7
<1>12. CASE Stopped
  BY <1>12 DEF Stopped
<1> QED
  BY <1>4, <1>5, <1>6, <1>7, <1>8, <1>9, <1>10, <1>11, <1>12 DEF Next, Pump, Relay, Hyper

THEOREM RelayRunsDown == Spec => [](WorkLeft \in Nat) /\ [][WorkLeft' < WorkLeft]_vars
<1>1. Inv => WorkLeft \in Nat
  BY WorkTyped DEF Inv
<1>2. Inv /\ [Next]_vars => [WorkLeft' < WorkLeft]_vars
  BY StepUsesWork
<1> QED
  BY <1>1, <1>2, RelayInvariant, PTL DEF Spec
=============================================================================
