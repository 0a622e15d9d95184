------------------------ MODULE UploadRequestProofs ------------------------
(***************************************************************************)
(* Proofs about UploadRequest, for limits, files, forms and chains of any  *)
(* size and any table of routes.                                           *)
(*                                                                         *)
(* Routes and ranges are in RequestPartsProofs.  The rest is two invariants.*)
(* Inv: the account of the chunks (RequestPartsProofs); what an upload, and*)
(* so a part that is handed to the relay, can measure; who keeps the       *)
(* directory in which phase; and that no call but the one at work is open  *)
(* for long.  FormInv, on top of it: what was counted, stored and answered *)
(* is what the client sent.  HeirInv: who may keep the directory when the  *)
(* handler is through, so that no request hangs.                           *)
(***************************************************************************)
EXTENDS UploadRequest, RequestPartsProofs, FiniteSetTheorems

(***************************************************************************)
(* Routing: the route, its parameters and the methods of a 405 are right,  *)
(* whatever table of routes the check looks at, and so is the decoding of  *)
(* the parameters.                                                         *)
(***************************************************************************)
THEOREM RoutesHold == Spec => []RoutesAreRight
<1>1. ASSUME NEW table \in SeqOf(ToSet(Routes), 3), NEW method \in Methods, NEW path \in Paths
      PROVE  RouteIsRight(table, method, path)
  <2>1. PICK S : Tables = Seq(S)
    BY DEF Tables
  <2>2. Routes \in Seq(S) /\ path \in Seq(Segments)
    BY <2>1, RoutesAssumption DEF RoutesAssumption
  <2>3. ToSet(Routes) \subseteq S
    <3>1. DOMAIN Routes = 1..Len(Routes) /\ \A i \in 1..Len(Routes) : Routes[i] \in S
      BY <2>2, ElementOfSeq, LenProperties
    <3> QED
      BY <3>1, Zenon DEF ToSet
  <2>4. PICK n \in 0..3 : table \in [1..n -> ToSet(Routes)]
    BY Zenon DEF SeqOf
  <2>5. table \in [1..n -> S]
    BY <2>3, <2>4
  <2>6. table \in Seq(S)
    BY <2>5, SeqDef
  <2> QED
    BY <2>1, <2>2, <2>6, RoutingIsRight
<1>2. ASSUME NEW b \in Byte, NEW rest \in Names
      PROVE  DecodingIsRight(b, rest)
  BY NamesAssumption, DecodingByBytes DEF NamesAssumption
<1>3. RoutesAreRight
  BY <1>1, <1>2, Zenon DEF RoutesAreRight
<1> QED
  BY <1>3, PTL

(***************************************************************************)
(* Ranges: 206 and 416 are right for every size of a file and every width  *)
(* of an index.                                                            *)
(***************************************************************************)
THEOREM RangesHold == Spec => []RangesAreExact
<1>1. RangesAreExact
  BY DecideRangeIsExact, FileRelayAssumption DEF RangesAreExact
<1> QED
  BY <1>1, PTL

(* A part that is handed to the relay lies in the file. *)
LEMMA PartsAreInside ==
  ASSUME NEW n \in 0..MaxFile, NEW part \in Parts(n)
  PROVE  /\ part.start \in 0..n /\ part.len \in 0..n /\ part.start + part.len <= n
         /\ part.start > 0 => part.len > 0
<1>0. n \in Nat
  BY FileRelayAssumption
<1>1. PICK header \in RangeHeaders :
        /\ Decision(n, header) # Unsatisfiable
        /\ part = IF Decision(n, header) = Full THEN Partial(0, n) ELSE Decision(n, header)
  BY DEF Parts, Decisions
<1>2. CASE Decision(n, header) = Full
  BY <1>0, <1>1, <1>2 DEF Partial
<1>3. CASE Decision(n, header) # Full
  <2> DEFINE value == header.value
  <2>1. value \in RangeValues
    BY DEF RangeHeaders
  <2>2. part = DecideRange(n, value) /\ part # Unsatisfiable
    BY <1>1, <1>3 DEF Decision
  <2> HIDE DEF value
  <2>3. CASE n # 0 /\ part = SuffixRange(n, value.last)
    <3>1. /\ value.last \in Nat /\ value.last > 0
          /\ part = Partial(n - Smaller(value.last, n), Smaller(value.last, n))
      BY <2>2, <2>3, TopIndexAssumption DEF SuffixRange, IsIndex
    <3>2. Smaller(value.last, n) \in 1..n
      BY <1>0, <2>3, <3>1 DEF Smaller
    <3> QED
      BY <1>0, <3>1, <3>2 DEF Partial
  <2>4. CASE n # 0 /\ part = BoundedRange(n, value.first, value.last)
    <3> DEFINE end == IF value.last = Blank THEN n - 1 ELSE Smaller(value.last, n - 1)
    <3>1. /\ value.first \in Nat /\ value.first < n
          /\ value.last = Blank \/ (value.last \in Nat /\ value.first <= value.last)
          /\ part = Partial(value.first, end - value.first + 1)
      BY <1>0, <2>1, <2>2, <2>4, TopIndexAssumption
      DEF BoundedRange, IsIndex, RangeValues, Tokens, Blank, Junk
    <3>2. end \in value.first..n - 1
      BY <1>0, <3>1 DEF Smaller
    <3> HIDE DEF end
    <3> QED
      BY <1>0, <3>1, <3>2 DEF Partial
  <2> QED
    BY <2>2, <2>3, <2>4 DEF DecideRange
<1> QED
  BY <1>2, <1>3

----------------------------------------------------------------------------
Entry == [origin : Nat, stream : BOOLEAN, size : Nat, bytes : Nat \cup {Unknown},
          state : {"open", "done", "failed", "abandoned"}]

(* What an upload and a file that a call has opened can measure. *)
DataInv ==
  /\ stored \in Seq(0..MaxFile)
  /\ phase \in {"routing", "preparing"} => size <= total /\ total <= MaxBytes
  /\ \A i \in 1..Len(calls) : calls[i].size <= MaxFile /\ calls[i].origin <= Len(stored)

(* Where the parser is when it is through, and who keeps the directory. *)
Without == dir = "none" /\ holders = {} /\ stored = <<>>

DirInv ==
  /\ phase = "routing" => step = "none" /\ Without
  /\ phase = "preparing" =>
       IF step = "none" THEN Without
       ELSE step \in {"parts", "creating", "data"} /\ dir = "live" /\ holders = {"parse"}
  /\ phase = "running" =>
       IF step = "stored" THEN dir = "live" /\ holders = {"run"}
       ELSE step \in {"none", "buffered"} /\ Without
  /\ phase = "streaming" =>
       /\ inCall = 0 /\ ~RelayIdle
       /\ IF body.guard /\ ~RelayDone THEN dir = "live" /\ holders = {"relay"}
          ELSE dir # "live" /\ holders = {}
  /\ phase \in {"answering", "answered"} => dir # "live"
  /\ phase = "answered" => Settled
  /\ phase = "gone" /\ dir = "live" => holders = {"host"}
  /\ phase # "streaming" => RelayIdle

(* A file can only be late where its parser died creating it, and nothing  *)
(* else fills a directory that is being removed.                           *)
LateInv ==
  /\ late => step = "creating" /\ phase \in {"answering", "answered", "gone"}
  /\ dir = "sweeping" /\ onDisk # 0 => step = "creating"
  /\ dir = "orphan" => step = "creating"

(* A read is open while it is at work, a stream until the run is over. *)
CallInv ==
  /\ phase \in {"routing", "preparing"} => calls = <<>> /\ inCall = 0
  /\ \A i \in 1..Len(calls) : calls[i].state = "open" /\ i # inCall => calls[i].stream
  /\ phase \in {"answering", "answered"} /\ inCall = 0 =>
       \A i \in 1..Len(calls) : calls[i].state # "open"
  /\ logged => phase = "answered"

Inv == TypeOK /\ RelayInv /\ DataInv /\ DirInv /\ LateInv /\ CallInv

LEMMA InitKeeps == Init => Inv
<1> SUFFICES ASSUME Init PROVE Inv
  OBVIOUS
<1>1. RelayInv
  BY RelayInitKeeps DEF Init
<1>2. TypeOK
  <2>1. /\ sent \in Seq([file : BOOLEAN, size : Nat]) /\ stored \in Seq(Nat)
        /\ calls \in Seq(Entry) /\ Len(calls) = 0
    BY NothingSent DEF Init
  <2>2. RelayTypeOK
    BY <1>1 DEF RelayInv
  <2>3. inCall \in 0..Len(calls) /\ counted \in Nat \cup {Unknown} /\ holders \subseteq {}
    BY <2>1 DEF Init
  <2> QED
    BY <2>1, <2>2, <2>3 DEF Init, TypeOK, Entry
<1>3. DataInv
  <2>1. stored \in Seq(0..MaxFile) /\ Len(calls) = 0
    BY NothingSent DEF Init
  <2> QED
    BY <2>1, RequestAssumption DEF Init, DataInv
<1>4. DirInv /\ LateInv /\ CallInv
  BY DEF Init, DirInv, LateInv, CallInv, Without, RelayInit, RelayIdle
<1> QED
  BY <1>1, <1>2, <1>3, <1>4 DEF Inv

----------------------------------------------------------------------------
(* What an entry of the chain may become. *)
LEMMA AbandonKeeps ==
  ASSUME NEW chain \in Seq(Entry), NEW streams
  PROVE  LET after == Abandon(chain, streams)
         IN /\ after \in Seq(Entry) /\ Len(after) = Len(chain)
            /\ \A i \in 1..Len(chain) :
                 /\ after[i].size = chain[i].size /\ after[i].origin = chain[i].origin
                 /\ after[i].stream = chain[i].stream
                 /\ after[i].state = "open" => chain[i].state = "open" /\ i \notin streams
<1> DEFINE after == Abandon(chain, streams)
<1>1. ASSUME NEW i \in 1..Len(chain)
      PROVE  /\ after[i] \in Entry
             /\ after[i].size = chain[i].size /\ after[i].origin = chain[i].origin
             /\ after[i].stream = chain[i].stream
             /\ after[i].state = "open" => chain[i].state = "open" /\ i \notin streams
  <2>1. chain[i] \in Entry /\ i \in DOMAIN chain
    BY ElementOfSeq
  <2>2. after[i] = IF i \in streams
                   THEN [chain[i] EXCEPT !.state = "abandoned", !.bytes = 0] ELSE chain[i]
    BY <2>1 DEF Abandon
  <2> HIDE DEF after
  <2>3. CASE i \in streams
    <3>1. after[i] = [chain[i] EXCEPT !.state = "abandoned", !.bytes = 0]
      BY <2>2, <2>3
    <3>2. ASSUME NEW e \in Entry, NEW f, f = [e EXCEPT !.state = "abandoned", !.bytes = 0]
          PROVE  /\ f \in Entry /\ f.state = "abandoned"
                 /\ f.size = e.size /\ f.origin = e.origin /\ f.stream = e.stream
      BY <3>2 DEF Entry
    <3> QED
      BY <2>1, <3>1, <3>2
  <2>4. CASE i \notin streams
    BY <2>1, <2>2, <2>4
  <2> QED
    BY <2>3, <2>4
<1>2. after = [i \in 1..Len(chain) |-> after[i]]
  BY DEF Abandon
<1> HIDE DEF after
<1>3. Len(chain) \in Nat /\ \A i \in 1..Len(chain) : after[i] \in Entry
  BY <1>1, LenProperties
<1>4. after \in Seq(Entry) /\ Len(after) = Len(chain)
  BY <1>2, <1>3
<1> QED
  BY <1>1, <1>4 DEF after

(* What a call leaves is as long as a file can be, and open only as a      *)
(* stream.                                                                 *)
LEMMA OutcomeKeeps ==
  ASSUME Inv, NEW i \in 1..Len(calls), NEW entry \in Outcomes(calls[i])
  PROVE  /\ entry \in Entry /\ entry.origin = calls[i].origin
         /\ entry.size <= MaxFile
         /\ entry.state = "open" => entry.stream
<1>0. calls \in Seq(Entry) /\ stored \in Seq(0..MaxFile)
  BY DEF Inv, TypeOK, DataInv, Entry
<1>1. /\ calls[i] \in Entry /\ calls[i].size <= MaxFile
      /\ calls[i].origin \in Nat /\ calls[i].origin <= Len(stored)
  <2>1. calls[i] \in Entry
    BY <1>0, ElementOfSeq
  <2> QED
    BY <2>1 DEF Inv, DataInv, Entry
<1>2. ASSUME NEW n \in SizesOf(calls[i].origin) PROVE n \in Nat /\ n <= MaxFile
  <2>1. CASE calls[i].origin = 0
    BY <2>1, FileRelayAssumption, <1>2 DEF SizesOf
  <2>2. CASE calls[i].origin # 0
    <3>1. calls[i].origin \in 1..Len(stored)
      BY <1>0, <1>1, <2>2
    <3>2. stored[calls[i].origin] \in 0..MaxFile
      BY <1>0, <3>1, ElementOfSeq
    <3> QED
      BY <1>2, <2>2, <3>2, FileRelayAssumption DEF SizesOf
  <2> QED
    BY <2>1, <2>2
<1>3. CASE entry = [calls[i] EXCEPT !.state = "failed"]
  BY <1>1, <1>3 DEF Entry
<1>4. CASE calls[i].stream /\ \E n \in SizesOf(calls[i].origin) : entry = [calls[i] EXCEPT !.size = n]
  BY <1>1, <1>2, <1>4 DEF Entry
<1>5. CASE \E n \in SizesOf(calls[i].origin) :
             entry = [calls[i] EXCEPT !.bytes = n, !.state = "done"]
  BY <1>1, <1>2, <1>5 DEF Entry
<1> QED
  BY <1>3, <1>4, <1>5 DEF Outcomes

----------------------------------------------------------------------------
(* What a run hands to the relay is a part of the file, and is guarded     *)
(* only in a request with uploads.                                         *)
LEMMA RunHands ==
  ASSUME Inv, RunStreams, phase' = "streaming"
  PROVE  /\ RelayInv' /\ relay' \in {"seeking", "reading"}
         /\ \E i \in Handles :
              /\ RunDrops({i})
              /\ body.guard' = (calls[i].origin # 0)
              /\ holders' = IF calls[i].origin # 0 THEN {"relay"} ELSE holders \ {"run"}
              /\ dir' = IF holders' = {} /\ dir = "live" THEN "dropping" ELSE dir
<1>0. PICK i \in Handles :
        /\ \E part \in Parts(calls[i].size), isHead \in BOOLEAN :
             RelayFile([offset |-> part.start, len |-> part.len, guard |-> calls[i].origin # 0],
                       isHead)
        /\ RunDrops({i})
        /\ holders' = IF calls[i].origin # 0 THEN {"relay"} ELSE holders \ {"run"}
        /\ dir' = IF holders' = {} /\ dir = "live" THEN "dropping" ELSE dir
  BY DEF RunStreams
<1>1. PICK part \in Parts(calls[i].size), isHead \in BOOLEAN :
        RelayFile([offset |-> part.start, len |-> part.len, guard |-> calls[i].origin # 0],
                  isHead)
  BY <1>0
<1> DEFINE handed == [offset |-> part.start, len |-> part.len, guard |-> calls[i].origin # 0]
<1>2. calls[i].size \in 0..MaxFile
  <2>1. calls \in Seq(Entry) /\ i \in 1..Len(calls)
    BY DEF Inv, TypeOK, Entry, Handles
  <2>2. calls[i] \in Entry
    BY <2>1, ElementOfSeq
  <2> QED
    BY <2>1, <2>2, FileRelayAssumption DEF Inv, DataInv, Entry
<1>3. /\ part.start \in 0..MaxFile /\ part.len \in 0..MaxFile
      /\ part.start + part.len <= MaxFile
      /\ part.start > 0 => part.len > 0
  BY <1>2, PartsAreInside, FileRelayAssumption
<1>4. handed \in Bodies /\ handed.offset = part.start /\ handed.len = part.len
  BY <1>3 DEF Bodies
<1>5. RelayInv'
  BY <1>1, <1>3, <1>4, RelayFileKeeps DEF Inv
<1>6. relay' \in {"seeking", "reading"} /\ (body.guard' = (calls[i].origin # 0))
  BY <1>1 DEF RelayFile
<1> QED
  BY <1>0, <1>5, <1>6

LEMMA RelayPart == Inv /\ [Next]_vars => RelayInv'
<1> SUFFICES ASSUME Inv, [Next]_vars PROVE RelayInv'
  OBVIOUS
<1>1. UNCHANGED relayVars => RelayInv'
  BY RelayIsUntouched DEF Inv
<1>2. CASE RunStreams
  BY <1>1, <1>2, RunHands DEF RunStreams
<1>3. CASE Relaying
  BY <1>3, RelayStepKeeps DEF Inv, Relaying
<1>4. CASE ReadBody \/ Deadline
  BY <1>1, <1>4
  DEF ReadBody, BufferBody, BeginUpload, FormFails, NextPart, CreateFile, ReadChunk, EndPart,
      EndForm, Deadline, answerVars
<1>5. CASE RouteRequest \/ BeginCall \/ HostCall \/ RunFails \/ RunResponds \/ LogAnswer
           \/ ClientLeaves
  BY <1>1, <1>5
  DEF RouteRequest, BeginCall, HostCall, EndCall, OrphanReturns, RunFails, RunResponds,
      LogAnswer, ClientLeaves
<1>6. CASE CreateLands \/ Cleanup \/ Stopped \/ UNCHANGED vars
  BY <1>1, <1>6 DEF CreateLands, Cleanup, SweepDirectory, RemoveDirectory, Stopped, vars
<1> QED
  BY <1>2, <1>3, <1>4, <1>5, <1>6 DEF Next

(* Only a chunk within the budget counts, so no file is larger than it. *)
LEMMA DataPart == Inv /\ [Next]_vars => DataInv'
<1> SUFFICES ASSUME Inv, [Next]_vars PROVE DataInv'
  OBVIOUS
<1>0. /\ calls \in Seq(Entry) /\ stored \in Seq(0..MaxFile) /\ Len(calls) \in Nat
      /\ total \in Nat /\ size \in Nat /\ MaxBytes \in Nat /\ MaxFile \in Nat /\ MaxBytes <= MaxFile
  BY RequestAssumption, FileRelayAssumption DEF Inv, TypeOK, DataInv, Entry
<1>1. CASE UNCHANGED <<calls, stored, total, size, phase>>
  BY <1>1 DEF Inv, DataInv
<1>2. CASE RouteRequest \/ BufferBody \/ BeginUpload \/ FormFails \/ NextPart \/ CreateFile
           \/ EndForm \/ Deadline
  <2>1. UNCHANGED <<calls, stored, total>> /\ (size' = size \/ size' = 0)
    BY <1>2
    DEF RouteRequest, BufferBody, BeginUpload, FormFails, NextPart, CreateFile, EndForm, Deadline,
        parseVars, callVars
  <2>2. phase \in {"routing", "preparing"}
    BY <1>2
    DEF RouteRequest, BufferBody, BeginUpload, FormFails, NextPart, CreateFile, EndForm, Deadline
  <2> QED
    BY <1>0, <2>1, <2>2 DEF Inv, DataInv
<1>3. CASE ReadChunk
  BY <1>0, <1>3 DEF ReadChunk, UploadFails, OverBudget, callVars, Inv, DataInv
<1>4. CASE EndPart
  <2>1. UNCHANGED <<calls, total, size>> /\ (phase' = phase \/ phase' = "answering")
    BY <1>4 DEF EndPart, UploadFails, callVars
  <2>2. CASE UNCHANGED stored
    BY <2>1, <2>2 DEF Inv, DataInv
  <2>3. CASE stored' = Append(stored, size)
    <3>1. size \in 0..MaxFile
      BY <1>0, <1>4 DEF EndPart, Inv, DataInv
    <3>2. stored' \in Seq(0..MaxFile) /\ Len(stored') = Len(stored) + 1
      BY <1>0, <2>3, <3>1
    <3>3. ASSUME NEW i \in 1..Len(calls) PROVE calls[i].origin <= Len(stored')
      <4>1. calls[i] \in Entry /\ Len(stored) \in Nat
        BY <1>0, ElementOfSeq
      <4> QED
        BY <3>2, <4>1 DEF Inv, DataInv, Entry
    <3> QED
      BY <2>1, <3>2, <3>3 DEF Inv, DataInv
  <2> QED
    BY <1>4, <2>2, <2>3 DEF EndPart
<1>5. CASE BeginCall
  <2>1. PICK origin \in 0..Len(stored), stream \in BOOLEAN :
          calls' = Append(calls, [origin |-> origin, stream |-> stream, size |-> 0,
                                  bytes |-> Unknown, state |-> "open"])
    BY <1>5 DEF BeginCall
  <2>2. UNCHANGED <<stored, total, size, phase>>
    BY <1>5 DEF BeginCall, parseVars
  <2>3. Len(calls') = Len(calls) + 1 /\ \A i \in 1..Len(calls) : calls'[i] = calls[i]
    BY <1>0, <2>1
  <2>4. calls'[Len(calls) + 1].size = 0 /\ calls'[Len(calls) + 1].origin = origin
    BY <1>0, <2>1
  <2>5. ASSUME NEW i \in 1..Len(calls')
        PROVE  calls'[i].size <= MaxFile /\ calls'[i].origin <= Len(stored)
    <3>1. CASE i \in 1..Len(calls)
      BY <2>3, <3>1 DEF Inv, DataInv
    <3>2. CASE i = Len(calls) + 1
      BY <1>0, <2>4, <3>2
    <3> QED
      BY <1>0, <2>3, <3>1, <3>2, SMTT(30)
  <2> QED
    BY <2>2, <2>5 DEF Inv, DataInv
<1>6. CASE HostCall
  <2>1. PICK entry \in Outcomes(calls[inCall]) :
          \/ calls' = [calls EXCEPT ![inCall] = entry]
          \/ \E streams : calls' = Abandon([calls EXCEPT ![inCall] = entry], streams)
    BY <1>6 DEF HostCall, EndCall, OrphanReturns
  <2>2. UNCHANGED <<stored, total, size, phase>> /\ inCall \in 1..Len(calls)
    BY <1>0, <1>6 DEF HostCall, EndCall, OrphanReturns, parseVars, Inv, TypeOK
  <2>3. entry \in Entry /\ entry.origin = calls[inCall].origin /\ entry.size <= MaxFile
    BY <2>2, OutcomeKeeps
  <2> DEFINE chain == [calls EXCEPT ![inCall] = entry]
  <2>4. /\ chain \in Seq(Entry) /\ Len(chain) = Len(calls)
        /\ \A i \in 1..Len(calls) : chain[i] = IF i = inCall THEN entry ELSE calls[i]
    BY <1>0, <2>2, <2>3, ExceptSeq
  <2>5. ASSUME NEW i \in 1..Len(chain)
        PROVE  chain[i].size <= MaxFile /\ chain[i].origin <= Len(stored)
    BY <2>2, <2>3, <2>4 DEF Inv, DataInv
  <2> HIDE DEF chain
  <2>6. /\ Len(calls') = Len(chain)
        /\ \A i \in 1..Len(chain) : calls'[i].size = chain[i].size
                                   /\ calls'[i].origin = chain[i].origin
    <3>1. CASE calls' = chain
      BY <3>1
    <3>2. CASE \E streams : calls' = Abandon(chain, streams)
      <4>1. PICK streams : calls' = Abandon(chain, streams)
        BY <3>2
      <4> QED
        BY <2>4, <4>1, AbandonKeeps
    <3> QED
      BY <2>1, <3>1, <3>2 DEF chain
  <2> QED
    BY <2>2, <2>5, <2>6 DEF Inv, DataInv
<1>7. CASE RunFails \/ RunResponds \/ RunStreams \/ ClientLeaves
  <2>1. /\ UNCHANGED <<stored, total, size>>
        /\ phase' \in {"answering", "streaming", "gone"}
        /\ calls' = calls \/ \E streams : calls' = Abandon(calls, streams)
    BY <1>7 DEF RunFails, RunResponds, RunStreams, ClientLeaves, RunDrops, parseVars
  <2>2. /\ Len(calls') = Len(calls)
        /\ \A i \in 1..Len(calls) : calls'[i].size = calls[i].size
                                   /\ calls'[i].origin = calls[i].origin
    BY <1>0, <2>1, AbandonKeeps
  <2> QED
    BY <2>1, <2>2 DEF Inv, DataInv
<1>8. CASE Relaying \/ LogAnswer \/ CreateLands \/ Cleanup \/ Stopped \/ UNCHANGED vars
  <2>1. UNCHANGED <<calls, stored, total, size>> /\ (phase' = phase \/ phase' = "answered")
    BY <1>8
    DEF Relaying, LogAnswer, CreateLands, Cleanup, SweepDirectory, RemoveDirectory, Stopped,
        vars, parseVars, callVars
  <2> QED
    BY <2>1 DEF Inv, DataInv
<1> QED
  BY <1>2, <1>3, <1>4, <1>5, <1>6, <1>7, <1>8 DEF Next, ReadBody

(* Each phase leaves the directory to the next one, to a host call that is *)
(* still at work, or to the relay.                                         *)
LEMMA DirPart == Inv /\ [Next]_vars => DirInv'
<1> SUFFICES ASSUME Inv, [Next]_vars PROVE DirInv'
  OBVIOUS
<1>0. DirInv /\ LateInv
  BY DEF Inv
<1> USE DEF DirInv, Without, Settled
<1>1. CASE RouteRequest \/ BufferBody
  BY <1>0, <1>1
  DEF RouteRequest, BufferBody, parseVars, diskVars, callVars, relayVars, taskVars, RelayIdle
<1>2. CASE BeginUpload \/ FormFails \/ CreateFile
  BY <1>0, <1>2
  DEF BeginUpload, FormFails, CreateFile, UploadFails, Release, parseVars, callVars, relayVars,
      taskVars, RelayIdle
<1>3. CASE NextPart \/ EndForm
  BY <1>0, <1>3 DEF NextPart, EndForm, diskVars, callVars, relayVars, taskVars, RelayIdle
<1>4. CASE ReadChunk \/ EndPart
  BY <1>0, <1>4
  DEF ReadChunk, EndPart, UploadFails, Release, callVars, relayVars, taskVars, RelayIdle
<1>5. CASE Deadline
  BY <1>0, <1>5 DEF Deadline, Release, parseVars, callVars, relayVars, taskVars, RelayIdle
<1>6. CASE BeginCall \/ EndCall
  BY <1>0, <1>6
  DEF BeginCall, EndCall, parseVars, diskVars, relayVars, taskVars, RelayIdle
<1>7. CASE OrphanReturns
  BY <1>0, <1>7 DEF OrphanReturns, Release, parseVars, relayVars, taskVars, RelayIdle
<1>8. CASE RunFails \/ RunResponds \/ ClientLeaves
  <2>1. CASE RunFails
    BY <1>0, <2>1 DEF RunFails, Heirs, parseVars, relayVars, taskVars, RelayIdle
  <2>2. CASE RunResponds
    BY <1>0, <2>2 DEF RunResponds, Release, parseVars, relayVars, taskVars, RelayIdle
  <2>3. CASE ClientLeaves
    BY <1>0, <2>3 DEF ClientLeaves, Heirs, parseVars, relayVars, taskVars, RelayIdle
  <2> QED
    BY <1>8, <2>1, <2>2, <2>3
<1>9. CASE RunStreams /\ phase' = "answering"
  BY <1>0, <1>9
  DEF RunStreams, Release, parseVars, relayVars, taskVars, RelayIdle
<1>10. CASE RunStreams /\ phase' = "streaming"
  <2>1. /\ phase = "running" /\ inCall = 0 /\ UNCHANGED <<step, stored, inCall>>
    BY <1>10 DEF RunStreams, parseVars
  <2>2. PICK i \in Handles :
          /\ (body.guard)' = (calls[i].origin # 0)
          /\ holders' = IF calls[i].origin # 0 THEN {"relay"} ELSE holders \ {"run"}
          /\ dir' = IF holders' = {} /\ dir = "live" THEN "dropping" ELSE dir
    BY <1>10, RunHands
  <2>3. relay' \in {"seeking", "reading"}
    BY <1>10, RunHands
  <2>4. calls[i].origin # 0 => step = "stored"
    <3>1. calls \in Seq(Entry) /\ i \in 1..Len(calls)
      BY DEF Inv, TypeOK, Entry, Handles
    <3>2. calls[i] \in Entry
      BY <3>1, ElementOfSeq
    <3>3. calls[i].origin \in Nat /\ calls[i].origin <= Len(stored)
      BY <3>1, <3>2 DEF Inv, DataInv, Entry
    <3>4. stored = <<>> => Len(stored) = 0
      BY NothingSent
    <3> QED
      BY <1>0, <2>1, <3>3, <3>4
  <2> QED
    BY <1>0, <1>10, <2>1, <2>2, <2>3, <2>4 DEF RelayIdle, RelayDone
<1>11. CASE Relaying
  <2>1. /\ phase = "streaming" /\ UNCHANGED <<phase, step, stored, inCall, body>>
        /\ relay' # "idle" /\ (RelayDone => RelayDone')
    BY <1>0, <1>11
    DEF Relaying, RelayStep, FileTask, RelaySeeks, RelayReads, RelayCompletes, RelaySends,
        RelayLogs, RelayBreaks, FileFails, Hyper, HyperFinishes, HyperWrites, HyperSeesEnd,
        ReaderLeaves, parseVars, callVars, fileVars, taskVars, RelayIdle, RelayDone
  <2>2. IF RelayDone' /\ ~RelayDone THEN Release("relay") ELSE UNCHANGED <<holders, dir>>
    BY <1>11 DEF Relaying
  <2> QED
    BY <1>0, <2>1, <2>2 DEF Release, RelayIdle
<1>12. CASE LogAnswer \/ CreateLands \/ Stopped \/ UNCHANGED vars
  BY <1>0, <1>12
  DEF LogAnswer, CreateLands, Stopped, vars, parseVars, diskVars, callVars, relayVars, taskVars,
      fileVars, RelayIdle, RelayDone
<1>13. CASE SweepDirectory \/ RemoveDirectory
  BY <1>0, <1>13
  DEF SweepDirectory, RemoveDirectory, parseVars, callVars, relayVars, taskVars, fileVars,
      RelayIdle, RelayDone
<1>14. RunStreams => phase' \in {"answering", "streaming"}
  BY DEF RunStreams
<1> QED
  BY <1>1, <1>2, <1>3, <1>4, <1>5, <1>6, <1>7, <1>8, <1>9, <1>10, <1>11, <1>12, <1>13, <1>14
  DEF Next, ReadBody, HostCall, Cleanup

(* A file that was on its way when its parser died is what can get into a  *)
(* directory that is being removed.                                        *)
LEMMA LatePart == Inv /\ [Next]_vars => LateInv'
<1> SUFFICES ASSUME Inv, [Next]_vars PROVE LateInv'
  OBVIOUS
<1>0. DirInv /\ LateInv
  BY DEF Inv
<1> USE DEF DirInv, LateInv, Without
<1>1. CASE RouteRequest \/ BufferBody \/ NextPart \/ EndForm
  BY <1>0, <1>1 DEF RouteRequest, BufferBody, NextPart, EndForm, parseVars, diskVars
<1>2. CASE BeginUpload \/ FormFails \/ CreateFile \/ ReadChunk \/ EndPart
  BY <1>0, <1>2
  DEF BeginUpload, FormFails, CreateFile, ReadChunk, EndPart, UploadFails, Release, parseVars
<1>3. CASE Deadline \/ ClientLeaves
  <2>1. UNCHANGED <<step, onDisk>> /\ dir' \in {"dropping", dir}
    BY <1>3 DEF Deadline, ClientLeaves, Release, parseVars
  <2>2. phase' \in {"answering", "gone"} /\ (late' => step = "creating")
    BY <1>3 DEF Deadline, ClientLeaves
  <2> QED
    BY <1>0, <2>1, <2>2
<1>4. CASE BeginCall \/ EndCall \/ OrphanReturns \/ RunFails \/ RunResponds
  <2>1. UNCHANGED <<step, onDisk, late>> /\ dir' \in {"dropping", dir}
    BY <1>4
    DEF BeginCall, EndCall, OrphanReturns, RunFails, RunResponds, Release, parseVars, diskVars
  <2>2. phase' = phase \/ phase = "running"
    BY <1>4 DEF BeginCall, EndCall, OrphanReturns, RunFails, RunResponds
  <2> QED
    BY <1>0, <2>1, <2>2
<1>5. CASE RunStreams
  <2>1. UNCHANGED <<step, onDisk, late>> /\ phase = "running" /\ dir' \in {"dropping", dir}
    BY <1>5 DEF RunStreams, Release, parseVars
  <2> QED
    BY <1>0, <2>1
<1>6. CASE Relaying
  <2>1. /\ UNCHANGED <<phase, step, onDisk, late>> /\ dir' \in {"dropping", dir}
    BY <1>6 DEF Relaying, Release, parseVars
  <2> QED
    BY <1>0, <2>1
<1>7. CASE LogAnswer \/ CreateLands \/ Cleanup \/ Stopped \/ UNCHANGED vars
  BY <1>0, <1>7
  DEF LogAnswer, CreateLands, Cleanup, SweepDirectory, RemoveDirectory, Stopped, vars, parseVars,
      diskVars
<1> QED
  BY <1>1, <1>2, <1>3, <1>4, <1>5, <1>6, <1>7 DEF Next, ReadBody, HostCall

(* A run that is over has dropped its streams, or a call that outlives it  *)
(* drops them when it returns.                                             *)
LEMMA CallPart == Inv /\ [Next]_vars => CallInv'
<1> SUFFICES ASSUME Inv, [Next]_vars PROVE CallInv'
  OBVIOUS
<1>0. calls \in Seq(Entry) /\ Len(calls) \in Nat /\ inCall \in 0..Len(calls) /\ CallInv
  BY DEF Inv, TypeOK, Entry
<1>1. CASE RouteRequest \/ BufferBody \/ BeginUpload \/ FormFails \/ NextPart \/ CreateFile
           \/ ReadChunk \/ EndPart \/ EndForm \/ Deadline
  <2>1. UNCHANGED <<calls, inCall, logged>> /\ phase \in {"routing", "preparing"}
    BY <1>1
    DEF RouteRequest, BufferBody, BeginUpload, FormFails, NextPart, CreateFile, ReadChunk, EndPart,
        EndForm, Deadline, callVars, answerVars
  <2>2. calls = <<>> /\ Len(calls) = 0 /\ ~logged
    BY <1>0, <2>1, NothingSent DEF CallInv
  <2> QED
    BY <1>0, <2>1, <2>2 DEF CallInv
<1>2. CASE BeginCall
  <2>1. PICK origin \in 0..Len(stored), stream \in BOOLEAN :
          calls' = Append(calls, [origin |-> origin, stream |-> stream, size |-> 0,
                                  bytes |-> Unknown, state |-> "open"])
    BY <1>2 DEF BeginCall
  <2>2. /\ phase = "running" /\ inCall = 0 /\ inCall' = Len(calls) + 1
        /\ UNCHANGED <<phase, logged>>
    BY <1>2 DEF BeginCall, answerVars
  <2>3. Len(calls') = Len(calls) + 1 /\ \A i \in 1..Len(calls) : calls'[i] = calls[i]
    BY <1>0, <2>1
  <2>4. ASSUME NEW i \in 1..Len(calls'), i # inCall' PROVE i \in 1..Len(calls) /\ i # inCall
    BY <1>0, <2>2, <2>3, <2>4
  <2> QED
    BY <1>0, <2>2, <2>3, <2>4 DEF CallInv
<1>3. CASE HostCall
  <2>1. PICK entry \in Outcomes(calls[inCall]) :
          LET chain == [calls EXCEPT ![inCall] = entry]
          IN \/ phase = "running" /\ calls' = chain
             \/ calls' = Abandon(chain, {i \in DOMAIN chain : chain[i].state = "open"})
    BY <1>3 DEF HostCall, EndCall, OrphanReturns
  <2>2. UNCHANGED <<phase, logged>> /\ inCall \in 1..Len(calls) /\ inCall' = 0
    BY <1>0, <1>3 DEF HostCall, EndCall, OrphanReturns, answerVars
  <2>3. entry \in Entry /\ (entry.state = "open" => entry.stream)
    BY <2>2, OutcomeKeeps
  <2>4. phase \notin {"routing", "preparing"}
    BY <1>0, <2>2, NothingSent DEF CallInv
  <2> DEFINE chain == [calls EXCEPT ![inCall] = entry]
  <2>5. /\ chain \in Seq(Entry) /\ Len(chain) = Len(calls) /\ DOMAIN chain = 1..Len(calls)
        /\ \A i \in 1..Len(calls) : chain[i] = IF i = inCall THEN entry ELSE calls[i]
    BY <1>0, <2>2, <2>3, ExceptSeq
  <2>6. \/ phase = "running" /\ calls' = chain
        \/ calls' = Abandon(chain, {i \in DOMAIN chain : chain[i].state = "open"})
    BY <2>1
  <2> HIDE DEF chain
  <2>7. \A i \in 1..Len(calls) : chain[i].state = "open" => chain[i].stream
    BY <1>0, <2>3, <2>5 DEF CallInv
  <2>8. CASE phase = "running" /\ calls' = chain
    BY <1>0, <2>2, <2>5, <2>7, <2>8 DEF CallInv
  <2>9. CASE calls' = Abandon(chain, {i \in DOMAIN chain : chain[i].state = "open"})
    <3>1. Len(calls') = Len(calls) /\ \A i \in 1..Len(calls) : calls'[i].state # "open"
      BY <2>5, <2>9, AbandonKeeps
    <3> QED
      BY <1>0, <2>2, <2>4, <3>1 DEF CallInv
  <2> QED
    BY <2>6, <2>8, <2>9
<1>4. CASE RunFails \/ RunResponds \/ RunStreams \/ ClientLeaves
  <2>1. /\ UNCHANGED <<inCall, logged>> /\ phase \in {"preparing", "running"}
        /\ phase' \in {"answering", "streaming", "gone"}
    BY <1>4 DEF RunFails, RunResponds, RunStreams, ClientLeaves, answerVars
  <2>2. \E except :
          /\ calls' = IF inCall = 0 THEN Abandon(calls, Handles \ except) ELSE calls
          /\ phase' = "answering" => except = {}
    BY <1>4 DEF RunFails, RunResponds, RunStreams, ClientLeaves, RunDrops
  <2>3. ~logged
    BY <1>0, <2>1 DEF CallInv
  <2>4. CASE inCall # 0
    BY <1>0, <2>1, <2>2, <2>3, <2>4 DEF CallInv
  <2>5. CASE inCall = 0
    <3>1. PICK except : /\ calls' = Abandon(calls, Handles \ except)
                        /\ phase' = "answering" => except = {}
      BY <2>2, <2>5
    <3>2. /\ Len(calls') = Len(calls)
          /\ \A i \in 1..Len(calls) :
               /\ calls'[i].stream = calls[i].stream
               /\ calls'[i].state = "open" =>
                    calls[i].state = "open" /\ i \notin Handles \ except
      BY <1>0, <3>1, AbandonKeeps
    <3>3. \A i \in 1..Len(calls) : calls[i].state = "open" => i \in Handles
      BY <1>0, <2>5 DEF CallInv, Handles
    <3> QED
      BY <1>0, <2>1, <2>3, <2>5, <3>1, <3>2, <3>3 DEF CallInv
  <2> QED
    BY <2>4, <2>5
<1>5. CASE LogAnswer
  BY <1>0, <1>5 DEF LogAnswer, callVars, CallInv
<1>6. CASE Relaying \/ CreateLands \/ Cleanup \/ Stopped \/ UNCHANGED vars
  <2>1. UNCHANGED <<calls, inCall, logged, phase>>
    BY <1>6
    DEF Relaying, CreateLands, Cleanup, SweepDirectory, RemoveDirectory, Stopped, vars, callVars,
        answerVars
  <2> QED
    BY <1>0, <2>1 DEF CallInv
<1> QED
  BY <1>1, <1>2, <1>3, <1>4, <1>5, <1>6 DEF Next, ReadBody

(* The chain stays a chain. *)
LEMMA CallsTyped ==
  ASSUME Inv, [Next]_vars
  PROVE  calls' \in Seq(Entry) /\ (inCall \in 0..Len(calls))'
<1>0. calls \in Seq(Entry) /\ Len(calls) \in Nat /\ inCall \in 0..Len(calls)
  BY DEF Inv, TypeOK, Entry
<1>1. CASE BeginCall
  <2>1. PICK origin \in 0..Len(stored), stream \in BOOLEAN :
          calls' = Append(calls, [origin |-> origin, stream |-> stream, size |-> 0,
                                  bytes |-> Unknown, state |-> "open"])
    BY <1>1 DEF BeginCall
  <2>2. Len(stored) \in Nat
    BY DEF Inv, TypeOK
  <2>3. [origin |-> origin, stream |-> stream, size |-> 0, bytes |-> Unknown, state |-> "open"]
          \in Entry
    BY <2>2 DEF Entry
  <2>4. calls' \in Seq(Entry) /\ Len(calls') = Len(calls) + 1
    BY <1>0, <2>1, <2>3
  <2> QED
    BY <1>0, <1>1, <2>4 DEF BeginCall
<1>2. CASE HostCall
  <2>1. PICK entry \in Outcomes(calls[inCall]) :
          \/ calls' = [calls EXCEPT ![inCall] = entry]
          \/ \E streams : calls' = Abandon([calls EXCEPT ![inCall] = entry], streams)
    BY <1>2 DEF HostCall, EndCall, OrphanReturns
  <2>2. inCall \in 1..Len(calls) /\ inCall' = 0
    BY <1>0, <1>2 DEF HostCall, EndCall, OrphanReturns
  <2>3. entry \in Entry
    BY <2>2, OutcomeKeeps
  <2> DEFINE chain == [calls EXCEPT ![inCall] = entry]
  <2>4. chain \in Seq(Entry) /\ Len(chain) = Len(calls)
    BY <1>0, <2>2, <2>3, ExceptSeq
  <2>5. calls' = chain \/ \E streams : calls' = Abandon(chain, streams)
    BY <2>1
  <2> HIDE DEF chain
  <2>6. calls' \in Seq(Entry) /\ Len(calls') = Len(calls)
    BY <2>4, <2>5, AbandonKeeps
  <2> QED
    BY <1>0, <2>2, <2>6
<1>3. CASE UNCHANGED inCall /\ (calls' = calls \/ \E streams : calls' = Abandon(calls, streams))
  <2>1. calls' \in Seq(Entry) /\ Len(calls') = Len(calls)
    BY <1>0, <1>3, AbandonKeeps
  <2> QED
    BY <1>0, <1>3, <2>1
<1>4. CASE RunFails \/ RunResponds \/ RunStreams \/ ClientLeaves
  BY <1>3, <1>4 DEF RunFails, RunResponds, RunStreams, ClientLeaves, RunDrops
<1>5. CASE RouteRequest \/ ReadBody \/ Deadline
  BY <1>3, <1>5
  DEF RouteRequest, ReadBody, BufferBody, BeginUpload, FormFails, NextPart, CreateFile, ReadChunk,
      EndPart, EndForm, Deadline, callVars
<1>6. CASE Relaying \/ LogAnswer \/ CreateLands \/ Cleanup \/ Stopped \/ UNCHANGED vars
  BY <1>3, <1>6
  DEF Relaying, LogAnswer, CreateLands, Cleanup, SweepDirectory, RemoveDirectory, Stopped, vars,
      callVars
<1> QED
  BY <1>1, <1>2, <1>4, <1>5, <1>6 DEF Next

LEMMA TypePart == Inv /\ [Next]_vars => TypeOK'
<1> SUFFICES ASSUME Inv, [Next]_vars PROVE TypeOK'
  OBVIOUS
<1>0. TypeOK
  BY DEF Inv
<1>1. RelayTypeOK'
  BY RelayPart DEF RelayInv
<1>2. /\ (calls \in Seq([origin : Nat, stream : BOOLEAN, size : Nat, bytes : Nat \cup {Unknown},
                         state : {"open", "done", "failed", "abandoned"}]))'
      /\ (inCall \in 0..Len(calls))'
  BY CallsTyped DEF Entry
<1> DEFINE Places ==
      /\ phase \in {"routing", "preparing", "running", "answering", "answered", "streaming", "gone"}
      /\ step \in {"none", "buffered", "parts", "creating", "data", "stored"}
      /\ dir \in {"none", "live", "dropping", "sweeping", "gone", "orphan"}
    Keepers == holders \subseteq {"parse", "run", "host", "relay"}
    Counters ==
      /\ length \in Lengths /\ wire \in Nat
      /\ total \in Nat /\ counted \in Nat \cup {Unknown} /\ size \in Nat
      /\ onDisk \in Nat
    Flags == late \in BOOLEAN /\ logged \in BOOLEAN
<1>3. /\ Places /\ Keepers /\ Counters /\ Flags
      /\ MaxBytes \in Nat /\ Allowance \in Nat /\ BodyLimit \in Nat
  BY <1>0, RequestAssumption DEF TypeOK
<1>4. Places'
  <2>1. CASE RouteRequest \/ BufferBody \/ EndForm
    BY <1>3, <2>1
    DEF RouteRequest, BufferBody, EndForm, clientVars, parseVars, diskVars, answerVars
  <2>2. CASE BeginUpload \/ FormFails \/ CreateFile
    BY <1>3, <2>2
    DEF BeginUpload, FormFails, CreateFile, UploadFails, Release, WireLimit, clientVars,
        parseVars, diskVars, answerVars
  <2>3. CASE NextPart \/ ReadChunk \/ EndPart
    BY <1>3, <2>3
    DEF NextPart, ReadChunk, EndPart, Takes, Arrives, UploadFails, Release, clientVars,
        parseVars, diskVars, answerVars
  <2>4. CASE BeginCall \/ HostCall \/ RunFails \/ RunResponds
    <3>1. /\ phase' = phase \/ phase' = "answering"
          /\ UNCHANGED step
          /\ dir' = dir \/ dir' = "dropping"
      BY <2>4
      DEF BeginCall, HostCall, EndCall, OrphanReturns, RunFails, RunResponds, Release, parseVars,
          diskVars
    <3> QED
      BY <1>3, <3>1
  <2>5. CASE Deadline \/ ClientLeaves
    BY <1>3, <2>5
    DEF Deadline, ClientLeaves, Release, Heirs, clientVars, parseVars, diskVars, answerVars
  <2>6. CASE RunStreams
    BY <1>3, <2>6
    DEF RunStreams, Release, clientVars, parseVars, diskVars, answerVars
  <2>7. CASE Relaying \/ LogAnswer
    BY <1>3, <2>7
    DEF Relaying, LogAnswer, Release, clientVars, parseVars, diskVars, answerVars
  <2>8. CASE CreateLands \/ Cleanup \/ Stopped \/ UNCHANGED vars
    BY <1>3, <2>8
    DEF CreateLands, Cleanup, SweepDirectory, RemoveDirectory, Stopped, vars, clientVars,
        parseVars, diskVars, answerVars
  <2> QED
    BY <2>1, <2>2, <2>3, <2>4, <2>5, <2>6, <2>7, <2>8 DEF Next, ReadBody
<1>5. Counters'
  <2>1. CASE RouteRequest \/ BufferBody \/ EndForm \/ Deadline
    BY <1>3, <2>1
    DEF RouteRequest, BufferBody, EndForm, Deadline, clientVars, parseVars, diskVars,
        answerVars
  <2>2. CASE BeginUpload \/ FormFails \/ CreateFile
    BY <1>3, <2>2
    DEF BeginUpload, FormFails, CreateFile, UploadFails, Release, WireLimit, clientVars,
        parseVars, diskVars, answerVars
  <2>3. CASE NextPart \/ EndPart
    <3>1. /\ UNCHANGED <<length, total, onDisk>>
          /\ wire' = wire \/ wire' = wire + 1
          /\ size' = size \/ size' = 0
          /\ counted' = counted \/ counted' = total
      BY <2>3 DEF NextPart, EndPart, Arrives, clientVars, diskVars
    <3> QED
      BY <1>3, <3>1
  <2>4. CASE ReadChunk
    BY <1>3, <2>4, SMTT(30)
    DEF ReadChunk, Takes, Arrives, clientVars, parseVars, diskVars, answerVars
  <2>5. CASE BeginCall \/ HostCall \/ RunFails \/ RunResponds \/ ClientLeaves
    BY <1>3, <2>5
    DEF BeginCall, HostCall, EndCall, OrphanReturns, RunFails, RunResponds, Release, Heirs,
        ClientLeaves, clientVars, parseVars, diskVars, answerVars
  <2>6. CASE RunStreams \/ Relaying \/ LogAnswer
    BY <1>3, <2>6
    DEF RunStreams, Relaying, LogAnswer, Release, clientVars, parseVars, diskVars,
        answerVars
  <2>7. CASE CreateLands \/ Cleanup \/ Stopped \/ UNCHANGED vars
    BY <1>3, <2>7
    DEF CreateLands, Cleanup, SweepDirectory, RemoveDirectory, Stopped, vars, clientVars,
        parseVars, diskVars, answerVars
  <2> QED
    BY <2>1, <2>2, <2>3, <2>4, <2>5, <2>6, <2>7 DEF Next, ReadBody
<1>6. Flags'
  <2>1. CASE RouteRequest \/ BufferBody \/ EndForm
    BY <1>3, <2>1
    DEF RouteRequest, BufferBody, EndForm, clientVars, parseVars, diskVars, answerVars
  <2>2. CASE Deadline
    BY <1>3, <2>2, Zenon
    DEF Deadline, clientVars, parseVars, diskVars, answerVars
  <2>3. CASE ClientLeaves
    BY <1>3, <2>3, Zenon
    DEF ClientLeaves, clientVars, parseVars, diskVars, answerVars
  <2>4. CASE BeginUpload \/ FormFails \/ CreateFile
    BY <1>3, <2>4
    DEF BeginUpload, FormFails, CreateFile, UploadFails, Release, WireLimit, clientVars,
        parseVars, diskVars, answerVars
  <2>5. CASE NextPart \/ ReadChunk \/ EndPart
    BY <1>3, <2>5
    DEF NextPart, ReadChunk, EndPart, Takes, Arrives, UploadFails, Release, clientVars,
        parseVars, diskVars, answerVars
  <2>6. CASE BeginCall \/ HostCall \/ RunFails \/ RunResponds
    BY <1>3, <2>6
    DEF BeginCall, HostCall, EndCall, OrphanReturns, RunFails, RunResponds, Release, Heirs,
        clientVars, parseVars, diskVars, answerVars
  <2>7. CASE RunStreams \/ Relaying \/ LogAnswer
    BY <1>3, <2>7
    DEF RunStreams, Relaying, LogAnswer, Release, clientVars, parseVars, diskVars,
        answerVars
  <2>8. CASE CreateLands \/ Cleanup \/ Stopped \/ UNCHANGED vars
    BY <1>3, <2>8
    DEF CreateLands, Cleanup, SweepDirectory, RemoveDirectory, Stopped, vars, clientVars,
        parseVars, diskVars, answerVars
  <2> QED
    BY <2>1, <2>2, <2>3, <2>4, <2>5, <2>6, <2>7, <2>8 DEF Next, ReadBody
<1>9. Keepers'
  <2>1. CASE RouteRequest \/ BufferBody \/ EndForm
    BY <1>3, <2>1
    DEF RouteRequest, BufferBody, EndForm, clientVars, parseVars, diskVars, answerVars
  <2>2. CASE BeginUpload \/ FormFails \/ CreateFile
    BY <1>3, <2>2
    DEF BeginUpload, FormFails, CreateFile, UploadFails, Release, WireLimit, clientVars,
        parseVars, diskVars, answerVars
  <2>3. CASE NextPart \/ ReadChunk \/ EndPart
    BY <1>3, <2>3
    DEF NextPart, ReadChunk, EndPart, Takes, Arrives, UploadFails, Release, clientVars,
        parseVars, diskVars, answerVars
  <2>4. CASE BeginCall \/ HostCall \/ RunFails \/ RunResponds
    BY <1>3, <2>4
    DEF BeginCall, HostCall, EndCall, OrphanReturns, RunFails, RunResponds, Release, Heirs,
        clientVars, parseVars, diskVars, answerVars
  <2>5. CASE Deadline \/ ClientLeaves
    BY <1>3, <2>5
    DEF Deadline, ClientLeaves, Release, Heirs, clientVars, parseVars, diskVars, answerVars
  <2>6. CASE RunStreams
    BY <1>3, <2>6
    DEF RunStreams, Release, clientVars, parseVars, diskVars, answerVars
  <2>7. CASE Relaying \/ LogAnswer
    BY <1>3, <2>7
    DEF Relaying, LogAnswer, Release, clientVars, parseVars, diskVars, answerVars
  <2>8. CASE CreateLands \/ Cleanup \/ Stopped \/ UNCHANGED vars
    BY <1>3, <2>8
    DEF CreateLands, Cleanup, SweepDirectory, RemoveDirectory, Stopped, vars, clientVars,
        parseVars, diskVars, answerVars
  <2> QED
    BY <2>1, <2>2, <2>3, <2>4, <2>5, <2>6, <2>7, <2>8 DEF Next, ReadBody
<1>7. stored' \in Seq(Nat)
  BY DataPart, FileRelayAssumption, SeqMonotonic DEF DataInv
<1>8. sent' \in Seq([file : BOOLEAN, size : Nat])
  <2>0. sent \in Seq([file : BOOLEAN, size : Nat])
    BY <1>0 DEF TypeOK
  <2>1. CASE NextPart
    <3>1. PICK file \in BOOLEAN : sent' = Append(sent, [file |-> file, size |-> 0])
      BY <2>1 DEF NextPart
    <3> QED
      BY <2>0, <3>1
  <2>2. CASE ReadChunk
    <3>0. PICK n \in 1..MaxBytes + 1 : Takes(n)
      BY <2>2 DEF ReadChunk
    <3>1. n \in Nat /\ sent' = [sent EXCEPT ![Len(sent)].size = @ + n]
      BY <1>3, <3>0 DEF Takes
    <3>2. CASE Len(sent) \in 1..Len(sent)
      <4>1. sent[Len(sent)] \in [file : BOOLEAN, size : Nat]
        BY <2>0, <3>2, ElementOfSeq
      <4>2. [sent[Len(sent)] EXCEPT !.size = @ + n] \in [file : BOOLEAN, size : Nat]
        BY <4>1
      <4> QED
        BY <2>0, <3>1, <3>2, <4>2, ExceptSeq
    <3>3. CASE Len(sent) \notin 1..Len(sent)
      <4>1. Len(sent) \in Nat /\ DOMAIN sent = 1..Len(sent) /\ Len(sent) = 0
        BY <2>0, <3>3, LenProperties
      <4>2. sent' = [i \in DOMAIN sent |-> sent'[i]] /\ DOMAIN sent = {}
        BY <3>1, <4>1
      <4> QED
        BY <2>0, <4>1, <4>2, NothingSent
    <3> QED
      BY <3>2, <3>3
  <2>3. CASE ~NextPart /\ ~ReadChunk
    <3>1. UNCHANGED sent
      BY <2>3
      DEF Next, vars, RouteRequest, ReadBody, BufferBody, BeginUpload, FormFails, CreateFile,
          EndPart, EndForm, Deadline, BeginCall, HostCall, EndCall, OrphanReturns, RunFails,
          RunResponds, RunStreams, Relaying, LogAnswer, ClientLeaves, CreateLands, Cleanup,
          SweepDirectory, RemoveDirectory, Stopped, clientVars
    <3> QED
      BY <2>0, <3>1
  <2> QED
    BY <2>1, <2>2, <2>3
<1> QED
  BY <1>1, <1>2, <1>4, <1>5, <1>6, <1>7, <1>8, <1>9 DEF TypeOK

LEMMA StepKeeps == Inv /\ [Next]_vars => Inv'
  BY TypePart, RelayPart, DataPart, DirPart, LatePart, CallPart DEF Inv

----------------------------------------------------------------------------
LEMMA InvHolds == Spec => []Inv
  BY InitKeeps, StepKeeps, PTL DEF Spec

(* Type correctness: no counter of the parser, and no size or position a   *)
(* call or the relay works with, leaves its range.                         *)
THEOREM RequestTyped == Spec => []TypeOK
<1>1. Inv => TypeOK
  BY DEF Inv
<1> QED
  BY <1>1, InvHolds, PTL

(***************************************************************************)
(* A client that gets a file gets the announced part of it, in order, or   *)
(* can tell that it is cut; whatever the sizes and the channel.            *)
(***************************************************************************)
THEOREM FilesAreDelivered == Spec => []FileIsDelivered
<1>1. Inv => FileIsDelivered
  <2> SUFFICES ASSUME Inv PROVE FileIsDelivered
    OBVIOUS
  <2>1. received \in Seq(1..MaxFile) /\ DOMAIN received = 1..Len(received)
    BY LenProperties DEF Inv, RelayInv, RelayTypeOK
  <2>2. client = "truncated" => Len(line) = 1
    BY DEF Inv, RelayInv, ClientInv, LineInv, RelayDone
  <2> QED
    BY <2>1, <2>2 DEF FileIsDelivered, Inv, RelayInv, ChannelInv, ClientInv
<1> QED
  BY <1>1, InvHolds, PTL

(***************************************************************************)
(* The line of a streamed file is the only one, and says what became of    *)
(* the body.                                                               *)
(***************************************************************************)
THEOREM FileLinesAreTruthful == Spec => []FileLineIsTruthful
<1>1. Inv => FileLineIsTruthful
  <2> SUFFICES ASSUME Inv PROVE FileLineIsTruthful
    OBVIOUS
  <2>1. /\ bytes \in 0..body.len /\ body.len \in Nat /\ Len(received) \in Nat
        /\ Len(received) <= bytes
        /\ client = "complete" => Len(received) = Wanted
    BY DEF Inv, RelayInv, RelayTypeOK, Bodies, ChannelInv, ClientInv
  <2>2. CASE line = <<>>
    <3>1. Len(line) = 0 /\ DOMAIN line = {}
      BY <2>2
    <3> QED
      BY <3>1 DEF FileLineIsTruthful
  <2>3. CASE line # <<>>
    <3>1. /\ line = <<[error |-> ending, bytes |-> bytes, entry |-> ending]>>
          /\ relay \in {"breaking", "done"}
      BY <2>3 DEF Inv, RelayInv, LineInv
    <3>2. /\ ending = "complete" <=> bytes = body.len
          /\ ending = "client_disconnected" => Hung
      BY <3>1 DEF Inv, RelayInv, EndingInv
    <3>3. ending = "file_stream_error" /\ client = "complete" => head
      BY <2>1, <3>2 DEF Wanted
    <3>4. /\ Len(line) = 1 /\ DOMAIN line = {1}
          /\ line[1].error = ending /\ line[1].bytes = bytes /\ line[1].entry = ending
      BY <3>1
    <3>5. bytes \in Len(received)..body.len
      BY <2>1
    <3> QED
      BY <3>2, <3>3, <3>4, <3>5 DEF FileLineIsTruthful
  <2> QED
    BY <2>2, <2>3
<1> QED
  BY <1>1, InvHolds, PTL

(***************************************************************************)
(* The directory of the uploads is there for whoever needs it, is removed  *)
(* before a request without a relay is answered, and stays behind only     *)
(* where a parser died creating a file.                                    *)
(***************************************************************************)
THEOREM DirectoriesAreKept == Spec => []DirectoryIsKept
<1>1. Inv => DirectoryIsKept
  BY DEF Inv, TypeOK, DirInv, LateInv, DirectoryIsKept, RelayIdle, RelayDone, Settled, Without
<1> QED
  BY <1>1, InvHolds, PTL

(* No chain is logged with a call open in it that nobody works on. *)
THEOREM LoggedEntriesAreClosed == Spec => []EntriesAreClosed
<1>1. Inv => EntriesAreClosed
  <2> SUFFICES ASSUME Inv PROVE EntriesAreClosed
    OBVIOUS
  <2>1. DOMAIN calls = 1..Len(calls)
    BY LenProperties DEF Inv, TypeOK
  <2> QED
    BY <2>1 DEF EntriesAreClosed, Inv, CallInv
<1> QED
  BY <1>1, InvHolds, PTL

----------------------------------------------------------------------------
(***************************************************************************)
(* The form.  What is said of it adds up bytes and counts files, so sums   *)
(* are sizes of sets of bytes: a chunk or a part adds as many new ones as  *)
(* it has.                                                                 *)
(***************************************************************************)
HasSize(S, n) == IsFiniteSet(S) /\ Cardinality(S) = n

LEMMA StripSize ==
  ASSUME NEW i, NEW a \in Nat, NEW n \in Nat
  PROVE  HasSize({i} \X (a + 1..a + n), n)
<1>1. IsFiniteSet(a + 1..a + n) /\ Cardinality(a + 1..a + n) = n
  BY FS_Interval
<1>2. IsFiniteSet({i}) /\ Cardinality({i}) = 1
  BY FS_Singleton
<1>3. /\ IsFiniteSet({i} \X (a + 1..a + n))
      /\ Cardinality({i} \X (a + 1..a + n)) = Cardinality({i}) * Cardinality(a + 1..a + n)
  BY <1>1, <1>2, FS_Product, Zenon
<1> QED
  BY <1>1, <1>2, <1>3 DEF HasSize

LEMMA FirstStrip ==
  ASSUME NEW i, NEW n \in Nat
  PROVE  HasSize({i} \X (1..n), n)
<1>1. 0 \in Nat /\ 0 + 1..0 + n = 1..n
  OBVIOUS
<1>2. HasSize({i} \X (0 + 1..0 + n), n)
  BY <1>1, StripSize, Zenon
<1> QED
  BY <1>1, <1>2, Zenon

LEMMA SumType ==
  ASSUME NEW s \in Seq(Nat)
  PROVE  IsFiniteSet(Bytes(s)) /\ Sum(s) \in Nat
<1> DEFINE D == DOMAIN s
           T == {{i} \X (1..s[i]) : i \in D}
           f == [i \in D |-> {i} \X (1..s[i])]
<1>1. IsFiniteSet(D)
  BY LenProperties, FS_Interval
<1>2. f \in Surjection(D, T)
  BY DEF Surjection
<1>3. IsFiniteSet(T)
  <2> HIDE DEF f, T, D
  <2> QED
    BY <1>1, <1>2, FS_Surjection
<1>4. ASSUME NEW i \in D PROVE IsFiniteSet({i} \X (1..s[i]))
  <2>1. s[i] \in Nat
    BY ElementOfSeq, LenProperties
  <2>2. HasSize({i} \X (1..s[i]), s[i])
    BY <2>1, FirstStrip, Zenon
  <2> QED
    BY <2>2, Zenon DEF HasSize
<1>5. \A t \in T : IsFiniteSet(t)
  BY <1>4
<1>6. IsFiniteSet(UNION T)
  <2> HIDE DEF T
  <2> QED
    BY <1>3, <1>5, FS_UNION
<1> QED
  BY <1>6, FS_CardinalityType DEF Bytes, Sum

LEMMA MoreBytes ==
  ASSUME NEW s \in Seq(Nat), NEW t, NEW n \in Nat, NEW more, HasSize(more, n),
         Bytes(t) = Bytes(s) \cup more, Bytes(s) \cap more = {}
  PROVE  Sum(t) = Sum(s) + n
<1>1. IsFiniteSet(Bytes(s)) /\ Cardinality(Bytes(s)) \in Nat /\ IsFiniteSet(more)
  BY SumType DEF Sum, HasSize
<1>2. Cardinality(Bytes(s) \cup more)
        = Cardinality(Bytes(s)) + Cardinality(more) - Cardinality(Bytes(s) \cap more)
  BY <1>1, FS_Union
<1>3. Cardinality(Bytes(s) \cap more) = 0
  BY FS_EmptySet
<1> QED
  BY <1>1, <1>2, <1>3 DEF Sum, HasSize

LEMMA ByteOf ==
  ASSUME NEW s, NEW i, NEW b
  PROVE  <<i, b>> \in Bytes(s) <=> i \in DOMAIN s /\ b \in 1..s[i]
BY DEF Bytes

LEMMA AppendSum ==
  ASSUME NEW s \in Seq(Nat), NEW n \in Nat
  PROVE  Append(s, n) \in Seq(Nat) /\ Sum(Append(s, n)) = Sum(s) + n
<1> DEFINE t == Append(s, n)
           k == Len(s) + 1
<1>1. /\ t \in Seq(Nat) /\ DOMAIN t = 1..k /\ DOMAIN s = 1..Len(s) /\ Len(s) \in Nat
      /\ t[k] = n /\ \A i \in 1..Len(s) : t[i] = s[i]
  BY AppendProperties, LenProperties
<1> HIDE DEF t
<1>2. Bytes(t) = Bytes(s) \cup ({k} \X (1..n))
  <2>1. 1..k = (1..Len(s)) \cup {k} /\ k \notin 1..Len(s)
    BY <1>1
  <2> HIDE DEF k
  <2> QED
    BY <1>1, <2>1 DEF Bytes
<1>3. Bytes(s) \cap ({k} \X (1..n)) = {}
  <2>1. k \notin DOMAIN s
    BY <1>1
  <2> HIDE DEF k
  <2> QED
    BY <2>1 DEF Bytes
<1>4. Sum(t) = Sum(s) + n
  <2> HIDE DEF k
  <2>1. HasSize({k} \X (1..n), n)
    BY FirstStrip, Zenon
  <2> QED
    BY <1>2, <1>3, <2>1, MoreBytes
<1> QED
  BY <1>1, <1>4 DEF t

LEMMA GrowSum ==
  ASSUME NEW s \in Seq(Nat), NEW k \in 1..Len(s), NEW n \in Nat
  PROVE  Sum([s EXCEPT ![k] = @ + n]) = Sum(s) + n
<1> DEFINE t == [s EXCEPT ![k] = @ + n]
<1>1. DOMAIN s = 1..Len(s) /\ s[k] \in Nat
  BY ElementOfSeq, LenProperties
<1>2. /\ DOMAIN t = DOMAIN s
      /\ \A i \in DOMAIN s : t[i] = IF i = k THEN s[k] + n ELSE s[i]
  BY <1>1
<1> HIDE DEF t
<1>3. PICK a : a = s[k]
  OBVIOUS
<1>4. 1..a + n = (1..a) \cup (a + 1..a + n) /\ (1..a) \cap (a + 1..a + n) = {}
  BY <1>1, <1>3
<1>5. Bytes(t) = Bytes(s) \cup ({k} \X (a + 1..a + n))
  <2>1. \A i, b : <<i, b>> \in Bytes(t) <=> <<i, b>> \in Bytes(s) \cup ({k} \X (a + 1..a + n))
    <3> TAKE i, b
    <3>1. CASE i = k
      BY <1>1, <1>2, <1>3, <1>4, <3>1, ByteOf
    <3>2. CASE i # k
      BY <1>1, <1>2, <3>2, ByteOf
    <3> QED
      BY <3>1, <3>2
  <2>2. \A x \in Bytes(t) \cup Bytes(s) \cup ({k} \X (a + 1..a + n)) : \E i, b : x = <<i, b>>
    BY DEF Bytes
  <2> QED
    BY <2>1, <2>2
<1>6. Bytes(s) \cap ({k} \X (a + 1..a + n)) = {}
  <2>1. \A b : <<k, b>> \in Bytes(s) => b \notin a + 1..a + n
    BY <1>1, <1>3, <1>4, ByteOf
  <2> QED
    BY <2>1
<1>7. a \in Nat
  BY <1>1, <1>3
<1>8. Sum(t) = Sum(s) + n
  <2>1. HasSize({k} \X (a + 1..a + n), n)
    BY <1>7, StripSize, Zenon
  <2> QED
    BY <1>5, <1>6, <2>1, MoreBytes
<1> QED
  BY <1>8 DEF t

LEMMA NoBytes == Sum(<<>>) = 0
<1>1. Bytes(<<>>) = {}
  BY DEF Bytes
<1> QED
  BY <1>1, FS_EmptySet DEF Sum

Part == [file : BOOLEAN, size : Nat]

LEMMA SizesOfParts ==
  ASSUME NEW parts \in Seq(Part)
  PROVE  /\ Sizes(parts) \in Seq(Nat) /\ Len(Sizes(parts)) = Len(parts)
         /\ DOMAIN parts = 1..Len(parts) /\ Len(parts) \in Nat
         /\ \A i \in 1..Len(parts) : parts[i] \in Part /\ Sizes(parts)[i] = parts[i].size
<1>1. DOMAIN parts = 1..Len(parts) /\ Len(parts) \in Nat
  BY LenProperties
<1>2. \A i \in 1..Len(parts) : parts[i] \in Part
  BY ElementOfSeq
<1>3. \A i \in 1..Len(parts) : parts[i].size \in Nat
  BY <1>2 DEF Part
<1>4. Sizes(parts) = [i \in 1..Len(parts) |-> parts[i].size]
  BY <1>1 DEF Sizes
<1> QED
  BY <1>1, <1>2, <1>3, <1>4

(* A new part, and a chunk of the last one, add what they have. *)
LEMMA PartAdds ==
  ASSUME NEW parts \in Seq(Part), NEW part \in Part
  PROVE  Sum(Sizes(Append(parts, part))) = Sum(Sizes(parts)) + part.size
<1>1. part.size \in Nat
  BY DEF Part
<1>2. Append(parts, part) \in Seq(Part) /\ Len(Append(parts, part)) = Len(parts) + 1
  BY AppendProperties
<1>3. Sizes(Append(parts, part)) = Append(Sizes(parts), part.size)
  <2>1. PICK s : s = Sizes(parts)
    OBVIOUS
  <2>2. /\ s \in Seq(Nat) /\ Len(s) = Len(parts) /\ Len(s) \in Nat
        /\ \A i \in 1..Len(s) : s[i] = parts[i].size
    BY <2>1, SizesOfParts
  <2>3. /\ Append(s, part.size) \in Seq(Nat) /\ Len(Append(s, part.size)) = Len(s) + 1
        /\ Append(s, part.size)[Len(s) + 1] = part.size
        /\ \A i \in 1..Len(s) : Append(s, part.size)[i] = s[i]
    BY <1>1, <2>2, AppendProperties
  <2>4. PICK t : t = Append(s, part.size)
    OBVIOUS
  <2>5. /\ Append(parts, part)[Len(parts) + 1] = part
        /\ \A i \in 1..Len(parts) : Append(parts, part)[i] = parts[i]
    BY AppendProperties
  <2>6. PICK longer : longer = Append(parts, part)
    OBVIOUS
  <2>7. /\ Sizes(longer) \in Seq(Nat) /\ Len(Sizes(longer)) = Len(s) + 1
        /\ \A i \in 1..Len(s) + 1 : Sizes(longer)[i] = longer[i].size
    BY <1>2, <2>2, <2>6, SizesOfParts
  <2>8. ASSUME NEW i \in 1..Len(s) + 1 PROVE Sizes(longer)[i] = t[i]
    <3>1. i = Len(s) + 1 \/ i \in 1..Len(s)
      BY <2>2
    <3> QED
      BY <2>2, <2>3, <2>4, <2>5, <2>6, <2>7, <3>1
  <2>9. Sizes(longer) = t
    BY <2>3, <2>4, <2>7, <2>8, SeqEqual
  <2> QED
    BY <2>1, <2>4, <2>6, <2>9
<1> QED
  BY <1>1, <1>3, SizesOfParts, AppendSum

IsLonger(longer, parts, k, n) ==
  /\ Sum(Sizes(longer)) = Sum(Sizes(parts)) + n
  /\ longer \in Seq(Part) /\ Len(longer) = Len(parts)
  /\ \A i \in 1..Len(parts) :
       /\ longer[i].file = parts[i].file
       /\ longer[i].size = IF i = k THEN parts[k].size + n ELSE parts[i].size

LEMMA ChunkAdds ==
  ASSUME NEW parts \in Seq(Part), NEW k \in 1..Len(parts), NEW n \in Nat,
         NEW longer, longer = [parts EXCEPT ![k].size = @ + n]
  PROVE  IsLonger(longer, parts, k, n)
<1>1. /\ DOMAIN parts = 1..Len(parts) /\ Len(parts) \in Nat
      /\ \A i \in 1..Len(parts) : parts[i] \in Part
  BY SizesOfParts
<1>2. ASSUME NEW i \in 1..Len(parts)
      PROVE  /\ longer[i] \in Part
             /\ longer[i].file = parts[i].file
             /\ longer[i].size = IF i = k THEN parts[k].size + n ELSE parts[i].size
  BY <1>1 DEF Part
<1>3. longer = [i \in 1..Len(parts) |-> longer[i]]
  BY <1>1
<1>4. longer \in Seq(Part) /\ Len(longer) = Len(parts)
  <2>1. Len(parts) \in Nat /\ \A i \in 1..Len(parts) : longer[i] \in Part
    BY <1>1, <1>2
  <2> QED
    BY <1>3, <2>1
<1>5. Sizes(longer) = [Sizes(parts) EXCEPT ![k] = @ + n]
  <2>1. DOMAIN longer = 1..Len(parts)
    BY <1>1, <1>4, SizesOfParts
  <2>2. \A i \in 1..Len(parts) :
          longer[i].size = IF i = k THEN parts[k].size + n ELSE parts[i].size
    BY <1>2
  <2> QED
    BY <1>1, <2>1, <2>2 DEF Sizes
<1>6. Sum(Sizes(longer)) = Sum(Sizes(parts)) + n
  BY <1>5, SizesOfParts, GrowSum
<1> QED
  BY <1>2, <1>4, <1>6 DEF IsLonger

(* Which of the elements of a set is i. *)
LEMMA RankInside ==
  ASSUME NEW S \in SUBSET Nat, IsFiniteSet(S), NEW i \in S
  PROVE  Cardinality({j \in S : j <= i}) \in 1..Cardinality(S)
<1> DEFINE below == {j \in S : j <= i}
<1>1. below \in SUBSET S /\ i \in below
  OBVIOUS
<1> HIDE DEF below
<1>2. IsFiniteSet(below) /\ Cardinality(below) <= Cardinality(S)
  BY <1>1, FS_Subset
<1>3. Cardinality(below) \in Nat /\ Cardinality(S) \in Nat /\ Cardinality(below) # 0
  BY <1>1, <1>2, FS_CardinalityType, FS_EmptySet
<1> QED
  BY <1>2, <1>3 DEF below

----------------------------------------------------------------------------
(* The part at hand is the last one; the others are finished. *)
AtHand == IF step \in {"creating", "data"} THEN {Len(sent)} ELSE {}
Finished == FileParts \ AtHand

(* Each finished file is stored at its rank and at its size.               *)
PartInv ==
  /\ step \in {"none", "buffered"} => sent = <<>> /\ stored = <<>> /\ total = 0
  /\ step \in {"creating", "data"} => sent # <<>>
  /\ step = "creating" => InFile /\ size = 0 /\ sent[Len(sent)].size = 0
  /\ phase = "preparing" /\ step = "data" /\ InFile => size = sent[Len(sent)].size
  /\ Len(stored) = Cardinality(Finished)
  /\ \A i \in Finished : stored[Rank(i)] = sent[i].size

(* What is counted is what was sent, what was written is within the budget *)
(* even if the chunk that broke it was counted, and all of it came over    *)
(* the wire.                                                               *)
Written == Sum(stored) + (IF step = "data" THEN size ELSE 0)

CountInv ==
  /\ total = Sum(Sizes(sent)) /\ total <= wire
  /\ step = "none" => counted = Unknown /\ wire = 0
  /\ step # "buffered" => Known(counted) = total
  /\ step = "stored" => total <= MaxBytes
  /\ length # Unknown => wire <= length
  /\ phase = "preparing" /\ step # "none" => wire <= WireLimit
  /\ Written <= MaxBytes
  /\ phase = "preparing" => Written <= total

(* One file on disk for each stored one and the one at hand. *)
DiskInv ==
  /\ step = "none" => onDisk = 0
  /\ phase \in {"routing", "preparing"} =>
       onDisk = IF step = "data" /\ InFile THEN Len(stored) + 1 ELSE Len(stored)
  /\ step = "stored" => onDisk \in {0, Len(stored)}

AnswerInv ==
  /\ answer.status # 0 => phase \notin {"routing", "preparing", "running"}
  /\ UploadLogIsTruthful

FormInv == PartInv /\ CountInv /\ DiskInv /\ AnswerInv

LEMMA FormFacts ==
  ASSUME TypeOK
  PROVE  /\ sent \in Seq(Part) /\ DOMAIN sent = 1..Len(sent) /\ Len(sent) \in Nat
         /\ \A i \in 1..Len(sent) : sent[i] \in Part /\ sent[i].size \in Nat
         /\ sent # <<>> => Len(sent) \in 1..Len(sent)
         /\ FileParts \in SUBSET (1..Len(sent)) /\ FileParts \in SUBSET Nat
         /\ IsFiniteSet(FileParts) /\ IsFiniteSet(Finished)
         /\ stored \in Seq(Nat) /\ Len(stored) \in Nat
         /\ Sum(stored) \in Nat /\ Sum(Sizes(sent)) \in Nat
<1>1. sent \in Seq(Part) /\ stored \in Seq(Nat)
  BY DEF TypeOK, Part
<1>2. /\ DOMAIN sent = 1..Len(sent) /\ Len(sent) \in Nat /\ Len(stored) \in Nat
      /\ \A i \in 1..Len(sent) : sent[i] \in Part
  BY <1>1, SizesOfParts, LenProperties
<1>3. FileParts \in SUBSET (1..Len(sent)) /\ FileParts \in SUBSET Nat
  BY <1>2 DEF FileParts
<1>4. IsFiniteSet(FileParts) /\ IsFiniteSet(Finished)
  <2>1. IsFiniteSet(1..Len(sent))
    BY <1>2, FS_Interval
  <2>2. IsFiniteSet(FileParts)
    BY <1>3, <2>1, FS_Subset
  <2> QED
    BY <2>2, FS_Subset DEF Finished
<1>5. sent # <<>> => Len(sent) \in 1..Len(sent)
  BY <1>1, <1>2, EmptySeq
<1>6. Sum(stored) \in Nat /\ Sum(Sizes(sent)) \in Nat
  BY <1>1, SizesOfParts, SumType
<1>7. \A i \in 1..Len(sent) : sent[i].size \in Nat
  BY <1>2 DEF Part
<1> QED
  BY <1>1, <1>2, <1>3, <1>4, <1>5, <1>6, <1>7

(* Only the parser changes what was sent, counted and stored. *)
LEMMA FormIsUntouched ==
  ASSUME Inv, FormInv, UNCHANGED <<clientVars, parseVars>>,
         phase' = "preparing" => phase = "preparing" \/ step = "none"
  PROVE  PartInv' /\ CountInv'
<1>1. UNCHANGED <<length, wire, sent, step, total, counted, size, stored>>
  BY DEF clientVars, parseVars
<1>2. FileParts' = FileParts /\ Finished' = Finished /\ InFile' = InFile
      /\ \A i : Rank(i)' = Rank(i)
  BY <1>1 DEF FileParts, Finished, AtHand, InFile, Rank
<1>3. PartInv'
  BY <1>1, <1>2 DEF FormInv, PartInv
<1>4. Written' = Written
  BY <1>1 DEF Written
<1>5. step = "none" => Written <= total
  <2>1. step = "none" => stored = <<>> /\ total = 0
    BY DEF FormInv, PartInv
  <2> QED
    BY <2>1, NoBytes DEF Written
<1> QED
  BY <1>1, <1>3, <1>4, <1>5 DEF FormInv, CountInv, Known, WireLimit

(* next_field puts a new part behind the finished ones. *)
LEMMA NextPartKeeps == Inv /\ FormInv /\ NextPart => PartInv' /\ CountInv'
<1> SUFFICES ASSUME Inv, FormInv, NextPart PROVE PartInv' /\ CountInv'
  OBVIOUS
<1>0. /\ TypeOK /\ PartInv /\ CountInv
      /\ sent \in Seq(Part) /\ DOMAIN sent = 1..Len(sent) /\ Len(sent) \in Nat
      /\ \A i \in 1..Len(sent) : sent[i] \in Part
      /\ FileParts \in SUBSET (1..Len(sent)) /\ Sum(stored) \in Nat /\ Sum(Sizes(sent)) \in Nat
      /\ total \in Nat /\ wire \in Nat /\ counted \in Nat \cup {Unknown}
  BY FormFacts DEF Inv, FormInv, TypeOK
<1>1. PICK file \in BOOLEAN :
        /\ sent' = Append(sent, [file |-> file, size |-> 0])
        /\ step' = IF file THEN "creating" ELSE "data"
        /\ counted' = IF file THEN counted ELSE total
  BY DEF NextPart
<1>2. /\ phase = "preparing" /\ step = "parts" /\ size' = 0 /\ wire < WireLimit /\ Arrives(1)
      /\ UNCHANGED <<phase, length, total, stored>>
  BY DEF NextPart
<1>3. /\ Len(sent') = Len(sent) + 1 /\ DOMAIN sent' = 1..Len(sent) + 1
      /\ \A i \in 1..Len(sent) : sent'[i] = sent[i]
      /\ sent'[Len(sent) + 1].file = file /\ sent'[Len(sent) + 1].size = 0
  BY <1>0, <1>1
<1>4. Finished = FileParts /\ Finished' = FileParts
  <2>1. AtHand = {} /\ AtHand' = {Len(sent) + 1}
    BY <1>1, <1>2, <1>3 DEF AtHand
  <2>2. FileParts' \ {Len(sent) + 1} = FileParts
    BY <1>0, <1>3 DEF FileParts
  <2> QED
    BY <2>1, <2>2 DEF Finished
<1>5. ASSUME NEW i \in FileParts PROVE Rank(i)' = Rank(i)
  <2>1. {j \in FileParts' : j <= i} = {j \in FileParts : j <= i}
    BY <1>0, <1>3 DEF FileParts
  <2> QED
    BY <2>1 DEF Rank
<1>6. PartInv'
  <2>1. sent' # <<>>
    BY <1>0, <1>3, EmptySeq
  <2>2. Len(stored') = Cardinality(Finished')
    BY <1>0, <1>2, <1>4 DEF PartInv
  <2>3. \A i \in Finished' : stored'[Rank(i)'] = sent'[i].size
    BY <1>0, <1>2, <1>3, <1>4, <1>5 DEF PartInv
  <2> QED
    BY <1>1, <1>2, <1>3, <2>1, <2>2, <2>3 DEF PartInv, InFile
<1>7. Sum(Sizes(sent')) = Sum(Sizes(sent))
  <2>1. PICK part : part = [file |-> file, size |-> 0]
    OBVIOUS
  <2>2. part \in Part /\ part.size = 0
    BY <2>1 DEF Part
  <2>3. Sum(Sizes(Append(sent, part))) = Sum(Sizes(sent)) + 0
    BY <1>0, <2>2, PartAdds
  <2> QED
    BY <1>0, <1>1, <2>1, <2>3
<1>8. Written' = Sum(stored) /\ Written = Sum(stored)
  BY <1>0, <1>2 DEF Written
<1>9. wire' = wire + 1 /\ (length # Unknown => wire + 1 <= length)
  BY <1>2 DEF Arrives
<1>10. Known(counted') = total
  BY <1>0, <1>1, <1>2 DEF CountInv, Known, Unknown
<1>11. CountInv'
  BY <1>0, <1>1, <1>2, <1>7, <1>8, <1>9, <1>10, RequestAssumption DEF CountInv, WireLimit
<1> QED
  BY <1>6, <1>11

LEMMA CreateFileKeeps == Inv /\ FormInv /\ CreateFile => PartInv' /\ CountInv'
<1> SUFFICES ASSUME Inv, FormInv, CreateFile PROVE PartInv' /\ CountInv'
  OBVIOUS
<1>0. TypeOK /\ PartInv /\ CountInv
  BY DEF Inv, FormInv
<1>1. CASE UNCHANGED step
  BY <1>1, FormIsUntouched DEF CreateFile, parseVars
<1>2. CASE step' = "data" /\ UNCHANGED phase
  <2>1. /\ phase = "preparing" /\ step = "creating" /\ counted' = total
        /\ UNCHANGED <<length, wire, sent, total, size, stored>>
    BY <1>2 DEF CreateFile, clientVars
  <2>2. /\ FileParts' = FileParts /\ Finished' = Finished /\ InFile' = InFile
        /\ \A i : Rank(i)' = Rank(i)
    BY <1>2, <2>1 DEF FileParts, Finished, AtHand, InFile, Rank
  <2>3. size = sent[Len(sent)].size
    BY <1>0, <2>1 DEF PartInv
  <2>4. PartInv'
    BY <1>0, <1>2, <2>1, <2>2, <2>3 DEF PartInv
  <2>5. Written' = Written
    BY <1>0, <1>2, <2>1, FormFacts DEF Written, PartInv
  <2>6. total \in Nat /\ Known(counted') = total
    BY <1>0, <2>1 DEF TypeOK, Known, Unknown
  <2>7. CountInv'
    BY <1>0, <1>2, <2>1, <2>5, <2>6 DEF CountInv, WireLimit
  <2> QED
    BY <2>4, <2>7
<1> QED
  BY <1>1, <1>2 DEF CreateFile

(* field.chunk adds to the part at hand and to nothing else. *)
LEMMA ReadChunkKeeps == Inv /\ FormInv /\ ReadChunk => PartInv' /\ CountInv'
<1> SUFFICES ASSUME Inv, FormInv, ReadChunk PROVE PartInv' /\ CountInv'
  OBVIOUS
<1>0. /\ TypeOK /\ PartInv /\ CountInv
      /\ sent \in Seq(Part) /\ DOMAIN sent = 1..Len(sent) /\ Len(sent) \in Nat
      /\ FileParts \in SUBSET (1..Len(sent)) /\ Sum(stored) \in Nat /\ Sum(Sizes(sent)) \in Nat
      /\ total \in Nat /\ wire \in Nat /\ size \in Nat
  BY FormFacts DEF Inv, FormInv, TypeOK
<1>1. PICK n \in 1..MaxBytes + 1 :
        /\ Takes(n)
        /\ total' = total + n /\ counted' = total + n
        /\ \/ OverBudget(n) /\ phase' = "answering" /\ UNCHANGED size
           \/ /\ ~OverBudget(n) /\ UNCHANGED phase
              /\ size' = IF InFile THEN size + n ELSE size
           \/ ~OverBudget(n) /\ phase' = "answering" /\ UNCHANGED size
  BY DEF ReadChunk, UploadFails
<1>2. phase = "preparing" /\ step = "data" /\ UNCHANGED <<length, step, stored>>
  BY DEF ReadChunk
<1>3. /\ n \in Nat /\ wire' = wire + n /\ wire + n <= WireLimit
      /\ length # Unknown => wire + n <= length
      /\ sent' = [sent EXCEPT ![Len(sent)].size = @ + n]
  BY <1>1, RequestAssumption DEF Takes, Arrives
<1>4. PICK k : k = Len(sent)
  OBVIOUS
<1>5. k \in 1..Len(sent)
  BY <1>0, <1>2, <1>4, FormFacts DEF PartInv
<1>6. /\ Sum(Sizes(sent')) = Sum(Sizes(sent)) + n
      /\ sent' \in Seq(Part) /\ Len(sent') = Len(sent)
      /\ \A i \in 1..Len(sent) :
           /\ sent'[i].file = sent[i].file
           /\ sent'[i].size = IF i = k THEN sent[k].size + n ELSE sent[i].size
  <2>1. sent' = [sent EXCEPT ![k].size = @ + n]
    BY <1>3, <1>4
  <2>2. IsLonger(sent', sent, k, n)
    BY <1>0, <1>3, <1>5, <2>1, ChunkAdds, Zenon
  <2> QED
    BY <2>2 DEF IsLonger
<1>7. FileParts' = FileParts /\ Finished' = Finished /\ Finished = FileParts \ {k}
  <2>1. DOMAIN sent' = 1..Len(sent)
    BY <1>6, SizesOfParts
  <2>2. FileParts' = FileParts
    BY <1>0, <1>6, <2>1 DEF FileParts
  <2>3. AtHand = {k} /\ AtHand' = {k}
    BY <1>2, <1>4, <1>6 DEF AtHand
  <2> QED
    BY <2>2, <2>3 DEF Finished
<1>8. \A i : Rank(i)' = Rank(i)
  BY <1>7 DEF Rank
<1>9. InFile' = InFile
  BY <1>4, <1>5, <1>6 DEF InFile
<1>10. PartInv'
  <2>1. sent' # <<>>
    BY <1>5, <1>6, EmptySeq
  <2>2. Len(stored') = Cardinality(Finished')
    BY <1>0, <1>2, <1>7 DEF PartInv
  <2>3. \A i \in Finished' : stored'[Rank(i)'] = sent'[i].size
    BY <1>0, <1>2, <1>6, <1>7, <1>8 DEF PartInv
  <2>4. phase' = "preparing" /\ InFile' => size' = sent'[k].size
    BY <1>0, <1>1, <1>2, <1>4, <1>5, <1>6, <1>9 DEF PartInv
  <2> QED
    BY <1>2, <1>4, <1>6, <2>1, <2>2, <2>3, <2>4 DEF PartInv
<1>11. Written' = Sum(stored) + size' /\ Written = Sum(stored) + size
  BY <1>2 DEF Written
<1>12. /\ Written' <= MaxBytes
       /\ phase' = "preparing" => Written' <= total'
  <2>1. Written <= MaxBytes /\ Written <= total
    BY <1>0, <1>2 DEF CountInv
  <2>2. Sum(stored) \in Nat /\ size \in Nat /\ total \in Nat /\ MaxBytes \in Nat
    BY <1>0, RequestAssumption
  <2>3. CASE size' = size
    BY <1>1, <1>3, <1>11, <2>1, <2>2, <2>3
  <2>4. CASE size' = size + n /\ ~OverBudget(n)
    <3>1. total + n <= MaxBytes
      BY <1>3, <2>2, <2>4 DEF OverBudget
    <3> QED
      BY <1>1, <1>3, <1>11, <2>1, <2>2, <2>4, <3>1
  <2> QED
    BY <1>1, <2>3, <2>4
<1>13. Known(counted') = total + n
  BY <1>0, <1>1, <1>3 DEF Known, Unknown
<1>14. CountInv'
  BY <1>0, <1>1, <1>2, <1>3, <1>6, <1>12, <1>13 DEF CountInv, WireLimit
<1> QED
  BY <1>10, <1>14

(* A file that ends takes the last rank, as no other file ends after it. *)
LEMMA EndPartKeeps == Inv /\ FormInv /\ EndPart => PartInv' /\ CountInv'
<1> SUFFICES ASSUME Inv, FormInv, EndPart PROVE PartInv' /\ CountInv'
  OBVIOUS
<1>0. /\ TypeOK /\ PartInv /\ CountInv
      /\ sent \in Seq(Part) /\ DOMAIN sent = 1..Len(sent) /\ Len(sent) \in Nat
      /\ \A i \in 1..Len(sent) : sent[i].size \in Nat
      /\ FileParts \in SUBSET (1..Len(sent)) /\ FileParts \in SUBSET Nat
      /\ IsFiniteSet(FileParts) /\ IsFiniteSet(Finished)
      /\ stored \in Seq(Nat) /\ Len(stored) \in Nat
      /\ Sum(stored) \in Nat /\ total \in Nat /\ size \in Nat
  BY FormFacts DEF Inv, FormInv, TypeOK
<1>1. CASE UNCHANGED <<step, stored>>
  BY <1>1, FormIsUntouched DEF EndPart, parseVars
<1>2. CASE step' = "parts" /\ stored' = IF InFile THEN Append(stored, size) ELSE stored
  <2>1. /\ phase = "preparing" /\ step = "data"
        /\ UNCHANGED <<length, wire, sent, total, counted, size>>
    BY DEF EndPart, clientVars
  <2>2. PICK k : k = Len(sent)
    OBVIOUS
  <2>3. k \in 1..Len(sent)
    BY <1>0, <2>1, <2>2, FormFacts DEF PartInv
  <2>4. FileParts' = FileParts /\ Finished' = FileParts /\ Finished = FileParts \ {k}
    BY <1>2, <2>1, <2>2 DEF FileParts, Finished, AtHand
  <2>5. \A i : Rank(i)' = Rank(i)
    BY <2>4 DEF Rank
  <2>6. InFile <=> k \in FileParts
    BY <1>0, <2>2, <2>3 DEF InFile, FileParts
  <2>7. CASE InFile
    <3>0. k \in Nat /\ \A j \in FileParts : j \in Nat /\ j <= k
      BY <1>0, <2>2
    <3>1. stored' = Append(stored, size)
      BY <1>2, <2>7
    <3>2. /\ Len(stored') = Len(stored) + 1 /\ stored'[Len(stored) + 1] = size
          /\ \A i \in 1..Len(stored) : stored'[i] = stored[i]
      BY <1>0, <3>1
    <3>3. Cardinality(FileParts) = Len(stored) + 1
      <4>1. Cardinality(FileParts) \in Nat
        BY <1>0, FS_CardinalityType
      <4>2. Cardinality(FileParts \ {k}) = Cardinality(FileParts) - 1
        BY <1>0, <2>6, <2>7, FS_RemoveElement
      <4> QED
        BY <1>0, <2>4, <4>1, <4>2 DEF PartInv
    <3>4. ASSUME NEW i \in FileParts PROVE stored'[Rank(i)] = sent[i].size
      <4>1. CASE i = k
        <5>1. {j \in FileParts : j <= i} = FileParts
          BY <3>0, <4>1
        <5>2. Rank(i) = Len(stored) + 1
          BY <3>3, <5>1 DEF Rank
        <5> QED
          BY <1>0, <2>1, <2>2, <2>7, <3>2, <4>1, <5>2 DEF PartInv
      <4>2. CASE i # k
        <5>1. i \in Finished /\ Finished \in SUBSET Nat
          BY <1>0, <2>4, <4>2
        <5>2. {j \in FileParts : j <= i} = {j \in Finished : j <= i}
          BY <2>4, <3>0, <4>2
        <5>3. Cardinality({j \in Finished : j <= i}) \in 1..Cardinality(Finished)
          BY <1>0, <5>1, RankInside
        <5>4. Rank(i) \in 1..Len(stored)
          BY <1>0, <5>2, <5>3 DEF Rank, PartInv
        <5> QED
          BY <1>0, <3>2, <5>1, <5>4 DEF PartInv
      <4> QED
        BY <4>1, <4>2
    <3>5. PartInv'
      BY <1>2, <2>1, <2>4, <2>5, <3>2, <3>3, <3>4 DEF PartInv
    <3>6. Sum(stored') = Sum(stored) + size
      BY <1>0, <3>1, AppendSum
    <3>7. Written' = Written
      BY <1>0, <1>2, <2>1, <3>6 DEF Written
    <3> QED
      BY <1>0, <1>2, <2>1, <3>5, <3>7 DEF CountInv, Known, WireLimit
  <2>8. CASE ~InFile
    <3>1. UNCHANGED stored /\ Finished' = Finished
      BY <1>2, <2>4, <2>6, <2>8
    <3>2. PartInv'
      BY <1>0, <1>2, <2>1, <2>5, <3>1 DEF PartInv
    <3>3. Written' <= Written
      BY <1>0, <1>2, <2>1, <3>1 DEF Written
    <3>4. Written' \in Nat /\ Written \in Nat
      BY <1>0, <1>2, <2>1, <3>1 DEF Written
    <3> QED
      BY <1>0, <1>2, <2>1, <3>2, <3>3, <3>4, RequestAssumption DEF CountInv, Known, WireLimit
  <2> QED
    BY <2>7, <2>8
<1> QED
  BY <1>1, <1>2 DEF EndPart

LEMMA FormPart == Inv /\ FormInv /\ [Next]_vars => PartInv' /\ CountInv'
<1> SUFFICES ASSUME Inv, FormInv, [Next]_vars PROVE PartInv' /\ CountInv'
  OBVIOUS
<1>0. /\ PartInv /\ CountInv /\ wire \in Nat /\ total \in Nat
      /\ length \in Nat \cup {Unknown}
  BY RequestAssumption DEF Inv, FormInv, TypeOK
<1> DEFINE Same == /\ FileParts' = FileParts /\ Finished' = Finished /\ InFile' = InFile
                   /\ \A i : Rank(i)' = Rank(i)
<1>1. UNCHANGED sent /\ AtHand' = AtHand => Same
  BY DEF FileParts, Finished, InFile, Rank
<1>2. CASE BufferBody
  <2>1. step = "none" /\ phase' # "preparing" /\ UNCHANGED <<length, sent, total, size, stored>>
    BY <1>2 DEF BufferBody
  <2>2. \/ UNCHANGED <<wire, step, counted>>
        \/ \E n \in 0..BodyLimit : /\ length \in {Unknown, n} /\ wire' = n
                                   /\ step' = "buffered"
    BY <1>2 DEF BufferBody
  <2>3. Same
    BY <1>1, <2>1, <2>2 DEF AtHand
  <2>4. PartInv'
    BY <1>0, <2>1, <2>2, <2>3 DEF PartInv
  <2>5. Written' = Written
    BY <2>1, <2>2 DEF Written
  <2>6. wire' \in Nat /\ (length # Unknown => wire' <= length)
    BY <1>0, <2>2, RequestAssumption DEF CountInv
  <2>7. total = 0
    BY <1>0, <2>1 DEF PartInv
  <2>8. CountInv'
    BY <1>0, <2>1, <2>2, <2>5, <2>6, <2>7 DEF CountInv, Known
  <2> QED
    BY <2>4, <2>8
<1>3. CASE BeginUpload
  <2>1. /\ step = "none" /\ step' \in {"none", "parts"}
        /\ UNCHANGED <<length, wire, sent, total, counted, size, stored>>
    BY <1>3 DEF BeginUpload, clientVars
  <2>2. Same
    BY <1>1, <2>1 DEF AtHand
  <2>3. PartInv'
    BY <1>0, <2>1, <2>2 DEF PartInv
  <2>4. Written' = Written /\ Written = Sum(stored) + 0 /\ stored = <<>> /\ Sum(stored) = 0
    BY <1>0, <2>1, NoBytes DEF Written, PartInv
  <2>5. wire <= WireLimit
    BY <1>0, <2>1, RequestAssumption DEF CountInv, WireLimit
  <2>6. CountInv'
    BY <1>0, <2>1, <2>4, <2>5 DEF CountInv, Known, WireLimit
  <2> QED
    BY <2>3, <2>6
<1>4. CASE FormFails
  <2>1. /\ phase = "preparing" /\ phase' = "answering" /\ step \in {"parts", "data"}
        /\ UNCHANGED <<length, sent, step, total, counted, size, stored>>
        /\ wire' = wire \/ (length = Unknown /\ wire' = WireLimit + 1)
    BY <1>4 DEF FormFails, UploadFails, parseVars
  <2>2. Same
    BY <1>1, <2>1 DEF AtHand
  <2>3. PartInv'
    BY <1>0, <2>1, <2>2 DEF PartInv
  <2>4. Written' = Written
    BY <2>1 DEF Written
  <2>5. total <= wire' /\ (length # Unknown => wire' <= length)
    BY <1>0, <2>1, RequestAssumption DEF CountInv, WireLimit
  <2>6. CountInv'
    BY <1>0, <2>1, <2>4, <2>5 DEF CountInv, Known
  <2> QED
    BY <2>3, <2>6
<1>5. CASE EndForm
  <2>1. /\ phase = "preparing" /\ phase' = "running" /\ step = "parts" /\ step' = "stored"
        /\ UNCHANGED <<length, wire, sent, total, counted, size, stored>>
    BY <1>5 DEF EndForm, clientVars
  <2>2. Same
    BY <1>1, <2>1 DEF AtHand
  <2>3. PartInv'
    BY <1>0, <2>1, <2>2 DEF PartInv
  <2>4. Written' = Written /\ total <= MaxBytes
    BY <2>1 DEF Written, Inv, DataInv
  <2>5. CountInv'
    BY <1>0, <2>1, <2>4 DEF CountInv, Known
  <2> QED
    BY <2>3, <2>5
<1>6. CASE RouteRequest \/ Deadline \/ BeginCall \/ HostCall \/ RunFails \/ RunResponds \/ RunStreams
           \/ LogAnswer \/ ClientLeaves
  <2>1. UNCHANGED <<clientVars, parseVars>>
    BY <1>6
    DEF RouteRequest, Deadline, BeginCall, HostCall, EndCall, OrphanReturns, RunFails, RunResponds,
        RunStreams, LogAnswer, ClientLeaves
  <2>2. phase' = "preparing" => phase = "preparing" \/ step = "none"
    BY <1>6
    DEF RouteRequest, Deadline, BeginCall, HostCall, EndCall, OrphanReturns, RunFails, RunResponds,
        RunStreams, LogAnswer, ClientLeaves, Inv, DirInv
  <2> QED
    BY <2>1, <2>2, FormIsUntouched
<1>7. CASE Relaying \/ CreateLands \/ Cleanup \/ Stopped \/ UNCHANGED vars
  <2>1. UNCHANGED <<clientVars, parseVars>> /\ phase' = phase
    BY <1>7
    DEF Relaying, CreateLands, Cleanup, SweepDirectory, RemoveDirectory, Stopped, vars
  <2> QED
    BY <2>1, FormIsUntouched
<1> QED
  BY <1>2, <1>3, <1>4, <1>5, <1>6, <1>7, NextPartKeeps, CreateFileKeeps, ReadChunkKeeps,
     EndPartKeeps
  DEF Next, ReadBody

LEMMA DiskPart == Inv /\ FormInv /\ [Next]_vars => DiskInv'
<1> SUFFICES ASSUME Inv, FormInv, [Next]_vars PROVE DiskInv'
  OBVIOUS
<1>0. /\ PartInv /\ DiskInv /\ DirInv /\ LateInv /\ Len(stored) \in Nat /\ onDisk \in Nat
      /\ sent \in Seq(Part) /\ Len(sent) \in Nat
  BY FormFacts DEF Inv, FormInv, TypeOK
<1>1. stored = <<>> => Len(stored) = 0
  BY NothingSent
<1>2. CASE RouteRequest \/ BufferBody \/ BeginUpload
  <2>1. /\ UNCHANGED <<sent, stored, onDisk>> /\ step = "none"
        /\ step' \in {"none", "buffered", "parts"}
    BY <1>0, <1>2 DEF RouteRequest, BufferBody, BeginUpload, clientVars, parseVars, diskVars, DirInv
  <2>2. stored = <<>> /\ onDisk = 0
    BY <1>0, <2>1 DEF PartInv, DiskInv
  <2> QED
    BY <1>1, <2>1, <2>2 DEF DiskInv
<1>3. CASE FormFails \/ Deadline
  <2>1. /\ UNCHANGED <<step, stored, onDisk>> /\ phase = "preparing" /\ phase' = "answering"
    BY <1>3 DEF FormFails, Deadline, UploadFails, parseVars
  <2> QED
    BY <1>0, <2>1 DEF DiskInv, DirInv
<1>4. CASE NextPart
  <2>1. PICK file \in BOOLEAN :
          /\ sent' = Append(sent, [file |-> file, size |-> 0])
          /\ step' = IF file THEN "creating" ELSE "data"
    BY <1>4 DEF NextPart
  <2>2. phase = "preparing" /\ step = "parts" /\ UNCHANGED <<phase, stored, onDisk>>
    BY <1>4 DEF NextPart, diskVars
  <2>3. InFile' <=> file
    BY <1>0, <2>1 DEF InFile
  <2> QED
    BY <1>0, <2>1, <2>2, <2>3 DEF DiskInv
<1>5. CASE CreateFile
  <2>1. phase = "preparing" /\ step = "creating" /\ UNCHANGED <<sent, stored>> /\ InFile
    BY <1>0, <1>5 DEF CreateFile, clientVars, PartInv
  <2>2. InFile'
    BY <2>1 DEF InFile
  <2> QED
    BY <1>0, <1>5, <2>1, <2>2 DEF CreateFile, UploadFails, DiskInv
<1>6. CASE ReadChunk
  <2>1. /\ phase = "preparing" /\ step = "data" /\ phase' \in {"preparing", "answering"}
        /\ UNCHANGED <<step, stored, onDisk>>
    BY <1>6 DEF ReadChunk, UploadFails
  <2>2. PICK n \in 1..MaxBytes + 1 : Takes(n)
    BY <1>6 DEF ReadChunk
  <2>3. PICK k : k = Len(sent)
    OBVIOUS
  <2>4. k \in 1..Len(sent) /\ n \in Nat
    BY <1>0, <2>1, <2>3, FormFacts, RequestAssumption DEF PartInv, Inv
  <2>5. IsLonger(sent', sent, k, n)
    <3>1. sent' = [sent EXCEPT ![k].size = @ + n]
      BY <2>2, <2>3 DEF Takes
    <3> QED
      BY <1>0, <2>4, <3>1, ChunkAdds, Zenon
  <2>6. InFile' = InFile
    BY <2>3, <2>4, <2>5 DEF InFile, IsLonger
  <2> QED
    BY <1>0, <2>1, <2>6 DEF DiskInv
<1>7. CASE EndPart
  <2>1. /\ phase = "preparing" /\ step = "data" /\ UNCHANGED <<sent, onDisk>>
        /\ \/ /\ step' = "parts" /\ phase' = "preparing"
              /\ stored' = IF InFile THEN Append(stored, size) ELSE stored
           \/ phase' = "answering" /\ step' = "data" /\ UNCHANGED stored
    BY <1>7 DEF EndPart, UploadFails, clientVars
  <2>2. InFile /\ step' = "parts" => Len(stored') = Len(stored) + 1
    <3>1. stored \in Seq(Nat) /\ size \in Nat
      BY DEF Inv, TypeOK
    <3> QED
      BY <2>1, <3>1
  <2> QED
    BY <1>0, <2>1, <2>2 DEF DiskInv
<1>8. CASE EndForm
  BY <1>0, <1>8 DEF EndForm, DiskInv
<1>9. CASE BeginCall \/ HostCall \/ RunFails \/ RunResponds \/ RunStreams \/ LogAnswer \/ ClientLeaves
  <2>1. UNCHANGED <<step, stored, onDisk>> /\ phase' \notin {"routing", "preparing"}
    <3>1. UNCHANGED <<step, stored, onDisk>> /\ (phase' = phase \/ phase' \notin {"routing", "preparing"})
      BY <1>9
      DEF BeginCall, HostCall, EndCall, OrphanReturns, RunFails, RunResponds, RunStreams, LogAnswer,
          ClientLeaves, parseVars, diskVars
    <3>2. phase \in {"routing", "preparing"} => inCall = 0
      BY DEF Inv, CallInv
    <3> QED
      BY <1>9, <3>1, <3>2
      DEF BeginCall, HostCall, EndCall, OrphanReturns, RunFails, RunResponds, RunStreams, LogAnswer,
          ClientLeaves
  <2> QED
    BY <1>0, <2>1 DEF DiskInv
<1>10. CASE SweepDirectory
  <2>1. UNCHANGED <<phase, sent, step, stored>> /\ dir = "dropping" /\ onDisk' = 0
    BY <1>10 DEF SweepDirectory, clientVars, parseVars
  <2>2. phase \notin {"routing", "preparing"}
    BY <1>0, <2>1 DEF DirInv, Without
  <2> QED
    BY <2>1, <2>2 DEF DiskInv
<1>11. CASE CreateLands
  <2>1. /\ UNCHANGED <<phase, step, stored>> /\ step = "creating"
        /\ phase \notin {"routing", "preparing"}
    BY <1>0, <1>11 DEF CreateLands, parseVars, LateInv
  <2> QED
    BY <2>1 DEF DiskInv
<1>12. CASE Relaying \/ RemoveDirectory \/ Stopped \/ UNCHANGED vars
  <2>1. UNCHANGED <<phase, sent, step, stored, onDisk>>
    BY <1>12
    DEF Relaying, RemoveDirectory, Stopped, vars, clientVars, parseVars, diskVars
  <2>2. InFile' = InFile
    BY <2>1 DEF InFile
  <2> QED
    BY <1>0, <2>1, <2>2 DEF DiskInv
<1> QED
  BY <1>2, <1>3, <1>4, <1>5, <1>6, <1>7, <1>8, <1>9, <1>10, <1>11, <1>12
  DEF Next, ReadBody, Cleanup

(* What every answer of a request owes to the line: the counts of the form *)
(* as it is then, or none, and a reason for 413.                           *)
AnswerFits ==
  /\ answer.upload.files \in Nat /\ answer.upload.files <= Len(stored)
  /\ step = "stored" => answer.upload.files = Len(stored)
  /\ answer.error # "request_timeout" => answer.upload.total = total
  /\ answer.error = "upload_too_large" =>
       length > WireLimit \/ wire > WireLimit \/ answer.upload.total > MaxBytes
  /\ answer.bytes = Unknown \/ answer.upload.total <= answer.bytes

LEMMA FitsIsTrue == TypeOK /\ PartInv /\ CountInv /\ AnswerFits => UploadLogIsTruthful
<1> SUFFICES ASSUME TypeOK, PartInv, CountInv, AnswerFits PROVE UploadLogIsTruthful
  OBVIOUS
<1>1. IsFiniteSet(FileParts) /\ Finished \in SUBSET FileParts /\ Len(stored) \in Nat
  BY FormFacts DEF Finished
<1>2. Cardinality(Finished) <= Cardinality(FileParts) /\ Cardinality(FileParts) \in Nat
  BY <1>1, FS_Subset, FS_CardinalityType
<1>3. Len(stored) = Cardinality(Finished)
  BY DEF PartInv
<1>4. step = "stored" => Finished = FileParts
  BY DEF Finished, AtHand
<1>5. /\ answer.upload.files <= Cardinality(FileParts)
      /\ step = "stored" => answer.upload.files = Cardinality(FileParts)
  BY <1>1, <1>2, <1>3, <1>4 DEF AnswerFits
<1> QED
  BY <1>5 DEF AnswerFits, UploadLogIsTruthful, CountInv

LEMMA FitsStaysTrue == TypeOK' /\ PartInv' /\ CountInv' /\ AnswerFits' => UploadLogIsTruthful'
  BY FitsIsTrue, PTL

(* What is counted is no more than the body that is logged. *)
LEMMA CountIsInBody ==
  ASSUME Inv, FormInv
  PROVE  /\ Known(counted) = total \/ step = "buffered"
         /\ LET logs == BodyBytes(counted) IN logs = Unknown \/ total <= logs
<1>1. /\ total \in Nat /\ wire \in Nat /\ counted \in Nat \cup {Unknown}
      /\ length \in Nat \cup {Unknown}
  BY RequestAssumption DEF Inv, TypeOK
<1>2. step = "buffered" => total = 0
  BY DEF FormInv, PartInv
<1> QED
  BY <1>1, <1>2 DEF FormInv, CountInv, Known, BodyBytes, Unknown

LEMMA AnswerPart == Inv /\ FormInv /\ [Next]_vars => AnswerInv'
<1> SUFFICES ASSUME Inv, FormInv, [Next]_vars PROVE AnswerInv'
  OBVIOUS
<1>0. /\ TypeOK' /\ PartInv' /\ CountInv' /\ AnswerInv /\ CountInv /\ PartInv
      /\ total \in Nat /\ length \in Nat \cup {Unknown} /\ Len(stored) \in Nat
  BY TypePart, FormPart, FormFacts, RequestAssumption DEF Inv, FormInv, TypeOK
<1> DEFINE Kept == UNCHANGED <<answer, length, wire, sent, step>>
<1>1. Kept => UploadLogIsTruthful'
  <2> SUFFICES ASSUME Kept PROVE UploadLogIsTruthful'
    OBVIOUS
  <2>1. FileParts' = FileParts
    BY DEF FileParts
  <2> QED
    BY <1>0, <2>1 DEF AnswerInv, UploadLogIsTruthful
<1>2. answer.status = 0 /\ UNCHANGED answer => UploadLogIsTruthful'
  BY DEF UploadLogIsTruthful
<1>3. CASE phase \in {"routing", "preparing", "running"} /\ UNCHANGED answer
  <2>1. answer.status = 0
    BY <1>0, <1>3 DEF AnswerInv
  <2> QED
    BY <1>2, <1>3, <2>1 DEF AnswerInv
<1>4. AnswerFits' => UploadLogIsTruthful'
  BY <1>0, FitsStaysTrue
<1>5. ASSUME phase = "preparing", phase' = "answering", UNCHANGED <<length, stored, step>>,
             NEW error \in {"invalid_multipart", "upload_too_large", "upload_io_error"},
             UploadFails(error, Len(stored), counted'),
             error = "upload_too_large" =>
               length > WireLimit \/ wire' > WireLimit \/ total' > MaxBytes
      PROVE  AnswerInv'
  <2>1. answer' = [status |-> StatusOf(error), error |-> error, bytes |-> BodyBytes(counted'),
                   upload |-> [files |-> Len(stored), total |-> Known(counted')]]
    BY <1>5 DEF UploadFails, Answer
  <2>2. /\ answer'.error = error /\ answer'.bytes = BodyBytes(counted')
        /\ answer'.upload.files = Len(stored) /\ answer'.upload.total = Known(counted')
    BY <2>1
  <2>3. step' \notin {"stored", "buffered"} /\ Known(counted') = total'
    BY <1>0, <1>5 DEF Inv, DirInv, CountInv
  <2>4. BodyBytes(counted') = Unknown \/ total' <= BodyBytes(counted')
    <3>1. /\ total' \in Nat /\ wire' \in Nat /\ counted' \in Nat \cup {Unknown}
      BY <1>0 DEF TypeOK
    <3> QED
      BY <1>0, <1>5, <2>3, <3>1 DEF CountInv, Known, BodyBytes, Unknown
  <2>5. AnswerFits'
    BY <1>0, <1>5, <2>2, <2>3, <2>4 DEF AnswerFits
  <2> QED
    BY <1>4, <1>5, <2>5 DEF AnswerInv
<1>6. ASSUME phase' \notin {"routing", "preparing", "running"}, UNCHANGED <<stored, step, total>>,
             NEW status, NEW error, error # "upload_too_large", NEW n,
             Answer(status, error, n, Len(stored), total), n = Unknown \/ total <= n
      PROVE  AnswerInv'
  <2>1. answer' = [status |-> status, error |-> error, bytes |-> n,
                   upload |-> [files |-> Len(stored), total |-> total]]
    BY <1>6 DEF Answer
  <2>2. AnswerFits'
    BY <1>0, <1>6, <2>1 DEF AnswerFits
  <2> QED
    BY <1>4, <1>6, <2>2 DEF AnswerInv
<1>7. CASE RouteRequest \/ BufferBody
  <2>1. CASE UNCHANGED answer
    BY <1>3, <1>7, <2>1 DEF RouteRequest, BufferBody
  <2>2. CASE ~UNCHANGED answer
    <3>1. /\ UNCHANGED <<stored, step, total>> /\ phase' = "answering" /\ step = "none"
          /\ \/ Answer(404, "not_found", Unknown, 0, 0)
             \/ Answer(413, "request_body_too_large", length, 0, 0)
      BY <1>7, <2>2 DEF RouteRequest, BufferBody, parseVars, Inv, DirInv
    <3>2. Len(stored) = 0 /\ total = 0
      BY <1>0, <3>1, NothingSent DEF PartInv
    <3>3. length = Unknown \/ 0 <= length
      BY <1>0
    <3> QED
      BY <1>6, <3>1, <3>2, <3>3
  <2> QED
    BY <2>1, <2>2
<1>8. CASE BeginUpload
  <2>1. CASE UNCHANGED answer
    BY <1>3, <1>8, <2>1 DEF BeginUpload
  <2>2. CASE ~UNCHANGED answer
    <3>1. /\ phase = "preparing" /\ step = "none" /\ UNCHANGED <<length, stored, step, counted>>
          /\ phase' = "answering"
      BY <1>8, <2>2 DEF BeginUpload, UploadFails, clientVars
    <3>2. Len(stored) = 0 /\ counted' = Unknown
      BY <1>0, <3>1, NothingSent DEF PartInv, CountInv
    <3>3. \/ UploadFails("upload_too_large", 0, Unknown) /\ length > WireLimit
          \/ UploadFails("upload_io_error", 0, Unknown)
      BY <1>8, <2>2 DEF BeginUpload
    <3> QED
      BY <1>5, <3>1, <3>2, <3>3
  <2> QED
    BY <2>1, <2>2
<1>9. CASE FormFails
  <2>1. /\ phase = "preparing" /\ UNCHANGED <<length, stored, step, counted>>
        /\ \/ UploadFails("invalid_multipart", Len(stored), counted)
           \/ UploadFails("upload_too_large", Len(stored), counted) /\ wire' = WireLimit + 1
    BY <1>9 DEF FormFails, parseVars
  <2>2. phase' = "answering" /\ WireLimit + 1 > WireLimit
    BY <2>1, RequestAssumption DEF UploadFails, WireLimit
  <2> QED
    BY <1>5, <2>1, <2>2
<1>10. CASE CreateFile
  <2>1. CASE UNCHANGED answer
    BY <1>3, <1>10, <2>1 DEF CreateFile
  <2>2. CASE ~UNCHANGED answer
    <3>1. /\ phase = "preparing" /\ UNCHANGED <<length, stored, step, counted>>
          /\ UploadFails("upload_io_error", Len(stored), counted)
      BY <1>10, <2>2 DEF CreateFile, clientVars
    <3>2. phase' = "answering"
      BY <3>1 DEF UploadFails
    <3> QED
      BY <1>5, <3>1, <3>2
  <2> QED
    BY <2>1, <2>2
<1>11. CASE ReadChunk
  <2>1. CASE UNCHANGED answer
    BY <1>3, <1>11, <2>1 DEF ReadChunk
  <2>2. CASE ~UNCHANGED answer
    <3>1. PICK n \in 1..MaxBytes + 1 :
            /\ total' = total + n /\ counted' = total + n
            /\ \/ OverBudget(n) /\ UploadFails("upload_too_large", Len(stored), total')
               \/ UploadFails("upload_io_error", Len(stored), total')
      BY <1>11, <2>2 DEF ReadChunk
    <3>2. phase = "preparing" /\ UNCHANGED <<length, stored, step>> /\ phase' = "answering"
      BY <1>11, <3>1 DEF ReadChunk, UploadFails
    <3>3. OverBudget(n) => total' > MaxBytes
      BY <1>0, <3>1, RequestAssumption DEF OverBudget
    <3>4. total' = counted'
      BY <3>1
    <3> QED
      BY <1>5, <3>1, <3>2, <3>3, <3>4
  <2> QED
    BY <2>1, <2>2
<1>12. CASE EndPart
  <2>1. CASE UNCHANGED answer
    BY <1>3, <1>12, <2>1 DEF EndPart
  <2>2. CASE ~UNCHANGED answer
    <3>1. /\ phase = "preparing" /\ UNCHANGED <<length, stored, step, counted>>
          /\ UploadFails("upload_io_error", Len(stored), counted)
      BY <1>12, <2>2 DEF EndPart, clientVars
    <3>2. phase' = "answering"
      BY <3>1 DEF UploadFails
    <3> QED
      BY <1>5, <3>1, <3>2
  <2> QED
    BY <2>1, <2>2
<1>13. CASE Deadline
  <2>1. /\ phase = "preparing" /\ phase' = "answering" /\ UNCHANGED <<length, stored, step>>
        /\ answer' = [status |-> 408, error |-> "request_timeout", bytes |-> length,
                      upload |-> [files |-> 0, total |-> 0]]
    BY <1>13 DEF Deadline, Answer, clientVars, parseVars
  <2>2. step # "stored"
    BY <2>1 DEF Inv, DirInv
  <2>3. AnswerFits'
    BY <1>0, <2>1, <2>2 DEF AnswerFits
  <2> QED
    BY <1>4, <2>1, <2>3 DEF AnswerInv
<1>14. CASE NextPart \/ EndForm \/ BeginCall \/ EndCall \/ ClientLeaves
  BY <1>3, <1>14 DEF NextPart, EndForm, BeginCall, EndCall, ClientLeaves, answerVars
<1>15. CASE RunFails \/ RunResponds \/ RunStreams
  <2>1. CASE UNCHANGED answer
    BY <1>3, <1>15, <2>1 DEF RunFails, RunResponds, RunStreams
  <2>2. CASE ~UNCHANGED answer
    <3>1. /\ UNCHANGED <<stored, step, total>> /\ phase' = "answering"
          /\ \/ Answer(500, "script_error", RequestBytes, Len(stored), total)
             \/ Answer(200, "", RequestBytes, Len(stored), total)
             \/ Answer(416, "", RequestBytes, Len(stored), total)
      BY <1>15, <2>2 DEF RunFails, RunResponds, RunStreams, parseVars
    <3>2. RequestBytes = Unknown \/ total <= RequestBytes
      BY CountIsInBody DEF RequestBytes
    <3> QED
      BY <1>6, <3>1, <3>2
  <2> QED
    BY <2>1, <2>2
<1>16. CASE OrphanReturns \/ Relaying \/ LogAnswer \/ CreateLands \/ Cleanup \/ Stopped
            \/ UNCHANGED vars
  <2>1. Kept /\ (phase' = phase \/ phase' = "answered")
    BY <1>16
    DEF OrphanReturns, Relaying, LogAnswer, CreateLands, Cleanup, SweepDirectory, RemoveDirectory,
        Stopped, vars, clientVars, parseVars, answerVars
  <2> QED
    BY <1>0, <1>1, <2>1 DEF AnswerInv
<1> QED
  BY <1>7, <1>8, <1>9, <1>10, <1>11, <1>12, <1>13, <1>14, <1>15, <1>16
  DEF Next, ReadBody, HostCall

LEMMA FormInit == Init => FormInv
<1> SUFFICES ASSUME Init PROVE FormInv
  OBVIOUS
<1>1. sent = <<>> /\ stored = <<>> /\ step = "none" /\ total = 0 /\ wire = 0 /\ onDisk = 0
      /\ counted = Unknown /\ answer = NoAnswer /\ phase = "routing" /\ size = 0
      /\ length \in Nat \cup {Unknown}
  BY RequestAssumption DEF Init
<1>2. Len(stored) = 0 /\ DOMAIN sent = {}
  BY <1>1, NothingSent
<1>3. Finished = {} /\ Cardinality(Finished) = 0
  BY <1>1, <1>2, FS_EmptySet DEF Finished, FileParts
<1>4. PartInv
  BY <1>1, <1>2, <1>3 DEF PartInv
<1>5. Sum(stored) = 0 /\ Sum(Sizes(sent)) = 0
  <2>1. Sizes(sent) = <<>>
    BY <1>1, <1>2 DEF Sizes
  <2> QED
    BY <1>1, <2>1, NoBytes
<1>6. CountInv
  BY <1>1, <1>5, RequestAssumption DEF CountInv, Written, Known, Unknown
<1>7. DiskInv
  BY <1>1, <1>2 DEF DiskInv
<1>8. answer.status = 0
  BY <1>1 DEF NoAnswer
<1>9. AnswerInv
  BY <1>8 DEF AnswerInv, UploadLogIsTruthful
<1> QED
  BY <1>4, <1>6, <1>7, <1>9 DEF FormInv

LEMMA FormHolds == Spec => [](Inv /\ FormInv)
<1>1. Init => Inv /\ FormInv
  BY InitKeeps, FormInit
<1>2. Inv /\ FormInv /\ [Next]_vars => (Inv /\ FormInv)'
  BY StepKeeps, FormPart, DiskPart, AnswerPart DEF FormInv
<1> QED
  BY <1>1, <1>2, PTL DEF Spec

(***************************************************************************)
(* A script gets the uploads that were sent, file by file, or none; and no *)
(* more than the budget of the request is ever written, for forms of any   *)
(* number of parts cut into chunks in any way.                             *)
(***************************************************************************)
THEOREM UploadsWhole == Spec => []UploadsAreWhole
<1>1. Inv /\ FormInv => UploadsAreWhole
  <2> SUFFICES ASSUME Inv, FormInv PROVE UploadsAreWhole
    OBVIOUS
  <2>1. step = "stored" => Finished = FileParts
    BY DEF Finished, AtHand
  <2>2. step = "stored" =>
          /\ Len(stored) = Cardinality(FileParts)
          /\ \A i \in FileParts : stored[Rank(i)] = sent[i].size
    BY <2>1 DEF FormInv, PartInv
  <2>3. step = "stored" => total = Sum(Sizes(sent)) /\ total <= MaxBytes
    BY DEF FormInv, CountInv
  <2> QED
    BY <2>2, <2>3 DEF UploadsAreWhole, FormInv, CountInv, DiskInv, Written
<1> QED
  BY <1>1, FormHolds, PTL

(* What a line says of uploads is what the client sent of them, and 413    *)
(* upload_too_large means that there was too much.                         *)
THEOREM UploadLogTruthful == Spec => []UploadLogIsTruthful
<1>1. FormInv => UploadLogIsTruthful
  BY DEF FormInv, AnswerInv
<1> QED
  BY <1>1, FormHolds, PTL

----------------------------------------------------------------------------
(***************************************************************************)
(* What RequestEnds rests on, apart from fairness.                         *)
(***************************************************************************)

(* Once no future has the request, a host call alone may keep the uploads. *)
HeirInv ==
  /\ phase \in {"answering", "answered", "gone"} =>
       holders \subseteq IF inCall = 0 THEN {} ELSE {"host"}
  /\ phase = "answered" => logged

(* The steps that the relay and hyper can still take, at most. *)
TaskWork ==
  CASE relay = "seeking"  -> 3 * (body.len - bytes) + 6
    [] relay = "reading"  -> 3 * (body.len - bytes) + 5
    [] relay = "sending"  -> 3 * (body.len - bytes) + 4
    [] relay = "logging"  -> 3
    [] relay = "breaking" -> 2
    [] relay \in {"idle", "done"} -> 0

WireWork == IF Hung THEN 0 ELSE 1

FileWork == TaskWork + Len(channel) + WireWork

FileRelayRunsDown ==
  [][phase = "streaming" => /\ FileWork' < FileWork \/ UNCHANGED relayVars
                            /\ phase' = "streaming"]_vars

LEMMA HeirPart == Inv /\ HeirInv /\ [Next]_vars => HeirInv'
<1> SUFFICES ASSUME Inv, HeirInv, [Next]_vars PROVE HeirInv'
  OBVIOUS
<1>0. DirInv
  BY DEF Inv
<1> USE DEF HeirInv, DirInv, Without
<1>1. CASE RouteRequest \/ BufferBody
  BY <1>0, <1>1 DEF RouteRequest, BufferBody, diskVars, callVars
<1>2. CASE BeginUpload \/ FormFails \/ CreateFile
  BY <1>0, <1>2 DEF BeginUpload, FormFails, CreateFile, UploadFails, Release
<1>3. CASE NextPart \/ EndForm
  BY <1>0, <1>3 DEF NextPart, EndForm
<1>4. CASE ReadChunk \/ EndPart
  BY <1>0, <1>4 DEF ReadChunk, EndPart, UploadFails, Release
<1>5. CASE Deadline
  BY <1>0, <1>5 DEF Deadline, Release
<1>6. CASE BeginCall \/ EndCall
  BY <1>0, <1>6 DEF BeginCall, EndCall
<1>7. CASE OrphanReturns
  BY <1>0, <1>7 DEF OrphanReturns, Release, answerVars
<1>8. CASE RunFails \/ RunResponds
  <2>1. CASE RunFails
    BY <1>0, <2>1 DEF RunFails, Heirs
  <2>2. CASE RunResponds
    BY <1>0, <2>2 DEF RunResponds, Release
  <2> QED
    BY <1>8, <2>1, <2>2
<1>9. CASE RunStreams
  <2>1. phase' = "answering" => Release("run")
    BY <1>9 DEF RunStreams
  <2>2. /\ phase = "running" /\ inCall = 0 /\ inCall' = inCall
        /\ phase' \in {"answering", "streaming"}
    BY <1>9 DEF RunStreams
  <2> QED
    BY <1>0, <2>1, <2>2 DEF Release
<1>10. CASE ClientLeaves
  BY <1>0, <1>10 DEF ClientLeaves, Heirs
<1>11. CASE Relaying
  BY <1>0, <1>11 DEF Relaying
<1>12. CASE LogAnswer \/ CreateLands \/ Stopped \/ UNCHANGED vars
  BY <1>0, <1>12 DEF LogAnswer, CreateLands, Stopped, vars, diskVars, callVars, answerVars
<1>13. CASE SweepDirectory \/ RemoveDirectory
  BY <1>0, <1>13 DEF SweepDirectory, RemoveDirectory, callVars, answerVars
<1> QED
  BY <1>1, <1>2, <1>3, <1>4, <1>5, <1>6, <1>7, <1>8, <1>9, <1>10, <1>11, <1>12, <1>13
  DEF Next, ReadBody, HostCall, Cleanup

LEMMA HeirHolds == Spec => []HeirInv
<1>1. Init => HeirInv
  BY DEF Init, HeirInv
<1> QED
  BY <1>1, HeirPart, InvHolds, PTL DEF Spec

(* The relay of a file goes on, or the client has not read what fills the  *)
(* channel: relay and hyper do not wait for each other.                    *)
LEMMA RelayIsReady ==
  ASSUME RelayInv, ~RelayIdle, ~RelayDone, phase = "streaming"
  PROVE  TaskReady \/ HyperReady \/ WaitsForClient
<1>1. /\ relay \in {"seeking", "reading", "sending", "logging", "breaking"}
      /\ Len(channel) \in Nat /\ Len(channel) <= StreamCapacity
  BY LenProperties DEF RelayInv, RelayTypeOK, RelayIdle, RelayDone
<1>2. StreamCapacity \in Nat
  BY FileRelayAssumption DEF FileRelayAssumption
<1>3. CASE Hung \/ Len(channel) < StreamCapacity
  BY <1>1, <1>3 DEF TaskReady
<1>4. CASE ~Hung /\ Len(channel) = StreamCapacity
  BY <1>1, <1>4 DEF TaskReady, HyperReady, WaitsForClient
<1> QED
  BY <1>1, <1>2, <1>3, <1>4

(***************************************************************************)
(* No request hangs but on a client that is being served: until it is over *)
(* and its uploads are released, the server has a step to take by itself,  *)
(* whatever the client sends and the script does, or the client leaves a   *)
(* full channel unread.  None of the ways in which parser, run, host call  *)
(* and relay hand the directory on loses its last owner.                   *)
(***************************************************************************)
THEOREM RequestsDoNotHang == Spec => []RequestNeverHangs
<1>1. Inv /\ HeirInv => RequestNeverHangs
  <2> SUFFICES ASSUME Inv, HeirInv, ~ServerReady, ~NothingIsLeft
               PROVE  WaitsForClient /\ inCall = 0
                      /\ holders \subseteq (IF body.guard THEN {"relay"} ELSE {})
    BY DEF RequestNeverHangs
  <2>1. /\ phase \in {"answered", "streaming", "gone"} /\ inCall = 0 /\ Settled
        /\ dir \in {"none", "live", "gone", "orphan"}
    BY DEF Inv, TypeOK, ServerReady, Settled
  <2>2. phase = "streaming"
    <3>1. SUFFICES ASSUME phase \in {"answered", "gone"} PROVE FALSE
      BY <2>1
    <3>2. holders = {} /\ dir # "live"
      BY <2>1, <3>1 DEF HeirInv, Inv, DirInv
    <3> QED
      BY <2>1, <3>1, <3>2 DEF HeirInv, NothingIsLeft, Over
  <2>3. ~RelayDone
    BY <2>1, <2>2 DEF Inv, DirInv, NothingIsLeft, Over
  <2>4. WaitsForClient
    BY <2>1, <2>2, <2>3, RelayIsReady DEF Inv, DirInv, ServerReady
  <2>5. holders \subseteq (IF body.guard THEN {"relay"} ELSE {})
    BY <2>1, <2>2 DEF Inv, DirInv
  <2> QED
    BY <2>1, <2>4, <2>5
<1> QED
  BY <1>1, InvHolds, HeirHolds, PTL

LEMMA FileWorkTyped ==
  RelayInv => TaskWork \in Nat /\ WireWork \in Nat /\ Len(channel) \in Nat /\ FileWork \in Nat
<1> SUFFICES ASSUME RelayInv
             PROVE  TaskWork \in Nat /\ WireWork \in Nat /\ Len(channel) \in Nat /\ FileWork \in Nat
  OBVIOUS
<1>1. body.len - bytes \in Nat
  BY FileRelayAssumption DEF RelayInv, RelayTypeOK, Bodies, FileRelayAssumption
<1>2. TaskWork \in Nat
  <2>1. PICK left \in Nat : left = body.len - bytes
    BY <1>1
  <2>2. relay \in {"idle", "seeking", "reading", "sending", "logging", "breaking", "done"}
    BY DEF RelayInv, RelayTypeOK
  <2>3. /\ relay = "seeking"  => TaskWork = 3 * left + 6
        /\ relay = "reading"  => TaskWork = 3 * left + 5
        /\ relay = "sending"  => TaskWork = 3 * left + 4
        /\ relay = "logging"  => TaskWork = 3
        /\ relay = "breaking" => TaskWork = 2
        /\ relay \in {"idle", "done"} => TaskWork = 0
    BY <2>1 DEF TaskWork
  <2> QED
    BY <2>2, <2>3
<1>3. WireWork \in Nat /\ Len(channel) \in Nat
  BY LenProperties DEF WireWork, RelayInv, RelayTypeOK
<1> QED
  BY <1>2, <1>3 DEF FileWork

LEMMA RelayStepUsesWork ==
  ASSUME RelayInv, ~RelayIdle, RelayStep
  PROVE  FileWork' < FileWork
<1>0. RelayInv /\ RelayInv'
  BY RelayStepKeeps
<1>1. /\ TaskWork \in Nat /\ WireWork \in Nat /\ Len(channel) \in Nat
      /\ TaskWork' \in Nat /\ WireWork' \in Nat /\ Len(channel') \in Nat
  <2>1. (RelayInv => TaskWork \in Nat /\ WireWork \in Nat /\ Len(channel) \in Nat
                     /\ FileWork \in Nat)'
    BY FileWorkTyped, PTL
  <2> QED
    BY <1>0, <2>1, FileWorkTyped
<1>2. /\ FileWork = TaskWork + Len(channel) + WireWork
      /\ FileWork' = TaskWork' + Len(channel') + WireWork'
  BY DEF FileWork
<1>3. /\ bytes \in Nat /\ body.len \in Nat /\ bytes <= body.len
      /\ channel \in Seq(0..MaxFile) /\ position \in 0..MaxFile
  BY FileRelayAssumption DEF RelayInv, RelayTypeOK, Bodies, FileRelayAssumption
<1>4. ASSUME UNCHANGED <<fileVars, bytes, channel, wireVars>>,
             \/ relay = "seeking" /\ relay' \in {"reading", "logging"}
             \/ relay = "reading" /\ relay' \in {"sending", "logging"}
             \/ relay = "sending" /\ relay' = "logging"
             \/ relay = "logging" /\ relay' \in {"breaking", "done"}
             \/ relay = "breaking" /\ relay' = "done"
      PROVE  FileWork' < FileWork
  <2>1. channel' = channel /\ WireWork' = WireWork /\ bytes' = bytes /\ body' = body
    BY <1>4 DEF fileVars, wireVars, WireWork, Hung
  <2>2. PICK n \in Nat : n = body.len - bytes
    BY <1>3
  <2>3. /\ relay = "seeking"  => TaskWork = 3 * n + 6
        /\ relay = "reading"  => TaskWork = 3 * n + 5
        /\ relay = "sending"  => TaskWork = 3 * n + 4
        /\ relay = "logging"  => TaskWork = 3
        /\ relay = "breaking" => TaskWork = 2
    BY <2>2 DEF TaskWork
  <2>4. /\ relay' = "reading"  => TaskWork' = 3 * n + 5
        /\ relay' = "sending"  => TaskWork' = 3 * n + 4
        /\ relay' = "logging"  => TaskWork' = 3
        /\ relay' = "breaking" => TaskWork' = 2
        /\ relay' = "done"     => TaskWork' = 0
    BY <2>1, <2>2 DEF TaskWork
  <2>5. TaskWork' < TaskWork
    BY <1>4, <2>3, <2>4
  <2> QED
    BY <1>1, <1>2, <2>1, <2>5
<1>5. CASE RelaySeeks \/ RelayReads \/ RelayCompletes \/ RelayLogs
  BY <1>4, <1>5 DEF RelaySeeks, RelayReads, RelayCompletes, RelayLogs, FileFails
<1>6. CASE RelaySends
  <2>1. CASE Hung
    BY <1>4, <1>6, <2>1 DEF RelaySends
  <2>2. CASE ~Hung
    <3>1. /\ relay = "sending" /\ relay' = "reading" /\ bytes' = bytes + 1 /\ body' = body
          /\ channel' = Append(channel, position) /\ WireWork' = WireWork
      BY <1>6, <2>2 DEF RelaySends, fileVars, wireVars, WireWork, Hung
    <3>2. Len(channel') = Len(channel) + 1
      BY <1>3, <3>1, AppendProperties
    <3>3. TaskWork' + 2 = TaskWork
      <4>1. PICK n \in Nat, b \in Nat : n = body.len /\ b = bytes
        BY <1>3
      <4>2. TaskWork = 3 * (n - b) + 4
        BY <3>1, <4>1 DEF TaskWork
      <4>3. TaskWork' = 3 * (n - (b + 1)) + 5
        BY <3>1, <4>1 DEF TaskWork
      <4> DEFINE p == TaskWork
                 q == TaskWork'
      <4>4. p = 3 * (n - b) + 4 /\ q = 3 * (n - (b + 1)) + 5
        BY <4>2, <4>3
      <4> HIDE DEF p, q
      <4>5. q + 2 = p
        BY <4>4
      <4> QED
        BY <4>5 DEF p, q
    <3> DEFINE l == Len(channel)
               m == Len(channel')
               p == TaskWork
               q == TaskWork'
    <3>4. l \in Nat /\ m \in Nat /\ p \in Nat /\ q \in Nat /\ q + 2 = p /\ m = l + 1
      BY <1>1, <3>2, <3>3
    <3>5. q + m < p + l
      <4> HIDE DEF l, m, p, q
      <4> QED
        BY <3>4
    <3> QED
      BY <1>1, <1>2, <3>1, <3>5
  <2> QED
    BY <2>1, <2>2
<1>7. CASE RelayBreaks
  <2>1. CASE Hung
    BY <1>4, <1>7, <2>1 DEF RelayBreaks
  <2>2. CASE ~Hung
    <3>1. /\ TaskWork = 2 /\ TaskWork' = 0 /\ WireWork' = WireWork
          /\ channel' = Append(channel, Broken)
      BY <1>7, <2>2 DEF RelayBreaks, TaskWork, wireVars, WireWork, Hung
    <3>2. Broken \in 0..MaxFile
      BY FileRelayAssumption DEF Broken, FileRelayAssumption
    <3>3. Len(channel') = Len(channel) + 1
      BY <1>3, <3>1, <3>2, AppendProperties
    <3> QED
      BY <1>1, <1>2, <3>1, <3>3
  <2> QED
    BY <2>1, <2>2
<1>8. CASE Hyper \/ ReaderLeaves
  <2>1. TaskWork' = TaskWork
    BY <1>8
    DEF Hyper, HyperFinishes, HyperWrites, HyperSeesEnd, ReaderLeaves, fileVars, taskVars, TaskWork
  <2>2. \/ WireWork' = 0 /\ WireWork = 1 /\ (channel' = <<>> \/ channel' = channel)
        \/ channel # <<>> /\ channel' = Tail(channel) /\ WireWork' = WireWork
    BY <1>8
    DEF Hyper, HyperFinishes, HyperWrites, HyperSeesEnd, ReaderLeaves, WireWork, Hung
  <2>3. Len(<<>>) = 0 /\ (channel # <<>> => Len(Tail(channel)) = Len(channel) - 1)
    BY <1>3, NothingSent, HeadTailProperties
  <2>4. CASE WireWork' = 0 /\ WireWork = 1 /\ (channel' = <<>> \/ channel' = channel)
    <3>1. Len(channel') <= Len(channel)
      BY <1>1, <2>3, <2>4
    <3> QED
      BY <1>1, <1>2, <2>1, <2>4, <3>1
  <2>5. CASE channel # <<>> /\ channel' = Tail(channel) /\ WireWork' = WireWork
    <3>1. Len(channel') = Len(channel) - 1
      BY <2>3, <2>5
    <3> QED
      BY <1>1, <1>2, <2>1, <2>5, <3>1
  <2> QED
    BY <2>2, <2>4, <2>5
<1> QED
  BY <1>5, <1>6, <1>7, <1>8 DEF RelayStep, FileTask

(***************************************************************************)
(* The relay of a file cannot go round in circles: a streaming request     *)
(* stays one, and every step of the relay, of hyper or of the client uses  *)
(* up some of the work that was there when the head was sent: 3 * n + 7    *)
(* for n chunks.                                                           *)
(***************************************************************************)
THEOREM FileRelaysRunDown == Spec => FileRelayRunsDown
<1> DEFINE Step == phase = "streaming" => /\ FileWork' < FileWork \/ UNCHANGED relayVars
                                          /\ phase' = "streaming"
<1>1. Inv /\ [Next]_vars => [Step]_vars
  <2> SUFFICES ASSUME Inv, Next, phase = "streaming"
               PROVE  /\ FileWork' < FileWork \/ UNCHANGED relayVars
                      /\ phase' = "streaming"
    OBVIOUS
  <2>1. CASE Relaying
    BY <2>1, RelayStepUsesWork DEF Relaying, Inv, DirInv
  <2>2. CASE OrphanReturns \/ CreateLands \/ Cleanup \/ Stopped
    BY <2>2
    DEF OrphanReturns, CreateLands, Cleanup, SweepDirectory, RemoveDirectory, Stopped, vars
  <2>3. ~RouteRequest /\ ~ReadBody /\ ~Deadline /\ ~BeginCall /\ ~EndCall
    BY DEF RouteRequest, ReadBody, BufferBody, BeginUpload, FormFails, NextPart, CreateFile,
       ReadChunk, EndPart, EndForm, Deadline, BeginCall, EndCall
  <2>4. ~RunFails /\ ~RunResponds /\ ~RunStreams /\ ~LogAnswer /\ ~ClientLeaves
    BY DEF RunFails, RunResponds, RunStreams, LogAnswer, ClientLeaves
  <2> QED
    BY <2>1, <2>2, <2>3, <2>4 DEF Next, HostCall
<1> QED
  BY <1>1, InvHolds, PTL DEF Spec, FileRelayRunsDown
=============================================================================
