----------------------- MODULE ResponseEnvelopeProofs -----------------------
(***************************************************************************)
(* Proofs about ResponseEnvelope, for any statuses, any depth of calls and *)
(* any number of streams.                                                  *)
(*                                                                         *)
(* Once a call has returned true no call begins, so the depths of the      *)
(* winners fall (DepthInv).  What is recorded is what the last of them     *)
(* asked for, with a stream the parent still holds (CommitInv), because a  *)
(* handle that may be used is held and leaves the table when it is used    *)
(* (HandleInv), and because every call in progress carries a response that *)
(* is made of what was opened (FrameInv).  All that is about a worker      *)
(* whose script has left the prelude alone; that an answer is made of      *)
(* streams the parent has (BackInv) is about every worker.                 *)
(***************************************************************************)
EXTENDS ResponseEnvelope, TLAPS, SequenceTheorems

(* A call in progress asks for a status of its own, so that what it        *)
(* records can be told from nothing; a file in it has been opened.         *)
WellMade(frame) ==
  /\ frame.call \in {"respond", "pipe"}
  /\ frame.response.status \in Statuses /\ frame.response.allow \in BOOLEAN
  /\ frame.response.error = ""
  /\ IF frame.call = "pipe" THEN frame.response.body = Stream
     ELSE \/ frame.response.body \in {Text, Kept}
          \/ \E n \in Files : frame.response.body = File(n)

FrameInv == \A n \in 1..Len(frames) : WellMade(frames[n])

Winners == [depth : Nat, status : Statuses, body : Bodies]

(* No call begins after one has won. *)
DepthInv ==
  /\ won \in Seq(Winners)
  /\ phase = "script" =>
       /\ won # <<>> => envelope # NoResponse
       /\ \A i \in 1..Len(won) : won[i].depth > Len(frames)
  /\ OnlyOuterCallsOverwrite

(* A handle that can be used leads to a stream that is held, and to no     *)
(* response yet.                                                           *)
HandleInv ==
  /\ phase = "script" => handles \subseteq held
  /\ \A i \in 1..Len(won) :
       won[i].body[1] = "file" => won[i].body[2] \in Files /\ won[i].body[2] \notin handles
  /\ HandlesAreSingleUse

(* The response of the last winner, on its way to the client. *)
Recorded(w) ==
  /\ envelope.status = w.status /\ envelope.error = ""
  /\ \/ envelope.body = Stream /\ pipe # None /\ w.body = Piped(pipe)
     \/ envelope.body \in {Text, Kept} /\ w.body = envelope.body
     \/ w.status = 200 /\ \E n \in held : envelope.body = File(n) /\ w.body = File(n)

(* Only an array the script holds on to can be read out as something else. *)
Reported(w) ==
  IF w.body = Kept
  THEN outcome.status = w.status /\ outcome.error = "" /\ outcome.body \in {Text} \cup AnyFile
  ELSE outcome = envelope

Ran(w) ==
  IF w.body = Kept
  THEN \/ outcome.error = "script_error"
       \/ /\ outcome.status = w.status /\ outcome.error = ""
          /\ outcome.body = Text \/ outcome.body[1] = "file"
  ELSE /\ outcome.status = w.status /\ outcome.body = w.body /\ outcome.error = ""
       /\ w.body[1] = "file" => w.status = 200 /\ envelope.body = w.body

CommitInv ==
  won # <<>> /\ intact =>
    /\ phase \in {"script", "reported"} => Recorded(Last(won))
    /\ phase = "reported" => Reported(Last(won))
    /\ phase = "ran" => Ran(Last(won))
    /\ phase = "checked" /\ kind = "route" => Ran(Last(won))

(* What the parent holds for a pipe is the last stream it opened for one,  *)
(* and a report that is accepted is made of that stream or of a file.      *)
LastPipe(p) ==
  p \in DOMAIN opened \ Files /\ \A n \in DOMAIN opened \ Files : n <= p

BackInv ==
  /\ envelope.error = "" /\ envelope.body \in {Text, Kept, Stream} \cup AnyFile
  /\ pipe # None => LastPipe(pipe)
  /\ phase = "reported" => outcome.error = "" /\ outcome.body \in {Text, Stream} \cup AnyFile
  /\ phase \in {"ran", "checked"} /\ outcome.error = "" =>
       \/ outcome.body = Text
       \/ \E p \in DOMAIN opened : outcome.body = Piped(p) /\ LastPipe(p)
       \/ \E n \in Files : outcome.body = File(n)

CheckedInv ==
  phase = "checked" /\ kind # "route" /\ outcome.error = "" =>
    /\ outcome.status = Required /\ outcome.body = Text
    /\ kind = "method_not_allowed" => outcome.allow

Inv ==
  /\ TypeOK /\ FrameInv /\ DepthInv /\ HandleInv /\ CommitInv /\ CheckedInv
  /\ BackInv /\ CommittedIsServed /\ FallbackContract /\ AnswersAreBacked

----------------------------------------------------------------------------
(* Bodies tell their kinds apart. *)
LEMMA Tags ==
  /\ Text[1] = "text" /\ Text[2] = 0 /\ Stream[1] = "stream" /\ Text # Stream
  /\ Kept[1] = "kept" /\ Kept[2] = 0 /\ Kept # Text /\ Kept # Stream
  /\ \A n : File(n)[1] = "file" /\ File(n)[2] = n /\ File(n) \notin {Text, Kept, Stream}
  /\ \A n : Piped(n)[1] = "pipe" /\ Piped(n)[2] = n /\ Piped(n) \notin {Text, Kept, Stream}
  /\ \A m, n : File(m) # Piped(n)
<1> USE DEF Text, Kept, Stream, File, Piped
<1>1. /\ Text[1] = "text" /\ Text[2] = 0 /\ Stream[1] = "stream"
      /\ Kept[1] = "kept" /\ Kept[2] = 0
  OBVIOUS
<1>2. ASSUME NEW n
      PROVE  File(n)[1] = "file" /\ File(n)[2] = n /\ Piped(n)[1] = "pipe" /\ Piped(n)[2] = n
  OBVIOUS
<1> HIDE DEF Text, Kept, Stream, File, Piped
<1> QED
  BY <1>1, <1>2

LEMMA EndsOfSeq ==
  ASSUME NEW S, NEW s \in Seq(S), s # <<>>
  PROVE  /\ Len(s) \in Nat /\ Len(s) > 0
         /\ Last(s) = s[Len(s)] /\ Last(s) \in S
         /\ Front(s) \in Seq(S) /\ Len(Front(s)) = Len(s) - 1
         /\ \A i \in 1..Len(s) - 1 : Front(s)[i] = s[i]
<1>1. Len(s) \in Nat /\ Len(s) > 0
  BY EmptySeq
<1>2. Last(s) = s[Len(s)] /\ Last(s) \in S
  BY <1>1, ElementOfSeq DEF Last
<1>3. /\ Front(s) \in Seq(S) /\ Len(Front(s)) = Len(s) - 1
      /\ \A i \in 1..Len(s) - 1 : Front(s)[i] = s[i]
  <2> DEFINE m == Len(s) - 1
  <2>1. 1 \in Int /\ m \in Int /\ \A i \in 1..m : s[i] \in S
    BY <1>1, ElementOfSeq
  <2> HIDE DEF m
  <2>2. /\ SubSeq(s, 1, m) \in Seq(S)
        /\ Len(SubSeq(s, 1, m)) = IF 1 <= m THEN m - 1 + 1 ELSE 0
        /\ \A i \in 1..m - 1 + 1 : SubSeq(s, 1, m)[i] = s[1 + i - 1]
    BY <2>1, SubSeqProperties
  <2>3. /\ Len(SubSeq(s, 1, m)) = m
        /\ \A i \in 1..m : SubSeq(s, 1, m)[i] = s[i]
    <3>1. m \in Nat
      BY <1>1 DEF m
    <3>2. \A i \in 1..m : 1 + i - 1 = i
      BY <3>1
    <3>3. m - 1 + 1 = m /\ (m = 0 \/ 1 <= m)
      BY <3>1
    <3> QED
      BY <2>2, <3>1, <3>2, <3>3
  <2> QED
    BY <2>2, <2>3 DEF m, Front
<1> QED
  BY <1>1, <1>2, <1>3

LEMMA EndOfAppend ==
  ASSUME NEW S, NEW s \in Seq(S), NEW e \in S
  PROVE  LET t == Append(s, e)
         IN /\ t \in Seq(S) /\ t # <<>> /\ Len(t) = Len(s) + 1 /\ Len(s) \in Nat
            /\ Last(t) = e /\ t[Len(s) + 1] = e
            /\ \A i \in 1..Len(s) : t[i] = s[i]
<1> DEFINE t == Append(s, e)
<1>1. /\ t \in Seq(S) /\ Len(t) = Len(s) + 1 /\ Len(s) \in Nat /\ t[Len(s) + 1] = e
      /\ \A i \in 1..Len(s) : t[i] = s[i]
  OBVIOUS
<1> HIDE DEF t
<1>2. t # <<>>
  BY <1>1, EmptySeq
<1> QED
  BY <1>1, <1>2 DEF Last, t

LEMMA FilesAreOpened ==
  ASSUME TypeOK
  PROVE  /\ Len(opened) \in Nat /\ DOMAIN opened = 1..Len(opened)
         /\ Files \subseteq 1..Len(opened)
         /\ \A n \in 1..Len(opened) : File(n) \in Bodies /\ Piped(n) \in Bodies
  BY LenProperties, BoundsAssumption DEF TypeOK, Files, Bodies, AnyFile

LEMMA InitKeeps == Init => Inv
<1> SUFFICES ASSUME Init PROVE Inv
  OBVIOUS
<1>0. \A S : <<>> \in Seq(S) /\ Len(<<>>) = 0
  BY EmptySeq
<1>1. NoResponse \in Responses
  BY DEF NoResponse, Response, Responses, Bodies
<1>2. TypeOK
  <2>1. /\ frames \in Seq([call : {"respond", "pipe"}, response : Responses])
        /\ Len(frames) <= MaxDepth /\ opened \in Seq({"file", "pipe"}) /\ Len(opened) <= MaxStreams
    BY <1>0, BoundsAssumption DEF Init
  <2> QED
    BY <1>1, <2>1 DEF Init, TypeOK, None
<1>3. /\ FrameInv /\ HandleInv /\ CommitInv /\ CheckedInv /\ CommittedIsServed /\ FallbackContract
      /\ AnswersAreBacked
  BY <1>0
  DEF Init, FrameInv, HandleInv, HandlesAreSingleUse, CommitInv, CheckedInv, CommittedIsServed,
      FallbackContract, AnswersAreBacked
<1>4. DepthInv
  BY <1>0 DEF Init, DepthInv, OnlyOuterCallsOverwrite
<1>5. BackInv
  BY DEF Init, BackInv, NoResponse, Response
<1> QED
  BY <1>2, <1>3, <1>4, <1>5 DEF Inv

(* While the script runs, what is said of its pipe is about the streams    *)
(* opened for pipes.                                                       *)
LEMMA BackUnchanged ==
  ASSUME Inv, phase' = "script", UNCHANGED <<envelope, pipe>>,
         DOMAIN opened' \ Files' = DOMAIN opened \ Files
  PROVE  BackInv'
  BY DEF Inv, BackInv, LastPipe, AnyFile

----------------------------------------------------------------------------
(* A new stream has a number of its own. *)
LEMMA OpenKeeps == Inv /\ OpenStream => Inv'
<1> SUFFICES ASSUME Inv, OpenStream PROVE Inv'
  OBVIOUS
<1> DEFINE n == Len(opened) + 1
<1>0. /\ phase = "script" /\ opened \in Seq({"file", "pipe"}) /\ Len(opened) < MaxStreams
      /\ opened' = Append(opened, "file")
      /\ held' = held \cup {n} /\ handles' = handles \cup {n}
      /\ UNCHANGED <<kind, phase, frames, envelope, intact, won, pipe, outcome>>
  BY DEF OpenStream, ScriptRuns, Inv, TypeOK
<1>1. /\ Len(opened) \in Nat /\ DOMAIN opened = 1..Len(opened) /\ Files \subseteq 1..Len(opened)
  BY FilesAreOpened DEF Inv
<1>2. /\ opened' \in Seq({"file", "pipe"}) /\ Len(opened') = n /\ DOMAIN opened' = 1..n
      /\ opened'[n] = "file" /\ \A i \in 1..Len(opened) : opened'[i] = opened[i]
  BY <1>0
<1>3. Files' = Files \cup {n} /\ n \notin Files
  BY <1>1, <1>2 DEF Files
<1>4. DOMAIN opened' \ Files' = DOMAIN opened \ Files
  BY <1>1, <1>2, <1>3
<1>5. TypeOK'
  <2>1. handles' \subseteq Files' /\ held' \subseteq Files'
    BY <1>0, <1>3 DEF Inv, TypeOK
  <2>2. pipe' \in {None} \cup (DOMAIN opened' \ Files')
    BY <1>0, <1>4 DEF Inv, TypeOK
  <2>3. Len(opened') <= MaxStreams
    BY <1>0, <1>1, <1>2, BoundsAssumption
  <2> QED
    BY <1>0, <1>2, <2>1, <2>2, <2>3 DEF Inv, TypeOK
<1>6. FrameInv'
  BY <1>0, <1>3 DEF Inv, FrameInv, WellMade
<1>7. DepthInv'
  BY <1>0 DEF Inv, DepthInv, OnlyOuterCallsOverwrite
<1>8. HandleInv'
  BY <1>0, <1>3 DEF Inv, HandleInv, HandlesAreSingleUse
<1>9. CommitInv' /\ CheckedInv' /\ CommittedIsServed' /\ FallbackContract' /\ AnswersAreBacked'
  BY <1>0 DEF Inv, CommitInv, Recorded, Ran, CheckedInv, CommittedIsServed, FallbackContract, AnswersAreBacked
<1>10. BackInv'
  BY <1>0, <1>4, BackUnchanged
<1> QED
  BY <1>5, <1>6, <1>7, <1>8, <1>9, <1>10 DEF Inv

(* A call begins: nobody has won yet. *)
LEMMA CallKeeps ==
  ASSUME Inv, NEW frame \in [call : {"respond", "pipe"}, response : Responses], WellMade(frame),
         Calls, frames' = Append(frames, frame),
         UNCHANGED <<kind, phase, envelope, intact, handles, won, hostVars, outcome>>
  PROVE  Inv'
<1>1. /\ phase = "script" /\ envelope = NoResponse /\ Len(frames) < MaxDepth
      /\ UNCHANGED <<kind, phase, envelope, intact, handles, won, opened, pipe, held, outcome>>
  BY DEF Calls, PreludeRuns, ScriptRuns, hostVars
<1>2. /\ frames' \in Seq([call : {"respond", "pipe"}, response : Responses])
      /\ Len(frames') = Len(frames) + 1 /\ Len(frames) \in Nat
      /\ frames'[Len(frames) + 1] = frame /\ \A n \in 1..Len(frames) : frames'[n] = frames[n]
  BY EndOfAppend DEF Inv, TypeOK
<1>3. Files' = Files
  BY <1>1 DEF Files
<1>4. TypeOK'
  <2>1. Len(frames') <= MaxDepth
    BY <1>1, <1>2, BoundsAssumption
  <2> QED
    BY <1>1, <1>2, <1>3, <2>1 DEF Inv, TypeOK
<1>5. FrameInv'
  <2> SUFFICES ASSUME NEW n \in 1..Len(frames') PROVE WellMade(frames[n])'
    BY DEF FrameInv
  <2>1. n \in 1..Len(frames) \/ n = Len(frames) + 1
    BY <1>2
  <2>2. WellMade(frames'[n])
    BY <1>2, <2>1 DEF Inv, FrameInv
  <2> QED
    BY <1>3, <2>2 DEF WellMade
<1>6. won = <<>> /\ Len(won) = 0
  BY <1>1, EmptySeq DEF Inv, DepthInv
<1>7. DepthInv'
  BY <1>1, <1>6 DEF Inv, DepthInv, OnlyOuterCallsOverwrite
<1>8. HandleInv' /\ CommitInv' /\ CheckedInv' /\ CommittedIsServed' /\ FallbackContract' /\ AnswersAreBacked'
  BY <1>1, <1>6
  DEF Inv, HandleInv, HandlesAreSingleUse, CommitInv, CheckedInv, CommittedIsServed,
      FallbackContract, AnswersAreBacked, Files
<1>9. BackInv'
  BY <1>1, <1>3, BackUnchanged
<1> QED
  BY <1>4, <1>5, <1>7, <1>8, <1>9 DEF Inv

LEMMA RespondKeeps ==
  ASSUME Inv, NEW status \in Statuses, NEW allow \in BOOLEAN,
         NEW body \in {Text, Kept} \cup {File(n) : n \in Files}, Respond(status, allow, body)
  PROVE  Inv'
<1> DEFINE r == Response(status, allow, body)
           frame == [call |-> "respond", response |-> r]
<1>1. body \in Bodies
  BY FilesAreOpened DEF Inv, Bodies
<1>2. r \in Responses /\ r.status = status /\ r.allow = allow /\ r.body = body /\ r.error = ""
  BY <1>1 DEF Response, Responses
<1> HIDE DEF r
<1>3. /\ frame \in [call : {"respond", "pipe"}, response : Responses]
      /\ frame.call = "respond" /\ frame.response = r
  BY <1>2
<1>4. WellMade(frame)
  BY <1>2, <1>3 DEF WellMade
<1>5. /\ Calls /\ frames' = Append(frames, frame)
      /\ UNCHANGED <<kind, phase, envelope, intact, handles, won, hostVars, outcome>>
  BY DEF Respond, r
<1> HIDE DEF frame
<1> QED
  BY <1>3, <1>4, <1>5, CallKeeps

LEMMA PipeKeeps ==
  ASSUME Inv, NEW status \in Statuses, NEW allow \in BOOLEAN, Pipe(status, allow)
  PROVE  Inv'
<1> DEFINE r == Response(status, allow, Stream)
           frame == [call |-> "pipe", response |-> r]
<1>1. r \in Responses /\ r.status = status /\ r.allow = allow /\ r.body = Stream /\ r.error = ""
  BY DEF Response, Responses, Bodies
<1> HIDE DEF r
<1>2. /\ frame \in [call : {"respond", "pipe"}, response : Responses]
      /\ frame.call = "pipe" /\ frame.response = r
  BY <1>1
<1>3. WellMade(frame)
  BY <1>1, <1>2 DEF WellMade
<1>4. /\ Calls /\ frames' = Append(frames, frame)
      /\ UNCHANGED <<kind, phase, envelope, intact, handles, won, hostVars, outcome>>
  BY DEF Pipe, r
<1> HIDE DEF frame
<1> QED
  BY <1>2, <1>3, <1>4, CallKeeps

----------------------------------------------------------------------------
(* The innermost call is over, whichever way. *)
LEMMA ReturnKeepsFrames ==
  ASSUME Inv, frames # <<>>, Returns, Files' = Files
  PROVE  /\ frames' \in Seq([call : {"respond", "pipe"}, response : Responses])
         /\ Len(frames) \in Nat /\ Len(frames) > 0
         /\ Len(frames') = Len(frames) - 1 /\ Len(frames') <= MaxDepth
         /\ FrameInv'
         /\ WellMade(Top) /\ Top \in [call : {"respond", "pipe"}, response : Responses]
<1>1. /\ frames' \in Seq([call : {"respond", "pipe"}, response : Responses])
      /\ Len(frames) \in Nat /\ Len(frames) > 0 /\ Len(frames') = Len(frames) - 1
      /\ Top = frames[Len(frames)] /\ Top \in [call : {"respond", "pipe"}, response : Responses]
      /\ \A i \in 1..Len(frames) - 1 : frames'[i] = frames[i]
  BY EndsOfSeq DEF Inv, TypeOK, Returns, Top
<1>2. Len(frames') <= MaxDepth
  BY <1>1, BoundsAssumption DEF Inv, TypeOK
<1>3. WellMade(Top)
  BY <1>1 DEF Inv, FrameInv
<1>4. FrameInv'
  <2> SUFFICES ASSUME NEW n \in 1..Len(frames') PROVE WellMade(frames[n])'
    BY DEF FrameInv
  <2>1. WellMade(frames'[n])
    BY <1>1 DEF Inv, FrameInv
  <2> QED
    BY <2>1 DEF WellMade
<1> QED
  BY <1>1, <1>2, <1>3, <1>4

(* One more winner: its depth is below those of the winners before it. *)
LEMMA WinKeepsDepths ==
  ASSUME Inv, NEW w \in Winners, frames # <<>>, Returns, Files' = Files,
         phase = "script", envelope' # NoResponse,
         won' = Append(won, w), w.depth = Len(frames)
  PROVE  /\ DepthInv' /\ won' # <<>> /\ Last(won') = w
         /\ Len(won) \in Nat /\ Len(won') = Len(won) + 1
         /\ won'[Len(won) + 1] = w /\ \A i \in 1..Len(won) : won'[i] = won[i]
<1>1. /\ won' \in Seq(Winners) /\ won' # <<>> /\ Last(won') = w
      /\ Len(won) \in Nat /\ Len(won') = Len(won) + 1
      /\ won'[Len(won) + 1] = w /\ \A i \in 1..Len(won) : won'[i] = won[i]
  BY EndOfAppend DEF Inv, DepthInv
<1>2. /\ Len(frames) \in Nat /\ Len(frames') = Len(frames) - 1
      /\ \A i \in 1..Len(won) : won[i].depth \in Nat /\ won[i].depth > Len(frames)
  <2>1. Len(frames) \in Nat /\ Len(frames') = Len(frames) - 1
    BY ReturnKeepsFrames
  <2>2. ASSUME NEW i \in 1..Len(won) PROVE won[i].depth \in Nat /\ won[i].depth > Len(frames)
    <3>1. won[i] \in Winners
      BY ElementOfSeq DEF Inv, DepthInv
    <3> QED
      BY <3>1 DEF Inv, DepthInv, Winners
  <2> QED
    BY <2>1, <2>2
<1>3. \A i \in 1..Len(won') : won'[i].depth > Len(frames')
  BY <1>1, <1>2
<1>4. OnlyOuterCallsOverwrite'
  <2> SUFFICES ASSUME NEW i \in 1..Len(won'), NEW j \in 1..Len(won'), i < j
               PROVE  won'[i].depth > won'[j].depth
    BY <1>1 DEF OnlyOuterCallsOverwrite
  <2>1. CASE j = Len(won) + 1
    BY <1>1, <1>2, <2>1
  <2>2. CASE j # Len(won) + 1
    <3>1. i \in 1..Len(won) /\ j \in 1..Len(won) /\ won'[i] = won[i] /\ won'[j] = won[j]
      BY <1>1, <2>2
    <3>2. DOMAIN won = 1..Len(won)
      BY LenProperties DEF Inv, DepthInv
    <3> QED
      BY <3>1, <3>2 DEF Inv, DepthInv, OnlyOuterCallsOverwrite
  <2> QED
    BY <2>1, <2>2
<1> QED
  BY <1>1, <1>3, <1>4 DEF DepthInv

(* The file of a new winner could be used before, and cannot any more. *)
LEMMA WinKeepsHandles ==
  ASSUME Inv, NEW w \in Winners, phase = "script", Files' = Files, held' = held,
         handles' \subseteq handles,
         w.body[1] = "file" => w.body[2] \in handles /\ w.body[2] \notin handles',
         won' = Append(won, w)
  PROVE  HandleInv'
<1>1. /\ Len(won) \in Nat /\ Len(won') = Len(won) + 1 /\ DOMAIN won' = 1..Len(won')
      /\ DOMAIN won = 1..Len(won)
      /\ won'[Len(won) + 1] = w /\ \A i \in 1..Len(won) : won'[i] = won[i]
  BY EndOfAppend, LenProperties DEF Inv, DepthInv
<1>2. handles \subseteq held /\ handles \subseteq Files
  BY DEF Inv, TypeOK, HandleInv
<1>3. \A i \in 1..Len(won) :
        won[i].body[1] = "file" => won[i].body[2] \in Files /\ won[i].body[2] \notin handles
  BY DEF Inv, HandleInv
<1>4. \A i \in 1..Len(won') :
        won'[i].body[1] = "file" => won'[i].body[2] \in Files /\ won'[i].body[2] \notin handles'
  BY <1>1, <1>2, <1>3
<1>5. HandlesAreSingleUse'
  <2> SUFFICES ASSUME NEW i \in 1..Len(won'), NEW j \in 1..Len(won'), i # j,
                      won'[i].body[1] = "file"
               PROVE  won'[i].body # won'[j].body
    BY <1>1 DEF HandlesAreSingleUse
  <2>1. CASE i \in 1..Len(won) /\ j \in 1..Len(won)
    BY <1>1, <2>1 DEF Inv, HandleInv, HandlesAreSingleUse
  <2>2. CASE i = Len(won) + 1 \/ j = Len(won) + 1
    BY <1>1, <1>3, <2>2
  <2> QED
    BY <1>1, <2>1, <2>2
<1> QED
  BY <1>2, <1>4, <1>5 DEF HandleInv

LEMMA RecordedIsSomething ==
  ASSUME NEW r, r.status \in Statuses
  PROVE  r # NoResponse
<1>1. r.status # 0
  BY StatusesAssumption
<1>2. NoResponse.status = 0
  BY DEF NoResponse, Response
<1> QED
  BY <1>1, <1>2

LEMMA RespondRecordsKeeps == Inv /\ RespondRecords => Inv'
<1> SUFFICES ASSUME Inv, RespondRecords PROVE Inv'
  OBVIOUS
<1> PICK r : r = Top.response
  OBVIOUS
<1> PICK w : w = [depth |-> Len(frames), status |-> r.status, body |-> r.body]
  OBVIOUS
<1>1. /\ phase = "script" /\ frames # <<>> /\ Top.call = "respond" /\ Acceptable(r)
      /\ envelope' = r /\ handles' = handles \ {r.body[2]} /\ won' = Append(won, w) /\ Returns
      /\ UNCHANGED <<kind, phase, intact, opened, pipe, held, outcome>>
  BY DEF RespondRecords, PreludeRuns, ScriptRuns, Wins, hostVars
<1>2. Files' = Files
  BY <1>1 DEF Files
<1>3. /\ frames' \in Seq([call : {"respond", "pipe"}, response : Responses])
      /\ Len(frames) \in Nat /\ Len(frames') <= MaxDepth /\ FrameInv'
      /\ WellMade(Top) /\ Top \in [call : {"respond", "pipe"}, response : Responses]
  BY <1>1, <1>2, ReturnKeepsFrames
<1>4. /\ r \in Responses /\ r.status \in Statuses /\ r.error = "" /\ r.body \in Bodies
      /\ r.body \in {Text, Kept} \/ \E n \in Files : r.body = File(n)
  BY <1>1, <1>3 DEF WellMade, Responses
<1>5. w \in Winners /\ w.depth = Len(frames) /\ w.status = r.status /\ w.body = r.body
  BY <1>3, <1>4 DEF Winners
<1>6. envelope' # NoResponse
  BY <1>1, <1>4, RecordedIsSomething
<1>7. r.body[1] = "file" =>
        \E n \in handles : r.body = File(n) /\ r.body[2] = n /\ r.status = 200
  <2> SUFFICES ASSUME r.body[1] = "file"
               PROVE  \E n \in handles : r.body = File(n) /\ r.body[2] = n /\ r.status = 200
    OBVIOUS
  <2>1. PICK n \in Files : r.body = File(n)
    BY <1>4, Tags
  <2>2. r.body \notin {Text, Kept} /\ r.body[2] = n
    BY <2>1, Tags
  <2> QED
    BY <1>1, <2>1, <2>2 DEF Acceptable
<1>8. DepthInv' /\ won' # <<>> /\ Last(won') = w
  BY <1>1, <1>2, <1>5, <1>6, WinKeepsDepths
<1>9. HandleInv'
  BY <1>1, <1>2, <1>5, <1>7, WinKeepsHandles
<1>10. Recorded(w)'
  <2>1. r.body \in {Text, Kept} \/ (r.status = 200 /\ \E n \in held : r.body = File(n))
    BY <1>1, <1>4, <1>7, Tags DEF Inv, HandleInv
  <2> QED
    BY <1>1, <1>4, <1>5, <2>1 DEF Recorded
<1>11. CommitInv' /\ CheckedInv' /\ CommittedIsServed' /\ FallbackContract' /\ AnswersAreBacked'
  <2>1. Recorded(Last(won))'
    BY <1>8, <1>10 DEF Recorded
  <2> QED
    BY <1>1, <2>1 DEF CommitInv, CheckedInv, CommittedIsServed, FallbackContract, AnswersAreBacked
<1>12. TypeOK'
  <2>1. handles' \subseteq Files' /\ held' \subseteq Files'
    BY <1>1, <1>2 DEF Inv, TypeOK
  <2> QED
    BY <1>1, <1>2, <1>3, <1>4, <2>1 DEF Inv, TypeOK
<1>13. BackInv'
  <2>1. r.body \in {Text, Kept, Stream} \cup AnyFile
    <3>1. Files \subseteq 1..MaxStreams
      BY FilesAreOpened, BoundsAssumption DEF Inv, TypeOK
    <3> QED
      BY <1>4, <3>1 DEF AnyFile
  <2> QED
    BY <1>1, <1>2, <1>4, <2>1 DEF Inv, BackInv, LastPipe, AnyFile
<1> QED
  BY <1>3, <1>8, <1>9, <1>11, <1>12, <1>13 DEF Inv

(* The stream of a pipe has a fresh number, which the parent now holds. *)
LEMMA PipeRecordsKeeps == Inv /\ PipeRecords => Inv'
<1> SUFFICES ASSUME Inv, PipeRecords PROVE Inv'
  OBVIOUS
<1> PICK n : n = Len(opened) + 1
  OBVIOUS
<1> PICK r : r = Top.response
  OBVIOUS
<1> PICK w : w = [depth |-> Len(frames), status |-> r.status, body |-> Piped(n)]
  OBVIOUS
<1>1. /\ phase = "script" /\ frames # <<>> /\ Top.call = "pipe" /\ Len(opened) < MaxStreams
      /\ opened' = Append(opened, "pipe") /\ pipe' = n
      /\ envelope' = r /\ won' = Append(won, w) /\ Returns
      /\ UNCHANGED <<kind, phase, intact, handles, held, outcome>>
  BY DEF PipeRecords, PreludeRuns, ScriptRuns, Wins
<1>2. /\ Len(opened) \in Nat /\ DOMAIN opened = 1..Len(opened) /\ Files \subseteq 1..Len(opened)
      /\ opened \in Seq({"file", "pipe"})
  BY FilesAreOpened DEF Inv, TypeOK
<1>3. /\ opened' \in Seq({"file", "pipe"}) /\ Len(opened') = n /\ DOMAIN opened' = 1..n
      /\ opened'[n] = "pipe" /\ \A i \in 1..Len(opened) : opened'[i] = opened[i]
  BY <1>1, <1>2
<1>4. Files' = Files /\ n \in DOMAIN opened' \ Files' /\ n \in 1..MaxStreams
  BY <1>1, <1>2, <1>3, BoundsAssumption DEF Files
<1>5. /\ frames' \in Seq([call : {"respond", "pipe"}, response : Responses])
      /\ Len(frames) \in Nat /\ Len(frames') <= MaxDepth /\ FrameInv'
      /\ WellMade(Top) /\ Top \in [call : {"respond", "pipe"}, response : Responses]
  BY <1>1, <1>4, ReturnKeepsFrames
<1>6. /\ r \in Responses /\ r.status \in Statuses /\ r.error = "" /\ r.body = Stream
      /\ Piped(n) \in Bodies
  BY <1>1, <1>4, <1>5 DEF WellMade, Bodies
<1>7. w \in Winners /\ w.depth = Len(frames) /\ w.status = r.status /\ w.body = Piped(n)
  BY <1>5, <1>6 DEF Winners
<1>8. envelope' # NoResponse
  BY <1>1, <1>6, RecordedIsSomething
<1>9. DepthInv' /\ won' # <<>> /\ Last(won') = w
  BY <1>1, <1>4, <1>7, <1>8, WinKeepsDepths
<1>10. HandleInv'
  BY <1>1, <1>4, <1>7, Tags, WinKeepsHandles
<1>11. CommitInv' /\ CheckedInv' /\ CommittedIsServed' /\ FallbackContract' /\ AnswersAreBacked'
  <2>1. n # None
    BY <1>2 DEF None
  <2>2. Recorded(Last(won))'
    BY <1>1, <1>6, <1>7, <1>9, <2>1 DEF Recorded
  <2> QED
    BY <1>1, <2>2 DEF CommitInv, CheckedInv, CommittedIsServed, FallbackContract, AnswersAreBacked
<1>12. TypeOK'
  <2>1. handles' \subseteq Files' /\ held' \subseteq Files'
    BY <1>1, <1>4 DEF Inv, TypeOK
  <2>2. pipe' \in {None} \cup (DOMAIN opened' \ Files') /\ Len(opened') <= MaxStreams
    BY <1>1, <1>3, <1>4
  <2> QED
    BY <1>1, <1>3, <1>5, <1>6, <2>1, <2>2 DEF Inv, TypeOK
<1>13. BackInv'
  <2>1. LastPipe(n)'
    BY <1>1, <1>2, <1>3, <1>4 DEF LastPipe
  <2> QED
    BY <1>1, <1>6, <2>1 DEF BackInv, LastPipe
<1> QED
  BY <1>5, <1>9, <1>10, <1>11, <1>12, <1>13 DEF Inv

LEMMA ThrowsKeeps == Inv /\ Throws => Inv'
<1> SUFFICES ASSUME Inv, Throws PROVE Inv'
  OBVIOUS
<1>1. /\ phase = "script" /\ frames # <<>> /\ Returns
      /\ UNCHANGED <<kind, phase, envelope, intact, handles, won, opened, pipe, held, outcome>>
  BY DEF Throws, PreludeRuns, ScriptRuns, hostVars
<1>2. Files' = Files
  BY <1>1 DEF Files
<1>3. /\ frames' \in Seq([call : {"respond", "pipe"}, response : Responses])
      /\ Len(frames) \in Nat /\ Len(frames') = Len(frames) - 1 /\ Len(frames') <= MaxDepth
      /\ FrameInv'
  BY <1>1, <1>2, ReturnKeepsFrames
<1>4. DepthInv'
  <2>1. ASSUME NEW i \in 1..Len(won) PROVE won[i].depth > Len(frames')
    <3>1. won[i] \in Winners
      BY ElementOfSeq DEF Inv, DepthInv
    <3> QED
      BY <1>1, <1>3, <3>1 DEF Inv, DepthInv, Winners
  <2> QED
    BY <1>1, <2>1 DEF Inv, DepthInv, OnlyOuterCallsOverwrite
<1>5. HandleInv'
  BY <1>1, <1>2 DEF Inv, HandleInv, HandlesAreSingleUse
<1>6. CommitInv' /\ CheckedInv' /\ CommittedIsServed' /\ FallbackContract' /\ AnswersAreBacked'
  BY <1>1 DEF Inv, CommitInv, Recorded, CheckedInv, CommittedIsServed, FallbackContract, AnswersAreBacked
<1>7. TypeOK'
  BY <1>1, <1>2, <1>3 DEF Inv, TypeOK
<1>8. BackInv'
  BY <1>1, <1>2, BackUnchanged
<1> QED
  BY <1>3, <1>4, <1>5, <1>6, <1>7, <1>8 DEF Inv

(* Nothing is said any more of what the worker records. *)
LEMMA TampersKeeps == Inv /\ Tampers => Inv'
<1> SUFFICES ASSUME Inv, Tampers PROVE Inv'
  OBVIOUS
<1>1. /\ phase = "script" /\ intact' = FALSE /\ frames' = <<>>
      /\ UNCHANGED <<kind, phase, envelope, handles, won, opened, pipe, held, outcome>>
  BY DEF Tampers, PreludeRuns, ScriptRuns, hostVars
<1>2. Files' = Files
  BY <1>1 DEF Files
<1>3. /\ frames' \in Seq([call : {"respond", "pipe"}, response : Responses])
      /\ Len(frames') = 0 /\ 0 <= MaxDepth
  BY <1>1, EmptySeq, BoundsAssumption
<1>4. TypeOK'
  BY <1>1, <1>2, <1>3 DEF Inv, TypeOK
<1>5. FrameInv'
  BY <1>3 DEF FrameInv
<1>6. DepthInv'
  <2>1. ASSUME NEW i \in 1..Len(won) PROVE won[i].depth > Len(frames')
    <3>1. won[i] \in Winners
      BY ElementOfSeq DEF Inv, DepthInv
    <3>2. Len(frames) \in Nat
      BY LenProperties DEF Inv, TypeOK
    <3> QED
      BY <1>1, <1>3, <3>1, <3>2 DEF Inv, DepthInv, Winners
  <2> QED
    BY <1>1, <2>1 DEF Inv, DepthInv, OnlyOuterCallsOverwrite
<1>7. HandleInv'
  BY <1>1, <1>2 DEF Inv, HandleInv, HandlesAreSingleUse
<1>8. CommitInv' /\ CheckedInv' /\ CommittedIsServed' /\ FallbackContract' /\ AnswersAreBacked'
  BY <1>1 DEF CommitInv, CheckedInv, CommittedIsServed, FallbackContract, AnswersAreBacked
<1>9. BackInv'
  BY <1>1, <1>2, BackUnchanged
<1> QED
  BY <1>4, <1>5, <1>6, <1>7, <1>8, <1>9 DEF Inv

(* The parent keeps the stream it opened last. *)
LEMMA PipeOpensKeeps == Inv /\ PipeOpens => Inv'
<1> SUFFICES ASSUME Inv, PipeOpens PROVE Inv'
  OBVIOUS
<1> PICK n : n = Len(opened) + 1
  OBVIOUS
<1>1. /\ phase = "script" /\ ~intact /\ Len(opened) < MaxStreams
      /\ opened' = Append(opened, "pipe") /\ pipe' = n
      /\ UNCHANGED <<kind, phase, frames, envelope, intact, handles, won, held, outcome>>
  BY DEF PipeOpens, ScriptRuns, workerVars
<1>2. /\ Len(opened) \in Nat /\ DOMAIN opened = 1..Len(opened) /\ Files \subseteq 1..Len(opened)
      /\ opened \in Seq({"file", "pipe"})
  BY FilesAreOpened DEF Inv, TypeOK
<1>3. /\ opened' \in Seq({"file", "pipe"}) /\ Len(opened') = n /\ DOMAIN opened' = 1..n
      /\ opened'[n] = "pipe" /\ \A i \in 1..Len(opened) : opened'[i] = opened[i]
  BY <1>1, <1>2
<1>4. Files' = Files /\ n \in DOMAIN opened' \ Files' /\ n \in 1..MaxStreams
  BY <1>1, <1>2, <1>3, BoundsAssumption DEF Files
<1>5. TypeOK'
  <2>1. handles' \subseteq Files' /\ held' \subseteq Files'
    BY <1>1, <1>4 DEF Inv, TypeOK
  <2>2. pipe' \in {None} \cup (DOMAIN opened' \ Files') /\ Len(opened') <= MaxStreams
    BY <1>1, <1>3, <1>4
  <2> QED
    BY <1>1, <1>3, <2>1, <2>2 DEF Inv, TypeOK
<1>6. FrameInv' /\ DepthInv' /\ HandleInv'
  BY <1>1, <1>4
  DEF Inv, FrameInv, WellMade, DepthInv, OnlyOuterCallsOverwrite, HandleInv, HandlesAreSingleUse
<1>7. CommitInv' /\ CheckedInv' /\ CommittedIsServed' /\ FallbackContract' /\ AnswersAreBacked'
  BY <1>1 DEF CommitInv, CheckedInv, CommittedIsServed, FallbackContract, AnswersAreBacked
<1>8. BackInv'
  <2>1. LastPipe(n)'
    BY <1>1, <1>2, <1>3, <1>4 DEF LastPipe
  <2> QED
    BY <1>1, <2>1 DEF Inv, BackInv, LastPipe, AnyFile
<1> QED
  BY <1>5, <1>6, <1>7, <1>8 DEF Inv

----------------------------------------------------------------------------
(* A response stays one when a field is replaced. *)
ResponseOf(S, E) == [status : S, allow : BOOLEAN, body : Bodies, error : E]

LEMMA ResponsesAre ==
  \E S, E : /\ Responses = ResponseOf(S, E)
            /\ Statuses \subseteq S /\ 206 \in S /\ 416 \in S /\ 500 \in S /\ 502 \in S
            /\ "script_error" \in E /\ "script_no_response" \in E /\ "upstream_unreachable" \in E
            /\ "" \in E
<1> DEFINE S == Statuses \cup {0, 206, 416, 500, 502}
           E == {"", "script_error", "script_no_response", "upstream_unreachable"}
<1>1. Responses = ResponseOf(S, E)
  BY DEF Responses, ResponseOf
<1>2. Statuses \subseteq S /\ 206 \in S /\ 416 \in S /\ 500 \in S /\ 502 \in S
  OBVIOUS
<1>3. /\ "script_error" \in E /\ "script_no_response" \in E /\ "upstream_unreachable" \in E
      /\ "" \in E
  OBVIOUS
<1> HIDE DEF S, E
<1> QED
  BY <1>1, <1>2, <1>3

LEMMA ChangedBody ==
  ASSUME NEW r \in Responses, NEW x \in Bodies
  PROVE  /\ [r EXCEPT !.body = x] \in Responses
         /\ [r EXCEPT !.body = x].body = x
         /\ [r EXCEPT !.body = x].status = r.status
         /\ [r EXCEPT !.body = x].error = r.error
<1>1. PICK S, E : Responses = ResponseOf(S, E)
  BY ResponsesAre
<1> QED
  BY <1>1 DEF ResponseOf

LEMMA ChangedAllow ==
  ASSUME NEW r \in Responses, NEW x \in BOOLEAN
  PROVE  /\ [r EXCEPT !.allow = x] \in Responses
         /\ [r EXCEPT !.allow = x].allow = x
         /\ [r EXCEPT !.allow = x].status = r.status
         /\ [r EXCEPT !.allow = x].body = r.body
<1>1. PICK S, E : Responses = ResponseOf(S, E)
  BY ResponsesAre
<1> QED
  BY <1>1 DEF ResponseOf

LEMMA PartOfFile ==
  ASSUME NEW r \in Responses
  PROVE  /\ [r EXCEPT !.status = 206] \in Responses
         /\ [r EXCEPT !.status = 206].status = 206
         /\ [r EXCEPT !.status = 206].body = r.body
<1>1. PICK S, E : Responses = ResponseOf(S, E) /\ 206 \in S
  BY ResponsesAre
<1> QED
  BY <1>1 DEF ResponseOf

LEMMA Unsatisfiable ==
  ASSUME NEW r \in Responses
  PROVE  /\ [r EXCEPT !.status = 416, !.body = Text] \in Responses
         /\ [r EXCEPT !.status = 416, !.body = Text].status = 416
         /\ [r EXCEPT !.status = 416, !.body = Text].body = Text
<1>1. PICK S, E : Responses = ResponseOf(S, E) /\ 416 \in S
  BY ResponsesAre
<1>2. Text \in Bodies
  BY DEF Bodies
<1> QED
  BY <1>1, <1>2 DEF ResponseOf

LEMMA FailedIsTyped ==
  ASSUME NEW class \in {"script_error", "script_no_response", "upstream_unreachable"}
  PROVE  Failed(class) \in Responses /\ Failed(class).error = class
<1>1. Text \in Bodies
  BY DEF Bodies
<1>2. PICK S, E : /\ Responses = ResponseOf(S, E) /\ 500 \in S /\ 502 \in S
                  /\ "script_error" \in E /\ "script_no_response" \in E
                  /\ "upstream_unreachable" \in E
  BY ResponsesAre
<1>3. class \in E
  BY <1>2
<1>4. (IF class = "upstream_unreachable" THEN 502 ELSE 500) \in S
  BY <1>2
<1> QED
  BY <1>1, <1>2, <1>3, <1>4 DEF Failed, ResponseOf

(* Whatever is read out is a response, and no stream but that of a pipe or *)
(* of a file.                                                              *)
LEMMA ExtractedIsTyped ==
  ASSUME Inv, phase = "script", NEW r \in Extracted
  PROVE  r \in Responses /\ r.error = "" /\ r.body \in {Text, Stream} \cup AnyFile
<1>0. {Text, Stream} \cup AnyFile \subseteq Bodies
  BY DEF Bodies
<1>1. CASE ~intact /\ r = NoResponse
  <2>1. r.error = "" /\ r.body = Text
    BY <1>1 DEF NoResponse, Response
  <2>2. r \in Responses
    BY <1>0, <1>1 DEF NoResponse, Response, Responses
  <2> QED
    BY <2>1, <2>2
<1>2. CASE ~intact /\ r # NoResponse
  <2>1. PICK status \in Statuses \cup {500}, allow \in BOOLEAN, body \in {Text, Stream} \cup AnyFile :
          r = Response(status, allow, body)
    BY <1>2 DEF Extracted
  <2>2. r.error = "" /\ r.body = body
    BY <2>1 DEF Response
  <2>3. PICK S, E : /\ Responses = ResponseOf(S, E) /\ Statuses \subseteq S /\ 500 \in S /\ "" \in E
    BY ResponsesAre
  <2>4. status \in S /\ body \in Bodies
    BY <1>0, <2>1, <2>3
  <2>5. r \in Responses
    BY <2>1, <2>3, <2>4 DEF Response, ResponseOf
  <2> QED
    BY <2>1, <2>2, <2>5
<1>3. CASE intact /\ envelope.body = Kept
  <2>1. PICK body \in {Text} \cup AnyFile : r = [envelope EXCEPT !.body = body]
    BY <1>3 DEF Extracted
  <2>2. envelope \in Responses /\ envelope.error = "" /\ body \in Bodies
    BY <1>0 DEF Inv, TypeOK, BackInv
  <2>3. r \in Responses /\ r.body = body /\ r.error = envelope.error
    BY <2>1, <2>2, ChangedBody, Zenon
  <2> QED
    BY <2>1, <2>2, <2>3
<1>4. CASE intact /\ envelope.body # Kept
  <2>1. r = envelope
    BY <1>4 DEF Extracted
  <2> QED
    BY <1>4, <2>1 DEF Inv, TypeOK, BackInv
<1> QED
  BY <1>1, <1>2, <1>3, <1>4

LEMMA ReportsKeeps == Inv /\ Reports => Inv'
<1> SUFFICES ASSUME Inv, Reports PROVE Inv'
  OBVIOUS
<1>1. /\ phase = "script" /\ phase' = "reported" /\ outcome' \in Extracted
      /\ UNCHANGED <<kind, frames, envelope, intact, handles, won, opened, pipe, held>>
  BY DEF Reports, ScriptRuns, workerVars, hostVars
<1>2. Files' = Files
  BY <1>1 DEF Files
<1>3. outcome' \in Responses /\ outcome'.error = "" /\ outcome'.body \in {Text, Stream} \cup AnyFile
  BY <1>1, ExtractedIsTyped
<1>4. TypeOK'
  BY <1>1, <1>2, <1>3 DEF Inv, TypeOK
<1>5. FrameInv' /\ DepthInv' /\ HandleInv'
  BY <1>1, <1>2
  DEF Inv, FrameInv, WellMade, DepthInv, OnlyOuterCallsOverwrite, HandleInv, HandlesAreSingleUse
<1>6. CommitInv'
  <2> SUFFICES ASSUME won # <<>>, intact PROVE Recorded(Last(won))' /\ Reported(Last(won))'
    BY <1>1 DEF CommitInv
  <2> PICK w : w = Last(won)
    OBVIOUS
  <2>1. Recorded(w)
    BY <1>1 DEF Inv, CommitInv
  <2>2. Recorded(w)'
    BY <1>1, <2>1 DEF Recorded
  <2>3. Reported(w)'
    <3>1. CASE w.body = Kept
      <4>1. envelope.body = Kept /\ envelope.status = w.status /\ envelope \in Responses
        BY <2>1, <3>1, Tags DEF Recorded, Inv, TypeOK
      <4>2. PICK body \in {Text} \cup AnyFile : outcome' = [envelope EXCEPT !.body = body]
        BY <1>1, <4>1 DEF Extracted
      <4>3. body \in Bodies
        BY DEF Bodies
      <4>4. outcome'.status = envelope.status /\ outcome'.body = body
        BY <4>1, <4>2, <4>3, ChangedBody, Zenon
      <4> QED
        BY <1>3, <3>1, <4>1, <4>4 DEF Reported, AnyFile
    <3>2. CASE w.body # Kept
      <4>1. envelope.body # Kept
        BY <2>1, <3>2, Tags DEF Recorded
      <4> QED
        BY <1>1, <3>2, <4>1 DEF Reported, Extracted
    <3> QED
      BY <3>1, <3>2
  <2> QED
    BY <1>1, <2>2, <2>3 DEF Recorded, Reported, AnyFile
<1>7. CheckedInv' /\ CommittedIsServed' /\ FallbackContract' /\ AnswersAreBacked'
  BY <1>1 DEF CheckedInv, CommittedIsServed, FallbackContract, AnswersAreBacked
<1>8. BackInv'
  BY <1>1, <1>2, <1>3 DEF Inv, BackInv, LastPipe, AnyFile
<1> QED
  BY <1>4, <1>5, <1>6, <1>7, <1>8 DEF Inv

LEMMA FailsKeeps ==
  ASSUME Inv, NEW class \in {"script_error", "upstream_unreachable"}, Fails(class)
  PROVE  Inv'
<1>1. /\ phase' = "ran" /\ outcome' = Failed(class)
      /\ frames' = <<>> /\ won' = <<>> /\ pipe' = None /\ held' = {}
      /\ UNCHANGED <<kind, envelope, intact, handles, opened>>
  BY DEF Fails
<1>2. Files' = Files
  BY <1>1 DEF Files
<1>3. \A S : <<>> \in Seq(S) /\ Len(<<>>) = 0
  BY EmptySeq
<1>4. TypeOK'
  <2>1. outcome' \in Responses
    BY <1>1, FailedIsTyped
  <2>2. /\ frames' \in Seq([call : {"respond", "pipe"}, response : Responses])
        /\ Len(frames') <= MaxDepth
    BY <1>1, <1>3, BoundsAssumption
  <2> QED
    BY <1>1, <1>2, <2>1, <2>2 DEF Inv, TypeOK
<1>5. DepthInv'
  BY <1>1, <1>3 DEF DepthInv, OnlyOuterCallsOverwrite
<1>6. /\ FrameInv' /\ HandleInv' /\ CommitInv' /\ CheckedInv' /\ CommittedIsServed'
      /\ FallbackContract' /\ AnswersAreBacked'
  BY <1>1, <1>3
  DEF FrameInv, HandleInv, HandlesAreSingleUse, CommitInv, CheckedInv, CommittedIsServed,
      FallbackContract, AnswersAreBacked
<1>7. BackInv'
  BY <1>1, FailedIsTyped DEF Inv, BackInv, AnyFile
<1> QED
  BY <1>4, <1>5, <1>6, <1>7 DEF Inv

(* The streams a response names are still held when it is parsed. *)
LEMMA ClaimedIsRecorded ==
  ASSUME Inv, NEW w \in Winners, Recorded(w), Reported(w), outcome' = Claimed, envelope' = envelope
  PROVE  Ran(w)'
<1>1. outcome \in Responses /\ outcome.status = w.status /\ outcome # NoResponse /\ outcome.error = ""
  <2>1. outcome.status = w.status /\ outcome.error = ""
    BY DEF Recorded, Reported
  <2> QED
    BY <2>1, RecordedIsSomething DEF Inv, TypeOK, Winners
<1>2. CASE w.body = Kept
  <2>1. CASE outcome.body = Text
    <3>1. Claimed = outcome
      BY <1>1, <2>1, Tags DEF Claimed
    <3> QED
      BY <1>1, <1>2, <2>1, <3>1 DEF Ran
  <2>2. CASE outcome.body \in AnyFile
    <3>1. outcome.body[1] = "file" /\ outcome.body # Stream
      BY <2>2, Tags DEF AnyFile
    <3>2. Claimed = outcome \/ Claimed = Failed("script_error")
      BY <1>1, <3>1 DEF Claimed
    <3> QED
      BY <1>1, <1>2, <3>1, <3>2, FailedIsTyped DEF Ran
  <2> QED
    BY <1>2, <2>1, <2>2 DEF Reported
<1>3. CASE w.body # Kept
  <2>0. outcome = envelope
    BY <1>3 DEF Reported
  <2>1. CASE envelope.body = Stream /\ pipe # None /\ w.body = Piped(pipe)
    <3>1. Claimed = [outcome EXCEPT !.body = Piped(pipe)]
      BY <1>1, <2>0, <2>1, Tags DEF Claimed
    <3>2. Piped(pipe) \in Bodies
      BY <2>1, FilesAreOpened DEF Inv, TypeOK
    <3>3. Claimed.body = Piped(pipe) /\ Claimed.status = outcome.status
          /\ Claimed.error = outcome.error
      BY <1>1, <3>1, <3>2, ChangedBody
    <3> QED
      BY <1>1, <1>3, <2>1, <3>3, Tags DEF Ran
  <2>2. CASE envelope.body = Text /\ w.body = Text
    <3>1. Claimed = outcome
      BY <1>1, <2>0, <2>2, Tags DEF Claimed
    <3> QED
      BY <1>1, <1>3, <2>0, <2>2, <3>1, Tags DEF Ran
  <2>3. CASE w.status = 200 /\ \E n \in held : envelope.body = File(n) /\ w.body = File(n)
    <3>1. PICK n \in held : envelope.body = File(n) /\ w.body = File(n)
      BY <2>3
    <3>2. envelope.body[1] = "file" /\ envelope.body[2] = n /\ envelope.body # Stream
      BY <3>1, Tags
    <3>3. Claimed = outcome
      BY <1>1, <2>0, <3>1, <3>2 DEF Claimed
    <3> QED
      BY <1>1, <1>3, <2>0, <2>3, <3>1, <3>3 DEF Ran
  <2> QED
    BY <1>3, <2>1, <2>2, <2>3 DEF Recorded
<1> QED
  BY <1>2, <1>3

LEMMA ClaimedIsTyped == Inv => Claimed \in Responses
<1> SUFFICES ASSUME Inv PROVE Claimed \in Responses
  OBVIOUS
<1>1. outcome \in Responses
  BY DEF Inv, TypeOK
<1>2. Failed("script_no_response") \in Responses /\ Failed("script_error") \in Responses
  BY FailedIsTyped
<1>3. pipe # None => [outcome EXCEPT !.body = Piped(pipe)] \in Responses
  <2>1. pipe # None => Piped(pipe) \in Bodies
    BY FilesAreOpened DEF Inv, TypeOK
  <2> QED
    BY <1>1, <2>1, ChangedBody
<1> QED
  BY <1>1, <1>2, <1>3 DEF Claimed

(* Whatever the report says, a response that is accepted names a stream    *)
(* that is held.                                                           *)
LEMMA ClaimedIsBacked ==
  ASSUME Inv, phase = "reported", Claimed.error = ""
  PROVE  \/ Claimed.body = Text
         \/ \E p \in DOMAIN opened : Claimed.body = Piped(p) /\ LastPipe(p)
         \/ \E n \in Files : Claimed.body = File(n)
<1>1. /\ outcome \in Responses /\ outcome.body \in {Text, Stream} \cup AnyFile
      /\ pipe # None => LastPipe(pipe)
      /\ pipe \in {None} \cup DOMAIN opened /\ held \subseteq Files
  BY DEF Inv, TypeOK, BackInv
<1>2. outcome # NoResponse
  <2> SUFFICES ASSUME outcome = NoResponse PROVE FALSE
    OBVIOUS
  <2>1. outcome.body = Text
    BY DEF NoResponse, Response
  <2>2. Claimed = Failed("script_no_response")
    BY <2>1, Tags DEF Claimed
  <2> QED
    BY <2>2, FailedIsTyped
<1>3. CASE outcome.body = Text
  <2>1. Claimed = outcome
    BY <1>2, <1>3, Tags DEF Claimed
  <2> QED
    BY <1>3, <2>1
<1>4. CASE outcome.body = Stream
  <2>1. pipe # None /\ Claimed = [outcome EXCEPT !.body = Piped(pipe)]
    BY <1>2, <1>4, FailedIsTyped, Tags DEF Claimed
  <2>2. Piped(pipe) \in Bodies
    BY <1>1, <2>1, FilesAreOpened DEF Inv
  <2>3. Claimed.body = Piped(pipe)
    BY <1>1, <2>1, <2>2, ChangedBody
  <2> QED
    BY <1>1, <2>1, <2>3
<1>5. CASE outcome.body \in AnyFile
  <2>1. PICK n \in 1..MaxStreams : outcome.body = File(n)
    BY <1>5 DEF AnyFile
  <2>2. outcome.body[1] = "file" /\ outcome.body[2] = n /\ outcome.body # Stream
    BY <2>1, Tags
  <2>3. n \in held /\ Claimed = outcome
    BY <1>2, <2>2, FailedIsTyped DEF Claimed
  <2> QED
    BY <1>1, <2>1, <2>3
<1> QED
  BY <1>1, <1>3, <1>4, <1>5

LEMMA FinishKeeps == Inv /\ FinishOutcome => Inv'
<1> SUFFICES ASSUME Inv, FinishOutcome PROVE Inv'
  OBVIOUS
<1>1. /\ phase = "reported" /\ phase' = "ran" /\ outcome' = Claimed /\ pipe' = None /\ held' = {}
      /\ UNCHANGED <<kind, frames, envelope, intact, handles, won, opened>>
  BY DEF FinishOutcome, workerVars
<1>2. Files' = Files
  BY <1>1 DEF Files
<1>3. TypeOK'
  <2>1. outcome' \in Responses
    BY <1>1, ClaimedIsTyped
  <2>2. held' \subseteq Files' /\ pipe' \in {None} \cup (DOMAIN opened' \ Files')
    BY <1>1
  <2> QED
    BY <1>1, <1>2, <2>1, <2>2 DEF Inv, TypeOK
<1>4. FrameInv' /\ DepthInv' /\ HandleInv'
  BY <1>1, <1>2
  DEF Inv, FrameInv, WellMade, DepthInv, OnlyOuterCallsOverwrite, HandleInv, HandlesAreSingleUse
<1>5. CommitInv'
  <2> SUFFICES ASSUME won # <<>>, intact PROVE Ran(Last(won))'
    BY <1>1 DEF CommitInv
  <2>1. PICK w \in Winners : w = Last(won)
    BY EndsOfSeq DEF Inv, DepthInv
  <2>2. Recorded(w) /\ Reported(w)
    BY <1>1, <2>1 DEF Inv, CommitInv
  <2>3. Ran(w)'
    BY <1>1, <2>2, ClaimedIsRecorded
  <2> QED
    BY <1>1, <2>1, <2>3 DEF Ran
<1>6. CheckedInv' /\ CommittedIsServed' /\ FallbackContract' /\ AnswersAreBacked'
  BY <1>1 DEF CheckedInv, CommittedIsServed, FallbackContract, AnswersAreBacked
<1>7. BackInv'
  <2>1. outcome'.error = "" =>
          \/ outcome'.body = Text
          \/ \E p \in DOMAIN opened : outcome'.body = Piped(p) /\ LastPipe(p)
          \/ \E n \in Files : outcome'.body = File(n)
    BY <1>1, ClaimedIsBacked
  <2> QED
    BY <1>1, <1>2, <2>1 DEF Inv, BackInv, LastPipe, AnyFile
<1> QED
  BY <1>3, <1>4, <1>5, <1>6, <1>7 DEF Inv

LEMMA CheckKeeps == Inv /\ CheckFallback => Inv'
<1> SUFFICES ASSUME Inv, CheckFallback PROVE Inv'
  OBVIOUS
<1>1. /\ phase = "ran" /\ phase' = "checked" /\ outcome' = Checked
      /\ UNCHANGED <<kind, frames, envelope, intact, handles, won, opened, pipe, held>>
  BY DEF CheckFallback, workerVars, hostVars
<1>2. Files' = Files
  BY <1>1 DEF Files
<1>3. outcome \in Responses
  BY DEF Inv, TypeOK
<1>4. TypeOK'
  <2>1. \A a \in BOOLEAN : [outcome EXCEPT !.allow = a] \in Responses
    BY <1>3, ChangedAllow
  <2>2. ((kind = "method_not_allowed") \/ outcome.allow) \in BOOLEAN
    OBVIOUS
  <2>3. Checked \in Responses
    BY <1>3, <2>1, <2>2, FailedIsTyped DEF Checked
  <2> QED
    BY <1>1, <1>2, <2>3 DEF Inv, TypeOK
<1>5. FrameInv' /\ DepthInv' /\ HandleInv'
  BY <1>1, <1>2
  DEF Inv, FrameInv, WellMade, DepthInv, OnlyOuterCallsOverwrite, HandleInv, HandlesAreSingleUse
<1>6. CommitInv'
  <2>1. kind = "route" => outcome' = outcome
    BY <1>1 DEF Checked
  <2> QED
    BY <1>1, <2>1 DEF Inv, CommitInv, Ran
<1>7. CheckedInv'
  <2> SUFFICES ASSUME kind # "route", Checked.error = ""
               PROVE  /\ Checked.status = Required /\ Checked.body = Text
                      /\ kind = "method_not_allowed" => Checked.allow
    BY <1>1 DEF CheckedInv, Required
  <2>1. /\ outcome.status = Required /\ outcome.body = Text
        /\ Checked = [outcome EXCEPT !.allow = (kind = "method_not_allowed") \/ @]
    BY FailedIsTyped DEF Checked
  <2> QED
    <3>1. PICK x \in BOOLEAN : x = ((kind = "method_not_allowed") \/ outcome.allow)
      OBVIOUS
    <3>2. Checked = [outcome EXCEPT !.allow = x]
      BY <2>1, <3>1
    <3> QED
      BY <1>3, <2>1, <3>1, <3>2, ChangedAllow
<1>8. CommittedIsServed' /\ FallbackContract' /\ AnswersAreBacked'
  BY <1>1 DEF CommittedIsServed, FallbackContract, AnswersAreBacked
<1>9. BackInv'
  <2>1. Checked.error = "" => outcome.error = "" /\ Checked.body = outcome.body
    <3>1. CASE kind = "route" \/ outcome.error # ""
      BY <3>1 DEF Checked
    <3>2. CASE ~(kind = "route" \/ outcome.error # "")
      <4>1. PICK x \in BOOLEAN : x = ((kind = "method_not_allowed") \/ outcome.allow)
        OBVIOUS
      <4>2. Checked.error = "" => Checked = [outcome EXCEPT !.allow = x]
        BY <3>2, <4>1, FailedIsTyped DEF Checked
      <4> QED
        BY <1>3, <3>2, <4>2, ChangedAllow
    <3> QED
      BY <3>1, <3>2
  <2> QED
    BY <1>1, <1>2, <2>1 DEF Inv, BackInv, LastPipe, AnyFile
<1> QED
  BY <1>4, <1>5, <1>6, <1>7, <1>8, <1>9 DEF Inv

LEMMA AnswerKeeps == Inv /\ Answer => Inv'
<1> SUFFICES ASSUME Inv, Answer PROVE Inv'
  OBVIOUS
<1>1. /\ phase = "checked" /\ phase' = "answered" /\ outcome' \in Mapped
      /\ UNCHANGED <<kind, frames, envelope, intact, handles, won, opened, pipe, held>>
  BY DEF Answer, workerVars, hostVars
<1>2. Files' = Files
  BY <1>1 DEF Files
<1>3. outcome \in Responses
  BY DEF Inv, TypeOK
<1>4. PICK part : part = [outcome EXCEPT !.status = 206]
  OBVIOUS
<1>5. PICK none : none = [outcome EXCEPT !.status = 416, !.body = Text]
  OBVIOUS
<1>6. part \in Responses /\ part.status = 206 /\ part.body = outcome.body
  BY <1>3, <1>4, PartOfFile, Zenon
<1>7. none \in Responses /\ none.status = 416 /\ none.body = Text
  BY <1>3, <1>5, Unsatisfiable, Zenon
<1>8. PICK refused : refused = Failed("script_error")
  OBVIOUS
<1>9. refused \in Responses /\ refused.error = "script_error"
  BY <1>8, FailedIsTyped
<1>10. Mapped = IF outcome.error # "" THEN {outcome}
                ELSE (IF Vetted THEN {} ELSE {refused}) \cup
                     (IF outcome.body[1] # "file" THEN {outcome}
                      ELSE IF outcome.status # 200 THEN {refused}
                      ELSE {outcome, part, none})
  BY <1>4, <1>5, <1>8, Zenon DEF Mapped
<1>11. TypeOK'
  <2>1. outcome' \in Responses
    BY <1>1, <1>3, <1>6, <1>7, <1>9, <1>10
  <2> QED
    BY <1>1, <1>2, <2>1 DEF Inv, TypeOK
<1>12. FrameInv' /\ DepthInv' /\ HandleInv'
  BY <1>1, <1>2
  DEF Inv, FrameInv, WellMade, DepthInv, OnlyOuterCallsOverwrite, HandleInv, HandlesAreSingleUse
<1>13. CommitInv' /\ CheckedInv'
  BY <1>1 DEF CommitInv, CheckedInv
<1>14. CommittedIsServed'
  <2>1. PICK w : w = Last(won)
    OBVIOUS
  <2> SUFFICES ASSUME kind = "route", won # <<>>, intact
               PROVE  \/ /\ outcome'.status = w.status
                         /\ outcome'.body = IF w.body \in {Text, Kept} THEN Text ELSE w.body
                      \/ w.body[1] = "file" /\ outcome'.status = 206 /\ outcome'.body = w.body
                      \/ w.body[1] = "file" /\ outcome'.status = 416 /\ outcome'.body = Text
                      \/ /\ w.body = Kept
                         /\ \/ outcome'.body[1] = "file"
                            \/ outcome'.status = 416 /\ outcome'.body = Text
                            \/ outcome'.error = "script_error"
    BY <1>1, <2>1 DEF CommittedIsServed
  <2>2. Ran(w)
    BY <1>1, <2>1 DEF Inv, CommitInv
  <2>3. CASE w.body = Kept
    <3>1. CASE outcome.error = "script_error"
      BY <1>1, <1>10, <2>3, <3>1
    <3>2. CASE outcome.error = "" /\ outcome.status = w.status /\ outcome.body = Text
      BY <1>1, <1>10, <2>3, <3>2, Tags DEF Vetted
    <3>3. CASE outcome.error = "" /\ outcome.body[1] = "file"
      <4>1. outcome' \in {refused, outcome, part, none}
        BY <1>1, <1>10, <3>3
      <4>2. CASE outcome' = refused
        BY <1>9, <2>3, <4>2
      <4>3. CASE outcome' \in {outcome, part}
        <5>1. outcome'.body = outcome.body
          BY <1>6, <4>3
        <5> QED
          BY <2>3, <3>3, <5>1
      <4>4. CASE outcome' = none
        BY <1>7, <2>3, <4>4
      <4> QED
        BY <4>1, <4>2, <4>3, <4>4
    <3> QED
      BY <2>2, <2>3, <3>1, <3>2, <3>3 DEF Ran
  <2>4. CASE w.body # Kept /\ w.body[1] # "file"
    <3>1. outcome' = outcome
      BY <1>1, <1>10, <2>2, <2>4 DEF Vetted, Ran
    <3> QED
      BY <2>2, <2>4, <3>1 DEF Ran
  <2>5. CASE w.body[1] = "file"
    <3>0. w.body # Kept /\ w.body # Text
      BY <2>5, Tags
    <3>1. outcome' \in {outcome, part, none}
      BY <1>1, <1>10, <2>2, <2>5, <3>0 DEF Ran, Vetted
    <3>2. outcome.status = w.status /\ outcome.body = w.body
      BY <2>2, <3>0 DEF Ran
    <3>3. CASE outcome' = outcome
      BY <3>0, <3>2, <3>3
    <3>4. CASE outcome' = part
      BY <1>6, <2>5, <3>2, <3>4
    <3>5. CASE outcome' = none
      BY <1>7, <2>5, <3>5
    <3> QED
      BY <3>1, <3>3, <3>4, <3>5
  <2> QED
    BY <2>3, <2>4, <2>5
<1>15. FallbackContract'
  <2> SUFFICES ASSUME kind # "route", outcome'.error = ""
               PROVE  /\ outcome'.status = Required /\ outcome'.body = Text
                      /\ kind = "method_not_allowed" => outcome'.allow
    BY <1>1 DEF FallbackContract, Required
  <2>1. outcome.error = "" => outcome.body = Text
    BY <1>1 DEF Inv, CheckedInv
  <2>2. outcome' = outcome
    BY <1>1, <1>9, <1>10, <2>1, Tags
  <2> QED
    BY <1>1, <2>2 DEF Inv, CheckedInv
<1>16. BackInv'
  BY <1>1, <1>2 DEF Inv, BackInv, LastPipe, AnyFile
<1>17. AnswersAreBacked'
  <2> SUFFICES ASSUME outcome'.error = ""
               PROVE  \/ outcome'.body = Text
                      \/ /\ kind = "route" /\ outcome'.body[1] = "pipe"
                         /\ LastPipe(outcome'.body[2])
                      \/ /\ kind = "route" /\ outcome'.body[1] = "file"
                         /\ outcome'.body[2] \in Files /\ outcome'.status \in {200, 206}
    BY <1>1, <1>2 DEF AnswersAreBacked, LastPipe
  <2>1. /\ outcome.error = ""
        /\ \/ outcome.body[1] # "file" /\ outcome' = outcome
           \/ outcome.body[1] = "file" /\ outcome.status = 200 /\ outcome' \in {outcome, part, none}
    BY <1>1, <1>9, <1>10
  <2>2. kind # "route" => outcome.body = Text
    BY <1>1, <2>1 DEF Inv, CheckedInv
  <2>3. CASE outcome.body = Text
    BY <2>1, <2>3, Tags
  <2>4. CASE kind = "route" /\ \E p \in DOMAIN opened : outcome.body = Piped(p) /\ LastPipe(p)
    <3>1. PICK p \in DOMAIN opened : outcome.body = Piped(p) /\ LastPipe(p)
      BY <2>4
    <3>2. outcome.body[1] = "pipe" /\ outcome.body[2] = p
      BY <3>1, Tags
    <3> QED
      BY <2>1, <2>4, <3>1, <3>2
  <2>5. CASE kind = "route" /\ \E n \in Files : outcome.body = File(n)
    <3>1. PICK n \in Files : outcome.body = File(n)
      BY <2>5
    <3>2. outcome.body[1] = "file" /\ outcome.body[2] = n
      BY <3>1, Tags
    <3>3. CASE outcome' = outcome
      BY <2>1, <2>5, <3>2, <3>3
    <3>4. CASE outcome' = part
      BY <1>6, <2>5, <3>2, <3>4
    <3>5. CASE outcome' = none
      BY <1>7, <3>5
    <3> QED
      BY <2>1, <3>2, <3>3, <3>4, <3>5
  <2> QED
    BY <1>1, <2>1, <2>2, <2>3, <2>4, <2>5 DEF Inv, BackInv, Files
<1> QED
  BY <1>11, <1>12, <1>13, <1>14, <1>15, <1>16, <1>17 DEF Inv

LEMMA StutterKeeps == Inv /\ UNCHANGED vars => Inv'
<1> SUFFICES ASSUME Inv, UNCHANGED vars PROVE Inv'
  OBVIOUS
<1>1. UNCHANGED <<kind, phase, frames, envelope, intact, handles, won, opened, pipe, held, outcome>>
  BY DEF vars, workerVars, hostVars
<1>2. Files' = Files
  BY <1>1 DEF Files
<1>3. TypeOK'
  BY <1>1, <1>2 DEF Inv, TypeOK
<1>4. FrameInv' /\ DepthInv' /\ HandleInv'
  BY <1>1, <1>2
  DEF Inv, FrameInv, WellMade, DepthInv, OnlyOuterCallsOverwrite, HandleInv, HandlesAreSingleUse
<1>5. CommitInv'
  BY <1>1 DEF Inv, CommitInv, Recorded, Reported, Ran, AnyFile
<1>6. CheckedInv' /\ CommittedIsServed' /\ FallbackContract'
  <2>1. CheckedInv' /\ FallbackContract'
    BY <1>1 DEF Inv, CheckedInv, Required, FallbackContract
  <2>2. CommittedIsServed'
    BY <1>1, Zenon DEF Inv, CommittedIsServed, Last, Text, Kept
  <2> QED
    BY <2>1, <2>2
<1>7. AnswersAreBacked'
  BY <1>1, <1>2 DEF Inv, AnswersAreBacked
<1>8. BackInv'
  BY <1>1, <1>2 DEF Inv, BackInv, LastPipe, AnyFile
<1> QED
  BY <1>3, <1>4, <1>5, <1>6, <1>7, <1>8 DEF Inv

LEMMA NextKeeps == Inv /\ [Next]_vars => Inv'
<1> SUFFICES ASSUME Inv, [Next]_vars PROVE Inv'
  OBVIOUS
<1>1. CASE OpenStream
  BY <1>1, OpenKeeps
<1>2. CASE \E status \in Statuses, allow \in BOOLEAN :
             \/ \E body \in {Text, Kept} \cup {File(n) : n \in Files} : Respond(status, allow, body)
             \/ Pipe(status, allow)
  BY <1>2, RespondKeeps, PipeKeeps
<1>3. CASE RespondRecords
  BY <1>3, RespondRecordsKeeps
<1>4. CASE PipeRecords
  BY <1>4, PipeRecordsKeeps
<1>5. CASE Throws
  BY <1>5, ThrowsKeeps
<1>6. CASE Reports
  BY <1>6, ReportsKeeps
<1>7. CASE \E class \in {"script_error", "upstream_unreachable"} : Fails(class)
  BY <1>7, FailsKeeps
<1>8. CASE FinishOutcome
  BY <1>8, FinishKeeps
<1>9. CASE CheckFallback
  BY <1>9, CheckKeeps
<1>10. CASE Answer
  BY <1>10, AnswerKeeps
<1>11. CASE Answered \/ UNCHANGED vars
  BY <1>11, StutterKeeps DEF Answered
<1>12. CASE Tampers
  BY <1>12, TampersKeeps
<1>13. CASE PipeOpens
  BY <1>13, PipeOpensKeeps
<1> QED
  BY <1>1, <1>2, <1>3, <1>4, <1>5, <1>6, <1>7, <1>8, <1>9, <1>10, <1>11, <1>12, <1>13 DEF Next

LEMMA InvHolds == Spec => []Inv
<1> QED
  BY InitKeeps, NextKeeps, PTL DEF Spec

----------------------------------------------------------------------------
(* Every reachable state has the types of TypeOK: handles, held streams    *)
(* and the pipe are of streams that were opened, and of the right kind.    *)
THEOREM EnvelopeTyped == Spec => []TypeOK
<1>1. Inv => TypeOK
  BY DEF Inv
<1> QED
  BY <1>1, InvHolds, PTL

(* What respond or pipe recorded last is what the client gets, with the    *)
(* stream that very call opened: finish_outcome always finds it.  The one  *)
(* exception is an array of bytes the script holds on to, which            *)
(* JSON.stringify may read out as a file.                                  *)
THEOREM CommittedServed == Spec => []CommittedIsServed
<1>1. Inv => CommittedIsServed
  BY DEF Inv
<1> QED
  BY <1>1, InvHolds, PTL

(* Whatever a script makes of the prelude and of its record, an answer     *)
(* without an error is made of streams the parent opened in this run.      *)
THEOREM AnswersBacked == Spec => []AnswersAreBacked
<1>1. Inv => AnswersAreBacked
  BY DEF Inv
<1> QED
  BY <1>1, InvHolds, PTL

(* Of calls one after the other the first wins: only a call that was in    *)
(* progress around the winner can replace its response.                    *)
THEOREM OuterCallsOverwrite == Spec => []OnlyOuterCallsOverwrite
<1>1. Inv => OnlyOuterCallsOverwrite
  BY DEF Inv, DepthInv
<1> QED
  BY <1>1, InvHolds, PTL

(* FILE_HANDLES gives each file to one response, however calls nest. *)
THEOREM HandlesUsedOnce == Spec => []HandlesAreSingleUse
<1>1. Inv => HandlesAreSingleUse
  BY DEF Inv, HandleInv
<1> QED
  BY <1>1, InvHolds, PTL

(* run_fallback lets a fallback answer with its own status and a buffered  *)
(* body only, and with a host-made Allow on 405; else the answer fails.    *)
THEOREM FallbacksKeepContract == Spec => []FallbackContract
<1>1. Inv => FallbackContract
  BY DEF Inv
<1> QED
  BY <1>1, InvHolds, PTL
=============================================================================
