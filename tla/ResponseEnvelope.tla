-------------------------- MODULE ResponseEnvelope --------------------------
(***************************************************************************)
(* How one run decides on its response, from the calls of the script to    *)
(* the answer given to hyper: ctx.respond, ctx.http.pipe, ctx.file.stream  *)
(* and files[].stream of the prelude, the streams the parent holds for     *)
(* them (HostState, FileAccess, UploadAccess), the reading of the worker's *)
(* final record (src/src/script.rs), and the checks of the parent          *)
(* (run_fallback, map_handled, map_file_response in src/src/server.rs).    *)
(*                                                                         *)
(* respond and pipe convert what the script passes with String(..) and     *)
(* property reads, which run code of the script: calls nest.  A script may *)
(* also replace what the prelude is made of: __sd, JSON, the prototypes.   *)
(* The module follows the worker until it does (intact); from then on the  *)
(* parent may be asked for anything and be told anything.  Processes,      *)
(* deadline and protocol are in ScriptRun.                                 *)
(***************************************************************************)
EXTENDS Integers, Sequences, SequencesExt

CONSTANTS
  Kinds,        \* match kinds: "route", "not_found", "method_not_allowed"
  Statuses,     \* statuses a script uses
  MaxDepth,     \* bound: calls in progress at once
  MaxStreams    \* bound: streams opened by the run

ASSUME BoundsAssumption == MaxDepth \in Nat /\ MaxStreams \in Nat

ASSUME StatusesAssumption == Statuses \subseteq 100..599       \* checkStatus

VARIABLES
  kind,       \* of the request
  phase,      \* "script", "reported", "ran", "checked", "answered"
  frames,     \* calls of respond and pipe in progress, innermost last
  envelope,   \* envelope.response, in the worker
  intact,     \* the script has left __sd and the built-ins alone
  handles,    \* FILE_HANDLES: handles a response may still use
  opened,     \* the kinds of the streams opened so far, by number
  pipe,       \* HostState.pipe
  held,       \* the bodies in FileAccess.streams and UploadAccess.streams
  outcome,    \* what the run came to, then what is mapped, then the answer
  won         \* history: the calls that returned true, unless the run failed

workerVars == <<frames, envelope, intact, handles, won>>
hostVars == <<opened, pipe, held>>
vars == <<kind, phase, workerVars, hostVars, outcome>>

None == 0

Text == <<"text", 0>>           \* a string, or bytes only the prelude holds
Kept == <<"kept", 0>>           \* an array of bytes that the script holds too
Stream == <<"stream", 0>>       \* the record of a pipe does not name its stream
File(n) == <<"file", n>>
Piped(n) == <<"pipe", n>>

Files == {n \in DOMAIN opened : opened[n] = "file"}

Response(status, allow, body) == [status |-> status, allow |-> allow, body |-> body, error |-> ""]

NoResponse == Response(0, FALSE, Text)

Failed(class) ==
  [status |-> IF class = "upstream_unreachable" THEN 502 ELSE 500,
   allow |-> FALSE, body |-> Text, error |-> class]

(* The code of the script runs: at top level, or inside a conversion. *)
ScriptRuns == phase = "script"

(* The code of the prelude runs, and does what it says. *)
PreludeRuns == ScriptRuns /\ intact

Calls == PreludeRuns /\ envelope = NoResponse /\ Len(frames) < MaxDepth

Top == Last(frames)

Returns == frames' = Front(frames)

----------------------------------------------------------------------------
(* ctx.file.stream and files[].stream: the parent opens the file and keeps *)
(* it under a fresh number; the script gets an opaque handle.              *)
OpenStream ==
  /\ ScriptRuns /\ Len(opened) < MaxStreams
  /\ opened' = Append(opened, "file")
  /\ held' = held \cup {Len(opened) + 1}
  /\ handles' = handles \cup {Len(opened) + 1}
  /\ UNCHANGED <<kind, phase, frames, envelope, intact, won, pipe, outcome>>

RespondUnguarded(status, allow, body) ==        \* slip: does not look for a response
  /\ PreludeRuns /\ Len(frames) < MaxDepth
  /\ body \in {Text, Kept} \/ body[2] \in Files
  /\ frames' = Append(frames, [call |-> "respond", response |-> Response(status, allow, body)])
  /\ UNCHANGED <<kind, phase, envelope, intact, handles, won, hostVars, outcome>>

(* With a response already there the call returns FALSE at once, with a    *)
(* warning, and changes nothing.                                           *)
Respond(status, allow, body) ==
  /\ Calls
  /\ body \in {Text, Kept} \/ body[2] \in Files
  /\ frames' = Append(frames, [call |-> "respond", response |-> Response(status, allow, body)])
  /\ UNCHANGED <<kind, phase, envelope, intact, handles, won, hostVars, outcome>>

Pipe(status, allow) ==
  /\ Calls
  /\ frames' = Append(frames, [call |-> "pipe", response |-> Response(status, allow, Stream)])
  /\ UNCHANGED <<kind, phase, envelope, intact, handles, won, hostVars, outcome>>

(* checkHostOwnedAllow, checkBody and checkFileStreamResponse.             *)
Acceptable(r) ==
  /\ ~(kind = "method_not_allowed" /\ r.allow)
  /\ r.body[1] = "file" => r.body[2] \in handles /\ r.status = 200

Wins(status, body) ==
  won' = Append(won, [depth |-> Len(frames), status |-> status, body |-> body])

RespondRecordsKeepingHandle ==          \* slip: FILE_HANDLES.delete forgotten
  /\ PreludeRuns /\ frames # <<>> /\ Top.call = "respond" /\ Acceptable(Top.response)
  /\ envelope' = Top.response
  /\ Wins(Top.response.status, Top.response.body)
  /\ Returns
  /\ UNCHANGED <<kind, phase, intact, handles, hostVars, outcome>>

(* The rest of respond, after its conversions: no second look at the       *)
(* response that may have appeared meanwhile.  Between the lookup of a     *)
(* handle and its removal only built-ins run.                              *)
RespondRecords ==
  /\ PreludeRuns /\ frames # <<>> /\ Top.call = "respond" /\ Acceptable(Top.response)
  /\ envelope' = Top.response
  /\ handles' = handles \ {Top.response.body[2]}
  /\ Wins(Top.response.status, Top.response.body)
  /\ Returns
  /\ UNCHANGED <<kind, phase, intact, hostVars, outcome>>

PipeRecordsOnFirst ==                   \* slip: the parent keeps the stream it has
  /\ PreludeRuns /\ frames # <<>> /\ Top.call = "pipe" /\ Len(opened) < MaxStreams
  /\ opened' = Append(opened, "pipe")
  /\ pipe' = IF pipe = None THEN Len(opened) + 1 ELSE pipe
  /\ envelope' = Top.response
  /\ Wins(Top.response.status, Piped(Len(opened) + 1))
  /\ Returns
  /\ UNCHANGED <<kind, phase, intact, handles, held, outcome>>

(* The bridge call, which the worker waits for, and the record of its      *)
(* answer.  A stream the parent held already is dropped.  Between the two  *)
(* callBridge runs JSON.parse and no code of the script, while intact.     *)
PipeRecords ==
  /\ PreludeRuns /\ frames # <<>> /\ Top.call = "pipe" /\ Len(opened) < MaxStreams
  /\ opened' = Append(opened, "pipe")
  /\ pipe' = Len(opened) + 1
  /\ envelope' = Top.response
  /\ Wins(Top.response.status, Piped(Len(opened) + 1))
  /\ Returns
  /\ UNCHANGED <<kind, phase, intact, handles, held, outcome>>

(* A bad argument, a used handle, an upstream failure, or a conversion     *)
(* that throws; the code around the call may catch it.                     *)
Throws ==
  /\ PreludeRuns /\ frames # <<>>
  /\ Returns
  /\ UNCHANGED <<kind, phase, envelope, intact, handles, won, hostVars, outcome>>

----------------------------------------------------------------------------
(* The script replaces something the prelude uses.  What its calls do to   *)
(* the envelope is no longer followed.                                     *)
Tampers ==
  /\ PreludeRuns
  /\ intact' = FALSE
  /\ frames' = <<>>
  /\ UNCHANGED <<kind, phase, envelope, handles, won, hostVars, outcome>>

(* HostState::dispatch opens a stream for a call whose record nobody can   *)
(* vouch for: JSON.parse may throw away its answer, or keep it for later.  *)
PipeOpens ==
  /\ ScriptRuns /\ ~intact /\ Len(opened) < MaxStreams
  /\ opened' = Append(opened, "pipe")
  /\ pipe' = Len(opened) + 1
  /\ UNCHANGED <<kind, phase, workerVars, held, outcome>>

(***************************************************************************)
(* What EXTRACT reads out.  JSON.stringify calls the toJSON of an array    *)
(* the script holds, which can put a file in the place of the bytes; of a  *)
(* tampered realm it can say anything.  A status no response can have      *)
(* becomes 500 (script_status), and a record that does not parse fails.    *)
(***************************************************************************)
AnyFile == {File(n) : n \in 1..MaxStreams}

Extracted ==
  IF ~intact
  THEN {NoResponse} \cup
       {Response(status, allow, body) :
          status \in Statuses \cup {500}, allow \in BOOLEAN, body \in {Text, Stream} \cup AnyFile}
  ELSE IF envelope.body = Kept
  THEN {[envelope EXCEPT !.body = body] : body \in {Text} \cup AnyFile}
  ELSE {envelope}

(* The script runs to its end and the worker reports the envelope. *)
Reports ==
  /\ ScriptRuns /\ frames = <<>>
  /\ phase' = "reported"
  /\ outcome' \in Extracted
  /\ UNCHANGED <<kind, workerVars, hostVars>>

(* An uncaught throw, a dead worker or the deadline: whatever is recorded, *)
(* the parent's streams are dropped.                                       *)
Fails(class) ==
  /\ ScriptRuns
  /\ phase' = "ran"
  /\ outcome' = Failed(class)
  /\ frames' = <<>> /\ won' = <<>> /\ pipe' = None /\ held' = {}
  /\ UNCHANGED <<kind, envelope, intact, handles, opened>>

ClaimedUnchecked ==                     \* slip: a file is taken at its word
  CASE outcome = NoResponse -> Failed("script_no_response")
    [] outcome.body = Stream ->
         IF pipe = None THEN Failed("script_error")
                        ELSE [outcome EXCEPT !.body = Piped(pipe)]
    [] OTHER -> outcome

(* parse_host_record and parse_script_body: the report against the streams *)
(* that take_streams moves out.                                            *)
Claimed ==
  CASE outcome = NoResponse -> Failed("script_no_response")
    [] outcome.body = Stream ->
         IF pipe = None THEN Failed("script_error")
                        ELSE [outcome EXCEPT !.body = Piped(pipe)]
    [] outcome.body[1] = "file" ->
         IF outcome.body[2] \notin held THEN Failed("script_error") ELSE outcome
    [] OTHER -> outcome

(* finish_outcome: what the response does not claim is dropped.            *)
FinishOutcome ==
  /\ phase = "reported"
  /\ phase' = "ran"
  /\ outcome' = Claimed
  /\ pipe' = None /\ held' = {}
  /\ UNCHANGED <<kind, workerVars, opened>>

----------------------------------------------------------------------------
Required == IF kind = "method_not_allowed" THEN 405 ELSE 404

CheckedByStatus ==                      \* slip: a stream passes
  IF kind = "route" \/ outcome.error # "" THEN outcome
  ELSE IF outcome.status # Required THEN Failed("script_error")
  ELSE [outcome EXCEPT !.allow = (kind = "method_not_allowed") \/ @]

(* What run_fallback makes of the outcome of a fallback script.  The host  *)
(* sets Allow on a 405, and owns it there.                                 *)
Checked ==
  IF kind = "route" \/ outcome.error # "" THEN outcome
  ELSE IF outcome.status # Required \/ outcome.body # Text THEN Failed("script_error")
  ELSE [outcome EXCEPT !.allow = (kind = "method_not_allowed") \/ @]

CheckFallback ==
  /\ phase = "ran"
  /\ phase' = "checked"
  /\ outcome' = Checked
  /\ UNCHANGED <<kind, workerVars, hostVars>>

(* The prelude has checked the headers, and those of a file it recorded    *)
(* for the framing the host owns.                                          *)
Vetted == intact /\ (outcome.body[1] = "file" => envelope.body = outcome.body)

(* map_handled and map_file_response: a file is answered whole, in part,   *)
(* or, for a range it cannot satisfy, not at all.  The parent's own look   *)
(* at the headers (response_headers, framing_header) is for a response     *)
(* nobody has vetted.                                                      *)
Mapped ==
  IF outcome.error # "" THEN {outcome}
  ELSE (IF Vetted THEN {} ELSE {Failed("script_error")}) \cup
       (IF outcome.body[1] # "file" THEN {outcome}
        ELSE IF outcome.status # 200 THEN {Failed("script_error")}
        ELSE {outcome, [outcome EXCEPT !.status = 206],
              [outcome EXCEPT !.status = 416, !.body = Text]})

Answer ==
  /\ phase = "checked"
  /\ phase' = "answered"
  /\ outcome' \in Mapped
  /\ UNCHANGED <<kind, workerVars, hostVars>>

----------------------------------------------------------------------------
Init ==
  /\ kind \in Kinds
  /\ phase = "script"
  /\ frames = <<>> /\ envelope = NoResponse /\ intact = TRUE /\ handles = {}
  /\ opened = <<>> /\ pipe = None /\ held = {}
  /\ outcome = NoResponse
  /\ won = <<>>

Answered == phase = "answered" /\ UNCHANGED vars

Next ==
  \/ OpenStream
  \/ \E status \in Statuses, allow \in BOOLEAN :
       \/ \E body \in {Text, Kept} \cup {File(n) : n \in Files} : Respond(status, allow, body)
       \/ Pipe(status, allow)
  \/ RespondRecords \/ PipeRecords \/ Throws
  \/ Tampers \/ PipeOpens
  \/ Reports \/ \E class \in {"script_error", "upstream_unreachable"} : Fails(class)
  \/ FinishOutcome \/ CheckFallback \/ Answer
  \/ Answered

Spec == Init /\ [][Next]_vars

----------------------------------------------------------------------------
Bodies == {Text, Kept, Stream} \cup AnyFile \cup {Piped(n) : n \in 1..MaxStreams}

Responses ==
  [status : Statuses \cup {0, 206, 416, 500, 502}, allow : BOOLEAN, body : Bodies,
   error : {"", "script_error", "script_no_response", "upstream_unreachable"}]

(* Type invariant. *)
TypeOK ==
  /\ kind \in Kinds
  /\ phase \in {"script", "reported", "ran", "checked", "answered"}
  /\ frames \in Seq([call : {"respond", "pipe"}, response : Responses]) /\ Len(frames) <= MaxDepth
  /\ envelope \in Responses
  /\ intact \in BOOLEAN
  /\ handles \subseteq Files
  /\ opened \in Seq({"file", "pipe"}) /\ Len(opened) <= MaxStreams
  /\ pipe \in {None} \cup (DOMAIN opened \ Files)
  /\ held \subseteq Files
  /\ outcome \in Responses

(***************************************************************************)
(* What the client gets is what the last call that returned true recorded, *)
(* with the very stream that call opened: neither the stream of a call it  *)
(* overrode, nor an error saying that a stream "was not recorded".  A      *)
(* range may narrow a file.  Only an array the script holds on to may      *)
(* still become a file, and if the parent refuses that file, an error.     *)
(***************************************************************************)
CommittedIsServed ==
  phase = "answered" /\ kind = "route" /\ intact /\ won # <<>> =>
    LET w == Last(won)
        buffered == w.body \in {Text, Kept}
        exact == outcome.status = w.status /\ outcome.body = IF buffered THEN Text ELSE w.body
        part  == outcome.status = 206 /\ outcome.body = w.body
        empty == outcome.status = 416 /\ outcome.body = Text
    IN \/ exact
       \/ w.body[1] = "file" /\ (part \/ empty)
       \/ w.body = Kept /\ (outcome.body[1] = "file" \/ empty \/ outcome.error = "script_error")

(***************************************************************************)
(* Whatever a script does to the worker, an answer without an error is     *)
(* made of what the parent has: the stream of the last pipe call it served *)
(* in this run, or a file it opened in this run and answers with 200 or    *)
(* 206, or bytes; a fallback has only bytes.                               *)
(***************************************************************************)
AnswersAreBacked ==
  phase = "answered" /\ outcome.error = "" =>
    \/ outcome.body = Text
    \/ /\ kind = "route" /\ outcome.body[1] = "pipe"
       /\ outcome.body[2] \in DOMAIN opened \ Files
       /\ \A n \in DOMAIN opened \ Files : n <= outcome.body[2]
    \/ /\ kind = "route" /\ outcome.body[1] = "file"
       /\ outcome.body[2] \in Files /\ outcome.status \in {200, 206}

(* A later call replaces a response only when it was in progress, around   *)
(* the call that recorded it: calls made one after the other have a single *)
(* winner, the first.                                                      *)
OnlyOuterCallsOverwrite ==
  \A i, j \in DOMAIN won : i < j => won[i].depth > won[j].depth

(* A file handle is consumed by one response, however calls nest. *)
HandlesAreSingleUse ==
  \A i, j \in DOMAIN won : i # j /\ won[i].body[1] = "file" => won[i].body # won[j].body

(* A fallback answers with its own status, a buffered body and, on 405, a  *)
(* host-made Allow, or it fails.                                           *)
FallbackContract ==
  phase = "answered" /\ kind # "route" /\ outcome.error = "" =>
    /\ outcome.status = Required
    /\ outcome.body = Text
    /\ kind = "method_not_allowed" => outcome.allow

----------------------------------------------------------------------------
(* docs/contracts/ctx-api.md:48: "The first call wins and returns `true`;  *)
(* later calls are ignored, return `false`".  respond and pipe look for a  *)
(* response before they convert their arguments, and not again after.      *)
FirstCallWins == Len(won) <= 1
=============================================================================
