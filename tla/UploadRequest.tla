--------------------------- MODULE UploadRequest ---------------------------
(***************************************************************************)
(* One request from its head to its log line: the route is found, the body *)
(* is read or parsed into temporary files under one deadline, a script     *)
(* runs and opens files, and what it answers is written or relayed.  The   *)
(* directory of the uploads is shared: parser, run, host calls that are    *)
(* still running and relay each keep it, and the last to go removes it.    *)
(* The exchange with the worker is in ScriptRun, the relay in FileRelay.   *)
(*                                                                         *)
(* Handlers are in src/src/server.rs, uploads in src/src/files.rs.  Sizes  *)
(* of uploads are in the units of the limits below.                        *)
(***************************************************************************)
EXTENDS FileRelay, Matcher, Ranges

CONSTANTS
  Routes, Methods, Paths,   \* the configured routes, what clients ask for
  MaxBytes,                 \* files.upload_max_bytes
  Allowance,                \* MULTIPART_FRAMING_ALLOWANCE
  Lengths,                  \* bound: the Content-Lengths clients announce
  BodyLimit,                \* NON_MULTIPART_BODY_LIMIT
  ReadCap,                  \* MAX_READ_BYTES
  MaxParts,                 \* bound: the parts of a form
  MaxCalls                  \* bound: file calls of a run

Unknown == -1               \* None, where a number is optional

ASSUME RequestAssumption ==
  /\ MaxBytes \in Nat /\ Allowance \in Nat /\ BodyLimit \in Nat /\ ReadCap \in Nat
  /\ MaxParts \in Nat /\ MaxCalls \in Nat
  /\ MaxBytes <= MaxFile
  /\ Lengths \subseteq Nat \cup {Unknown}

ASSUME RoutesAssumption ==
  /\ Routes \in Tables
  /\ Paths \subseteq Seq(Segments)

VARIABLES
  phase,      \* of the handler
  length,     \* Content-Length of the request
  wire,       \* body bytes read, framing included
  sent,       \* the parts the client began: [file, size]
  step,       \* where the parser is
  total,      \* total_bytes
  counted,    \* counted_bytes
  size,       \* bytes written of the file at hand
  stored,     \* sizes of the finished files
  dir,        \* the temporary directory
  onDisk,     \* how many files are in it
  late,       \* a file is being created with nobody left to wait for it
  holders,    \* who keeps the directory
  calls,      \* the chain: one entry per file call
  inCall,     \* the call that a host thread is working on, 0 for none
  answer,     \* what a response without a relay says, and its line
  logged      \* that line is written

clientVars == <<length, wire, sent>>
parseVars  == <<step, total, counted, size, stored>>
diskVars   == <<dir, onDisk, late, holders>>
callVars   == <<calls, inCall>>
answerVars == <<answer, logged>>
vars == <<phase, clientVars, parseVars, diskVars, callVars, answerVars, relayVars>>

NoAnswer == [status |-> 0, error |-> "", bytes |-> Unknown, upload |-> [files |-> 0, total |-> 0]]

(* upload_log, request_body_bytes, and the class and status of the answer. *)
Answer(status, error, bodyBytes, files, totalBytes) ==
  answer' = [status |-> status, error |-> error, bytes |-> bodyBytes,
             upload |-> [files |-> files, total |-> totalBytes]]

Known(n) == IF n = Unknown THEN 0 ELSE n
BodyBytes(n) == IF length = Unknown THEN n ELSE length

StatusOf(error) ==
  CASE error = "invalid_multipart" -> 400
    [] error = "upload_too_large"  -> 413
    [] error = "upload_io_error"   -> 500

----------------------------------------------------------------------------
Init ==
  /\ phase = "routing"
  /\ length \in Lengths /\ wire = 0 /\ sent = <<>>
  /\ step = "none" /\ total = 0 /\ counted = Unknown /\ size = 0 /\ stored = <<>>
  /\ dir = "none" /\ onDisk = 0 /\ late = FALSE /\ holders = {}
  /\ calls = <<>> /\ inCall = 0
  /\ answer = NoAnswer /\ logged = FALSE
  /\ RelayInit

KeepAll(who) ==                 \* slip: the guard is not let go
  UNCHANGED <<holders, dir>>

(* The last Arc<UploadStore>, or the TempDir itself, is dropped. *)
Release(who) ==
  /\ holders' = holders \ {who}
  /\ dir' = IF holders' = {} /\ dir = "live" THEN "dropping" ELSE dir

(* remove_dir_all: the files that are there, then the directory; an entry  *)
(* that came in between makes rmdir fail, and nobody looks at the error.   *)
SweepDirectory ==
  /\ dir = "dropping"
  /\ dir' = "sweeping" /\ onDisk' = 0
  /\ UNCHANGED <<phase, clientVars, parseVars, late, holders, callVars, answerVars, relayVars>>

RemoveDirectory ==
  /\ dir = "sweeping"
  /\ dir' = IF onDisk = 0 THEN "gone" ELSE "orphan"
  /\ UNCHANGED <<phase, clientVars, parseVars, onDisk, late, holders, callVars, answerVars,
                 relayVars>>

(* tokio::fs runs create on its own pool: it happens, awaited or not. *)
CreateLands ==
  /\ late
  /\ late' = FALSE
  /\ onDisk' = IF dir = "gone" THEN onDisk ELSE onDisk + 1
  /\ UNCHANGED <<phase, clientVars, parseVars, dir, holders, callVars, answerVars, relayVars>>

----------------------------------------------------------------------------
(* route_request: only a matched route reads the body at all. *)
RouteRequest ==
  /\ phase = "routing"
  /\ \E method \in Methods, path \in Paths :
       IF MatchRoute(Routes, method, path) # 0
       THEN phase' = "preparing" /\ UNCHANGED answer
       ELSE \/ phase' = "answering" /\ Answer(404, "not_found", Unknown, 0, 0)
            \/ phase' = "running" /\ UNCHANGED answer      \* a fallback is configured
  /\ UNCHANGED <<clientVars, parseVars, diskVars, callVars, logged, relayVars>>

(* A body that is no multipart form is buffered up to its own limit; every *)
(* way to fail looks like a body that is too large.                        *)
BufferBody ==
  /\ phase = "preparing" /\ step = "none"
  /\ \/ \E n \in 0..BodyLimit :
          /\ length \in {Unknown, n}
          /\ wire' = n /\ counted' = n
          /\ step' = "buffered"
          /\ phase' = "running"
          /\ UNCHANGED answer
     \/ /\ phase' = "answering"
        /\ Answer(413, "request_body_too_large", length, 0, 0)
        /\ UNCHANGED <<wire, step, counted>>
  /\ UNCHANGED <<length, sent, total, size, stored, diskVars, callVars, logged, relayVars>>

(* A ParseFailure drops the directory on its way up to the answer. *)
UploadFails(error, files, count) ==
  /\ phase' = "answering"
  /\ Answer(StatusOf(error), error, BodyBytes(count), files, Known(count))
  /\ Release("parse")

WireLimit == MaxBytes + Allowance

(* The Content-Length check, create_upload_dir and the form's boundary. *)
BeginUpload ==
  /\ phase = "preparing" /\ step = "none"
  /\ \/ /\ length # Unknown /\ length > WireLimit
        /\ UploadFails("upload_too_large", 0, Unknown)
        /\ UNCHANGED step
     \/ /\ length <= WireLimit
        /\ UploadFails("upload_io_error", 0, Unknown)
        /\ UNCHANGED step
     \/ /\ length <= WireLimit
        /\ dir' = "live" /\ holders' = {"parse"}
        /\ step' = "parts"
        /\ UNCHANGED <<phase, answer>>
  /\ UNCHANGED <<clientVars, total, counted, size, stored, onDisk, late, callVars, logged,
                 relayVars>>

(* The client has n more bytes, within the length it announced. *)
Arrives(n) ==
  /\ length = Unknown \/ wire + n <= length
  /\ wire' = wire + n

(* Broken syntax, no boundary, a part without a name, the end of the body  *)
(* before the end of the form, or more than DefaultBodyLimit lets through. *)
FormFails ==
  /\ phase = "preparing" /\ step \in {"parts", "data"}
  /\ \/ /\ UploadFails("invalid_multipart", Len(stored), counted)
        /\ UNCHANGED wire
     \/ /\ length = Unknown
        /\ wire' = WireLimit + 1
        /\ UploadFails("upload_too_large", Len(stored), counted)
  /\ UNCHANGED <<length, sent, parseVars, onDisk, late, callVars, logged, relayVars>>

(* next_field: the head of a part; a file is created before its data. *)
NextPart ==
  /\ phase = "preparing" /\ step = "parts"
  /\ Len(sent) < MaxParts /\ wire < WireLimit /\ Arrives(1)
  /\ size' = 0
  /\ \E file \in BOOLEAN :
       /\ sent' = Append(sent, [file |-> file, size |-> 0])
       /\ step' = IF file THEN "creating" ELSE "data"
       /\ counted' = IF file THEN counted ELSE total
  /\ UNCHANGED <<phase, length, total, stored, diskVars, callVars, answerVars, relayVars>>

CreateFile ==
  /\ phase = "preparing" /\ step = "creating"
  /\ \/ /\ onDisk' = onDisk + 1
        /\ step' = "data" /\ counted' = total
        /\ UNCHANGED <<phase, answer, dir, holders>>
     \/ /\ UploadFails("upload_io_error", Len(stored), counted)
        /\ UNCHANGED <<step, counted, onDisk>>
  /\ UNCHANGED <<clientVars, total, size, stored, late, callVars, logged, relayVars>>

InFile == sent[Len(sent)].file

Takes(n) ==                     \* the client's side of a chunk
  /\ wire + n <= WireLimit /\ Arrives(n)
  /\ sent' = [sent EXCEPT ![Len(sent)].size = @ + n]

PartOverBudget(n) == size + n > MaxBytes      \* slip: every part has its own budget
BudgetUsedUp(n)   == total + n >= MaxBytes    \* slip: off by one

OverBudget(n) == total + n > MaxBytes

(* field.chunk: the budget is one for all parts, and checked before the    *)
(* chunk is written.                                                       *)
ReadChunk ==
  /\ phase = "preparing" /\ step = "data"
  /\ \E n \in 1..MaxBytes + 1 :
       /\ Takes(n)
       /\ total' = total + n /\ counted' = total + n
       /\ \/ /\ OverBudget(n)
             /\ UploadFails("upload_too_large", Len(stored), total')
             /\ UNCHANGED size
          \/ /\ ~OverBudget(n)
             /\ size' = IF InFile THEN size + n ELSE size
             /\ UNCHANGED <<phase, answer, dir, holders>>
          \/ /\ ~OverBudget(n) /\ InFile
             /\ UploadFails("upload_io_error", Len(stored), total')
             /\ UNCHANGED size
  /\ UNCHANGED <<length, step, stored, onDisk, late, callVars, logged, relayVars>>

(* The end of a part; flush and shutdown come before the file counts. *)
EndPart ==
  /\ phase = "preparing" /\ step = "data"
  /\ \/ /\ step' = "parts"
        /\ stored' = IF InFile THEN Append(stored, size) ELSE stored
        /\ UNCHANGED <<phase, answer, dir, holders>>
     \/ /\ InFile
        /\ UploadFails("upload_io_error", Len(stored), counted)
        /\ UNCHANGED <<step, stored>>
  /\ UNCHANGED <<clientVars, total, counted, size, onDisk, late, callVars, logged, relayVars>>

(* The end of the form: the directory changes hands. *)
EndForm ==
  /\ phase = "preparing" /\ step = "parts"
  /\ step' = "stored" /\ phase' = "running"
  /\ holders' = {"run"}
  /\ UNCHANGED <<clientVars, total, counted, size, stored, dir, onDisk, late, callVars,
                 answerVars, relayVars>>

(* server.request_timeout_ms is over: prepare_request is dropped where it  *)
(* waits, and what was counted is not asked for.                           *)
Deadline ==
  /\ phase = "preparing"
  /\ phase' = "answering"
  /\ Answer(408, "request_timeout", length, 0, 0)
  /\ late' = (step = "creating")
  /\ Release("parse")
  /\ UNCHANGED <<clientVars, parseVars, onDisk, callVars, logged, relayVars>>

----------------------------------------------------------------------------
Handles == {i \in DOMAIN calls : calls[i].stream /\ calls[i].state = "open" /\ i # inCall}

KeepOpen(chain, streams) == chain       \* slip: a dropped stream is forgotten

(* Dropped without being finished: Pending records an abandoned stream. *)
Abandon(chain, streams) ==
  [i \in DOMAIN chain |->
     IF i \in streams THEN [chain[i] EXCEPT !.state = "abandoned", !.bytes = 0] ELSE chain[i]]

(* FileAccess::call and UploadAccess::call: the entry is begun first.  An  *)
(* origin is the index of an upload, or 0 for a file under the root.       *)
BeginCall ==
  /\ phase = "running" /\ inCall = 0 /\ Len(calls) < MaxCalls
  /\ \E origin \in 0..Len(stored), stream \in BOOLEAN :
       calls' = Append(calls, [origin |-> origin, stream |-> stream, size |-> 0,
                               bytes |-> Unknown, state |-> "open"])
  /\ inCall' = Len(calls) + 1
  /\ UNCHANGED <<phase, clientVars, parseVars, diskVars, answerVars, relayVars>>

(* An upload is as long as it was written, a file of the operator as long  *)
(* as it happens to be.                                                    *)
SizesOf(origin) == IF origin = 0 THEN 0..MaxFile ELSE {stored[origin]}

(* What the call leaves in its entry.  A stream stays open; a read takes   *)
(* what is there when it reads, whatever the size was when it opened.      *)
Outcomes(call) ==
  {[call EXCEPT !.state = "failed"]} \cup
  IF call.origin # 0 /\ dir # "live" THEN {}
  ELSE IF call.stream THEN {[call EXCEPT !.size = n] : n \in SizesOf(call.origin)}
  ELSE {[call EXCEPT !.bytes = n, !.state = "done"] :
          n \in {m \in SizesOf(call.origin) : m <= ReadCap}}

EndCall ==
  /\ phase = "running" /\ inCall # 0
  /\ \E entry \in Outcomes(calls[inCall]) : calls' = [calls EXCEPT ![inCall] = entry]
  /\ inCall' = 0
  /\ UNCHANGED <<phase, clientVars, parseVars, diskVars, answerVars, relayVars>>

(* A call that outlives its run: the host state goes when it returns, with *)
(* every stream that was opened and not claimed.                           *)
OrphanReturns ==
  /\ phase # "running" /\ inCall # 0
  /\ \E entry \in Outcomes(calls[inCall]) :
       LET chain == [calls EXCEPT ![inCall] = entry]
       IN calls' = Abandon(chain, {i \in DOMAIN chain : chain[i].state = "open"})
  /\ inCall' = 0
  /\ Release("host")
  /\ UNCHANGED <<phase, clientVars, parseVars, onDisk, late, answerVars, relayVars>>

----------------------------------------------------------------------------
(* What the run leaves behind: nothing, or a host call and its Arc. *)
RunDrops(except) ==
  calls' = IF inCall = 0 THEN Abandon(calls, Handles \ except) ELSE calls

Heirs == IF inCall # 0 /\ step = "stored" THEN {"host"} ELSE {}

RequestBytes == IF step = "none" THEN Unknown ELSE BodyBytes(counted)

(* No slot, a script error, the script deadline: close() empties the       *)
(* directory at once, whoever still holds it.                              *)
RunFails ==
  /\ phase = "running"
  /\ phase' = "answering"
  /\ Answer(500, "script_error", RequestBytes, Len(stored), total)
  /\ RunDrops({})
  /\ holders' = (holders \ {"run"}) \cup Heirs
  /\ dir' = IF dir = "live" THEN "dropping" ELSE dir
  /\ UNCHANGED <<clientVars, parseVars, onDisk, late, inCall, logged, relayVars>>

(* A buffered response. *)
RunResponds ==
  /\ phase = "running" /\ inCall = 0
  /\ phase' = "answering"
  /\ Answer(200, "", RequestBytes, Len(stored), total)
  /\ RunDrops({})
  /\ Release("run")
  /\ UNCHANGED <<clientVars, parseVars, onDisk, late, inCall, logged, relayVars>>

(* What clients can make of a file of n with their Range headers. *)
Decisions == [n \in 0..MaxFile |-> {Decision(n, header) : header \in RangeHeaders}]

Parts(n) ==
  {IF d = Full THEN Partial(0, n) ELSE d : d \in Decisions[n] \ {Unsatisfiable}}

(* map_file_response: 416 drops the body, 200 and 206 hand a part of it,   *)
(* and the guard of an upload, to the relay.                               *)
RunStreams ==
  /\ phase = "running" /\ inCall = 0 /\ step # "none"
  /\ \E i \in Handles :
       \/ /\ Unsatisfiable \in Decisions[calls[i].size]
          /\ phase' = "answering"
          /\ Answer(416, "", RequestBytes, Len(stored), total)
          /\ RunDrops({})
          /\ Release("run")
          /\ UNCHANGED relayVars
       \/ /\ phase' = "streaming"
          /\ \E part \in Parts(calls[i].size), isHead \in BOOLEAN :
               RelayFile([offset |-> part.start, len |-> part.len, guard |-> calls[i].origin # 0],
                         isHead)
          /\ RunDrops({i})
          /\ holders' = IF calls[i].origin # 0 THEN {"relay"} ELSE holders \ {"run"}
          /\ dir' = IF holders' = {} /\ dir = "live" THEN "dropping" ELSE dir
          /\ UNCHANGED answer
  /\ UNCHANGED <<clientVars, parseVars, onDisk, late, inCall, logged>>

(* The directory is removed where its last owner is dropped: when it is the *)
(* run's, before the handler gets as far as the line or the response.       *)
Settled == dir \notin {"dropping", "sweeping"}

RelayingUnguarded ==            \* slip: the guard is dropped when it is unpacked
  /\ phase = "streaming" /\ (body.guard \/ Settled)
  /\ RelayStep
  /\ Release("relay")
  /\ UNCHANGED <<phase, clientVars, parseVars, onDisk, late, callVars, answerVars>>

(* The relay at work; its guard goes when the task returns. *)
Relaying ==
  /\ phase = "streaming" /\ (body.guard \/ Settled)
  /\ RelayStep
  /\ IF RelayDone' /\ ~RelayDone THEN Release("relay") ELSE UNCHANGED <<holders, dir>>
  /\ UNCHANGED <<phase, clientVars, parseVars, onDisk, late, callVars, answerVars>>

LogAnswer ==
  /\ phase = "answering" /\ Settled
  /\ phase' = "answered" /\ logged' = TRUE
  /\ UNCHANGED <<clientVars, parseVars, diskVars, callVars, answer, relayVars>>

(* hyper drops the handler of a connection that is closed, wherever it     *)
(* waits; there is no line.                                                *)
ClientLeaves ==
  /\ phase \in {"preparing", "running"}
  /\ phase' = "gone"
  /\ late' = (phase = "preparing" /\ step = "creating")
  /\ holders' = IF phase = "running" THEN (holders \ {"run"}) \cup Heirs ELSE {}
  /\ dir' = IF holders' = {} /\ dir = "live" THEN "dropping" ELSE dir
  /\ RunDrops({})
  /\ UNCHANGED <<clientVars, parseVars, onDisk, inCall, answerVars, relayVars>>

----------------------------------------------------------------------------
ReadBody == BufferBody \/ BeginUpload \/ FormFails \/ NextPart \/ CreateFile
            \/ ReadChunk \/ EndPart \/ EndForm

HostCall == EndCall \/ OrphanReturns

Cleanup == SweepDirectory \/ RemoveDirectory

Over == phase = "gone" \/ logged \/ RelayDone

Stopped ==
  /\ Over /\ Settled /\ ~late /\ inCall = 0
  /\ phase = "streaming" => Hung
  /\ UNCHANGED vars

Next == \/ RouteRequest \/ ReadBody \/ Deadline
        \/ BeginCall \/ HostCall
        \/ RunFails \/ RunResponds \/ RunStreams
        \/ Relaying \/ LogAnswer \/ ClientLeaves
        \/ CreateLands \/ Cleanup \/ Stopped

Spec == Init /\ [][Next]_vars

(* The server goes on with what it can do by itself: timers fire, a run is *)
(* over at its deadline (ScriptRun), file system calls return.  A client   *)
(* need not send anything, but reads on or disconnects while it is served. *)
FairSpec ==
  /\ Spec
  /\ WF_vars(RouteRequest) /\ WF_vars(Deadline)
  /\ WF_vars(RunFails) /\ WF_vars(HostCall)
  /\ WF_vars(LogAnswer) /\ WF_vars(Cleanup)
  /\ WF_vars(Relaying /\ FileTask) /\ WF_vars(Relaying /\ Hyper)

----------------------------------------------------------------------------
(* All bytes of the given sizes, each with the place it belongs to. *)
Bytes(sizes) == UNION {{i} \X (1..sizes[i]) : i \in DOMAIN sizes}
Sum(sizes) == Cardinality(Bytes(sizes))

Sizes(parts) == [i \in DOMAIN parts |-> parts[i].size]

(* The parts that are files, and which of the files part i is. *)
FileParts == {i \in DOMAIN sent : sent[i].file}
Rank(i) == Cardinality({j \in FileParts : j <= i})

(* Type invariant. *)
TypeOK ==
  /\ phase \in {"routing", "preparing", "running", "answering", "answered", "streaming", "gone"}
  /\ length \in Lengths /\ wire \in Nat
  /\ sent \in Seq([file : BOOLEAN, size : Nat])
  /\ step \in {"none", "buffered", "parts", "creating", "data", "stored"}
  /\ total \in Nat /\ counted \in Nat \cup {Unknown} /\ size \in Nat
  /\ stored \in Seq(Nat)
  /\ dir \in {"none", "live", "dropping", "sweeping", "gone", "orphan"}
  /\ onDisk \in Nat /\ late \in BOOLEAN
  /\ holders \subseteq {"parse", "run", "host", "relay"}
  /\ calls \in Seq([origin : Nat, stream : BOOLEAN, size : Nat, bytes : Nat \cup {Unknown},
                     state : {"open", "done", "failed", "abandoned"}])
  /\ inCall \in 0..Len(calls)
  /\ logged \in BOOLEAN
  /\ RelayTypeOK

(***************************************************************************)
(* Routing: a route is found exactly when its method is among those its    *)
(* path allows, so a 405 never recommends the method it refuses; methods   *)
(* are listed once, in the order of declaration; doubled slashes make no   *)
(* difference; and a parameter is the text of its own segment, whether the *)
(* client escaped it or not, unless one name is there twice.  Over all     *)
(* tables of up to three routes.                                           *)
(***************************************************************************)
RoutesAreRight == phase = "routing" =>
  /\ \A table \in SeqOf(ToSet(Routes), 3), method \in Methods, path \in Paths :
       RouteIsRight(table, method, path)
  /\ \A b \in Byte, rest \in Names : DecodingIsRight(b, rest)

(* Ranges: 206 sends exactly the bytes the header names, 416 is answered   *)
(* exactly when it names none.                                             *)
RangesAreExact == phase = "routing" =>
  \A n \in 0..MaxFile, value \in RangeValues : RangeIsExact(n, value)

(***************************************************************************)
(* The store of an upload is what the client sent: its files in order and  *)
(* at their full size, while no more than the budget of all parts together *)
(* was ever written.  A request over the budget never reaches its script.  *)
(***************************************************************************)
UploadsAreWhole ==
  /\ Sum(stored) + (IF step = "data" THEN size ELSE 0) <= MaxBytes
  /\ step = "stored" => /\ Len(stored) = Cardinality(FileParts)
                        /\ \A i \in FileParts : stored[Rank(i)] = sent[i].size
                        /\ total = Sum(Sizes(sent)) /\ total <= MaxBytes
                        /\ onDisk \in {0, Len(stored)}

(***************************************************************************)
(* The upload part of the log line: what was counted is what the client    *)
(* sent of the parts, unless the request timed out; files are the finished *)
(* ones; the body is at least as long as its parts; and 413 means that     *)
(* there was too much, not that something else went wrong.                 *)
(***************************************************************************)
UploadLogIsTruthful ==
  answer.status # 0 =>
    /\ answer.error # "request_timeout" => answer.upload.total = Sum(Sizes(sent))
    /\ answer.error = "upload_too_large" =>
         length > WireLimit \/ wire > WireLimit \/ answer.upload.total > MaxBytes
    /\ answer.upload.files <= Cardinality(FileParts)
    /\ step = "stored" => answer.upload.files = Cardinality(FileParts)
    /\ answer.bytes = Unknown \/ answer.upload.total <= answer.bytes

(***************************************************************************)
(* The line of a streamed file: complete means that all that was announced *)
(* went into the body, a disconnect that the client has gone, or was       *)
(* served without the body; its own entry in the chain is closed in it.    *)
(***************************************************************************)
FileLineIsTruthful ==
  /\ Len(line) <= 1
  /\ \A n \in DOMAIN line :
       LET l == line[n]
       IN /\ l.entry = l.error
          /\ l.bytes \in Len(received)..body.len
          /\ l.error = "complete" <=> l.bytes = body.len
          /\ l.error = "client_disconnected" => Hung
          /\ l.error = "file_stream_error" /\ client = "complete" => head

(* The client gets exactly the announced part of the file, in order, or an *)
(* end that it can tell from a complete one.                               *)
FileIsDelivered ==
  /\ \A n \in DOMAIN received : received[n] = body.offset + n
  /\ client = "complete" => Len(received) = Wanted
  /\ client = "truncated" => Len(line) = 1

(***************************************************************************)
(* The temporary directory is there as long as a parser, a live run or a   *)
(* relay of an upload needs it, and is gone when the request is answered   *)
(* without a relay, even if a host call still holds it.  It stays behind   *)
(* only if a file was being created when its parser died.                  *)
(***************************************************************************)
DirectoryIsKept ==
  /\ phase = "preparing" /\ step \in {"parts", "creating", "data"} => dir = "live"
  /\ phase = "running" /\ step = "stored" => dir = "live"
  /\ body.guard /\ relay \notin {"idle", "done"} => dir = "live"
  /\ dir = "live" => holders # {}
  /\ phase = "answered" => dir \in {"none", "gone", "orphan"}
  /\ dir = "orphan" => step = "creating"

(* The file calls of a run: none is open in its line, read or stream, unless *)
(* a call outlives the run, which then keeps every stream it has not used.  *)
EntriesAreClosed ==
  logged /\ inCall = 0 => \A i \in DOMAIN calls : calls[i].state # "open"

(* The relay task and hyper, when their next step waits for nobody. *)
TaskReady ==
  \/ relay \in {"seeking", "reading", "logging"}
  \/ relay \in {"sending", "breaking"} /\ (Hung \/ Len(channel) < StreamCapacity)

HyperReady ==
  /\ ~Hung
  /\ \/ Len(received) = Wanted
     \/ channel # <<>> /\ Head(channel) = Broken
     \/ channel = <<>> /\ RelayDone

(* The server goes on by itself: it routes, a timer ends the body or the   *)
(* run, a host call returns, files are removed, the line is written, the   *)
(* relay moves or hyper ends the response.                                 *)
ServerReady ==
  \/ phase \in {"routing", "preparing", "running"}
  \/ phase = "answering" /\ Settled
  \/ phase = "streaming" /\ (body.guard \/ Settled) /\ (TaskReady \/ HyperReady)
  \/ inCall # 0
  \/ ~Settled

NothingIsLeft == Over /\ holders = {} /\ dir \in {"none", "gone", "orphan"}

(* A chunk that the client has room for or not: hyper waits with it, and   *)
(* the relay behind a full channel, until the client reads or leaves.      *)
WaitsForClient ==
  /\ phase = "streaming" /\ ~Hung /\ Len(received) # Wanted
  /\ relay \in {"sending", "breaking"} /\ Len(channel) = StreamCapacity

(***************************************************************************)
(* Until a request is over and its uploads are released, the server has a  *)
(* step to take by itself, or a client that is being served does not read. *)
(* That is all it ever waits for, and it then keeps nothing but the upload *)
(* it relays: no host call, and no directory that a run or a parser left.  *)
(***************************************************************************)
RequestNeverHangs ==
  \/ ServerReady
  \/ NothingIsLeft
  \/ WaitsForClient /\ inCall = 0 /\ holders \subseteq (IF body.guard THEN {"relay"} ELSE {})

(* Every request is answered and logged, or its client has left, and its   *)
(* uploads do not stay.                                                    *)
RequestEnds == <>[](Over /\ inCall = 0 /\ holders = {} /\ dir \in {"none", "gone", "orphan"})

(* docs/guide/getting-started.md: uploads "are removed when the request    *)
(* ends or the stream finishes".                                           *)
UploadsAreRemoved == dir # "orphan"
=============================================================================
