# A formal model of stuntdouble

stuntdouble is one HTTP server process: every request that matches a Route runs
a JavaScript Route script in a fresh worker process, and what the script does
to the outside (state, files, upstream calls, the response) it asks its parent
to do, over a line protocol on pipes. The TLA+ modules here model the parts of
`src/src/` where several actors meet: what each keeps, every step it takes, and
what has to be true whatever the order of the steps. TLC checks them on small
instances, TLAPS proves the most important facts for all instances.

A definition's comment names the code it stands for; `PROJECT.json` gives the
lines. Definitions marked `slip` are not used by any specification: each is the
code with one plausible mistake, and some property fails when it takes the
place of the real one.

## The system: an inventory

| Component | Code | State | Operations | Hard because | Correct when |
|---|---|---|---|---|---|
| Shared state store | `state.rs`; `dispatch_state` in `script.rs` | map of entries, byte counter, clock | `get`, `set`, `take`, `setIfAbsent` with TTLs | garbage stays until swept; the counter is kept by hand; limits | a map of live entries, exactly accounted, nothing lost by a failed call |
| Script run | `script.rs` (parent half), `run_script_inner` in `server.rs` | permit, await point, child process, host call in progress, streams, uploads | refuse, spawn, exchange lines, host call, terminate, time out, drop | worker may die or lie at any step; host calls cannot be cancelled; client may leave at any await | one truthful result per run, slots and processes and streams come back |
| Stream relay | `pump_body`, `relay_stream`, hyper | two bounded channels, a byte count, one log line | read, relay, write, log | three actors, any may find its neighbour gone | in order, believable end, one true line, bounded memory |
| Process lifecycle | `main.rs`, `run`/`serve_connections` | accept loop, connections, signals, exit code | accept, serve, signal, drain, exit | coalesced signals, keep-alive, tasks nobody waits for | one signal drains, two end, answers are in the log |
| Response envelope | prelude and `HostState` in `script.rs`; `run_fallback`, `map_handled` in `server.rs` | response record in the worker, streams in the parent | `respond`, `pipe`, `stream`, final record, fallback check, mapping | conversions run script code, so calls nest; the two halves can disagree | what was committed is served, with its own stream, within the contract |
| Upstream calls | `upstream.rs` | call in flight, deadline, redirects, call chain, held body | `get`, `pipe`, redirect, time out, finish | one budget over many hops; entries updated before the step they describe | only listed hosts, in time, truthful entries and codes |
| Call chain log | `request_log.rs` | entries of one request | begin, update, finish once, finish on drop, snapshot | finished by whoever drops it | no entry lies or is finished twice |
| Files and uploads | `files.rs`; `relay_file_stream` in `server.rs` | temporary upload directory and who keeps it, open files, file calls, a relay | parse multipart, open, read, stream, relay, release | one budget over parts; partial failure anywhere; a directory with four owners; sizes that change after they were announced | uploads whole or refused, bytes as announced, nothing left behind, true lines |
| Routing and body preparation | `route_request`, `prepare_request`, `handle` in `server.rs`; `matcher.rs` | where the handler stands | match, limit, read body under a deadline, map the answer, log | limits and deadlines in order; a future dropped wherever it waits | first declaration wins, 404 and 405 agree with it; every request ends |
| Configuration, crypto, command line, Windows job | `config.rs`, `crypto.rs`, `main.rs`, `windows_job.rs` | none | parse, hash, print, bound memory | – | left to unit tests |

How they meet. `serve_connections` gives each connection a task; hyper calls
`handle`, which routes, prepares the body, takes a permit of the
`script_workers` semaphore and awaits `execute_with_state`. That spawns the
worker and reads its lines; a host call runs on the blocking pool with
`HostState` (store, files, uploads, upstream access) moved into it. The final
line becomes an outcome, the outcome a response; a streamed body gets a relay
task that outlives the handler. The store and the semaphore are shared by all
requests, a call chain by the run, its host calls and its relay.

## The modules

| Module | Models | Its state and actions in the code |
|---|---|---|
| `StateLimits` | validation, sizes and replies of the store | `validate_*`, `entry_cost`, `StateError` |
| `LiveStore` | abstract: what Shared state promises | a map of live entries; no garbage, no counter |
| `SharedState` | `state.rs` and `dispatch_state` | `entries`, `used_bytes` as in `Store`; one action per operation, each with its sweep and its commit; `now` is the store's clock |
| `ScriptRun` | the parent side of a run | `phase` is the await at which the future of `handle` stands; `child` the life of the process; `call` the blocking thread; one action per await point and line kind |
| `Delivery` | abstract: what a streamed body promises a client | chunks in order, an end the client can believe |
| `StreamRelay` | pump, relay, hyper | the two channels are sequences; `relay` the select of `relay_stream` and the log before the terminal error |
| `ServerDrain` | one process from listening to exit | accept loop, `conn` per connection task, signals received and waiting, relay tasks and which of them wait behind a full channel (`full`) |
| `ResponseEnvelope` | how a run decides on its response | `frames` are calls whose conversions run script code; `envelope`, `handles` in the worker, followed until the script replaces what the prelude uses (`intact`); `pipe`, `held` in the parent |
| `UpstreamCall` | the upstream calls of one run | `call` is the stack frame of `get_inner` or `pipe_inner`; `log` the chain; `seen` remembers what upstreams and script saw |
| `Matcher` | `matcher.rs` | operators on sequences of segments; the loops of the code are recursive functions on the length of what they have read |
| `Ranges` | `range_request`, `decide_range` | operators on a header cut into unit, first and last index; `Named` is what the header says, without arithmetic |
| `FileRelay` | `relay_file_stream`, hyper, the client | `relay` is where the task stands; `channel` the bounded channel; positions of the file instead of bytes |
| `UploadRequest` | one request from head to line, on top of the three above | `phase` and `step` are where the handler and its parser stand; `dir`, `onDisk`, `holders` the temporary directory and the `Arc`s and guards on it; `calls` the chain of file calls; one action per await, host call and outcome |
| `MC...` | instances for TLC | model values, sizes, symmetry |
| `...Proofs` | theorems | |

Data is abstracted to what the properties tell apart. A key or value of the
store is its size. A protocol line is its kind. A chunk is its number, and
bytes are counted in chunks. A URL is its scheme and host. A status matters by
its class, and a header only when a contract is about it (`Allow`,
`Content-Length`). A path is its segments and a segment its bytes, since
`percent_decode` works on them; a form is its parts with their sizes,
and the framing of a part is one byte. Time is a counter in `SharedState` and `UpstreamCall`, and
in `ScriptRun` the one moment a deadline passes.

What is *not* abstracted is control: an await that can be interrupted is a
state, a step the code takes without giving way is one action (a store
operation under its lock, a handler between two awaits), and where two threads
run the actions interleave. The worker is untrusted: in `ScriptRun` it writes
any line at any time and dies in every way. A script can do the same from the
inside, for the prelude runs in its realm: in `ResponseEnvelope` it may replace
`JSON.parse` or anything else the prelude is made of, and from then on the
worker's record says whatever it likes.

## What the runs show

`SharedState` – two entries at most, four keys (one too long, two of the same
size and interchangeable), three values (one too large, one that fits only
once), TTLs of 0, 1 and 2 ticks. Every branch of `commit_write` is reached: an
entry limit hit, the byte limit hit, a replacement that fits only because of
what it replaces, room made by a sweep alone. Checked: the counter is exact and
within its limits (`Accounting`), and the store implements `LiveStore`: a
failed call changes no live entry, and only the winner of a call changes the
key it names.

`ScriptRun` – one run, up to three lines (two host calls and a final line, or
any illegal mixture). With a deadline, a crash and a disconnect possible
everywhere, three lines make every pair of protocol mistakes. Checked: a
response only from a worker that finished the protocol, knows the result of
each of its host calls and was waited for; each open stream has one owner; and
in the end the run is over, the process reaped, streams and uploads gone.
`ScriptSlots` – two requests for one slot: working processes are covered by
permits, and each failure names what happened. A worker that ends well can
still report a failure in its final line (`FinalErrors`: an engine out of
memory, an uncaught upstream failure, anything else), a success can turn out to
hold no response or one the parent cannot use, and the wait for the process can
fail; `Truthful` says which of those each outcome may stand for. Runs share
nothing but the semaphore and the store, so two make every conflict.

`StreamRelay` – channels of one place and up to five chunks: one more than both
channels and both hands hold, so that everybody blocks on everybody. Any
announced length, HEAD or not, upstream failing or not, client leaving at any
time. Checked: bounded buffering, one truthful log line written before a
failure reaches the client, implementation of `Delivery`, and the line is
always written.

`ServerDrain` – two connections, two requests between them, two signals of two
kinds. Checked: exit 0 only after a signal and with no connection cut off;
forced codes only after two signals; no answer without its line or a relay
that still has to write it; a relay waits only for a client that is connected
and has the body still to come (`RelaysWaitForTheirClient`); a drained
connection takes no new request; a second signal ends the process whatever
clients do; one signal does if clients read or leave. A body that does not fit
into the channel and the sockets puts its relay behind a full channel until the
client reads (`TakesIn`) or the connection ends; that every later fill is like
the first is why one wait stands for all of them.

`ResponseEnvelope` – three nested calls, two streams, the three match kinds,
statuses of a file and of the fallbacks. Checked: the answer is the response
committed last, with its own stream; only a call in progress around another one
overwrites it; a handle serves one response; a fallback stays within its
contract. The first of these has two limits in the code, and the model has
both. `checkBody` keeps an array by reference, so `JSON.stringify` in `EXTRACT`
runs its `toJSON`, and what was bytes may be read out as a file of the run
(`Kept`, `Extracted`). And a script that has replaced `JSON.parse` can break
`callBridge` between the parent's half of a pipe and the record of it: the
parent then holds a stream of another call (`Tampers`, `PipeOpens`). What holds
whatever a script does is `AnswersAreBacked`: an answer without an error is
made of bytes, of the stream of the last pipe the parent served, or of a file
it opened in this run.

`UpstreamCall` – two calls of one run (a pipe can replace a pipe), one redirect
allowed and more offered, two listed hosts and one stranger, four ticks of
script time. Checked: only listed hosts are asked; calls end in time; an entry
is open exactly as long as its call or body is and tells the way the call took;
closed entries are final; codes fit what happened.

`UploadRequest` – forms of up to two parts with a budget of two bytes, so that a
part is over by itself, two are over together, and one chunk is in time and the
next is not; lengths announced right, too large, or not at all; two file calls,
so that one stream is claimed and another dropped; files of up to two reads
behind a channel of one place, so that the relay blocks while the client leaves;
every value a Range header can be cut into, up to one past the largest index.
The read deadline, a disconnect, a failing disk and a call that outlives its run
may strike at every step. Checked: the route and the methods of a 405 come from
the same table, and a parameter is the decoded text of its segment
(`RoutesAreRight`, over all tables of up to three of the
overlapping routes, and over texts made of escapes, broken escapes and plain
bytes; `RoutingIsRight` is about any table); 206 sends exactly what the header names
(`RangesAreExact`); a script sees the uploads that were sent or none
(`UploadsAreWhole`); the counts and the code of a line are true
(`UploadLogIsTruthful`, `FileLineIsTruthful`); a client gets the announced part
of the file or an end it can tell from it (`FileIsDelivered`); the directory is
there for whoever needs it and no longer (`DirectoryIsKept`), file calls are
closed in the line (`EntriesAreClosed`), the server never waits for anything
but a client that does not read, and then keeps only the upload it relays
(`RequestNeverHangs`), and every request ends with its uploads released
(`RequestEnds`).

### Where code and documents part

Each of these runs is expected to find a counterexample; `PROJECT.json` quotes
the sentence and the code.

- `ScriptHalfOpen`: the chain a failed run logs still shows its discarded
  stream as open (`request_log.rs:101`), because the snapshot is taken first.
- `EveryAnswerIsLogged`: a drain with exit 0 can lose the log line of a
  streamed answer (`docs/contracts/cli.md:57`): nobody waits for relays.
- `FirstCallWins`: a `respond` within the conversions of another: both return
  true and the outer one replaces the inner (`docs/contracts/ctx-api.md:48`).
- `OrphanUpload`: a file that is being created when the read deadline or a
  disconnect drops its parser can keep the temporary directory on disk for good
  (`docs/guide/getting-started.md:124`): `tokio::fs` creates it on another
  thread, between the removal of what is in the directory and that of the
  directory.

More were met while reading, and have no run.

- A fallback that throws maps to 500 `script_error` by
  `docs/contracts/ctx-api.md:45`, but `run_fallback` lets an uncaught
  `upstream_unreachable` through as 502; `ResponseEnvelope` models what the
  code does.
- `script.rs:2257` says that the permit is held for the whole lifetime of the
  worker; a `spawn` on the blocking pool that outlives its future
  (`script.rs:2119`) brings a process to life when the permit is free again, to
  be killed at once; `ScriptRun` models that, and its `WorkersUnderPermits`
  speaks of workers that were given to a run.
- `run` drains before it returns by `server.rs:486`, except after an accept
  error (`server.rs:545`), which returns at once; `ServerDrain` has it as
  `AcceptFails`.
- A piped body of which hyper needs no more (HEAD, or more chunks than
  announced) is logged as `client_disconnected` although its client has
  everything; `server.rs:648` means to prevent that, `LogIsTruthful` says what
  is true: the receiver was dropped. The same goes for a file answered to HEAD.
- An upstream timeout just under the time that is left keeps all of it, and
  leaves less than the reply margin `docs/contracts/ctx-api.md:53` speaks of;
  `CallsKeepTheirTime` says what is true: the call ends before its script.
- A request that runs into the read deadline is logged with 0 bytes of uploads
  (`server.rs:186`), whatever was counted, where `docs/contracts/cli.md:61`
  promises the data "counted before parsing finished"; `UploadLogIsTruthful`
  excepts it.
- A range whose last index is no u64 answers 416, where
  `docs/contracts/ctx-api.md:75` has the end of a valid range cut to the file;
  `WellFormed` asks for indexes that can be read.
- Any error while a body that is no form is read answers 413
  `request_body_too_large`, a broken connection included; `BufferBody` has it.
- `percent_decode` reads `%+5` as the byte 5, because `from_str_radix`
  takes a sign (`matcher.rs:101`); no document speaks of it, `IsHex` has it.
- `server.rs:806` calls the framing allowance "used only by the Content-Length
  pre-check", but `run` puts it into the limit of every body (`server.rs:502`).

## Fairness

Safety needs none. The liveness properties assume no more than the following.

- `ScriptRun`: the runtime polls a future that can go on, the blocking pool
  runs what it is given, the kernel delivers an exit, and the deadline timer
  fires. A host call returns in the end: state and file calls are bounded, an
  upstream call has its budget. Nothing is assumed of the worker (it may loop)
  or of the client.
- `StreamRelay`: the pump's read returns (ureq's global timeout is on it), the
  relay is polled, and hyper's connection makes progress: its client reads on
  or its connection breaks. A client that keeps a connection open and never
  reads would stall the stream for ever; no timeout in the code prevents that.
- `ServerDrain`: the runtime polls connections and the loop; a head in progress
  ends by `header_read_timeout`; a handler ends, which is what `ScriptRun` and
  the body deadline are for; a relay goes on, but only while its channel has
  room or its receiver is gone. `DrainEnds` has the behaviour of clients
  (`ClientsMoveOn`) as its premise and not in the specification, and
  `SecondSignalEnds` does without.

- `UploadRequest`: the read deadline fires, a run is over at its own deadline
  (which is what `ScriptRun` is for), file system calls return, and a response
  makes progress: its client reads on or its connection breaks. A client need
  not send a single byte, and a script need not answer.

The run `UpstreamCall` says `CHECK_DEADLOCK FALSE`, because a script run is
simply over at some time; the other modules have an explicit step for their final states, so
TLC reports any other state in which nothing can happen.

## What is proved

All theorems hold for every value of the constants that satisfies the
assumptions beside them (`SizesAssumption`, `LimitsAssumption` of
`StateLimits`, `ClockAssumption`, `CapacityAssumption`, `BoundsAssumption`,
`LimitsAssumption` of `UpstreamCall`, `FileRelayAssumption`,
`TopIndexAssumption`, `NamesAssumption`, `RequestAssumption`, `RoutesAssumption`,
`SlotsAssumption`, `LinesAssumption`,
`BoundsAssumption` and `StatusesAssumption` of `ResponseEnvelope`): sizes and
limits are natural numbers, capacities and timeouts positive, the allowlist is a
list of hosts, a file may be as large as the budget of an upload, a status
is an HTTP status, so that a recorded response can be told from none, and the
names of segments include the empty one, so that tables and paths are what
`parse_routes` and a split at slashes can give. No bound of
a run appears in them except as a constant of any size.

**Types.** Every component states one `TypeOK` and has it proved for all
constants (`StoreTyped`, `RelayTyped`, `RunTyped`, `DrainTyped`,
`EnvelopeTyped`, `UpstreamTyped`, `RequestTyped`). The runs do not check it
again.

**The store** (`SharedStateProofs`). `Inv` is `TypeOK`, `Accounting` and
`NoInternalError` together. They have to be: the subtraction cannot fail only
because the counter is exact, and it stays exact only because nothing failed.
The size of a map is the cardinality of a set with one element per byte, so
that removing or putting an entry is a fact about disjoint unions; the lemmas
say so once (`SplitBytes`, `WithoutBytes`, `PutBytes`), then `RemoveBalanced`
and `CommitBalanced` carry it over to the helpers of the code.

**Refinement** (`SharedStateProofs`, second half). `Live` maps the store to `LiveStore`
by forgetting garbage. `StoreImplementsLiveStore` shows that every call is the
abstract call of the same name: the sweep before a write leaves exactly what is
live, so a write fits in the one when it fits in the other.

**The relay** (`StreamRelayProofs`). The inductive invariant is an account of
every chunk: wire, second channel, relay's hand, first channel, pump's hand
hold 1, 2, ..., `read` in this order, and a failure travels behind the last of
them (`PumpInv`, `FirstInv`, `RelayInv`, `SecondInv`, `WireInv`, `LogInv`). The
four safety properties and the refinement of `Delivery` follow from it, for
bodies of any length and channels of any capacity.

**The process** (`ServerDrainProofs`). `Inv` adds to the types that a returned
loop has no open connection (`LoopInv`), that signals seen were sent and count
once while they wait (`SignalInv`), that lines and relays know each request
once (`LogInv`), that a relay behind a full channel is that of the response its
connection is writing (`FullInv`), and that connections told of the drain are
not idle (`NoticedInv`). `RelaysWait` follows: a drain that is over leaves no
relay behind that waits for anybody. For any number of connections, requests and signals.

**Upstream calls** (`UpstreamCallProofs`). `Inv` strengthens the checked
invariants by what holds in mid-call: the host about to be asked was validated
and is the one in the entry (`FlightInv`), the deadline is what the budget gave
(`DeadlineInv`), and hops and redirects keep step (`HopsInv`). For any redirect
limit, margin, timeouts, hosts and answers.

**Routing** (`RequestPartsProofs`). `RoutingIsRight` is what `RoutesAreRight`
says of the tables it looks at, for every table, method and path. `Split` and
`AllowedMethods` are loops; as recursive functions they can be unfolded
(`SplitUnfolds`, `AllowedUnfolds`, from `LoopExists`), and induction is done by
hand: if a statement failed for some number there would be a least one
(`LeastNumber`, from the well-foundedness of `<`), and for that one it holds
because it holds for the number before. `LeadingSlash` is the induction over a
path, `ListingGoesOn` the step of the one over a table, `AllowedAreListed` its
conclusion: every method that would be answered is listed, once, at the place of
its first declaration. `CapturedInPlace` says that each parameter is the decoded
text of its own segment. What decoding does is `DecodingByBytes`: a byte, or the
escape of a byte, at the head of a text gives that byte and then what the rest
gives. It compares two runs of the loop, one two bytes behind the other
(`SameReading`, `SameEscapes`), by the same induction; from the end of a text to
its beginning it says that decoding undoes what a client escapes. It is about
bytes: what `from_utf8_lossy` makes of bytes that are not UTF-8 is external.

**Requests and files** (`RequestPartsProofs`, `UploadRequestProofs`).
`DecideRangeIsExact` goes through the branches of `decide_range`: each is an
interval, and so is what the header names (`SuffixIsNamed`, `BoundedIsNamed`).
The rest is one invariant. `RelayInv` is the account of the chunks: wire and
channel hold the positions from the offset on, and `bytes` counts them; it needs
that only a part with something in it starts past the start of the file
(`PartsAreInside`), or a relay that fails to seek would log a complete body as
an error. `DataInv` says that no upload is larger than the budget, so that what
a run hands over lies in the file. `DirInv` says who keeps the directory in
which phase, `LateInv` that only a file whose parser died creating it can get
into a directory that is being removed, `CallInv` that only the call at work is
open once a run is over. For limits, forms, chains and files of any size.

Uploads have an invariant of their own on top of that one (`FormInv`).
`PartInv` says that each finished file part is stored at its rank and at its
size, and that the file at hand has as many bytes as the last part: without the
second half the first would be lost when the part ends. `CountInv` says that
`total_bytes` is the sum of what was sent although what is *written* stays
within the budget even when the chunk that broke it was counted; `DiskInv` that
there is one file on disk for each stored one and the one at hand; `AnswerInv`
that nothing was answered yet while the form is read, so that what was true of
the form when it was answered stays true. A sum is the size of a set with one
element per byte, as in the store, and the upload that belongs to a part is
named by the part's rank, the number of file parts up to it: both can be
reasoned about without induction over the form.

**Runs** (`ScriptRunProofs`). A step concerns one run: `OneRunMoves` shows that
the others keep theirs. What they share is the semaphore, and `SlotInv` says
that its permits are held by exactly the runs under way. Each run has `RunInv`:
a living worker belongs to a run under way (`ChildInv`); the protocol takes turns,
so calls made and calls acknowledged differ by at most the one at hand
(`CallInv`); a response comes from a complete exchange, and a worker that ran
out of time left a deadline that passed (`OutcomeInv`); an entry of the chain is
streaming exactly if the pipe of the run or its response has it, and a pipe
survives its run only under a call in progress (`StreamInv`). From the same
invariant follows the action property `FailuresAreTruthful`: `Justified` is what
a step that ends a run has to bring along, and `EndsAreJustified` goes through
the steps. For any number of requests, slots and lines.

**Responses** (`ResponseEnvelopeProofs`). The difficulty is that calls nest
without bound. `DepthInv` is the key: once a call has returned true no call
begins, so the depths of those that win afterwards can only fall; that is
`OnlyOuterCallsOverwrite`, and it keeps `won` and the stack apart. `HandleInv`
says that a usable handle is of a stream the parent holds and of no winner;
`FrameInv` what a call in progress carries; `CommitInv` follows the last winner
from the worker's record through its reading (`Reported`) and the parent's
outcome (`Ran`) to the answer, as long as the script leaves the prelude alone,
and `CheckedInv` what the fallback check has left. `BackInv` is about every
worker: the parent's pipe is the last it opened, and a report that
`ClaimedIsBacked` lets through names that stream or a held file. For any depth,
number of streams and statuses.

**What the liveness properties rest on.** That something happens in the end
takes fairness and ENABLED, which the prover does not handle. What remains when
fairness is taken away is safety, and is proved: that nobody waits in vain, and
that nobody goes round in circles.

| Theorem | Nobody waits in vain | Theorem | What steps use up |
|---|---|---|---|
| `RelayNeverStalls` | while pump, relay and wire are not through, one of them has a step that needs no other | `RelayRunsDown` | `WorkLeft`; a body of n chunks takes 5n + 10 steps at most |
| `RelaysWait` | a relay waits at most for a client that is connected and whose response it carries; after the drain, for nobody | `DrainAdvances` | of a connection that was told: head, handler, response |
| `RunsDoNotHang` | the deadline alone can end a run, terminate always has a process to kill or wait for, and what a run leaves is nothing or something the pool or the runtime ends | `RunsWindDown` | of a run that is over: its orphaned spawn and its orphaned call |
| `RequestsDoNotHang` | until a request is over and its uploads are released, the server has a step without its client, or that client does not read, and then nothing but the upload it is sent is kept | `FileRelaysRunDown` | `FileWork`; a file of n chunks takes 3n + 7 steps at most |

Each "has a step" is spelled out as a state predicate (`PumpReady`,
`CanEnd`, `ServerReady` and the like) that repeats the guards of
the actions it stands for; on the instances of the runs TLC found one of those
actions ENABLED wherever the predicate holds. They need two invariants more:
`LeaveInv` of `ScriptRunProofs` ties the life of the process to the await its
run stands at, and `HeirInv` of `UploadRequestProofs` says that once the
handler is through only a host call that is still running may keep the
directory.

Only model-checked: the liveness properties themselves (`RunsEnd`,
`NothingLeaks`, `StreamIsLogged`, `SecondSignalEnds`, `DrainEnds`,
`RequestEnds`). Every other property of the passing runs is a theorem.

## What is not modelled

- Contents: JavaScript, JSON, headers, paths, bodies; the grammar checks of the
  prelude except where a contract is about them.
- Path resolution in `files.rs` and its checks against links: file system work.
  A file under the root is there or not, and as long as it happens to be.
- `config.rs`, `crypto.rs`, argument parsing and printing: no state that
  outlives a call.
- The worker's inside, hyper, ureq, tokio and the kernel: external, modelled as
  the code uses them. A memory limit is the moment a worker aborts or the error
  it reports.
- How the relay of a file meets the drain is in `ServerDrain`: a file always has
  a Content-Length, so its client may have everything before the line is written,
  like that of any announced body. After `Exits` the process may still be there
  until blocking calls return (`main.rs:98`); nothing of the model happens then.
- What a tampered worker does beyond its record: `ResponseEnvelope` stops
  following its calls of `respond`, and only counts on the parent.
- Windows, where an open file keeps its directory from being removed.

## Plan

1. Composition: the store under several runs whose workers are killed between
   a host call and its acknowledgement.
2. What the drain costs in all: one measure over the connections and relays of
   a process, as there is one for each relay.
