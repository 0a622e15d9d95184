---------------------------- MODULE StreamRelay ----------------------------
(***************************************************************************)
(* A piped upstream body on its way to the client.  A blocking thread      *)
(* (pump_body in src/src/upstream.rs) reads chunks into one bounded        *)
(* channel, an async task (relay_stream in src/src/server.rs) moves them   *)
(* into a second one, counts them and writes the one log line of the       *)
(* request, and hyper (external) takes them to the client.  Any of the     *)
(* three may find its neighbour gone: the receiver of a channel is dropped *)
(* when the relay returns, when hyper has written all it announced, or     *)
(* when the client disconnects.                                            *)
(*                                                                         *)
(* A chunk is its number; sizes are counted in chunks.                     *)
(***************************************************************************)
EXTENDS Integers, Sequences

CONSTANTS
  MaxChunks,              \* bound: chunks in an upstream body
  PipeCapacity,           \* PIPE_CHANNEL_CAPACITY
  StreamCapacity          \* STREAM_CHANNEL_CAPACITY

ASSUME CapacityAssumption ==
  /\ MaxChunks \in Nat
  /\ PipeCapacity \in Nat \ {0}
  /\ StreamCapacity \in Nat \ {0}

VARIABLES
  source,     \* the upstream body: its size, whether it fails after that
  announced,  \* Content-Length of the response, -1 for none
  head,       \* the response to this request carries no body (HEAD)
  read,       \* chunks read from upstream
  pump,       \* the blocking reader
  pumpItem,   \* what it is about to send
  first,      \* channel from the pump to the relay
  relay,      \* the relay task
  relayItem,  \* what it is about to send
  bytes,      \* chunks it has sent
  ending,     \* outcome: StreamOutcome
  second,     \* channel from the relay to hyper
  client,     \* hyper and the client behind it
  received,   \* chunks on the wire
  log         \* the request log: one entry per line written

inputs    == <<source, announced, head>>
pumpVars  == <<read, pump, pumpItem>>
relayVars == <<relay, relayItem, bytes, ending, log>>
wireVars  == <<client, received>>
vars      == <<inputs, pumpVars, first, relayVars, second, wireVars>>

Failure == 0                    \* an Err item in a channel
Items == 0..MaxChunks

Endings == {"complete", "upstream_stream_error", "client_disconnected"}

Hung == client # "reading"      \* the receiver of second is dropped

PumpDone == pump = "done"       \* the sender of first is dropped
RelayDone == relay = "done"     \* the receiver of first, the sender of second

FromEnoughBytes(sent) ==        \* slip: at most, for exactly
  IF sent <= announced THEN "complete" ELSE "client_disconnected"

(* StreamOutcome::from_channel_close *)
FromChannelClose(sent) ==
  IF sent = announced THEN "complete" ELSE "client_disconnected"

----------------------------------------------------------------------------
Init ==
  /\ source \in [size : 0..MaxChunks, fails : BOOLEAN]
  /\ announced \in -1..MaxChunks
  /\ head \in BOOLEAN
  /\ read = 0 /\ pump = "reading" /\ pumpItem = Failure
  /\ first = <<>>
  /\ relay = "selecting" /\ relayItem = Failure
  /\ bytes = 0 /\ ending = "complete" /\ log = <<>>
  /\ second = <<>>
  /\ client = "reading" /\ received = <<>>

(* reader.read: a chunk, the end, or an error that is sent on. *)
PumpReads ==
  /\ pump = "reading"
  /\ \/ /\ read < source.size
        /\ read' = read + 1
        /\ pumpItem' = read + 1
        /\ pump' = "sending"
     \/ /\ read = source.size /\ source.fails
        /\ pumpItem' = Failure
        /\ pump' = "sending"
        /\ UNCHANGED read
     \/ /\ read = source.size /\ ~source.fails
        /\ pump' = "done"
        /\ UNCHANGED <<read, pumpItem>>
  /\ UNCHANGED <<inputs, first, relayVars, second, wireVars>>

PumpSendsAtOnce ==              \* slip: an unbounded channel
  /\ pump = "sending"
  /\ \/ /\ ~RelayDone
        /\ first' = Append(first, pumpItem)
        /\ pump' = IF pumpItem = Failure THEN "done" ELSE "reading"
     \/ /\ RelayDone
        /\ pump' = "done"
        /\ UNCHANGED first
  /\ UNCHANGED <<inputs, read, pumpItem, relayVars, second, wireVars>>

(* blocking_send: waits for room, fails once the receiver is gone. *)
PumpSends ==
  /\ pump = "sending"
  /\ \/ /\ ~RelayDone /\ Len(first) < PipeCapacity
        /\ first' = Append(first, pumpItem)
        /\ pump' = IF pumpItem = Failure THEN "done" ELSE "reading"
     \/ /\ RelayDone
        /\ pump' = "done"
        /\ UNCHANGED first
  /\ UNCHANGED <<inputs, read, pumpItem, relayVars, second, wireVars>>

----------------------------------------------------------------------------
RelayFailsFirst ==              \* slip: a failure is sent on and not logged
  /\ relay = "selecting" /\ first # <<>>
  /\ first' = Tail(first)
  /\ relayItem' = Head(first)
  /\ relay' = IF Head(first) = Failure THEN "failing" ELSE "sending"
  /\ UNCHANGED <<inputs, pumpVars, bytes, ending, log, second, wireVars>>

(* The select of relay_stream: an item, the end of the stream, ... *)
RelayReceives ==
  /\ relay = "selecting" /\ first # <<>>
  /\ first' = Tail(first)
  /\ relayItem' = Head(first)
  /\ IF Head(first) = Failure
     THEN /\ relay' = "logging"
          /\ ending' = "upstream_stream_error"
     ELSE /\ relay' = "sending"
          /\ UNCHANGED ending
  /\ UNCHANGED <<inputs, pumpVars, bytes, log, second, wireVars>>

RelayEnds ==
  /\ relay = "selecting" /\ first = <<>> /\ PumpDone
  /\ relay' = "logging"
  /\ UNCHANGED <<inputs, pumpVars, first, relayItem, bytes, ending, log, second, wireVars>>

(* ... or sender.closed(), in no fixed order of preference. *)
RelaySeesClose ==
  /\ relay = "selecting" /\ Hung
  /\ relay' = "logging"
  /\ ending' = FromChannelClose(bytes)
  /\ UNCHANGED <<inputs, pumpVars, first, relayItem, bytes, log, second, wireVars>>

RelaySendsBlindly ==            \* slip: a dropped body is not noticed
  /\ relay = "sending"
  /\ ~Hung /\ Len(second) < StreamCapacity
  /\ second' = Append(second, relayItem)
  /\ bytes' = bytes + 1
  /\ relay' = "selecting"
  /\ UNCHANGED <<inputs, pumpVars, first, relayItem, ending, log, wireVars>>

(* sender.send(..).await: waits for room, fails once the body is dropped. *)
RelaySends ==
  /\ relay = "sending"
  /\ \/ /\ ~Hung /\ Len(second) < StreamCapacity
        /\ second' = Append(second, relayItem)
        /\ bytes' = bytes + 1
        /\ relay' = "selecting"
        /\ UNCHANGED ending
     \/ /\ Hung
        /\ relay' = "logging"
        /\ ending' = FromChannelClose(bytes)
        /\ UNCHANGED <<second, bytes>>
  /\ UNCHANGED <<inputs, pumpVars, first, relayItem, log, wireVars>>

(* call.finish, log, and only then the terminal error into the body. *)
RelayLogs ==
  /\ relay = "logging"
  /\ log' = Append(log, [outcome |-> ending, bytes |-> bytes])
  /\ relay' = IF ending = "upstream_stream_error" THEN "failing" ELSE "done"
  /\ UNCHANGED <<inputs, pumpVars, first, relayItem, bytes, ending, second, wireVars>>

RelayHidesFailure ==            \* slip: the error is logged and not sent on
  /\ relay = "failing"
  /\ relay' = "done"
  /\ UNCHANGED <<inputs, pumpVars, first, relayItem, bytes, ending, log, second, wireVars>>

RelayFails ==
  /\ relay = "failing"
  /\ \/ /\ ~Hung /\ Len(second) < StreamCapacity
        /\ second' = Append(second, Failure)
     \/ /\ Hung
        /\ UNCHANGED second
  /\ relay' = "done"
  /\ UNCHANGED <<inputs, pumpVars, first, relayItem, bytes, ending, log, wireVars>>

----------------------------------------------------------------------------
(* hyper: how many chunks it writes before it drops the body by itself. *)
Wanted == IF head THEN 0 ELSE announced

HyperFinishes ==
  /\ client = "reading" /\ Len(received) = Wanted
  /\ client' = "complete"
  /\ second' = <<>>
  /\ UNCHANGED <<inputs, pumpVars, first, relayVars, received>>

HyperWrites ==
  /\ client = "reading" /\ second # <<>> /\ Len(received) # Wanted
  /\ IF Head(second) = Failure
     THEN /\ client' = "truncated"
          /\ second' = <<>>
          /\ UNCHANGED received
     ELSE /\ received' = Append(received, Head(second))
          /\ second' = Tail(second)
          /\ UNCHANGED client
  /\ UNCHANGED <<inputs, pumpVars, first, relayVars>>

(* The body stream ends: fine for a chunked body, short of an announced one. *)
HyperSeesEnd ==
  /\ client = "reading" /\ second = <<>> /\ RelayDone
  /\ Len(received) # Wanted
  /\ client' = IF announced = -1 THEN "complete" ELSE "truncated"
  /\ UNCHANGED <<inputs, pumpVars, first, relayVars, second, received>>

ClientLeaves ==
  /\ client = "reading"
  /\ client' = "gone"
  /\ second' = <<>>
  /\ UNCHANGED <<inputs, pumpVars, first, relayVars, received>>

----------------------------------------------------------------------------
Pump == PumpReads \/ PumpSends

Relay == \/ RelayReceives \/ RelayEnds \/ RelaySeesClose
         \/ RelaySends \/ RelayLogs \/ RelayFails

Hyper == HyperFinishes \/ HyperWrites \/ HyperSeesEnd

Stopped == PumpDone /\ RelayDone /\ Hung /\ UNCHANGED vars

Next == Pump \/ Relay \/ Hyper \/ ClientLeaves \/ Stopped

Spec == Init /\ [][Next]_vars

(* The upstream read returns in the end (its own timeout sees to it), and  *)
(* a client reads on or disconnects.                                       *)
FairSpec == Spec /\ WF_vars(Pump) /\ WF_vars(Relay) /\ WF_vars(Hyper)

----------------------------------------------------------------------------
(* Type invariant. *)
TypeOK ==
  /\ source \in [size : 0..MaxChunks, fails : BOOLEAN]
  /\ announced \in -1..MaxChunks
  /\ head \in BOOLEAN
  /\ read \in 0..source.size
  /\ pump \in {"reading", "sending", "done"}
  /\ pumpItem \in Items
  /\ first \in Seq(Items) /\ Len(first) <= PipeCapacity
  /\ relay \in {"selecting", "sending", "logging", "failing", "done"}
  /\ relayItem \in Items
  /\ bytes \in 0..MaxChunks
  /\ ending \in Endings
  /\ second \in Seq(Items) /\ Len(second) <= StreamCapacity
  /\ client \in {"reading", "complete", "truncated", "gone"}
  /\ received \in Seq(Items)
  /\ log \in Seq([outcome : Endings, bytes : 0..MaxChunks])

(***************************************************************************)
(* "a slow client cannot make the host buffer a whole file": what has been *)
(* read and is not yet on the wire fits into the two channels and the two  *)
(* hands, while somebody still wants it.                                   *)
(***************************************************************************)
BoundedBuffering ==
  ~Hung => read - Len(received) <= PipeCapacity + StreamCapacity + 2

(***************************************************************************)
(* At most one log line, and it tells the truth: complete means that all   *)
(* of the upstream or all that was announced went into the body, an        *)
(* upstream error that the upstream failed after what was relayed, a       *)
(* disconnect that the body was dropped.  It never claims fewer bytes than *)
(* the client has or more than were read.                                  *)
(***************************************************************************)
LogIsTruthful ==
  /\ Len(log) <= 1
  /\ \A n \in DOMAIN log :
       LET line == log[n]
       IN /\ line.bytes \in Len(received)..read
          /\ line.outcome = "complete" =>
               line.bytes = announced \/ (line.bytes = source.size /\ ~source.fails)
          /\ line.outcome = "upstream_stream_error" =>
               source.fails /\ line.bytes = source.size
          /\ line.outcome = "client_disconnected" => Hung

(* A client that is cut short finds its request in the log: the terminal   *)
(* error enters the body only after the line is written.                   *)
LoggedBeforeFailure == client = "truncated" => Len(log) = 1

(***************************************************************************)
(* The chunks reach the client in order, none lost or repeated, and a body *)
(* that ends normally is all there: a failing upstream never looks like a  *)
(* complete response.                                                      *)
(***************************************************************************)
Promise == INSTANCE Delivery WITH wanted <- Wanted

ImplementsDelivery == Promise!Spec

(* Everybody stops and the request is logged, whatever ends the stream. *)
StreamIsLogged == <>(PumpDone /\ RelayDone /\ Len(log) = 1)
=============================================================================
