----------------------------- MODULE FileRelay -----------------------------
(***************************************************************************)
(* A part of a file on its way to the client: relay_file_stream in         *)
(* src/src/server.rs reads it into one bounded channel, counts what it     *)
(* sends and writes the log line of the request, and hyper (external)      *)
(* takes it to the client.  The length was announced when the file was     *)
(* opened.  A file under the static root belongs to the operator and may   *)
(* change before any read; an upload is the request's own.                 *)
(*                                                                         *)
(* Sizes are counted in reads; the content of a read is its position.      *)
(* Init hands nothing over: RelayFile does, once.                          *)
(***************************************************************************)
EXTENDS Integers, Sequences

CONSTANTS
  MaxFile,                \* bound: the size of a file
  StreamCapacity          \* STREAM_CHANNEL_CAPACITY

ASSUME FileRelayAssumption ==
  MaxFile \in Nat /\ StreamCapacity \in Nat \ {0}

VARIABLES
  body,       \* FileBody: where it starts, how long it is, the upload guard
  head,       \* the response carries no body (HEAD)
  relay,      \* the relay task
  position,   \* of the chunk in its hand
  bytes,      \* sent so far
  ending,     \* StreamOutcome
  terminal,   \* an error goes into the body after the log line
  pending,    \* the entry of the call chain
  channel,    \* from the relay to hyper
  client,     \* hyper and the client behind it
  received,   \* positions on the wire
  line        \* what the relay has logged

fileVars  == <<body, head>>
taskVars  == <<relay, position, bytes, ending, terminal, pending, line>>
wireVars  == <<client, received>>
relayVars == <<fileVars, taskVars, channel, wireVars>>

Broken == 0                     \* the Err item in the channel
Bodies == [offset : 0..MaxFile, len : 0..MaxFile, guard : BOOLEAN]

Hung == client # "reading"      \* the receiver of the channel is dropped

RelayIdle == relay = "idle"
RelayDone == relay = "done"

RelayInit ==
  /\ body = [offset |-> 0, len |-> 0, guard |-> FALSE]
  /\ head = FALSE
  /\ relay = "idle" /\ position = Broken /\ bytes = 0
  /\ ending = "complete" /\ terminal = FALSE
  /\ pending = "open" /\ line = <<>>
  /\ channel = <<>>
  /\ client = "reading" /\ received = <<>>

(* file_stream_body: the task is spawned, and the head goes to the client. *)
RelayFile(handed, isHead) ==
  /\ RelayIdle
  /\ body' = handed /\ head' = isHead
  /\ relay' = IF handed.offset > 0 THEN "seeking" ELSE "reading"
  /\ UNCHANGED <<position, bytes, ending, terminal, pending, line, channel, wireVars>>

----------------------------------------------------------------------------
FileFails(isTerminal) ==
  /\ relay' = "logging"
  /\ ending' = "file_stream_error"
  /\ terminal' = isTerminal

(* seek does not mind the end of the file; a failing disk stops it. *)
RelaySeeks ==
  /\ relay = "seeking"
  /\ \/ relay' = "reading" /\ UNCHANGED <<ending, terminal>>
     \/ FileFails(TRUE)
  /\ UNCHANGED <<fileVars, position, bytes, pending, line, channel, wireVars>>

FromTheStart == bytes + 1       \* slip: the offset is forgotten

NextPosition == body.offset + bytes + 1

(* A chunk; nothing, when the file has shrunk below what was announced; or *)
(* an error of the disk.                                                   *)
RelayReads ==
  /\ relay = "reading" /\ bytes < body.len
  /\ \/ /\ relay' = "sending"
        /\ position' = NextPosition
        /\ UNCHANGED <<ending, terminal>>
     \/ /\ ~body.guard
        /\ FileFails(FALSE)
        /\ UNCHANGED position
     \/ /\ FileFails(TRUE)
        /\ UNCHANGED position
  /\ UNCHANGED <<fileVars, bytes, pending, line, channel, wireVars>>

RelayCompletes ==
  /\ relay = "reading" /\ bytes = body.len
  /\ relay' = "logging"
  /\ UNCHANGED <<fileVars, position, bytes, ending, terminal, pending, line, channel, wireVars>>

(* sender.send(..).await: waits for room, fails once the body is dropped. *)
RelaySends ==
  /\ relay = "sending"
  /\ \/ /\ ~Hung /\ Len(channel) < StreamCapacity
        /\ channel' = Append(channel, position)
        /\ bytes' = bytes + 1
        /\ relay' = "reading"
        /\ UNCHANGED ending
     \/ /\ Hung
        /\ relay' = "logging"
        /\ ending' = IF bytes = body.len THEN "complete" ELSE "client_disconnected"
        /\ UNCHANGED <<channel, bytes>>
  /\ UNCHANGED <<fileVars, position, terminal, pending, line, wireVars>>

RelayForgetsEntry ==            \* slip: the line is written before call.finish
  /\ relay = "logging"
  /\ line' = <<[error |-> ending, bytes |-> bytes, entry |-> pending]>>
  /\ pending' = ending
  /\ relay' = IF terminal THEN "breaking" ELSE "done"
  /\ UNCHANGED <<fileVars, position, bytes, ending, terminal, channel, wireVars>>

(* call.finish closes the entry, then the line with the chain is written. *)
RelayLogs ==
  /\ relay = "logging"
  /\ pending' = ending
  /\ line' = Append(line, [error |-> ending, bytes |-> bytes, entry |-> pending'])
  /\ relay' = IF terminal THEN "breaking" ELSE "done"
  /\ UNCHANGED <<fileVars, position, bytes, ending, terminal, channel, wireVars>>

RelayBreaks ==
  /\ relay = "breaking"
  /\ \/ /\ ~Hung /\ Len(channel) < StreamCapacity
        /\ channel' = Append(channel, Broken)
     \/ /\ Hung
        /\ UNCHANGED channel
  /\ relay' = "done"
  /\ UNCHANGED <<fileVars, position, bytes, ending, terminal, pending, line, wireVars>>

----------------------------------------------------------------------------
Wanted == IF head THEN 0 ELSE body.len

HyperFinishes ==
  /\ ~RelayIdle /\ ~Hung /\ Len(received) = Wanted
  /\ client' = "complete"
  /\ channel' = <<>>
  /\ UNCHANGED <<fileVars, taskVars, received>>

HyperWrites ==
  /\ ~Hung /\ channel # <<>> /\ Len(received) # Wanted
  /\ IF Head(channel) = Broken
     THEN /\ client' = "truncated"
          /\ channel' = <<>>
          /\ UNCHANGED received
     ELSE /\ received' = Append(received, Head(channel))
          /\ channel' = Tail(channel)
          /\ UNCHANGED client
  /\ UNCHANGED <<fileVars, taskVars>>

(* The channel ends short of Content-Length: hyper closes the connection. *)
HyperSeesEnd ==
  /\ ~Hung /\ channel = <<>> /\ RelayDone /\ Len(received) # Wanted
  /\ client' = "truncated"
  /\ UNCHANGED <<fileVars, taskVars, channel, received>>

ReaderLeaves ==
  /\ ~RelayIdle /\ ~Hung
  /\ client' = "gone"
  /\ channel' = <<>>
  /\ UNCHANGED <<fileVars, taskVars, received>>

FileTask == RelaySeeks \/ RelayReads \/ RelayCompletes \/ RelaySends \/ RelayLogs \/ RelayBreaks

Hyper == HyperFinishes \/ HyperWrites \/ HyperSeesEnd

RelayStep == FileTask \/ Hyper \/ ReaderLeaves

----------------------------------------------------------------------------
RelayTypeOK ==
  /\ body \in Bodies /\ body.offset + body.len <= MaxFile
  /\ head \in BOOLEAN
  /\ relay \in {"idle", "seeking", "reading", "sending", "logging", "breaking", "done"}
  /\ position \in 0..MaxFile
  /\ bytes \in 0..body.len
  /\ ending \in {"complete", "file_stream_error", "client_disconnected"}
  /\ terminal \in BOOLEAN
  /\ pending \in {"open", "complete", "file_stream_error", "client_disconnected"}
  /\ channel \in Seq(0..MaxFile) /\ Len(channel) <= StreamCapacity
  /\ client \in {"reading", "complete", "truncated", "gone"}
  /\ received \in Seq(1..MaxFile)
  /\ line \in Seq([error : {"complete", "file_stream_error", "client_disconnected"},
                   bytes : 0..MaxFile,
                   entry : {"open", "complete", "file_stream_error", "client_disconnected"}])
=============================================================================
