---------------------------- MODULE ServerDrain ----------------------------
(***************************************************************************)
(* The life of one `stuntdouble serve` process, from the moment it listens *)
(* to its exit code: the accept loop and the drain (run and                *)
(* serve_connections in src/src/server.rs), the two signals (serve and     *)
(* shutdown_signals in src/src/main.rs), and for every request the moment  *)
(* its log line is written (handle, stream_body).                          *)
(*                                                                         *)
(* Connection tasks belong to the accept loop, which waits for them; the   *)
(* relay task of a streamed body belongs to nobody, and goes when the      *)
(* runtime does.  Configuration, bind and runtime errors end the process   *)
(* before any of this and are left out.                                    *)
(***************************************************************************)
EXTENDS Integers, FiniteSets, Functions

CONSTANTS
  Connections,
  MaxRequests,    \* bound: requests, over all the connections
  MaxSignals      \* bound: signals sent to the process

ASSUME BoundsAssumption == MaxRequests \in Nat /\ MaxSignals \in Nat

VARIABLES
  server,     \* the accept loop
  exit,       \* the exit code, Running before there is one
  sent,       \* signals sent to the process
  pending,    \* signals delivered and not yet received: one of a kind at most
  first,      \* the signal that started the shutdown
  conn,       \* where each connection stands
  noticed,    \* connections that were told to shut down gracefully
  serial,     \* the number of the current, or else of the last, request on it
  body,       \* how that request is answered
  relays,     \* requests whose relay task has not logged yet
  full,       \* those whose relay waits for its client: the channel is full
  lines,      \* requests with a log line
  answered    \* requests whose client has the whole response

signalVars == <<sent, pending, first>>
requestVars == <<serial, body, relays, full, lines, answered>>
vars == <<server, exit, signalVars, conn, noticed, requestVars>>

Signals == {"SIGINT", "SIGTERM"}

Running == -1

ForcedExitCode(s) == IF s = "SIGINT" THEN 130 ELSE 143

Up == exit = Running

Waiting == {"idle", "reading"}          \* for a request head
InFlight == {"handling", "writing"}
Open == Waiting \cup InFlight

(***************************************************************************)
(* A buffered body is logged before it is written.  A streamed body is     *)
(* logged by its relay.  A "tracked" body, which is a piped one without a  *)
(* Content-Length, ends when its relay ends; an "announced" one is         *)
(* complete as soon as hyper has sent what the head announced: a file, a   *)
(* piped body with a Content-Length, any answer to HEAD.                   *)
(***************************************************************************)
Bodies == {"buffered", "tracked", "announced"}

Request(c) == <<c, serial[c]>>

Move(c, where) == conn' = [conn EXCEPT ![c] = where]

(* The receiver of the body goes; a relay that waits in sender.send wakes. *)
Release(c) == full' = full \ {Request(c)}

----------------------------------------------------------------------------
(* Standard signals do not queue: a second one of a kind is coalesced. *)
Signal(s) ==
  /\ Up /\ sent < MaxSignals
  /\ sent' = sent + 1
  /\ pending' = pending \cup {s}
  /\ UNCHANGED <<server, exit, first, conn, noticed, requestVars>>

StartsDrainAndKeepsSignal(s) ==         \* slip: the watcher sees it again
  /\ Up /\ server = "accepting" /\ s \in pending
  /\ first' = s
  /\ server' = "draining"
  /\ UNCHANGED <<exit, sent, pending, conn, noticed, requestVars>>

(* The shutdown future resolves, the loop breaks and drain_tx says so.     *)
StartsDrain(s) ==
  /\ Up /\ server = "accepting" /\ s \in pending
  /\ pending' = pending \ {s}
  /\ first' = s
  /\ server' = "draining"
  /\ UNCHANGED <<exit, sent, conn, noticed, requestVars>>

SameSignalAgain(s) ==           \* slip: the watcher waits for the first kind only
  /\ Up /\ first = s /\ s \in pending
  /\ exit' = ForcedExitCode(s)
  /\ UNCHANGED <<server, signalVars, conn, noticed, requestVars>>

(* The watcher task the shutdown future left behind. *)
SecondSignal(s) ==
  /\ Up /\ first # "none" /\ s \in pending
  /\ exit' = ForcedExitCode(s)
  /\ UNCHANGED <<server, signalVars, conn, noticed, requestVars>>

----------------------------------------------------------------------------
Accept(c) ==
  /\ Up /\ server = "accepting" /\ conn[c] = "new"
  /\ Move(c, "idle")
  /\ UNCHANGED <<server, exit, signalVars, noticed, requestVars>>

(* An accept error ends the loop at once; the JoinSet goes with it and     *)
(* aborts its tasks.                                                       *)
AcceptFails ==
  /\ Up /\ server = "accepting"
  /\ server' = "failed"
  /\ UNCHANGED <<exit, signalVars, conn, noticed, requestVars>>

Aborted(c) ==
  /\ Up /\ server = "failed" /\ conn[c] \in Open
  /\ Move(c, "closed")
  /\ Release(c)
  /\ UNCHANGED <<server, exit, signalVars, noticed, serial, body, relays, lines, answered>>

(* drain.changed(): an idle connection closes, one that reads a head may   *)
(* (hyper closes between requests, not during the first), the others       *)
(* finish first.                                                           *)
Notices(c) ==
  /\ Up /\ server = "draining" /\ conn[c] \in Open /\ c \notin noticed
  /\ noticed' = noticed \cup {c}
  /\ \/ conn[c] \in Waiting /\ Move(c, "closed")
     \/ conn[c] # "idle" /\ UNCHANGED conn
  /\ UNCHANGED <<server, exit, signalVars, requestVars>>

ReturnsEarly ==                 \* slip: the tasks are not joined
  /\ Up /\ server = "draining"
  /\ server' = "returned"
  /\ UNCHANGED <<exit, signalVars, conn, noticed, requestVars>>

Returns ==
  /\ Up /\ server = "draining" /\ \A c \in Connections : conn[c] \notin Open
  /\ server' = "returned"
  /\ UNCHANGED <<exit, signalVars, conn, noticed, requestVars>>

(* The runtime is dropped: the exit code stands, and every task is gone,   *)
(* the watcher of the second signal among them.  The process is there      *)
(* until the blocking calls that run return, and does nothing meanwhile.   *)
Exits ==
  /\ Up /\ server \in {"returned", "failed"}
  /\ exit' = IF server = "returned" THEN 0 ELSE 1
  /\ UNCHANGED <<server, signalVars, conn, noticed, requestVars>>

----------------------------------------------------------------------------
HeadArrives(c) ==
  /\ Up /\ SumFunction(serial) < MaxRequests
  /\ \/ conn[c] = "idle" /\ Move(c, "reading") /\ UNCHANGED <<serial, body>>
     \/ /\ conn[c] = "reading"
        /\ Move(c, "handling")
        /\ serial' = [serial EXCEPT ![c] = @ + 1]
        /\ body' = [body EXCEPT ![c] = "none"]
  /\ UNCHANGED <<server, exit, signalVars, noticed, relays, full, lines, answered>>

HeadTimesOutWhenIdle(c) ==      \* slip: a head that has begun has no deadline
  /\ Up /\ conn[c] = "idle"
  /\ Move(c, "closed")
  /\ UNCHANGED <<server, exit, signalVars, noticed, requestVars>>

(* header_read_timeout: the connection closes without a request line. *)
HeadTimesOut(c) ==
  /\ Up /\ conn[c] \in Waiting
  /\ Move(c, "closed")
  /\ UNCHANGED <<server, exit, signalVars, noticed, requestVars>>

HandledUnlogged(c) ==           \* slip: a buffered answer is left to be logged later
  /\ Up /\ conn[c] = "handling"
  /\ Move(c, "writing")
  /\ \E b \in Bodies :
       /\ body' = [body EXCEPT ![c] = b]
       /\ relays' = IF b = "buffered" THEN relays ELSE relays \cup {Request(c)}
  /\ UNCHANGED <<server, exit, signalVars, noticed, serial, full, lines, answered>>

(* The rest of handle: the line, or a relay task that will write it.  A    *)
(* streamed body fits into the channel and the sockets, or it does not.    *)
Handled(c) ==
  /\ Up /\ conn[c] = "handling"
  /\ Move(c, "writing")
  /\ \E b \in Bodies, fits \in BOOLEAN :
       /\ body' = [body EXCEPT ![c] = b]
       /\ lines' = IF b = "buffered" THEN lines \cup {Request(c)} ELSE lines
       /\ relays' = IF b = "buffered" THEN relays ELSE relays \cup {Request(c)}
       /\ full' = IF b = "buffered" \/ fits THEN full ELSE full \cup {Request(c)}
  /\ UNCHANGED <<server, exit, signalVars, noticed, serial, answered>>

(* The client reads so much that the rest of the body fits. *)
TakesIn(c) ==
  /\ Up /\ conn[c] = "writing" /\ Request(c) \in full
  /\ Release(c)
  /\ UNCHANGED <<server, exit, signalVars, conn, noticed, serial, body, relays, lines, answered>>

(* A relay logs when it has handed over its last chunk, or finds nobody to *)
(* hand it to; not while it waits for room.                                *)
RelayLogs(q) ==
  /\ Up /\ q \notin full
  /\ relays' = relays \ {q}
  /\ lines' = lines \cup {q}
  /\ UNCHANGED <<server, exit, signalVars, conn, noticed, serial, body, full, answered>>

WrittenKeepsAlive(c) ==         \* slip: graceful_shutdown is not remembered
  /\ Up /\ conn[c] = "writing"
  /\ body[c] = "tracked" => Request(c) \notin relays
  /\ answered' = answered \cup {Request(c)}
  /\ Move(c, "idle")
  /\ Release(c)
  /\ UNCHANGED <<server, exit, signalVars, noticed, serial, body, relays, lines>>

(* The last byte goes out, and hyper drops the body: that of an answer to  *)
(* HEAD before it has asked for any of it.  The connection stays open only *)
(* when both sides want that.                                              *)
Written(c) ==
  /\ Up /\ conn[c] = "writing"
  /\ body[c] = "tracked" => Request(c) \notin relays
  /\ answered' = answered \cup {Request(c)}
  /\ \/ Move(c, "closed")
     \/ c \notin noticed /\ Move(c, "idle")
  /\ Release(c)
  /\ UNCHANGED <<server, exit, signalVars, noticed, serial, body, relays, lines>>

DroppedUnnoticed(c) ==          \* slip: a relay that waits never hears of it
  /\ Up /\ conn[c] \in Open
  /\ Move(c, "closed")
  /\ UNCHANGED <<server, exit, signalVars, noticed, requestVars>>

(* The client goes, or a relay that failed breaks its response off. *)
Dropped(c) ==
  /\ Up /\ conn[c] \in Open
  /\ Move(c, "closed")
  /\ Release(c)
  /\ UNCHANGED <<server, exit, signalVars, noticed, serial, body, relays, lines, answered>>

----------------------------------------------------------------------------
Init ==
  /\ server = "accepting" /\ exit = Running
  /\ sent = 0 /\ pending = {} /\ first = "none"
  /\ conn = [c \in Connections |-> "new"]
  /\ noticed = {}
  /\ serial = [c \in Connections |-> 0]
  /\ body = [c \in Connections |-> "none"]
  /\ relays = {} /\ full = {} /\ lines = {} /\ answered = {}

Loop == AcceptFails \/ Returns \/ Exits \/ \E s \in Signals : StartsDrain(s)

Requests == Connections \X (Nat \ {0})

Ended == ~Up /\ UNCHANGED vars

Next ==
  \/ Loop
  \/ \E s \in Signals : Signal(s) \/ SecondSignal(s)
  \/ \E c \in Connections :
       \/ Accept(c) \/ Aborted(c) \/ Notices(c)
       \/ HeadArrives(c) \/ HeadTimesOut(c)
       \/ Handled(c) \/ TakesIn(c) \/ Written(c) \/ Dropped(c)
  \/ \E q \in relays : RelayLogs(q)
  \/ Ended

Spec == Init /\ [][Next]_vars

(* The runtime polls what is ready, a head has its deadline, and a handler *)
(* ends (the request timeout and the Script's see to it).  A relay goes on *)
(* when there is room or nobody to write to.  Nothing is assumed of        *)
(* clients, and no accept error need ever happen.                          *)
Fairness ==
  /\ WF_vars(Returns) /\ WF_vars(Exits)
  /\ WF_vars(\E s \in Signals : StartsDrain(s))
  /\ WF_vars(\E s \in Signals : SecondSignal(s))
  /\ \A c \in Connections :
       /\ WF_vars(Aborted(c)) /\ WF_vars(Notices(c))
       /\ WF_vars(conn[c] = "reading" /\ HeadTimesOut(c)) /\ WF_vars(Handled(c))
  /\ WF_vars(\E q \in relays : RelayLogs(q))

FairSpec == Spec /\ Fairness

----------------------------------------------------------------------------
(* Type invariant. *)
TypeOK ==
  /\ server \in {"accepting", "draining", "returned", "failed"}
  /\ exit \in {Running, 0, 1, 130, 143}
  /\ sent \in 0..MaxSignals
  /\ pending \subseteq Signals
  /\ first \in Signals \cup {"none"}
  /\ conn \in [Connections -> Open \cup {"new", "closed"}]
  /\ noticed \subseteq Connections
  /\ serial \in [Connections -> Nat]
  /\ body \in [Connections -> Bodies \cup {"none"}]
  /\ relays \subseteq Requests
  /\ full \subseteq Requests
  /\ lines \subseteq Requests
  /\ answered \subseteq Requests

(***************************************************************************)
(* Exit code 0 means a completed graceful shutdown: a signal started it,   *)
(* and every connection ended by itself: none was cut off by the exit.     *)
(***************************************************************************)
CleanExitIsDrained ==
  exit = 0 => first # "none" /\ \A c \in Connections : conn[c] \in {"new", "closed"}

(* One signal never abandons the drain: the codes 130 and 143 take a       *)
(* second one, sent after the first was received or of the other kind.     *)
OneSignalDrains == exit \in {130, 143} => first # "none" /\ sent >= 2

(***************************************************************************)
(* A client never holds a whole response of which the log will know        *)
(* nothing: the line is written, or, for a streamed body, its relay is     *)
(* there to write it.  A request has one of the two, never both.           *)
(***************************************************************************)
AnswersAreAccountedFor ==
  /\ answered \subseteq lines \cup relays
  /\ lines \cap relays = {}
  /\ \A c \in Connections : conn[c] = "writing" => Request(c) \in lines \cup relays

(***************************************************************************)
(* A relay waits for nobody but a client that is connected and has the     *)
(* body still to come: when a connection ends, its relay goes on to its    *)
(* line.  So, once the drain is over, no line waits for anything but a     *)
(* turn of its relay.                                                      *)
(***************************************************************************)
RelaysWaitForTheirClient ==
  /\ \A q \in full :
       q \in relays /\ q[1] \in Connections /\ conn[q[1]] = "writing" /\ Request(q[1]) = q
  /\ server = "returned" => full = {}

(* A connection that noticed the shutdown answers the request it has begun *)
(* and takes no other.                                                     *)
DrainTakesNoNewRequest ==
  [][\A c \in noticed : serial'[c] # serial[c] \/ conn'[c] \in Waiting =>
       conn[c] = "reading"]_vars

(* Once a shutdown has started, a second signal ends the process whatever  *)
(* the clients do.                                                         *)
SecondSignalEnds == (first # "none" /\ pending # {}) ~> ~Up

(* One signal is enough when clients read their responses or leave: no     *)
(* unfinished head, no idle connection and no relay holds the drain up.    *)
ClientsMoveOn ==
  \A c \in Connections :
    WF_vars(conn[c] = "writing" /\ (TakesIn(c) \/ Written(c) \/ Dropped(c)))

DrainEnds == ClientsMoveOn => (first # "none" ~> ~Up)

----------------------------------------------------------------------------
(* What a contract says, and the code does not do.                         *)

(* docs/contracts/cli.md:57: "`serve` writes one JSON log line per request *)
(* to stderr."  The drain waits for connections, not for relays: a relay   *)
(* whose client already has everything goes with the runtime, unlogged.    *)
EveryAnswerIsLogged == exit = 0 => answered \subseteq lines
=============================================================================
