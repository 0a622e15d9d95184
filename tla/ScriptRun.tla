----------------------------- MODULE ScriptRun -----------------------------
(***************************************************************************)
(* Route script runs: for every request the parent takes a worker slot,    *)
(* spawns one worker process, exchanges protocol lines with it under a     *)
(* deadline, and turns its one final result, or its failure, into the      *)
(* outcome of the request.  (run_script_inner in src/src/server.rs;        *)
(* execute_with_state, run_worker, exchange, dispatch_host and             *)
(* finish_outcome in src/src/script.rs; Chain and Pending in               *)
(* src/src/request_log.rs.)                                                *)
(*                                                                         *)
(* Three actors interleave per request: the parent's future, which stands  *)
(* at one await point (phase); the worker process, which the parent does   *)
(* not trust; and the blocking thread of a host call, which outlives the   *)
(* future when the deadline or the client ends it first.  Time is the      *)
(* moment a run's deadline passes.  A client that disconnects drops the    *)
(* future wherever it stands.                                              *)
(***************************************************************************)
EXTENDS Integers, FiniteSets, Sequences

CONSTANTS
  Requests,   \* requests that reach a Route script
  Slots,      \* permits of the script_workers semaphore
  MaxLines    \* bound: protocol lines one worker writes

ASSUME SlotsAssumption == Slots \in Nat
ASSUME LinesAssumption == MaxLines \in Nat

VARIABLES
  \* The handler future
  phase,      \* where it is suspended
  held,       \* the requests whose future owns a permit
  expired,    \* the runs whose deadline has passed
  final,      \* the final result exchange has recorded
  reply,      \* why the worker is being terminated (WorkerReply)
  outcome,    \* how the request ended
  recorded,   \* outcome.upstream_calls, the chain as the log line shows it
  \* The worker process
  child,      \* its life, from fork to wait
  stdout,     \* lines written and not yet read
  written,    \* lines written so far
  \* The host capabilities of the run
  call,       \* the host call a blocking thread is running
  done,       \* host calls completed
  acked,      \* host results written to the worker
  chain,      \* the call chain: one status per upstream call
  pipe,       \* index in chain of the stream HostState holds, 0 for none
  handed,     \* index in chain of the stream in the response, 0 for none
  uploads     \* the temporary upload directory

futureVars == <<phase, held, expired, final, reply, outcome, recorded>>
workerVars == <<child, stdout, written>>
hostVars   == <<call, done, acked, chain, pipe, handed, uploads>>
vars       == <<futureVars, workerVars, hostVars>>

Calls == {"state", "pipe"}

(* A final result is a success or an error; a failed one names its kind    *)
(* (FinalErrorKind), or none for a script that failed.                     *)
FinalErrors == {"script_error", "memory_limit", "upstream_unreachable"}
Finals == {"success"} \cup FinalErrors
Lines == Calls \cup Finals \cup {"malformed"}

Exchanging == {"sending", "reading", "dispatching", "replying"}
Phases == {"idle", "spawning", "waiting", "terminating", "over"} \cup Exchanging

Failures == FinalErrors \cup {"timed_out", "worker_terminated", "capacity_exceeded",
                              "no_response"}
Outcomes == {"none", "response", "disconnected"} \cup Failures

Alive == {"running", "closing"}               \* attached, and still a process
Dead == {"exited", "crashed", "aborted", "killed"}    \* not yet waited for
Spawned == {"forked", "ready"}                \* a process nobody drives yet
Children == {"none", "forking", "reaped"} \cup Spawned \cup Alive \cup Dead

Statuses == {"calling", "streaming", "finished"}

----------------------------------------------------------------------------
NeverFinalized(c, i) == c               \* slip: dropping records nothing

(* Dropping a PipeBody drops its Pending, which finalizes the chain entry. *)
Finalized(c, i) == [n \in DOMAIN c |-> IF n = i THEN "finished" ELSE c[n]]

Goto(r, p) == phase' = [phase EXCEPT ![r] = p]

Terminating(r, why) ==
  /\ Goto(r, "terminating")
  /\ reply' = [reply EXCEPT ![r] = why]

(* The future is gone: its permit returns to the semaphore. *)
Ended(r, out) ==
  /\ Goto(r, "over")
  /\ outcome' = [outcome EXCEPT ![r] = out]
  /\ held' = held \ {r}

KeepStream(r) == UNCHANGED <<chain, pipe>>      \* slip: HostState outlives the run

(* HostState goes with its last owner, which may be an orphaned host call. *)
DropStream(r) ==
  IF call[r] = "none"
  THEN /\ chain' = [chain EXCEPT ![r] = Finalized(@, pipe[r])]
       /\ pipe' = [pipe EXCEPT ![r] = 0]
  ELSE UNCHANGED <<chain, pipe>>

(***************************************************************************)
(* The tail of execute_with_state after a failed run: the upload store is  *)
(* closed, the chain is copied for the log, and only then does the future  *)
(* let go of HostState.                                                    *)
(***************************************************************************)
Failed(r, out) ==
  /\ Ended(r, out)
  /\ uploads' = [uploads EXCEPT ![r] = "closed"]
  /\ recorded' = [recorded EXCEPT ![r] = chain[r]]
  /\ DropStream(r)

UnexpectedBlind(r) == "worker_terminated"       \* slip: stderr is not consulted

Unexpected(r) == IF child[r] = "aborted" THEN "memory_limit" ELSE "worker_terminated"

ErrorsFlattened(line) == {"script_error"}       \* slip: a final error's kind is lost

(* How a run fails although its worker exited cleanly: as the error it     *)
(* reported, or for a success without a usable response.                   *)
Errors(line) ==
  IF line = "success" THEN {"no_response", "script_error"} ELSE {line}

----------------------------------------------------------------------------
(* run_script_inner: fail fast when every slot is taken, or the script     *)
(* file is gone.  No host state exists yet.                                *)
Refuse(r) ==
  /\ phase[r] = "idle"
  /\ Goto(r, "over")
  /\ \/ /\ Cardinality(held) >= Slots
        /\ outcome' = [outcome EXCEPT ![r] = "capacity_exceeded"]
     \/ outcome' = [outcome EXCEPT ![r] = "script_error"]
  /\ uploads' = [uploads EXCEPT ![r] = "closed"]
  /\ UNCHANGED <<held, expired, final, reply, recorded, workerVars,
                 call, done, acked, chain, pipe, handed>>

(* The permit is taken and spawn() is handed to the blocking pool. *)
Start(r) ==
  /\ phase[r] = "idle"
  /\ Cardinality(held) < Slots
  /\ held' = held \cup {r}
  /\ Goto(r, "spawning")
  /\ child' = [child EXCEPT ![r] = "forking"]
  /\ UNCHANGED <<expired, final, reply, outcome, recorded, stdout, written, hostVars>>

(* Inside spawn() the process comes into being before the call returns.    *)
Fork(r) ==
  /\ child[r] = "forking"
  /\ child' = [child EXCEPT ![r] = "forked"]
  /\ UNCHANGED <<stdout, written, futureVars, hostVars>>

(* spawn() returns.  With nobody left to await it, the Child is dropped at *)
(* once and kill_on_drop ends the process.                                 *)
SpawnReturns(r) ==
  /\ child[r] = "forked"
  /\ child' = [child EXCEPT ![r] = IF phase[r] = "spawning" THEN "ready" ELSE "killed"]
  /\ UNCHANGED <<stdout, written, futureVars, hostVars>>

SpawnFails(r) ==
  /\ child[r] \in {"forking", "forked"}
  /\ child' = [child EXCEPT ![r] = "none"]
  /\ IF phase[r] = "spawning"
     THEN Failed(r, "worker_terminated")
     ELSE UNCHANGED <<phase, held, outcome, recorded, chain, pipe, uploads>>
  /\ UNCHANGED <<expired, final, reply, stdout, written, call, done, acked, handed>>

Attach(r) ==
  /\ phase[r] = "spawning" /\ child[r] = "ready"
  /\ child' = [child EXCEPT ![r] = "running"]
  /\ Goto(r, "sending")
  /\ UNCHANGED <<held, expired, final, reply, outcome, recorded, stdout, written, hostVars>>

SendJob(r) ==
  /\ phase[r] = "sending"
  /\ \/ child[r] \in Alive /\ Goto(r, "reading") /\ UNCHANGED reply
     \/ child[r] # "running" /\ Terminating(r, "unexpected")
  /\ UNCHANGED <<held, expired, final, outcome, recorded, workerVars, hostVars>>

----------------------------------------------------------------------------
(* exchange: one line.  A line after the final result, or one that is no   *)
(* message, ends the run.                                                  *)
ReadLine(r) ==
  LET line == Head(stdout[r])
  IN /\ phase[r] = "reading" /\ stdout[r] # <<>>
     /\ stdout' = [stdout EXCEPT ![r] = Tail(@)]
     /\ \/ /\ final[r] # "none" \/ line = "malformed"
           /\ Terminating(r, "unexpected")
           /\ UNCHANGED <<final, call, chain>>
        \/ /\ final[r] = "none" /\ line \in Finals
           /\ final' = [final EXCEPT ![r] = line]
           /\ UNCHANGED <<phase, reply, call, chain>>
        \/ /\ final[r] = "none" /\ line \in Calls
           /\ Goto(r, "dispatching")
           /\ call' = [call EXCEPT ![r] = line]
           /\ chain' = IF line = "pipe"
                       THEN [chain EXCEPT ![r] = Append(@, "calling")] ELSE chain
           /\ UNCHANGED <<reply, final>>
     /\ UNCHANGED <<held, expired, outcome, recorded, child, written,
                    done, acked, pipe, handed, uploads>>

ReadEofEarly(r) ==              \* slip: the final result ends the exchange
  /\ phase[r] = "reading"
  /\ \/ final[r] # "none" /\ Goto(r, "waiting") /\ UNCHANGED reply
     \/ /\ stdout[r] = <<>> /\ child[r] # "running"
        /\ final[r] = "none" /\ Terminating(r, "unexpected")
  /\ UNCHANGED <<held, expired, final, outcome, recorded, workerVars, hostVars>>

ReadEof(r) ==
  /\ phase[r] = "reading" /\ stdout[r] = <<>> /\ child[r] # "running"
  /\ \/ final[r] # "none" /\ Goto(r, "waiting") /\ UNCHANGED reply
     \/ final[r] = "none" /\ Terminating(r, "unexpected")
  /\ UNCHANGED <<held, expired, final, outcome, recorded, workerVars, hostVars>>

(***************************************************************************)
(* The blocking thread finishes a host call and its effect lands, whether  *)
(* or not the future still waits for it.  A piped stream replaces (drops)  *)
(* the one HostState held.  The last owner of HostState drops it.  A call  *)
(* that panicked has no result, and the future gives up on the worker.     *)
(***************************************************************************)
CallReturns(r) ==
  LET last   == Len(chain[r])
      opened == [Finalized(chain[r], pipe[r]) EXCEPT ![last] = "streaming"]
      gone   == phase[r] = "over"
  IN /\ call[r] # "none"
     /\ call' = [call EXCEPT ![r] = "none"]
     /\ done' = [done EXCEPT ![r] = @ + 1]
     /\ \/ /\ call[r] = "state"
           /\ chain' = IF gone THEN [chain EXCEPT ![r] = Finalized(@, pipe[r])] ELSE chain
           /\ pipe' = IF gone THEN [pipe EXCEPT ![r] = 0] ELSE pipe
        \/ /\ call[r] = "pipe"              \* upstream answered
           /\ chain' = [chain EXCEPT ![r] =
                          IF gone THEN Finalized(opened, last) ELSE opened]
           /\ pipe' = [pipe EXCEPT ![r] = IF gone THEN 0 ELSE last]
        \/ /\ call[r] = "pipe"              \* upstream error: a result like any other
           /\ chain' = [chain EXCEPT ![r] =
                          Finalized(IF gone THEN Finalized(@, pipe[r]) ELSE @, last)]
           /\ pipe' = IF gone THEN [pipe EXCEPT ![r] = 0] ELSE pipe
     /\ uploads' = IF gone THEN [uploads EXCEPT ![r] = "closed"] ELSE uploads
     /\ \/ phase[r] = "dispatching" /\ Goto(r, "replying") /\ UNCHANGED reply
        \/ phase[r] = "dispatching" /\ Terminating(r, "unexpected")
        \/ phase[r] # "dispatching" /\ UNCHANGED <<phase, reply>>
     /\ UNCHANGED <<held, expired, final, outcome, recorded, workerVars, acked, handed>>

WriteResult(r) ==
  /\ phase[r] = "replying"
  /\ \/ /\ child[r] \in Alive
        /\ acked' = [acked EXCEPT ![r] = @ + 1]
        /\ Goto(r, "reading")
        /\ UNCHANGED reply
     \/ /\ child[r] # "running"
        /\ Terminating(r, "unexpected")
        /\ UNCHANGED acked
  /\ UNCHANGED <<held, expired, final, outcome, recorded, workerVars,
                 call, done, chain, pipe, handed, uploads>>

----------------------------------------------------------------------------
(***************************************************************************)
(* child.wait() after a final result.  finish_outcome takes the streams    *)
(* out of HostState first; a response that does not use the stream, a      *)
(* record that holds no usable response and a final error drop it right    *)
(* there, so the copied chain shows it finalized.                          *)
(***************************************************************************)
WorkerSucceeded(r) ==
  /\ phase[r] = "waiting" /\ child[r] = "exited"
  /\ child' = [child EXCEPT ![r] = "reaped"]
  /\ pipe' = [pipe EXCEPT ![r] = 0]
  /\ \/ /\ final[r] = "success"
        /\ Ended(r, "response")
        /\ \/ /\ chain' = [chain EXCEPT ![r] = Finalized(@, pipe[r])]
              /\ UNCHANGED handed
           \/ /\ pipe[r] # 0
              /\ handed' = [handed EXCEPT ![r] = pipe[r]]
              /\ UNCHANGED chain
     \/ /\ \E out \in Errors(final[r]) : Ended(r, out)
        /\ chain' = [chain EXCEPT ![r] = Finalized(@, pipe[r])]
        /\ UNCHANGED handed
  /\ recorded' = [recorded EXCEPT ![r] = chain'[r]]
  /\ uploads' = [uploads EXCEPT ![r] = "closed"]
  /\ UNCHANGED <<expired, final, reply, stdout, written, call, done, acked>>

WorkerFailed(r) ==
  /\ phase[r] = "waiting" /\ child[r] \in {"crashed", "aborted"}
  /\ child' = [child EXCEPT ![r] = "reaped"]
  /\ Failed(r, Unexpected(r))
  /\ UNCHANGED <<expired, final, reply, stdout, written, call, done, acked, handed>>

(* child.wait() itself fails: the worker is terminated all the same. *)
WaitFails(r) ==
  /\ phase[r] = "waiting"
  /\ Terminating(r, "wait_failed")
  /\ UNCHANGED <<held, expired, final, outcome, recorded, workerVars, hostVars>>

(* terminate: kill, wait, and read stderr to its end.  Only an unexpected  *)
(* reply has the error read off what stderr told.                          *)
Kill(r) ==
  /\ phase[r] = "terminating" /\ child[r] \in Alive
  /\ child' = [child EXCEPT ![r] = "killed"]
  /\ UNCHANGED <<futureVars, stdout, written, hostVars>>

Collect(r) ==
  /\ phase[r] = "terminating" /\ child[r] \in Dead
  /\ child' = [child EXCEPT ![r] = "reaped"]
  /\ Failed(r, CASE reply[r] = "timed_out"   -> "timed_out"
                 [] reply[r] = "wait_failed" -> "worker_terminated"
                 [] reply[r] = "unexpected"  -> Unexpected(r))
  /\ UNCHANGED <<expired, final, reply, stdout, written, call, done, acked, handed>>

----------------------------------------------------------------------------
Deadline(r) ==
  /\ phase[r] \notin {"idle", "over"} /\ r \notin expired
  /\ expired' = expired \cup {r}
  /\ UNCHANGED <<phase, held, final, reply, outcome, recorded, workerVars, hostVars>>

LeaveChild(r) == child[r]       \* slip: no kill_on_drop

(* The process of a Child that is dropped: spawned and not attached, or    *)
(* attached and alive.                                                     *)
DroppedChild(r) == IF child[r] \in Alive \cup {"ready"} THEN "killed" ELSE child[r]

TimeoutExchange(r) ==           \* slip: the deadline does not cover child.wait()
  /\ r \in expired
  /\ \/ /\ phase[r] = "spawning"
        /\ Failed(r, "timed_out")
        /\ child' = [child EXCEPT ![r] = DroppedChild(r)]
        /\ UNCHANGED reply
     \/ /\ phase[r] \in Exchanging
        /\ Terminating(r, "timed_out")
        /\ UNCHANGED <<held, outcome, recorded, child, chain, pipe, uploads>>
  /\ UNCHANGED <<expired, final, stdout, written, call, done, acked, handed>>

(* timeout_at and the outer select: any await of the run may lose to the   *)
(* deadline.  A spawn that is still under way is left to itself.           *)
Timeout(r) ==
  /\ r \in expired
  /\ \/ /\ phase[r] = "spawning"
        /\ Failed(r, "timed_out")
        /\ child' = [child EXCEPT ![r] = DroppedChild(r)]
        /\ UNCHANGED reply
     \/ /\ phase[r] \in Exchanging \cup {"waiting"}
        /\ Terminating(r, "timed_out")
        /\ UNCHANGED <<held, outcome, recorded, child, chain, pipe, uploads>>
  /\ UNCHANGED <<expired, final, stdout, written, call, done, acked, handed>>

(* The client closes its connection and hyper drops the handler's future. *)
Disconnect(r) ==
  /\ phase[r] \notin {"idle", "over"}
  /\ Ended(r, "disconnected")
  /\ child' = [child EXCEPT ![r] = DroppedChild(r)]
  /\ DropStream(r)
  /\ uploads' = IF call[r] = "none" THEN [uploads EXCEPT ![r] = "closed"] ELSE uploads
  /\ UNCHANGED <<expired, final, reply, recorded, stdout, written,
                 call, done, acked, handed>>

(* The runtime waits for dropped children in the background. *)
ReapOrphan(r) ==
  /\ phase[r] = "over" /\ child[r] \in Dead
  /\ child' = [child EXCEPT ![r] = "reaped"]
  /\ UNCHANGED <<futureVars, stdout, written, hostVars>>

----------------------------------------------------------------------------
(* The worker process, free to write any line at any time. *)
WorkerWrites(r, line) ==
  /\ child[r] = "running" /\ phase[r] # "sending"
  /\ written[r] < MaxLines
  /\ stdout' = [stdout EXCEPT ![r] = Append(@, line)]
  /\ written' = [written EXCEPT ![r] = @ + 1]
  /\ UNCHANGED <<child, futureVars, hostVars>>

(* It closes stdout before it exits; it may crash or run out of memory. *)
WorkerLeaves(r) ==
  /\ \/ child[r] = "running" /\ child' = [child EXCEPT ![r] = "closing"]
     \/ child[r] = "closing" /\ child' = [child EXCEPT ![r] = "exited"]
     \/ child[r] \in Alive /\ child' = [child EXCEPT ![r] = "crashed"]
     \/ child[r] \in Alive /\ child' = [child EXCEPT ![r] = "aborted"]
  /\ UNCHANGED <<stdout, written, futureVars, hostVars>>

----------------------------------------------------------------------------
Init ==
  /\ phase = [r \in Requests |-> "idle"]
  /\ held = {}
  /\ expired = {}
  /\ final = [r \in Requests |-> "none"]
  /\ reply = [r \in Requests |-> "none"]
  /\ outcome = [r \in Requests |-> "none"]
  /\ recorded = [r \in Requests |-> <<>>]
  /\ child = [r \in Requests |-> "none"]
  /\ stdout = [r \in Requests |-> <<>>]
  /\ written = [r \in Requests |-> 0]
  /\ call = [r \in Requests |-> "none"]
  /\ done = [r \in Requests |-> 0]
  /\ acked = [r \in Requests |-> 0]
  /\ chain = [r \in Requests |-> <<>>]
  /\ pipe = [r \in Requests |-> 0]
  /\ handed = [r \in Requests |-> 0]
  /\ uploads = [r \in Requests |-> "open"]

(* What the runtime and the blocking pool do for a run; each step is taken *)
(* sooner or later once it can be.                                         *)
Spawning(r) == Fork(r) \/ SpawnReturns(r) \/ SpawnFails(r)

FutureStep(r) ==
  \/ Attach(r) \/ SendJob(r)
  \/ ReadLine(r) \/ ReadEof(r) \/ WriteResult(r)
  \/ WorkerSucceeded(r) \/ WorkerFailed(r)
  \/ Kill(r) \/ Collect(r) \/ Timeout(r)

WorkerStep(r) == WorkerLeaves(r) \/ \E line \in Lines : WorkerWrites(r, line)

(* Nothing is left to happen: any other state without a step is a deadlock. *)
Settled ==
  /\ \A r \in Requests :
       phase[r] = "over" /\ child[r] \in {"none", "reaped"} /\ call[r] = "none"
  /\ UNCHANGED vars

Next ==
  \/ \E r \in Requests :
       \/ Refuse(r) \/ Start(r)
       \/ Spawning(r) \/ FutureStep(r) \/ CallReturns(r)
       \/ WaitFails(r) \/ Deadline(r) \/ Disconnect(r) \/ ReapOrphan(r)
       \/ WorkerStep(r)
  \/ Settled

Spec == Init /\ [][Next]_vars

(* No fairness for the worker (a script may loop), for the client, nor for *)
(* a wait that fails.                                                      *)
Fairness ==
  \A r \in Requests :
    /\ WF_vars(Refuse(r) \/ Start(r))
    /\ WF_vars(Spawning(r))
    /\ WF_vars(FutureStep(r))
    /\ WF_vars(CallReturns(r))
    /\ WF_vars(Deadline(r))
    /\ WF_vars(ReapOrphan(r))

FairSpec == Spec /\ Fairness

----------------------------------------------------------------------------
(* Type invariant. *)
TypeOK ==
  /\ phase \in [Requests -> Phases]
  /\ held \subseteq Requests
  /\ expired \subseteq Requests
  /\ final \in [Requests -> Finals \cup {"none"}]
  /\ reply \in [Requests -> {"none", "timed_out", "unexpected", "wait_failed"}]
  /\ outcome \in [Requests -> Outcomes]
  /\ recorded \in [Requests -> Seq(Statuses)]
  /\ child \in [Requests -> Children]
  /\ stdout \in [Requests -> Seq(Lines)]
  /\ written \in [Requests -> Nat]
  /\ call \in [Requests -> Calls \cup {"none"}]
  /\ done \in [Requests -> Nat]
  /\ acked \in [Requests -> Nat]
  /\ chain \in [Requests -> Seq(Statuses)]
  /\ pipe \in [Requests -> Nat]
  /\ handed \in [Requests -> Nat]
  /\ uploads \in [Requests -> {"open", "closed"}]

(***************************************************************************)
(* A worker that was given to its run is alive only under that run's       *)
(* permit, so at most Slots of them work at a time, however runs end:      *)
(* answered, failed, timed out or dropped at any await.                    *)
(***************************************************************************)
Working == {r \in Requests : child[r] \in Alive}

WorkersUnderPermits ==
  /\ Working \subseteq held
  /\ Cardinality(held) <= Slots

(***************************************************************************)
(* A response comes only from a worker that wrote a success as its last    *)
(* line, exited cleanly and was waited for, with every host call it made   *)
(* answered.                                                               *)
(***************************************************************************)
ResponseIsComplete ==
  \A r \in Requests :
    outcome[r] = "response" =>
      /\ final[r] = "success" /\ stdout[r] = <<>> /\ child[r] = "reaped"
      /\ call[r] = "none" /\ done[r] = acked[r]

(***************************************************************************)
(* An upstream stream that is still open belongs to the HostState of a run *)
(* or to a response, never to both and never to nobody; HostState itself   *)
(* survives its run only under an orphaned host call.                      *)
(***************************************************************************)
StreamsHaveOneOwner ==
  \A r \in Requests :
    /\ \A n \in DOMAIN chain[r] :
         chain[r][n] = "streaming" <=> n \in {pipe[r], handed[r]}
    /\ handed[r] # 0 => outcome[r] = "response" /\ pipe[r] = 0
    /\ phase[r] = "over" /\ pipe[r] # 0 => call[r] # "none"

(***************************************************************************)
(* A failure says what happened.  A timeout needs an expired deadline and  *)
(* a refusal a full semaphore.  A memory limit is an aborted worker, or    *)
(* one that reported it and exited cleanly; an upstream failure and, once  *)
(* the run has started, a script error are what such a worker reported, or *)
(* left undone in a success.  An aborted worker is reported as such unless *)
(* the wait for it failed.                                                 *)
(***************************************************************************)
Said(r, line) == final[r] = line /\ child[r] = "exited" /\ stdout[r] = <<>>

Truthful(r, out) ==
  /\ out = "timed_out" => r \in expired
  /\ out = "memory_limit" => child[r] = "aborted" \/ Said(r, "memory_limit")
  /\ out = "upstream_unreachable" => Said(r, "upstream_unreachable")
  /\ out = "no_response" => Said(r, "success")
  /\ out = "script_error" =>
       phase[r] = "idle" \/ Said(r, "script_error") \/ Said(r, "success")
  /\ out = "capacity_exceeded" =>
       \E R \in SUBSET Requests :
         Cardinality(R) = Slots /\ \A s \in R : phase[s] \notin {"idle", "over"}
  /\ out = "worker_terminated" => child[r] # "aborted" \/ reply[r] = "wait_failed"

FailuresAreTruthful ==
  [][\A r \in Requests : outcome[r] = "none" => Truthful(r, outcome'[r])]_vars

(* Every request is answered or dropped: no worker, host call or client    *)
(* can keep a run, and with it a slot, for ever.                           *)
RunsEnd == \A r \in Requests : <>(phase[r] = "over" /\ r \notin held)

(* Nothing is left behind: no process, not even one whose spawn outlived   *)
(* its run, and, once an orphaned call of the run has returned, no upload  *)
(* directory and no upstream stream.                                       *)
NothingLeaks ==
  <>[](\A r \in Requests :
         child[r] \in {"none", "reaped"} /\ uploads[r] = "closed" /\ pipe[r] = 0)

----------------------------------------------------------------------------
(* What a comment says, and the code does not do.                          *)

(* src/src/request_log.rs:101-103: dropping a Pending records an abandoned *)
(* stream, "so the call chain never keeps a half-open entry when a script  *)
(* discards a streamed response".  A run that fails after it piped copies  *)
(* the chain before HostState drops the stream.                            *)
NoHalfOpenEntry ==
  \A r \in Requests :
    outcome[r] \in Failures => \A n \in DOMAIN recorded[r] : recorded[r][n] # "streaming"
=============================================================================
