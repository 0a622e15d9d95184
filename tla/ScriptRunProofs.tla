-------------------------- MODULE ScriptRunProofs --------------------------
(***************************************************************************)
(* Proofs about ScriptRun, for any set of requests, any number of slots    *)
(* and of protocol lines.                                                  *)
(*                                                                         *)
(* A step concerns one run and leaves the others alone (OthersKeep), but   *)
(* for the semaphore: its permits are held by exactly the runs under way   *)
(* (SlotInv).  What a run must satisfy on its own is RunInv, in parts.     *)
(***************************************************************************)
EXTENDS ScriptRun, TLAPS, FiniteSetTheorems, SequenceTheorems

UnderWay(r) == phase[r] \notin {"idle", "over"}

(* The permits out are those of the runs under way, and not too many. *)
SlotInv ==
  /\ held = {r \in Requests : UnderWay(r)}
  /\ IsFiniteSet(held) /\ Cardinality(held) <= Slots

(* A worker lives only while its run is under way, and writes no more once *)
(* the end of its output has been read, after a final result.              *)
ChildInv(r) ==
  /\ child[r] \in Alive => UnderWay(r)
  /\ phase[r] = "waiting" => child[r] # "running" /\ stdout[r] = <<>> /\ final[r] # "none"
  /\ phase[r] = "terminating" => reply[r] # "none"

(* The protocol takes turns: a line is read only when the call before it   *)
(* has been answered.                                                      *)
CallInv(r) ==
  /\ phase[r] \in {"idle", "spawning", "sending", "reading", "replying", "waiting"} =>
       call[r] = "none"
  /\ phase[r] \in {"idle", "spawning", "sending", "reading", "dispatching", "waiting"} =>
       done[r] = acked[r]
  /\ phase[r] = "replying" => done[r] = acked[r] + 1

(* An outcome is final, and a response comes from a complete run. *)
OutcomeInv(r) ==
  /\ outcome[r] # "none" => phase[r] = "over"
  /\ reply[r] = "timed_out" => r \in expired
  /\ outcome[r] = "response" =>
       /\ final[r] = "success" /\ stdout[r] = <<>> /\ child[r] = "reaped"
       /\ call[r] = "none" /\ done[r] = acked[r]

(* An open stream has one owner; the call that a thread is making upstream *)
(* is the last of the chain, and has no stream yet.                        *)
StreamInv(r) ==
  /\ \A n \in 1..Len(chain[r]) : chain[r][n] = "streaming" <=> n \in {pipe[r], handed[r]}
  /\ pipe[r] \in 0..Len(chain[r])
  /\ call[r] = "pipe" => chain[r] # <<>> /\ chain[r][Len(chain[r])] = "calling"
  /\ handed[r] # 0 => outcome[r] = "response" /\ pipe[r] = 0
  /\ phase[r] = "idle" => pipe[r] = 0
  /\ phase[r] = "over" /\ pipe[r] # 0 => call[r] # "none"

RunInv(r) == ChildInv(r) /\ CallInv(r) /\ OutcomeInv(r) /\ StreamInv(r)

Inv == TypeOK /\ SlotInv /\ \A r \in Requests : RunInv(r)

----------------------------------------------------------------------------
LEMMA InitKeeps == Init => Inv
<1> SUFFICES ASSUME Init PROVE Inv
  OBVIOUS
<1>0. \A S : <<>> \in Seq(S) /\ Len(<<>>) = 0
  BY EmptySeq
<1>1. TypeOK
  <2>1. /\ recorded \in [Requests -> Seq(Statuses)] /\ stdout \in [Requests -> Seq(Lines)]
        /\ chain \in [Requests -> Seq(Statuses)]
    BY <1>0 DEF Init
  <2> QED
    BY <2>1 DEF Init, TypeOK, Phases, Finals, Outcomes, Children, Calls
<1>2. SlotInv
  <2>1. held = {r \in Requests : UnderWay(r)}
    BY DEF Init, UnderWay
  <2>2. IsFiniteSet(held) /\ Cardinality(held) <= Slots
    BY FS_EmptySet, SlotsAssumption DEF Init, SlotsAssumption
  <2> QED
    BY <2>1, <2>2 DEF SlotInv
<1>3. ASSUME NEW r \in Requests PROVE RunInv(r)
  <2>1. ChildInv(r) /\ CallInv(r) /\ OutcomeInv(r)
    BY <1>3 DEF Init, ChildInv, CallInv, OutcomeInv, UnderWay, Alive
  <2>2. StreamInv(r)
    BY <1>0, <1>3 DEF Init, StreamInv
  <2> QED
    BY <2>1, <2>2 DEF RunInv
<1> QED
  BY <1>1, <1>2, <1>3 DEF Inv

----------------------------------------------------------------------------
(* Nothing happens to run s. *)
Same(s) ==
  /\ phase'[s] = phase[s] /\ final'[s] = final[s] /\ reply'[s] = reply[s]
  /\ outcome'[s] = outcome[s] /\ child'[s] = child[s] /\ stdout'[s] = stdout[s]
  /\ call'[s] = call[s] /\ done'[s] = done[s] /\ acked'[s] = acked[s]
  /\ chain'[s] = chain[s] /\ pipe'[s] = pipe[s] /\ handed'[s] = handed[s]
  /\ s \in expired => s \in expired'

LEMMA OthersKeep ==
  ASSUME NEW s, RunInv(s), Same(s)
  PROVE  RunInv(s)'
<1>1. ChildInv(s)' /\ CallInv(s)' /\ OutcomeInv(s)'
  BY DEF RunInv, Same, ChildInv, UnderWay, CallInv, OutcomeInv
<1>2. StreamInv(s)'
  BY DEF RunInv, Same, StreamInv
<1> QED
  BY <1>1, <1>2 DEF RunInv

LEMMA OneRunMoves ==
  ASSUME Inv, NEW r \in Requests, TypeOK', SlotInv', RunInv(r)',
         \A s \in Requests \ {r} : Same(s)
  PROVE  Inv'
<1>1. \A s \in Requests : RunInv(s)'
  BY OthersKeep DEF Inv
<1> QED
  BY <1>1 DEF Inv

LEMMA SlotsStay ==
  ASSUME Inv, held' = held, \A s \in Requests : UnderWay(s)' <=> UnderWay(s)
  PROVE  SlotInv'
BY DEF Inv, SlotInv

(* A run that ends gives its permit back, and no other. *)
LEMMA EndFreesSlot ==
  ASSUME Inv, NEW r \in Requests, NEW out, Ended(r, out)
  PROVE  SlotInv'
<1>1. /\ phase' = [phase EXCEPT ![r] = "over"] /\ held' = held \ {r}
      /\ phase \in [Requests -> Phases]
  BY DEF Ended, Goto, Inv, TypeOK
<1>2. held' = {s \in Requests : UnderWay(s)'}
  BY <1>1 DEF Inv, SlotInv, UnderWay
<1>3. IsFiniteSet(held') /\ Cardinality(held') <= Cardinality(held)
  BY <1>1, FS_Subset, FS_CardinalityType DEF Inv, SlotInv
<1>4. Cardinality(held') \in Nat /\ Cardinality(held) \in Nat
  BY <1>3, FS_CardinalityType DEF Inv, SlotInv
<1>5. Cardinality(held') <= Slots
  BY <1>3, <1>4, SlotsAssumption DEF Inv, SlotInv, SlotsAssumption
<1> QED
  BY <1>2, <1>3, <1>5 DEF SlotInv

(***************************************************************************)
(* Finalized settles link i of a chain and leaves the other links alone.   *)
(***************************************************************************)
IsFinalized(f, c, i) ==
  /\ f \in Seq(Statuses) /\ Len(f) = Len(c)
  /\ \A n \in 1..Len(c) : f[n] = IF n = i THEN "finished" ELSE c[n]

LEMMA FinalizedChain ==
  ASSUME NEW c \in Seq(Statuses), NEW i, NEW f, f = Finalized(c, i)
  PROVE  IsFinalized(f, c, i)
<1>1. Len(c) \in Nat /\ DOMAIN c = 1..Len(c) /\ c \in [1..Len(c) -> Statuses]
  BY LenProperties
<1>2. Finalized(c, i) = [n \in 1..Len(c) |-> IF n = i THEN "finished" ELSE c[n]]
  BY <1>1 DEF Finalized
<1>3. Finalized(c, i) \in [1..Len(c) -> Statuses]
  BY <1>1, <1>2 DEF Statuses
<1>4. Finalized(c, i) \in Seq(Statuses) /\ Len(Finalized(c, i)) = Len(c)
  BY <1>1, <1>3, SeqDef, LenProperties
<1> QED
  BY <1>2, <1>4 DEF IsFinalized

(***************************************************************************)
(* DropStream leaves no open stream behind, or leaves it to the thread of  *)
(* an orphaned call.                                                       *)
(***************************************************************************)
LEMMA DropKeepsStreams ==
  ASSUME Inv, NEW r \in Requests, DropStream(r), UnderWay(r), phase'[r] = "over",
         UNCHANGED <<call, handed>>
  PROVE  /\ StreamInv(r)'
         /\ chain' \in [Requests -> Seq(Statuses)] /\ pipe' \in [Requests -> Nat]
         /\ \A s \in Requests \ {r} : chain'[s] = chain[s] /\ pipe'[s] = pipe[s]
<1>1. /\ chain \in [Requests -> Seq(Statuses)] /\ pipe \in [Requests -> Nat]
      /\ chain[r] \in Seq(Statuses) /\ Len(chain[r]) \in Nat /\ StreamInv(r) /\ OutcomeInv(r)
  BY DEF Inv, TypeOK, RunInv
<1>2. handed[r] = 0
  BY <1>1 DEF StreamInv, OutcomeInv, UnderWay
<1>3. CASE call[r] = "none"
  <2> PICK c : c = Finalized(chain[r], pipe[r])
    OBVIOUS
  <2>1. chain' = [chain EXCEPT ![r] = c] /\ pipe' = [pipe EXCEPT ![r] = 0]
    BY <1>3 DEF DropStream
  <2>2. /\ c \in Seq(Statuses) /\ Len(c) = Len(chain[r])
        /\ \A n \in 1..Len(c) : c[n] = IF n = pipe[r] THEN "finished" ELSE chain[r][n]
    <3>1. IsFinalized(c, chain[r], pipe[r])
      BY <1>1, FinalizedChain, Zenon
    <3> QED
      BY <3>1 DEF IsFinalized
  <2>3. chain'[r] = c /\ pipe'[r] = 0
    BY <1>1, <2>1
  <2>4. \A n \in 1..Len(c) : c[n] # "streaming" /\ n # 0
    BY <1>1, <1>2, <2>2 DEF StreamInv
  <2>5. StreamInv(r)'
    BY <1>1, <1>2, <1>3, <2>2, <2>3, <2>4 DEF StreamInv
  <2> QED
    BY <1>1, <2>1, <2>2, <2>5
<1>4. CASE call[r] # "none"
  <2>1. UNCHANGED <<chain, pipe, call, handed>>
    BY <1>4 DEF DropStream
  <2>2. StreamInv(r)'
    BY <1>1, <1>2, <1>4, <2>1 DEF StreamInv
  <2> QED
    BY <1>1, <2>1, <2>2
<1> QED
  BY <1>3, <1>4

(***************************************************************************)
(* A run under way is given up, for whatever reason: its worker is not     *)
(* left alive, and HostState goes, or is left to an orphaned call.         *)
(***************************************************************************)
LEMMA GivenUp ==
  ASSUME Inv, NEW r \in Requests, UnderWay(r),
         NEW out \in Failures \cup {"disconnected"}, Ended(r, out), DropStream(r),
         NEW c \in Children \ Alive, child' = [child EXCEPT ![r] = c],
         recorded' \in [Requests -> Seq(Statuses)],
         uploads' \in [Requests -> {"open", "closed"}],
         UNCHANGED <<expired, final, reply, stdout, written, call, done, acked, handed>>
  PROVE  Inv'
<1>1. /\ phase' = [phase EXCEPT ![r] = "over"] /\ outcome' = [outcome EXCEPT ![r] = out]
      /\ held' = held \ {r}
  BY DEF Ended, Goto
<1>2. TypeOK
  BY DEF Inv
<1>3. phase'[r] = "over" /\ outcome'[r] = out /\ child'[r] = c
  BY <1>1, <1>2 DEF TypeOK
<1>4. /\ StreamInv(r)' /\ chain' \in [Requests -> Seq(Statuses)] /\ pipe' \in [Requests -> Nat]
      /\ \A s \in Requests \ {r} : chain'[s] = chain[s] /\ pipe'[s] = pipe[s]
  BY <1>3, DropKeepsStreams
<1>5. TypeOK'
  <2>1. phase' \in [Requests -> Phases] /\ outcome' \in [Requests -> Outcomes]
    BY <1>1, <1>2 DEF TypeOK, Phases, Outcomes
  <2>2. child' \in [Requests -> Children] /\ held' \subseteq Requests
    BY <1>1, <1>2 DEF TypeOK
  <2> QED
    BY <1>2, <1>4, <2>1, <2>2 DEF TypeOK
<1>6. SlotInv'
  BY EndFreesSlot
<1>7. ChildInv(r)' /\ CallInv(r)'
  BY <1>3 DEF ChildInv, CallInv, UnderWay
<1>8. OutcomeInv(r)'
  BY <1>3 DEF Inv, RunInv, OutcomeInv, Failures, FinalErrors
<1>9. \A s \in Requests \ {r} : Same(s)
  BY <1>1, <1>2, <1>4 DEF Same, TypeOK
<1> QED
  BY <1>4, <1>5, <1>6, <1>7, <1>8, <1>9, OneRunMoves DEF RunInv

LEMMA FailedGivesUp ==
  ASSUME Inv, NEW r \in Requests, UnderWay(r), NEW out \in Failures, Failed(r, out),
         NEW c \in Children \ Alive, child' = [child EXCEPT ![r] = c],
         UNCHANGED <<expired, final, reply, stdout, written, call, done, acked, handed>>
  PROVE  Inv'
<1>1. Ended(r, out) /\ DropStream(r)
  BY DEF Failed
<1>2. /\ recorded' \in [Requests -> Seq(Statuses)]
      /\ uploads' \in [Requests -> {"open", "closed"}]
  BY DEF Failed, Inv, TypeOK
<1> QED
  BY <1>1, <1>2, GivenUp

----------------------------------------------------------------------------
LEMMA RefuseKeeps ==
  ASSUME Inv, NEW r \in Requests, Refuse(r)
  PROVE  Inv'
<1>1. TypeOK
  BY DEF Inv
<1>2. PICK out \in {"capacity_exceeded", "script_error"} :
        /\ phase[r] = "idle" /\ phase' = [phase EXCEPT ![r] = "over"]
        /\ outcome' = [outcome EXCEPT ![r] = out]
        /\ uploads' = [uploads EXCEPT ![r] = "closed"]
        /\ UNCHANGED <<held, expired, final, reply, recorded, child, stdout, written,
                       call, done, acked, chain, pipe, handed>>
  BY DEF Refuse, Goto, workerVars
<1>3. phase'[r] = "over" /\ outcome'[r] = out
  BY <1>1, <1>2 DEF TypeOK
<1>4. TypeOK'
  BY <1>1, <1>2 DEF TypeOK, Phases, Outcomes, Failures, FinalErrors
<1>5. SlotInv'
  BY <1>1, <1>2, SlotsStay DEF UnderWay, TypeOK
<1>6. ChildInv(r)' /\ CallInv(r)' /\ OutcomeInv(r)'
  BY <1>2, <1>3 DEF Inv, RunInv, ChildInv, UnderWay, CallInv, OutcomeInv
<1>7. StreamInv(r)'
  BY <1>2, <1>3 DEF Inv, RunInv, OutcomeInv, StreamInv
<1>8. \A s \in Requests \ {r} : Same(s)
  BY <1>1, <1>2 DEF Same, TypeOK
<1> QED
  BY <1>4, <1>5, <1>6, <1>7, <1>8, OneRunMoves DEF RunInv

LEMMA StartKeeps ==
  ASSUME Inv, NEW r \in Requests, Start(r)
  PROVE  Inv'
<1>1. TypeOK
  BY DEF Inv
<1>2. /\ phase[r] = "idle" /\ Cardinality(held) < Slots /\ held' = held \cup {r}
      /\ phase' = [phase EXCEPT ![r] = "spawning"] /\ child' = [child EXCEPT ![r] = "forking"]
      /\ UNCHANGED <<expired, final, reply, outcome, recorded, stdout, written,
                     call, done, acked, chain, pipe, handed, uploads>>
  BY DEF Start, Goto, hostVars
<1>3. phase'[r] = "spawning" /\ child'[r] = "forking"
  BY <1>1, <1>2 DEF TypeOK
<1>4. TypeOK'
  <2>1. phase' \in [Requests -> Phases] /\ child' \in [Requests -> Children]
    BY <1>1, <1>2 DEF TypeOK, Phases, Children
  <2> QED
    BY <1>1, <1>2, <2>1 DEF TypeOK
<1>5. SlotInv'
  <2>1. held' = {s \in Requests : UnderWay(s)'}
    BY <1>1, <1>2 DEF Inv, SlotInv, UnderWay, TypeOK
  <2>2. r \notin held /\ IsFiniteSet(held)
    BY <1>2 DEF Inv, SlotInv, UnderWay
  <2>3. IsFiniteSet(held') /\ Cardinality(held') = Cardinality(held) + 1
    BY <1>2, <2>2, FS_AddElement
  <2>4. Cardinality(held) \in Nat
    BY <2>2, FS_CardinalityType
  <2>5. Cardinality(held') <= Slots
    BY <1>2, <2>3, <2>4, SlotsAssumption DEF SlotsAssumption
  <2> QED
    BY <2>1, <2>3, <2>5 DEF SlotInv
<1>6. ChildInv(r)' /\ CallInv(r)' /\ OutcomeInv(r)'
  BY <1>2, <1>3 DEF Inv, RunInv, ChildInv, UnderWay, CallInv, OutcomeInv, Alive
<1>7. StreamInv(r)'
  BY <1>2, <1>3 DEF Inv, RunInv, StreamInv
<1>8. \A s \in Requests \ {r} : Same(s)
  BY <1>1, <1>2 DEF Same, TypeOK
<1> QED
  BY <1>4, <1>5, <1>6, <1>7, <1>8, OneRunMoves DEF RunInv

(* Steps of the blocking pool before and after the run has the child. *)
LEMMA PoolKeeps ==
  ASSUME Inv, NEW r \in Requests, NEW c \in Children \ Alive,
         child[r] # "reaped", child' = [child EXCEPT ![r] = c],
         UNCHANGED <<stdout, written, futureVars, hostVars>>
  PROVE  Inv'
<1>1. TypeOK
  BY DEF Inv
<1>2. UNCHANGED <<phase, held, expired, final, reply, outcome, recorded, stdout, written,
                  call, done, acked, chain, pipe, handed, uploads>>
  BY DEF futureVars, hostVars
<1>3. child'[r] = c
  BY <1>1 DEF TypeOK
<1>4. TypeOK'
  <2>1. child' \in [Requests -> Children]
    BY <1>1 DEF TypeOK
  <2> QED
    BY <1>1, <1>2, <2>1 DEF TypeOK
<1>5. SlotInv'
  BY <1>2, SlotsStay DEF UnderWay
<1>6. ChildInv(r)' /\ CallInv(r)' /\ OutcomeInv(r)'
  BY <1>2, <1>3 DEF Inv, RunInv, ChildInv, UnderWay, CallInv, OutcomeInv, Alive
<1>7. StreamInv(r)'
  BY <1>2 DEF Inv, RunInv, StreamInv
<1>8. \A s \in Requests \ {r} : Same(s)
  BY <1>1, <1>2 DEF Same, TypeOK
<1> QED
  BY <1>4, <1>5, <1>6, <1>7, <1>8, OneRunMoves DEF RunInv

LEMMA SpawningKeeps ==
  ASSUME Inv, NEW r \in Requests, Spawning(r)
  PROVE  Inv'
<1>0. \A c \in {"none", "forked", "ready", "killed"} : c \in Children \ Alive
  BY DEF Children, Alive, Spawned, Dead
<1>1. CASE Fork(r)
  BY <1>0, <1>1, PoolKeeps DEF Fork
<1>2. CASE SpawnReturns(r)
  <2>1. PICK c \in {"ready", "killed"} :
          /\ child' = [child EXCEPT ![r] = c] /\ child[r] # "reaped"
          /\ UNCHANGED <<stdout, written, futureVars, hostVars>>
    BY <1>2 DEF SpawnReturns
  <2> QED
    BY <1>0, <2>1, PoolKeeps
<1>3. CASE SpawnFails(r) /\ phase[r] = "spawning"
  BY <1>0, <1>3, FailedGivesUp DEF SpawnFails, UnderWay, Failures
<1>4. CASE SpawnFails(r) /\ phase[r] # "spawning"
  <2>1. /\ child' = [child EXCEPT ![r] = "none"] /\ child[r] # "reaped"
        /\ UNCHANGED <<stdout, written, futureVars, hostVars>>
    BY <1>4 DEF SpawnFails, futureVars, hostVars
  <2> QED
    BY <1>0, <2>1, PoolKeeps
<1> QED
  BY <1>1, <1>2, <1>3, <1>4 DEF Spawning

----------------------------------------------------------------------------
(* The exchange ends early: the worker is going to be killed. *)
LEMMA TerminatingKeeps ==
  ASSUME Inv, NEW r \in Requests, UnderWay(r), NEW why \in {"timed_out", "unexpected", "wait_failed"},
         why = "timed_out" => r \in expired, Terminating(r, why),
         stdout' \in [Requests -> Seq(Lines)],
         \A s \in Requests \ {r} : stdout'[s] = stdout[s],
         UNCHANGED <<held, expired, final, outcome, recorded, child, written, hostVars>>
  PROVE  Inv'
<1>1. TypeOK
  BY DEF Inv
<1>2. /\ phase' = [phase EXCEPT ![r] = "terminating"] /\ reply' = [reply EXCEPT ![r] = why]
      /\ UNCHANGED <<held, expired, final, outcome, recorded, child, written,
                     call, done, acked, chain, pipe, handed, uploads>>
  BY DEF Terminating, Goto, hostVars
<1>3. phase'[r] = "terminating" /\ reply'[r] = why
  BY <1>1, <1>2 DEF TypeOK
<1>4. TypeOK'
  BY <1>1, <1>2 DEF TypeOK, Phases
<1>5. SlotInv'
  BY <1>1, <1>2, SlotsStay DEF UnderWay, TypeOK
<1>6. ChildInv(r)' /\ CallInv(r)' /\ OutcomeInv(r)'
  BY <1>2, <1>3 DEF Inv, RunInv, ChildInv, UnderWay, CallInv, OutcomeInv
<1>7. StreamInv(r)'
  BY <1>2, <1>3 DEF Inv, RunInv, StreamInv
<1>8. \A s \in Requests \ {r} : Same(s)
  BY <1>1, <1>2 DEF Same, TypeOK
<1> QED
  BY <1>4, <1>5, <1>6, <1>7, <1>8, OneRunMoves DEF RunInv

LEMMA AttachKeeps ==
  ASSUME Inv, NEW r \in Requests, Attach(r)
  PROVE  Inv'
<1>1. TypeOK
  BY DEF Inv
<1>2. /\ phase[r] = "spawning" /\ child' = [child EXCEPT ![r] = "running"]
      /\ phase' = [phase EXCEPT ![r] = "sending"]
      /\ UNCHANGED <<held, expired, final, reply, outcome, recorded, stdout, written,
                     call, done, acked, chain, pipe, handed, uploads>>
  BY DEF Attach, Goto, hostVars
<1>3. phase'[r] = "sending" /\ child'[r] = "running"
  BY <1>1, <1>2 DEF TypeOK
<1>4. TypeOK'
  <2>1. phase' \in [Requests -> Phases] /\ child' \in [Requests -> Children]
    BY <1>1, <1>2 DEF TypeOK, Phases, Exchanging, Children, Alive
  <2> QED
    BY <1>1, <1>2, <2>1 DEF TypeOK
<1>5. SlotInv'
  BY <1>1, <1>2, SlotsStay DEF UnderWay, TypeOK
<1>6. ChildInv(r)' /\ CallInv(r)' /\ OutcomeInv(r)'
  BY <1>2, <1>3 DEF Inv, RunInv, ChildInv, UnderWay, CallInv, OutcomeInv
<1>7. StreamInv(r)'
  BY <1>2, <1>3 DEF Inv, RunInv, StreamInv
<1>8. \A s \in Requests \ {r} : Same(s)
  BY <1>1, <1>2 DEF Same, TypeOK
<1> QED
  BY <1>4, <1>5, <1>6, <1>7, <1>8, OneRunMoves DEF RunInv

(* The job is sent, or the end of the output is reached. *)
LEMMA ProceedKeeps ==
  ASSUME Inv, NEW r \in Requests, NEW p \in {"reading", "waiting"},
         phase[r] \in {"sending", "reading"}, phase' = [phase EXCEPT ![r] = p],
         p = "waiting" => child[r] # "running" /\ stdout[r] = <<>> /\ final[r] # "none",
         UNCHANGED <<held, expired, final, reply, outcome, recorded, workerVars, hostVars>>
  PROVE  Inv'
<1>1. TypeOK
  BY DEF Inv
<1>2. UNCHANGED <<held, expired, final, reply, outcome, recorded, child, stdout, written,
                  call, done, acked, chain, pipe, handed, uploads>>
  BY DEF workerVars, hostVars
<1>3. phase'[r] = p
  BY <1>1 DEF TypeOK
<1>4. TypeOK'
  <2>1. phase' \in [Requests -> Phases]
    BY <1>1 DEF TypeOK, Phases, Exchanging
  <2> QED
    BY <1>1, <1>2, <2>1 DEF TypeOK
<1>5. SlotInv'
  BY <1>1, <1>2, SlotsStay DEF UnderWay, TypeOK
<1>6. ChildInv(r)' /\ CallInv(r)' /\ OutcomeInv(r)'
  BY <1>2, <1>3 DEF Inv, RunInv, ChildInv, UnderWay, CallInv, OutcomeInv
<1>7. StreamInv(r)'
  BY <1>2, <1>3 DEF Inv, RunInv, StreamInv
<1>8. \A s \in Requests \ {r} : Same(s)
  BY <1>1, <1>2 DEF Same, TypeOK
<1> QED
  BY <1>4, <1>5, <1>6, <1>7, <1>8, OneRunMoves DEF RunInv

LEMMA SendJobKeeps ==
  ASSUME Inv, NEW r \in Requests, SendJob(r)
  PROVE  Inv'
<1>1. UNCHANGED <<held, expired, final, outcome, recorded, child, stdout, written, hostVars>>
  BY DEF SendJob, workerVars
<1>2. CASE Goto(r, "reading") /\ UNCHANGED reply
  BY <1>1, <1>2, ProceedKeeps DEF SendJob, Goto, workerVars
<1>3. CASE Terminating(r, "unexpected")
  BY <1>1, <1>3, TerminatingKeeps DEF SendJob, UnderWay, Inv, TypeOK
<1> QED
  BY <1>2, <1>3 DEF SendJob

LEMMA ReadEofKeeps ==
  ASSUME Inv, NEW r \in Requests, ReadEof(r)
  PROVE  Inv'
<1>1. UNCHANGED <<held, expired, final, outcome, recorded, child, stdout, written, hostVars>>
  BY DEF ReadEof, workerVars
<1>2. CASE final[r] # "none" /\ Goto(r, "waiting") /\ UNCHANGED reply
  BY <1>1, <1>2, ProceedKeeps DEF ReadEof, Goto, workerVars
<1>3. CASE Terminating(r, "unexpected")
  BY <1>1, <1>3, TerminatingKeeps DEF ReadEof, UnderWay, Inv, TypeOK
<1> QED
  BY <1>2, <1>3 DEF ReadEof

LEMMA WriteResultKeeps ==
  ASSUME Inv, NEW r \in Requests, WriteResult(r)
  PROVE  Inv'
<1>1. TypeOK
  BY DEF Inv
<1>2. /\ phase[r] = "replying"
      /\ UNCHANGED <<held, expired, final, outcome, recorded, child, stdout, written,
                     call, done, chain, pipe, handed, uploads>>
  BY DEF WriteResult, workerVars
<1>3. CASE acked' = [acked EXCEPT ![r] = @ + 1] /\ Goto(r, "reading") /\ UNCHANGED reply
  <2>1. /\ phase' = [phase EXCEPT ![r] = "reading"]
        /\ phase'[r] = "reading" /\ acked'[r] = acked[r] + 1
    BY <1>1, <1>3 DEF TypeOK, Goto
  <2>2. TypeOK'
    <3>1. phase' \in [Requests -> Phases] /\ acked' \in [Requests -> Nat]
      BY <1>1, <1>3, <2>1 DEF TypeOK, Phases, Exchanging
    <3> QED
      BY <1>1, <1>2, <1>3, <3>1 DEF TypeOK
  <2>3. SlotInv'
    BY <1>1, <1>2, <2>1, SlotsStay DEF UnderWay, TypeOK
  <2>4. ChildInv(r)' /\ CallInv(r)' /\ OutcomeInv(r)'
    BY <1>2, <1>3, <2>1 DEF Inv, RunInv, ChildInv, UnderWay, CallInv, OutcomeInv
  <2>5. StreamInv(r)'
    BY <1>2, <2>1 DEF Inv, RunInv, StreamInv
  <2>6. \A s \in Requests \ {r} : Same(s)
    BY <1>1, <1>2, <1>3, <2>1 DEF Same, TypeOK
  <2> QED
    BY <2>2, <2>3, <2>4, <2>5, <2>6, OneRunMoves DEF RunInv
<1>4. CASE Terminating(r, "unexpected") /\ UNCHANGED acked
  BY <1>1, <1>2, <1>4, TerminatingKeeps DEF UnderWay, TypeOK, hostVars
<1> QED
  BY <1>3, <1>4 DEF WriteResult

----------------------------------------------------------------------------
(* A line is taken from the output; only one that asks for a host call, on *)
(* a run without a final result, starts one.                               *)
LEMMA ReadLineKeeps ==
  ASSUME Inv, NEW r \in Requests, ReadLine(r)
  PROVE  Inv'
<1>1. TypeOK
  BY DEF Inv
<1> DEFINE line == Head(stdout[r])
<1>2. /\ phase[r] = "reading" /\ stdout[r] # <<>> /\ stdout' = [stdout EXCEPT ![r] = Tail(@)]
      /\ UNCHANGED <<held, expired, outcome, recorded, child, written,
                     done, acked, pipe, handed, uploads>>
  BY DEF ReadLine
<1>3. /\ stdout' \in [Requests -> Seq(Lines)]
      /\ \A s \in Requests \ {r} : stdout'[s] = stdout[s]
  <2>1. stdout[r] \in Seq(Lines)
    BY <1>1 DEF TypeOK
  <2>2. Tail(stdout[r]) \in Seq(Lines)
    BY <1>2, <2>1, HeadTailProperties
  <2> QED
    BY <1>1, <1>2, <2>2 DEF TypeOK
<1>4. CASE Terminating(r, "unexpected") /\ UNCHANGED <<final, call, chain>>
  BY <1>2, <1>3, <1>4, TerminatingKeeps DEF UnderWay, hostVars
<1>5. CASE /\ line \in Finals /\ final' = [final EXCEPT ![r] = line]
           /\ UNCHANGED <<phase, reply, call, chain>>
  <2>1. TypeOK'
    <3>1. final' \in [Requests -> Finals \cup {"none"}]
      BY <1>1, <1>5 DEF TypeOK
    <3> QED
      BY <1>1, <1>2, <1>3, <1>5, <3>1 DEF TypeOK
  <2>2. SlotInv'
    BY <1>2, <1>5, SlotsStay DEF UnderWay
  <2>3. ChildInv(r)' /\ CallInv(r)' /\ OutcomeInv(r)'
    BY <1>2, <1>5 DEF Inv, RunInv, ChildInv, UnderWay, CallInv, OutcomeInv
  <2>4. StreamInv(r)'
    BY <1>2, <1>5 DEF Inv, RunInv, StreamInv
  <2>5. \A s \in Requests \ {r} : Same(s)
    BY <1>1, <1>2, <1>3, <1>5 DEF Same, TypeOK
  <2> QED
    BY <2>1, <2>2, <2>3, <2>4, <2>5, OneRunMoves DEF RunInv
<1>6. CASE /\ line \in Calls /\ Goto(r, "dispatching") /\ call' = [call EXCEPT ![r] = line]
           /\ chain' = IF line = "pipe"
                       THEN [chain EXCEPT ![r] = Append(@, "calling")] ELSE chain
           /\ UNCHANGED <<reply, final>>
  <2>1. phase' = [phase EXCEPT ![r] = "dispatching"] /\ phase'[r] = "dispatching"
    BY <1>1, <1>6 DEF TypeOK, Goto
  <2>2. /\ chain[r] \in Seq(Statuses) /\ Len(chain[r]) \in Nat /\ "calling" \in Statuses
        /\ StreamInv(r) /\ handed[r] = 0 /\ pipe[r] \in 0..Len(chain[r])
    BY <1>1, <1>2 DEF TypeOK, Statuses, Inv, RunInv, OutcomeInv, StreamInv
  <2>3. PICK c : c = Append(chain[r], "calling")
    OBVIOUS
  <2>4. /\ c \in Seq(Statuses) /\ c # <<>> /\ Len(c) = Len(chain[r]) + 1
        /\ c[Len(c)] = "calling" /\ \A n \in 1..Len(chain[r]) : c[n] = chain[r][n]
    <3>1. /\ c \in Seq(Statuses) /\ Len(c) = Len(chain[r]) + 1
          /\ c[Len(chain[r]) + 1] = "calling" /\ \A n \in 1..Len(chain[r]) : c[n] = chain[r][n]
      BY <2>2, <2>3
    <3> QED
      BY <2>2, <3>1, EmptySeq
  <2>5. TypeOK'
    <3>1. phase' \in [Requests -> Phases] /\ call' \in [Requests -> Calls \cup {"none"}]
      BY <1>1, <1>6, <2>1 DEF TypeOK, Phases, Exchanging
    <3>2. chain' \in [Requests -> Seq(Statuses)]
      BY <1>1, <1>6, <2>3, <2>4 DEF TypeOK
    <3> QED
      BY <1>1, <1>2, <1>3, <1>6, <3>1, <3>2 DEF TypeOK
  <2>6. SlotInv'
    BY <1>1, <1>2, <2>1, SlotsStay DEF UnderWay, TypeOK
  <2>7. ChildInv(r)' /\ CallInv(r)' /\ OutcomeInv(r)'
    BY <1>2, <1>6, <2>1 DEF Inv, RunInv, ChildInv, UnderWay, CallInv, OutcomeInv
  <2>8. StreamInv(r)'
    <3>1. CASE line = "pipe"
      <4>1. chain'[r] = c
        BY <1>1, <1>6, <2>3, <3>1 DEF TypeOK
      <4>2. \A n \in 1..Len(c) : n \in 1..Len(chain[r]) \/ n = Len(chain[r]) + 1
        BY <2>2, <2>4
      <4>3. \A n \in 1..Len(c) : c[n] = "streaming" <=> n \in {pipe[r], handed[r]}
        BY <2>2, <2>4, <4>2 DEF StreamInv
      <4> QED
        BY <1>2, <2>1, <2>2, <2>4, <4>1, <4>3 DEF StreamInv
    <3>2. CASE line # "pipe"
      <4>1. UNCHANGED chain /\ call'[r] # "pipe"
        BY <1>1, <1>6, <3>2 DEF TypeOK
      <4> QED
        BY <1>2, <2>1, <2>2, <4>1 DEF StreamInv
    <3> QED
      BY <3>1, <3>2
  <2>9. \A s \in Requests \ {r} : Same(s)
    BY <1>1, <1>2, <1>3, <1>6, <2>1 DEF Same, TypeOK
  <2> QED
    BY <2>5, <2>6, <2>7, <2>8, <2>9, OneRunMoves DEF RunInv
<1> QED
  BY <1>4, <1>5, <1>6 DEF ReadLine

----------------------------------------------------------------------------
(* What the end of a host call leaves in the chain: at most one open       *)
(* stream, the one HostState holds, and none if HostState goes.            *)
LEMMA ChainAfterCall ==
  ASSUME Inv, NEW r \in Requests, CallReturns(r)
  PROVE  /\ chain' \in [Requests -> Seq(Statuses)] /\ pipe' \in [Requests -> Nat]
         /\ \A s \in Requests \ {r} : chain'[s] = chain[s] /\ pipe'[s] = pipe[s]
         /\ pipe'[r] \in 0..Len(chain'[r])
         /\ \A n \in 1..Len(chain'[r]) : chain'[r][n] = "streaming" <=> n = pipe'[r]
         /\ phase[r] = "over" => pipe'[r] = 0
<1> PICK old : old = chain[r]
  OBVIOUS
<1> PICK q : q = pipe[r]
  OBVIOUS
<1> PICK last : last = Len(old)
  OBVIOUS
<1>1. /\ chain \in [Requests -> Seq(Statuses)] /\ pipe \in [Requests -> Nat]
      /\ old \in Seq(Statuses) /\ last \in Nat /\ last = Len(old)
      /\ chain[r] = old /\ pipe[r] = q
  BY DEF Inv, TypeOK
<1>2. /\ call[r] # "none" /\ q \in 0..last
      /\ \A n \in 1..last : old[n] = "streaming" <=> n = q
      /\ call[r] = "pipe" => last > 0 /\ old[last] = "calling"
  <2>1. call[r] # "none" /\ StreamInv(r) /\ handed[r] = 0
    BY DEF CallReturns, Inv, RunInv, OutcomeInv, StreamInv
  <2>2. call[r] = "pipe" => old # <<>> /\ old[last] = "calling"
    BY <1>1, <2>1 DEF StreamInv
  <2>3. old # <<>> => last > 0
    BY <1>1, EmptySeq
  <2>4. q \in 0..last
    BY <1>1, <2>1 DEF StreamInv
  <2>5. \A n \in 1..last : n # 0 /\ (old[n] = "streaming" <=> n \in {q, 0})
    BY <1>1, <2>1 DEF StreamInv
  <2> QED
    BY <2>1, <2>2, <2>3, <2>4, <2>5
<1>3. ASSUME NEW c \in Seq(Statuses), NEW p \in 0..Len(c),
             chain' = [chain EXCEPT ![r] = c] \/ (c = old /\ chain' = chain),
             pipe' = [pipe EXCEPT ![r] = p] \/ (p = q /\ pipe' = pipe),
             \A n \in 1..Len(c) : c[n] = "streaming" <=> n = p,
             phase[r] = "over" => p = 0
      PROVE  /\ chain' \in [Requests -> Seq(Statuses)] /\ pipe' \in [Requests -> Nat]
             /\ \A s \in Requests \ {r} : chain'[s] = chain[s] /\ pipe'[s] = pipe[s]
             /\ pipe'[r] \in 0..Len(chain'[r])
             /\ \A n \in 1..Len(chain'[r]) : chain'[r][n] = "streaming" <=> n = pipe'[r]
             /\ phase[r] = "over" => pipe'[r] = 0
  <2>1. p \in Nat
    OBVIOUS
  <2>2. chain' \in [Requests -> Seq(Statuses)] /\ pipe' \in [Requests -> Nat]
    BY <1>1, <1>3, <2>1
  <2>3. chain'[r] = c /\ pipe'[r] = p
    BY <1>1, <1>3
  <2> QED
    BY <1>1, <1>3, <2>2, <2>3
<1>4. PICK closed : closed = Finalized(old, q)
  OBVIOUS
<1>5. /\ closed \in Seq(Statuses) /\ Len(closed) = last
      /\ \A n \in 1..last : closed[n] = IF n = q THEN "finished" ELSE old[n]
      /\ \A n \in 1..last : closed[n] # "streaming"
  <2>1. /\ closed \in Seq(Statuses) /\ Len(closed) = last
        /\ \A n \in 1..last : closed[n] = IF n = q THEN "finished" ELSE old[n]
    <3>1. IsFinalized(closed, old, q)
      BY <1>1, <1>4, FinalizedChain, Zenon
    <3> QED
      BY <1>1, <3>1 DEF IsFinalized
  <2> QED
    BY <1>2, <2>1
<1>6. CASE /\ chain' = IF phase[r] = "over" THEN [chain EXCEPT ![r] = Finalized(@, pipe[r])]
                       ELSE chain
           /\ pipe' = IF phase[r] = "over" THEN [pipe EXCEPT ![r] = 0] ELSE pipe
  <2>1. CASE phase[r] = "over"
    <3>1. chain' = [chain EXCEPT ![r] = closed] /\ pipe' = [pipe EXCEPT ![r] = 0]
      BY <1>1, <1>4, <1>6, <2>1
    <3>2. 0 \in 0..Len(closed) /\ \A n \in 1..Len(closed) : closed[n] = "streaming" <=> n = 0
      BY <1>1, <1>5
    <3> QED
      BY <1>3, <1>5, <3>1, <3>2
  <2>2. CASE phase[r] # "over"
    <3>1. chain' = chain /\ pipe' = pipe
      BY <1>6, <2>2
    <3> QED
      BY <1>1, <1>2, <1>3, <2>2, <3>1
  <2> QED
    BY <2>1, <2>2
<1>7. ASSUME call[r] = "pipe",
             chain' = [chain EXCEPT ![r] =
                         IF phase[r] = "over"
                         THEN Finalized([closed EXCEPT ![last] = "streaming"], last)
                         ELSE [closed EXCEPT ![last] = "streaming"]],
             pipe' = [pipe EXCEPT ![r] = IF phase[r] = "over" THEN 0 ELSE last]
      PROVE  /\ chain' \in [Requests -> Seq(Statuses)] /\ pipe' \in [Requests -> Nat]
             /\ \A s \in Requests \ {r} : chain'[s] = chain[s] /\ pipe'[s] = pipe[s]
             /\ pipe'[r] \in 0..Len(chain'[r])
             /\ \A n \in 1..Len(chain'[r]) : chain'[r][n] = "streaming" <=> n = pipe'[r]
             /\ phase[r] = "over" => pipe'[r] = 0
  <2>1. PICK opened : opened = [closed EXCEPT ![last] = "streaming"]
    OBVIOUS
  <2>2. /\ opened \in Seq(Statuses) /\ Len(opened) = last
        /\ \A n \in 1..last : opened[n] = IF n = last THEN "streaming" ELSE closed[n]
    <3>1. "streaming" \in Statuses /\ last \in 1..Len(closed)
      BY <1>1, <1>2, <1>5, <1>7 DEF Statuses
    <3> QED
      BY <1>5, <2>1, <3>1, ExceptSeq
  <2>3. CASE phase[r] = "over"
    <3>1. PICK c : c = Finalized(opened, last)
      OBVIOUS
    <3>2. /\ c \in Seq(Statuses) /\ Len(c) = last
          /\ \A n \in 1..last : c[n] = IF n = last THEN "finished" ELSE opened[n]
      <4>0. opened \in Seq(Statuses)
        BY <2>2
      <4>1. IsFinalized(c, opened, last)
        BY <3>1, <4>0, FinalizedChain, Zenon
      <4> QED
        BY <2>2, <4>1 DEF IsFinalized
    <3>3. chain' = [chain EXCEPT ![r] = c] /\ pipe' = [pipe EXCEPT ![r] = 0]
      BY <1>7, <2>1, <2>3, <3>1
    <3>4. 0 \in 0..Len(c) /\ \A n \in 1..Len(c) : c[n] = "streaming" <=> n = 0
      BY <1>1, <1>5, <2>2, <3>2
    <3> QED
      BY <1>3, <3>2, <3>3, <3>4
  <2>4. CASE phase[r] # "over"
    <3>1. chain' = [chain EXCEPT ![r] = opened] /\ pipe' = [pipe EXCEPT ![r] = last]
      BY <1>7, <2>1, <2>4
    <3>2. last \in 0..Len(opened)
      BY <1>1, <2>2
    <3>3. \A n \in 1..Len(opened) : opened[n] = "streaming" <=> n = last
      BY <1>5, <2>2
    <3> QED
      BY <1>3, <2>2, <2>4, <3>1, <3>2, <3>3
  <2> QED
    BY <2>3, <2>4
<1>8. ASSUME call[r] = "pipe",
             chain' = [chain EXCEPT ![r] =
                         Finalized(IF phase[r] = "over" THEN closed ELSE old, last)],
             pipe' = IF phase[r] = "over" THEN [pipe EXCEPT ![r] = 0] ELSE pipe
      PROVE  /\ chain' \in [Requests -> Seq(Statuses)] /\ pipe' \in [Requests -> Nat]
             /\ \A s \in Requests \ {r} : chain'[s] = chain[s] /\ pipe'[s] = pipe[s]
             /\ pipe'[r] \in 0..Len(chain'[r])
             /\ \A n \in 1..Len(chain'[r]) : chain'[r][n] = "streaming" <=> n = pipe'[r]
             /\ phase[r] = "over" => pipe'[r] = 0
  <2>1. CASE phase[r] = "over"
    <3>1. PICK c : c = Finalized(closed, last)
      OBVIOUS
    <3>2. /\ c \in Seq(Statuses) /\ Len(c) = last
          /\ \A n \in 1..last : c[n] = IF n = last THEN "finished" ELSE closed[n]
      <4>1. IsFinalized(c, closed, last)
        BY <1>5, <3>1, FinalizedChain, Zenon
      <4> QED
        BY <1>5, <4>1 DEF IsFinalized
    <3>3. chain' = [chain EXCEPT ![r] = c] /\ pipe' = [pipe EXCEPT ![r] = 0]
      BY <1>8, <2>1, <3>1
    <3>4. 0 \in 0..Len(c) /\ \A n \in 1..Len(c) : c[n] = "streaming" <=> n = 0
      BY <1>1, <1>5, <3>2
    <3> QED
      BY <1>3, <3>2, <3>3, <3>4
  <2>2. CASE phase[r] # "over"
    <3>1. PICK c : c = Finalized(old, last)
      OBVIOUS
    <3>2. /\ c \in Seq(Statuses) /\ Len(c) = last
          /\ \A n \in 1..last : c[n] = IF n = last THEN "finished" ELSE old[n]
      <4>1. IsFinalized(c, old, last)
        BY <1>1, <3>1, FinalizedChain, Zenon
      <4> QED
        BY <1>1, <4>1 DEF IsFinalized
    <3>3. chain' = [chain EXCEPT ![r] = c] /\ pipe' = pipe
      BY <1>8, <2>2, <3>1
    <3>4. q \in 0..Len(c) /\ \A n \in 1..Len(c) : c[n] = "streaming" <=> n = q
      BY <1>1, <1>2, <1>8, <3>2
    <3> QED
      BY <1>3, <2>2, <3>2, <3>3, <3>4
  <2> QED
    BY <2>1, <2>2
<1>9. \/ /\ chain' = IF phase[r] = "over" THEN [chain EXCEPT ![r] = Finalized(@, pipe[r])]
                     ELSE chain
         /\ pipe' = IF phase[r] = "over" THEN [pipe EXCEPT ![r] = 0] ELSE pipe
      \/ /\ call[r] = "pipe"
         /\ chain' = [chain EXCEPT ![r] =
                        IF phase[r] = "over"
                        THEN Finalized([closed EXCEPT ![last] = "streaming"], last)
                        ELSE [closed EXCEPT ![last] = "streaming"]]
         /\ pipe' = [pipe EXCEPT ![r] = IF phase[r] = "over" THEN 0 ELSE last]
      \/ /\ call[r] = "pipe"
         /\ chain' = [chain EXCEPT ![r] =
                        Finalized(IF phase[r] = "over" THEN closed ELSE old, last)]
         /\ pipe' = IF phase[r] = "over" THEN [pipe EXCEPT ![r] = 0] ELSE pipe
  BY <1>1, <1>4 DEF CallReturns
<1> QED
  BY <1>6, <1>7, <1>8, <1>9

LEMMA CallReturnsKeeps ==
  ASSUME Inv, NEW r \in Requests, CallReturns(r)
  PROVE  Inv'
<1>1. TypeOK
  BY DEF Inv
<1>2. /\ call[r] # "none" /\ call' = [call EXCEPT ![r] = "none"]
      /\ done' = [done EXCEPT ![r] = @ + 1]
      /\ uploads' = IF phase[r] = "over" THEN [uploads EXCEPT ![r] = "closed"] ELSE uploads
      /\ UNCHANGED <<held, expired, final, outcome, recorded, child, stdout, written,
                     acked, handed>>
  BY DEF CallReturns, workerVars
<1>0. \/ phase[r] # "dispatching" /\ UNCHANGED <<phase, reply>>
      \/ /\ phase[r] = "dispatching" /\ phase' = [phase EXCEPT ![r] = "replying"]
         /\ UNCHANGED reply
      \/ /\ phase[r] = "dispatching" /\ phase' = [phase EXCEPT ![r] = "terminating"]
         /\ reply' = [reply EXCEPT ![r] = "unexpected"]
  BY DEF CallReturns, Goto, Terminating
<1>3. /\ chain' \in [Requests -> Seq(Statuses)] /\ pipe' \in [Requests -> Nat]
      /\ \A s \in Requests \ {r} : chain'[s] = chain[s] /\ pipe'[s] = pipe[s]
      /\ pipe'[r] \in 0..Len(chain'[r])
      /\ \A n \in 1..Len(chain'[r]) : chain'[r][n] = "streaming" <=> n = pipe'[r]
      /\ phase[r] = "over" => pipe'[r] = 0
  BY ChainAfterCall
<1>4. /\ call'[r] = "none" /\ done'[r] = done[r] + 1
      /\ phase[r] \in {"dispatching", "terminating", "over"}
      /\ \/ phase[r] # "dispatching" /\ phase'[r] = phase[r] /\ reply'[r] = reply[r]
         \/ phase[r] = "dispatching" /\ phase'[r] = "replying" /\ reply'[r] = reply[r]
         \/ phase[r] = "dispatching" /\ phase'[r] = "terminating" /\ reply'[r] = "unexpected"
      /\ \A s \in Requests \ {r} : phase'[s] = phase[s] /\ reply'[s] = reply[s]
  BY <1>0, <1>1, <1>2 DEF TypeOK, Inv, RunInv, CallInv, Phases, Exchanging
<1>5. TypeOK'
  <2>1. call' \in [Requests -> Calls \cup {"none"}] /\ done' \in [Requests -> Nat]
    BY <1>1, <1>2 DEF TypeOK
  <2>2. uploads' \in [Requests -> {"open", "closed"}]
    BY <1>1, <1>2 DEF TypeOK
  <2>3. /\ phase' \in [Requests -> Phases]
        /\ reply' \in [Requests -> {"none", "timed_out", "unexpected", "wait_failed"}]
    BY <1>0, <1>1 DEF TypeOK, Phases, Exchanging
  <2> QED
    BY <1>1, <1>2, <1>3, <2>1, <2>2, <2>3 DEF TypeOK
<1>6. SlotInv'
  BY <1>2, <1>4, SlotsStay DEF UnderWay
<1>7. ChildInv(r)' /\ CallInv(r)' /\ OutcomeInv(r)'
  BY <1>2, <1>4 DEF Inv, RunInv, ChildInv, UnderWay, CallInv, OutcomeInv
<1>8. StreamInv(r)'
  <2>1. handed[r] = 0
    BY <1>2 DEF Inv, RunInv, OutcomeInv, StreamInv
  <2>2. \A n \in 1..Len(chain'[r]) : n # 0
    OBVIOUS
  <2> QED
    BY <1>2, <1>3, <1>4, <2>1, <2>2 DEF StreamInv
<1>9. \A s \in Requests \ {r} : Same(s)
  BY <1>1, <1>2, <1>3, <1>4 DEF Same, TypeOK
<1> QED
  BY <1>5, <1>6, <1>7, <1>8, <1>9, OneRunMoves DEF RunInv

----------------------------------------------------------------------------
(* What a final result can fail as. *)
LEMMA ErrorsAreFailures ==
  ASSUME NEW line \in Finals
  PROVE  Errors(line) \subseteq FinalErrors \cup {"no_response"}
BY DEF Errors, Finals, FinalErrors

(* A complete run ends: its stream goes to the response, or is dropped. *)
SucceededAs(r, out) ==
  /\ phase[r] = "waiting" /\ child' = [child EXCEPT ![r] = "reaped"]
  /\ pipe' = [pipe EXCEPT ![r] = 0]
  /\ Ended(r, out)
  /\ out = "response" => final[r] = "success"
  /\ \/ /\ chain' = [chain EXCEPT ![r] = Finalized(@, pipe[r])]
        /\ UNCHANGED handed
     \/ /\ out = "response" /\ pipe[r] # 0
        /\ handed' = [handed EXCEPT ![r] = pipe[r]]
        /\ UNCHANGED chain
  /\ recorded' = [recorded EXCEPT ![r] = chain'[r]]
  /\ uploads' = [uploads EXCEPT ![r] = "closed"]
  /\ UNCHANGED <<expired, final, reply, stdout, written, call, done, acked>>

LEMMA WorkerSucceededKeeps ==
  ASSUME Inv, NEW r \in Requests, WorkerSucceeded(r)
  PROVE  Inv'
<1>1. TypeOK
  BY DEF Inv
<1>0. Errors(final[r]) \subseteq FinalErrors \cup {"no_response"} \/ final[r] = "none"
  BY <1>1, ErrorsAreFailures DEF TypeOK
<1>11. PICK out \in {"response", "no_response"} \cup FinalErrors : SucceededAs(r, out)
  <2>1. phase[r] = "waiting" => final[r] # "none"
    BY DEF Inv, RunInv, ChildInv
  <2>2. CASE /\ final[r] = "success" /\ Ended(r, "response")
             /\ \/ /\ chain' = [chain EXCEPT ![r] = Finalized(@, pipe[r])]
                   /\ UNCHANGED handed
                \/ /\ pipe[r] # 0
                   /\ handed' = [handed EXCEPT ![r] = pipe[r]]
                   /\ UNCHANGED chain
    <3>1. SucceededAs(r, "response")
      BY <2>2 DEF WorkerSucceeded, SucceededAs
    <3> QED
      BY <3>1
  <2>3. ASSUME NEW out \in FinalErrors \cup {"no_response"}, Ended(r, out),
               chain' = [chain EXCEPT ![r] = Finalized(@, pipe[r])], UNCHANGED handed
        PROVE  SucceededAs(r, out)
    <3>1. out # "response"
      BY DEF FinalErrors
    <3> QED
      BY <2>3, <3>1 DEF WorkerSucceeded, SucceededAs
  <2> QED
    BY <1>0, <2>1, <2>2, <2>3, Zenon DEF WorkerSucceeded
<1>2. /\ phase[r] = "waiting" /\ child' = [child EXCEPT ![r] = "reaped"]
      /\ pipe' = [pipe EXCEPT ![r] = 0]
      /\ Ended(r, out)
      /\ out = "response" => final[r] = "success"
      /\ \/ /\ chain' = [chain EXCEPT ![r] = Finalized(@, pipe[r])]
            /\ UNCHANGED handed
         \/ /\ out = "response" /\ pipe[r] # 0
            /\ handed' = [handed EXCEPT ![r] = pipe[r]]
            /\ UNCHANGED chain
      /\ recorded' = [recorded EXCEPT ![r] = chain'[r]]
      /\ uploads' = [uploads EXCEPT ![r] = "closed"]
      /\ UNCHANGED <<expired, final, reply, stdout, written, call, done, acked>>
  BY <1>11 DEF SucceededAs
<1>3. /\ phase' = [phase EXCEPT ![r] = "over"] /\ outcome' = [outcome EXCEPT ![r] = out]
      /\ held' = held \ {r}
      /\ phase'[r] = "over" /\ outcome'[r] = out /\ child'[r] = "reaped" /\ pipe'[r] = 0
  BY <1>1, <1>2 DEF Ended, Goto, TypeOK
<1>4. /\ ChildInv(r) /\ CallInv(r) /\ OutcomeInv(r) /\ StreamInv(r)
      /\ handed[r] = 0 /\ call[r] = "none" /\ stdout[r] = <<>> /\ done[r] = acked[r]
      /\ chain[r] \in Seq(Statuses) /\ pipe[r] \in Nat
  BY <1>1, <1>2 DEF Inv, RunInv, ChildInv, CallInv, OutcomeInv, StreamInv, TypeOK
<1>5. /\ chain' \in [Requests -> Seq(Statuses)] /\ handed' \in [Requests -> Nat]
      /\ \A s \in Requests \ {r} : chain'[s] = chain[s] /\ handed'[s] = handed[s]
      /\ \A n \in 1..Len(chain'[r]) : chain'[r][n] = "streaming" <=> n \in {0, handed'[r]}
      /\ Len(chain'[r]) \in Nat
      /\ handed'[r] # 0 => out = "response"
  <2>1. CASE chain' = [chain EXCEPT ![r] = Finalized(@, pipe[r])] /\ UNCHANGED handed
    <3>1. PICK c : c = Finalized(chain[r], pipe[r])
      OBVIOUS
    <3>2. /\ c \in Seq(Statuses) /\ Len(c) = Len(chain[r])
          /\ \A n \in 1..Len(c) : c[n] = IF n = pipe[r] THEN "finished" ELSE chain[r][n]
      <4>1. chain[r] \in Seq(Statuses)
        BY <1>4
      <4>2. IsFinalized(c, chain[r], pipe[r])
        BY <3>1, <4>1, FinalizedChain, Zenon
      <4> QED
        BY <4>2 DEF IsFinalized
    <3>3. \A n \in 1..Len(c) : c[n] # "streaming" /\ n # 0
      BY <1>4, <3>2 DEF StreamInv
    <3>4. chain' \in [Requests -> Seq(Statuses)] /\ chain'[r] = c
      BY <1>1, <2>1, <3>1, <3>2 DEF TypeOK
    <3> QED
      BY <1>1, <1>4, <2>1, <3>2, <3>3, <3>4 DEF TypeOK
  <2>2. CASE out = "response" /\ handed' = [handed EXCEPT ![r] = pipe[r]] /\ UNCHANGED chain
    BY <1>1, <1>4, <2>2 DEF TypeOK, StreamInv
  <2> QED
    BY <1>2, <2>1, <2>2
<1>6. TypeOK'
  <2>1. phase' \in [Requests -> Phases] /\ outcome' \in [Requests -> Outcomes]
    BY <1>1, <1>11, <1>3 DEF TypeOK, Phases, Outcomes, Failures
  <2>2. child' \in [Requests -> Children] /\ held' \subseteq Requests
    BY <1>1, <1>2, <1>3 DEF TypeOK, Children
  <2>3. /\ recorded' \in [Requests -> Seq(Statuses)] /\ pipe' \in [Requests -> Nat]
        /\ uploads' \in [Requests -> {"open", "closed"}]
    BY <1>1, <1>2, <1>5 DEF TypeOK
  <2> QED
    BY <1>1, <1>2, <1>5, <2>1, <2>2, <2>3 DEF TypeOK
<1>7. SlotInv'
  BY <1>2, EndFreesSlot
<1>8. ChildInv(r)' /\ CallInv(r)' /\ OutcomeInv(r)'
  BY <1>2, <1>3, <1>4 DEF ChildInv, CallInv, OutcomeInv, Alive
<1>9. StreamInv(r)'
  <2>1. call'[r] = "none" /\ pipe'[r] \in 0..Len(chain'[r])
    BY <1>2, <1>3, <1>4, <1>5
  <2>2. \A n \in 1..Len(chain'[r]) :
          chain'[r][n] = "streaming" <=> n \in {pipe'[r], handed'[r]}
    BY <1>3, <1>5
  <2>3. handed'[r] # 0 => outcome'[r] = "response" /\ pipe'[r] = 0
    BY <1>3, <1>5
  <2> QED
    BY <1>3, <2>1, <2>2, <2>3 DEF StreamInv
<1>10. \A s \in Requests \ {r} : Same(s)
  BY <1>1, <1>2, <1>3, <1>5 DEF Same, TypeOK
<1> QED
  BY <1>6, <1>7, <1>8, <1>9, <1>10, OneRunMoves DEF RunInv

(* Every failure to be told of a worker. *)
LEMMA UnexpectedIsFailure ==
  ASSUME NEW r
  PROVE  Unexpected(r) \in Failures /\ "timed_out" \in Failures
BY DEF Unexpected, Failures, FinalErrors

LEMMA WorkerFailedKeeps ==
  ASSUME Inv, NEW r \in Requests, WorkerFailed(r)
  PROVE  Inv'
<1>1. "reaped" \in Children \ Alive
  BY DEF Children, Alive
<1> QED
  BY <1>1, UnexpectedIsFailure, FailedGivesUp DEF WorkerFailed, UnderWay

LEMMA WaitFailsKeeps ==
  ASSUME Inv, NEW r \in Requests, WaitFails(r)
  PROVE  Inv'
BY TerminatingKeeps DEF WaitFails, workerVars, UnderWay, Inv, TypeOK

(* What a terminated run is reported as. *)
LEMMA CollectFails ==
  ASSUME Inv, NEW r \in Requests, Collect(r)
  PROVE  \E out \in Failures :
           /\ Failed(r, out)
           /\ \/ reply[r] = "timed_out" /\ out = "timed_out"
              \/ reply[r] = "wait_failed" /\ out = "worker_terminated"
              \/ out = Unexpected(r)
<1>1. /\ phase[r] = "terminating"
      /\ reply[r] \in {"timed_out", "wait_failed", "unexpected"}
  BY DEF Collect, Inv, TypeOK, RunInv, ChildInv
<1>2. Unexpected(r) \in Failures /\ {"timed_out", "worker_terminated"} \subseteq Failures
  BY DEF Unexpected, Failures, FinalErrors
<1>3. CASE reply[r] = "timed_out"
  BY <1>2, <1>3 DEF Collect
<1>4. CASE reply[r] = "wait_failed"
  BY <1>2, <1>4 DEF Collect
<1>5. CASE reply[r] = "unexpected"
  BY <1>2, <1>5 DEF Collect
<1> QED
  BY <1>1, <1>3, <1>4, <1>5

LEMMA CollectKeeps ==
  ASSUME Inv, NEW r \in Requests, Collect(r)
  PROVE  Inv'
<1>1. "reaped" \in Children \ Alive
  BY DEF Children, Alive
<1>2. PICK out \in Failures : Failed(r, out)
  BY CollectFails
<1> QED
  BY <1>1, <1>2, FailedGivesUp DEF Collect, UnderWay

LEMMA KillKeeps ==
  ASSUME Inv, NEW r \in Requests, Kill(r)
  PROVE  Inv'
<1>1. "killed" \in Children \ Alive /\ "reaped" \notin Alive
  BY DEF Children, Alive, Dead
<1> QED
  BY <1>1, PoolKeeps DEF Kill

LEMMA ReapOrphanKeeps ==
  ASSUME Inv, NEW r \in Requests, ReapOrphan(r)
  PROVE  Inv'
<1>1. "reaped" \in Children \ Alive /\ "reaped" \notin Dead
  BY DEF Children, Alive, Dead
<1> QED
  BY <1>1, PoolKeeps DEF ReapOrphan

(* A child that is dropped is not left alive. *)
LEMMA DroppedChildIsDead ==
  ASSUME Inv, NEW r \in Requests
  PROVE  DroppedChild(r) \in Children \ Alive
<1>1. child[r] \in Children /\ "killed" \in Children \ Alive
  BY DEF Inv, TypeOK, Children, Alive, Dead
<1> QED
  BY <1>1 DEF DroppedChild

LEMMA TimeoutKeeps ==
  ASSUME Inv, NEW r \in Requests, Timeout(r)
  PROVE  Inv'
<1>1. /\ r \in expired
      /\ UNCHANGED <<expired, final, stdout, written, call, done, acked, handed>>
  BY DEF Timeout
<1>2. CASE /\ phase[r] = "spawning" /\ Failed(r, "timed_out")
           /\ child' = [child EXCEPT ![r] = DroppedChild(r)] /\ UNCHANGED reply
  BY <1>1, <1>2, DroppedChildIsDead, UnexpectedIsFailure, FailedGivesUp DEF UnderWay
<1>3. CASE /\ phase[r] \in Exchanging \cup {"waiting"} /\ Terminating(r, "timed_out")
           /\ UNCHANGED <<held, outcome, recorded, child, chain, pipe, uploads>>
  <2>1. UnderWay(r)
    BY <1>3 DEF UnderWay, Exchanging
  <2> QED
    BY <1>1, <1>3, <2>1, TerminatingKeeps DEF Inv, TypeOK, hostVars
<1> QED
  BY <1>2, <1>3 DEF Timeout

LEMMA DisconnectKeeps ==
  ASSUME Inv, NEW r \in Requests, Disconnect(r)
  PROVE  Inv'
<1>1. /\ recorded' \in [Requests -> Seq(Statuses)]
      /\ uploads' \in [Requests -> {"open", "closed"}]
  BY DEF Disconnect, Inv, TypeOK
<1> QED
  BY <1>1, DroppedChildIsDead, GivenUp DEF Disconnect, UnderWay

LEMMA DeadlineKeeps ==
  ASSUME Inv, NEW r \in Requests, Deadline(r)
  PROVE  Inv'
<1>1. TypeOK
  BY DEF Inv
<1>2. /\ expired' = expired \cup {r}
      /\ UNCHANGED <<phase, held, final, reply, outcome, recorded, child, stdout, written,
                     call, done, acked, chain, pipe, handed, uploads>>
  BY DEF Deadline, workerVars, hostVars
<1>3. TypeOK'
  BY <1>1, <1>2 DEF TypeOK
<1>4. SlotInv'
  BY <1>2, SlotsStay DEF UnderWay
<1>5. \A s \in Requests : Same(s)
  BY <1>2 DEF Same
<1>6. RunInv(r)'
  BY <1>5, OthersKeep DEF Inv
<1> QED
  BY <1>3, <1>4, <1>5, <1>6, OneRunMoves

----------------------------------------------------------------------------
LEMMA WorkerWritesKeeps ==
  ASSUME Inv, NEW r \in Requests, NEW line \in Lines, WorkerWrites(r, line)
  PROVE  Inv'
<1>1. TypeOK
  BY DEF Inv
<1>2. /\ child[r] = "running" /\ stdout' = [stdout EXCEPT ![r] = Append(@, line)]
      /\ written' = [written EXCEPT ![r] = @ + 1]
      /\ UNCHANGED <<phase, held, expired, final, reply, outcome, recorded, child,
                     call, done, acked, chain, pipe, handed, uploads>>
  BY DEF WorkerWrites, futureVars, hostVars
<1>3. TypeOK'
  <2>1. Append(stdout[r], line) \in Seq(Lines)
    BY <1>1, AppendProperties DEF TypeOK
  <2>2. stdout' \in [Requests -> Seq(Lines)] /\ written' \in [Requests -> Nat]
    BY <1>1, <1>2, <2>1 DEF TypeOK
  <2> QED
    BY <1>1, <1>2, <2>2 DEF TypeOK
<1>4. SlotInv'
  BY <1>2, SlotsStay DEF UnderWay
<1>5. ChildInv(r)' /\ CallInv(r)' /\ OutcomeInv(r)'
  BY <1>2 DEF Inv, RunInv, ChildInv, UnderWay, CallInv, OutcomeInv
<1>6. StreamInv(r)'
  BY <1>2 DEF Inv, RunInv, StreamInv
<1>7. \A s \in Requests \ {r} : Same(s)
  BY <1>1, <1>2 DEF Same, TypeOK
<1> QED
  BY <1>3, <1>4, <1>5, <1>6, <1>7, OneRunMoves DEF RunInv

LEMMA WorkerLeavesKeeps ==
  ASSUME Inv, NEW r \in Requests, WorkerLeaves(r)
  PROVE  Inv'
<1>1. TypeOK
  BY DEF Inv
<1>2. PICK c \in {"closing", "exited", "crashed", "aborted"} :
        /\ child[r] \in Alive /\ child' = [child EXCEPT ![r] = c]
        /\ UNCHANGED <<phase, held, expired, final, reply, outcome, recorded, stdout, written,
                       call, done, acked, chain, pipe, handed, uploads>>
  BY DEF WorkerLeaves, Alive, futureVars, hostVars
<1>3. child'[r] = c
  BY <1>1, <1>2 DEF TypeOK
<1>4. TypeOK'
  <2>1. c \in Children
    BY DEF Children, Alive, Dead
  <2>2. child' \in [Requests -> Children]
    BY <1>1, <1>2, <2>1 DEF TypeOK
  <2> QED
    BY <1>1, <1>2, <2>2 DEF TypeOK
<1>5. SlotInv'
  BY <1>2, SlotsStay DEF UnderWay
<1>6. ChildInv(r)' /\ CallInv(r)' /\ OutcomeInv(r)'
  BY <1>2, <1>3 DEF Inv, RunInv, ChildInv, UnderWay, CallInv, OutcomeInv, Alive
<1>7. StreamInv(r)'
  BY <1>2 DEF Inv, RunInv, StreamInv
<1>8. \A s \in Requests \ {r} : Same(s)
  BY <1>1, <1>2 DEF Same, TypeOK
<1> QED
  BY <1>4, <1>5, <1>6, <1>7, <1>8, OneRunMoves DEF RunInv

LEMMA StutterKeeps ==
  ASSUME Inv, UNCHANGED vars
  PROVE  Inv'
<1>1. UNCHANGED <<phase, held, expired, final, reply, outcome, recorded, child, stdout, written,
                  call, done, acked, chain, pipe, handed, uploads>>
  BY DEF vars, futureVars, workerVars, hostVars
<1>2. TypeOK'
  BY <1>1 DEF Inv, TypeOK
<1>3. SlotInv'
  BY <1>1, SlotsStay DEF UnderWay
<1>4. \A s \in Requests : Same(s)
  BY <1>1 DEF Same
<1>5. \A s \in Requests : RunInv(s)'
  BY <1>4, OthersKeep DEF Inv
<1> QED
  BY <1>2, <1>3, <1>5 DEF Inv

LEMMA FutureKeeps ==
  ASSUME Inv, NEW r \in Requests, FutureStep(r)
  PROVE  Inv'
BY AttachKeeps, SendJobKeeps, ReadLineKeeps, ReadEofKeeps, WriteResultKeeps,
   WorkerSucceededKeeps, WorkerFailedKeeps, KillKeeps, CollectKeeps, TimeoutKeeps
DEF FutureStep

LEMMA NextKeeps == Inv /\ [Next]_vars => Inv'
<1> SUFFICES ASSUME Inv, [Next]_vars PROVE Inv'
  OBVIOUS
<1>1. ASSUME NEW r \in Requests, Refuse(r) \/ Start(r) PROVE Inv'
  BY <1>1, RefuseKeeps, StartKeeps
<1>2. ASSUME NEW r \in Requests, Spawning(r) \/ FutureStep(r) \/ CallReturns(r) PROVE Inv'
  BY <1>2, SpawningKeeps, FutureKeeps, CallReturnsKeeps
<1>3. ASSUME NEW r \in Requests,
             WaitFails(r) \/ Deadline(r) \/ Disconnect(r) \/ ReapOrphan(r)
      PROVE  Inv'
  BY <1>3, WaitFailsKeeps, DeadlineKeeps, DisconnectKeeps, ReapOrphanKeeps
<1>4. ASSUME NEW r \in Requests, WorkerStep(r) PROVE Inv'
  BY <1>4, WorkerLeavesKeeps, WorkerWritesKeeps DEF WorkerStep
<1>5. CASE Settled \/ UNCHANGED vars
  BY <1>5, StutterKeeps DEF Settled
<1> QED
  BY <1>1, <1>2, <1>3, <1>4, <1>5 DEF Next

LEMMA InvHolds == Spec => []Inv
<1> QED
  BY InitKeeps, NextKeeps, PTL DEF Spec

----------------------------------------------------------------------------
(* Every reachable state has the types of TypeOK. *)
THEOREM RunTyped == Spec => []TypeOK
<1>1. Inv => TypeOK
  BY DEF Inv
<1> QED
  BY <1>1, InvHolds, PTL

(* No more workers are alive than the semaphore has permits: each works    *)
(* under the permit of its run, whichever way runs end.                    *)
THEOREM PermitsCoverWorkers == Spec => []WorkersUnderPermits
<1>1. Inv => WorkersUnderPermits
  BY DEF Inv, RunInv, ChildInv, SlotInv, WorkersUnderPermits, Working
<1> QED
  BY <1>1, InvHolds, PTL

(* execute_with_state answers only with what a worker that has exited      *)
(* reported last, after every host call of its run was answered.           *)
THEOREM ResponsesComplete == Spec => []ResponseIsComplete
<1>1. Inv => ResponseIsComplete
  BY DEF Inv, RunInv, OutcomeInv, ResponseIsComplete
<1> QED
  BY <1>1, InvHolds, PTL

(* An open upstream stream belongs to HostState or to the response, and    *)
(* HostState outlives its run only under an orphaned host call.            *)
THEOREM StreamsOwnedOnce == Spec => []StreamsHaveOneOwner
<1>1. Inv => StreamsHaveOneOwner
  <2> SUFFICES ASSUME Inv, NEW r \in Requests
               PROVE  /\ \A n \in DOMAIN chain[r] :
                           chain[r][n] = "streaming" <=> n \in {pipe[r], handed[r]}
                      /\ handed[r] # 0 => outcome[r] = "response" /\ pipe[r] = 0
                      /\ phase[r] = "over" /\ pipe[r] # 0 => call[r] # "none"
    BY DEF StreamsHaveOneOwner
  <2>1. DOMAIN chain[r] = 1..Len(chain[r])
    BY LenProperties DEF Inv, TypeOK
  <2> QED
    BY <2>1 DEF Inv, RunInv, StreamInv
<1> QED
  BY <1>1, InvHolds, PTL

----------------------------------------------------------------------------
(* No run ends in this step, or run r does, and truthfully. *)
EndsJustified(r) ==
  \/ outcome' = outcome
  \/ \E out \in Outcomes : outcome' = [outcome EXCEPT ![r] = out] /\ Truthful(r, out)

(* A full semaphore is full of runs under way. *)
LEMMA RefusalIsJustified ==
  ASSUME Inv, Cardinality(held) >= Slots
  PROVE  \E R \in SUBSET Requests :
           Cardinality(R) = Slots /\ \A s \in R : phase[s] \notin {"idle", "over"}
<1>1. IsFiniteSet(held) /\ Cardinality(held) <= Slots /\ held = {s \in Requests : UnderWay(s)}
  BY DEF Inv, SlotInv
<1>2. Cardinality(held) \in Nat
  BY <1>1, FS_CardinalityType
<1>3. Cardinality(held) = Slots
  BY <1>1, <1>2, SlotsAssumption DEF SlotsAssumption
<1>4. held \in SUBSET Requests /\ \A s \in held : phase[s] \notin {"idle", "over"}
  BY <1>1 DEF UnderWay
<1> QED
  BY <1>3, <1>4

(* What stderr told of a worker: an aborted one is reported as such. *)
LEMMA UnexpectedIsJustified ==
  ASSUME NEW r
  PROVE  Unexpected(r) \in Outcomes /\ Truthful(r, Unexpected(r))
BY DEF Unexpected, Outcomes, Failures, FinalErrors, Truthful

LEMMA EndsAreJustified ==
  ASSUME Inv, NEW r \in Requests,
         \/ Refuse(r) \/ Start(r) \/ Spawning(r) \/ FutureStep(r) \/ CallReturns(r)
         \/ WaitFails(r) \/ Deadline(r) \/ Disconnect(r) \/ ReapOrphan(r) \/ WorkerStep(r)
  PROVE  EndsJustified(r)
<1>0. ASSUME NEW out \in Outcomes, Ended(r, out), Truthful(r, out) PROVE EndsJustified(r)
  BY <1>0 DEF Ended, EndsJustified
<1>1. CASE Refuse(r)
  <2>1. CASE Cardinality(held) >= Slots /\ outcome' = [outcome EXCEPT ![r] = "capacity_exceeded"]
    <3>1. Truthful(r, "capacity_exceeded") /\ "capacity_exceeded" \in Outcomes
      BY <2>1, RefusalIsJustified DEF Truthful, Outcomes, Failures, FinalErrors
    <3> QED
      BY <2>1, <3>1 DEF EndsJustified
  <2>2. CASE outcome' = [outcome EXCEPT ![r] = "script_error"]
    <3>1. Truthful(r, "script_error") /\ "script_error" \in Outcomes
      BY <1>1 DEF Refuse, Truthful, Outcomes, Failures, FinalErrors
    <3> QED
      BY <2>2, <3>1 DEF EndsJustified
  <2> QED
    BY <1>1, <2>1, <2>2 DEF Refuse
<1>2. CASE Spawning(r)
  <2>1. Truthful(r, "worker_terminated") \/ child[r] = "aborted"
    BY DEF Truthful
  <2>2. "worker_terminated" \in Outcomes
    BY DEF Outcomes, Failures, FinalErrors
  <2>3. CASE SpawnFails(r)
    <3>1. outcome' = outcome \/ (Ended(r, "worker_terminated") /\ child[r] # "aborted")
      BY <2>3 DEF SpawnFails, Failed
    <3> QED
      BY <1>0, <2>1, <2>2, <3>1 DEF EndsJustified
  <2>4. CASE Fork(r) \/ SpawnReturns(r)
    BY <2>4 DEF Fork, SpawnReturns, futureVars, EndsJustified
  <2> QED
    BY <1>2, <2>3, <2>4 DEF Spawning
<1>3. CASE WorkerSucceeded(r)
  <2>1. child[r] = "exited" /\ stdout[r] = <<>> /\ final[r] \in Finals
    BY <1>3 DEF WorkerSucceeded, Inv, TypeOK, RunInv, ChildInv
  <2>2. CASE Ended(r, "response")
    <3>1. Truthful(r, "response") /\ "response" \in Outcomes
      BY DEF Truthful, Outcomes
    <3> QED
      BY <1>0, <2>2, <3>1
  <2>3. ASSUME NEW out \in Errors(final[r]), Ended(r, out) PROVE EndsJustified(r)
    <3>1. out \in Outcomes
      BY <2>1, <2>3, ErrorsAreFailures DEF Outcomes, Failures
    <3>2. Truthful(r, out)
      BY <2>1, <2>3 DEF Truthful, Said, Errors, Finals, FinalErrors
    <3> QED
      BY <1>0, <2>3, <3>1, <3>2
  <2> QED
    BY <1>3, <2>2, <2>3 DEF WorkerSucceeded
<1>4. CASE WorkerFailed(r)
  BY <1>0, <1>4, UnexpectedIsJustified DEF WorkerFailed, Failed
<1>5. CASE Collect(r)
  <2>1. PICK out \in Failures :
          /\ Failed(r, out)
          /\ \/ reply[r] = "timed_out" /\ out = "timed_out"
             \/ reply[r] = "wait_failed" /\ out = "worker_terminated"
             \/ out = Unexpected(r)
    BY <1>5, CollectFails
  <2>2. reply[r] = "timed_out" => Truthful(r, "timed_out")
    BY DEF Truthful, Inv, RunInv, OutcomeInv
  <2>3. reply[r] = "wait_failed" => Truthful(r, "worker_terminated")
    BY DEF Truthful
  <2>4. Truthful(r, out) /\ out \in Outcomes
    BY <2>1, <2>2, <2>3, UnexpectedIsJustified DEF Outcomes
  <2> QED
    BY <1>0, <2>1, <2>4 DEF Failed
<1>6. CASE Timeout(r)
  <2>1. Truthful(r, "timed_out") /\ "timed_out" \in Outcomes
    BY <1>6 DEF Truthful, Outcomes, Failures, FinalErrors, Timeout
  <2>2. outcome' = outcome \/ Ended(r, "timed_out")
    BY <1>6 DEF Timeout, Failed
  <2> QED
    BY <1>0, <2>1, <2>2 DEF EndsJustified
<1>7. CASE Disconnect(r)
  <2>1. Truthful(r, "disconnected") /\ "disconnected" \in Outcomes
    BY DEF Truthful, Outcomes
  <2> QED
    BY <1>0, <1>7, <2>1 DEF Disconnect
<1>8. CASE \/ Attach(r) \/ SendJob(r) \/ ReadLine(r) \/ ReadEof(r) \/ WriteResult(r) \/ Kill(r)
           \/ Start(r) \/ CallReturns(r) \/ WaitFails(r) \/ Deadline(r) \/ ReapOrphan(r)
           \/ WorkerStep(r)
  <2>1. outcome' = outcome
    BY <1>8 DEF Attach, SendJob, ReadLine, ReadEof, WriteResult, Kill, Start, CallReturns,
       WaitFails, Deadline, ReapOrphan, WorkerStep, WorkerLeaves, WorkerWrites, futureVars
  <2> QED
    BY <2>1 DEF EndsJustified
<1> QED
  BY <1>1, <1>2, <1>3, <1>4, <1>5, <1>6, <1>7, <1>8 DEF FutureStep

LEMMA JustifiedIsTruthful ==
  ASSUME Inv, NEW r \in Requests, EndsJustified(r), NEW s \in Requests, outcome[s] = "none"
  PROVE  Truthful(s, outcome'[s])
<1>0. outcome \in [Requests -> Outcomes]
  BY DEF Inv, TypeOK
<1>1. Truthful(s, "none")
  BY DEF Truthful
<1>2. CASE outcome' = outcome
  BY <1>1, <1>2
<1>3. CASE \E out \in Outcomes : outcome' = [outcome EXCEPT ![r] = out] /\ Truthful(r, out)
  <2>1. PICK out \in Outcomes : outcome' = [outcome EXCEPT ![r] = out] /\ Truthful(r, out)
    BY <1>3
  <2>2. CASE s = r
    BY <1>0, <2>1, <2>2
  <2>3. CASE s # r
    BY <1>0, <1>1, <2>1, <2>3
  <2> QED
    BY <2>2, <2>3
<1> QED
  BY <1>2, <1>3 DEF EndsJustified

(***************************************************************************)
(* A failure says what happened: a timeout comes after its deadline, a     *)
(* refusal from a full semaphore, a memory limit from an aborted worker or *)
(* from one that reported it before it exited cleanly, and so on.          *)
(***************************************************************************)
THEOREM FailuresTruthful == Spec => FailuresAreTruthful
<1>1. Inv /\ [Next]_vars =>
        [\A r \in Requests : outcome[r] = "none" => Truthful(r, outcome'[r])]_vars
  <2> SUFFICES ASSUME Inv, Next, vars' # vars, NEW r \in Requests, outcome[r] = "none"
               PROVE  Truthful(r, outcome'[r])
    OBVIOUS
  <2>1. \E s \in Requests : EndsJustified(s)
    BY EndsAreJustified DEF Next, Settled
  <2> QED
    BY <2>1, JustifiedIsTruthful
<1> QED
  BY <1>1, InvHolds, PTL DEF Spec, FailuresAreTruthful

----------------------------------------------------------------------------
(***************************************************************************)
(* What RunsEnd and NothingLeaks rest on, apart from fairness: where the   *)
(* process of a run can be, seen from the await its future stands at, and  *)
(* who keeps its uploads.                                                  *)
(***************************************************************************)
ProcessAt(p) ==
  CASE p = "idle"                              -> {"none"}
    [] p = "spawning"                          -> {"forking", "forked", "ready"}
    [] p \in Exchanging \cup {"terminating"}   -> Alive \cup Dead
    [] p = "waiting"                           -> {"closing"} \cup Dead
    [] p = "over"                              -> {"none", "forking", "forked", "reaped"} \cup Dead

LeaveInv(r) ==
  /\ child[r] \in ProcessAt(phase[r])
  /\ phase[r] = "over" /\ call[r] = "none" => uploads[r] = "closed"

(* A run under way whose deadline has passed: the timer drops it, or there *)
(* is a process to kill or to wait for.                                    *)
CanEnd(r) ==
  \/ phase[r] \in Exchanging \cup {"spawning", "waiting"}
  \/ phase[r] = "terminating" /\ child[r] \in Alive \cup Dead

(* A run that is over: what it started has ended, or the blocking pool or  *)
(* the runtime can end some of it.                                         *)
NothingIsLeft(r) == child[r] \in {"none", "reaped"} /\ uploads[r] = "closed" /\ pipe[r] = 0

CanCleanUp(r) == child[r] \in {"forking", "forked"} \cup Dead \/ call[r] # "none"

RunsNeverHang ==
  \A r \in Requests :
    /\ UnderWay(r) => CanEnd(r)
    /\ phase[r] = "over" => NothingIsLeft(r) \/ CanCleanUp(r)

(* The steps a run that is over still takes. *)
ProcessLeft(c) == IF c = "forking" THEN 3 ELSE IF c = "forked" THEN 2 ELSE IF c \in Dead THEN 1 ELSE 0

CallLeft(c) == IF c = "none" THEN 0 ELSE 1

Left(r) == ProcessLeft(child[r]) + CallLeft(call[r])

Footprint(r) == <<child[r], call[r], chain[r], pipe[r], uploads[r]>>

OrphansWindDown ==
  [][\A r \in Requests :
       phase[r] = "over" =>
         /\ phase'[r] = "over" /\ outcome'[r] = outcome[r]
         /\ Left(r)' < Left(r) \/ UNCHANGED Footprint(r)]_vars

RunStep(r) ==
  \/ Refuse(r) \/ Start(r)
  \/ Spawning(r) \/ FutureStep(r) \/ CallReturns(r)
  \/ WaitFails(r) \/ Deadline(r) \/ Disconnect(r) \/ ReapOrphan(r)
  \/ WorkerStep(r)

LEMMA NextIsRunStep == Next => Settled \/ \E r \in Requests : RunStep(r)
BY DEF Next, RunStep

(* What LeaveInv and Left speak of. *)
Apart(s) ==
  /\ phase'[s] = phase[s] /\ outcome'[s] = outcome[s] /\ child'[s] = child[s]
  /\ call'[s] = call[s] /\ chain'[s] = chain[s] /\ pipe'[s] = pipe[s]
  /\ uploads'[s] = uploads[s]

(* What the steps of a run need of TypeOK. *)
Shapes ==
  /\ phase \in [Requests -> Phases] /\ outcome \in [Requests -> Outcomes]
  /\ child \in [Requests -> Children] /\ call \in [Requests -> Calls \cup {"none"}]
  /\ chain \in [Requests -> Seq(Statuses)] /\ pipe \in [Requests -> Nat]
  /\ uploads \in [Requests -> {"open", "closed"}]

LEMMA TypesHaveShapes == TypeOK => Shapes
BY DEF TypeOK, Shapes

LEMMA OthersAreApart ==
  ASSUME TypeOK, NEW r \in Requests, NEW s \in Requests \ {r}, RunStep(r)
  PROVE  Apart(s)
<1>0. Shapes
  BY TypesHaveShapes
<1> USE DEF Shapes, Apart, Goto, futureVars, workerVars, hostVars
<1>1. CASE Refuse(r)
  BY <1>0, <1>1 DEF Refuse
<1>2. CASE Start(r)
  BY <1>0, <1>2 DEF Start
<1>3. CASE Fork(r)
  BY <1>0, <1>3 DEF Fork
<1>4. CASE SpawnReturns(r)
  BY <1>0, <1>4 DEF SpawnReturns
<1>5. CASE SpawnFails(r)
  BY <1>0, <1>5 DEF SpawnFails, Failed, Ended, DropStream
<1>6. CASE Attach(r)
  BY <1>0, <1>6 DEF Attach
<1>7. CASE SendJob(r)
  BY <1>0, <1>7 DEF SendJob, Terminating
<1>8. CASE ReadLine(r)
  BY <1>0, <1>8 DEF ReadLine, Terminating
<1>9. CASE ReadEof(r)
  BY <1>0, <1>9 DEF ReadEof, Terminating
<1>10. CASE WriteResult(r)
  BY <1>0, <1>10 DEF WriteResult, Terminating
<1>11. CASE WorkerSucceeded(r)
  BY <1>0, <1>11 DEF WorkerSucceeded, Ended
<1>12. CASE WorkerFailed(r)
  BY <1>0, <1>12 DEF WorkerFailed, Failed, Ended, DropStream
<1>13. CASE Collect(r)
  BY <1>0, <1>13 DEF Collect, Failed, Ended, DropStream
<1>14. CASE Kill(r)
  BY <1>0, <1>14 DEF Kill
<1>15. CASE ReapOrphan(r)
  BY <1>0, <1>15 DEF ReapOrphan
<1>16. CASE Deadline(r)
  BY <1>0, <1>16 DEF Deadline
<1>17. CASE Timeout(r)
  BY <1>0, <1>17 DEF Timeout, Failed, Ended, DropStream, Terminating
<1>18. CASE Disconnect(r)
  BY <1>0, <1>18 DEF Disconnect, Ended, DropStream
<1>19. CASE CallReturns(r)
  BY <1>0, <1>19 DEF CallReturns, Terminating
<1>20. CASE WorkerStep(r)
  BY <1>0, <1>20 DEF WorkerStep, WorkerLeaves, WorkerWrites
<1>21. CASE WaitFails(r)
  BY <1>0, <1>21 DEF WaitFails, Terminating
<1> QED
  BY <1>1, <1>2, <1>3, <1>4, <1>5, <1>6, <1>7, <1>8, <1>9, <1>10,
     <1>11, <1>12, <1>13, <1>14, <1>15, <1>16, <1>17, <1>18, <1>19, <1>20, <1>21
  DEF RunStep, Spawning, FutureStep

(* The run that moves keeps its process in its place. *)
LEMMA OwnProcessKept ==
  ASSUME Inv, NEW r \in Requests, LeaveInv(r), RunStep(r)
  PROVE  LeaveInv(r)'
<1>0. /\ Shapes /\ CallInv(r) /\ phase[r] \in Phases /\ child[r] \in ProcessAt(phase[r])
      /\ (phase[r] = "over" /\ call[r] = "none" => uploads[r] = "closed")
  BY TypesHaveShapes DEF Inv, RunInv, Shapes, LeaveInv
<1> USE DEF Shapes, LeaveInv, ProcessAt, Goto, Phases, Exchanging, Alive, Dead
<1> USE DEF futureVars, workerVars, hostVars
<1>1. CASE Refuse(r)
  BY <1>0, <1>1 DEF Refuse
<1>2. CASE Start(r)
  BY <1>0, <1>2 DEF Start
<1>3. CASE Fork(r)
  BY <1>0, <1>3 DEF Fork
<1>4. CASE SpawnReturns(r)
  BY <1>0, <1>4 DEF SpawnReturns
<1>5. CASE SpawnFails(r)
  BY <1>0, <1>5 DEF SpawnFails, Failed, Ended
<1>6. CASE Attach(r)
  BY <1>0, <1>6 DEF Attach
<1>7. CASE SendJob(r)
  BY <1>0, <1>7 DEF SendJob, Terminating
<1>8. CASE ReadLine(r)
  BY <1>0, <1>8 DEF ReadLine, Terminating
<1>9. CASE ReadEof(r)
  BY <1>0, <1>9 DEF ReadEof, Terminating
<1>10. CASE WriteResult(r)
  BY <1>0, <1>10 DEF WriteResult, Terminating
<1>11. CASE WorkerSucceeded(r)
  BY <1>0, <1>11 DEF WorkerSucceeded, Ended
<1>12. CASE WorkerFailed(r)
  BY <1>0, <1>12 DEF WorkerFailed, Failed, Ended
<1>13. CASE Collect(r)
  BY <1>0, <1>13 DEF Collect, Failed, Ended
<1>14. CASE Kill(r)
  BY <1>0, <1>14 DEF Kill
<1>15. CASE ReapOrphan(r)
  BY <1>0, <1>15 DEF ReapOrphan
<1>16. CASE Deadline(r)
  BY <1>0, <1>16 DEF Deadline
<1>17. CASE Timeout(r)
  BY <1>0, <1>17 DEF Timeout, Failed, Ended, Terminating, DroppedChild
<1>18. CASE Disconnect(r)
  BY <1>0, <1>18 DEF Disconnect, Ended, DroppedChild
<1>19. CASE CallReturns(r)
  BY <1>0, <1>19 DEF CallReturns, Terminating
<1>20. CASE WorkerStep(r)
  BY <1>0, <1>20 DEF WorkerStep, WorkerLeaves, WorkerWrites
<1>21. CASE WaitFails(r)
  BY <1>0, <1>21 DEF WaitFails, Terminating
<1> QED
  BY <1>1, <1>2, <1>3, <1>4, <1>5, <1>6, <1>7, <1>8, <1>9, <1>10,
     <1>11, <1>12, <1>13, <1>14, <1>15, <1>16, <1>17, <1>18, <1>19, <1>20, <1>21
  DEF RunStep, Spawning, FutureStep

(* A run that is over stays over and only winds down. *)
LEMMA OverWindsDown ==
  ASSUME Inv, NEW r \in Requests, LeaveInv(r), RunStep(r), phase[r] = "over"
  PROVE  /\ phase'[r] = "over" /\ outcome'[r] = outcome[r]
         /\ Left(r)' < Left(r) \/ UNCHANGED Footprint(r)
<1>0. TypeOK /\ child[r] \in {"none", "forking", "forked", "reaped"} \cup Dead
  BY DEF Inv, LeaveInv, ProcessAt
<1>1. ProcessLeft(child[r]) \in Nat /\ CallLeft(call[r]) \in Nat
  BY DEF ProcessLeft, CallLeft
<1>2. CASE Fork(r) \/ SpawnReturns(r) \/ ReapOrphan(r) \/ SpawnFails(r)
  <2>1. /\ phase' = phase /\ outcome' = outcome /\ call' = call
        /\ ProcessLeft(child'[r]) \in Nat /\ ProcessLeft(child'[r]) < ProcessLeft(child[r])
    BY <1>0, <1>2 DEF Fork, SpawnReturns, ReapOrphan, SpawnFails, ProcessLeft, Dead, TypeOK,
       futureVars, hostVars
  <2> QED
    BY <1>1, <2>1 DEF Left
<1>3. CASE CallReturns(r)
  <2>1. /\ phase' = phase /\ outcome' = outcome /\ child' = child
        /\ CallLeft(call[r]) = 1 /\ CallLeft(call'[r]) = 0
    BY <1>0, <1>3 DEF CallReturns, CallLeft, TypeOK, workerVars
  <2> QED
    BY <1>1, <2>1 DEF Left
<1>4. /\ ~Refuse(r) /\ ~Start(r) /\ ~FutureStep(r) /\ ~WorkerStep(r)
      /\ ~WaitFails(r) /\ ~Deadline(r) /\ ~Disconnect(r)
  <2>1. ~Refuse(r) /\ ~Start(r) /\ ~WaitFails(r) /\ ~Deadline(r) /\ ~Disconnect(r)
    BY DEF Refuse, Start, WaitFails, Deadline, Disconnect
  <2>2. ~WorkerStep(r)
    BY <1>0 DEF WorkerStep, WorkerLeaves, WorkerWrites, Alive, Dead
  <2>3. ~FutureStep(r)
    BY DEF FutureStep, Attach, SendJob, ReadLine, ReadEof, WriteResult, WorkerSucceeded,
       WorkerFailed, Kill, Collect, Timeout, Exchanging
  <2> QED
    BY <2>1, <2>2, <2>3
<1> QED
  BY <1>2, <1>3, <1>4 DEF RunStep, Spawning

Leaves == \A r \in Requests : LeaveInv(r)

LEMMA StepLeaves == Inv /\ Leaves /\ [Next]_vars => Leaves'
<1> SUFFICES ASSUME Inv, Leaves, [Next]_vars, NEW s \in Requests PROVE LeaveInv(s)'
  BY DEF Leaves
<1>1. CASE UNCHANGED vars \/ Settled
  BY <1>1 DEF vars, futureVars, workerVars, hostVars, Settled, Leaves, LeaveInv
<1>2. ASSUME NEW r \in Requests, RunStep(r) PROVE LeaveInv(s)'
  <2>1. CASE r = s
    BY <1>2, <2>1, OwnProcessKept DEF Leaves
  <2>2. CASE r # s
    <3>1. Apart(s)
      BY <1>2, <2>2, OthersAreApart DEF Inv
    <3> QED
      BY <3>1 DEF Apart, Leaves, LeaveInv
  <2> QED
    BY <2>1, <2>2
<1> QED
  BY <1>1, <1>2, NextIsRunStep

LEMMA LeavesHolds == Spec => []Leaves
<1>1. Init => Leaves
  <2>1. ASSUME Init, NEW r \in Requests
        PROVE  phase[r] = "idle" /\ child[r] = "none"
    BY <2>1 DEF Init
  <2> QED
    BY <2>1 DEF Leaves, LeaveInv, ProcessAt, Exchanging
<1> QED
  BY <1>1, StepLeaves, InvHolds, PTL DEF Spec

(***************************************************************************)
(* No run hangs.  While it is under way, the deadline alone can end it: it *)
(* interrupts every await but those of terminate, and terminate always has *)
(* a process to kill or to wait for.  Once it is over, however it ended,   *)
(* no process, upload directory or stream of it is left, or the blocking   *)
(* pool or the runtime has the next step; never is a client or a worker    *)
(* needed.                                                                 *)
(***************************************************************************)
THEOREM RunsDoNotHang == Spec => []RunsNeverHang
<1>1. Inv /\ Leaves => RunsNeverHang
  <2> SUFFICES ASSUME Inv, Leaves, NEW r \in Requests
               PROVE  /\ UnderWay(r) => CanEnd(r)
                      /\ phase[r] = "over" => NothingIsLeft(r) \/ CanCleanUp(r)
    BY DEF RunsNeverHang
  <2>1. phase[r] \in Phases /\ LeaveInv(r) /\ StreamInv(r)
    BY DEF Inv, TypeOK, RunInv, Leaves
  <2>2. UnderWay(r) => CanEnd(r)
    BY <2>1 DEF UnderWay, CanEnd, LeaveInv, ProcessAt, Phases, Exchanging
  <2>3. phase[r] = "over" => NothingIsLeft(r) \/ CanCleanUp(r)
    BY <2>1 DEF LeaveInv, StreamInv, NothingIsLeft, CanCleanUp, ProcessAt, Exchanging
  <2> QED
    BY <2>2, <2>3
<1> QED
  BY <1>1, InvHolds, LeavesHolds, PTL

(***************************************************************************)
(* Nothing comes to life again.  A run that is over keeps its outcome, and *)
(* all that still happens to it uses up a spawn that outlived it (three    *)
(* steps until the process is reaped) or an orphaned host call (one step). *)
(***************************************************************************)
THEOREM RunsWindDown == Spec => OrphansWindDown
<1> DEFINE Step ==
      \A r \in Requests :
        phase[r] = "over" =>
          /\ phase'[r] = "over" /\ outcome'[r] = outcome[r]
          /\ Left(r)' < Left(r) \/ UNCHANGED Footprint(r)
<1>1. Inv /\ Leaves /\ [Next]_vars => [Step]_vars
  <2> SUFFICES ASSUME Inv, Leaves, Next, NEW s \in Requests, phase[s] = "over"
               PROVE  /\ phase'[s] = "over" /\ outcome'[s] = outcome[s]
                      /\ Left(s)' < Left(s) \/ UNCHANGED Footprint(s)
    OBVIOUS
  <2>1. CASE Settled
    BY <2>1 DEF Settled, vars, futureVars, workerVars, hostVars, Footprint
  <2>2. ASSUME NEW r \in Requests, RunStep(r)
        PROVE  /\ phase'[s] = "over" /\ outcome'[s] = outcome[s]
               /\ Left(s)' < Left(s) \/ UNCHANGED Footprint(s)
    <3>1. CASE r = s
      BY <2>2, <3>1, OverWindsDown DEF Leaves
    <3>2. CASE r # s
      <4>1. Apart(s)
        BY <2>2, <3>2, OthersAreApart DEF Inv
      <4> QED
        BY <4>1 DEF Apart, Footprint
    <3> QED
      BY <3>1, <3>2
  <2> QED
    BY <2>1, <2>2, NextIsRunStep
<1> QED
  BY <1>1, InvHolds, LeavesHolds, PTL DEF Spec, OrphansWindDown
=============================================================================
