---------------------------- MODULE SharedState ----------------------------
(***************************************************************************)
(* The process-local Shared state store (src/src/state.rs) as the parent   *)
(* serves it to Script workers (dispatch_state in src/src/script.rs).      *)
(*                                                                         *)
(* Every call of every worker runs under one mutex, so each operation is   *)
(* one action; the clock is read once inside it.  Expired entries stay in  *)
(* the map as garbage until a read of their key or the sweep of a write    *)
(* removes them, and used_bytes counts them until then.                    *)
(***************************************************************************)
EXTENDS StateLimits

CONSTANTS
  Never,      \* expires_at of an entry stored without a TTL
  MaxTime     \* bound: the clock stops here

ASSUME ClockAssumption == Never \notin Int /\ MaxTime \in Nat

VARIABLES
  entries,    \* key -> [value, expires_at], expired garbage included
  used_bytes, \* the running total kept beside the map
  now,        \* the monotonic clock, in ticks
  reply       \* the reply to the last call

vars == <<entries, used_bytes, now, reply>>

----------------------------------------------------------------------------
IsExpired(e) == e.expires_at # Never /\ now >= e.expires_at

Expired == {k \in DOMAIN entries : IsExpired(entries[k])}

ExpiresAt(ttl) == IF ttl = NoTtl THEN Never ELSE now + ttl

(***************************************************************************)
(* The methods of Store take &mut self and return a Result.  Here they map *)
(* a store [entries, used, code] to the next one; a code other than "ok"   *)
(* is an Err already returned, which the ? operator hands through.         *)
(***************************************************************************)
Store(m, used, code) == [entries |-> m, used |-> used, code |-> code]

Here == Store(entries, used_bytes, "ok")

Fail(s, code) == Store(s.entries, s.used, code)

RemoveForgetsCounter(s, gone) ==        \* slip: used_bytes is not reduced
  Store(Without(s.entries, gone), s.used, s.code)

(***************************************************************************)
(* remove_entry on every key of gone.  The checked_sub of the code fails   *)
(* when the counter is smaller than what is removed; the keys its loop had *)
(* removed before that are not modelled: no store reaches it, which is     *)
(* NoInternalError, proved in SharedStateProofs.                           *)
(***************************************************************************)
Remove(s, gone) ==
  LET freed == Bytes(Restrict(s.entries, gone))
  IN IF s.used < freed
     THEN Fail(s, "state_internal_error")
     ELSE Store(Without(s.entries, gone), s.used - freed, s.code)

RemoveIfExpired(s, k) == Remove(s, Expired \cap {k})

RemoveAllExpired(s) == Remove(s, Expired)

(***************************************************************************)
(* commit_write: a new key needs a free slot, a replaced one gives its     *)
(* bytes back first, and nothing changes unless everything fits.           *)
(***************************************************************************)
CommitWrite(s, k, v, ttl) ==
  LET replacing == k \in DOMAIN s.entries
      old_cost  == IF replacing THEN EntryCost(k, s.entries[k].value) ELSE 0
      new_used  == s.used - old_cost + EntryCost(k, v)
      entry     == [value |-> v, expires_at |-> ExpiresAt(ttl)]
  IN IF s.code # "ok" THEN s
     ELSE IF ~replacing /\ Cardinality(DOMAIN s.entries) >= MaxEntries
          THEN Fail(s, "state_capacity_exceeded")
     ELSE IF s.used < old_cost THEN Fail(s, "state_internal_error")
     ELSE IF new_used > MaxTotalBytes THEN Fail(s, "state_capacity_exceeded")
     ELSE Store(Put(s.entries, k, entry), new_used, "ok")

(* Store s, answer with the error it carries or else with code and value.  *)
Finish(s, op, k, code, value) ==
  /\ entries' = s.entries
  /\ used_bytes' = s.used
  /\ reply' = IF s.code = "ok" THEN Reply(op, k, code, value)
                               ELSE Reply(op, k, s.code, NoValue)
  /\ UNCHANGED now

----------------------------------------------------------------------------
(* A call with an invalid TTL, key or value: refused before the map is     *)
(* looked at.  Reads are parsed for a TTL like writes.                     *)
InvalidArgs(op, k) ==
  \E v \in Values, ttl \in TtlArgs :
    \/ ~ValidKey(k)
    \/ ~ValidTtl(ttl)
    \/ op \in WriteOps /\ ~ValidValue(v)

Reject(op, k) ==
  /\ InvalidArgs(op, k)
  /\ reply' = Reply(op, k, "state_invalid_input", NoValue)
  /\ UNCHANGED <<entries, used_bytes, now>>

Get(k) ==
  LET s == RemoveIfExpired(Here, k)
  IN /\ ValidKey(k)
     /\ IF k \in DOMAIN s.entries
        THEN Finish(s, "get", k, "found", s.entries[k].value)
        ELSE Finish(s, "get", k, "missing", NoValue)

Take(k) ==
  LET s == RemoveIfExpired(Here, k)
  IN /\ ValidKey(k)
     /\ IF k \in DOMAIN s.entries /\ s.code = "ok"
        THEN Finish(Remove(s, {k}), "take", k, "found", s.entries[k].value)
        ELSE Finish(s, "take", k, "missing", NoValue)

ValidWrite(k, v, ttl) == ValidKey(k) /\ ValidValue(v) /\ ValidTtl(ttl)

Set(k, v, ttl) ==
  /\ ValidWrite(k, v, ttl)
  /\ Finish(CommitWrite(RemoveAllExpired(Here), k, v, ttl), "set", k, "ok", NoValue)

SetIfAbsentUnswept(k, v, ttl) ==        \* slip: garbage counts as present
  /\ ValidWrite(k, v, ttl)
  /\ IF k \in DOMAIN entries
     THEN Finish(Here, "setIfAbsent", k, "kept", NoValue)
     ELSE Finish(CommitWrite(Here, k, v, ttl), "setIfAbsent", k, "stored", NoValue)

SetIfAbsent(k, v, ttl) ==
  LET s == RemoveAllExpired(Here)
  IN /\ ValidWrite(k, v, ttl)
     /\ IF k \in DOMAIN s.entries
        THEN Finish(s, "setIfAbsent", k, "kept", NoValue)
        ELSE Finish(CommitWrite(s, k, v, ttl), "setIfAbsent", k, "stored", NoValue)

(* The monotonic clock moves on its own. *)
Tick ==
  /\ now < MaxTime
  /\ now' = now + 1
  /\ UNCHANGED <<entries, used_bytes, reply>>

----------------------------------------------------------------------------
Init ==
  /\ entries = EmptyMap
  /\ used_bytes = 0
  /\ now = 0
  /\ reply = NoReply

Next ==
  \/ Tick
  \/ \E k \in Keys :
       \/ \E op \in Ops : Reject(op, k)
       \/ Get(k)
       \/ Take(k)
       \/ \E v \in Values, ttl \in TtlArgs : Set(k, v, ttl) \/ SetIfAbsent(k, v, ttl)

Spec == Init /\ [][Next]_vars

----------------------------------------------------------------------------
(* Type invariant of the store's state: a map of valid keys to valid       *)
(* values, a non-negative counter, and a reply of dispatch_state.          *)
Entries ==
  [value : {v \in Values : ValidValue(v)}, expires_at : Nat \cup {Never}]

TypeOK ==
  /\ DOMAIN entries \subseteq {k \in Keys : ValidKey(k)}
  /\ entries \in [DOMAIN entries -> Entries]
  /\ used_bytes \in Nat
  /\ now \in Nat
  /\ reply \in Replies \cup {NoReply}

(***************************************************************************)
(* The counter commit_write and remove_entry keep by adding and            *)
(* subtracting is always the size of what the map holds, garbage included, *)
(* and neither it nor the number of entries passes its limit.  A removal,  *)
(* replacement or refused write that forgot one of the two would drift.    *)
(***************************************************************************)
Accounting ==
  /\ IsFiniteSet(DOMAIN entries)
  /\ used_bytes = Bytes(entries)
  /\ used_bytes <= MaxTotalBytes
  /\ Cardinality(DOMAIN entries) <= MaxEntries

(* No sequence of calls and ticks makes a checked_sub of the store fail:   *)
(* a Script never receives state_internal_error.                           *)
NoInternalError == reply.code # "state_internal_error"

----------------------------------------------------------------------------
(* What a Script can see: the entries that have not expired, each with the *)
(* time it has left.                                                       *)
Live ==
  [k \in DOMAIN entries \ Expired |->
     [value |-> entries[k].value,
      left  |-> IF entries[k].expires_at = Never THEN Never
                ELSE entries[k].expires_at - now]]

(***************************************************************************)
(* The lazily swept store implements the map of live entries: garbage is   *)
(* never visible to a read, never makes setIfAbsent lose, and never makes  *)
(* a write fail that the live entries leave room for.                      *)
(***************************************************************************)
Promise == INSTANCE LiveStore WITH live <- Live, Forever <- Never

ImplementsLiveStore == Promise!Spec
=============================================================================
