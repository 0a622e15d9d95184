---------------------------- MODULE StateLimits ----------------------------
(***************************************************************************)
(* The vocabulary shared by the Shared state store (SharedState) and by    *)
(* the abstract store it implements (LiveStore): keys and values with the  *)
(* sizes the host measures, the limits of src/src/state.rs, the validation *)
(* of a call and the reply a Script receives.                              *)
(*                                                                         *)
(* A key is its UTF-8 length, a value its compact-JSON length: nothing     *)
(* else about them reaches a branch of the code.  A value nested deeper    *)
(* than MAX_VALUE_DEPTH is a value whose ValueBytes exceed MaxValueBytes:  *)
(* both are refused by validate_value with the same error.                 *)
(***************************************************************************)
EXTENDS Integers, FiniteSets, Functions

CONSTANTS
  Keys,           \* the keys Scripts pass, valid or not
  Values,         \* the JSON values Scripts pass, valid or not
  KeyBytes,       \* UTF-8 length of a key
  ValueBytes,     \* compact-JSON length of a value
  MaxKeyBytes, MaxValueBytes, MaxTotalBytes, MaxEntries, MaxTtl,
  Ttls,           \* the ttlMs arguments Scripts pass, in clock ticks
  NoTtl,          \* ttlMs was not given
  NoValue         \* no value in a reply

ASSUME SizesAssumption ==
  /\ KeyBytes \in [Keys -> Nat]
  /\ ValueBytes \in [Values -> Nat]
  /\ Ttls \subseteq Nat
  /\ NoTtl \notin Nat
  /\ NoValue \notin Values

ASSUME LimitsAssumption ==
  /\ MaxKeyBytes \in Nat
  /\ MaxValueBytes \in Nat
  /\ MaxTotalBytes \in Nat
  /\ MaxEntries \in Nat
  /\ MaxTtl \in Nat

----------------------------------------------------------------------------
(* validate_key, validate_value and validate_ttl (parse_state_ttl repeats  *)
(* the last one before the lock is taken).                                 *)

ValidKey(k) == KeyBytes[k] \in 1..MaxKeyBytes

ValidValue(v) == ValueBytes[v] <= MaxValueBytes

ValidTtl(ttl) == ttl = NoTtl \/ ttl \in 1..MaxTtl

TtlArgs == Ttls \cup {NoTtl}

(***************************************************************************)
(* entry_cost, and the bytes of a whole map of entries.  A byte is named   *)
(* by its key and its position, so the size of a map is the number of its  *)
(* bytes.                                                                  *)
(***************************************************************************)
EntryCost(k, v) == KeyBytes[k] + ValueBytes[v]

EntryBytes(m, k) == {k} \X (1..EntryCost(k, m[k].value))

Footprint(m) == UNION {EntryBytes(m, k) : k \in DOMAIN m}

Bytes(m) == Cardinality(Footprint(m))

(* HashMap::insert *)
Put(m, k, entry) ==
  [x \in DOMAIN m \cup {k} |-> IF x = k THEN entry ELSE m[x]]

Without(m, gone) == Restrict(m, DOMAIN m \ gone)

EmptyMap == [k \in {} |-> NoValue]

----------------------------------------------------------------------------
(* Replies of dispatch_state: the operation and key they answer, the       *)
(* outcome or error code, and the value of a found entry.                  *)

Ops == {"get", "set", "take", "setIfAbsent"}

WriteOps == {"set", "setIfAbsent"}

ErrorCodes ==
  {"state_invalid_input", "state_capacity_exceeded", "state_internal_error"}

OkCodes == {"found", "missing", "ok", "stored", "kept"}

Reply(op, k, code, v) == [op |-> op, key |-> k, code |-> code, value |-> v]

Replies ==
  [op : Ops, key : Keys, code : OkCodes \cup ErrorCodes,
   value : Values \cup {NoValue}]

NoReply == Reply("none", "none", "none", NoValue)
=============================================================================
