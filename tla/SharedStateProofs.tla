------------------------- MODULE SharedStateProofs -------------------------
(***************************************************************************)
(* Proofs about SharedState, for any keys, values, sizes and limits.       *)
(*                                                                         *)
(* The counter used_bytes is the size of the map, and stays within its     *)
(* limit, because every write and removal is priced from the same map it   *)
(* changes.  The lemmas say how the size of a map changes when it is split *)
(* and when an entry is put into it; two more say that Remove and          *)
(* CommitWrite keep a store whose counter is right (Balanced) balanced and *)
(* never fail inside; the theorems follow action by action.                *)
(***************************************************************************)
EXTENDS SharedState, TLAPS, FiniteSetTheorems, FunctionTheorems

(* A map of entries: finitely many keys, each with a value. *)
IsMap(m) ==
  /\ IsFiniteSet(DOMAIN m)
  /\ DOMAIN m \subseteq Keys
  /\ \A k \in DOMAIN m : m[k].value \in Values

----------------------------------------------------------------------------
(* The cost of an entry is a natural number. *)
LEMMA CostType ==
  ASSUME NEW k \in Keys, NEW v \in Values
  PROVE  EntryCost(k, v) \in Nat
BY SizesAssumption DEF EntryCost, SizesAssumption

(* The bytes of one entry are as many as its cost. *)
LEMMA EntryBytesSize ==
  ASSUME NEW m, IsMap(m), NEW k \in DOMAIN m
  PROVE  /\ IsFiniteSet(EntryBytes(m, k))
         /\ Cardinality(EntryBytes(m, k)) = EntryCost(k, m[k].value)
<1> DEFINE c == EntryCost(k, m[k].value)
<1>1. c \in Nat
  BY CostType DEF IsMap
<1>2. IsFiniteSet(1..c) /\ Cardinality(1..c) = c
  BY <1>1, FS_Interval
<1>3. IsFiniteSet({k}) /\ Cardinality({k}) = 1
  BY FS_Singleton
<1>4. /\ IsFiniteSet({k} \X (1..c))
      /\ Cardinality({k} \X (1..c)) = Cardinality({k}) * Cardinality(1..c)
  BY <1>2, <1>3, FS_Product
<1>5. Cardinality({k} \X (1..c)) = c
  BY <1>1, <1>2, <1>3, <1>4
<1> QED
  BY <1>4, <1>5 DEF EntryBytes

(* A map has finitely many bytes. *)
LEMMA FootprintFinite ==
  ASSUME NEW m, IsMap(m)
  PROVE  IsFiniteSet(Footprint(m)) /\ Bytes(m) \in Nat
<1> DEFINE T == {EntryBytes(m, k) : k \in DOMAIN m}
           f == [k \in DOMAIN m |-> EntryBytes(m, k)]
<1>1. f \in Surjection(DOMAIN m, T)
  BY DEF Surjection
<1>2. IsFiniteSet(T)
  <2> HIDE DEF f, T
  <2> QED
    BY <1>1, FS_Surjection DEF IsMap
<1>3. \A t \in T : IsFiniteSet(t)
  BY EntryBytesSize
<1>4. IsFiniteSet(UNION T)
  <2> HIDE DEF T
  <2> QED
    BY <1>2, <1>3, FS_UNION
<1> QED
  BY <1>4, FS_CardinalityType DEF Footprint, Bytes

(* Every part of a map is a map. *)
LEMMA PartIsMap ==
  ASSUME NEW m, IsMap(m), NEW part \in SUBSET DOMAIN m
  PROVE  IsMap(Restrict(m, part))
BY FS_Subset DEF IsMap, Restrict

(* Splitting a map splits its size. *)
LEMMA SplitBytes ==
  ASSUME NEW m, IsMap(m), NEW gone \in SUBSET DOMAIN m
  PROVE  /\ IsMap(Restrict(m, gone)) /\ IsMap(Without(m, gone))
         /\ Bytes(m) = Bytes(Restrict(m, gone)) + Bytes(Without(m, gone))
<1> DEFINE a == Restrict(m, gone)
           b == Without(m, gone)
<1>1. IsMap(a) /\ IsMap(b)
  BY PartIsMap DEF Without
<1>2. DOMAIN a = gone /\ DOMAIN b = DOMAIN m \ gone
  BY DEF Restrict, Without
<1>3. /\ \A k \in gone : EntryBytes(a, k) = EntryBytes(m, k)
      /\ \A k \in DOMAIN m \ gone : EntryBytes(b, k) = EntryBytes(m, k)
  BY DEF EntryBytes, Restrict, Without
<1>4. Footprint(m) = Footprint(a) \cup Footprint(b)
  <2> HIDE DEF a, b
  <2> QED
    BY <1>2, <1>3 DEF Footprint
<1>5. Footprint(a) \cap Footprint(b) = {}
  <2>1. \A k \in gone, l \in DOMAIN m \ gone :
          EntryBytes(a, k) \cap EntryBytes(b, l) = {}
    BY <1>3 DEF EntryBytes
  <2> HIDE DEF a, b
  <2> QED
    BY <1>2, <2>1 DEF Footprint
<1>6. /\ IsFiniteSet(Footprint(a)) /\ Bytes(a) \in Nat
      /\ IsFiniteSet(Footprint(b)) /\ Bytes(b) \in Nat
  <2> HIDE DEF a, b
  <2> QED
    BY <1>1, FootprintFinite
<1>7. Cardinality(Footprint(m)) =
        Cardinality(Footprint(a)) + Cardinality(Footprint(b)) - Cardinality({})
  <2> HIDE DEF a, b
  <2> QED
    BY <1>4, <1>5, <1>6, FS_Union
<1>8. Cardinality({}) = 0
  BY FS_EmptySet
<1> QED
  BY <1>1, <1>6, <1>7, <1>8 DEF Bytes

(* An entry that is there is a part of the map as large as its cost, one   *)
(* that is not is an empty part.                                           *)
LEMMA OneEntryBytes ==
  ASSUME NEW m, IsMap(m), NEW k
  PROVE  Bytes(Restrict(m, DOMAIN m \cap {k})) =
           IF k \in DOMAIN m THEN EntryCost(k, m[k].value) ELSE 0
<1> DEFINE a == Restrict(m, DOMAIN m \cap {k})
<1>1. CASE k \in DOMAIN m
  <2>1. DOMAIN a = {k} /\ EntryBytes(a, k) = EntryBytes(m, k)
    BY <1>1 DEF Restrict, EntryBytes
  <2>2. Footprint(a) = EntryBytes(m, k)
    <3> HIDE DEF a
    <3> QED
      BY <2>1 DEF Footprint
  <2> QED
    BY <1>1, <2>2, EntryBytesSize DEF Bytes
<1>2. CASE k \notin DOMAIN m
  <2>1. DOMAIN a = {}
    BY <1>2 DEF Restrict
  <2>2. Footprint(a) = {}
    <3> HIDE DEF a
    <3> QED
      BY <2>1 DEF Footprint
  <2> QED
    BY <1>2, <2>2, FS_EmptySet DEF Bytes
<1> QED
  BY <1>1, <1>2

(* A map without one of its keys is smaller by the cost of that entry. *)
LEMMA WithoutBytes ==
  ASSUME NEW m, IsMap(m), NEW k
  PROVE  /\ IsMap(Without(m, {k}))
         /\ Bytes(Without(m, {k})) \in Nat
         /\ Bytes(m) = Bytes(Without(m, {k})) +
              (IF k \in DOMAIN m THEN EntryCost(k, m[k].value) ELSE 0)
<1> DEFINE gone == DOMAIN m \cap {k}
<1>1. Without(m, gone) = Without(m, {k})
  <2>1. DOMAIN m \ gone = DOMAIN m \ {k}
    OBVIOUS
  <2> QED
    BY <2>1 DEF Without
<1>2. /\ IsMap(Restrict(m, gone)) /\ IsMap(Without(m, gone))
      /\ Bytes(m) = Bytes(Restrict(m, gone)) + Bytes(Without(m, gone))
  BY SplitBytes
<1>3. Bytes(Restrict(m, gone)) \in Nat /\ Bytes(Without(m, gone)) \in Nat
  BY <1>2, FootprintFinite
<1>4. Bytes(Restrict(m, gone)) =
        IF k \in DOMAIN m THEN EntryCost(k, m[k].value) ELSE 0
  BY OneEntryBytes
<1> HIDE DEF gone
<1>5. CASE k \in DOMAIN m
  BY <1>1, <1>2, <1>3, <1>4, <1>5
<1>6. CASE k \notin DOMAIN m
  BY <1>1, <1>2, <1>3, <1>4, <1>6
<1> QED
  BY <1>5, <1>6

(* The size of a map after HashMap::insert. *)
LEMMA PutBytes ==
  ASSUME NEW m, IsMap(m), NEW k \in Keys, NEW e, e.value \in Values
  PROVE  /\ IsMap(Put(m, k, e))
         /\ Bytes(Put(m, k, e)) = Bytes(Without(m, {k})) + EntryCost(k, e.value)
<1> DEFINE p == Put(m, k, e)
<1>1. IsFiniteSet(DOMAIN p)
  <2>1. IsFiniteSet(DOMAIN m \cup {k})
    BY FS_AddElement DEF IsMap
  <2> QED
    BY <2>1 DEF Put
<1>2. IsMap(p) /\ k \in DOMAIN p /\ p[k] = e
  BY <1>1 DEF IsMap, Put
<1>3. Without(p, {k}) = Without(m, {k})
  BY DEF Put, Without, Restrict
<1>4. Bytes(p) = Bytes(Without(p, {k})) + EntryCost(k, p[k].value)
  BY <1>2, WithoutBytes
<1> QED
  BY <1>2, <1>3, <1>4

(* The empty map has no bytes. *)
LEMMA EmptyBytes == IsMap(EmptyMap) /\ Bytes(EmptyMap) = 0
<1>1. DOMAIN EmptyMap = {}
  BY DEF EmptyMap
<1>2. Footprint(EmptyMap) = {}
  BY <1>1 DEF Footprint
<1> QED
  BY <1>1, <1>2, FS_EmptySet DEF IsMap, Bytes

----------------------------------------------------------------------------
(***************************************************************************)
(* A store the Rust code may hold between two statements: a typed map, the *)
(* counter equal to its size, both within their limits, and no error that  *)
(* a checked_sub raised.                                                   *)
(***************************************************************************)
Balanced(s) ==
  /\ s.entries \in [DOMAIN s.entries -> Entries]
  /\ DOMAIN s.entries \subseteq {k \in Keys : ValidKey(k)}
  /\ IsFiniteSet(DOMAIN s.entries)
  /\ Cardinality(DOMAIN s.entries) <= MaxEntries
  /\ s.used = Bytes(s.entries)
  /\ s.used <= MaxTotalBytes
  /\ s.code \in {"ok", "state_capacity_exceeded"}

(* The map of such a store is a map, and its counter a number. *)
LEMMA BalancedIsMap ==
  ASSUME NEW s, Balanced(s)
  PROVE  IsMap(s.entries) /\ s.used \in Nat
<1>1. IsMap(s.entries)
  BY DEF Balanced, IsMap, Entries
<1> QED
  BY <1>1, FootprintFinite DEF Balanced

(* remove_entry on any of the keys keeps the store balanced, takes exactly *)
(* these keys out and never fails.                                         *)
LEMMA RemoveBalanced ==
  ASSUME NEW s, Balanced(s), NEW gone \in SUBSET DOMAIN s.entries
  PROVE  /\ Balanced(Remove(s, gone))
         /\ Remove(s, gone).entries = Without(s.entries, gone)
         /\ Remove(s, gone).code = s.code
<1> DEFINE m == s.entries
           freed == Bytes(Restrict(m, gone))
           rest == Without(m, gone)
           t == Store(rest, s.used - freed, s.code)
<1>1. /\ IsMap(m) /\ IsMap(rest) /\ IsMap(Restrict(m, gone))
      /\ Bytes(m) = freed + Bytes(rest)
  BY BalancedIsMap, SplitBytes
<1>2. freed \in Nat /\ Bytes(rest) \in Nat
  BY <1>1, FootprintFinite
<1>3. s.used = freed + Bytes(rest)
  BY <1>1 DEF Balanced
<1>4. /\ DOMAIN rest = DOMAIN m \ gone
      /\ rest \in [DOMAIN rest -> Entries]
  BY DEF Balanced, Without, Restrict
<1>5. IsFiniteSet(DOMAIN rest) /\ Cardinality(DOMAIN rest) <= MaxEntries
  <2>1. DOMAIN rest \subseteq DOMAIN m
    BY <1>4
  <2>2. /\ IsFiniteSet(DOMAIN rest)
        /\ Cardinality(DOMAIN rest) <= Cardinality(DOMAIN m)
    BY <2>1, FS_Subset DEF Balanced
  <2>3. Cardinality(DOMAIN rest) \in Nat /\ Cardinality(DOMAIN m) \in Nat
    BY <2>2, FS_CardinalityType DEF Balanced
  <2> HIDE DEF rest
  <2> QED
    BY <2>2, <2>3, LimitsAssumption DEF Balanced, LimitsAssumption
<1>6. Remove(s, gone) = t
  <2>1. ~(s.used < freed)
    BY <1>2, <1>3
  <2> QED
    BY <2>1 DEF Remove
<1>7. /\ t.entries = rest /\ t.used = s.used - freed /\ t.code = s.code
  BY DEF Store
<1>8. t.used = Bytes(rest) /\ t.used <= MaxTotalBytes
  <2> HIDE DEF freed, rest
  <2> QED
    BY <1>2, <1>3, <1>7, LimitsAssumption DEF Balanced, LimitsAssumption
<1>9. Balanced(t)
  <2> HIDE DEF t, rest
  <2> QED
    BY <1>4, <1>5, <1>7, <1>8 DEF Balanced
<1> QED
  BY <1>6, <1>7, <1>9

(* The new value of k fits into the map m, next to its other entries. *)
Room(m, k, v) ==
  /\ k \in DOMAIN m \/ Cardinality(DOMAIN m) < MaxEntries
  /\ Bytes(Without(m, {k})) + EntryCost(k, v) <= MaxTotalBytes

(* commit_write on a balanced store keeps it balanced; the entry goes into *)
(* the map when there is room for it, and otherwise nothing changes.       *)
LEMMA CommitBalanced ==
  ASSUME NEW s, Balanced(s), NEW k \in Keys, NEW v \in Values, NEW ttl,
         ValidKey(k), ValidValue(v), ExpiresAt(ttl) \in Nat \cup {Never}
  PROVE  LET t == CommitWrite(s, k, v, ttl)
             e == [value |-> v, expires_at |-> ExpiresAt(ttl)]
         IN /\ Balanced(t)
            /\ s.code = "ok" /\ Room(s.entries, k, v) =>
                 t.code = "ok" /\ t.entries = Put(s.entries, k, e)
            /\ s.code = "ok" /\ ~Room(s.entries, k, v) =>
                 t.code = "state_capacity_exceeded" /\ t.entries = s.entries
<1> DEFINE m == s.entries
           e == [value |-> v, expires_at |-> ExpiresAt(ttl)]
           p == Put(m, k, e)
           old == IF k \in DOMAIN m THEN EntryCost(k, m[k].value) ELSE 0
           new == s.used - old + EntryCost(k, v)
           t == Store(p, new, "ok")
           refused == Fail(s, "state_capacity_exceeded")
<1>1. IsMap(m) /\ s.used = Bytes(m)
  BY BalancedIsMap DEF Balanced
<1>2. /\ IsMap(p)
      /\ Bytes(p) = Bytes(Without(m, {k})) + EntryCost(k, v)
  BY <1>1, PutBytes
<1>3. /\ Bytes(Without(m, {k})) \in Nat
      /\ Bytes(m) = Bytes(Without(m, {k})) + old
  BY <1>1, WithoutBytes
<1>4. EntryCost(k, v) \in Nat /\ old \in Nat
  BY <1>1, CostType DEF IsMap
<1>5. new = Bytes(p) /\ new \in Nat /\ ~(s.used < old)
  <2> HIDE DEF old, p, m
  <2> QED
    BY <1>1, <1>2, <1>3, <1>4
<1>6. Balanced(refused)
  BY DEF Balanced, Fail, Store
<1>7. ASSUME k \in DOMAIN m \/ ~(Cardinality(DOMAIN m) >= MaxEntries),
             ~(new > MaxTotalBytes)
      PROVE  Balanced(t)
  <2>1. DOMAIN p = DOMAIN m \cup {k} /\ p \in [DOMAIN p -> Entries]
    BY DEF Balanced, Put, Entries
  <2>2. DOMAIN p \subseteq {x \in Keys : ValidKey(x)}
    BY <2>1 DEF Balanced
  <2>3. /\ IsFiniteSet(DOMAIN p)
        /\ Cardinality(DOMAIN p) =
             IF k \in DOMAIN m THEN Cardinality(DOMAIN m)
                               ELSE Cardinality(DOMAIN m) + 1
    BY <2>1, FS_AddElement DEF Balanced
  <2>4. Cardinality(DOMAIN m) \in Nat /\ Cardinality(DOMAIN m) <= MaxEntries
    BY FS_CardinalityType DEF Balanced
  <2>5. Cardinality(DOMAIN p) <= MaxEntries
    <3> HIDE DEF p, m
    <3> QED
      BY <1>7, <2>3, <2>4, LimitsAssumption DEF LimitsAssumption
  <2>6. new <= MaxTotalBytes
    <3> HIDE DEF new
    <3> QED
      BY <1>5, <1>7, LimitsAssumption DEF LimitsAssumption
  <2>7. t.entries = p /\ t.used = new /\ t.code = "ok"
    BY DEF Store
  <2> HIDE DEF t, p, new
  <2> QED
    BY <1>5, <2>1, <2>2, <2>3, <2>5, <2>6, <2>7 DEF Balanced
<1>8. CommitWrite(s, k, v, ttl) =
        IF s.code # "ok" THEN s
        ELSE IF ~(k \in DOMAIN m) /\ Cardinality(DOMAIN m) >= MaxEntries THEN refused
        ELSE IF s.used < old THEN Fail(s, "state_internal_error")
        ELSE IF new > MaxTotalBytes THEN refused
        ELSE t
  BY DEF CommitWrite
<1>9. /\ t.code = "ok" /\ t.entries = p
      /\ refused.code = "state_capacity_exceeded" /\ refused.entries = m
  BY DEF Fail, Store
<1>10. Room(m, k, v) <=>
         (k \in DOMAIN m \/ ~(Cardinality(DOMAIN m) >= MaxEntries)) /\ ~(new > MaxTotalBytes)
  <2>1. Cardinality(DOMAIN m) \in Nat
    BY FS_CardinalityType DEF Balanced
  <2> HIDE DEF m, new, p
  <2> QED
    BY <1>2, <1>3, <1>4, <1>5, <2>1, LimitsAssumption DEF Room, LimitsAssumption
<1> HIDE DEF m, old, new, t, refused, p
<1>11. s.code = "ok" => CommitWrite(s, k, v, ttl) = IF Room(m, k, v) THEN t ELSE refused
  BY <1>5, <1>8, <1>10
<1>12. Balanced(CommitWrite(s, k, v, ttl))
  BY <1>5, <1>6, <1>7, <1>8
<1> QED
  BY <1>9, <1>11, <1>12 DEF m, p

----------------------------------------------------------------------------
(* The inductive invariant: the three invariants the runs check.  They are *)
(* inductive together and not one by one: the counter is right because no  *)
(* subtraction fails, which in turn needs the counter to be right.         *)
Inv == TypeOK /\ Accounting /\ NoInternalError

(* What a call finds is a balanced store. *)
LEMMA HereBalanced ==
  ASSUME Inv
  PROVE  /\ Balanced(Here)
         /\ Here.entries = entries
         /\ Here.code = "ok"
         /\ Expired \in SUBSET DOMAIN entries
BY DEF Inv, TypeOK, Accounting, Balanced, Here, Store, Expired

(* Both sweeps leave a balanced store that carries no error. *)
LEMMA SweepBalanced ==
  ASSUME Inv, NEW k
  PROVE  /\ Balanced(RemoveIfExpired(Here, k))
         /\ RemoveIfExpired(Here, k).code = "ok"
         /\ Balanced(RemoveAllExpired(Here))
         /\ RemoveAllExpired(Here).code = "ok"
         /\ RemoveAllExpired(Here).entries = Without(entries, Expired)
BY HereBalanced, RemoveBalanced DEF RemoveIfExpired, RemoveAllExpired

(* A balanced store may become the state of the next call. *)
LEMMA FinishInv ==
  ASSUME Inv, NEW s, Balanced(s), NEW op \in Ops, NEW k \in Keys,
         NEW code \in OkCodes, NEW value \in Values \cup {NoValue},
         Finish(s, op, k, code, value)
  PROVE  Inv'
<1>1. reply' \in Replies /\ reply'.code # "state_internal_error"
  BY DEF Finish, Reply, Replies, Balanced, OkCodes, ErrorCodes
<1>2. TypeOK'
  BY <1>1, BalancedIsMap DEF Inv, TypeOK, Finish, Balanced, Entries
<1>3. Accounting'
  BY DEF Finish, Accounting, Balanced
<1> QED
  BY <1>1, <1>2, <1>3 DEF Inv, NoInternalError

(* A valid TTL expires at a moment of the clock. *)
LEMMA ExpiryType ==
  ASSUME now \in Nat, NEW ttl \in TtlArgs
  PROVE  ExpiresAt(ttl) \in Nat \cup {Never}
BY SizesAssumption DEF SizesAssumption, ExpiresAt, TtlArgs

(* Init establishes the invariant. *)
LEMMA InitInv == Init => Inv
<1> SUFFICES ASSUME Init PROVE Inv
  OBVIOUS
<1>1. DOMAIN EmptyMap = {} /\ EmptyMap \in [{} -> Entries]
  BY DEF EmptyMap
<1>2. TypeOK
  BY <1>1 DEF Init, TypeOK
<1>3. Accounting
  BY <1>1, EmptyBytes, FS_EmptySet, LimitsAssumption
  DEF Init, Accounting, LimitsAssumption
<1> QED
  BY <1>2, <1>3 DEF Init, Inv, NoInternalError, NoReply, Reply

(* Every step keeps it. *)
LEMMA NextInv == Inv /\ [Next]_vars => Inv'
<1> SUFFICES ASSUME Inv, [Next]_vars PROVE Inv'
  OBVIOUS
<1> USE DEF Ops, WriteOps, OkCodes
<1>1. CASE Tick
  BY <1>1 DEF Tick, Inv, TypeOK, Accounting, NoInternalError
<1>2. ASSUME NEW k \in Keys, NEW op \in Ops, Reject(op, k) PROVE Inv'
  <2>1. reply' \in Replies /\ reply'.code # "state_internal_error"
    BY <1>2 DEF Reject, Reply, Replies, ErrorCodes
  <2> QED
    BY <1>2, <2>1 DEF Reject, Inv, TypeOK, Accounting, NoInternalError
<1>3. ASSUME NEW k \in Keys, Get(k) PROVE Inv'
  <2> DEFINE s == RemoveIfExpired(Here, k)
  <2>1. Balanced(s)
    BY SweepBalanced
  <2>2. CASE k \in DOMAIN s.entries
    <3>1. s.entries[k].value \in Values
      BY <2>1, <2>2 DEF Balanced, Entries
    <3>2. Finish(s, "get", k, "found", s.entries[k].value)
      BY <1>3, <2>2 DEF Get
    <3> HIDE DEF s
    <3> QED
      BY <2>1, <3>1, <3>2, FinishInv
  <2>3. CASE k \notin DOMAIN s.entries
    <3>1. Finish(s, "get", k, "missing", NoValue)
      BY <1>3, <2>3 DEF Get
    <3> HIDE DEF s
    <3> QED
      BY <2>1, <3>1, FinishInv
  <2> QED
    BY <2>2, <2>3
<1>4. ASSUME NEW k \in Keys, Take(k) PROVE Inv'
  <2> DEFINE s == RemoveIfExpired(Here, k)
  <2>1. Balanced(s) /\ s.code = "ok"
    BY SweepBalanced
  <2>2. CASE k \in DOMAIN s.entries
    <3>1. s.entries[k].value \in Values
      BY <2>1, <2>2 DEF Balanced, Entries
    <3>2. Balanced(Remove(s, {k}))
      BY <2>1, <2>2, RemoveBalanced
    <3>3. Finish(Remove(s, {k}), "take", k, "found", s.entries[k].value)
      BY <1>4, <2>1, <2>2 DEF Take
    <3> HIDE DEF s
    <3> QED
      BY <3>1, <3>2, <3>3, FinishInv
  <2>3. CASE k \notin DOMAIN s.entries
    <3>1. Finish(s, "take", k, "missing", NoValue)
      BY <1>4, <2>3 DEF Take
    <3> HIDE DEF s
    <3> QED
      BY <2>1, <3>1, FinishInv
  <2> QED
    BY <2>2, <2>3
<1>5. ASSUME NEW k \in Keys, NEW v \in Values, NEW ttl \in TtlArgs,
             ValidWrite(k, v, ttl)
      PROVE  Balanced(CommitWrite(RemoveAllExpired(Here), k, v, ttl))
  <2>1. ExpiresAt(ttl) \in Nat \cup {Never}
    BY ExpiryType DEF Inv, TypeOK
  <2>2. Balanced(RemoveAllExpired(Here)) /\ ValidKey(k) /\ ValidValue(v)
    BY <1>5, SweepBalanced DEF ValidWrite
  <2> QED
    BY <2>1, <2>2, CommitBalanced
<1>6. ASSUME NEW k \in Keys, NEW v \in Values, NEW ttl \in TtlArgs, Set(k, v, ttl)
      PROVE  Inv'
  <2>1. /\ ValidWrite(k, v, ttl)
        /\ Finish(CommitWrite(RemoveAllExpired(Here), k, v, ttl),
                  "set", k, "ok", NoValue)
    BY <1>6 DEF Set
  <2> QED
    BY <1>5, <2>1, FinishInv
<1>7. ASSUME NEW k \in Keys, NEW v \in Values, NEW ttl \in TtlArgs,
             SetIfAbsent(k, v, ttl)
      PROVE  Inv'
  <2> DEFINE s == RemoveAllExpired(Here)
  <2>1. Balanced(s) /\ ValidWrite(k, v, ttl)
    BY <1>7, SweepBalanced DEF SetIfAbsent
  <2>2. \/ Finish(s, "setIfAbsent", k, "kept", NoValue)
        \/ Finish(CommitWrite(s, k, v, ttl), "setIfAbsent", k, "stored", NoValue)
    BY <1>7 DEF SetIfAbsent
  <2>3. Balanced(CommitWrite(s, k, v, ttl))
    BY <1>5, <2>1
  <2> HIDE DEF s
  <2> QED
    BY <2>1, <2>2, <2>3, FinishInv
<1>8. CASE UNCHANGED vars
  BY <1>8 DEF vars, Inv, TypeOK, Accounting, NoInternalError
<1> QED
  BY <1>1, <1>2, <1>3, <1>4, <1>6, <1>7, <1>8 DEF Next

(* The inductive invariant holds of every behaviour of the store. *)
LEMMA StoreInvariant == Spec => []Inv
BY InitInv, NextInv, PTL DEF Spec

(* The store's state is well typed: only valid keys and values are in it.  *)
THEOREM StoreTyped == Spec => []TypeOK
<1>1. Inv => TypeOK
  BY DEF Inv
<1> QED
  BY <1>1, StoreInvariant, PTL

(* The counter is the size of the map and both limits are kept, for any    *)
(* keys, values, sizes and limits, however calls and expiry interleave.    *)
THEOREM StoreAccounting == Spec => []Accounting
<1>1. Inv => Accounting
  BY DEF Inv
<1> QED
  BY <1>1, StoreInvariant, PTL

(* No checked_sub ever fails: the internal error is unreachable. *)
THEOREM StoreNeverFailsInside == Spec => []NoInternalError
<1>1. Inv => NoInternalError
  BY DEF Inv
<1> QED
  BY <1>1, StoreInvariant, PTL

----------------------------------------------------------------------------
(***************************************************************************)
(* The lazily swept store implements the map of live entries (LiveStore).  *)
(*                                                                         *)
(* Live forgets the garbage.  A call maps to the abstract call of the same *)
(* name because a sweep removes garbage only, because what is left after   *)
(* the sweep has the size of the live map, so a write fits in the one      *)
(* exactly when it fits in the other, and because a valid TTL is at least  *)
(* one tick, so that what was just written is alive.                       *)
(***************************************************************************)

(* The abstract store's words for maps and replies mean the same. *)
LEMMA SameWords ==
  /\ \A S : Promise!Cardinality(S) = Cardinality(S)
  /\ \A m : Promise!Bytes(m) = Bytes(m)
  /\ \A m, k, e : Promise!Put(m, k, e) = Put(m, k, e)
  /\ \A m, gone : Promise!Without(m, gone) = Without(m, gone)
  /\ \A k, v : Promise!EntryCost(k, v) = EntryCost(k, v)
  /\ \A op, k, code, v : Promise!Reply(op, k, code, v) = Reply(op, k, code, v)
  /\ Promise!EmptyMap = EmptyMap
  /\ Promise!NoReply = NoReply
  /\ Promise!Ops = Ops
  /\ Promise!TtlArgs = TtlArgs
BY DEF Promise!Bytes, Promise!Put, Promise!Without, Promise!EntryCost, Promise!Reply,
       Promise!EmptyMap, Promise!NoReply, Promise!Ops, Promise!TtlArgs,
       Promise!Footprint, Promise!EntryBytes, Promise!Restrict,
       Bytes, Put, Without, EntryCost, Reply, EmptyMap, NoReply, Ops, TtlArgs,
       Footprint, EntryBytes, Restrict, Cardinality, Promise!Cardinality

----------------------------------------------------------------------------
(* Two maps with the same keys and values have the same size. *)
LEMMA SameBytes ==
  ASSUME NEW a, NEW b, DOMAIN a = DOMAIN b,
         \A k \in DOMAIN a : a[k].value = b[k].value
  PROVE  Bytes(a) = Bytes(b)
<1>1. \A k \in DOMAIN a : EntryBytes(a, k) = EntryBytes(b, k)
  BY DEF EntryBytes
<1> QED
  BY <1>1 DEF Bytes, Footprint

(* What a Script sees of an entry. *)
View(e) ==
  [value |-> e.value,
   left  |-> IF e.expires_at = Never THEN Never ELSE e.expires_at - now]

(* The live map, key by key. *)
LEMMA LiveByKey ==
  /\ DOMAIN Live = DOMAIN entries \ Expired
  /\ Live = [k \in DOMAIN entries \ Expired |-> View(entries[k])]
  /\ \A k \in DOMAIN Live : Live[k].value = entries[k].value
BY DEF Live, View

(* The swept store holds the live entries, and is as large as they are. *)
LEMMA SweptIsLive ==
  /\ DOMAIN Without(entries, Expired) = DOMAIN Live
  /\ \A k : Bytes(Without(Without(entries, Expired), {k})) =
             Bytes(Without(Live, {k}))
<1>1. DOMAIN Without(entries, Expired) = DOMAIN Live
  BY LiveByKey DEF Without, Restrict
<1>2. ASSUME NEW k
      PROVE  Bytes(Without(Without(entries, Expired), {k})) = Bytes(Without(Live, {k}))
  <2> DEFINE a == Without(Without(entries, Expired), {k})
             b == Without(Live, {k})
  <2>1. DOMAIN a = DOMAIN b
    BY <1>1 DEF Without, Restrict
  <2>2. \A x \in DOMAIN a : a[x].value = b[x].value
    BY LiveByKey DEF Without, Restrict
  <2>3. Bytes(a) = Bytes(b)
    <3> HIDE DEF a, b
    <3> QED
      BY <2>1, <2>2, SameBytes
  <2> QED
    BY <2>3
<1> QED
  BY <1>1, <1>2

(* A sweep of garbage is invisible. *)
LEMMA SweepInvisible ==
  ASSUME NEW gone \in SUBSET Expired, now' = now,
         entries' = Without(entries, gone)
  PROVE  Live' = Live
<1>1. DOMAIN entries' = DOMAIN entries \ gone
  BY DEF Without, Restrict
<1>2. \A k \in DOMAIN entries' : entries'[k] = entries[k]
  BY DEF Without, Restrict
<1>3. DOMAIN entries' \ Expired' = DOMAIN entries \ Expired
  BY <1>1, <1>2 DEF Expired, IsExpired
<1>4. \A k \in DOMAIN entries \ Expired : entries'[k] = entries[k]
  BY <1>1, <1>2, <1>3
<1> QED
  BY <1>3, <1>4 DEF Live

(* Removing a live key after the sweep removes it from the live map. *)
LEMMA RemovalVisible ==
  ASSUME NEW gone \in SUBSET Expired, NEW k, now' = now,
         entries' = Without(Without(entries, gone), {k})
  PROVE  Live' = Without(Live, {k})
<1>1. DOMAIN entries' = (DOMAIN entries \ gone) \ {k}
  BY DEF Without, Restrict
<1>2. \A x \in DOMAIN entries' : entries'[x] = entries[x]
  BY DEF Without, Restrict
<1>3. DOMAIN entries' \ Expired' = (DOMAIN entries \ Expired) \ {k}
  BY <1>1, <1>2 DEF Expired, IsExpired
<1>4. \A x \in (DOMAIN entries \ Expired) \ {k} : entries'[x] = entries[x]
  BY <1>1, <1>2, <1>3
<1>5. Live' = [x \in (DOMAIN entries \ Expired) \ {k} |-> Live[x]]
  BY <1>3, <1>4 DEF Live
<1>6. DOMAIN Live \ {k} = (DOMAIN entries \ Expired) \ {k}
  BY LiveByKey
<1> QED
  BY <1>5, <1>6 DEF Without, Restrict

(* A stored entry is alive and has its whole TTL left. *)
LEMMA StoreVisible ==
  ASSUME now \in Nat, now' = now,
         NEW k, NEW v, NEW ttl \in TtlArgs, ValidTtl(ttl),
         entries' = Put(Without(entries, Expired), k,
                        [value |-> v, expires_at |-> ExpiresAt(ttl)])
  PROVE  Live' = Put(Live, k, [value |-> v, left |-> Promise!TimeLeft(ttl)])
<1> DEFINE e == [value |-> v, expires_at |-> ExpiresAt(ttl)]
           fresh == [value |-> v, left |-> Promise!TimeLeft(ttl)]
<1>1. DOMAIN entries' = (DOMAIN entries \ Expired) \cup {k}
  BY DEF Without, Restrict, Put
<1>2. /\ entries'[k] = e
      /\ \A x \in (DOMAIN entries \ Expired) \ {k} : entries'[x] = entries[x]
  BY DEF Without, Restrict, Put
<1>3. ttl \in Nat \ {0} \/ ttl = NoTtl
  BY LimitsAssumption DEF ValidTtl, LimitsAssumption
<1>4. ~IsExpired(e) /\ View(e) = fresh
  BY <1>3, SizesAssumption, ClockAssumption
  DEF IsExpired, View, ExpiresAt, Promise!TimeLeft, SizesAssumption, ClockAssumption
<1>5. \A x : IsExpired(x)' <=> IsExpired(x)
  BY DEF IsExpired
<1>6. DOMAIN entries' \ Expired' = (DOMAIN entries \ Expired) \cup {k}
  BY <1>1, <1>2, <1>4 DEF Expired, IsExpired
<1>7. Live' = [x \in (DOMAIN entries \ Expired) \cup {k} |->
                 IF x = k THEN fresh ELSE Live[x]]
  BY <1>2, <1>4, <1>6 DEF Live, View
<1>8. DOMAIN Live = DOMAIN entries \ Expired
  BY LiveByKey
<1> QED
  BY <1>7, <1>8 DEF Put

(* A write fits into the swept store when it fits among the live entries.  *)
LEMMA RoomIsFits ==
  ASSUME Inv, NEW k \in Keys, NEW v \in Values
  PROVE  Room(Without(entries, Expired), k, v) <=> Promise!Fits(k, v)
<1>1. DOMAIN Without(entries, Expired) = DOMAIN Live
  BY SweptIsLive
<1>2. Bytes(Without(Without(entries, Expired), {k})) = Bytes(Without(Live, {k}))
  BY SweptIsLive
<1>3. IsFiniteSet(DOMAIN Live)
  BY LiveByKey, FS_Subset DEF Inv, Accounting
<1>4. /\ Cardinality(DOMAIN Live) \in Nat
      /\ k \notin DOMAIN Live =>
           Cardinality(DOMAIN Live \cup {k}) = Cardinality(DOMAIN Live) + 1
  BY <1>3, FS_CardinalityType, FS_AddElement
<1>5. k \notin DOMAIN Live =>
        (Cardinality(DOMAIN Live) < MaxEntries <=>
           Cardinality(DOMAIN Live \cup {k}) <= MaxEntries)
  BY <1>4, LimitsAssumption DEF LimitsAssumption
<1> QED
  BY <1>1, <1>2, <1>5, SameWords DEF Room, Promise!Fits

(* Both write operations: the entry becomes visible or nothing changes. *)
LEMMA WriteVisible ==
  ASSUME Inv, NEW k \in Keys, NEW v \in Values, NEW ttl \in TtlArgs,
         ValidWrite(k, v, ttl), NEW op, NEW done,
         Finish(CommitWrite(RemoveAllExpired(Here), k, v, ttl), op, k, done, NoValue)
  PROVE  Promise!Write(op, k, v, ttl, done)
<1> DEFINE s == RemoveAllExpired(Here)
           t == CommitWrite(s, k, v, ttl)
           e == [value |-> v, expires_at |-> ExpiresAt(ttl)]
<1>1. Balanced(s) /\ s.code = "ok" /\ s.entries = Without(entries, Expired)
  BY SweepBalanced
<1>2. ExpiresAt(ttl) \in Nat \cup {Never} /\ now \in Nat
  BY ExpiryType DEF Inv, TypeOK
<1>3. ValidKey(k) /\ ValidValue(v) /\ ValidTtl(ttl)
  BY DEF ValidWrite
<1>4. /\ Room(s.entries, k, v) => t.code = "ok" /\ t.entries = Put(s.entries, k, e)
      /\ ~Room(s.entries, k, v) =>
           t.code = "state_capacity_exceeded" /\ t.entries = s.entries
  <2> HIDE DEF s
  <2> QED
    BY <1>1, <1>2, <1>3, CommitBalanced
<1>5. /\ entries' = t.entries /\ now' = now
      /\ reply' = IF t.code = "ok" THEN Reply(op, k, done, NoValue)
                                   ELSE Reply(op, k, t.code, NoValue)
  BY DEF Finish
<1> HIDE DEF s, t
<1>6. CASE Room(s.entries, k, v)
  <2>1. Live' = Put(Live, k, [value |-> v, left |-> Promise!TimeLeft(ttl)])
    BY <1>1, <1>2, <1>3, <1>4, <1>5, <1>6, StoreVisible
  <2>2. Promise!Fits(k, v)
    BY <1>1, <1>6, RoomIsFits
  <2> QED
    BY <1>4, <1>5, <1>6, <2>1, <2>2, SameWords DEF Promise!Write, Promise!Stored
<1>7. CASE ~Room(s.entries, k, v)
  <2>1. Live' = Live
    BY <1>1, <1>4, <1>5, <1>7, SweepInvisible
  <2>2. ~Promise!Fits(k, v)
    BY <1>1, <1>7, RoomIsFits
  <2> QED
    BY <1>4, <1>5, <1>7, <2>1, <2>2, SameWords DEF Promise!Write
<1> QED
  BY <1>6, <1>7

(* What a read that swept its key finds there is what is alive there. *)
LEMMA ReadSeesLive ==
  ASSUME Inv, NEW k
  PROVE  LET s    == RemoveIfExpired(Here, k)
             gone == Expired \cap {k}
         IN /\ s.entries = Without(entries, gone) /\ s.code = "ok"
            /\ Balanced(s)
            /\ k \in DOMAIN s.entries <=> k \in DOMAIN Live
            /\ k \in DOMAIN Live => s.entries[k].value = Live[k].value
<1> DEFINE s == RemoveIfExpired(Here, k)
           gone == Expired \cap {k}
<1>1. s.entries = Without(entries, gone) /\ s.code = "ok" /\ Balanced(s)
  BY HereBalanced, RemoveBalanced DEF RemoveIfExpired
<1>2. k \in DOMAIN s.entries <=> k \in DOMAIN Live
  BY <1>1, LiveByKey DEF Without, Restrict
<1>3. k \in DOMAIN Live => s.entries[k].value = Live[k].value
  BY <1>1, LiveByKey DEF Without, Restrict
<1> QED
  BY <1>1, <1>2, <1>3

(* The clock moves the live map as the abstract store says. *)
LEMMA TickVisible == Inv /\ Tick => Promise!Tick
<1> SUFFICES ASSUME Inv, Tick PROVE Promise!Tick
  OBVIOUS
<1> DEFINE L == DOMAIN entries \ Expired
<1>1. now \in Nat /\ now' = now + 1 /\ entries' = entries /\ reply' = reply
  BY DEF Tick, Inv, TypeOK
<1>2. \A k \in DOMAIN entries : entries[k].expires_at \in Nat \cup {Never}
  BY DEF Inv, TypeOK, Entries
<1>3. /\ DOMAIN Live = L
      /\ \A k \in L : Live[k] = View(entries[k])
  BY LiveByKey
<1>4. \A k \in DOMAIN entries : k \notin Expired' <=> k \in L /\ Live[k].left # 1
  BY <1>1, <1>2, <1>3, ClockAssumption
  DEF Expired, IsExpired, View, ClockAssumption
<1>5. DOMAIN entries' \ Expired' = {k \in DOMAIN Live : Live[k].left # 1}
  BY <1>1, <1>3, <1>4
<1>6. \A k \in L :
        [Live[k] EXCEPT !.left = IF @ = Never THEN @ ELSE @ - 1] =
          [value |-> entries[k].value,
           left  |-> IF entries[k].expires_at = Never THEN Never
                     ELSE entries[k].expires_at - now']
  BY <1>1, <1>2, <1>3, ClockAssumption DEF View, ClockAssumption
<1>7. Live' = [k \in {x \in DOMAIN Live : Live[x].left # 1} |->
                 [Live[k] EXCEPT !.left = IF @ = Never THEN @ ELSE @ - 1]]
  BY <1>1, <1>3, <1>5, <1>6 DEF Live
<1> QED
  BY <1>1, <1>7 DEF Promise!Tick

(* Every step of the store is a step of the abstract store or a stutter. *)
LEMMA StepImplements == Inv /\ [Next]_vars => [Promise!Next]_(Promise!vars)
<1> SUFFICES ASSUME Inv, [Next]_vars PROVE [Promise!Next]_(Promise!vars)
  OBVIOUS
<1>1. CASE Tick
  BY <1>1, TickVisible DEF Promise!Next
<1>2. ASSUME NEW k \in Keys, NEW op \in Ops, Reject(op, k) PROVE Promise!Next
  <2>1. Live' = Live
    BY <1>2 DEF Reject, Live, Expired, IsExpired
  <2> QED
    BY <1>2, <2>1, SameWords DEF Reject, Promise!Reject, Promise!Next
<1>3. ASSUME NEW k \in Keys, Get(k) PROVE Promise!Next
  <2> DEFINE s == RemoveIfExpired(Here, k)
  <2>1. /\ s.entries = Without(entries, Expired \cap {k}) /\ s.code = "ok"
        /\ k \in DOMAIN s.entries <=> k \in DOMAIN Live
        /\ k \in DOMAIN Live => s.entries[k].value = Live[k].value
    BY ReadSeesLive
  <2>2. /\ entries' = s.entries /\ now' = now
        /\ reply' = IF k \in DOMAIN Live THEN Reply("get", k, "found", Live[k].value)
                                         ELSE Reply("get", k, "missing", NoValue)
    BY <1>3, <2>1 DEF Get, Finish
  <2>3. Live' = Live
    BY <2>1, <2>2, SweepInvisible
  <2> QED
    BY <2>2, <2>3, SameWords DEF Promise!Get, Promise!Next
<1>4. ASSUME NEW k \in Keys, Take(k) PROVE Promise!Next
  <2> DEFINE s == RemoveIfExpired(Here, k)
             gone == Expired \cap {k}
  <2>1. /\ s.entries = Without(entries, gone) /\ s.code = "ok" /\ Balanced(s)
        /\ k \in DOMAIN s.entries <=> k \in DOMAIN Live
        /\ k \in DOMAIN Live => s.entries[k].value = Live[k].value
    BY ReadSeesLive
  <2>2. CASE k \in DOMAIN Live
    <3>1. Remove(s, {k}).entries = Without(s.entries, {k}) /\ Remove(s, {k}).code = "ok"
      BY <2>1, <2>2, RemoveBalanced
    <3>2. /\ entries' = Without(Without(entries, gone), {k}) /\ now' = now
          /\ reply' = Reply("take", k, "found", Live[k].value)
      BY <1>4, <2>1, <2>2, <3>1 DEF Take, Finish
    <3>3. Live' = Without(Live, {k})
      BY <3>2, RemovalVisible
    <3> QED
      BY <2>2, <3>2, <3>3, SameWords DEF Promise!Take, Promise!Next
  <2>3. CASE k \notin DOMAIN Live
    <3>1. /\ entries' = Without(entries, gone) /\ now' = now
          /\ reply' = Reply("take", k, "missing", NoValue)
      BY <1>4, <2>1, <2>3 DEF Take, Finish
    <3>2. Live' = Live
      BY <3>1, SweepInvisible
    <3>3. Live = Without(Live, {k})
      BY <2>3, LiveByKey DEF Without, Restrict
    <3> QED
      BY <2>3, <3>1, <3>2, <3>3, SameWords DEF Promise!Take, Promise!Next
  <2> QED
    BY <2>2, <2>3
<1>5. ASSUME NEW k \in Keys, NEW v \in Values, NEW ttl \in TtlArgs, Set(k, v, ttl)
      PROVE  Promise!Next
  <2>1. Promise!Write("set", k, v, ttl, "ok")
    BY <1>5, WriteVisible DEF Set
  <2> QED
    BY <2>1, SameWords DEF Promise!Set, Promise!Next
<1>6. ASSUME NEW k \in Keys, NEW v \in Values, NEW ttl \in TtlArgs,
             SetIfAbsent(k, v, ttl)
      PROVE  Promise!Next
  <2> DEFINE s == RemoveAllExpired(Here)
  <2>1. s.entries = Without(entries, Expired) /\ s.code = "ok"
    BY SweepBalanced
  <2>2. k \in DOMAIN s.entries <=> k \in DOMAIN Live
    BY <2>1, SweptIsLive
  <2>3. CASE k \in DOMAIN Live
    <3>1. /\ entries' = Without(entries, Expired) /\ now' = now
          /\ reply' = Reply("setIfAbsent", k, "kept", NoValue)
      BY <1>6, <2>1, <2>2, <2>3 DEF SetIfAbsent, Finish
    <3>2. Live' = Live
      BY <3>1, SweepInvisible
    <3> QED
      BY <2>3, <3>1, <3>2, SameWords DEF Promise!SetIfAbsent, Promise!Next
  <2>4. CASE k \notin DOMAIN Live
    <3>1. Promise!Write("setIfAbsent", k, v, ttl, "stored")
      BY <1>6, <2>2, <2>4, WriteVisible DEF SetIfAbsent
    <3> QED
      BY <2>4, <3>1, SameWords DEF Promise!SetIfAbsent, Promise!Next
  <2> QED
    BY <2>3, <2>4
<1>7. CASE UNCHANGED vars
  BY <1>7 DEF vars, Promise!vars, Live, Expired, IsExpired
<1> QED
  BY <1>1, <1>2, <1>3, <1>4, <1>5, <1>6, <1>7 DEF Next

(* The empty store is the empty abstract store. *)
LEMMA InitImplements == Init => Promise!Init
<1> SUFFICES ASSUME Init PROVE Promise!Init
  OBVIOUS
<1>1. DOMAIN entries = {} /\ DOMAIN EmptyMap = {}
  BY DEF Init, EmptyMap
<1>2. Live = EmptyMap
  BY <1>1 DEF Live, EmptyMap, Expired
<1> QED
  BY <1>2, SameWords DEF Init, Promise!Init

(***************************************************************************)
(* Shared state as a Script sees it is a map of live entries: no behaviour *)
(* of the store shows that expired entries linger, are swept lazily and    *)
(* are counted until then.                                                 *)
(***************************************************************************)
THEOREM StoreImplementsLiveStore == Spec => ImplementsLiveStore
BY StoreInvariant, InitImplements, StepImplements, PTL
DEF Spec, ImplementsLiveStore, Promise!Spec
=============================================================================
