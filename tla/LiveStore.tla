----------------------------- MODULE LiveStore -----------------------------
(***************************************************************************)
(* What Shared state promises a Route script: a map from keys to values    *)
(* that live for the rest of their TTL and are gone the instant it ends.   *)
(* There is no garbage, no sweep and no byte counter.  A write fits when   *)
(* the entries alive at that moment leave room for it.                     *)
(***************************************************************************)
EXTENDS StateLimits

CONSTANT Forever    \* the time left to an entry stored without a TTL

VARIABLES
  live,     \* the live entries: key -> [value, left], left in clock ticks
  reply     \* the reply to the last call

vars == <<live, reply>>

TimeLeft(ttl) == IF ttl = NoTtl THEN Forever ELSE ttl

(* The entry k := v fits next to the other live entries. *)
Fits(k, v) ==
  /\ Cardinality(DOMAIN live \cup {k}) <= MaxEntries \/ k \in DOMAIN live
  /\ Bytes(Without(live, {k})) + EntryCost(k, v) <= MaxTotalBytes

Stored(k, v, ttl) == Put(live, k, [value |-> v, left |-> TimeLeft(ttl)])

Init == live = EmptyMap /\ reply = NoReply

Reject(op, k) ==
  /\ reply' = Reply(op, k, "state_invalid_input", NoValue)
  /\ UNCHANGED live

Get(k) ==
  /\ reply' = IF k \in DOMAIN live
              THEN Reply("get", k, "found", live[k].value)
              ELSE Reply("get", k, "missing", NoValue)
  /\ UNCHANGED live

Take(k) ==
  /\ reply' = IF k \in DOMAIN live
              THEN Reply("take", k, "found", live[k].value)
              ELSE Reply("take", k, "missing", NoValue)
  /\ live' = Without(live, {k})

Write(op, k, v, ttl, done) ==
  \/ /\ reply' = Reply(op, k, done, NoValue)
     /\ Fits(k, v)
     /\ live' = Stored(k, v, ttl)
  \/ /\ reply' = Reply(op, k, "state_capacity_exceeded", NoValue)
     /\ ~Fits(k, v)
     /\ UNCHANGED live

Set(k, v, ttl) == Write("set", k, v, ttl, "ok")

SetIfAbsent(k, v, ttl) ==
  \/ /\ k \notin DOMAIN live
     /\ Write("setIfAbsent", k, v, ttl, "stored")
  \/ /\ k \in DOMAIN live
     /\ reply' = Reply("setIfAbsent", k, "kept", NoValue)
     /\ UNCHANGED live

(* One tick of the clock ends every entry that had one tick left. *)
Tick ==
  /\ live' = [k \in {x \in DOMAIN live : live[x].left # 1} |->
                [live[k] EXCEPT !.left = IF @ = Forever THEN @ ELSE @ - 1]]
  /\ UNCHANGED reply

Next ==
  \/ Tick
  \/ \E k \in Keys :
       \/ \E op \in Ops : Reject(op, k)
       \/ Get(k)
       \/ Take(k)
       \/ \E v \in Values, ttl \in TtlArgs : Set(k, v, ttl) \/ SetIfAbsent(k, v, ttl)

Spec == Init /\ [][Next]_vars
=============================================================================
