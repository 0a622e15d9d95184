------------------------------ MODULE Delivery ------------------------------
(***************************************************************************)
(* What a streamed response promises its client: the chunks of the source, *)
(* each once and in order, and an end the client can believe.  The body    *)
(* ends normally only after everything it announced, or, without an        *)
(* announcement, after the whole of a source that did not fail.            *)
(***************************************************************************)
EXTENDS Integers, Sequences

VARIABLES
  source,     \* [size, fails]: the upstream body
  wanted,     \* how many chunks the response announces, -1 for no limit
  received,   \* the chunks the client has
  client      \* how the response looks to the client

vars == <<source, wanted, received, client>>

Init ==
  /\ source.size \in Nat /\ source.fails \in BOOLEAN
  /\ wanted \in Nat \cup {-1}
  /\ received = <<>>
  /\ client = "reading"

NextChunk ==
  /\ client = "reading"
  /\ Len(received) < source.size /\ Len(received) # wanted
  /\ received' = Append(received, Len(received) + 1)
  /\ UNCHANGED <<source, wanted, client>>

Complete ==
  /\ client = "reading"
  /\ \/ Len(received) = wanted
     \/ wanted = -1 /\ Len(received) = source.size /\ ~source.fails
  /\ client' = "complete"
  /\ UNCHANGED <<source, wanted, received>>

BreakOff ==
  /\ client = "reading"
  /\ client' \in {"truncated", "gone"}
  /\ UNCHANGED <<source, wanted, received>>

Next == NextChunk \/ Complete \/ BreakOff

Spec == Init /\ [][Next]_vars
=============================================================================
