------------------------------- MODULE Ranges -------------------------------
(***************************************************************************)
(* Which part of a file a Range header asks for: range_request in          *)
(* src/src/server.rs and decide_range in src/src/files.rs.  A header value *)
(* is what the parser cuts it into: unit=first-last.                       *)
(***************************************************************************)
EXTENDS Integers

CONSTANT TopIndex               \* the largest index a u64 holds

ASSUME TopIndexAssumption == TopIndex \in Nat

Blank == -1                     \* no character at all
Junk  == -2                     \* something else than digits

Tokens == {Blank, Junk} \cup 0..TopIndex + 1

RangeValues ==
  [unit : {"bytes", "other", "missing"}, comma : BOOLEAN, dash : BOOLEAN,
   first : Tokens, last : Tokens]

(* The headers of a request: how many Range lines, whether the first is    *)
(* text, and what it says.                                                 *)
RangeHeaders == [ifRange : BOOLEAN, lines : 0..2, text : BOOLEAN, value : RangeValues]

(* Repeated lines and bytes that are no text can never be satisfied. *)
RangeRequest(header) ==
  IF header.ifRange \/ header.lines = 0 THEN "none"
  ELSE IF header.lines > 1 \/ ~header.text THEN "unusable"
  ELSE "single"

----------------------------------------------------------------------------
Full == [kind |-> "full"]
Unsatisfiable == [kind |-> "unsatisfiable"]
Partial(start, len) == [kind |-> "partial", start |-> start, len |-> len]

Smaller(a, b) == IF a < b THEN a ELSE b

IsIndex(token) == token \in 0..TopIndex         \* parse_index(token).is_some()

SuffixRange(size, suffix) ==
  IF ~IsIndex(suffix) \/ suffix = 0 THEN Unsatisfiable
  ELSE Partial(size - Smaller(suffix, size), Smaller(suffix, size))

UnclampedRange(size, first, last) ==    \* slip: the end is not cut to the file
  IF \/ ~IsIndex(first) \/ first >= size
     \/ last # Blank /\ (~IsIndex(last) \/ last < first)
  THEN Unsatisfiable
  ELSE Partial(first, (IF last = Blank THEN size - 1 ELSE last) - first + 1)

BoundedRange(size, first, last) ==
  IF \/ ~IsIndex(first) \/ first >= size
     \/ last # Blank /\ (~IsIndex(last) \/ last < first)
  THEN Unsatisfiable
  ELSE LET end == IF last = Blank THEN size - 1 ELSE Smaller(last, size - 1)
       IN Partial(first, end - first + 1)

(* decide_range, for a header that has a value. *)
DecideRange(size, value) ==
  IF value.unit # "bytes" \/ value.comma \/ size = 0 \/ ~value.dash
  THEN Unsatisfiable
  ELSE IF value.first = Blank THEN SuffixRange(size, value.last)
                              ELSE BoundedRange(size, value.first, value.last)

(* The decision map_file_response acts on. *)
Decision(size, header) ==
  CASE RangeRequest(header) = "none"     -> Full
    [] RangeRequest(header) = "unusable" -> Unsatisfiable
    [] OTHER                             -> DecideRange(size, header.value)

----------------------------------------------------------------------------
(* What the value says, without arithmetic: the positions of the file that *)
(* it names, if it is one range of bytes whose indexes can be read.        *)
WellFormed(value) ==
  /\ value.unit = "bytes" /\ ~value.comma /\ value.dash
  /\ value.first = Blank => IsIndex(value.last)
  /\ value.first # Blank => IsIndex(value.first) /\ (value.last = Blank \/ IsIndex(value.last))
  /\ value.first # Blank /\ value.last # Blank => value.first <= value.last

Named(size, value) ==
  {p \in 0..size - 1 :
     IF value.first = Blank THEN size <= p + value.last
     ELSE value.first <= p /\ (value.last = Blank \/ p <= value.last)}

(* 206 is answered exactly when there is something to send, and it sends   *)
(* exactly that.                                                           *)
RangeIsExact(size, value) ==
  LET decision == DecideRange(size, value)
      wanted   == IF WellFormed(value) THEN Named(size, value) ELSE {}
  IN IF wanted = {} THEN decision = Unsatisfiable
     ELSE /\ decision.kind = "partial"
          /\ decision.start..decision.start + decision.len - 1 = wanted
=============================================================================
