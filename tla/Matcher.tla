------------------------------ MODULE Matcher ------------------------------
(***************************************************************************)
(* Which route answers a request, and with which parameters                *)
(* (src/src/matcher.rs).  A path is the sequence of what lies between its  *)
(* slashes, as it was sent; a segment is a name with or without a colon    *)
(* before it, and a name is a sequence of bytes.                           *)
(***************************************************************************)
EXTENDS Integers, SequencesExt

CONSTANT Names                  \* what lies between two slashes, colon aside

Byte == 0..255

NoName == <<>>

ASSUME NamesAssumption == NoName \in Names /\ Names \subseteq Seq(Byte)

Percent == 37
Plus    == 43
Colon   == 58

Segments == [colon : BOOLEAN, name : Names]

Segment(name) == [colon |-> FALSE, name |-> name]
Param(name)   == [colon |-> TRUE, name |-> name]

Nothing == Segment(NoName)

(* What parse_routes builds. *)
Tables == Seq([method : STRING, path : Seq(Segments)])

(* Doubled, leading and trailing slashes leave empty segments behind.      *)
(* kept[n] is what the first n segments come to.                           *)
Split(path) ==
  LET kept[n \in 0..Len(path)] ==
        IF n = 0 THEN <<>>
        ELSE IF path[n] = Nothing THEN kept[n - 1] ELSE Append(kept[n - 1], path[n])
  IN  kept[Len(path)]

(* match_segments: a parameter takes any segment, a bare colon none. *)
MatchSegments(pattern, segments) ==
  LET expected == Split(pattern)
  IN /\ Len(expected) = Len(segments)
     /\ \A i \in DOMAIN expected :
          IF expected[i].colon THEN expected[i].name # NoName
                               ELSE expected[i] = segments[i]

(* Hexadecimal digits, of either case.                                     *)
HexDigits == (48..57) \cup (65..70) \cup (97..102)

Digit(b) == IF b <= 57 THEN b - 48 ELSE IF b <= 70 THEN b - 55 ELSE b - 87

(* u8::from_str_radix(.., 16): two digits, or a plus sign and one.         *)
IsHex(a, b) == b \in HexDigits /\ (a \in HexDigits \/ a = Plus)

HexValue(a, b) == (IF a = Plus THEN 0 ELSE 16 * Digit(a)) + Digit(b)

EndsEarly(bytes, n) ==          \* slip: an escape at the very end is missed
  /\ bytes[n] = Percent /\ n + 2 < Len(bytes)
  /\ IsHex(bytes[n + 1], bytes[n + 2])

IsEscape(bytes, n) ==
  /\ bytes[n] = Percent /\ n + 2 <= Len(bytes)
  /\ IsHex(bytes[n + 1], bytes[n + 2])

(***************************************************************************)
(* percent_decode: a percent sign that begins no escape stands for itself. *)
(* decoded[n] is what the loop has made of the first n bytes, and how many *)
(* of the next belong to an escape it has read.  The result is given to    *)
(* from_utf8_lossy (external), which leaves what is UTF-8 as it is and     *)
(* puts U+FFFD for the rest.                                               *)
(***************************************************************************)
PercentDecode(bytes) ==
  LET decoded[n \in 0..Len(bytes)] ==
        IF n = 0 THEN [out |-> <<>>, skip |-> 0]
        ELSE LET last == decoded[n - 1]
             IN IF last.skip > 0 THEN [out |-> last.out, skip |-> last.skip - 1]
                ELSE IF IsEscape(bytes, n)
                     THEN [out |-> Append(last.out, HexValue(bytes[n + 1], bytes[n + 2])), skip |-> 2]
                     ELSE [out |-> Append(last.out, bytes[n]), skip |-> 0]
  IN  decoded[Len(bytes)].out

(* A segment of a path as it was sent. *)
Text(segment) == IF segment.colon THEN <<Colon>> \o segment.name ELSE segment.name

CapturedRaw(pattern, segments) ==       \* slip: parameters are not decoded
  LET expected == Split(pattern)
      At(name) == {i \in DOMAIN expected : expected[i] = Param(name)}
  IN [name \in {expected[i].name : i \in {j \in DOMAIN expected : expected[j].colon}} |->
        Text(segments[Max(At(name))])]

(* What a match captures; of two parameters with one name the later stays. *)
Captured(pattern, segments) ==
  LET expected == Split(pattern)
      At(name) == {i \in DOMAIN expected : expected[i] = Param(name)}
  IN [name \in {expected[i].name : i \in {j \in DOMAIN expected : expected[j].colon}} |->
        PercentDecode(Text(segments[Max(At(name))]))]

MatchMethodLater(routes, method, path) ==     \* slip: the first path decides
  LET segments == Split(path)
      first == SelectInSeq(routes, LAMBDA r : MatchSegments(r.path, segments))
  IN IF first # 0 /\ routes[first].method = method THEN first ELSE 0

(* match_route: the index of the first route that handles the request, or 0. *)
MatchRoute(routes, method, path) ==
  LET segments == Split(path)
  IN SelectInSeq(routes, LAMBDA r : r.method = method /\ MatchSegments(r.path, segments))

(* allowed_methods: every method once, in the order of declaration.  The   *)
(* first n routes leave listed[n].                                         *)
AllowedMethods(routes, path) ==
  LET segments == Split(path)
      listed[n \in 0..Len(routes)] ==
        IF n = 0 THEN <<>>
        ELSE IF /\ MatchSegments(routes[n].path, segments)
                /\ ~Contains(listed[n - 1], routes[n].method)
             THEN Append(listed[n - 1], routes[n].method)
             ELSE listed[n - 1]
  IN  listed[Len(routes)]

----------------------------------------------------------------------------
(* Route i answers a request of this method. *)
Answers(routes, i, method, path) ==
  routes[i].method = method /\ MatchSegments(routes[i].path, Split(path))

NamesAreDistinct(pattern) ==
  \A i, j \in DOMAIN pattern : pattern[i].colon /\ pattern[i] = pattern[j] => i = j

(* A byte as clients write it when they escape it. *)
HexDigit(d) == IF d < 10 THEN d + 48 ELSE d + 55

Escape(b) == <<Percent, HexDigit(b \div 16), HexDigit(b % 16)>>

(***************************************************************************)
(* Escaped or not, a byte comes through as itself, whatever follows; only  *)
(* the percent sign has to be escaped.  From the end to the beginning of a *)
(* text this says what percent_decode makes of it, however much of it a    *)
(* client escapes.                                                         *)
(***************************************************************************)
DecodingIsRight(b, rest) ==
  /\ PercentDecode(<<>>) = <<>>
  /\ PercentDecode(Escape(b) \o rest) = <<b>> \o PercentDecode(rest)
  /\ b # Percent => PercentDecode(<<b>> \o rest) = <<b>> \o PercentDecode(rest)

(* The first route that handles a request is found; a name in its pattern  *)
(* met the same bytes, not decoded, and a parameter has the decoded text   *)
(* that stood in its place; none is found exactly when the methods of the  *)
(* path leave this one out; and these are in the order of declaration,     *)
(* hence each there once.                                                  *)
RouteIsRight(routes, method, path) ==
  LET found   == MatchRoute(routes, method, path)
      allowed == AllowedMethods(routes, path)
  IN /\ found # 0 <=> method \in ToSet(allowed)
     /\ found # 0 =>
          /\ found \in DOMAIN routes /\ Answers(routes, found, method, path)
          /\ \A i \in 1..found - 1 : ~Answers(routes, i, method, path)
          /\ LET pattern  == Split(routes[found].path)
                 segments == Split(path)
                 params   == Captured(routes[found].path, segments)
             IN \A i \in DOMAIN pattern :
                  IF ~pattern[i].colon THEN pattern[i] = segments[i]
                  ELSE NamesAreDistinct(pattern) =>
                         params[pattern[i].name] = PercentDecode(Text(segments[i]))
     /\ \A i, j \in DOMAIN allowed : i < j =>
          \E n \in DOMAIN routes :
            /\ Answers(routes, n, allowed[i], path)
            /\ \A m \in 1..n : ~Answers(routes, m, allowed[j], path)
     /\ found = MatchRoute(routes, method, <<Nothing>> \o path)
=============================================================================
