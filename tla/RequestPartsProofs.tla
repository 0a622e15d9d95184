------------------------ MODULE RequestPartsProofs ------------------------
(***************************************************************************)
(* Proofs about the parts a request is put together from: the routes       *)
(* (Matcher), the range of a file (Ranges) and its relay (FileRelay).  The *)
(* requests themselves are in UploadRequestProofs.                         *)
(*                                                                         *)
(* match_route and its kin are loops over sequences of any length, so what *)
(* they compute is shown by induction, which comes first: from the fact    *)
(* that every set of natural numbers that is not empty has a least element.*)
(* The relay keeps an account of the chunks it moves, preserved by every   *)
(* step, for files of any size and channels of any capacity.               *)
(***************************************************************************)
EXTENDS FileRelay, Matcher, Ranges, TLAPS, SequenceTheorems, WellFoundedInduction

(***************************************************************************)
(* A set of natural numbers that is not empty has a least element, so what *)
(* holds at 0 and is handed on holds for all of them.                      *)
(***************************************************************************)
LEMMA LeastNumber ==
  ASSUME NEW T \in SUBSET Nat, T # {}
  PROVE  \E m \in T : \A n \in T : m <= n
<1> DEFINE Less == {ss \in Nat \X Nat : ss[1] < ss[2]}
<1>1. IsWellFoundedOn(Less, Nat)
  BY NatLessThanWellFounded, Zenon DEF OpToRel
<1>2. ASSUME NEW x \in Nat, NEW y \in Nat, y < x
      PROVE  <<y, x>> \in Less
  BY <1>2
<1> HIDE DEF Less
<1>3. PICK x \in T : \A y \in T : ~(<<y, x>> \in Less)
  BY <1>1, WFMin, Zenon
<1>4. \A y \in T : ~(y < x)
  BY <1>2, <1>3
<1> QED
  BY <1>4

LEMMA NumbersByInduction ==
  ASSUME NEW T, 0 \in T, \A n \in Nat : n \in T => n + 1 \in T
  PROVE  \A n \in Nat : n \in T
<1> SUFFICES ASSUME Nat \ T # {}
             PROVE  FALSE
  OBVIOUS
<1>1. PICK m \in Nat \ T : \A n \in Nat \ T : m <= n
  BY LeastNumber, Zenon
<1>2. m # 0 /\ m - 1 \in Nat /\ m - 1 \in T
  BY <1>1
<1> QED
  BY <1>1, <1>2

(***************************************************************************)
(* The values a loop of N rounds goes through: they start with base, and   *)
(* round n makes step[n, x] of x.                                          *)
(***************************************************************************)
IsLoop(f, N, S, base, step) ==
  /\ f \in [0..N -> S] /\ f[0] = base
  /\ \A n \in 1..N : f[n] = step[<<n, f[n - 1]>>]

LEMMA LoopExists ==
  ASSUME NEW N \in Nat, NEW S, NEW base \in S, NEW step \in [(1..N) \X S -> S]
  PROVE  \E f : IsLoop(f, N, S, base, step)
<1> DEFINE T == {n \in Nat : n <= N => \E f : IsLoop(f, n, S, base, step)}
<1>1. 0 \in T
  <2>1. IsLoop([n \in 0..0 |-> base], 0, S, base, step)
    BY DEF IsLoop
  <2> QED
    BY <2>1
<1>2. ASSUME NEW n \in Nat, n \in T, n + 1 <= N
      PROVE  n + 1 \in T
  <2>1. PICK f : IsLoop(f, n, S, base, step)
    BY <1>2
  <2>2. f \in [0..n -> S] /\ f[n] \in S /\ n + 1 \in 1..N
    BY <1>2, <2>1 DEF IsLoop
  <2>3. PICK next : next = step[<<n + 1, f[n]>>]
    OBVIOUS
  <2>4. next \in S
    BY <2>2, <2>3
  <2>5. PICK g : g = [i \in 0..n + 1 |-> IF i = n + 1 THEN next ELSE f[i]]
    OBVIOUS
  <2>6. g \in [0..n + 1 -> S] /\ g[0] = f[0] /\ g[n + 1] = next
        /\ \A i \in 0..n : g[i] = f[i]
    BY <2>2, <2>4, <2>5
  <2>7. ASSUME NEW i \in 1..n + 1
        PROVE  g[i] = step[<<i, g[i - 1]>>]
    <3>1. CASE i = n + 1
      BY <2>3, <2>6, <3>1
    <3>2. CASE i \in 1..n
      BY <2>1, <2>6, <3>2 DEF IsLoop
    <3> QED
      BY <3>1, <3>2
  <2>8. IsLoop(g, n + 1, S, base, step)
    BY <2>1, <2>6, <2>7 DEF IsLoop
  <2> QED
    BY <2>8
<1>3. \A n \in Nat : n \in T => n + 1 \in T
  BY <1>2
<1> HIDE DEF T
<1>4. N \in T
  BY <1>1, <1>3, NumbersByInduction
<1> QED
  BY <1>4 DEF T

(***************************************************************************)
(* The loop in Split: kept[n] is what the first n segments come to.        *)
(***************************************************************************)
IsSplitting(kept, path) ==
  /\ kept \in [0..Len(path) -> Seq(Segments)] /\ kept[0] = <<>>
  /\ \A n \in 1..Len(path) :
       kept[n] = IF path[n] = Nothing THEN kept[n - 1] ELSE Append(kept[n - 1], path[n])

LEMMA SplitUnfolds ==
  ASSUME NEW path \in Seq(Segments)
  PROVE  \E kept : IsSplitting(kept, path) /\ Split(path) = kept[Len(path)]
<1> DEFINE N == Len(path)
           Body(kept, n) ==
             IF path[n] = Nothing THEN kept[n - 1] ELSE Append(kept[n - 1], path[n])
           Loop(kept) == [n \in 0..N |-> IF n = 0 THEN <<>> ELSE Body(kept, n)]
<1>1. N \in Nat /\ \A n \in 1..N : path[n] \in Segments
  BY LenProperties, ElementOfSeq
<1>2. \E kept : kept = Loop(kept)
  <2> DEFINE step == [x \in (1..N) \X Seq(Segments) |->
                        IF path[x[1]] = Nothing THEN x[2] ELSE Append(x[2], path[x[1]])]
  <2>1. step \in [(1..N) \X Seq(Segments) -> Seq(Segments)]
    BY <1>1, AppendProperties
  <2>2. <<>> \in Seq(Segments)
    BY EmptySeq
  <2>3. \A n \in 1..N, x \in Seq(Segments) :
          step[<<n, x>>] = IF path[n] = Nothing THEN x ELSE Append(x, path[n])
    OBVIOUS
  <2> HIDE DEF step, N
  <2>4. PICK f : IsLoop(f, N, Seq(Segments), <<>>, step)
    BY <1>1, <2>1, <2>2, LoopExists, Zenon
  <2>5. f \in [0..N -> Seq(Segments)] /\ f[0] = <<>> /\ \A n \in 1..N : f[n] = step[<<n, f[n - 1]>>]
    BY <2>4 DEF IsLoop
  <2>6. \A n \in 1..N : f[n - 1] \in Seq(Segments)
    BY <1>1, <2>5
  <2>7. \A n \in 1..N : f[n] = Body(f, n)
    BY <2>3, <2>5, <2>6
  <2>8. f = Loop(f)
    <3> HIDE DEF Body
    <3>1. f = [n \in 0..N |-> f[n]]
      BY <2>5
    <3>2. \A n \in 0..N : f[n] = IF n = 0 THEN <<>> ELSE Body(f, n)
      BY <1>1, <2>5, <2>7
    <3> QED
      BY <3>1, <3>2
  <2> QED
    BY <2>8
<1>3. PICK kept : kept = CHOOSE g : g = Loop(g)
  OBVIOUS
<1>4. kept = Loop(kept)
  BY <1>2, <1>3, Zenon
<1>5. Split(path) = kept[N]
  BY <1>3, Zenon DEF Split
<1> HIDE DEF N
<1>6. /\ kept = [n \in 0..N |-> kept[n]] /\ kept[0] = <<>>
      /\ \A n \in 1..N : kept[n] = Body(kept, n)
  <2> HIDE DEF Body
  <2> QED
    BY <1>1, <1>4
<1>7. \A n \in 0..N : kept[n] \in Seq(Segments)
  <2> DEFINE T == {m \in Nat : m <= N => kept[m] \in Seq(Segments)}
  <2>1. 0 \in T
    BY <1>6, EmptySeq
  <2>2. ASSUME NEW n \in Nat, n \in T
        PROVE  n + 1 \in T
    <3>1. CASE n + 1 <= N
      <4>1. kept[n] \in Seq(Segments) /\ n + 1 \in 1..N /\ (n + 1) - 1 = n
        BY <1>1, <2>2, <3>1
      <4>2. kept[n + 1] = IF path[n + 1] = Nothing THEN kept[n] ELSE Append(kept[n], path[n + 1])
        BY <1>6, <4>1
      <4>3. kept[n + 1] \in Seq(Segments)
        BY <1>1, <4>1, <4>2, AppendProperties
      <4> QED
        BY <4>3
    <3> QED
      BY <3>1
  <2>3. \A n \in Nat : n \in T => n + 1 \in T
    BY <2>2
  <2>4. \A n \in Nat : n \in T
    <3> HIDE DEF T
    <3> QED
      BY <2>1, <2>3, NumbersByInduction
  <2> QED
    BY <1>1, <2>4
<1>8. kept \in [0..N -> Seq(Segments)]
  BY <1>6, <1>7
<1>9. IsSplitting(kept, path)
  BY <1>6, <1>8 DEF IsSplitting, N
<1> QED
  BY <1>5, <1>9 DEF N

(***************************************************************************)
(* What Split keeps has no empty segments, and an empty segment in front   *)
(* of a path makes no difference to it.                                    *)
(***************************************************************************)
LEMMA SplitIsPath ==
  ASSUME NEW path \in Seq(Segments)
  PROVE  Split(path) \in Seq(Segments)
<1>1. PICK kept : IsSplitting(kept, path) /\ Split(path) = kept[Len(path)]
  BY SplitUnfolds
<1>2. Len(path) \in 0..Len(path)
  BY LenProperties
<1> QED
  BY <1>1, <1>2 DEF IsSplitting

LEMMA LeadingSlash ==
  ASSUME NEW path \in Seq(Segments)
  PROVE  /\ <<Nothing>> \o path \in Seq(Segments)
         /\ Split(<<Nothing>> \o path) = Split(path)
<1>1. PICK longer : longer = <<Nothing>> \o path
  OBVIOUS
<1>2. PICK N \in Nat : N = Len(path)
  BY LenProperties
<1>3. /\ longer \in Seq(Segments) /\ Len(longer) = N + 1
      /\ longer[1] = Nothing /\ \A n \in 1..N : longer[n + 1] = path[n]
  <2>1. PICK empty \in Segments : empty = Nothing
    BY NamesAssumption DEF NamesAssumption, Nothing, Segment, Segments
  <2>2. <<empty>> \in Seq(Segments) /\ Len(<<empty>>) = 1 /\ <<empty>>[1] = empty
    BY <2>1
  <2>3. longer = <<empty>> \o path
    BY <1>1, <2>1
  <2>4. /\ longer \in Seq(Segments) /\ Len(longer) = 1 + N
        /\ \A i \in 1..1 + N : longer[i] = IF i <= 1 THEN <<empty>>[i] ELSE path[i - 1]
    BY <1>2, <2>2, <2>3, ConcatProperties
  <2> QED
    BY <1>2, <2>1, <2>2, <2>4
<1>4. PICK kept : IsSplitting(kept, path) /\ Split(path) = kept[N]
  BY <1>2, SplitUnfolds
<1>5. PICK same : IsSplitting(same, longer) /\ Split(longer) = same[N + 1]
  BY <1>3, SplitUnfolds
<1> DEFINE T == {n \in Nat : n <= N => same[n + 1] = kept[n]}
<1>6. 0 \in T
  <2>1. 1 \in 1..Len(longer) /\ 1 - 1 = 0
    BY <1>2, <1>3
  <2>2. same[1] = same[0]
    BY <1>3, <1>5, <2>1 DEF IsSplitting
  <2> QED
    BY <1>4, <1>5, <2>2 DEF IsSplitting
<1>7. ASSUME NEW n \in Nat, n \in T, n + 1 <= N
      PROVE  n + 1 \in T
  <2>1. same[n + 1] = kept[n] /\ n + 1 \in 1..N /\ (n + 1) - 1 = n
        /\ (n + 1) + 1 \in 1..Len(longer) /\ ((n + 1) + 1) - 1 = n + 1
    BY <1>2, <1>3, <1>7
  <2>2. kept[n + 1] = IF path[n + 1] = Nothing THEN kept[n] ELSE Append(kept[n], path[n + 1])
    BY <1>2, <1>4, <2>1 DEF IsSplitting
  <2>3. same[(n + 1) + 1] = IF longer[(n + 1) + 1] = Nothing THEN same[n + 1]
                            ELSE Append(same[n + 1], longer[(n + 1) + 1])
    BY <1>5, <2>1 DEF IsSplitting
  <2>4. longer[(n + 1) + 1] = path[n + 1]
    BY <1>3, <2>1
  <2> QED
    BY <2>1, <2>2, <2>3, <2>4
<1>8. \A n \in Nat : n \in T => n + 1 \in T
  BY <1>2, <1>7
<1>9. \A n \in Nat : n \in T
  <2> HIDE DEF T
  <2> QED
    BY <1>6, <1>8, NumbersByInduction
<1> QED
  BY <1>1, <1>2, <1>3, <1>4, <1>5, <1>9

----------------------------------------------------------------------------
(***************************************************************************)
(* The loop in AllowedMethods: listed[n] is what the first n routes leave. *)
(***************************************************************************)
Adds(routes, n, methods, path) ==
  /\ MatchSegments(routes[n].path, Split(path))
  /\ ~Contains(methods, routes[n].method)

IsListing(listed, routes, path) ==
  /\ listed \in [0..Len(routes) -> Seq(STRING)] /\ listed[0] = <<>>
  /\ \A n \in 1..Len(routes) :
       listed[n] = IF Adds(routes, n, listed[n - 1], path)
                   THEN Append(listed[n - 1], routes[n].method) ELSE listed[n - 1]

LEMMA AllowedUnfolds ==
  ASSUME NEW routes \in Tables, NEW path
  PROVE  \E listed : IsListing(listed, routes, path)
                     /\ AllowedMethods(routes, path) = listed[Len(routes)]
<1> DEFINE N == Len(routes)
           Body(listed, n) ==
             IF Adds(routes, n, listed[n - 1], path)
             THEN Append(listed[n - 1], routes[n].method) ELSE listed[n - 1]
           Loop(listed) == [n \in 0..N |-> IF n = 0 THEN <<>> ELSE Body(listed, n)]
<1>1. N \in Nat /\ \A n \in 1..N : routes[n].method \in STRING
  <2> PICK S : S = [method : STRING, path : Seq(Segments)]
    OBVIOUS
  <2>1. routes \in Seq(S) /\ \A r \in S : r.method \in STRING
    BY DEF Tables
  <2> QED
    BY <2>1, LenProperties, ElementOfSeq
<1>2. \E listed : listed = Loop(listed)
  <2> DEFINE step == [x \in (1..N) \X Seq(STRING) |->
                        IF Adds(routes, x[1], x[2], path)
                        THEN Append(x[2], routes[x[1]].method) ELSE x[2]]
  <2>1. step \in [(1..N) \X Seq(STRING) -> Seq(STRING)]
    BY <1>1, AppendProperties
  <2>2. <<>> \in Seq(STRING)
    BY EmptySeq
  <2>3. \A n \in 1..N, x \in Seq(STRING) :
          step[<<n, x>>] = IF Adds(routes, n, x, path) THEN Append(x, routes[n].method) ELSE x
    OBVIOUS
  <2> HIDE DEF step, N
  <2>4. PICK f : IsLoop(f, N, Seq(STRING), <<>>, step)
    BY <1>1, <2>1, <2>2, LoopExists, Zenon
  <2>5. f \in [0..N -> Seq(STRING)] /\ f[0] = <<>> /\ \A n \in 1..N : f[n] = step[<<n, f[n - 1]>>]
    BY <2>4 DEF IsLoop
  <2>6. \A n \in 1..N : f[n - 1] \in Seq(STRING)
    BY <1>1, <2>5
  <2>7. \A n \in 1..N : f[n] = Body(f, n)
    BY <2>3, <2>5, <2>6
  <2>8. f = Loop(f)
    <3> HIDE DEF Body
    <3>1. f = [n \in 0..N |-> f[n]]
      BY <2>5
    <3>2. \A n \in 0..N : f[n] = IF n = 0 THEN <<>> ELSE Body(f, n)
      BY <1>1, <2>5, <2>7
    <3> QED
      BY <3>1, <3>2
  <2> QED
    BY <2>8
<1>3. PICK listed : listed = CHOOSE g : g = Loop(g)
  OBVIOUS
<1>4. listed = Loop(listed)
  BY <1>2, <1>3, Zenon
<1>5. AllowedMethods(routes, path) = listed[N]
  BY <1>3, Zenon DEF AllowedMethods, Adds
<1> HIDE DEF N
<1>6. /\ listed = [n \in 0..N |-> listed[n]] /\ listed[0] = <<>>
      /\ \A n \in 1..N : listed[n] = Body(listed, n)
  <2> HIDE DEF Body
  <2> QED
    BY <1>1, <1>4
<1>7. \A n \in 0..N : listed[n] \in Seq(STRING)
  <2> DEFINE T == {m \in Nat : m <= N => listed[m] \in Seq(STRING)}
  <2>1. 0 \in T
    BY <1>6, EmptySeq
  <2>2. ASSUME NEW n \in Nat, n \in T
        PROVE  n + 1 \in T
    <3>1. CASE n + 1 <= N
      <4>1. listed[n] \in Seq(STRING) /\ n + 1 \in 1..N /\ (n + 1) - 1 = n
        BY <1>1, <2>2, <3>1
      <4>2. listed[n + 1] \in {listed[n], Append(listed[n], routes[n + 1].method)}
        BY <1>6, <4>1
      <4>3. Append(listed[n], routes[n + 1].method) \in Seq(STRING)
        <5>1. routes[n + 1].method \in STRING
          BY <1>1, <4>1
        <5> QED
          BY <4>1, <5>1, AppendProperties
      <4>4. listed[n + 1] \in Seq(STRING)
        BY <4>1, <4>2, <4>3
      <4> QED
        BY <4>4
    <3> QED
      BY <3>1
  <2>3. \A n \in Nat : n \in T => n + 1 \in T
    BY <2>2
  <2>4. \A n \in Nat : n \in T
    <3> HIDE DEF T
    <3> QED
      BY <2>1, <2>3, NumbersByInduction
  <2> QED
    BY <1>1, <2>4
<1>8. listed \in [0..N -> Seq(STRING)]
  BY <1>6, <1>7
<1>9. IsListing(listed, routes, path)
  BY <1>6, <1>8 DEF IsListing, N
<1> QED
  BY <1>5, <1>9 DEF N

----------------------------------------------------------------------------
(***************************************************************************)
(* match_route finds the first route that answers a request, or none does. *)
(***************************************************************************)
IsFirst(found, routes, method, path) ==
  /\ found = 0 => \A i \in 1..Len(routes) : ~Answers(routes, i, method, path)
  /\ found # 0 =>
       /\ found \in 1..Len(routes) /\ Answers(routes, found, method, path)
       /\ \A i \in 1..found - 1 : ~Answers(routes, i, method, path)

LEMMA FirstIsFound ==
  ASSUME NEW routes \in Tables, NEW method, NEW path
  PROVE  IsFirst(MatchRoute(routes, method, path), routes, method, path)
<1>1. PICK I : I = {i \in 1..Len(routes) : Answers(routes, i, method, path)}
  OBVIOUS
<1>2. MatchRoute(routes, method, path) = IF I # {} THEN Min(I) ELSE 0
  BY <1>1 DEF MatchRoute, SelectInSeq, Answers
<1>3. Len(routes) \in Nat
  BY LenProperties DEF Tables
<1>4. CASE I = {}
  BY <1>1, <1>2, <1>4, <1>3 DEF IsFirst
<1>5. CASE I # {}
  <2>1. I \in SUBSET Nat
    BY <1>1, <1>3
  <2>2. \E m \in I : \A n \in I : m <= n
    BY <1>5, <2>1, LeastNumber
  <2>3. PICK m : m = Min(I)
    OBVIOUS
  <2>4. m \in I /\ \A n \in I : m <= n
    BY <2>2, <2>3, Zenon DEF Min
  <2>5. \A i \in 1..m - 1 : i \in 1..Len(routes) /\ i \notin I
    BY <1>1, <1>3, <2>1, <2>4
  <2> QED
    BY <1>1, <1>2, <1>3, <1>5, <2>3, <2>4, <2>5 DEF IsFirst
<1> QED
  BY <1>4, <1>5

(***************************************************************************)
(* The methods listed after n routes: those of the routes that match, in   *)
(* the order in which the first of each is declared.                       *)
(***************************************************************************)
ListsMethods(methods, n, routes, path) ==
  \A m : Contains(methods, m) <=> \E i \in 1..n : Answers(routes, i, m, path)

InOrder(methods, n, routes, path) ==
  \A i, j \in 1..Len(methods) : i < j =>
    \E k \in 1..n :
      /\ Answers(routes, k, methods[i], path)
      /\ \A l \in 1..k : ~Answers(routes, l, methods[j], path)

LEMMA ListingGoesOn ==
  ASSUME NEW routes \in Tables, NEW path, NEW n \in Nat, n + 1 \in 1..Len(routes),
         NEW old \in Seq(STRING), NEW new,
         ListsMethods(old, n, routes, path), InOrder(old, n, routes, path),
         new = IF Adds(routes, n + 1, old, path)
               THEN Append(old, routes[n + 1].method) ELSE old
  PROVE  ListsMethods(new, n + 1, routes, path) /\ InOrder(new, n + 1, routes, path)
<1>1. PICK method : method = routes[n + 1].method
  OBVIOUS
<1>2. \A m : Answers(routes, n + 1, m, path)
             <=> m = method /\ MatchSegments(routes[n + 1].path, Split(path))
  BY <1>1, Zenon DEF Answers
<1>3. 1..n + 1 = (1..n) \cup {n + 1}
  OBVIOUS
<1>4. Len(old) \in Nat
  BY LenProperties
<1>5. CASE Adds(routes, n + 1, old, path)
  <2>1. MatchSegments(routes[n + 1].path, Split(path)) /\ ~Contains(old, method)
    BY <1>1, <1>5, Zenon DEF Adds
  <2>2. Answers(routes, n + 1, method, path)
    BY <1>2, <2>1
  <2>3. \A i \in 1..n : ~Answers(routes, i, method, path)
    BY <2>1 DEF ListsMethods
  <2>4. method \in STRING
    <3> PICK S : S = [method : STRING, path : Seq(Segments)]
      OBVIOUS
    <3>1. routes \in Seq(S) /\ \A r \in S : r.method \in STRING
      BY DEF Tables
    <3> QED
      BY <1>1, <3>1, ElementOfSeq
  <2>5. /\ Len(new) = Len(old) + 1 /\ new[Len(old) + 1] = method
        /\ \A i \in 1..Len(old) : new[i] = old[i]
    BY <1>1, <1>5, <2>4, AppendProperties
  <2>6. \A m : Contains(new, m) <=> Contains(old, m) \/ m = method
    BY <1>4, <2>5 DEF Contains
  <2>7. ListsMethods(new, n + 1, routes, path)
    BY <1>2, <1>3, <2>1, <2>6 DEF ListsMethods
  <2>8. ASSUME NEW i \in 1..Len(new), NEW j \in 1..Len(new), i < j
        PROVE  \E k \in 1..n + 1 :
                 /\ Answers(routes, k, new[i], path)
                 /\ \A l \in 1..k : ~Answers(routes, l, new[j], path)
    <3>1. i \in 1..Len(old) /\ new[i] = old[i]
      BY <1>4, <2>5, <2>8
    <3>2. CASE j \in 1..Len(old)
      <4>1. new[j] = old[j]
        BY <2>5, <3>2
      <4>2. PICK k \in 1..n : /\ Answers(routes, k, old[i], path)
                              /\ \A l \in 1..k : ~Answers(routes, l, old[j], path)
        BY <2>8, <3>1, <3>2 DEF InOrder
      <4> QED
        BY <1>3, <3>1, <4>1, <4>2
    <3>3. CASE j = Len(old) + 1
      <4>1. Contains(old, old[i])
        BY <3>1 DEF Contains
      <4>2. PICK k \in 1..n : Answers(routes, k, old[i], path)
        BY <4>1 DEF ListsMethods
      <4>3. \A l \in 1..k : l \in 1..n
        OBVIOUS
      <4> QED
        BY <1>3, <2>3, <2>5, <3>1, <3>3, <4>2, <4>3
    <3> QED
      BY <1>4, <2>5, <3>2, <3>3
  <2>9. InOrder(new, n + 1, routes, path)
    BY <2>8 DEF InOrder
  <2> QED
    BY <2>7, <2>9
<1>6. CASE ~Adds(routes, n + 1, old, path)
  <2>1. new = old
    BY <1>6
  <2>2. \/ ~MatchSegments(routes[n + 1].path, Split(path))
        \/ Contains(old, method)
    BY <1>1, <1>6, Zenon DEF Adds
  <2>3. \A m : Answers(routes, n + 1, m, path) => Contains(old, m)
    BY <1>2, <2>2
  <2>4. ListsMethods(new, n + 1, routes, path)
    BY <1>3, <2>1, <2>3 DEF ListsMethods
  <2>5. InOrder(new, n + 1, routes, path)
    BY <1>3, <2>1 DEF InOrder
  <2> QED
    BY <2>4, <2>5
<1> QED
  BY <1>5, <1>6

LEMMA AllowedAreListed ==
  ASSUME NEW routes \in Tables, NEW path
  PROVE  LET allowed == AllowedMethods(routes, path)
         IN /\ allowed \in Seq(STRING)
            /\ ListsMethods(allowed, Len(routes), routes, path)
            /\ InOrder(allowed, Len(routes), routes, path)
<1>1. PICK N \in Nat : N = Len(routes)
  BY LenProperties DEF Tables
<1>2. PICK listed : IsListing(listed, routes, path) /\ AllowedMethods(routes, path) = listed[N]
  BY <1>1, AllowedUnfolds
<1>3. /\ listed \in [0..N -> Seq(STRING)] /\ listed[0] = <<>>
      /\ \A n \in 1..N : listed[n] = IF Adds(routes, n, listed[n - 1], path)
                                     THEN Append(listed[n - 1], routes[n].method)
                                     ELSE listed[n - 1]
  BY <1>1, <1>2 DEF IsListing
<1> DEFINE Right(n) == /\ ListsMethods(listed[n], n, routes, path)
                       /\ InOrder(listed[n], n, routes, path)
           T == {n \in Nat : n <= N => Right(n)}
<1>4. 0 \in T
  <2>1. \A i : i \notin 1..0
    OBVIOUS
  <2>2. Len(listed[0]) = 0
    BY <1>3, EmptySeq
  <2>3. ListsMethods(listed[0], 0, routes, path)
    BY <2>1, <2>2 DEF ListsMethods, Contains
  <2>4. InOrder(listed[0], 0, routes, path)
    BY <2>1, <2>2 DEF InOrder
  <2> QED
    BY <2>3, <2>4
<1>5. ASSUME NEW n \in Nat, n \in T, n + 1 <= N
      PROVE  Right(n + 1)
  <2>1. Right(n) /\ n + 1 \in 1..N /\ (n + 1) - 1 = n /\ listed[n] \in Seq(STRING)
    BY <1>1, <1>3, <1>5
  <2>2. listed[n + 1] = IF Adds(routes, n + 1, listed[n], path)
                        THEN Append(listed[n], routes[n + 1].method) ELSE listed[n]
    BY <1>3, <2>1
  <2> QED
    BY <1>1, <2>1, <2>2, ListingGoesOn, Zenon
<1>6. \A n \in Nat : n \in T => n + 1 \in T
  <2> HIDE DEF Right
  <2> QED
    BY <1>5
<1>7. N \in T
  <2> HIDE DEF T
  <2> QED
    BY <1>4, <1>6, NumbersByInduction
<1>8. Right(N)
  <2> HIDE DEF Right
  <2> QED
    BY <1>7
<1>9. listed[N] \in Seq(STRING)
  BY <1>3
<1> QED
  BY <1>1, <1>2, <1>8, <1>9

----------------------------------------------------------------------------
(***************************************************************************)
(* The loop in PercentDecode: what reading a byte makes of the state that  *)
(* the bytes before it have left.                                          *)
(***************************************************************************)
Decoded == [out : Seq(Byte), skip : 0..2]

Reads(text, n, last) ==
  IF last.skip > 0 THEN [out |-> last.out, skip |-> last.skip - 1]
  ELSE IF IsEscape(text, n)
       THEN [out |-> Append(last.out, HexValue(text[n + 1], text[n + 2])), skip |-> 2]
       ELSE [out |-> Append(last.out, text[n]), skip |-> 0]

IsDecoding(decoded, text) ==
  /\ decoded \in [0..Len(text) -> Decoded] /\ decoded[0] = [out |-> <<>>, skip |-> 0]
  /\ \A n \in 1..Len(text) : decoded[n] = Reads(text, n, decoded[n - 1])

LEMMA DigitsAreSmall ==
  \A d \in HexDigits : Digit(d) \in 0..15
<1> SUFFICES ASSUME NEW d \in HexDigits
             PROVE  Digit(d) \in 0..15
  OBVIOUS
<1>1. d \in 48..57 \/ d \in 65..70 \/ d \in 97..102
  BY DEF HexDigits
<1> QED
  BY <1>1 DEF Digit

LEMMA HexDigitIsDigit ==
  \A d \in 0..15 : HexDigit(d) \in HexDigits \ {Plus} /\ Digit(HexDigit(d)) = d
<1> SUFFICES ASSUME NEW d \in 0..15
             PROVE  HexDigit(d) \in HexDigits \ {Plus} /\ Digit(HexDigit(d)) = d
  OBVIOUS
<1>1. PICK h : h = HexDigit(d)
  OBVIOUS
<1>2. CASE d < 10
  <2>1. h = d + 48
    BY <1>1, <1>2 DEF HexDigit
  <2>2. h \in 48..57
    BY <1>2, <2>1
  <2>3. h \in HexDigits
    BY <2>2 DEF HexDigits
  <2>4. Digit(h) = d
    BY <2>1, <2>2 DEF Digit
  <2> QED
    BY <1>1, <2>2, <2>3, <2>4 DEF Plus
<1>3. CASE d >= 10
  <2>1. h = d + 55
    BY <1>1, <1>3 DEF HexDigit
  <2>2. h \in 65..70
    BY <1>3, <2>1
  <2>3. h \in HexDigits
    BY <2>2 DEF HexDigits
  <2>4. Digit(h) = d
    BY <2>1, <2>2 DEF Digit
  <2> QED
    BY <1>1, <2>2, <2>3, <2>4 DEF Plus
<1> QED
  BY <1>2, <1>3

LEMMA HexIsByte ==
  ASSUME NEW a, NEW b, IsHex(a, b)
  PROVE  HexValue(a, b) \in Byte
<1>1. b \in HexDigits /\ (a \in HexDigits \/ a = Plus)
  BY DEF IsHex
<1>2. PICK low \in 0..15 : low = Digit(b)
  BY <1>1, DigitsAreSmall
<1>3. CASE a = Plus
  BY <1>2, <1>3 DEF HexValue, Byte
<1>4. CASE a # Plus
  <2>1. PICK high \in 0..15 : high = Digit(a)
    BY <1>1, <1>4, DigitsAreSmall
  <2> QED
    BY <1>2, <1>4, <2>1 DEF HexValue, Byte
<1> QED
  BY <1>3, <1>4

LEMMA ReadsIsDecoded ==
  ASSUME NEW text \in Seq(Byte), NEW n \in 1..Len(text), NEW last \in Decoded
  PROVE  Reads(text, n, last) \in Decoded
<1>1. last.out \in Seq(Byte) /\ last.skip \in 0..2
  BY DEF Decoded
<1>2. text[n] \in Byte
  BY ElementOfSeq
<1>3. CASE last.skip > 0
  BY <1>1, <1>3 DEF Reads, Decoded
<1>4. CASE last.skip <= 0 /\ IsEscape(text, n)
  <2>1. Len(text) \in Nat /\ n + 2 <= Len(text) /\ IsHex(text[n + 1], text[n + 2])
    BY <1>4, LenProperties DEF IsEscape
  <2>2. HexValue(text[n + 1], text[n + 2]) \in Byte
    BY <2>1, HexIsByte
  <2>3. Append(last.out, HexValue(text[n + 1], text[n + 2])) \in Seq(Byte)
    BY <1>1, <2>2, AppendProperties
  <2> QED
    BY <1>1, <1>4, <2>3 DEF Reads, Decoded
<1>5. CASE last.skip <= 0 /\ ~IsEscape(text, n)
  <2>1. Append(last.out, text[n]) \in Seq(Byte)
    BY <1>1, <1>2, AppendProperties
  <2> QED
    BY <1>1, <1>5, <2>1 DEF Reads, Decoded
<1> QED
  BY <1>1, <1>3, <1>4, <1>5

LEMMA SkipIsRead ==
  ASSUME NEW text, NEW n, NEW last, last.skip > 0
  PROVE  Reads(text, n, last).out = last.out /\ Reads(text, n, last).skip = last.skip - 1
<1>1. Reads(text, n, last) = [out |-> last.out, skip |-> last.skip - 1]
  BY Zenon DEF Reads
<1> QED
  BY <1>1

LEMMA EscapeIsRead ==
  ASSUME NEW text, NEW n, NEW last, ~(last.skip > 0), IsEscape(text, n)
  PROVE  /\ Reads(text, n, last).out = Append(last.out, HexValue(text[n + 1], text[n + 2]))
         /\ Reads(text, n, last).skip = 2
<1>1. Reads(text, n, last)
        = [out |-> Append(last.out, HexValue(text[n + 1], text[n + 2])), skip |-> 2]
  BY Zenon DEF Reads
<1> QED
  BY <1>1

LEMMA ByteIsRead ==
  ASSUME NEW text, NEW n, NEW last, ~(last.skip > 0), ~IsEscape(text, n)
  PROVE  Reads(text, n, last).out = Append(last.out, text[n]) /\ Reads(text, n, last).skip = 0
<1>1. Reads(text, n, last) = [out |-> Append(last.out, text[n]), skip |-> 0]
  BY Zenon DEF Reads
<1> QED
  BY <1>1

LEMMA DecodeUnfolds ==
  ASSUME NEW text \in Seq(Byte)
  PROVE  \E decoded : /\ IsDecoding(decoded, text)
                      /\ PercentDecode(text) = decoded[Len(text)].out
<1> DEFINE N == Len(text)
           Empty == [out |-> <<>>, skip |-> 0]
           Loop(decoded) == [n \in 0..N |-> IF n = 0 THEN Empty
                                            ELSE Reads(text, n, decoded[n - 1])]
<1>1. N \in Nat /\ Empty \in Decoded
  BY LenProperties, EmptySeq DEF Decoded
<1>2. \E decoded : decoded = Loop(decoded)
  <2> DEFINE step == [x \in (1..N) \X Decoded |-> Reads(text, x[1], x[2])]
  <2>1. step \in [(1..N) \X Decoded -> Decoded]
    BY ReadsIsDecoded
  <2>2. \A n \in 1..N, x \in Decoded : step[<<n, x>>] = Reads(text, n, x)
    OBVIOUS
  <2> HIDE DEF step, N, Empty
  <2>3. PICK f : IsLoop(f, N, Decoded, Empty, step)
    BY <1>1, <2>1, LoopExists, Zenon
  <2>4. f \in [0..N -> Decoded] /\ f[0] = Empty /\ \A n \in 1..N : f[n] = step[<<n, f[n - 1]>>]
    BY <2>3 DEF IsLoop
  <2>5. \A n \in 1..N : f[n - 1] \in Decoded
    BY <1>1, <2>4
  <2>6. \A n \in 1..N : f[n] = Reads(text, n, f[n - 1])
    BY <2>2, <2>4, <2>5
  <2>7. f = Loop(f)
    BY <1>1, <2>4, <2>6
  <2> QED
    BY <2>7
<1>3. PICK decoded : decoded = CHOOSE g : g = Loop(g)
  OBVIOUS
<1>4. decoded = Loop(decoded)
  BY <1>2, <1>3, Zenon
<1>5. PercentDecode(text) = decoded[N].out
  BY <1>3, Zenon DEF PercentDecode, Reads
<1> HIDE DEF N, Empty
<1>6. /\ decoded = [n \in 0..N |-> decoded[n]] /\ decoded[0] = Empty
      /\ \A n \in 1..N : decoded[n] = Reads(text, n, decoded[n - 1])
  BY <1>1, <1>4
<1>7. \A n \in 0..N : decoded[n] \in Decoded
  <2> DEFINE T == {m \in Nat : m <= N => decoded[m] \in Decoded}
  <2>1. 0 \in T
    BY <1>1, <1>6
  <2>2. ASSUME NEW n \in Nat, n \in T, n + 1 <= N
        PROVE  n + 1 \in T
    <3>1. decoded[n] \in Decoded /\ n + 1 \in 1..N /\ (n + 1) - 1 = n
      BY <1>1, <2>2
    <3>2. decoded[n + 1] = Reads(text, n + 1, decoded[n])
      BY <1>6, <3>1
    <3>3. decoded[n + 1] \in Decoded
      BY <3>1, <3>2, ReadsIsDecoded DEF N
    <3> QED
      BY <3>3
  <2>3. \A n \in Nat : n \in T => n + 1 \in T
    BY <1>1, <2>2
  <2>4. \A n \in Nat : n \in T
    <3> HIDE DEF T
    <3> QED
      BY <2>1, <2>3, NumbersByInduction
  <2> QED
    BY <1>1, <2>4
<1>8. decoded \in [0..N -> Decoded]
  BY <1>6, <1>7
<1>9. IsDecoding(decoded, text)
  BY <1>6, <1>8 DEF IsDecoding, N, Empty
<1> QED
  BY <1>5, <1>9 DEF N

LEMMA ConcatAppend ==
  ASSUME NEW before \in Seq(Byte), NEW out \in Seq(Byte), NEW x \in Byte
  PROVE  before \o Append(out, x) = Append(before \o out, x)
<1>1. PICK one : one = <<x>>
  OBVIOUS
<1>2. one \in Seq(Byte)
  BY <1>1
<1>3. Append(out, x) = out \o one
  BY <1>1, AppendIsConcat, Zenon
<1>4. before \o out \in Seq(Byte)
  BY ConcatProperties, Zenon
<1>5. Append(before \o out, x) = (before \o out) \o one
  BY <1>1, <1>4, AppendIsConcat, Zenon
<1>6. (before \o out) \o one = before \o (out \o one)
  BY <1>2, ConcatAssociative, SMTT(20)
<1> QED
  BY <1>3, <1>5, <1>6, Zenon

(***************************************************************************)
(* Bytes that end a text are decoded there as they are by themselves, when *)
(* no escape reaches into them.                                            *)
(***************************************************************************)
EndsWith(longer, rest, k, N) ==
  Len(longer) = k + N /\ Len(rest) = N /\ \A i \in 1..N : longer[k + i] = rest[i]

ReadsTheSame(longer, m, rest, n) ==
  /\ longer[m] = rest[n] /\ (IsEscape(longer, m) <=> IsEscape(rest, n))
  /\ IsEscape(rest, n) => longer[m + 1] = rest[n + 1] /\ longer[m + 2] = rest[n + 2]

Follows(state, before, last) == state.out = before \o last.out /\ state.skip = last.skip

LEMMA SameReading ==
  ASSUME NEW rest \in Seq(Byte), NEW n \in 1..Len(rest), NEW longer, NEW m,
         ReadsTheSame(longer, m, rest, n), NEW before \in Seq(Byte), NEW last \in Decoded,
         NEW state, Follows(state, before, last)
  PROVE  Follows(Reads(longer, m, state), before, Reads(rest, n, last))
<1> SUFFICES /\ Reads(longer, m, state).out = before \o Reads(rest, n, last).out
             /\ Reads(longer, m, state).skip = Reads(rest, n, last).skip
  BY Zenon DEF Follows
<1>1. last.out \in Seq(Byte) /\ state.out = before \o last.out /\ state.skip = last.skip
  BY DEF Decoded, Follows
<1>2. /\ longer[m] = rest[n] /\ (IsEscape(longer, m) <=> IsEscape(rest, n))
      /\ IsEscape(rest, n) => longer[m + 1] = rest[n + 1] /\ longer[m + 2] = rest[n + 2]
  BY Zenon DEF ReadsTheSame
<1>3. CASE last.skip > 0
  <2>1. Reads(rest, n, last).out = last.out /\ Reads(rest, n, last).skip = last.skip - 1
    BY <1>1, <1>3, SkipIsRead, Zenon
  <2>2. /\ Reads(longer, m, state).out = state.out
        /\ Reads(longer, m, state).skip = state.skip - 1
    BY <1>1, <1>3, SkipIsRead, Zenon
  <2> QED
    BY <1>1, <2>1, <2>2, Zenon
<1>4. CASE ~(last.skip > 0) /\ IsEscape(rest, n)
  <2>1. PICK x : x = HexValue(rest[n + 1], rest[n + 2])
    OBVIOUS
  <2>2. x \in Byte
    BY <1>4, <2>1, HexIsByte, Zenon DEF IsEscape
  <2>3. Reads(rest, n, last).out = Append(last.out, x) /\ Reads(rest, n, last).skip = 2
    BY <1>4, <2>1, EscapeIsRead, Zenon
  <2>4. ~(state.skip > 0) /\ IsEscape(longer, m) /\ HexValue(longer[m + 1], longer[m + 2]) = x
    BY <1>1, <1>2, <1>4, <2>1, Zenon
  <2>5. Reads(longer, m, state).out = Append(state.out, x) /\ Reads(longer, m, state).skip = 2
    BY <2>4, EscapeIsRead, Zenon
  <2>6. before \o Append(last.out, x) = Append(before \o last.out, x)
    BY <1>1, <2>2, ConcatAppend, Zenon
  <2> QED
    BY <1>1, <2>3, <2>5, <2>6, Zenon
<1>5. CASE ~(last.skip > 0) /\ ~IsEscape(rest, n)
  <2>1. rest[n] \in Byte
    BY ElementOfSeq, Zenon
  <2>2. Reads(rest, n, last).out = Append(last.out, rest[n]) /\ Reads(rest, n, last).skip = 0
    BY <1>5, ByteIsRead, Zenon
  <2>3. ~(state.skip > 0) /\ ~IsEscape(longer, m)
    BY <1>1, <1>2, <1>5, Zenon
  <2>4. /\ Reads(longer, m, state).out = Append(state.out, longer[m])
        /\ Reads(longer, m, state).skip = 0
    BY <2>3, ByteIsRead, Zenon
  <2>5. before \o Append(last.out, rest[n]) = Append(before \o last.out, rest[n])
    BY <1>1, <2>1, ConcatAppend, Zenon
  <2> QED
    BY <1>1, <1>2, <2>2, <2>4, <2>5, Zenon
<1> QED
  BY <1>3, <1>4, <1>5, Zenon

LEMMA SameEscapes ==
  ASSUME NEW N \in Nat, NEW k \in Nat, NEW rest, NEW longer, EndsWith(longer, rest, k, N),
         NEW n \in 1..N
  PROVE  ReadsTheSame(longer, k + n, rest, n)
<1>1. longer[k + n] = rest[n] /\ Len(longer) = k + N /\ Len(rest) = N
  BY DEF EndsWith
<1>2. CASE n + 2 <= N
  <2>1. /\ n + 1 \in 1..N /\ n + 2 \in 1..N /\ (k + n) + 2 <= k + N
        /\ k + (n + 1) = (k + n) + 1 /\ k + (n + 2) = (k + n) + 2
    BY <1>2
  <2>2. longer[(k + n) + 1] = rest[n + 1] /\ longer[(k + n) + 2] = rest[n + 2]
    BY <2>1 DEF EndsWith
  <2> QED
    BY <1>1, <1>2, <2>1, <2>2 DEF IsEscape, ReadsTheSame
<1>3. CASE ~(n + 2 <= N)
  <2>1. ~((k + n) + 2 <= k + N)
    BY <1>3
  <2> QED
    BY <1>1, <1>3, <2>1 DEF IsEscape, ReadsTheSame
<1> QED
  BY <1>2, <1>3

Continues(L, longer, k, before, R, rest, N) ==
  /\ k \in Nat /\ N \in Nat /\ rest \in Seq(Byte) /\ EndsWith(longer, rest, k, N)
  /\ IsDecoding(L, longer) /\ IsDecoding(R, rest)
  /\ before \in Seq(Byte) /\ L[k].out = before /\ L[k].skip = 0

LEMMA DecodingGoesOn ==
  ASSUME NEW L, NEW longer, NEW k, NEW before, NEW R, NEW rest, NEW N,
         Continues(L, longer, k, before, R, rest, N)
  PROVE  L[k + N].out = before \o R[N].out
<1>1. /\ k \in Nat /\ N \in Nat /\ rest \in Seq(Byte) /\ EndsWith(longer, rest, k, N)
      /\ IsDecoding(L, longer) /\ IsDecoding(R, rest)
      /\ before \in Seq(Byte) /\ L[k].out = before /\ L[k].skip = 0
  BY Zenon DEF Continues
<1> DEFINE Same(n) == Follows(L[k + n], before, R[n])
           T == {n \in Nat : n <= N => Same(n)}
<1>2. 0 \in T
  <2>1. R[0].out = <<>> /\ R[0].skip = 0 /\ k + 0 = k
    BY <1>1 DEF IsDecoding
  <2>2. before \o <<>> = before
    BY <1>1, ConcatEmptySeq
  <2> QED
    BY <1>1, <2>1, <2>2 DEF Follows
<1>3. ASSUME NEW n \in Nat, Same(n), n + 1 <= N
      PROVE  Same(n + 1)
  <2>1. /\ n + 1 \in 1..N /\ n \in 0..N /\ (n + 1) - 1 = n
        /\ k + (n + 1) \in 1..k + N /\ (k + (n + 1)) - 1 = k + n
    BY <1>1, <1>3
  <2>2. R[n] \in Decoded /\ R[n + 1] = Reads(rest, n + 1, R[n]) /\ n + 1 \in 1..Len(rest)
    BY <1>1, <2>1 DEF IsDecoding, EndsWith
  <2>3. L[k + (n + 1)] = Reads(longer, k + (n + 1), L[k + n])
    BY <1>1, <2>1 DEF IsDecoding, EndsWith
  <2>4. ReadsTheSame(longer, k + (n + 1), rest, n + 1)
    BY <1>1, <2>1, SameEscapes
  <2>5. Follows(Reads(longer, k + (n + 1), L[k + n]), before, Reads(rest, n + 1, R[n]))
    BY <1>1, <1>3, <2>2, <2>4, SameReading
  <2> QED
    BY <2>2, <2>3, <2>5, Zenon
<1> HIDE DEF Same
<1>4. \A n \in Nat : n \in T => n + 1 \in T
  <2> SUFFICES ASSUME NEW n \in Nat, n \in T, n + 1 <= N
               PROVE  Same(n + 1)
    OBVIOUS
  <2>1. n <= N
    BY <1>1
  <2> QED
    BY <1>3, <2>1
<1>5. N \in T
  <2> HIDE DEF T
  <2> QED
    BY <1>1, <1>2, <1>4, NumbersByInduction
<1> QED
  BY <1>1, <1>5 DEF Same, Follows

(***************************************************************************)
(* What a byte or its escape at the front of a text is decoded to: for     *)
(* every byte and every text, what RoutesAreRight checks over a few.       *)
(***************************************************************************)
THEOREM DecodingByBytes ==
  ASSUME NEW b \in Byte, NEW rest \in Seq(Byte)
  PROVE  DecodingIsRight(b, rest)
<1>1. PICK N \in Nat : N = Len(rest)
  BY LenProperties
<1>2. PICK R : IsDecoding(R, rest) /\ PercentDecode(rest) = R[N].out
  BY <1>1, DecodeUnfolds
<1>3. PercentDecode(<<>>) = <<>>
  <2>1. <<>> \in Seq(Byte) /\ Len(<<>>) = 0
    BY EmptySeq
  <2>2. PICK E : IsDecoding(E, <<>>) /\ PercentDecode(<<>>) = E[0].out
    BY <2>1, DecodeUnfolds
  <2> QED
    BY <2>2 DEF IsDecoding
<1>4. PercentDecode(Escape(b) \o rest) = <<b>> \o PercentDecode(rest)
  <2>1. PICK high, low : high = HexDigit(b \div 16) /\ low = HexDigit(b % 16)
    OBVIOUS
  <2>2. b \div 16 \in 0..15 /\ (b % 16) \in 0..15 /\ 16 * (b \div 16) + (b % 16) = b
    BY DEF Byte
  <2>3. high \in Byte /\ low \in Byte /\ IsHex(high, low) /\ HexValue(high, low) = b
    <3>1. /\ high \in HexDigits /\ high # Plus /\ Digit(high) = b \div 16
          /\ low \in HexDigits /\ low # Plus /\ Digit(low) = b % 16
      BY <2>1, <2>2, HexDigitIsDigit
    <3>2. high \in Byte /\ low \in Byte
      BY <3>1 DEF HexDigits, Byte
    <3>3. HexValue(high, low) = 16 * (b \div 16) + (b % 16)
      BY <3>1 DEF HexValue
    <3>4. IsHex(high, low)
      BY <3>1 DEF IsHex
    <3> QED
      BY <2>2, <3>2, <3>3, <3>4
  <2>4. PICK front : front = <<Percent, high, low>>
    OBVIOUS
  <2>5. /\ front \in Seq(Byte) /\ Len(front) = 3
        /\ front[1] = Percent /\ front[2] = high /\ front[3] = low
    BY <2>3, <2>4 DEF Percent, Byte
  <2>6. PICK longer : longer = front \o rest
    OBVIOUS
  <2>7. /\ longer \in Seq(Byte) /\ Len(longer) = 3 + N
        /\ \A i \in 1..3 + N : longer[i] = IF i <= 3 THEN front[i] ELSE rest[i - 3]
    <3>1. /\ longer \in Seq(Byte) /\ Len(longer) = Len(front) + Len(rest)
          /\ \A i \in 1..Len(front) + Len(rest) :
               longer[i] = IF i <= Len(front) THEN front[i] ELSE rest[i - Len(front)]
      BY <2>5, <2>6, ConcatProperties
    <3> QED
      BY <1>1, <2>5, <3>1
  <2>8. /\ longer[1] = Percent /\ longer[2] = high /\ longer[3] = low
        /\ \A i \in 1..N : longer[3 + i] = rest[i]
    BY <2>5, <2>7
  <2>9. PICK L : IsDecoding(L, longer) /\ PercentDecode(longer) = L[3 + N].out
    BY <2>7, DecodeUnfolds
  <2>10. L[0] = [out |-> <<>>, skip |-> 0] /\ L[1] = Reads(longer, 1, L[0])
         /\ L[2] = Reads(longer, 2, L[1]) /\ L[3] = Reads(longer, 3, L[2])
    <3>1. 1 \in 1..Len(longer) /\ 2 \in 1..Len(longer) /\ 3 \in 1..Len(longer)
      BY <2>7
    <3>2. 1 - 1 = 0 /\ 2 - 1 = 1 /\ 3 - 1 = 2
      OBVIOUS
    <3> QED
      BY <2>9, <3>1, <3>2 DEF IsDecoding
  <2>11. IsEscape(longer, 1) /\ HexValue(longer[1 + 1], longer[1 + 2]) = b
    BY <2>3, <2>7, <2>8 DEF IsEscape
  <2>12. L[1] = [out |-> <<b>>, skip |-> 2]
    BY <2>10, <2>11 DEF Reads
  <2>13. L[2] = [out |-> <<b>>, skip |-> 1]
    BY <2>10, <2>12 DEF Reads
  <2>14. L[3] = [out |-> <<b>>, skip |-> 0]
    BY <2>10, <2>13 DEF Reads
  <2>15. L[3 + N].out = <<b>> \o R[N].out
    <3>1. L[3].out = <<b>> /\ L[3].skip = 0 /\ <<b>> \in Seq(Byte)
      BY <2>14
    <3>2. EndsWith(longer, rest, 3, N)
      BY <1>1, <2>7, <2>8 DEF EndsWith
    <3>3. Continues(L, longer, 3, <<b>>, R, rest, N)
      BY <1>2, <2>9, <3>1, <3>2 DEF Continues
    <3>4. \A k, before : Continues(L, longer, k, before, R, rest, N)
                         => L[k + N].out = before \o R[N].out
      BY DecodingGoesOn
    <3> QED
      BY <3>3, <3>4, Zenon
  <2>16. Escape(b) = front
    BY <2>1, <2>4 DEF Escape
  <2> QED
    BY <1>2, <2>6, <2>9, <2>15, <2>16
<1>5. ASSUME b # Percent
      PROVE  PercentDecode(<<b>> \o rest) = <<b>> \o PercentDecode(rest)
  <2>1. <<b>> \in Seq(Byte) /\ Len(<<b>>) = 1 /\ <<b>>[1] = b
    OBVIOUS
  <2>2. PICK longer : longer = <<b>> \o rest
    OBVIOUS
  <2>3. /\ longer \in Seq(Byte) /\ Len(longer) = 1 + N
        /\ longer[1] = b /\ \A i \in 2..1 + N : longer[i] = rest[i - 1]
    <3>1. PICK front \in Seq(Byte) : front = <<b>>
      BY <2>1
    <3>2. /\ longer \in Seq(Byte) /\ Len(longer) = Len(front) + Len(rest)
          /\ \A i \in 1..Len(front) + Len(rest) :
               longer[i] = IF i <= Len(front) THEN front[i] ELSE rest[i - Len(front)]
      BY <2>2, <3>1, ConcatProperties
    <3>3. Len(front) = 1 /\ front[1] = b
      BY <3>1
    <3> QED
      BY <1>1, <3>2, <3>3
  <2>4. \A i \in 1..N : longer[1 + i] = rest[i]
    <3> SUFFICES ASSUME NEW i \in 1..N
                 PROVE  longer[1 + i] = rest[i]
      OBVIOUS
    <3>1. 1 + i \in 2..1 + N /\ (1 + i) - 1 = i
      BY <1>1
    <3> QED
      BY <2>3, <3>1
  <2>5. PICK L : IsDecoding(L, longer) /\ PercentDecode(longer) = L[1 + N].out
    BY <2>3, DecodeUnfolds
  <2>6. L[0] = [out |-> <<>>, skip |-> 0] /\ L[1] = Reads(longer, 1, L[0])
    <3>1. 1 \in 1..Len(longer) /\ 1 - 1 = 0
      BY <2>3
    <3> QED
      BY <2>5, <3>1 DEF IsDecoding
  <2>7. ~IsEscape(longer, 1)
    BY <1>5, <2>3 DEF IsEscape
  <2>8. L[1] = [out |-> <<b>>, skip |-> 0]
    BY <2>3, <2>6, <2>7 DEF Reads
  <2>9. L[1 + N].out = <<b>> \o R[N].out
    <3>1. L[1].out = <<b>> /\ L[1].skip = 0
      BY <2>8
    <3>2. EndsWith(longer, rest, 1, N)
      BY <1>1, <2>3, <2>4 DEF EndsWith
    <3>3. Continues(L, longer, 1, <<b>>, R, rest, N)
      BY <1>2, <2>1, <2>5, <3>1, <3>2 DEF Continues
    <3>4. \A k, before : Continues(L, longer, k, before, R, rest, N)
                         => L[k + N].out = before \o R[N].out
      BY DecodingGoesOn
    <3> QED
      BY <3>3, <3>4, Zenon
  <2> QED
    BY <1>2, <2>2, <2>5, <2>9
<1> QED
  BY <1>3, <1>4, <1>5 DEF DecodingIsRight

(***************************************************************************)
(* A parameter that match_segments captures is the decoded text of the     *)
(* segment in its place, unless its name is there twice; and a name in the *)
(* pattern stands for itself.                                              *)
(***************************************************************************)
LEMMA CapturedInPlace ==
  ASSUME NEW raw \in Seq(Segments), NEW segments \in Seq(Segments),
         MatchSegments(raw, segments)
  PROVE  \A i \in DOMAIN Split(raw) :
           IF ~Split(raw)[i].colon THEN Split(raw)[i] = segments[i]
           ELSE NamesAreDistinct(Split(raw)) =>
                  Captured(raw, segments)[Split(raw)[i].name] = PercentDecode(Text(segments[i]))
<1>1. PICK pattern \in Seq(Segments) : pattern = Split(raw)
  BY SplitIsPath
<1>2. PICK N \in Nat : N = Len(pattern)
  BY LenProperties
<1>3. /\ Len(segments) = N /\ DOMAIN pattern = 1..N /\ DOMAIN segments = 1..N
      /\ \A i \in 1..N : ~pattern[i].colon => pattern[i] = segments[i]
  <2>1. Len(pattern) = Len(segments)
        /\ \A i \in DOMAIN pattern : ~pattern[i].colon => pattern[i] = segments[i]
    BY <1>1 DEF MatchSegments
  <2>2. DOMAIN pattern = 1..Len(pattern) /\ DOMAIN segments = 1..Len(segments)
    BY LenProperties
  <2> QED
    BY <1>2, <2>1, <2>2
<1>4. \A i \in 1..N : pattern[i] \in Segments
  BY <1>2, ElementOfSeq
<1>5. NamesAreDistinct(pattern)
        => \A i, j \in 1..N : pattern[i].colon /\ pattern[i] = pattern[j] => i = j
  BY <1>3 DEF NamesAreDistinct
<1> DEFINE At(name) == {i \in 1..N : pattern[i] = Param(name)}
           Colons == {pattern[i].name : i \in {j \in 1..N : pattern[j].colon}}
<1>6. PICK params : params = Captured(raw, segments)
  OBVIOUS
<1>7. params = [name \in Colons |-> PercentDecode(Text(segments[Max(At(name))]))]
  BY <1>1, <1>3, <1>6, ZenonT(30) DEF Captured
<1>8. ASSUME NEW i \in 1..N, pattern[i].colon, NamesAreDistinct(pattern)
      PROVE  params[pattern[i].name] = PercentDecode(Text(segments[i]))
  <2>1. PICK name : name = pattern[i].name
    OBVIOUS
  <2>2. pattern[i] = Param(name)
    BY <1>4, <1>8, <2>1 DEF Segments, Param
  <2>3. At(name) = {i}
    BY <1>5, <1>8, <2>2
  <2>4. Max({i}) = i
    BY DEF Max
  <2>5. name \in Colons
    BY <1>8, <2>1
  <2>6. params[name] = PercentDecode(Text(segments[Max(At(name))]))
    <3> HIDE DEF Colons, At
    <3> QED
      BY <1>7, <2>5
  <2>7. Max(At(name)) = i
    BY <2>3, <2>4, Zenon
  <2> QED
    BY <2>1, <2>6, <2>7
<1> QED
  BY <1>1, <1>3, <1>6, <1>8

(***************************************************************************)
(* Routing is right for every table of routes, every method and every      *)
(* path: what RoutesAreRight checks over tables of up to three routes.     *)
(***************************************************************************)
THEOREM RoutingIsRight ==
  ASSUME NEW routes \in Tables, NEW method, NEW path \in Seq(Segments)
  PROVE  RouteIsRight(routes, method, path)
<1>1. PICK found : found = MatchRoute(routes, method, path)
  OBVIOUS
<1>2. PICK allowed : allowed = AllowedMethods(routes, path)
  OBVIOUS
<1>3. IsFirst(found, routes, method, path)
  BY <1>1, FirstIsFound
<1>4. /\ allowed \in Seq(STRING)
      /\ ListsMethods(allowed, Len(routes), routes, path)
      /\ InOrder(allowed, Len(routes), routes, path)
  BY <1>2, AllowedAreListed
<1>5. DOMAIN allowed = 1..Len(allowed) /\ DOMAIN routes = 1..Len(routes)
  BY <1>4, LenProperties DEF Tables
<1>6. found # 0 <=> method \in ToSet(allowed)
  <2>1. method \in ToSet(allowed) <=> Contains(allowed, method)
    BY <1>5 DEF ToSet, Contains
  <2>2. found # 0 <=> \E i \in 1..Len(routes) : Answers(routes, i, method, path)
    BY <1>3 DEF IsFirst
  <2> QED
    BY <1>4, <2>1, <2>2 DEF ListsMethods
<1>7. ASSUME found # 0
      PROVE  LET pattern  == Split(routes[found].path)
                 segments == Split(path)
                 params   == Captured(routes[found].path, segments)
             IN \A i \in DOMAIN pattern :
                  IF ~pattern[i].colon THEN pattern[i] = segments[i]
                  ELSE NamesAreDistinct(pattern) =>
                         params[pattern[i].name] = PercentDecode(Text(segments[i]))
  <2>1. found \in 1..Len(routes) /\ MatchSegments(routes[found].path, Split(path))
    BY <1>3, <1>7 DEF IsFirst, Answers
  <2>2. routes[found].path \in Seq(Segments)
    <3> PICK S : S = [method : STRING, path : Seq(Segments)]
      OBVIOUS
    <3>1. routes \in Seq(S) /\ \A r \in S : r.path \in Seq(Segments)
      BY DEF Tables
    <3> QED
      BY <2>1, <3>1, ElementOfSeq
  <2> QED
    BY <2>1, <2>2, SplitIsPath, CapturedInPlace
<1>8. \A i, j \in DOMAIN allowed : i < j =>
        \E n \in DOMAIN routes :
          /\ Answers(routes, n, allowed[i], path)
          /\ \A m \in 1..n : ~Answers(routes, m, allowed[j], path)
  BY <1>4, <1>5 DEF InOrder
<1>9. found = MatchRoute(routes, method, <<Nothing>> \o path)
  <2>1. PICK longer : longer = <<Nothing>> \o path
    OBVIOUS
  <2>2. Split(longer) = Split(path)
    BY <2>1, LeadingSlash
  <2>3. MatchRoute(routes, method, longer) = MatchRoute(routes, method, path)
    BY <2>2, Zenon DEF MatchRoute, SelectInSeq
  <2> QED
    BY <1>1, <2>1, <2>3
<1> QED
  BY <1>1, <1>2, <1>3, <1>5, <1>6, <1>7, <1>8, <1>9, ZenonT(30) DEF RouteIsRight, IsFirst

----------------------------------------------------------------------------
(* What a value names is what a bounded or a suffix range sends.           *)
LEMMA SuffixIsNamed ==
  ASSUME NEW n \in Nat \ {0}, NEW value, value.first = Blank, value.last \in 1..TopIndex
  PROVE  LET len == Smaller(value.last, n)
         IN Named(n, value) = n - len..n - 1 /\ len \in 1..n
<1>1. value.last \in Nat /\ value.last > 0
  BY TopIndexAssumption
<1>2. Smaller(value.last, n) \in 1..n
  BY <1>1 DEF Smaller
<1>3. ASSUME NEW p \in 0..n - 1 PROVE n <= p + value.last <=> n - Smaller(value.last, n) <= p
  BY <1>1, <1>3 DEF Smaller
<1> QED
  BY <1>2, <1>3 DEF Named

LEMMA BoundedIsNamed ==
  ASSUME NEW n \in Nat \ {0}, NEW value, value.first \in 0..TopIndex, value.first < n,
         value.last = Blank \/ (value.last \in 0..TopIndex /\ value.first <= value.last)
  PROVE  LET end == IF value.last = Blank THEN n - 1 ELSE Smaller(value.last, n - 1)
         IN Named(n, value) = value.first..end /\ end \in value.first..n - 1
<1> DEFINE end == IF value.last = Blank THEN n - 1 ELSE Smaller(value.last, n - 1)
<1>1. value.first \in Nat /\ value.first # Blank /\ (value.last = Blank \/ value.last \in Nat)
  BY TopIndexAssumption DEF Blank
<1>2. end \in value.first..n - 1
  BY <1>1 DEF Smaller
<1>3. ASSUME NEW p \in 0..n - 1
      PROVE  value.last = Blank \/ p <= value.last <=> p <= end
  BY <1>1, <1>3 DEF Smaller, Blank
<1>4. Named(n, value) = {p \in 0..n - 1 : value.first <= p /\ p <= end}
  BY <1>1, <1>3 DEF Named
<1> QED
  BY <1>1, <1>2, <1>4

(* decide_range sends exactly what a header names, for files of any size   *)
(* and indexes of any width.                                               *)
LEMMA DecideRangeIsExact ==
  ASSUME NEW n \in Nat, NEW value \in RangeValues
  PROVE  RangeIsExact(n, value)
<1> DEFINE named == IF WellFormed(value) THEN Named(n, value) ELSE {}
<1>0. /\ value.comma \in BOOLEAN /\ value.dash \in BOOLEAN
      /\ value.first = Blank \/ value.first = Junk \/ value.first \in 0..TopIndex + 1
      /\ value.last = Blank \/ value.last = Junk \/ value.last \in 0..TopIndex + 1
      /\ TopIndex \in Nat
  BY TopIndexAssumption DEF RangeValues, Tokens
<1>1. CASE value.unit # "bytes" \/ value.comma \/ ~value.dash \/ n = 0
  <2>1. DecideRange(n, value) = Unsatisfiable
    BY <1>1 DEF DecideRange
  <2>2. n = 0 => Named(n, value) = {}
    BY DEF Named
  <2>3. named = {}
    BY <1>1, <2>2 DEF WellFormed
  <2> QED
    BY <2>1, <2>3 DEF RangeIsExact
<1> DEFINE usable == value.unit = "bytes" /\ ~value.comma /\ value.dash /\ n # 0
<1>2. CASE usable /\ value.first = Blank
  <2>1. DecideRange(n, value) = SuffixRange(n, value.last)
    BY <1>2 DEF DecideRange
  <2>2. CASE value.last \in 1..TopIndex
    <3> DEFINE len == Smaller(value.last, n)
    <3>1. WellFormed(value)
      BY <1>0, <1>2, <2>2 DEF WellFormed, IsIndex
    <3>2. Named(n, value) = n - len..n - 1 /\ len \in 1..n
      BY <1>2, <2>2, SuffixIsNamed
    <3>3. DecideRange(n, value) = Partial(n - len, len)
      BY <1>0, <2>1, <2>2 DEF SuffixRange, IsIndex
    <3> HIDE DEF len
    <3>4. n - len + len - 1 = n - 1 /\ n - 1 \in n - len..n - 1
      BY <3>2
    <3>5. named # {}
      BY <3>1, <3>2, <3>4
    <3> QED
      BY <3>1, <3>2, <3>3, <3>4, <3>5 DEF RangeIsExact, Partial
  <2>3. CASE value.last \notin 1..TopIndex
    <3>1. DecideRange(n, value) = Unsatisfiable
      BY <1>0, <2>1, <2>3 DEF SuffixRange, IsIndex
    <3>2. value.last = 0 => Named(n, value) = {}
      BY <1>2 DEF Named
    <3>3. named = {}
      BY <1>0, <1>2, <2>3, <3>2 DEF WellFormed, IsIndex, Blank
    <3> QED
      BY <3>1, <3>3 DEF RangeIsExact
  <2> QED
    BY <2>2, <2>3
<1>3. CASE usable /\ value.first # Blank
  <2> DEFINE good == /\ IsIndex(value.first)
                     /\ value.last = Blank \/ (IsIndex(value.last) /\ value.first <= value.last)
  <2>1. DecideRange(n, value) = BoundedRange(n, value.first, value.last)
    BY <1>3 DEF DecideRange
  <2>2. WellFormed(value) <=> good
    BY <1>0, <1>3 DEF WellFormed, IsIndex, Blank
  <2>3. CASE good /\ value.first < n
    <3> DEFINE end == IF value.last = Blank THEN n - 1 ELSE Smaller(value.last, n - 1)
    <3>1. Named(n, value) = value.first..end /\ end \in value.first..n - 1
      BY <1>3, <2>3, BoundedIsNamed DEF IsIndex
    <3>2. value.first \in Nat
      BY <2>3 DEF IsIndex
    <3>3. DecideRange(n, value) = Partial(value.first, end - value.first + 1)
      BY <1>0, <2>1, <2>3, <3>2 DEF BoundedRange, IsIndex, Blank
    <3> HIDE DEF end
    <3>4. end \in Int /\ value.first + (end - value.first + 1) - 1 = end
      BY <3>1, <3>2
    <3>5. named # {}
      BY <2>2, <2>3, <3>1, <3>2
    <3> QED
      BY <2>2, <2>3, <3>1, <3>3, <3>4, <3>5 DEF RangeIsExact, Partial
  <2>4. CASE ~good \/ ~(value.first < n)
    <3>1. DecideRange(n, value) = Unsatisfiable
      BY <1>0, <2>1, <2>4 DEF BoundedRange, IsIndex, Blank
    <3>2. good /\ ~(value.first < n) => Named(n, value) = {}
      BY <1>3 DEF Named, IsIndex
    <3>3. named = {}
      BY <2>2, <2>4, <3>2
    <3> QED
      BY <3>1, <3>3 DEF RangeIsExact
  <2> QED
    BY <2>3, <2>4
<1> QED
  BY <1>0, <1>1, <1>2, <1>3

----------------------------------------------------------------------------
(* Before a file is handed over nothing has happened. *)
IdleInv ==
  RelayIdle =>
    /\ bytes = 0 /\ channel = <<>> /\ received = <<>>
    /\ client = "reading" /\ ending = "complete"

(* The chunks on the wire and in the channel are those from the offset on, *)
(* in order; an error travels behind them, after the line.                 *)
ChannelInv ==
  /\ Hung => channel = <<>>
  /\ ~Hung /\ ~RelayDone => bytes = Len(received) + Len(channel)
  /\ Len(received) <= bytes
  /\ \A n \in 1..Len(received) : received[n] = body.offset + n
  /\ \A n \in 1..Len(channel) :
       IF channel[n] = Broken THEN RelayDone
       ELSE channel[n] = body.offset + Len(received) + n /\ Len(received) + n <= bytes

(* Only a part with something in it does not start at the start of a file. *)
HandInv ==
  /\ relay = "seeking" => bytes < body.len
  /\ relay = "sending" => bytes < body.len /\ position = body.offset + bytes + 1

(* Whatever is logged is right from the moment it is decided. *)
EndingInv ==
  IF relay \in {"logging", "breaking", "done"}
  THEN /\ ending = "complete" <=> bytes = body.len
       /\ ending = "client_disconnected" => Hung
  ELSE ending = "complete"

LineInv ==
  line = IF relay \in {"breaking", "done"}
         THEN <<[error |-> ending, bytes |-> bytes, entry |-> ending]>> ELSE <<>>

ClientInv ==
  /\ client = "complete" => Len(received) = Wanted
  /\ client = "truncated" => RelayDone

RelayInv == /\ RelayTypeOK /\ IdleInv /\ ChannelInv /\ HandInv /\ EndingInv /\ LineInv
            /\ ClientInv

LEMMA NothingSent ==
  /\ \A S : <<>> \in Seq(S)
  /\ Len(<<>>) = 0
  BY EmptySeq

LEMMA NextPlace ==
  \A a, b, n \in Nat : a + b + 1 = a + (b + 1) /\ a + (b + 1) + n = a + b + (n + 1)
  OBVIOUS

LEMMA RelayInitKeeps == RelayInit => RelayInv
<1> SUFFICES ASSUME RelayInit PROVE RelayInv
  OBVIOUS
<1>1. body \in Bodies /\ body.offset = 0 /\ body.len = 0
  BY FileRelayAssumption DEF RelayInit, Bodies
<1>2. channel \in Seq(0..MaxFile) /\ received \in Seq(1..MaxFile) /\ Len(channel) = 0
  BY NothingSent DEF RelayInit
<1>3. line \in Seq([error : {"complete", "file_stream_error", "client_disconnected"},
                   bytes : 0..MaxFile,
                   entry : {"open", "complete", "file_stream_error", "client_disconnected"}])
  BY NothingSent DEF RelayInit
<1>4. RelayTypeOK
  <2>1. body.offset + body.len <= MaxFile /\ bytes \in 0..body.len /\ position \in 0..MaxFile
        /\ Len(channel) <= StreamCapacity
    BY <1>1, <1>2, FileRelayAssumption DEF RelayInit, Broken
  <2> QED
    BY <1>1, <1>2, <1>3, <2>1 DEF RelayInit, RelayTypeOK
<1>5. IdleInv /\ ChannelInv /\ HandInv /\ EndingInv /\ LineInv /\ ClientInv
  BY NothingSent DEF RelayInit, IdleInv, ChannelInv, HandInv, EndingInv, LineInv, ClientInv, RelayDone, Hung
<1> QED
  BY <1>4, <1>5 DEF RelayInv

(* A part that lies in the file is taken over. *)
LEMMA RelayFileKeeps ==
  ASSUME RelayInv, NEW handed \in Bodies, NEW isHead \in BOOLEAN,
         handed.offset + handed.len <= MaxFile, handed.offset > 0 => handed.len > 0,
         RelayFile(handed, isHead)
  PROVE  RelayInv'
  BY FileRelayAssumption
  DEF RelayFile, RelayInv, RelayTypeOK, IdleInv, ChannelInv, HandInv, EndingInv, LineInv,
      ClientInv, RelayIdle, RelayDone, Hung, Bodies, Wanted, wireVars

LEMMA RelayIsUntouched == RelayInv /\ UNCHANGED relayVars => RelayInv'
  BY DEF RelayInv, RelayTypeOK, IdleInv, ChannelInv, HandInv, EndingInv, LineInv, ClientInv,
         RelayIdle, RelayDone, Hung, Wanted, relayVars, fileVars, taskVars, wireVars

----------------------------------------------------------------------------
(* The task: it counts a chunk where it puts it into the channel. *)
LEMMA TaskKeeps == RelayInv /\ FileTask => RelayInv'
<1> SUFFICES ASSUME RelayInv, FileTask PROVE RelayInv'
  OBVIOUS
<1> USE FileRelayAssumption DEF RelayIdle, RelayDone, Hung, Wanted, fileVars, taskVars, wireVars
<1>0. /\ body.offset \in Nat /\ body.len \in Nat /\ body.offset + body.len <= MaxFile
      /\ bytes \in 0..body.len /\ Len(channel) \in Nat /\ Len(received) \in Nat
  BY DEF RelayInv, RelayTypeOK, Bodies
<1>1. CASE RelaySeeks
  <2>1. RelayTypeOK' /\ HandInv'
    BY <1>1, <1>0 DEF RelaySeeks, FileFails, RelayInv, RelayTypeOK, HandInv
  <2>2. ChannelInv' /\ IdleInv' /\ ClientInv'
    BY <1>1 DEF RelaySeeks, FileFails, RelayInv, ChannelInv, IdleInv, ClientInv
  <2>3. EndingInv' /\ LineInv'
    BY <1>1, <1>0 DEF RelaySeeks, FileFails, RelayInv, EndingInv, LineInv, HandInv
  <2> QED
    BY <2>1, <2>2, <2>3 DEF RelayInv
<1>2. CASE RelayReads
  <2>1. relay' = "sending" => position' = body.offset + bytes + 1 /\ bytes < body.len
    BY <1>2 DEF RelayReads, FileFails, NextPosition
  <2>2. position' \in 0..MaxFile
    BY <1>2, <1>0, <2>1, SMTT(30) DEF RelayReads, FileFails, RelayInv, RelayTypeOK
  <2>3. RelayTypeOK' /\ HandInv'
    BY <1>2, <1>0, <2>1, <2>2 DEF RelayReads, FileFails, RelayInv, RelayTypeOK, HandInv
  <2>4. ChannelInv' /\ IdleInv' /\ ClientInv'
    BY <1>2 DEF RelayReads, FileFails, RelayInv, ChannelInv, IdleInv, ClientInv
  <2>5. EndingInv' /\ LineInv'
    BY <1>2, <1>0 DEF RelayReads, FileFails, RelayInv, EndingInv, LineInv
  <2> QED
    BY <2>3, <2>4, <2>5 DEF RelayInv
<1>3. CASE RelayCompletes
  BY <1>3, <1>0
  DEF RelayCompletes, RelayInv, RelayTypeOK, HandInv, ChannelInv, IdleInv, ClientInv, EndingInv,
      LineInv
<1>4. CASE RelaySends
  <2>1. CASE ~Hung
    <3>1. /\ Len(channel) < StreamCapacity /\ relay = "sending" /\ relay' = "reading"
          /\ channel' = Append(channel, position) /\ bytes' = bytes + 1
          /\ UNCHANGED <<body, head, position, ending, terminal, pending, line, client, received>>
      BY <1>4, <2>1 DEF RelaySends
    <3>2. /\ bytes < body.len /\ position = body.offset + bytes + 1
          /\ bytes = Len(received) + Len(channel)
      BY <2>1, <3>1 DEF RelayInv, HandInv, ChannelInv
    <3>3. channel \in Seq(0..MaxFile) /\ position \in 0..MaxFile
      BY DEF RelayInv, RelayTypeOK
    <3>4. /\ channel' \in Seq(0..MaxFile) /\ Len(channel') = Len(channel) + 1
          /\ \A n \in 1..Len(channel) : channel'[n] = channel[n]
          /\ channel'[Len(channel) + 1] = position
      BY <3>1, <3>3
    <3>5. RelayTypeOK'
      <4>1. bytes' \in 0..body.len
        BY <1>0, <3>1, <3>2
      <4>2. Len(channel) \in Nat /\ StreamCapacity \in Nat
        BY <1>0, <3>3, LenProperties, FileRelayAssumption
      <4>3. Len(channel') <= StreamCapacity
        BY <3>1, <3>4, <4>2
      <4> QED
        BY <3>1, <3>4, <4>1, <4>3 DEF RelayInv, RelayTypeOK
    <3>6. ASSUME NEW n \in 1..Len(channel')
          PROVE  /\ channel'[n] # Broken
                 /\ channel'[n] = body.offset + Len(received) + n /\ Len(received) + n <= bytes'
      <4>1. CASE n \in 1..Len(channel)
        BY <4>1, <1>0, <3>1, <3>4, SMTT(30) DEF RelayInv, ChannelInv
      <4>2. CASE n = Len(channel) + 1
        <5>1. channel'[n] = body.offset + bytes + 1
          BY <4>2, <3>2, <3>4
        <5>2. Len(received) + n = bytes + 1
          BY <4>2, <1>0, <3>2
        <5>3. body.offset + bytes + 1 = body.offset + Len(received) + n
          BY <1>0, <5>2, SMTT(30)
        <5> QED
          BY <1>0, <3>1, <5>1, <5>2, <5>3, SMTT(30) DEF Broken
      <4> QED
        BY <1>0, <3>4, <4>1, <4>2
    <3>7. ChannelInv'
      <4>1. ~Hung' /\ bytes' = Len(received) + Len(channel') /\ Len(received) <= bytes'
        BY <1>0, <2>1, <3>1, <3>2, <3>4
      <4> QED
        BY <4>1, <3>1, <3>6 DEF RelayInv, ChannelInv
    <3>8. IdleInv' /\ HandInv' /\ EndingInv' /\ LineInv' /\ ClientInv'
      BY <2>1, <3>1 DEF RelayInv, IdleInv, HandInv, EndingInv, LineInv, ClientInv
    <3> QED
      BY <3>5, <3>7, <3>8 DEF RelayInv
  <2>2. CASE Hung
    <3>1. RelayTypeOK' /\ HandInv' /\ IdleInv' /\ ClientInv' /\ LineInv'
      BY <1>4, <2>2 DEF RelaySends, RelayInv, RelayTypeOK, HandInv, IdleInv, ClientInv, LineInv
    <3>2. ChannelInv' /\ EndingInv'
      BY <1>4, <2>2, <1>0 DEF RelaySends, RelayInv, ChannelInv, HandInv, EndingInv
    <3> QED
      BY <3>1, <3>2 DEF RelayInv
  <2> QED
    BY <2>1, <2>2
<1>5. CASE RelayLogs
  <2>1. line = <<>>
    BY <1>5 DEF RelayLogs, RelayInv, LineInv
  <2>2. line' = <<[error |-> ending, bytes |-> bytes, entry |-> ending]>>
    BY <1>5, <2>1 DEF RelayLogs
  <2>3. RelayTypeOK'
    BY <1>5, <1>0, <2>2 DEF RelayLogs, RelayInv, RelayTypeOK
  <2>4. HandInv' /\ IdleInv' /\ ClientInv' /\ EndingInv' /\ LineInv'
    BY <1>5, <2>2 DEF RelayLogs, RelayInv, HandInv, IdleInv, ClientInv, EndingInv, LineInv
  <2>5. ChannelInv'
    BY <1>5, <1>0 DEF RelayLogs, RelayInv, ChannelInv
  <2> QED
    BY <2>3, <2>4, <2>5 DEF RelayInv
<1>6. CASE RelayBreaks
  <2>1. HandInv' /\ IdleInv' /\ ClientInv' /\ EndingInv' /\ LineInv'
    BY <1>6 DEF RelayBreaks, RelayInv, HandInv, IdleInv, ClientInv, EndingInv, LineInv
  <2>2. /\ relay' = "done"
        /\ UNCHANGED <<body, head, position, bytes, ending, terminal, pending, line, client, received>>
    BY <1>6 DEF RelayBreaks
  <2>3. channel \in Seq(0..MaxFile) /\ Broken \in 0..MaxFile
    BY DEF RelayInv, RelayTypeOK, Broken
  <2>4. CASE Hung
    <3>1. UNCHANGED channel
      BY <1>6, <2>4 DEF RelayBreaks
    <3>2. RelayTypeOK' /\ ChannelInv'
      BY <2>2, <2>4, <3>1 DEF RelayInv, RelayTypeOK, ChannelInv
    <3> QED
      BY <2>1, <3>2 DEF RelayInv
  <2>5. CASE ~Hung
    <3>1. channel' = Append(channel, Broken) /\ Len(channel) < StreamCapacity
      BY <1>6, <2>5 DEF RelayBreaks
    <3>2. /\ channel' \in Seq(0..MaxFile) /\ Len(channel') = Len(channel) + 1
          /\ \A n \in 1..Len(channel) : channel'[n] = channel[n]
          /\ channel'[Len(channel) + 1] = Broken
      BY <3>1, <2>3
    <3>3. RelayTypeOK'
      BY <1>0, <2>2, <3>1, <3>2 DEF RelayInv, RelayTypeOK
    <3>4. ChannelInv'
      <4>1. ASSUME NEW n \in 1..Len(channel'), channel'[n] # Broken
            PROVE  channel'[n] = body.offset + Len(received) + n /\ Len(received) + n <= bytes
        <5>1. n \in 1..Len(channel)
          BY <1>0, <3>2, <4>1
        <5> QED
          BY <3>2, <4>1, <5>1 DEF RelayInv, ChannelInv
      <4> QED
        BY <2>2, <2>5, <4>1 DEF RelayInv, ChannelInv
    <3> QED
      BY <2>1, <3>3, <3>4 DEF RelayInv
  <2> QED
    BY <2>4, <2>5
<1> QED
  BY <1>1, <1>2, <1>3, <1>4, <1>5, <1>6 DEF FileTask

(* hyper and the reader: what leaves the channel is next on the wire, or   *)
(* the client learns that there is no more.                                *)
LEMMA WireKeeps == RelayInv /\ (Hyper \/ ReaderLeaves) => RelayInv'
<1> SUFFICES ASSUME RelayInv, Hyper \/ ReaderLeaves PROVE RelayInv'
  OBVIOUS
<1> USE FileRelayAssumption DEF RelayIdle, RelayDone, Hung, Wanted, fileVars, taskVars, wireVars
<1>0. /\ body.offset \in Nat /\ body.len \in Nat /\ body.offset + body.len <= MaxFile
      /\ bytes \in 0..body.len /\ Len(channel) \in Nat /\ Len(received) \in Nat
      /\ channel \in Seq(0..MaxFile) /\ received \in Seq(1..MaxFile)
  BY DEF RelayInv, RelayTypeOK, Bodies
<1>1. CASE HyperFinishes \/ ReaderLeaves
  <2>0. channel' = <<>> /\ channel' \in Seq(0..MaxFile) /\ Len(channel') = 0
    BY <1>1, NothingSent DEF HyperFinishes, ReaderLeaves
  <2>1. RelayTypeOK'
    BY <1>1, <2>0 DEF HyperFinishes, ReaderLeaves, RelayInv, RelayTypeOK
  <2>2. ChannelInv' /\ IdleInv' /\ HandInv' /\ LineInv'
    BY <1>1, <1>0, SMTT(30)
    DEF HyperFinishes, ReaderLeaves, RelayInv, ChannelInv, IdleInv, HandInv, LineInv
  <2>3. EndingInv' /\ ClientInv'
    BY <1>1 DEF HyperFinishes, ReaderLeaves, RelayInv, EndingInv, ClientInv
  <2> QED
    BY <2>1, <2>2, <2>3 DEF RelayInv
<1>2. CASE HyperSeesEnd
  <2>1. RelayTypeOK'
    BY <1>2, <1>0 DEF HyperSeesEnd, RelayInv, RelayTypeOK
  <2>2. ChannelInv' /\ IdleInv' /\ HandInv' /\ LineInv' /\ EndingInv' /\ ClientInv'
    BY <1>2
    DEF HyperSeesEnd, RelayInv, ChannelInv, IdleInv, HandInv, LineInv, EndingInv, ClientInv
  <2> QED
    BY <2>1, <2>2 DEF RelayInv
<1>3. CASE HyperWrites /\ Head(channel) = Broken
  <2>1. /\ ~Hung /\ channel # <<>> /\ client' = "truncated" /\ channel' = <<>>
        /\ UNCHANGED <<fileVars, taskVars, received>>
    BY <1>3 DEF HyperWrites
  <2>2. Len(channel) > 0 /\ channel[1] = Broken
    BY <1>0, <1>3, <2>1
  <2>3. RelayDone
    BY <1>0, <2>2 DEF RelayInv, ChannelInv
  <2>4. RelayTypeOK'
    BY <2>1, <1>0 DEF RelayInv, RelayTypeOK
  <2> QED
    BY <2>1, <2>3, <2>4, <1>0
    DEF RelayInv, ChannelInv, IdleInv, HandInv, LineInv, EndingInv, ClientInv
<1>4. CASE HyperWrites /\ Head(channel) # Broken
  <2>1. /\ ~Hung /\ channel # <<>> /\ UNCHANGED client
        /\ received' = Append(received, Head(channel)) /\ channel' = Tail(channel)
        /\ UNCHANGED <<fileVars, taskVars>>
    BY <1>4 DEF HyperWrites
  <2>2. Len(channel) > 0 /\ Head(channel) = channel[1]
    BY <1>0, <2>1
  <2>3. Head(channel) = body.offset + Len(received) + 1 /\ Len(received) + 1 <= bytes
    BY <1>0, <1>4, <2>2 DEF RelayInv, ChannelInv
  <2>4. Head(channel) \in 1..MaxFile
    BY <1>0, <2>3, SMTT(30)
  <2>5. /\ received' \in Seq(1..MaxFile) /\ Len(received') = Len(received) + 1
        /\ \A n \in 1..Len(received) : received'[n] = received[n]
        /\ received'[Len(received) + 1] = Head(channel)
    BY <1>0, <2>1, <2>4
  <2>6. /\ channel' \in Seq(0..MaxFile) /\ Len(channel') = Len(channel) - 1
        /\ \A n \in 1..Len(channel') : channel'[n] = channel[n + 1]
    BY <1>0, <2>1
  <2>7. RelayTypeOK'
    BY <1>0, <2>1, <2>5, <2>6 DEF RelayInv, RelayTypeOK
  <2>8. ASSUME NEW n \in 1..Len(received') PROVE received'[n] = body.offset + n
    <3>1. CASE n \in 1..Len(received)
      BY <3>1, <2>5 DEF RelayInv, ChannelInv
    <3>2. CASE n = Len(received) + 1
      <4>1. received'[n] = body.offset + Len(received) + 1
        BY <3>2, <2>3, <2>5
      <4> QED
        BY <3>2, <4>1, <1>0, NextPlace
    <3> QED
      BY <1>0, <2>5, <3>1, <3>2
  <2>9. ASSUME NEW n \in 1..Len(channel')
        PROVE  IF channel'[n] = Broken THEN RelayDone
               ELSE /\ channel'[n] = body.offset + Len(received') + n
                    /\ Len(received') + n <= bytes
    <3>1. n + 1 \in 1..Len(channel)
      BY <1>0, <2>6
    <3>2. channel'[n] = channel[n + 1]
      BY <2>6
    <3>3. IF channel[n + 1] = Broken THEN RelayDone
          ELSE /\ channel[n + 1] = body.offset + Len(received) + (n + 1)
               /\ Len(received) + (n + 1) <= bytes
      BY <3>1 DEF RelayInv, ChannelInv
    <3>4. n \in Nat /\ Len(received') + n = Len(received) + (n + 1)
      BY <1>0, <2>5
    <3>5. body.offset + Len(received') + n = body.offset + Len(received) + (n + 1)
      <4>1. Len(received') = Len(received) + 1
        BY <2>5
      <4>2. body.offset + (Len(received) + 1) + n = body.offset + Len(received) + (n + 1)
        <5>1. body.offset \in Nat /\ Len(received) \in Nat /\ n \in Nat
          BY <1>0, <3>4
        <5> QED
          BY <5>1, NextPlace, SMTT(30)
      <4> QED
        BY <4>1, <4>2
    <3> QED
      BY <3>2, <3>3, <3>4, <3>5
  <2>10. ChannelInv'
    <3>1. Len(received') <= bytes /\ Len(received') + Len(channel') = Len(received) + Len(channel)
      BY <1>0, <2>3, <2>5, <2>6
    <3> QED
      BY <2>1, <2>8, <2>9, <3>1 DEF RelayInv, ChannelInv
  <2>11. IdleInv' /\ HandInv' /\ LineInv' /\ EndingInv' /\ ClientInv'
    BY <2>1 DEF RelayInv, IdleInv, HandInv, LineInv, EndingInv, ClientInv
  <2> QED
    BY <2>7, <2>10, <2>11 DEF RelayInv
<1> QED
  BY <1>1, <1>2, <1>3, <1>4 DEF Hyper

LEMMA RelayStepKeeps == RelayInv /\ RelayStep => RelayInv'
  BY TaskKeeps, WireKeeps DEF RelayStep
=============================================================================
