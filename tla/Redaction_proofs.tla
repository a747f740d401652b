-------------------------- MODULE Redaction_proofs --------------------------
(***************************************************************************)
(* Proofs about redact(): of every text, with whatever matches in whatever *)
(* order and overlap, it masks exactly what the ranking says, keeps the    *)
(* rest in order, and reports the categories of its markers.               *)
(*                                                                         *)
(* The loops and the sorts of the code are functions over 0 .. n and a     *)
(* CHOOSE; what they hold is proved by induction over a set of numbers     *)
(* (LoopInvariant), for the two loops from what one round keeps: Greedy    *)
(* for the selection, SplicedTo for the masked text.                       *)
(***************************************************************************)
EXTENDS Redaction, SequenceTheorems, FiniteSetTheorems, WellFoundedInduction, TLAPS

---------------------------------------------------------------------------
(* Induction, of a set of numbers in place of a predicate.                 *)

LEMMA Induction ==
    ASSUME NEW S, 0 \in S, \A n \in Nat : n \in S => n + 1 \in S
    PROVE  Nat \subseteq S
<1>. DEFINE T == Nat \ S
<1>1. SUFFICES ASSUME T # {} PROVE FALSE
  OBVIOUS
<1>2. PICK n \in T : \A k \in T : ~ (<<k, n>> \in OpToRel(<, Nat))
  BY <1>1, WFMin, NatLessThanWellFounded
<1>3. n # 0 /\ n - 1 \in Nat /\ n - 1 < n
  OBVIOUS
<1>4. n - 1 \in T
  BY <1>3
<1>5. <<n - 1, n>> \in OpToRel(<, Nat)
  BY <1>3 DEF OpToRel
<1>. QED  BY <1>2, <1>4, <1>5

\* What holds before a loop and is kept by every round holds after each.
LEMMA LoopInvariant ==
    ASSUME NEW N \in Nat, NEW S, 0 \in S, \A n \in 1 .. N : n - 1 \in S => n \in S
    PROVE  0 .. N \subseteq S
<1>. DEFINE T == {n \in Nat : n <= N => n \in S}
<1>1. 0 \in T
  OBVIOUS
<1>2. ASSUME NEW n \in Nat, n \in T PROVE n + 1 \in T
  BY <1>2
<1>. HIDE DEF T
<1>3. Nat \subseteq T
  BY <1>1, <1>2, Induction
<1>. QED  BY <1>3 DEF T

Rounds(f, N, start, round) ==
    f[0] = start /\ \A n \in 1 .. N : f[n] = round[<<n, f[n - 1]>>]

\* A loop has values: the start, and what each round makes of the value before.
LEMMA LoopExists ==
    ASSUME NEW N \in Nat, NEW D, NEW start \in D, NEW round \in [(1 .. N) \X D -> D]
    PROVE  \E f \in [0 .. N -> D] : Rounds(f, N, start, round)
<1>. DEFINE Runs(f, m) == Rounds(f, m, start, round)
            S == {m \in 0 .. N : \E f \in [0 .. m -> D] : Runs(f, m)}
<1>1. 0 \in S
  <2>. DEFINE f == [n \in 0 .. 0 |-> start]
  <2>1. f \in [0 .. 0 -> D] /\ Runs(f, 0)
    BY DEF Rounds
  <2>. HIDE DEF f, Runs
  <2>. QED  BY <2>1
<1>2. ASSUME NEW m \in 1 .. N, m - 1 \in S
      PROVE  m \in S
  <2>1. PICK f \in [0 .. m - 1 -> D] : Runs(f, m - 1)
    BY <1>2
  <2>. DEFINE g == [n \in 0 .. m |-> IF n = m THEN round[<<m, f[m - 1]>>] ELSE f[n]]
  <2>2. g \in [0 .. m -> D]
    <3>1. m - 1 \in 0 .. m - 1
      OBVIOUS
    <3>2. round[<<m, f[m - 1]>>] \in D
      BY <3>1
    <3>. QED  BY <3>2
  <2>3. ASSUME NEW n \in 1 .. m
        PROVE  g[n] = round[<<n, g[n - 1]>>]
    <3>1. n - 1 \in 0 .. m /\ n - 1 # m /\ g[n - 1] = f[n - 1]
      OBVIOUS
    <3>2. CASE n = m
      BY <3>1, <3>2
    <3>3. CASE n # m
      <4>1. n \in 1 .. m - 1 /\ g[n] = f[n]
        BY <3>3
      <4>. QED  BY <2>1, <3>1, <4>1 DEF Rounds
    <3>. QED  BY <3>2, <3>3
  <2>4. g[0] = start
    BY <2>1 DEF Rounds
  <2>. HIDE DEF g
  <2>5. Runs(g, m)
    BY <2>3, <2>4 DEF Rounds
  <2>. HIDE DEF Runs
  <2>. QED  BY <2>2, <2>5
<1>. HIDE DEF S
<1>3. 0 .. N \subseteq S
  BY <1>1, <1>2, LoopInvariant
<1>. QED  BY <1>3 DEF S

---------------------------------------------------------------------------
(* Sorting.                                                                *)

Orders(R, S) ==
    /\ \A x \in S : <<x, x>> \notin R
    /\ \A x, y \in S : x # y => <<x, y>> \in R \/ <<y, x>> \in R
    /\ \A x, y, z \in S : <<x, y>> \in R /\ <<y, z>> \in R => <<x, z>> \in R

Below(R, S, x) == {y \in S : <<y, x>> \in R}

\* A finite set can be sorted: each element goes to the place after all below it.
LEMMA SortExists ==
    ASSUME NEW S, IsFiniteSet(S), NEW R, Orders(R, S)
    PROVE  \E s \in [1 .. Cardinality(S) -> S] :
              \A j, k \in 1 .. Cardinality(S) : j < k => <<s[j], s[k]>> \in R
<1>. DEFINE N == Cardinality(S)
            place == [x \in S |-> Cardinality(Below(R, S, x)) + 1]
<1>1. N \in Nat
  BY FS_CardinalityType
<1>2. \A x \in S : IsFiniteSet(Below(R, S, x)) /\ Cardinality(Below(R, S, x)) \in Nat
  <2>1. \A x \in S : Below(R, S, x) \in SUBSET S
    BY DEF Below
  <2>. QED  BY <2>1, FS_Subset, FS_CardinalityType
<1>3. \A x \in S : place[x] \in 1 .. N
  <2>1. TAKE x \in S
  <2>2. x \notin Below(R, S, x) /\ Below(R, S, x) \in SUBSET (S \ {x})
    BY DEF Orders, Below
  <2>3. IsFiniteSet(S \ {x}) /\ Cardinality(S \ {x}) = N - 1
    BY FS_RemoveElement
  <2>4. Cardinality(Below(R, S, x)) <= N - 1
    BY <2>2, <2>3, FS_Subset
  <2>. QED  BY <1>1, <1>2, <2>4
<1>4. ASSUME NEW x \in S, NEW y \in S, <<x, y>> \in R
      PROVE  place[x] < place[y]
  <2>1. x \notin Below(R, S, x) /\ Below(R, S, x) \union {x} \in SUBSET Below(R, S, y)
    BY <1>4 DEF Orders, Below
  <2>2. Cardinality(Below(R, S, x) \union {x}) = Cardinality(Below(R, S, x)) + 1
    BY <1>2, <2>1, FS_AddElement
  <2>3. Cardinality(Below(R, S, x) \union {x}) <= Cardinality(Below(R, S, y))
    BY <1>2, <2>1, FS_Subset
  <2>. QED  BY <1>2, <2>2, <2>3
<1>. HIDE DEF place
<1>5. place \in [S -> 1 .. N]
  BY <1>3 DEF place
<1>6. place \in Injection(S, 1 .. N)
  <2>1. ASSUME NEW x \in S, NEW y \in S, place[x] = place[y]
        PROVE  x = y
    <3>1. ~ (place[x] < place[y]) /\ ~ (place[y] < place[x])
      BY <1>1, <1>3, <2>1
    <3>2. <<x, y>> \notin R /\ <<y, x>> \notin R
      BY <1>4, <3>1 DEF Rounds
    <3>. QED  BY <3>2 DEF Orders
  <2>. QED  BY <1>5, <2>1 DEF Injection, IsInjective
<1>7. place \in Surjection(S, 1 .. N)
  <2>1. IsFiniteSet(1 .. N) /\ Cardinality(1 .. N) = N
    BY <1>1, FS_Interval
  <2>. QED  BY <1>6, <2>1, FS_Injection
<1>8. \A k \in 1 .. N : \E x \in S : place[x] = k
  BY <1>7 DEF Surjection
<1>. DEFINE s == [k \in 1 .. N |-> CHOOSE x \in S : place[x] = k]
<1>9. \A k \in 1 .. N : s[k] \in S /\ place[s[k]] = k
  BY <1>8
<1>. HIDE DEF s
<1>10. ASSUME NEW j \in 1 .. N, NEW k \in 1 .. N, j < k
       PROVE  <<s[j], s[k]>> \in R
  <2>1. s[j] \in S /\ s[k] \in S /\ s[j] # s[k]
    BY <1>9, <1>10
  <2>2. <<s[k], s[j]>> \notin R
    BY <1>4, <1>9, <1>10
  <2>. QED  BY <2>1, <2>2 DEF Orders
<1>11. s \in [1 .. N -> S]
  BY <1>9 DEF s
<1>. QED  BY <1>10, <1>11

\* A sorted sequence of as many elements as there are has every one of them, once.
LEMMA SortedHasAll ==
    ASSUME NEW S, IsFiniteSet(S), NEW R, Orders(R, S),
           NEW s \in [1 .. Cardinality(S) -> S],
           \A j, k \in 1 .. Cardinality(S) : j < k => <<s[j], s[k]>> \in R
    PROVE  /\ \A j, k \in 1 .. Cardinality(S) : s[j] = s[k] => j = k
           /\ \A x \in S : \E k \in 1 .. Cardinality(S) : s[k] = x
           /\ s \in Seq(S) /\ Len(s) = Cardinality(S) /\ Range(s) = S
<1>. DEFINE N == Cardinality(S)
<1>1. N \in Nat
  BY FS_CardinalityType
<1>2. ASSUME NEW j \in 1 .. N, NEW k \in 1 .. N, s[j] = s[k]
      PROVE  j = k
  <2>1. j < k \/ k < j \/ j = k
    BY <1>1
  <2>. QED  BY <1>2, <2>1 DEF Orders
<1>3. s \in Injection(1 .. N, S)
  BY <1>2 DEF Injection, IsInjective
<1>4. s \in Surjection(1 .. N, S)
  <2>1. IsFiniteSet(1 .. N) /\ Cardinality(1 .. N) = N
    BY <1>1, FS_Interval
  <2>. QED  BY <1>3, <2>1, FS_Injection
<1>5. \A x \in S : \E k \in 1 .. N : s[k] = x
  BY <1>4 DEF Surjection
<1>. HIDE DEF N
<1>6. s \in Seq(S) /\ Len(s) = N /\ DOMAIN s = 1 .. N
  BY <1>1 DEF N
<1>. QED  BY <1>2, <1>5, <1>6 DEF N, Range

---------------------------------------------------------------------------
(* The matches in the order in which they are considered.                  *)

RankOrder(found) ==
    {p \in (DOMAIN found) \X (DOMAIN found) : Before(found, p[1], p[2])}

LEMMA BeforeOrders ==
    ASSUME NEW found \in Seq(Match)
    PROVE  Orders(RankOrder(found), DOMAIN found)
<1>. DEFINE D == DOMAIN found
<1>1. D = 1 .. Len(found) /\ Len(found) \in Nat
  BY LenProperties
<1>2. \A i \in D : i \in Nat /\ found[i].start \in Nat /\ Priority(found[i]) \in Nat
  <2>1. \A i \in D : found[i] \in Match
    BY <1>1, ElementOfSeq
  <2>. HIDE DEF D
  <2>2. \A i \in D : found[i].start \in Nat
    BY <2>1 DEF Match
  <2>3. \A i \in D : Priority(found[i]) \in Nat
    BY DEF Priority
  <2>. QED  BY <1>1, <2>2, <2>3
<1>3. \A i \in D : ~ Before(found, i, i)
  BY <1>2 DEF Before
<1>4. \A i, j \in D : i # j => Before(found, i, j) \/ Before(found, j, i)
  BY <1>2 DEF Before
<1>5. \A i, j, k \in D : Before(found, i, j) /\ Before(found, j, k) => Before(found, i, k)
  BY <1>2 DEF Before
<1>6. \A i, j \in D : <<i, j>> \in RankOrder(found) <=> Before(found, i, j)
  BY DEF RankOrder
<1>. HIDE DEF D
<1>7. Orders(RankOrder(found), D)
  BY <1>3, <1>4, <1>5, <1>6 DEF Orders
<1>. QED  BY <1>7 DEF D

LEMMA RankedSorts ==
    ASSUME NEW found \in Seq(Match)
    PROVE  /\ Ranked(found) \in [1 .. Len(found) -> 1 .. Len(found)]
           /\ \A j, k \in 1 .. Len(found) :
                 j < k <=> Before(found, Ranked(found)[j], Ranked(found)[k])
           /\ \A j, k \in 1 .. Len(found) : Ranked(found)[j] = Ranked(found)[k] => j = k
           /\ \A i \in 1 .. Len(found) : \E k \in 1 .. Len(found) : Ranked(found)[k] = i
<1>. DEFINE D == DOMAIN found
            N == Cardinality(D)
            R == RankOrder(found)
            r == Ranked(found)
            Sorts(s) == \A j, k \in 1 .. N : j < k => Before(found, s[j], s[k])
<1>1. D = 1 .. Len(found) /\ Len(found) \in Nat
  BY LenProperties
<1>2. IsFiniteSet(D) /\ N = Len(found)
  BY <1>1, FS_Interval
<1>3. Orders(R, D)
  BY BeforeOrders, SMTT(30)
<1>4. \A i, j \in D : <<i, j>> \in R <=> Before(found, i, j)
  BY DEF RankOrder
<1>5. r = CHOOSE s \in [1 .. N -> D] : Sorts(s)
  BY DEF Ranked, Sorted
<1>. HIDE DEF D, N, R, r
<1>6. \E s \in [1 .. N -> D] : \A j, k \in 1 .. N : j < k => <<s[j], s[k]>> \in R
  BY <1>2, <1>3, SortExists DEF N
<1>7. \E s \in [1 .. N -> D] : Sorts(s)
  BY <1>4, <1>6
<1>8. r \in [1 .. N -> D] /\ Sorts(r)
  <2>. HIDE DEF Sorts
  <2>. QED  BY <1>5, <1>7
<1>9. \A j, k \in 1 .. N : j < k => <<r[j], r[k]>> \in R
  BY <1>4, <1>8
<1>10. /\ \A j, k \in 1 .. N : r[j] = r[k] => j = k
       /\ \A i \in D : \E k \in 1 .. N : r[k] = i
  <2>1. r \in [1 .. Cardinality(D) -> D]
    BY <1>8 DEF N
  <2>2. \A j, k \in 1 .. Cardinality(D) : j < k => <<r[j], r[k]>> \in R
    BY <1>9 DEF N
  <2>. QED  BY <1>2, <1>3, <2>1, <2>2, SortedHasAll DEF N
<1>11. ASSUME NEW j \in 1 .. N, NEW k \in 1 .. N, Before(found, r[j], r[k])
       PROVE  j < k
  <2>1. r[j] \in D /\ r[k] \in D
    BY <1>8
  <2>2. <<r[j], r[k]>> \in R
    BY <1>4, <1>11, <2>1
  <2>3. r[j] # r[k] /\ <<r[k], r[j]>> \notin R
    BY <1>3, <2>1, <2>2 DEF Orders
  <2>4. j \in Nat /\ k \in Nat
    BY <1>1, <1>2
  <2>. QED  BY <1>9, <2>3, <2>4
<1>. QED  BY <1>1, <1>2, <1>8, <1>10, <1>11 DEF D, r

---------------------------------------------------------------------------
(* The loops' values.                                                      *)

LEMMA SelectedDef ==
    ASSUME NEW found \in Seq(Match)
    PROVE  \A n \in 0 .. Len(found) :
              Selected(found)[n] = IF n = 0 THEN {}
                                   ELSE Take(Selected(found)[n - 1], found[Ranked(found)[n]])
<1>. DEFINE N == Len(found)
            r == Ranked(found)
            Runs(f) == f = [n \in 0 .. N |-> IF n = 0 THEN {} ELSE Take(f[n - 1], found[r[n]])]
            round == [p \in (1 .. N) \X SUBSET Match |-> Take(p[2], found[r[p[1]]])]
<1>1. Selected(found) = CHOOSE f : Runs(f)
  BY DEF Selected
<1>2. N \in Nat /\ \A n \in 1 .. N : found[r[n]] \in Match
  BY LenProperties, ElementOfSeq, RankedSorts
<1>3. round \in [(1 .. N) \X SUBSET Match -> SUBSET Match]
  BY <1>2 DEF Take
<1>4. PICK f \in [0 .. N -> SUBSET Match] : Rounds(f, N, {}, round)
  <2>1. {} \in SUBSET Match
    OBVIOUS
  <2>. HIDE DEF N, round
  <2>. QED  BY <1>2, <1>3, <2>1, LoopExists
<1>5. Runs(f)
  <2>1. ASSUME NEW n \in 0 .. N
        PROVE  f[n] = IF n = 0 THEN {} ELSE Take(f[n - 1], found[r[n]])
    <3>1. CASE n = 0
      BY <1>4, <3>1 DEF Rounds
    <3>2. CASE n # 0
      <4>1. n \in 1 .. N /\ n - 1 \in 0 .. N
        BY <1>2, <3>2
      <4>2. f[n - 1] \in SUBSET Match
        BY <4>1
      <4>3. round[<<n, f[n - 1]>>] = Take(f[n - 1], found[r[n]])
        BY <4>1, <4>2
      <4>4. f[n] = round[<<n, f[n - 1]>>]
        BY <1>4, <4>1 DEF Rounds
      <4>. QED  BY <3>2, <4>3, <4>4
    <3>. QED  BY <3>1, <3>2
  <2>. QED  BY <2>1
<1>6. Runs(Selected(found))
  <2>. HIDE DEF Runs
  <2>. QED  BY <1>1, <1>5
<1>. HIDE DEF N, r
<1>7. \A n \in 0 .. N : Selected(found)[n] =
                          IF n = 0 THEN {} ELSE Take(Selected(found)[n - 1], found[r[n]])
  BY <1>6
<1>. QED  BY <1>7 DEF N, r

Accs == [cursor: Nat \ {0}, pieces: Seq(Piece)]

LEMMA SliceIs ==
    ASSUME NEW first \in Nat, NEW last \in Nat
    PROVE  /\ Slice(first, last) \in Seq(Piece)
           /\ Range(Slice(first, last)) = {Raw(p) : p \in first .. last}
           /\ \A k \in DOMAIN Slice(first, last) :
                 Slice(first, last)[k] = Raw(first + k - 1) /\ first + k - 1 \in first .. last
<1>. DEFINE n == IF first > last THEN 0 ELSE last - first + 1
            s == Slice(first, last)
<1>1. n \in Nat /\ s = [k \in 1 .. n |-> Raw(first + k - 1)]
  BY DEF Slice
<1>2. \A k \in 1 .. n : first + k - 1 \in first .. last /\ Raw(first + k - 1) \in Piece
  <2>1. \A k \in 1 .. n : first + k - 1 \in first .. last /\ first + k - 1 \in Nat
    OBVIOUS
  <2>. QED  BY <2>1 DEF Raw, Piece
<1>3. \A p \in first .. last : p - first + 1 \in 1 .. n /\ p = first + (p - first + 1) - 1
  OBVIOUS
<1>. HIDE DEF n, s
<1>4. s \in Seq(Piece) /\ DOMAIN s = 1 .. n
  <2>1. s \in [1 .. n -> Piece] /\ DOMAIN s = 1 .. n
    BY <1>1, <1>2
  <2>. QED  BY <1>1, <2>1, SeqDef
<1>5. \A p \in first .. last : \E k \in 1 .. n : Raw(p) = s[k]
  BY <1>1, <1>3
<1>6. Range(s) = {Raw(p) : p \in first .. last}
  BY <1>1, <1>2, <1>4, <1>5 DEF Range
<1>. QED  BY <1>1, <1>2, <1>4, <1>6 DEF s

LEMMA SpliceType ==
    ASSUME NEW acc \in Accs, NEW m \in Match
    PROVE  Splice(acc, m) \in Accs
<1>1. acc.cursor \in Nat /\ m.start - 1 \in Nat /\ acc.pieces \in Seq(Piece)
  BY DEF Accs, Match
<1>2. Slice(acc.cursor, m.start - 1) \in Seq(Piece)
  BY <1>1, SliceIs
<1>3. Marker(m) \in Piece
  BY DEF Marker, Match, Piece
<1>4. <<Marker(m)>> \in Seq(Piece)
  BY <1>3
<1>5. acc.pieces \o Slice(acc.cursor, m.start - 1) \o <<Marker(m)>> \in Seq(Piece)
  BY <1>1, <1>2, <1>4, ConcatProperties
<1>. QED  BY <1>5 DEF Splice, Accs, Match

LEMMA SplicedDef ==
    ASSUME NEW resolved \in Seq(Match)
    PROVE  \A n \in 0 .. Len(resolved) :
              Spliced(resolved)[n] = IF n = 0 THEN [cursor |-> 1, pieces |-> <<>>]
                                     ELSE Splice(Spliced(resolved)[n - 1], resolved[n])
<1>. DEFINE N == Len(resolved)
            start == [cursor |-> 1, pieces |-> <<>>]
            Runs(f) == f = [n \in 0 .. N |-> IF n = 0 THEN start ELSE Splice(f[n - 1], resolved[n])]
            round == [p \in (1 .. N) \X Accs |-> Splice(p[2], resolved[p[1]])]
<1>1. Spliced(resolved) = CHOOSE f : Runs(f)
  BY DEF Spliced
<1>2. N \in Nat /\ \A n \in 1 .. N : resolved[n] \in Match
  BY LenProperties, ElementOfSeq
<1>3. round \in [(1 .. N) \X Accs -> Accs]
  BY <1>2, SpliceType
<1>4. start \in Accs
  BY DEF Accs
<1>5. PICK f \in [0 .. N -> Accs] : Rounds(f, N, start, round)
  <2>. HIDE DEF N, round, start
  <2>. QED  BY <1>2, <1>3, <1>4, LoopExists
<1>. HIDE DEF start
<1>6. Runs(f)
  <2>1. ASSUME NEW n \in 0 .. N
        PROVE  f[n] = IF n = 0 THEN start ELSE Splice(f[n - 1], resolved[n])
    <3>1. CASE n = 0
      BY <1>5, <3>1 DEF Rounds
    <3>2. CASE n # 0
      <4>1. n \in 1 .. N /\ n - 1 \in 0 .. N
        BY <1>2, <3>2
      <4>2. f[n - 1] \in Accs
        BY <4>1
      <4>3. round[<<n, f[n - 1]>>] = Splice(f[n - 1], resolved[n])
        BY <4>1, <4>2
      <4>4. f[n] = round[<<n, f[n - 1]>>]
        BY <1>5, <4>1 DEF Rounds
      <4>. QED  BY <3>2, <4>3, <4>4
    <3>. QED  BY <3>1, <3>2
  <2>. QED  BY <2>1
<1>7. Runs(Spliced(resolved))
  <2>. HIDE DEF Runs
  <2>. QED  BY <1>1, <1>6
<1>. HIDE DEF N
<1>8. \A n \in 0 .. N : Spliced(resolved)[n] =
                          IF n = 0 THEN start ELSE Splice(Spliced(resolved)[n - 1], resolved[n])
  BY <1>7
<1>. QED  BY <1>8 DEF N, start

---------------------------------------------------------------------------
(* What is selected.                                                       *)

Distinct(found) == \A i, j \in DOMAIN found : found[i] = found[j] => i = j

\* The k-th match to be considered.
Nth(found, k) == found[Ranked(found)[k]]

\* Of the first n matches those are selected that overlap no selected one before them.
Greedy(found, selected, n) ==
    /\ selected \in SUBSET {Nth(found, k) : k \in 1 .. n}
    /\ IsFiniteSet(selected)
    /\ \A x, y \in selected : x # y => ~ Overlap(x, y)
    /\ \A k \in 1 .. n :
          Nth(found, k) \in selected <=>
              \A l \in 1 .. n : l < k /\ Nth(found, l) \in selected =>
                                    ~ Overlap(Nth(found, k), Nth(found, l))

LEMMA NthOnce ==
    ASSUME NEW found \in Seq(Match), Distinct(found)
    PROVE  /\ Len(found) \in Nat
           /\ \A k \in 1 .. Len(found) : Nth(found, k) \in Match
           /\ \A j, k \in 1 .. Len(found) : Nth(found, j) = Nth(found, k) => j = k
<1>1. Len(found) \in Nat /\ DOMAIN found = 1 .. Len(found)
  BY LenProperties
<1>2. \A k \in 1 .. Len(found) : Ranked(found)[k] \in 1 .. Len(found)
  BY RankedSorts
<1>3. \A k \in 1 .. Len(found) : Nth(found, k) \in Match
  BY <1>2, ElementOfSeq DEF Nth
<1>4. \A j, k \in 1 .. Len(found) :
         Nth(found, j) = Nth(found, k) => Ranked(found)[j] = Ranked(found)[k]
  BY <1>1, <1>2 DEF Nth, Distinct
<1>5. \A j, k \in 1 .. Len(found) : Ranked(found)[j] = Ranked(found)[k] => j = k
  BY RankedSorts
<1>. QED  BY <1>1, <1>3, <1>4, <1>5

LEMMA OverlapBoth ==
    ASSUME NEW x \in Match, NEW y \in Match
    PROVE  Overlap(x, y) <=> Overlap(y, x)
BY DEF Overlap, Match

LEMMA TakeGreedy ==
    ASSUME NEW found \in Seq(Match), Distinct(found), NEW n \in 1 .. Len(found),
           NEW selected, Greedy(found, selected, n - 1)
    PROVE  Greedy(found, Take(selected, Nth(found, n)), n)
<1>. DEFINE x(k) == Nth(found, k)
            taken == Take(selected, x(n))
<1>1. Len(found) \in Nat /\ \A k \in 1 .. n : k \in 1 .. Len(found)
  BY NthOnce
<1>2. \A k \in 1 .. n : x(k) \in Match
  BY <1>1, NthOnce
<1>3. \A j, k \in 1 .. n : x(j) = x(k) => j = k
  BY <1>1, NthOnce
<1>4. \A k \in 1 .. n : k \in 1 .. n - 1 \/ k = n
  BY <1>1
<1>5. \A k \in 1 .. n - 1 : k \in 1 .. n /\ k < n
  BY <1>1
<1>6. n \in 1 .. n
  BY <1>1
<1>. HIDE DEF x
<1>7. selected \in SUBSET {x(k) : k \in 1 .. n - 1}
  BY DEF Greedy, x
<1>8. x(n) \notin selected
  BY <1>3, <1>5, <1>6, <1>7
<1>9. selected \subseteq Match
  BY <1>2, <1>5, <1>7
<1>10. taken = selected \/ taken = selected \union {x(n)}
  BY DEF Take
<1>11. x(n) \in taken <=> \A y \in selected : ~ Overlap(x(n), y)
  BY <1>8 DEF Take
<1>12. \A k \in 1 .. n - 1 : x(k) \in taken <=> x(k) \in selected
  BY <1>3, <1>5, <1>6, <1>10
<1>. HIDE DEF taken
<1>13. taken \in SUBSET {x(k) : k \in 1 .. n}
  BY <1>5, <1>6, <1>7, <1>10
<1>14. IsFiniteSet(taken)
  BY <1>10, FS_AddElement DEF Greedy
<1>15. \A y, z \in taken : y # z => ~ Overlap(y, z)
  <2>1. CASE x(n) \notin taken
    BY <1>10, <2>1 DEF Greedy
  <2>2. CASE x(n) \in taken
    <3>1. taken = selected \union {x(n)}
      BY <1>8, <1>10, <2>2
    <3>2. \A y \in selected : ~ Overlap(x(n), y) /\ ~ Overlap(y, x(n))
      BY <1>2, <1>6, <1>9, <1>11, <2>2, OverlapBoth
    <3>3. \A y, z \in selected : y # z => ~ Overlap(y, z)
      BY DEF Greedy
    <3>. QED  BY <3>1, <3>2, <3>3
  <2>. QED  BY <2>1, <2>2
<1>16. ASSUME NEW k \in 1 .. n - 1
       PROVE  x(k) \in taken <=>
                \A l \in 1 .. n : l < k /\ x(l) \in taken => ~ Overlap(x(k), x(l))
  <2>1. x(k) \in selected <=>
            \A l \in 1 .. n - 1 : l < k /\ x(l) \in selected => ~ Overlap(x(k), x(l))
    BY DEF Greedy, x
  <2>2. \A l \in 1 .. n : l < k => l \in 1 .. n - 1
    BY <1>1
  <2>. QED  BY <1>5, <1>12, <2>1, <2>2
<1>17. x(n) \in taken <=>
          \A l \in 1 .. n : l < n /\ x(l) \in taken => ~ Overlap(x(n), x(l))
  <2>1. \A l \in 1 .. n : l < n <=> l \in 1 .. n - 1
    BY <1>1
  <2>2. \A y \in selected : \E l \in 1 .. n - 1 : y = x(l)
    BY <1>7
  <2>. QED  BY <1>11, <1>12, <2>1, <2>2
<1>18. \A k \in 1 .. n : x(k) \in taken <=>
          \A l \in 1 .. n : l < k /\ x(l) \in taken => ~ Overlap(x(k), x(l))
  BY <1>4, <1>16, <1>17
<1>. QED  BY <1>13, <1>14, <1>15, <1>18 DEF Greedy, taken, x

LEMMA SelectedIsGreedy ==
    ASSUME NEW found \in Seq(Match), Distinct(found)
    PROVE  Greedy(found, Selected(found)[Len(found)], Len(found))
<1>. DEFINE N == Len(found)
            S == {n \in 0 .. N : Greedy(found, Selected(found)[n], n)}
<1>1. N \in Nat
  BY LenProperties
<1>2. 0 \in S
  <2>1. Selected(found)[0] = {}
    BY <1>1, SelectedDef
  <2>2. Greedy(found, {}, 0)
    BY FS_EmptySet DEF Greedy
  <2>3. 0 \in 0 .. N /\ Greedy(found, Selected(found)[0], 0)
    BY <1>1, <2>1, <2>2
  <2>. QED  BY <2>3
<1>3. ASSUME NEW n \in 1 .. N, n - 1 \in S
      PROVE  n \in S
  <2>1. n \in 0 .. N /\ n # 0
    BY <1>1
  <2>2. Selected(found)[n] = Take(Selected(found)[n - 1], Nth(found, n))
    BY <2>1, SelectedDef DEF Nth
  <2>3. Greedy(found, Selected(found)[n - 1], n - 1)
    BY <1>3
  <2>. QED  BY <2>1, <2>2, <2>3, TakeGreedy
<1>. HIDE DEF S, N
<1>4. 0 .. N \subseteq S
  BY <1>1, <1>2, <1>3, LoopInvariant
<1>. QED  BY <1>1, <1>4 DEF S, N

---------------------------------------------------------------------------
(* The selected matches in the order of the text.                          *)

Apart(S) ==
    /\ S \in SUBSET Match
    /\ IsFiniteSet(S)
    /\ \A x \in S : x.start < x.end
    /\ \A x, y \in S : x # y => ~ Overlap(x, y)

Starts(R, S) == \A x, y \in S : <<x, y>> \in R <=> x.start < y.start

LEMMA StartsOrder ==
    ASSUME NEW S, Apart(S), NEW R, Starts(R, S)
    PROVE  Orders(R, S)
<1>1. \A x \in S : x.start \in Nat /\ x.end \in Nat /\ x.start < x.end
  BY DEF Apart, Match
<1>2. \A x, y \in S : x # y => ~ (x.start < y.end /\ x.end > y.start)
  BY DEF Apart, Overlap
<1>3. ASSUME NEW x \in S
      PROVE  <<x, x>> \notin R
  <2>1. ~ (x.start < x.start)
    BY <1>1
  <2>. QED  BY <2>1 DEF Starts
<1>4. ASSUME NEW x \in S, NEW y \in S, x # y
      PROVE  <<x, y>> \in R \/ <<y, x>> \in R
  <2>1. x.start < y.start \/ y.start < x.start
    BY <1>1, <1>2, <1>4
  <2>. QED  BY <2>1 DEF Starts
<1>5. ASSUME NEW x \in S, NEW y \in S, NEW z \in S, <<x, y>> \in R, <<y, z>> \in R
      PROVE  <<x, z>> \in R
  <2>1. x.start < y.start /\ y.start < z.start
    BY <1>5 DEF Starts
  <2>2. x.start < z.start
    BY <1>1, <2>1
  <2>. QED  BY <2>2 DEF Starts
<1>. QED  BY <1>3, <1>4, <1>5 DEF Orders

ByStart(S) == Sorted(S, LAMBDA m, n : m.start < n.start)

LEMMA ApartSorted ==
    ASSUME NEW S, Apart(S)
    PROVE  /\ ByStart(S) \in Seq(Match)
           /\ Range(ByStart(S)) = S
           /\ \A j, k \in 1 .. Len(ByStart(S)) :
                 j < k => ByStart(S)[j].end <= ByStart(S)[k].start
<1>. DEFINE N == Cardinality(S)
            s == ByStart(S)
            R == {p \in S \X S : p[1].start < p[2].start}
            Sorts(t) == \A j, k \in 1 .. N : j < k => t[j].start < t[k].start
<1>1. \A x \in S : x.start \in Nat /\ x.end \in Nat /\ x.start < x.end
  BY DEF Apart, Match
<1>2. Starts(R, S)
  BY DEF Starts
<1>3. s = CHOOSE t \in [1 .. N -> S] : Sorts(t)
  BY DEF ByStart, Sorted
<1>. HIDE DEF R, N, s
<1>4. Orders(R, S) /\ IsFiniteSet(S)
  BY <1>2, StartsOrder DEF Apart
<1>5. \E t \in [1 .. N -> S] : \A j, k \in 1 .. N : j < k => <<t[j], t[k]>> \in R
  BY <1>4, SortExists DEF N
<1>6. \E t \in [1 .. N -> S] : Sorts(t)
  BY <1>2, <1>5 DEF Starts
<1>7. s \in [1 .. N -> S] /\ Sorts(s)
  <2>. HIDE DEF Sorts
  <2>. QED  BY <1>3, <1>6
<1>8. s \in Seq(S) /\ Len(s) = N /\ Range(s) = S
  <2>1. s \in [1 .. Cardinality(S) -> S]
    BY <1>7 DEF N
  <2>2. \A j, k \in 1 .. Cardinality(S) : j < k => <<s[j], s[k]>> \in R
    BY <1>2, <1>7 DEF N, Starts
  <2>. QED  BY <1>4, <2>1, <2>2, SortedHasAll DEF N
<1>9. ASSUME NEW j \in 1 .. N, NEW k \in 1 .. N, j < k
      PROVE  s[j].end <= s[k].start
  <2>1. s[j] \in S /\ s[k] \in S /\ s[j].start < s[k].start
    BY <1>7, <1>9
  <2>. DEFINE x == s[j]
              y == s[k]
  <2>2. /\ x \in S /\ y \in S /\ x.start < y.start
        /\ x.start \in Nat /\ x.end \in Nat /\ y.start \in Nat /\ y.end \in Nat
    BY <1>1, <2>1
  <2>. HIDE DEF x, y
  <2>3. x # y
    BY <2>2
  <2>4. ~ (x.start < y.end /\ x.end > y.start) /\ y.start < y.end
    BY <1>1, <2>2, <2>3 DEF Apart, Overlap
  <2>5. x.end <= y.start
    BY <2>2, <2>4
  <2>. QED  BY <2>5 DEF x, y
<1>10. s \in Seq(Match)
  BY <1>8, SeqMonotonic DEF Apart
<1>. QED  BY <1>8, <1>9, <1>10 DEF s

---------------------------------------------------------------------------
(* What the detectors find.                                                *)

LEMMA RecognizersOnce ==
    /\ DOMAIN Recognizers = 1 .. 7
    /\ \A p, q \in DOMAIN Recognizers : Recognizers[p] = Recognizers[q] => p = q
    /\ Range(Recognizers) \intersect NamedEntities = {}
    /\ "OTP_PIN_CVV_PASSWORD" \in Range(Recognizers)
<1>1. DOMAIN Recognizers = 1 .. 7
  BY DEF Recognizers
<1>2. 1 .. 7 = {1, 2, 3, 4, 5, 6, 7}
  OBVIOUS
<1>3. \A p, q \in {1, 2, 3, 4, 5, 6, 7} : Recognizers[p] = Recognizers[q] => p = q
  BY DEF Recognizers
<1>4. \A p \in {1, 2, 3, 4, 5, 6, 7} : Recognizers[p] \notin NamedEntities
  BY DEF Recognizers, NamedEntities
<1>5. Recognizers[1] = "OTP_PIN_CVV_PASSWORD"
  BY DEF Recognizers
<1>. QED  BY <1>1, <1>2, <1>3, <1>4, <1>5 DEF Range

\* Two secrets are found by one recognizer, which never matches the same digits twice.
SecretsApart(found) ==
    \A i, j \in DOMAIN found :
        /\ i # j
        /\ found[i].category = "OTP_PIN_CVV_PASSWORD"
        /\ found[j].category = "OTP_PIN_CVV_PASSWORD"
        => ~ Overlap(found[i], found[j])

Within(found, len) ==
    \A i \in DOMAIN found : found[i].start < found[i].end /\ found[i].end <= len + 1

LEMMA FoundOnce ==
    ASSUME NEW text \in Text, Findable(text)
    PROVE  Distinct(text.found) /\ SecretsApart(text.found)
<1>. DEFINE found == text.found
<1>1. found \in Seq(Match)
  BY DEF Text
<1>. HIDE DEF found
<1>2. DOMAIN found = 1 .. Len(found) /\ Len(found) \in Nat
  BY <1>1, LenProperties
<1>3. ASSUME NEW i \in DOMAIN found
      PROVE  /\ found[i].start \in Nat /\ found[i].end \in Nat
             /\ found[i].start < found[i].end
  <2>1. found[i] \in Match
    BY <1>1, <1>2, ElementOfSeq
  <2>2. found[i].start < found[i].end
    BY DEF Findable, Range, found
  <2>. QED  BY <2>1, <2>2 DEF Match
<1>4. ASSUME NEW i \in DOMAIN found, NEW j \in DOMAIN found, i < j,
             found[i].category = found[j].category
      PROVE  found[i].end <= found[j].start
  <2>1. ASSUME NEW p \in DOMAIN Recognizers, NEW q \in DOMAIN Recognizers, p < q,
               Recognizers[p] = found[i].category, Recognizers[q] = found[j].category
        PROVE  FALSE
    <3>1. p = q
      BY <1>4, <2>1, RecognizersOnce
    <3>2. p \in 1 .. 7
      BY RecognizersOnce
    <3>. QED  BY <2>1, <3>1, <3>2
  <2>. QED  BY <1>4, <2>1 DEF Findable, DeterministicOrder, found
<1>5. \A i, j \in DOMAIN found : i # j => i < j \/ j < i
  BY <1>2
<1>6. ASSUME NEW i \in DOMAIN found, NEW j \in DOMAIN found, i # j,
             found[i].category = found[j].category
      PROVE  found[i].end <= found[j].start \/ found[j].end <= found[i].start
  BY <1>4, <1>5, <1>6
<1>7. Distinct(found)
  <2>1. ASSUME NEW i \in DOMAIN found, NEW j \in DOMAIN found, found[i] = found[j], i # j
        PROVE  FALSE
    <3>1. found[i].end <= found[i].start
      BY <1>6, <2>1
    <3>. QED  BY <1>3, <3>1
  <2>. QED  BY <2>1 DEF Distinct
<1>8. SecretsApart(found)
  <2>1. ASSUME NEW i \in DOMAIN found, NEW j \in DOMAIN found, i # j,
               found[i].category = found[j].category
        PROVE  ~ Overlap(found[i], found[j])
    BY <1>3, <1>6, <2>1 DEF Overlap
  <2>. QED  BY <2>1 DEF SecretsApart
<1>. QED  BY <1>7, <1>8 DEF found

LEMMA MatchesAre ==
    ASSUME NEW text \in Text, Findable(text), NEW language
    PROVE  /\ matches(text, language) \in Seq(Match)
           /\ Distinct(matches(text, language))
           /\ SecretsApart(matches(text, language))
           /\ Within(matches(text, language), text.len)
<1>. DEFINE f == text.found
            e == text.entities
            a == f \o e
<1>1. f \in Seq(Match) /\ e \in Seq(Match)
  BY DEF Text
<1>2. \A i \in DOMAIN f : f[i].start < f[i].end /\ f[i].end <= text.len + 1
                          /\ f[i].category \in Range(Recognizers)
  BY DEF Findable, Range
<1>3. \A i \in DOMAIN e : e[i].start < e[i].end /\ e[i].end <= text.len + 1
                          /\ e[i].category \in NamedEntities
  BY DEF Findable, Range
<1>4. \A i, j \in DOMAIN e : i # j => e[i] # e[j]
  BY DEF Findable, EntitiesOnce
<1>5. Distinct(f) /\ SecretsApart(f)
  BY FoundOnce
<1>. HIDE DEF f, e
<1>6. a \in Seq(Match) /\ Len(f) \in Nat /\ Len(e) \in Nat
  BY <1>1, ConcatProperties, LenProperties
<1>7. \A i \in DOMAIN a : \/ i \in DOMAIN f /\ a[i] = f[i]
                          \/ i \notin DOMAIN f /\ i - Len(f) \in DOMAIN e /\ a[i] = e[i - Len(f)]
  <2>1. DOMAIN f = 1 .. Len(f) /\ DOMAIN e = 1 .. Len(e) /\ DOMAIN a = 1 .. Len(f) + Len(e)
    BY <1>1, <1>6, LenProperties, ConcatProperties
  <2>2. \A i \in 1 .. Len(f) + Len(e) : a[i] = IF i <= Len(f) THEN f[i] ELSE e[i - Len(f)]
    BY <1>1, ConcatProperties
  <2>. HIDE DEF a
  <2>3. \A i \in 1 .. Len(f) + Len(e) :
           (i <= Len(f) /\ i \in 1 .. Len(f))
           \/ (~ (i <= Len(f)) /\ i \notin 1 .. Len(f) /\ i - Len(f) \in 1 .. Len(e))
    BY <1>6
  <2>. QED  BY <2>1, <2>2, <2>3
<1>8. \A i \in DOMAIN a : i \in Nat
  BY <1>6, LenProperties
<1>. HIDE DEF a
<1>9. Distinct(a)
  <2>1. ASSUME NEW i \in DOMAIN a, NEW j \in DOMAIN a, a[i] = a[j]
        PROVE  i = j
    <3>1. CASE i \in DOMAIN f /\ j \in DOMAIN f
      BY <1>5, <1>7, <2>1, <3>1 DEF Distinct
    <3>2. CASE i \notin DOMAIN f /\ j \notin DOMAIN f
      <4>1. i - Len(f) = j - Len(f)
        BY <1>4, <1>7, <2>1, <3>2
      <4>. QED  BY <1>6, <1>8, <4>1
    <3>3. CASE (i \in DOMAIN f /\ j \notin DOMAIN f) \/ (j \in DOMAIN f /\ i \notin DOMAIN f)
      <4>1. a[i].category \in Range(Recognizers) /\ a[i].category \in NamedEntities
        BY <1>2, <1>3, <1>7, <2>1, <3>3
      <4>. QED  BY <4>1, RecognizersOnce
    <3>. QED  BY <3>1, <3>2, <3>3
  <2>. QED  BY <2>1 DEF Distinct
<1>10. SecretsApart(a)
  <2>1. \A i \in DOMAIN a : a[i].category = "OTP_PIN_CVV_PASSWORD" =>
                                i \in DOMAIN f /\ a[i] = f[i]
    BY <1>3, <1>7, RecognizersOnce
  <2>. QED  BY <1>5, <2>1 DEF SecretsApart
<1>11. Within(a, text.len)
  BY <1>2, <1>3, <1>7 DEF Within
<1>12. Within(f, text.len)
  BY <1>2 DEF Within
<1>13. matches(text, language) = a \/ matches(text, language) = f
  BY DEF matches, a, f, e
<1>. QED  BY <1>1, <1>5, <1>6, <1>9, <1>10, <1>11, <1>12, <1>13

---------------------------------------------------------------------------
(* What is masked.                                                         *)

Masked(found) == Selected(found)[Len(found)]

LEMMA MaskedIs ==
    ASSUME NEW found \in Seq(Match), Distinct(found)
    PROVE  /\ Masked(found) \in SUBSET Range(found)
           /\ \A i \in DOMAIN found : found[i] \in Masked(found) <=>
                 ~ \E j \in DOMAIN found : /\ Before(found, j, i)
                                           /\ Overlap(found[i], found[j])
                                           /\ found[j] \in Masked(found)
<1>. DEFINE N == Len(found)
            r == Ranked(found)
            M == Masked(found)
<1>1. Greedy(found, M, N)
  BY SelectedIsGreedy DEF Masked
<1>2. N \in Nat /\ DOMAIN found = 1 .. N
  BY LenProperties
<1>3. /\ \A k \in 1 .. N : r[k] \in 1 .. N
      /\ \A j, k \in 1 .. N : j < k <=> Before(found, r[j], r[k])
      /\ \A i \in 1 .. N : \E k \in 1 .. N : r[k] = i
  BY RankedSorts
<1>. HIDE DEF N, r, M
<1>4. M \in SUBSET Range(found)
  BY <1>1, <1>2, <1>3 DEF Greedy, Nth, Range, r
<1>5. ASSUME NEW i \in 1 .. N
      PROVE  found[i] \in M <=>
               ~ \E j \in 1 .. N : /\ Before(found, j, i)
                                   /\ Overlap(found[i], found[j])
                                   /\ found[j] \in M
  <2>1. PICK k \in 1 .. N : r[k] = i
    BY <1>3
  <2>2. found[i] \in M <=>
           \A l \in 1 .. N : l < k /\ found[r[l]] \in M => ~ Overlap(found[i], found[r[l]])
    BY <1>1, <2>1 DEF Greedy, Nth, r
  <2>3. \A l \in 1 .. N : l < k <=> Before(found, r[l], i)
    BY <1>3, <2>1
  <2>. QED  BY <1>3, <2>2, <2>3
<1>. QED  BY <1>2, <1>4, <1>5 DEF M

LEMMA MaskedApart ==
    ASSUME NEW found \in Seq(Match), Distinct(found), NEW len, Within(found, len)
    PROVE  Apart(Masked(found))
<1>1. Greedy(found, Masked(found), Len(found))
  BY SelectedIsGreedy DEF Masked
<1>2. \A i \in DOMAIN found : found[i] \in Match
  BY LenProperties, ElementOfSeq
<1>3. \A x \in Masked(found) : \E i \in DOMAIN found : x = found[i]
  BY MaskedIs DEF Range
<1>4. Masked(found) \in SUBSET Match
  BY <1>2, <1>3
<1>5. \A x \in Masked(found) : x.start < x.end
  BY <1>3 DEF Within
<1>. QED  BY <1>1, <1>4, <1>5 DEF Apart, Greedy

LEMMA SecretsMasked ==
    ASSUME NEW found \in Seq(Match), Distinct(found), SecretsApart(found),
           NEW i \in DOMAIN found, found[i].category = "OTP_PIN_CVV_PASSWORD"
    PROVE  found[i] \in Masked(found)
<1>1. SUFFICES ASSUME NEW j \in DOMAIN found, Before(found, j, i),
                      Overlap(found[i], found[j])
               PROVE  FALSE
  BY MaskedIs
<1>2. Priority(found[j]) = 0
  BY <1>1 DEF Before, Priority
<1>3. found[j].category = "OTP_PIN_CVV_PASSWORD"
  BY <1>2 DEF Priority
<1>4. i # j
  <2>1. <<j, i>> \in RankOrder(found)
    BY <1>1 DEF RankOrder
  <2>. QED  BY <2>1, BeforeOrders DEF Orders
<1>. QED  BY <1>1, <1>3, <1>4 DEF SecretsApart

---------------------------------------------------------------------------
(* What the masked text keeps.                                             *)

\* Pieces at rising places from low up to high.
Rising(s, low, high) ==
    /\ s \in Seq(Piece)
    /\ \A k \in DOMAIN s : low <= s[k].at /\ s[k].at < high
    /\ \A j, k \in DOMAIN s : j < k => s[j].at < s[k].at

LEMMA RisingConcat ==
    ASSUME NEW low \in Nat, NEW mid \in Nat, NEW high \in Nat, low <= mid, mid <= high,
           NEW s, Rising(s, low, mid), NEW t, Rising(t, mid, high)
    PROVE  Rising(s \o t, low, high) /\ Range(s \o t) = Range(s) \union Range(t)
<1>. DEFINE u == s \o t
<1>1. s \in Seq(Piece) /\ t \in Seq(Piece) /\ Len(s) \in Nat /\ Len(t) \in Nat
  BY LenProperties DEF Rising
<1>2. u \in Seq(Piece) /\ Range(u) = Range(s) \union Range(t)
  <2>1. u \in Seq(Piece)
    BY <1>1, ConcatProperties
  <2>. QED  BY <1>1, <2>1, RangeConcatenation
<1>3. \A i \in DOMAIN u : \/ i \in DOMAIN s /\ u[i] = s[i]
                          \/ i \notin DOMAIN s /\ i > Len(s)
                             /\ i - Len(s) \in DOMAIN t /\ u[i] = t[i - Len(s)]
  <2>1. DOMAIN s = 1 .. Len(s) /\ DOMAIN t = 1 .. Len(t) /\ DOMAIN u = 1 .. Len(s) + Len(t)
    BY <1>1, <1>2, LenProperties, ConcatProperties
  <2>2. \A i \in 1 .. Len(s) + Len(t) : u[i] = IF i <= Len(s) THEN s[i] ELSE t[i - Len(s)]
    BY <1>1, ConcatProperties
  <2>. HIDE DEF u
  <2>3. \A i \in 1 .. Len(s) + Len(t) :
           (i <= Len(s) /\ i \in 1 .. Len(s))
           \/ (~ (i <= Len(s)) /\ i > Len(s) /\ i \notin 1 .. Len(s) /\ i - Len(s) \in 1 .. Len(t))
    BY <1>1
  <2>. QED  BY <2>1, <2>2, <2>3
<1>4. \A i \in DOMAIN u : i \in Nat /\ u[i].at \in Nat
  <2>1. \A i \in DOMAIN u : i \in Nat /\ u[i] \in Piece
    BY <1>2, LenProperties, ElementOfSeq
  <2>. QED  BY <2>1 DEF Piece
<1>5. DOMAIN s = 1 .. Len(s)
  BY <1>1, LenProperties
<1>. HIDE DEF u
<1>6. ASSUME NEW k \in DOMAIN u
      PROVE  low <= u[k].at /\ u[k].at < high /\ (k \in DOMAIN s => u[k].at < mid)
                                              /\ (k \notin DOMAIN s => mid <= u[k].at)
  <2>1. CASE k \in DOMAIN s
    BY <1>3, <1>4, <2>1 DEF Rising
  <2>2. CASE k \notin DOMAIN s
    BY <1>3, <1>4, <2>2 DEF Rising
  <2>. QED  BY <2>1, <2>2
<1>7. ASSUME NEW j \in DOMAIN u, NEW k \in DOMAIN u, j < k
      PROVE  u[j].at < u[k].at
  <2>1. CASE j \in DOMAIN s /\ k \in DOMAIN s
    BY <1>3, <1>7, <2>1 DEF Rising
  <2>2. CASE j \in DOMAIN s /\ k \notin DOMAIN s
    BY <1>4, <1>6, <2>2
  <2>3. CASE j \notin DOMAIN s /\ k \notin DOMAIN s
    <3>1. j - Len(s) < k - Len(s)
      BY <1>1, <1>4, <1>7
    <3>. QED  BY <1>3, <2>3, <3>1 DEF Rising
  <2>4. CASE j \notin DOMAIN s /\ k \in DOMAIN s
    BY <1>1, <1>3, <1>4, <1>5, <1>7, <2>4
  <2>. QED  BY <2>1, <2>2, <2>3, <2>4
<1>. QED  BY <1>2, <1>6, <1>7 DEF Rising, u

LEMMA SliceRising ==
    ASSUME NEW first \in Nat, NEW last \in Nat
    PROVE  Rising(Slice(first, last), first, last + 1)
<1>. DEFINE s == Slice(first, last)
<1>1. /\ s \in Seq(Piece)
      /\ \A k \in DOMAIN s : s[k] = Raw(first + k - 1) /\ first + k - 1 \in first .. last
  BY SliceIs
<1>. HIDE DEF s
<1>2. \A k \in DOMAIN s : k \in Nat /\ s[k].at = first + k - 1 /\ first + k - 1 \in first .. last
  BY <1>1, LenProperties DEF Raw
<1>3. \A k \in DOMAIN s : first <= s[k].at /\ s[k].at < last + 1
  BY <1>2
<1>4. ASSUME NEW j \in DOMAIN s, NEW k \in DOMAIN s, j < k
      PROVE  s[j].at < s[k].at
  BY <1>2, <1>4
<1>. QED  BY <1>1, <1>3, <1>4 DEF Rising, s

LEMMA MarkerRising ==
    ASSUME NEW m \in Match, m.start < m.end
    PROVE  Rising(<<Marker(m)>>, m.start, m.end) /\ Range(<<Marker(m)>>) = {Marker(m)}
<1>1. Marker(m) \in Piece /\ Marker(m).at = m.start /\ m.start \in Nat
  BY DEF Marker, Match, Piece
<1>. DEFINE s == <<Marker(m)>>
<1>2. s \in Seq(Piece) /\ DOMAIN s = {1} /\ s[1] = Marker(m)
  BY <1>1
<1>. HIDE DEF s
<1>3. Rising(s, m.start, m.end) /\ Range(s) = {Marker(m)}
  BY <1>1, <1>2 DEF Rising, Range
<1>. QED  BY <1>3 DEF s

Raws(P) == {Raw(p) : p \in P}
Markers(resolved, n) == {Marker(resolved[k]) : k \in 1 .. n}
Covers(m, p) == m.start <= p /\ p < m.end
Left(resolved, n, end) ==
    {p \in 1 .. end - 1 : \A k \in 1 .. n : ~ Covers(resolved[k], p)}

InText(resolved, len) ==
    /\ resolved \in Seq(Match)
    /\ \A k \in 1 .. Len(resolved) :
          resolved[k].start < resolved[k].end /\ resolved[k].end <= len + 1
    /\ \A j, k \in 1 .. Len(resolved) : j < k => resolved[j].end <= resolved[k].start

LEMMA InTextIs ==
    ASSUME NEW len \in Nat, NEW resolved, InText(resolved, len)
    PROVE  /\ resolved \in Seq(Match)
           /\ Len(resolved) \in Nat
           /\ \A k \in 1 .. Len(resolved) :
                 /\ resolved[k] \in Match
                 /\ resolved[k].start \in Nat \ {0} /\ resolved[k].end \in Nat \ {0}
                 /\ resolved[k].start < resolved[k].end /\ resolved[k].end <= len + 1
           /\ \A j, k \in 1 .. Len(resolved) : j < k => resolved[j].end <= resolved[k].start
<1>1. resolved \in Seq(Match) /\ Len(resolved) \in Nat
  BY LenProperties DEF InText
<1>2. \A k \in 1 .. Len(resolved) : resolved[k] \in Match
  BY <1>1, ElementOfSeq
<1>3. \A k \in 1 .. Len(resolved) :
         resolved[k].start \in Nat \ {0} /\ resolved[k].end \in Nat \ {0}
  BY <1>2 DEF Match
<1>. QED  BY <1>1, <1>2, <1>3 DEF InText

\* After n of the matches: their markers and whatever they leave of the text so far.
SplicedTo(resolved, acc, n) ==
    /\ acc.cursor = IF n = 0 THEN 1 ELSE resolved[n].end
    /\ Rising(acc.pieces, 1, acc.cursor)
    /\ Range(acc.pieces) =
           Raws(Left(resolved, n, acc.cursor)) \union Markers(resolved, n)

LEMMA SpliceKeeps ==
    ASSUME NEW len \in Nat, NEW resolved, InText(resolved, len),
           NEW n \in 1 .. Len(resolved), NEW acc, SplicedTo(resolved, acc, n - 1)
    PROVE  SplicedTo(resolved, Splice(acc, resolved[n]), n)
<1>. DEFINE m == resolved[n]
            c == acc.cursor
            gap == Slice(c, m.start - 1)
            mark == <<Marker(m)>>
            next == Splice(acc, m)
<1>1. Len(resolved) \in Nat /\ n \in Nat /\ \A k \in 1 .. n : k \in 1 .. Len(resolved)
  BY InTextIs
<1>2. m \in Match /\ m.start \in Nat \ {0} /\ m.end \in Nat \ {0} /\ m.start < m.end
  BY InTextIs
<1>3. c \in Nat \ {0} /\ c <= m.start
  <2>1. CASE n = 1
    BY <1>1, <1>2, <2>1 DEF SplicedTo
  <2>2. CASE n # 1
    <3>1. n - 1 \in 1 .. Len(resolved) /\ n - 1 < n /\ n - 1 # 0
      BY <1>1, <2>2
    <3>2. c = resolved[n - 1].end
      BY <3>1 DEF SplicedTo
    <3>. QED  BY <3>1, <3>2, InTextIs
  <2>. QED  BY <2>1, <2>2
<1>4. \A k \in 1 .. n - 1 : resolved[k].end \in Nat /\ resolved[k].end <= c
  <2>1. TAKE k \in 1 .. n - 1
  <2>2. /\ k \in 1 .. Len(resolved) /\ n - 1 \in 1 .. Len(resolved) /\ n - 1 # 0
        /\ k < n - 1 \/ k = n - 1
    BY <1>1
  <2>3. /\ resolved[k].end \in Nat /\ resolved[n - 1].start \in Nat
        /\ resolved[n - 1].end \in Nat /\ resolved[n - 1].start < resolved[n - 1].end
        /\ k < n - 1 => resolved[k].end <= resolved[n - 1].start
    BY <2>2, InTextIs
  <2>4. c = resolved[n - 1].end
    BY <2>2 DEF SplicedTo
  <2>. QED  BY <2>2, <2>3, <2>4
<1>5. m.start - 1 \in Nat /\ (m.start - 1) + 1 = m.start
  BY <1>2
<1>6. Rising(gap, c, m.start) /\ Range(gap) = Raws(c .. m.start - 1)
  <2>1. Rising(gap, c, (m.start - 1) + 1)
    BY <1>3, <1>5, SliceRising
  <2>2. Range(gap) = {Raw(p) : p \in c .. m.start - 1}
    BY <1>3, <1>5, SliceIs
  <2>. QED  BY <1>5, <2>1, <2>2 DEF Raws
<1>7. Rising(mark, m.start, m.end) /\ Range(mark) = {Marker(m)}
  BY <1>2, MarkerRising
<1>8. Rising(acc.pieces, 1, c)
  BY DEF SplicedTo
<1>9. Range(acc.pieces) = Raws(Left(resolved, n - 1, c)) \union Markers(resolved, n - 1)
  BY DEF SplicedTo
<1>10. next.cursor = m.end /\ next.pieces = acc.pieces \o gap \o mark
  BY DEF Splice
<1>. HIDE DEF gap, mark, next
<1>11. Rising(acc.pieces \o gap, 1, m.start)
       /\ Range(acc.pieces \o gap) = Range(acc.pieces) \union Range(gap)
  BY <1>2, <1>3, <1>6, <1>8, RisingConcat
<1>12. Rising(next.pieces, 1, m.end)
       /\ Range(next.pieces) = Range(acc.pieces) \union Range(gap) \union Range(mark)
  BY <1>2, <1>7, <1>10, <1>11, RisingConcat
<1>13. Markers(resolved, n) = Markers(resolved, n - 1) \union {Marker(m)}
  <2>1. 1 .. n = (1 .. n - 1) \union {n}
    BY <1>1
  <2>. QED  BY <2>1 DEF Markers
<1>14. Left(resolved, n, m.end) = Left(resolved, n - 1, c) \union (c .. m.start - 1)
  <2>1. ASSUME NEW p \in Nat \ {0}
        PROVE  p \in Left(resolved, n, m.end) <=>
                   p \in Left(resolved, n - 1, c) \union (c .. m.start - 1)
    <3>1. \A k \in 1 .. n : k \in 1 .. n - 1 \/ k = n
      BY <1>1
    <3>2. n \in 1 .. n /\ \A k \in 1 .. n - 1 : k \in 1 .. n
      BY <1>1
    <3>3. CASE p < c
      <4>1. ~ Covers(m, p) /\ p \in 1 .. c - 1 /\ p \in 1 .. m.end - 1
            /\ p \notin c .. m.start - 1
        BY <1>2, <1>3, <3>3, SMTT(30) DEF Covers
      <4>. HIDE DEF m
      <4>. QED  BY <3>1, <3>2, <4>1 DEF Left, m
    <3>4. CASE c <= p /\ p < m.start
      <4>1. /\ p \in c .. m.start - 1 /\ p \in 1 .. m.end - 1 /\ ~ Covers(m, p)
            /\ \A k \in 1 .. n - 1 : ~ Covers(resolved[k], p)
        BY <1>2, <1>3, <1>4, <3>4 DEF Covers
      <4>. QED  BY <3>1, <4>1 DEF Left
    <3>5. CASE m.start <= p
      <4>1. p \notin 1 .. c - 1 /\ p \notin c .. m.start - 1
            /\ (p \in 1 .. m.end - 1 => Covers(m, p))
        BY <1>2, <1>3, <3>5 DEF Covers
      <4>. QED  BY <3>2, <4>1 DEF Left
    <3>. QED  BY <1>2, <1>3, <3>3, <3>4, <3>5
  <2>2. \A p \in Left(resolved, n, m.end) : p \in Nat \ {0}
    BY <1>2 DEF Left
  <2>3. \A p \in Left(resolved, n - 1, c) \union (c .. m.start - 1) : p \in Nat \ {0}
    BY <1>2, <1>3 DEF Left
  <2>. QED  BY <2>1, <2>2, <2>3
<1>15. Range(next.pieces) = Raws(Left(resolved, n, m.end)) \union Markers(resolved, n)
  <2>1. Raws(Left(resolved, n, m.end)) =
            Raws(Left(resolved, n - 1, c)) \union Raws(c .. m.start - 1)
    BY <1>14 DEF Raws
  <2>. QED  BY <1>6, <1>7, <1>9, <1>12, <1>13, <2>1
<1>16. n # 0
  OBVIOUS
<1>. QED  BY <1>10, <1>12, <1>15, <1>16 DEF SplicedTo, next

LEMMA SplicedIs ==
    ASSUME NEW len \in Nat, NEW resolved, InText(resolved, len)
    PROVE  SplicedTo(resolved, Spliced(resolved)[Len(resolved)], Len(resolved))
<1>. DEFINE N == Len(resolved)
            S == {n \in 0 .. N : SplicedTo(resolved, Spliced(resolved)[n], n)}
<1>1. N \in Nat /\ resolved \in Seq(Match)
  BY InTextIs
<1>2. 0 \in S
  <2>. DEFINE acc == Spliced(resolved)[0]
  <2>1. acc = [cursor |-> 1, pieces |-> <<>>]
    BY <1>1, SplicedDef
  <2>2. <<>> \in Seq(Piece) /\ DOMAIN <<>> = {} /\ Range(<<>>) = {}
    BY DEF Range
  <2>3. Left(resolved, 0, 1) = {} /\ Markers(resolved, 0) = {}
    BY DEF Left, Markers
  <2>4. Rising(<<>>, 1, 1)
    BY <2>2 DEF Rising
  <2>. HIDE DEF acc
  <2>5. SplicedTo(resolved, acc, 0)
    BY <2>1, <2>2, <2>3, <2>4 DEF SplicedTo, Raws
  <2>6. 0 \in 0 .. N
    BY <1>1
  <2>. QED  BY <2>5, <2>6 DEF acc
<1>3. ASSUME NEW n \in 1 .. N, n - 1 \in S
      PROVE  n \in S
  <2>1. n \in 0 .. N /\ n # 0
    BY <1>1
  <2>2. Spliced(resolved)[n] = Splice(Spliced(resolved)[n - 1], resolved[n])
    BY <1>1, <2>1, SplicedDef
  <2>3. SplicedTo(resolved, Spliced(resolved)[n - 1], n - 1)
    BY <1>3
  <2>. QED  BY <2>1, <2>2, <2>3, SpliceKeeps
<1>. HIDE DEF S, N
<1>4. 0 .. N \subseteq S
  BY <1>1, <1>2, <1>3, LoopInvariant
<1>. QED  BY <1>1, <1>4 DEF S, N

\* The characters no match covers, in order, and a marker for each match.
LEMMA ApplyMaskIs ==
    ASSUME NEW len \in Nat, NEW resolved, InText(resolved, len)
    PROVE  /\ Rising(apply_mask(len, resolved), 1, len + 1)
           /\ Range(apply_mask(len, resolved)) =
                  Raws({p \in 1 .. len : \A k \in 1 .. Len(resolved) :
                                            ~ Covers(resolved[k], p)})
                  \union Markers(resolved, Len(resolved))
<1>. DEFINE N == Len(resolved)
            done == Spliced(resolved)[N]
            c == done.cursor
            rest == Slice(c, len)
            out == done.pieces \o rest
            kept == {p \in 1 .. len : \A k \in 1 .. N : ~ Covers(resolved[k], p)}
<1>1. SplicedTo(resolved, done, N)
  BY SplicedIs
<1>2. N \in Nat
  BY InTextIs
<1>3. c \in Nat \ {0} /\ c <= len + 1
  <2>1. CASE N = 0
    BY <1>1, <2>1 DEF SplicedTo
  <2>2. CASE N # 0
    <3>1. N \in 1 .. N /\ c = resolved[N].end
      BY <1>1, <1>2, <2>2 DEF SplicedTo
    <3>. QED  BY <3>1, InTextIs
  <2>. QED  BY <2>1, <2>2
<1>4. \A k \in 1 .. N : resolved[k].end \in Nat /\ resolved[k].end <= c
  <2>1. TAKE k \in 1 .. N
  <2>2. N \in 1 .. N /\ N # 0 /\ (k < N \/ k = N)
    BY <1>2
  <2>3. /\ resolved[k].end \in Nat /\ resolved[N].start \in Nat
        /\ resolved[N].end \in Nat /\ resolved[N].start < resolved[N].end
        /\ k < N => resolved[k].end <= resolved[N].start
    BY <2>2, InTextIs
  <2>4. c = resolved[N].end
    BY <1>1, <2>2 DEF SplicedTo
  <2>. QED  BY <2>2, <2>3, <2>4
<1>5. Rising(rest, c, len + 1) /\ Range(rest) = Raws(c .. len)
  BY <1>3, SliceRising, SliceIs DEF Raws
<1>6. /\ Rising(done.pieces, 1, c)
      /\ Range(done.pieces) = Raws(Left(resolved, N, c)) \union Markers(resolved, N)
  BY <1>1 DEF SplicedTo
<1>. HIDE DEF rest
<1>7. Rising(out, 1, len + 1) /\ Range(out) = Range(done.pieces) \union Range(rest)
  BY <1>3, <1>5, <1>6, RisingConcat
<1>8. kept = Left(resolved, N, c) \union (c .. len)
  <2>1. \A p \in c .. len : p \in 1 .. len /\ \A k \in 1 .. N : ~ Covers(resolved[k], p)
    BY <1>3, <1>4 DEF Covers
  <2>2. \A p \in 1 .. c - 1 : p \in 1 .. len
    BY <1>3
  <2>3. \A p \in 1 .. len : p \in 1 .. c - 1 \/ p \in c .. len
    BY <1>3
  <2>. HIDE DEF c
  <2>. QED  BY <2>1, <2>2, <2>3 DEF Left
<1>9. Raws(kept) = Raws(Left(resolved, N, c)) \union Raws(c .. len)
  BY <1>8 DEF Raws
<1>10. apply_mask(len, resolved) = out
  BY DEF apply_mask, rest
<1>. HIDE DEF out, kept, done
<1>11. Range(out) = Raws(kept) \union Markers(resolved, N)
  BY <1>5, <1>6, <1>7, <1>9
<1>. QED  BY <1>7, <1>10, <1>11 DEF kept

---------------------------------------------------------------------------
(* The categories that are reported.                                       *)

ByName == {p \in Categories \X Categories : Earlier(p[1], p[2])}
Named(D) == Sorted(D, Earlier)

LEMMA AlphabeticalOnce ==
    /\ DOMAIN Alphabetical = 1 .. 10
    /\ \A p, q \in DOMAIN Alphabetical : Alphabetical[p] = Alphabetical[q] => p = q
    /\ \A c \in Categories : \E p \in DOMAIN Alphabetical : Alphabetical[p] = c
<1>1. DOMAIN Alphabetical = 1 .. 10
  BY DEF Alphabetical
<1>2. 1 .. 10 = {1, 2, 3, 4, 5, 6, 7, 8, 9, 10}
  OBVIOUS
<1>3. \A p, q \in {1, 2, 3, 4, 5, 6, 7, 8, 9, 10} :
         Alphabetical[p] = Alphabetical[q] => p = q
  BY DEF Alphabetical
<1>4. \A k \in {1, 2, 3, 4, 5, 6, 7} :
         \E p \in {1, 2, 3, 4, 5, 6, 7, 8, 9, 10} : Alphabetical[p] = Recognizers[k]
  BY DEF Alphabetical, Recognizers
<1>5. \A c \in NamedEntities :
         \E p \in {1, 2, 3, 4, 5, 6, 7, 8, 9, 10} : Alphabetical[p] = c
  BY DEF Alphabetical, NamedEntities
<1>6. 1 .. 7 = {1, 2, 3, 4, 5, 6, 7}
  OBVIOUS
<1>. QED  BY <1>1, <1>2, <1>3, <1>4, <1>5, <1>6, RecognizersOnce DEF Categories, Range

LEMMA ByNameOrders ==
    ASSUME NEW D \in SUBSET Categories
    PROVE  IsFiniteSet(D) /\ Orders(ByName, D)
<1>. DEFINE A == Alphabetical
            P == DOMAIN A
<1>1. P \subseteq Nat /\ IsFiniteSet(P)
  <2>1. IsFiniteSet(1 .. 10)
    BY 1 \in Int, 10 \in Int, FS_Interval
  <2>. QED  BY <2>1, AlphabeticalOnce
<1>2. \A p, q \in P : A[p] = A[q] => p = q
  BY AlphabeticalOnce
<1>3. \A c \in Categories : \E p \in P : A[p] = c
  BY AlphabeticalOnce
<1>4. \A c, d \in D : <<c, d>> \in ByName <=> \E p, q \in P : p < q /\ A[p] = c /\ A[q] = d
  BY DEF ByName, Earlier
<1>5. IsFiniteSet(D)
  <2>. DEFINE T == {A[p] : p \in P}
              f == [p \in P |-> A[p]]
  <2>1. f \in Surjection(P, T)
    BY DEF Surjection
  <2>2. IsFiniteSet(T)
    <3>. HIDE DEF T, f, P
    <3>. QED  BY <1>1, <2>1, FS_Surjection
  <2>3. D \in SUBSET T
    BY <1>3
  <2>. HIDE DEF T
  <2>. QED  BY <2>2, <2>3, FS_Subset
<1>. HIDE DEF A, P
<1>6. \A c \in D : <<c, c>> \notin ByName
  <2>1. ASSUME NEW c \in D, NEW p \in P, NEW q \in P, p < q, A[p] = c, A[q] = c
        PROVE  FALSE
    <3>1. p = q /\ p \in Nat
      BY <1>1, <1>2, <2>1
    <3>. QED  BY <2>1, <3>1
  <2>. QED  BY <1>4, <2>1
<1>7. ASSUME NEW c \in D, NEW d \in D, c # d
      PROVE  <<c, d>> \in ByName \/ <<d, c>> \in ByName
  <2>1. PICK p \in P : A[p] = c
    BY <1>3
  <2>2. PICK q \in P : A[q] = d
    BY <1>3
  <2>3. p \in Nat /\ q \in Nat /\ p # q
    BY <1>1, <1>7, <2>1, <2>2
  <2>4. p < q \/ q < p
    BY <2>3
  <2>. QED  BY <1>4, <2>1, <2>2, <2>4
<1>8. ASSUME NEW c \in D, NEW d \in D, NEW e \in D,
             <<c, d>> \in ByName, <<d, e>> \in ByName
      PROVE  <<c, e>> \in ByName
  <2>1. PICK p \in P, q \in P : p < q /\ A[p] = c /\ A[q] = d
    BY <1>4, <1>8
  <2>2. PICK x \in P, y \in P : x < y /\ A[x] = d /\ A[y] = e
    BY <1>4, <1>8
  <2>3. q = x
    BY <1>2, <2>1, <2>2
  <2>4. p < y
    BY <1>1, <2>1, <2>2, <2>3
  <2>. QED  BY <1>4, <2>1, <2>2, <2>4
<1>. QED  BY <1>5, <1>6, <1>7, <1>8 DEF Orders

LEMMA NamedIs ==
    ASSUME NEW D \in SUBSET Categories
    PROVE  /\ Named(D) \in Seq(Categories) /\ Range(Named(D)) = D
           /\ \A j, k \in DOMAIN Named(D) : Named(D)[j] = Named(D)[k] => j = k
<1>. DEFINE N == Cardinality(D)
            s == Named(D)
            Sorts(t) == \A j, k \in 1 .. N : j < k => Earlier(t[j], t[k])
<1>1. \A c, d \in D : <<c, d>> \in ByName <=> Earlier(c, d)
  BY DEF ByName
<1>2. s = CHOOSE t \in [1 .. N -> D] : Sorts(t)
  BY DEF Named, Sorted
<1>. HIDE DEF N, s
<1>3. IsFiniteSet(D) /\ Orders(ByName, D)
  BY ByNameOrders
<1>4. \E t \in [1 .. N -> D] : \A j, k \in 1 .. N : j < k => <<t[j], t[k]>> \in ByName
  BY <1>3, SortExists DEF N
<1>5. \E t \in [1 .. N -> D] : Sorts(t)
  BY <1>1, <1>4
<1>6. s \in [1 .. N -> D] /\ Sorts(s)
  <2>. HIDE DEF Sorts
  <2>. QED  BY <1>2, <1>5
<1>7. s \in [1 .. Cardinality(D) -> D]
  BY <1>6 DEF N
<1>8. \A j, k \in 1 .. Cardinality(D) : j < k => <<s[j], s[k]>> \in ByName
  BY <1>1, <1>6 DEF N
<1>9. s \in Seq(D) /\ Range(s) = D
      /\ \A j, k \in 1 .. Cardinality(D) : s[j] = s[k] => j = k
  BY <1>3, <1>7, <1>8, SortedHasAll
<1>10. s \in Seq(Categories) /\ DOMAIN s = 1 .. Cardinality(D)
  BY <1>7, <1>9, SeqMonotonic
<1>. QED  BY <1>9, <1>10 DEF s

---------------------------------------------------------------------------
(* redact().                                                               *)

Resolved(text, language) == resolve_overlaps(matches(text, language))

LEMMA ResolvedIs ==
    ASSUME NEW text \in Text, Findable(text), NEW language
    PROVE  /\ Range(Resolved(text, language)) = Masked(matches(text, language))
           /\ InText(Resolved(text, language), text.len)
<1>. DEFINE found == matches(text, language)
            resolved == Resolved(text, language)
<1>1. found \in Seq(Match) /\ Distinct(found) /\ Within(found, text.len)
  BY MatchesAre
<1>. HIDE DEF found
<1>2. Apart(Masked(found)) /\ Masked(found) \in SUBSET Range(found)
  BY <1>1, MaskedApart, MaskedIs
<1>3. resolved = ByStart(Masked(found))
  BY DEF Resolved, resolve_overlaps, ByStart, Masked, found
<1>4. /\ resolved \in Seq(Match) /\ Range(resolved) = Masked(found)
      /\ \A j, k \in 1 .. Len(resolved) : j < k => resolved[j].end <= resolved[k].start
  BY <1>2, <1>3, ApartSorted
<1>. HIDE DEF resolved
<1>5. \A k \in 1 .. Len(resolved) : resolved[k] \in Range(found)
  <2>1. \A k \in 1 .. Len(resolved) : resolved[k] \in Range(resolved)
    BY <1>4, LenProperties DEF Range
  <2>. QED  BY <1>2, <1>4, <2>1
<1>6. \A m \in Range(found) : m.start < m.end /\ m.end <= text.len + 1
  BY <1>1 DEF Within, Range
<1>. QED  BY <1>4, <1>5, <1>6 DEF InText, resolved, found

\* privacy/service.py masks exactly: whatever the text, whatever overlaps whatever in it
\* and whatever its language, what is masked is decided by the ranking alone, everything
\* else is kept in order, and no digit of a secret is.
THEOREM RedactionIsExact ==
    ASSUME NEW text \in Text, Findable(text), NEW language
    PROVE  MasksExactly(text, language)
<1>. DEFINE found == matches(text, language)
            resolved == Resolved(text, language)
            masked == Range(resolved)
            out == redact(text, language).text
            covered == {p \in 1 .. text.len : \E m \in masked : m.start <= p /\ p < m.end}
<1>1. text.len \in Nat
  BY DEF Text
<1>2. /\ found \in Seq(Match) /\ Distinct(found)
      /\ SecretsApart(found) /\ Within(found, text.len)
  BY MatchesAre
<1>3. masked = Masked(found) /\ InText(resolved, text.len)
  BY ResolvedIs
<1>4. out = apply_mask(text.len, resolved)
  BY DEF redact, Resolved
<1>5. Rising(out, 1, text.len + 1)
      /\ Range(out) = Raws({p \in 1 .. text.len : \A k \in 1 .. Len(resolved) :
                                                     ~ Covers(resolved[k], p)})
                      \union Markers(resolved, Len(resolved))
  BY <1>1, <1>3, <1>4, ApplyMaskIs
<1>. HIDE DEF found, resolved, out
<1>6. DOMAIN resolved = 1 .. Len(resolved)
  BY <1>3, LenProperties DEF InText
<1>7. {p \in 1 .. text.len : \A k \in 1 .. Len(resolved) : ~ Covers(resolved[k], p)}
          = (1 .. text.len) \ covered
  BY <1>6 DEF Covers, Range
<1>8. Markers(resolved, Len(resolved)) = {Marker(m) : m \in masked}
  BY <1>6 DEF Markers, Range
<1>9. Range(out) = {Raw(p) : p \in (1 .. text.len) \ covered} \union {Marker(m) : m \in masked}
  BY <1>5, <1>7, <1>8 DEF Raws
<1>10. \A i \in DOMAIN found : found[i] \in masked <=>
           ~ \E j \in DOMAIN found :
                 Before(found, j, i) /\ Overlap(found[i], found[j]) /\ found[j] \in masked
  BY <1>2, <1>3, MaskedIs
<1>11. \A k \in 1 .. Len(out) - 1 : out[k].at < out[k + 1].at
  <2>1. out \in Seq(Piece) /\ \A j, k \in DOMAIN out : j < k => out[j].at < out[k].at
    BY <1>5 DEF Rising
  <2>2. DOMAIN out = 1 .. Len(out) /\ Len(out) \in Nat
    BY <2>1, LenProperties
  <2>3. \A k \in 1 .. Len(out) - 1 : k \in 1 .. Len(out) /\ k + 1 \in 1 .. Len(out) /\ k < k + 1
    BY <2>2
  <2>. QED  BY <2>1, <2>2, <2>3
<1>12. ASSUME NEW i \in DOMAIN found, found[i].category = "OTP_PIN_CVV_PASSWORD"
       PROVE  (found[i].start .. found[i].end - 1) \subseteq covered
  <2>1. found[i] \in masked
    BY <1>2, <1>3, <1>12, SecretsMasked
  <2>2. found[i].start \in Nat \ {0} /\ found[i].end \in Nat /\ found[i].end <= text.len + 1
    <3>1. found[i] \in Match
      BY <1>2, LenProperties, ElementOfSeq
    <3>. QED  BY <1>2, <3>1 DEF Within, Match
  <2>. DEFINE m == found[i]
  <2>. HIDE DEF m, masked
  <2>3. \A p \in m.start .. m.end - 1 : p \in 1 .. text.len /\ m.start <= p /\ p < m.end
    BY <1>1, <2>2 DEF m
  <2>. QED  BY <2>1, <2>3 DEF m
<1>. QED  BY <1>9, <1>10, <1>11, <1>12 DEF MasksExactly, found, resolved, out, Resolved

\* The detections that are logged and audited are the categories of the markers: none
\* is reported that was not masked, none masked that is not reported, none twice.
THEOREM RedactionReports ==
    ASSUME NEW text \in Text, Findable(text), NEW language
    PROVE  ReportsItsMarkers(text, language)
<1>. DEFINE resolved == Resolved(text, language)
            D == {m.category : m \in Range(resolved)}
            out == redact(text, language).text
            kept == {p \in 1 .. text.len : \A k \in 1 .. Len(resolved) :
                                              ~ Covers(resolved[k], p)}
<1>1. text.len \in Nat
  BY DEF Text
<1>2. InText(resolved, text.len)
  BY ResolvedIs
<1>3. out = apply_mask(text.len, resolved) /\ redact(text, language).detections = Named(D)
  BY DEF redact, Resolved, Named
<1>. HIDE DEF out, resolved
<1>4. out \in Seq(Piece)
      /\ Range(out) = Raws(kept) \union Markers(resolved, Len(resolved))
  BY <1>1, <1>2, <1>3, ApplyMaskIs DEF Rising
<1>5. DOMAIN resolved = 1 .. Len(resolved) /\ \A m \in Range(resolved) : m \in Match
  <2>1. resolved \in Seq(Match)
    BY <1>2 DEF InText
  <2>. QED  BY <2>1, LenProperties, ElementOfSeq DEF Range
<1>6. D \in SUBSET Categories
  BY <1>5 DEF Match
<1>7. /\ Named(D) \in Seq(Categories) /\ Range(Named(D)) = D
      /\ \A j, k \in DOMAIN Named(D) : Named(D)[j] = Named(D)[k] => j = k
  <2>. HIDE DEF D
  <2>. QED  BY <1>6, NamedIs
<1>8. "NONE" \notin Categories
  BY RecognizersOnce DEF Categories, NamedEntities, Recognizers, Range
<1>9. {q.mark : q \in Range(out)} \ {"NONE"} = D
  <2>1. \A q \in Raws(kept) : q.mark = "NONE"
    BY DEF Raws, Raw
  <2>2. Markers(resolved, Len(resolved)) = {Marker(m) : m \in Range(resolved)}
    BY <1>5 DEF Markers, Range
  <2>3. \A m \in Range(resolved) : Marker(m).mark = m.category /\ m.category # "NONE"
    BY <1>6, <1>8 DEF Marker
  <2>. HIDE DEF kept
  <2>. QED  BY <1>4, <2>1, <2>2, <2>3
<1>10. {out[k].mark : k \in DOMAIN out} = {q.mark : q \in Range(out)}
  BY DEF Range
<1>. HIDE DEF D
<1>. QED  BY <1>3, <1>4, <1>7, <1>9, <1>10 DEF ReportsItsMarkers, out
=============================================================================
