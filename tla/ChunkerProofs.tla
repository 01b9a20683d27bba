--------------------------- MODULE ChunkerProofs ---------------------------
(***************************************************************************)
(* Why the properties of the chunker hold of every document.  From the end *)
(* to the beginning: ChunkerInv is inductive.  CutChunk keeps it because a *)
(* section's content is written from paragraphs of the text, rune by rune  *)
(* (Written), because ends and starts of chunks leave no word out (IsEnd   *)
(* and NextStartIs), and because pages and headings are monotone in the    *)
(* offset.  ExtractParagraph keeps it because, in a normalised text, what  *)
(* is between two blank lines is a paragraph and its indentation.          *)
(* Normalize establishes it: the two loops over the lines of a page only   *)
(* drop and insert other runes than letters (Gathered), their result has   *)
(* no stray whitespace (Calm, Well), and pages are laid one after another  *)
(* (Laid).                                                                 *)
(* What the model computes by recursion is a function; that its CHOOSE has *)
(* a solution is proved from RecursionExists.                              *)
(***************************************************************************)
EXTENDS Chunker, SequenceTheorems, WellFoundedInduction, TLAPS

\* A set of natural numbers has a smallest element.
LEMMA HasLeast ==
  ASSUME NEW S, S \subseteq Nat, S # {}
  PROVE  \E m \in S : \A n \in S : m <= n
<1>1. PICK m \in S : \A n \in S : <<n, m>> \notin OpToRel(<, Nat)
  BY NatLessThanWellFounded, WFMin
<1>2. ASSUME NEW n \in S PROVE m <= n
  <2>1. <<n, m>> \in Nat \X Nat
    OBVIOUS
  <2>2. ~(n < m)
    BY <1>1, <2>1 DEF OpToRel
  <2> QED
    BY <2>2
<1> QED
  BY <1>1, <1>2

\* Induction up to a bound, over a set.
LEMMA InductionTo ==
  ASSUME NEW N \in Nat, NEW T, 0 \in T, \A n \in 1..N : n - 1 \in T => n \in T
  PROVE  \A n \in 0..N : n \in T
<1> DEFINE bad == (0..N) \ T
<1>1. ASSUME bad # {} PROVE FALSE
  <2>1. bad \subseteq Nat
    OBVIOUS
  <2>2. PICK k \in bad : \A n \in bad : k <= n
    <3> HIDE DEF bad
    <3> QED
      BY <1>1, <2>1, HasLeast
  <2>3. k \in 1..N /\ k - 1 \in 0..N /\ k - 1 \notin bad
    BY <2>2
  <2> QED
    BY <2>2, <2>3
<1> QED
  BY <1>1

\* The values of a recursive definition over 0..N whose step is a function.
IsRecursion(f, N, base, step) ==
  f[0] = base /\ \A n \in 1..N : f[n] = step[<<n, f[n - 1]>>]

\* Recursion up to a number has a solution.
LEMMA RecursionExists ==
  ASSUME NEW N \in Nat, NEW V, NEW base \in V, NEW step \in [(1..N) \X V -> V]
  PROVE  \E f \in [0..N -> V] : IsRecursion(f, N, base, step)
<1> USE DEF IsRecursion
<1> DEFINE has == {k \in 0..N : \E f \in [0..k -> V] : IsRecursion(f, k, base, step)}
<1>1. 0 \in has
  <2> DEFINE g == [n \in 0..0 |-> base]
  <2>1. g \in [0..0 -> V] /\ IsRecursion(g, 0, base, step)
    OBVIOUS
  <2> HIDE DEF g, IsRecursion
  <2> QED
    BY <2>1
<1>2. ASSUME NEW k \in 1..N, k - 1 \in has PROVE k \in has
  <2>1. k - 1 \in 0..N
    OBVIOUS
  <2>2. PICK f \in [0..(k - 1) -> V] : IsRecursion(f, k - 1, base, step)
    BY <1>2
  <2> DEFINE g == [n \in 0..k |-> IF n = k THEN step[<<k, f[k - 1]>>] ELSE f[n]]
  <2>3. g \in [0..k -> V]
    BY <2>1, <2>2
  <2>4. g[0] = base
    BY <2>1, <2>2
  <2>5. ASSUME NEW n \in 1..k PROVE g[n] = step[<<n, g[n - 1]>>]
    <3>1. CASE n = k
      <4>1. k \in 0..k /\ k - 1 \in 0..k /\ k - 1 # k
        BY <2>1
      <4>2. g[k] = step[<<k, f[k - 1]>>] /\ g[k - 1] = f[k - 1]
        BY <4>1
      <4> QED
        BY <3>1, <4>2
    <3>2. CASE n # k
      <4>1. n \in 1..(k - 1) /\ n - 1 \in 0..k /\ n - 1 # k
        BY <2>1, <3>2
      <4>2. f[n] = step[<<n, f[n - 1]>>]
        BY <2>2, <4>1
      <4> QED
        BY <3>2, <4>1, <4>2
    <3> QED
      BY <3>1, <3>2
  <2>6. IsRecursion(g, k, base, step)
    BY <2>4, <2>5
  <2> HIDE DEF g, IsRecursion
  <2> QED
    BY <2>3, <2>6
<1>3. N \in has
  <2> HIDE DEF has
  <2>1. \A n \in 0..N : n \in has
    BY <1>1, <1>2, InductionTo
  <2> QED
    BY <2>1
<1> QED
  BY <1>3

-----------------------------------------------------------------------------
(* Smallest and largest numbers *)

\* The smallest of some natural numbers.
LEMMA MinOfNaturals ==
  ASSUME NEW S, S \subseteq Nat, S # {}
  PROVE  Min(S) \in S /\ \A x \in S : Min(S) <= x
<1>1. PICK m \in S : \A n \in S : m <= n
  BY HasLeast
<1> QED
  BY <1>1 DEF Min

\* The largest of some numbers that have an upper bound.
LEMMA MaxOfBounded ==
  ASSUME NEW S, S \subseteq Int, S # {}, NEW top \in Int, \A x \in S : x <= top
  PROVE  Max(S) \in S /\ \A x \in S : x <= Max(S)
<1> DEFINE below == {top - x : x \in S}
<1>1. below \subseteq Nat /\ below # {}
  <2>1. \A x \in S : top - x \in Nat
    OBVIOUS
  <2> QED
    BY <2>1
<1>2. PICK d \in below : \A n \in below : d <= n
  <2> HIDE DEF below
  <2> QED
    BY <1>1, HasLeast
<1>3. PICK m \in S : d = top - m
  BY <1>2
<1>4. \A x \in S : x <= m
  <2> TAKE x \in S
  <2>1. d <= top - x
    BY <1>2
  <2> QED
    BY <1>3, <2>1
<1> QED
  BY <1>3, <1>4 DEF Max

\* The smaller of two numbers.
LEMMA MinOfTwo ==
  ASSUME NEW a \in Int, NEW b \in Int
  PROVE  Min({a, b}) = IF a <= b THEN a ELSE b
  BY DEF Min

\* The larger of two numbers.
LEMMA MaxOfTwo ==
  ASSUME NEW a \in Int, NEW b \in Int
  PROVE  Max({a, b}) = IF a <= b THEN b ELSE a
  BY DEF Max

-----------------------------------------------------------------------------
(* Texts *)

\* What is used of sequences everywhere.
LEMMA Texts ==
  ASSUME NEW S, NEW t \in Seq(S)
  PROVE  /\ Len(t) \in Nat /\ DOMAIN t = 1..Len(t)
         /\ \A i \in 1..Len(t) : t[i] \in S
         /\ t = <<>> <=> Len(t) = 0
  BY LenProperties, ElementOfSeq, EmptySeq

\* A slice between two offsets.
LEMMA SliceIs ==
  ASSUME NEW S, NEW t \in Seq(S), NEW a \in Nat, NEW b \in Nat, a <= b, b <= Len(t)
  PROVE  /\ Slice(t, a, b) \in Seq(S)
         /\ Len(Slice(t, a, b)) = b - a
         /\ \A i \in 1..(b - a) : Slice(t, a, b)[i] = t[a + i]
<1>1. /\ a + 1 \in Int /\ b \in Int /\ b - (a + 1) + 1 = b - a
      /\ \A i \in (a + 1)..b : t[i] \in S
      /\ \A i \in 1..(b - a) : a + 1 + i - 1 = a + i
  BY Texts
<1>2. /\ Slice(t, a, b) \in Seq(S)
      /\ Len(Slice(t, a, b)) = IF a + 1 <= b THEN b - (a + 1) + 1 ELSE 0
      /\ \A i \in 1..(b - (a + 1) + 1) : Slice(t, a, b)[i] = t[a + 1 + i - 1]
  BY <1>1, SubSeqProperties DEF Slice
<1>3. Len(Slice(t, a, b)) = b - a
  BY <1>1, <1>2
<1> QED
  BY <1>1, <1>2, <1>3

\* Two texts one after the other.
LEMMA ConcatIs ==
  ASSUME NEW S, NEW s \in Seq(S), NEW t \in Seq(S)
  PROVE  /\ s \o t \in Seq(S)
         /\ Len(s \o t) = Len(s) + Len(t)
         /\ \A i \in 1..Len(s) : (s \o t)[i] = s[i]
         /\ \A i \in 1..Len(t) : (s \o t)[Len(s) + i] = t[i]
<1>1. /\ s \o t \in Seq(S)
      /\ Len(s \o t) = Len(s) + Len(t)
      /\ \A i \in 1..(Len(s) + Len(t)) :
           (s \o t)[i] = IF i <= Len(s) THEN s[i] ELSE t[i - Len(s)]
  BY ConcatProperties
<1>2. Len(s) \in Nat /\ Len(t) \in Nat
  BY Texts
<1> QED
  BY <1>1, <1>2

\* A slice of a slice.
LEMMA SliceOfSlice ==
  ASSUME NEW S, NEW t \in Seq(S), NEW a \in Nat, NEW b \in Nat, a <= b, b <= Len(t),
         NEW c \in Nat, NEW d \in Nat, c <= d, d <= b - a
  PROVE  Slice(Slice(t, a, b), c, d) = Slice(t, a + c, a + d)
<1> DEFINE u == Slice(t, a, b)
           v == Slice(u, c, d)
           w == Slice(t, a + c, a + d)
<1>0. ASSUME NEW p \in Nat, NEW q \in Nat, p <= q, q <= Len(t)
      PROVE  /\ Slice(t, p, q) \in Seq(S) /\ Len(Slice(t, p, q)) = q - p
             /\ \A i \in 1..(q - p) : Slice(t, p, q)[i] = t[p + i]
  <2>1. Slice(t, p, q) \in Seq(S)
    BY <1>0, SliceIs, ZenonT(40)
  <2>2. Len(Slice(t, p, q)) = q - p
    BY <1>0, SliceIs, ZenonT(40)
  <2>3. \A i \in 1..(q - p) : Slice(t, p, q)[i] = t[p + i]
    BY <1>0, SliceIs, ZenonT(40)
  <2> QED
    BY <2>1, <2>2, <2>3
<1>1. u \in Seq(S) /\ Len(u) = b - a /\ \A i \in 1..(b - a) : u[i] = t[a + i]
  BY <1>0
<1>2. v \in Seq(S) /\ Len(v) = d - c /\ \A i \in 1..(d - c) : v[i] = u[c + i]
  <2>1. u \in Seq(S) /\ d <= Len(u) /\ c <= d
    BY <1>1
  <2> HIDE DEF u
  <2> QED
    BY <2>1, SliceIs, ZenonT(40)
<1>3. a + c \in Nat /\ a + d \in Nat /\ a + c <= a + d /\ a + d <= Len(t)
  BY Texts
<1>4. w \in Seq(S) /\ Len(w) = d - c /\ \A i \in 1..(d - c) : w[i] = t[a + c + i]
  <2>1. (a + d) - (a + c) = d - c
    OBVIOUS
  <2>2. /\ w \in Seq(S) /\ Len(w) = (a + d) - (a + c)
        /\ \A i \in 1..((a + d) - (a + c)) : w[i] = t[a + c + i]
    <3> DEFINE p == a + c
               q == a + d
    <3>1. p \in Nat /\ q \in Nat /\ p <= q /\ q <= Len(t)
      BY <1>3
    <3> HIDE DEF p, q
    <3>2. /\ Slice(t, p, q) \in Seq(S) /\ Len(Slice(t, p, q)) = q - p
          /\ \A i \in 1..(q - p) : Slice(t, p, q)[i] = t[p + i]
      BY <1>0, <3>1
    <3> QED
      BY <3>2 DEF p, q
  <2> QED
    BY <2>1, <2>2
<1>5. ASSUME NEW i \in 1..(d - c) PROVE v[i] = w[i]
  <2>1. c + i \in 1..(b - a) /\ a + (c + i) = a + c + i
    OBVIOUS
  <2> HIDE DEF u, v, w
  <2> QED
    BY <1>1, <1>2, <1>4, <2>1
<1> HIDE DEF u, v, w
<1> QED
  BY <1>2, <1>4, <1>5, SeqEqual DEF u, v, w

\* TrimLeft takes what follows the whitespace at the start.
LEMMA TrimLeftIs ==
  ASSUME NEW S, NEW t \in Seq(S)
  PROVE  \E a \in 0..Len(t) :
           /\ TrimLeft(t) = Slice(t, a, Len(t))
           /\ \A i \in Offsets(t) : ~IsSpace(t, i) => a <= i
           /\ a < Len(t) => ~IsSpace(t, a)
<1> DEFINE kept == {i \in Offsets(t) : ~IsSpace(t, i)}
<1>1. Len(t) \in Nat /\ kept \subseteq Nat
  BY Texts DEF Offsets
<1>2. CASE kept = {}
  <2>1. Slice(t, Len(t), Len(t)) = <<>>
    BY <1>1, SubSeqEmpty DEF Slice
  <2>2. TrimLeft(t) = Slice(t, Len(t), Len(t))
    BY <1>2, <2>1 DEF TrimLeft
  <2>3. \A i \in Offsets(t) : IsSpace(t, i)
    BY <1>2
  <2>4. Len(t) \in 0..Len(t)
    BY <1>1
  <2> QED
    BY <1>1, <2>2, <2>3, <2>4
<1>3. CASE kept # {}
  <2> DEFINE a == Min(kept)
  <2>1. a \in kept /\ \A i \in kept : a <= i
    <3> HIDE DEF kept
    <3> QED
      BY <1>1, <1>3, MinOfNaturals
  <2>2. a \in 0..Len(t) /\ ~IsSpace(t, a)
    <3> HIDE DEF a
    <3> QED
      BY <1>1, <2>1 DEF Offsets
  <2>3. TrimLeft(t) = Slice(t, a, Len(t))
    BY <1>3 DEF TrimLeft
  <2>4. \A i \in Offsets(t) : ~IsSpace(t, i) => a <= i
    <3> HIDE DEF a
    <3> QED
      BY <2>1
  <2> HIDE DEF a, kept
  <2> QED
    BY <2>2, <2>3, <2>4
<1> QED
  BY <1>2, <1>3

\* TrimRight takes what precedes the whitespace at the end.
LEMMA TrimRightIs ==
  ASSUME NEW S, NEW t \in Seq(S)
  PROVE  \E b \in 0..Len(t) :
           /\ TrimRight(t) = Slice(t, 0, b)
           /\ \A i \in Offsets(t) : ~IsSpace(t, i) => i < b
           /\ 0 < b => ~IsSpace(t, b - 1)
<1> DEFINE kept == {i \in Offsets(t) : ~IsSpace(t, i)}
<1>1. Len(t) \in Nat /\ kept \subseteq Int /\ \A i \in kept : i <= Len(t)
  BY Texts DEF Offsets
<1>2. CASE kept = {}
  <2>1. Slice(t, 0, 0) = <<>>
    BY <1>1, SubSeqEmpty DEF Slice
  <2>2. TrimRight(t) = Slice(t, 0, 0)
    BY <1>2, <2>1 DEF TrimRight
  <2>3. \A i \in Offsets(t) : IsSpace(t, i)
    BY <1>2
  <2>4. 0 \in 0..Len(t)
    BY <1>1
  <2> QED
    BY <1>1, <2>2, <2>3, <2>4
<1>3. CASE kept # {}
  <2> DEFINE m == Max(kept)
  <2>1. m \in kept /\ \A i \in kept : i <= m
    <3>1. Len(t) \in Int
      BY <1>1
    <3> HIDE DEF kept
    <3> QED
      BY <1>1, <1>3, <3>1, MaxOfBounded
  <2> DEFINE b == m + 1
  <2>2. b \in 0..Len(t) /\ ~IsSpace(t, b - 1)
    <3>1. m \in 0..(Len(t) - 1) /\ ~IsSpace(t, m)
      <4> HIDE DEF m
      <4> QED
        BY <2>1 DEF Offsets
    <3> HIDE DEF m
    <3>2. b - 1 = m
      BY <1>1, <3>1
    <3> QED
      BY <1>1, <3>1, <3>2
  <2>3. TrimRight(t) = Slice(t, 0, b)
    BY <1>3 DEF TrimRight
  <2>4. \A i \in Offsets(t) : ~IsSpace(t, i) => i < b
    <3>1. m \in Int
      <4> HIDE DEF m
      <4> QED
        BY <1>1, <2>1
    <3> HIDE DEF m
    <3> QED
      BY <1>1, <2>1, <3>1
  <2> HIDE DEF b, kept
  <2> QED
    BY <2>2, <2>3, <2>4
<1> QED
  BY <1>2, <1>3

\* What is left of a text without the whitespace around it.
LEMMA TrimSpaceIs ==
  ASSUME NEW S, NEW t \in Seq(S)
  PROVE  \E a \in Nat, b \in Nat :
           /\ a <= b /\ b <= Len(t)
           /\ TrimSpace(t) = Slice(t, a, b)
           /\ \A i \in Offsets(t) : ~IsSpace(t, i) => a <= i /\ i < b
           /\ a < b => ~IsSpace(t, a) /\ ~IsSpace(t, b - 1)
<1>1. PICK b \in 0..Len(t) :
        /\ TrimRight(t) = Slice(t, 0, b)
        /\ \A i \in Offsets(t) : ~IsSpace(t, i) => i < b
        /\ 0 < b => ~IsSpace(t, b - 1)
  BY TrimRightIs
<1> DEFINE u == Slice(t, 0, b)
<1>2. Len(t) \in Nat /\ b \in Nat /\ b <= Len(t)
  BY Texts
<1>3. u \in Seq(S) /\ Len(u) = b /\ \A i \in 1..b : u[i] = t[i]
  <2>0. 0 \in Nat /\ 0 <= b
    BY <1>2
  <2>1. /\ u \in Seq(S) /\ Len(u) = b - 0
        /\ \A i \in 1..(b - 0) : u[i] = t[0 + i]
    BY <1>2, <2>0, SliceIs
  <2>2. b - 0 = b /\ \A i \in 1..b : 0 + i = i
    BY <1>2
  <2> QED
    BY <2>1, <2>2
<1>4. PICK a \in 0..Len(u) :
        /\ TrimLeft(u) = Slice(u, a, Len(u))
        /\ \A i \in Offsets(u) : ~IsSpace(u, i) => a <= i
        /\ a < Len(u) => ~IsSpace(u, a)
  <2> HIDE DEF u
  <2> QED
    BY <1>3, TrimLeftIs
<1>5. a \in Nat /\ a <= b
  BY <1>2, <1>3
<1>6. Slice(u, a, b) = Slice(t, a, b)
  <2>1. Slice(Slice(t, 0, b), a, b) = Slice(t, 0 + a, 0 + b)
    BY <1>2, <1>5, SliceOfSlice
  <2> QED
    BY <1>2, <1>5, <2>1
<1>7. TrimSpace(t) = Slice(t, a, b)
  <2> HIDE DEF u
  <2> QED
    BY <1>1, <1>3, <1>4, <1>6 DEF TrimSpace, u
<1>8. \A i \in 0..(b - 1) : IsSpace(u, i) <=> IsSpace(t, i)
  <2>1. \A i \in 0..(b - 1) : u[i + 1] = t[i + 1]
    BY <1>2, <1>3
  <2> QED
    BY <2>1 DEF IsSpace, ClassAt
<1>9. ASSUME NEW i \in Offsets(t), ~IsSpace(t, i) PROVE a <= i /\ i < b
  <2>1. i < b /\ i \in 0..(b - 1)
    BY <1>1, <1>2, <1>9 DEF Offsets
  <2>2. i \in Offsets(u) /\ ~IsSpace(u, i)
    BY <1>3, <1>8, <1>9, <2>1 DEF Offsets
  <2> QED
    BY <1>4, <2>1, <2>2
<1>10. a < b => ~IsSpace(t, a) /\ ~IsSpace(t, b - 1)
  <2> SUFFICES ASSUME a < b PROVE ~IsSpace(t, a) /\ ~IsSpace(t, b - 1)
    OBVIOUS
  <2>1. a \in 0..(b - 1) /\ 0 < b
    BY <1>2, <1>5
  <2>2. ~IsSpace(u, a)
    BY <1>3, <1>4
  <2> QED
    BY <1>1, <1>8, <2>1, <2>2
<1> HIDE DEF u
<1> QED
  BY <1>2, <1>5, <1>7, <1>9, <1>10

-----------------------------------------------------------------------------
(* Order *)

\* Every rune of s that has a place stands before every one of t.
AllBefore(s, t) ==
  \A i \in DOMAIN s, j \in DOMAIN t :
    s[i].at # Nowhere /\ t[j].at # Nowhere => Before(s[i].at, t[j].at)

\* Lines whose runes are in the order of the document.
LinesInOrder(lines) ==
  /\ \A i \in 1..Len(lines) : InOrder(lines[i])
  /\ \A i, j \in 1..Len(lines) : i < j => AllBefore(lines[i], lines[j])

\* The elements of a concatenation are those of its parts.
LEMMA ConcatElements ==
  ASSUME NEW S, NEW s \in Seq(S), NEW t \in Seq(S), NEW k \in DOMAIN (s \o t)
  PROVE  \/ k \in DOMAIN s /\ (s \o t)[k] = s[k]
         \/ k - Len(s) \in DOMAIN t /\ (s \o t)[k] = t[k - Len(s)] /\ k > Len(s)
<1>1. /\ s \o t \in Seq(S) /\ Len(s \o t) = Len(s) + Len(t)
      /\ \A i \in 1..Len(s) : (s \o t)[i] = s[i]
      /\ \A i \in 1..Len(t) : (s \o t)[Len(s) + i] = t[i]
  BY ConcatIs
<1>2. /\ Len(s) \in Nat /\ Len(t) \in Nat /\ DOMAIN s = 1..Len(s) /\ DOMAIN t = 1..Len(t)
      /\ DOMAIN (s \o t) = 1..Len(s \o t)
  BY <1>1, Texts
<1>3. CASE k <= Len(s)
  BY <1>1, <1>2, <1>3
<1>4. CASE ~(k <= Len(s))
  <2>1. k - Len(s) \in 1..Len(t) /\ Len(s) + (k - Len(s)) = k
    BY <1>1, <1>2, <1>4
  <2> QED
    BY <1>1, <1>2, <1>4, <2>1
<1> QED
  BY <1>3, <1>4

\* Texts in order, one after the other, are in order.
LEMMA ConcatInOrder ==
  ASSUME NEW S, NEW s \in Seq(S), NEW t \in Seq(S), InOrder(s), InOrder(t), AllBefore(s, t)
  PROVE  InOrder(s \o t)
<1> SUFFICES ASSUME NEW i \in DOMAIN (s \o t), NEW j \in DOMAIN (s \o t), i < j,
                    (s \o t)[i].at # Nowhere, (s \o t)[j].at # Nowhere
             PROVE  Before((s \o t)[i].at, (s \o t)[j].at)
  BY DEF InOrder
<1>1. \/ i \in DOMAIN s /\ (s \o t)[i] = s[i]
      \/ i - Len(s) \in DOMAIN t /\ (s \o t)[i] = t[i - Len(s)] /\ i > Len(s)
  BY ConcatElements
<1>2. \/ j \in DOMAIN s /\ (s \o t)[j] = s[j]
      \/ j - Len(s) \in DOMAIN t /\ (s \o t)[j] = t[j - Len(s)] /\ j > Len(s)
  BY ConcatElements
<1>3. /\ Len(s) \in Nat /\ DOMAIN s = 1..Len(s) /\ DOMAIN t = 1..Len(t) /\ Len(t) \in Nat
      /\ s \o t \in Seq(S) /\ DOMAIN (s \o t) = 1..Len(s \o t) /\ Len(s \o t) \in Nat
  BY ConcatIs, Texts
<1>4. CASE i \in DOMAIN s /\ j \in DOMAIN s
  BY <1>1, <1>2, <1>3, <1>4 DEF InOrder
<1>5. CASE i \in DOMAIN s /\ j \notin DOMAIN s
  BY <1>1, <1>2, <1>3, <1>5 DEF AllBefore
<1>6. CASE i \notin DOMAIN s
  <2>1. i > Len(s) /\ j > Len(s)
    BY <1>1, <1>3, <1>6
  <2>2. /\ i - Len(s) \in DOMAIN t /\ (s \o t)[i] = t[i - Len(s)]
        /\ j - Len(s) \in DOMAIN t /\ (s \o t)[j] = t[j - Len(s)]
    BY <1>1, <1>2, <1>3, <2>1
  <2>3. i - Len(s) < j - Len(s)
    BY <1>3
  <2> QED
    BY <2>2, <2>3 DEF InOrder
<1> QED
  BY <1>4, <1>5, <1>6

\* What follows two texts follows their concatenation.
LEMMA ConcatBefore ==
  ASSUME NEW S, NEW s \in Seq(S), NEW t \in Seq(S), NEW u,
         AllBefore(s, u), AllBefore(t, u)
  PROVE  AllBefore(s \o t, u)
<1> SUFFICES ASSUME NEW i \in DOMAIN (s \o t), NEW j \in DOMAIN u,
                    (s \o t)[i].at # Nowhere, u[j].at # Nowhere
             PROVE  Before((s \o t)[i].at, u[j].at)
  BY DEF AllBefore
<1>1. \/ i \in DOMAIN s /\ (s \o t)[i] = s[i]
      \/ i - Len(s) \in DOMAIN t /\ (s \o t)[i] = t[i - Len(s)] /\ i > Len(s)
  BY ConcatElements
<1> QED
  BY <1>1 DEF AllBefore

\* A slice of a text in order is in order.
LEMMA SliceInOrder ==
  ASSUME NEW S, NEW t \in Seq(S), NEW a \in Nat, NEW b \in Nat, a <= b, b <= Len(t),
         InOrder(t)
  PROVE  InOrder(Slice(t, a, b))
<1> DEFINE u == Slice(t, a, b)
<1>1. u \in Seq(S) /\ Len(u) = b - a /\ \A i \in 1..(b - a) : u[i] = t[a + i]
  BY SliceIs
<1>2. DOMAIN u = 1..(b - a) /\ DOMAIN t = 1..Len(t) /\ Len(t) \in Nat
  BY <1>1, Texts
<1> HIDE DEF u
<1>3. ASSUME NEW i \in DOMAIN u, NEW j \in DOMAIN u, i < j,
             u[i].at # Nowhere, u[j].at # Nowhere
      PROVE  Before(u[i].at, u[j].at)
  <2>1. /\ a + i \in DOMAIN t /\ a + j \in DOMAIN t /\ a + i < a + j
        /\ u[i] = t[a + i] /\ u[j] = t[a + j]
    BY <1>1, <1>2, <1>3
  <2> QED
    BY <1>3, <2>1 DEF InOrder
<1> QED
  BY <1>3 DEF InOrder, u

-----------------------------------------------------------------------------
(* Lines that are joined *)

\* joined[n] is what JoinWith makes of the first n lines.
IsJoin(joined, S, lines, separator) ==
  /\ joined \in [0..Len(lines) -> Seq(S)]
  /\ JoinWith(lines, separator) = joined[Len(lines)]
  /\ joined[0] = <<>>
  /\ \A n \in 1..Len(lines) :
       joined[n] = IF n = 1 THEN lines[1] ELSE joined[n - 1] \o separator \o lines[n]

\* The recursion of JoinWith has a solution, which its CHOOSE takes.
LEMMA JoinWithIs ==
  ASSUME NEW S, NEW lines \in Seq(Seq(S)), NEW separator \in Seq(S)
  PROVE  \E joined : IsJoin(joined, S, lines, separator)
<1> DEFINE N == Len(lines)
           V == Seq(S)
           Rec(f) == f = [n \in 0..N |->
                            IF n = 0 THEN <<>>
                            ELSE IF n = 1 THEN lines[1]
                            ELSE f[n - 1] \o separator \o lines[n]]
           step == [p \in (1..N) \X V |->
                      IF p[1] = 1 THEN lines[1] ELSE p[2] \o separator \o lines[p[1]]]
<1>1. N \in Nat /\ <<>> \in V /\ \A n \in 1..N : lines[n] \in V
  BY Texts, EmptySeq
<1>2. step \in [(1..N) \X V -> V]
  <2>1. ASSUME NEW n \in 1..N, NEW s \in V PROVE s \o separator \o lines[n] \in V
    <3>1. s \o separator \in V
      BY ConcatIs
    <3> QED
      BY <1>1, <3>1, ConcatIs
  <2>2. \A p \in (1..N) \X V : (IF p[1] = 1 THEN lines[1] ELSE p[2] \o separator \o lines[p[1]]) \in V
    BY <1>1, <2>1
  <2> HIDE DEF N, V
  <2> QED
    BY <2>2
<1>3. PICK f \in [0..N -> V] : IsRecursion(f, N, <<>>, step)
  <2>1. N \in Nat /\ <<>> \in V
    BY <1>1
  <2> HIDE DEF N, V, step
  <2> QED
    BY <1>2, <2>1, RecursionExists
<1>4. Rec(f)
  <2>1. ASSUME NEW n \in 0..N
        PROVE  f[n] = IF n = 0 THEN <<>>
                      ELSE IF n = 1 THEN lines[1]
                      ELSE f[n - 1] \o separator \o lines[n]
    <3>1. CASE n = 0
      BY <1>3, <3>1 DEF IsRecursion
    <3>2. CASE n # 0
      <4>1. n \in 1..N /\ n - 1 \in 0..N
        BY <1>1, <3>2
      <4>2. f[n - 1] \in V /\ f[n] = step[<<n, f[n - 1]>>]
        <5> HIDE DEF V, step, N
        <5> QED
          BY <1>3, <4>1 DEF IsRecursion
      <4> HIDE DEF N, V
      <4> QED
        BY <3>2, <4>1, <4>2
    <3> QED
      BY <3>1, <3>2
  <2> HIDE DEF V, step
  <2> QED
    BY <1>3, <2>1
<1> DEFINE joined == CHOOSE g : Rec(g)
<1>5. JoinWith(lines, separator) = joined[N]
  BY DEF JoinWith
<1>6. Rec(joined)
  <2> HIDE DEF Rec
  <2> QED
    BY <1>4
<1> HIDE DEF joined
<1>7. /\ joined[0] = <<>>
      /\ \A n \in 1..N : joined[n] = IF n = 1 THEN lines[1]
                                     ELSE joined[n - 1] \o separator \o lines[n]
  <2>1. 0 \in 0..N /\ \A n \in 1..N : n \in 0..N /\ n # 0
    BY <1>1
  <2> HIDE DEF N
  <2> QED
    BY <1>6, <2>1
<1>8. \A n \in 0..N : joined[n] \in V
  <2> DEFINE typed == {n \in 0..N : joined[n] \in V}
  <2>1. 0 \in typed
    <3>1. 0 \in 0..N /\ joined[0] \in V
      BY <1>1, <1>7
    <3> HIDE DEF N, V
    <3> QED
      BY <3>1
  <2>2. ASSUME NEW n \in 1..N, n - 1 \in typed PROVE n \in typed
    <3>1. n \in 0..N
      BY <1>1
    <3>2. lines[n] \in V /\ lines[1] \in V
      BY <1>1, <3>1
    <3>3. joined[n - 1] \o separator \o lines[n] \in V
      <4>1. joined[n - 1] \o separator \in V
        BY <2>2, ConcatIs
      <4> QED
        BY <3>2, <4>1, ConcatIs
    <3> QED
      BY <1>7, <3>1, <3>2, <3>3
  <2>3. N \in Nat
    BY <1>1
  <2>4. \A n \in 0..N : n \in typed
    <3> HIDE DEF typed, N
    <3> QED
      BY <2>1, <2>2, <2>3, InductionTo
  <2> QED
    BY <2>4
<1>9. joined = [n \in 0..N |-> joined[n]]
  BY <1>6
<1>10. joined \in [0..N -> V]
  <2> HIDE DEF N, V
  <2> QED
    BY <1>8, <1>9
<1> QED
  BY <1>5, <1>7, <1>10 DEF IsJoin

-----------------------------------------------------------------------------
(* Kinds of runes *)

\* Whitespace, word runes, newlines and spaces.  The proofs use these names, since
\* a string in a fact keeps the provers from its arithmetic.
Blank(r) == r.c \in {" ", "\n"}
Letter(r) == r.c \in Words
Break(r) == r.c = "\n"
Indent(r) == r.c = " "

\* How the kinds exclude each other.
LEMMA Kinds ==
  ASSUME NEW r
  PROVE  /\ Letter(r) => ~Blank(r)
         /\ Blank(r) <=> Break(r) \/ Indent(r)
         /\ ~(Break(r) /\ Indent(r))
  BY DEF Blank, Letter, Break, Indent, Words

\* The kinds of a rune are those of its offset.
LEMMA KindsAt ==
  ASSUME NEW t, NEW i
  PROVE  /\ IsSpace(t, i) <=> Blank(t[i + 1])
         /\ IsWordRune(t, i) <=> Letter(t[i + 1])
         /\ ClassAt(t, i) = "\n" <=> Break(t[i + 1])
         /\ ClassAt(t, i) = " " <=> Indent(t[i + 1])
  BY DEF IsSpace, IsWordRune, ClassAt, Blank, Letter, Break, Indent

\* The two runes that the code inserts.
LEMMA InsertedKinds ==
  /\ Newline \in Rune /\ Newline.at = Nowhere /\ Break(Newline)
  /\ New(" ") \in Rune /\ New(" ").at = Nowhere /\ Indent(New(" "))
  BY DEF Newline, New, Rune, Nowhere, Classes, Break, Indent

-----------------------------------------------------------------------------
(* The first offset of a kind *)

\* FirstFrom is an offset of the set, or the length of the text, and none of the
\* set is between.
LEMMA FirstFromIs ==
  ASSUME NEW S, NEW t \in Seq(S), NEW from \in Nat, NEW H, H \subseteq Offsets(t)
  PROVE  /\ FirstFrom(t, from, H) \in Nat /\ FirstFrom(t, from, H) <= Len(t)
         /\ FirstFrom(t, from, H) < Len(t) =>
              FirstFrom(t, from, H) \in H /\ from <= FirstFrom(t, from, H)
         /\ \A i \in Nat : from <= i /\ i < FirstFrom(t, from, H) => i \notin H
         /\ from <= Len(t) => from <= FirstFrom(t, from, H)
<1> DEFINE all == {i \in H : i >= from} \cup {Len(t)}
           m == Min(all)
<1>1. Len(t) \in Nat /\ all \subseteq Nat /\ Len(t) \in all
  <2>1. Len(t) \in Nat /\ H \subseteq Nat
    BY Texts DEF Offsets
  <2> QED
    BY <2>1
<1>2. m \in all /\ \A x \in all : m <= x
  <2> HIDE DEF all
  <2> QED
    BY <1>1, MinOfNaturals
<1>3. FirstFrom(t, from, H) = m
  BY DEF FirstFrom
<1> HIDE DEF m
<1> QED
  BY <1>1, <1>2, <1>3 DEF Offsets

\* The first rune that is not whitespace.
LEMMA FirstNoSpace ==
  ASSUME NEW S, NEW t \in Seq(S), NEW from \in Nat, NEW m, m = FirstFrom(t, from, NoSpaces(t))
  PROVE  /\ m \in Nat /\ m <= Len(t)
         /\ m < Len(t) => ~IsSpace(t, m) /\ from <= m
         /\ \A i \in from..(Len(t) - 1) : i < m => IsSpace(t, i)
         /\ from <= Len(t) => from <= m
<1>1. /\ Len(t) \in Nat /\ NoSpaces(t) \subseteq Offsets(t)
      /\ \A i \in NoSpaces(t) : ~IsSpace(t, i)
      /\ \A i \in Offsets(t) : i \notin NoSpaces(t) => IsSpace(t, i)
  BY Texts DEF NoSpaces
<1>2. /\ m \in Nat /\ m <= Len(t)
      /\ m < Len(t) => m \in NoSpaces(t) /\ from <= m
      /\ \A i \in Nat : from <= i /\ i < m => i \notin NoSpaces(t)
      /\ from <= Len(t) => from <= m
  BY <1>1, FirstFromIs
<1>3. ASSUME NEW i \in from..(Len(t) - 1), i < m PROVE IsSpace(t, i)
  <2>1. i \in Nat /\ from <= i /\ i \in Offsets(t)
    BY <1>1 DEF Offsets
  <2>2. i \notin NoSpaces(t)
    BY <1>2, <1>3, <2>1
  <2> QED
    BY <2>1, <2>2 DEF NoSpaces
<1> QED
  BY <1>1, <1>2, <1>3

\* The end of the token at an offset.
LEMMA FirstNoWord ==
  ASSUME NEW S, NEW t \in Seq(S), NEW from \in Nat, NEW m, m = FirstFrom(t, from, NoWords(t))
  PROVE  /\ m \in Nat /\ m <= Len(t)
         /\ m < Len(t) => from <= m
         /\ \A i \in from..(Len(t) - 1) : i < m => IsWordRune(t, i)
         /\ from <= Len(t) => from <= m
<1>1. /\ Len(t) \in Nat /\ NoWords(t) \subseteq Offsets(t)
      /\ \A i \in Offsets(t) : i \notin NoWords(t) => IsWordRune(t, i)
  BY Texts DEF NoWords
<1>2. /\ m \in Nat /\ m <= Len(t)
      /\ m < Len(t) => m \in NoWords(t) /\ from <= m
      /\ \A i \in Nat : from <= i /\ i < m => i \notin NoWords(t)
      /\ from <= Len(t) => from <= m
  BY <1>1, FirstFromIs
<1>3. ASSUME NEW i \in from..(Len(t) - 1), i < m PROVE IsWordRune(t, i)
  <2>1. i \in Nat /\ from <= i /\ i \in Offsets(t)
    BY <1>1 DEF Offsets
  <2> QED
    BY <1>1, <1>2, <1>3, <2>1
<1> QED
  BY <1>1, <1>2, <1>3

\* The first blank line.
LEMMA FirstBreak ==
  ASSUME NEW S, NEW t \in Seq(S), NEW from \in Nat, NEW m, m = FirstFrom(t, from, Breaks(t))
  PROVE  /\ m \in Nat /\ m <= Len(t)
         /\ m < Len(t) => m + 1 < Len(t) /\ IsBreak(t, m) /\ from <= m
         /\ \A i \in from..(Len(t) - 2) : i < m => ~IsBreak(t, i)
         /\ from <= Len(t) => from <= m
<1>1. /\ Len(t) \in Nat /\ Breaks(t) \subseteq Offsets(t)
      /\ \A i \in Breaks(t) : i + 1 < Len(t) /\ IsBreak(t, i)
      /\ \A i \in Offsets(t) : i \notin Breaks(t) /\ i + 1 < Len(t) => ~IsBreak(t, i)
  BY Texts DEF Breaks
<1>2. /\ m \in Nat /\ m <= Len(t)
      /\ m < Len(t) => m \in Breaks(t) /\ from <= m
      /\ \A i \in Nat : from <= i /\ i < m => i \notin Breaks(t)
      /\ from <= Len(t) => from <= m
  BY <1>1, FirstFromIs
<1>3. ASSUME NEW i \in from..(Len(t) - 2), i < m PROVE ~IsBreak(t, i)
  <2>1. i \in Nat /\ from <= i /\ i \in Offsets(t) /\ i + 1 < Len(t)
    BY <1>1 DEF Offsets
  <2>2. i \notin Breaks(t)
    BY <1>2, <1>3, <2>1
  <2> QED
    BY <2>1, <2>2 DEF Breaks
<1> QED
  BY <1>1, <1>2, <1>3

-----------------------------------------------------------------------------
(* Where a chunk begins and ends *)

\* What the assumption on the constants says of the limits.
Fits == /\ Overlap \in Nat /\ Lookback \in Nat /\ Extend \in Nat /\ ParagraphLookback \in Nat
        /\ ParagraphMinLen \in Nat \ {0} /\ MinLen \in Nat \ {0} /\ ChunkSize \in Nat
        /\ ParagraphMinLen <= MinLen /\ MinLen <= ChunkSize /\ Overlap < ParagraphMinLen

\* A chunk is not empty, and it is long unless it is the last.
IsEnd(t, start, end) ==
  /\ end \in Nat /\ start < end /\ end <= Len(t)
  /\ end = Len(t) \/ end >= start + ParagraphMinLen

\* snapEnd moves the end of a chunk back by less than the chunk is long, and forward
\* only within a token.
LEMMA SnapEndIs ==
  ASSUME Fits, NEW S, NEW t \in Seq(S), NEW start \in Nat, start < Len(t), NEW e,
         e = SnapEnd(t, start, Min({start + ChunkSize, Len(t)}))
  PROVE  IsEnd(t, start, e)
<1> DEFINE e0 == Min({start + ChunkSize, Len(t)})
           s0 == IF start + MinLen > e0 THEN start ELSE start + MinLen
           low == Max({e0 - Lookback, s0})
           spaces == {i \in low..(e0 - 1) : IsSpace(t, i)}
           m == FirstFrom(t, e0, NoWords(t))
<1>0. e = IF e0 >= Len(t) THEN Len(t)
          ELSE IF e0 <= start THEN start
          ELSE IF spaces # {} THEN Max(spaces)
          ELSE IF IsWordRune(t, e0 - 1) /\ IsWordRune(t, e0) THEN Min({m, e0 + Extend})
          ELSE e0
  BY DEF SnapEnd
<1>1. Len(t) \in Nat
  BY Texts
<1>2. e0 = (IF start + ChunkSize <= Len(t) THEN start + ChunkSize ELSE Len(t))
  BY <1>1, MinOfTwo DEF Fits
<1>3. e0 \in Nat /\ start < e0 /\ e0 <= Len(t)
  BY <1>1, <1>2 DEF Fits
<1>4. CASE e0 >= Len(t)
  <2>1. e = Len(t)
    BY <1>0, <1>4
  <2> QED
    BY <1>1, <2>1 DEF IsEnd
<1>5. CASE ~(e0 >= Len(t))
  <2>1. e0 >= start + MinLen
    BY <1>1, <1>2, <1>5 DEF Fits
  <2>2. low \in Int /\ low >= start + MinLen
    <3> HIDE DEF e0
    <3>1. s0 = start + MinLen
      BY <1>3, <2>1 DEF Fits
    <3> HIDE DEF s0
    <3> QED
      BY <1>3, <3>1, MaxOfTwo DEF Fits
  <2> HIDE DEF e0, low, m
  <2>0. ~(e0 <= start)
    BY <1>3
  <2>3. CASE spaces # {}
    <3>1. e = Max(spaces)
      BY <1>0, <1>5, <2>0, <2>3
    <3>2. e0 - 1 \in Int /\ spaces \subseteq Int /\ \A x \in spaces : x <= e0 - 1
      BY <1>3, <2>2
    <3> HIDE DEF spaces
    <3>3. Max(spaces) \in spaces
      BY <2>3, <3>2, MaxOfBounded
    <3>4. e \in low..(e0 - 1)
      BY <3>1, <3>3 DEF spaces
    <3> QED
      BY <1>1, <1>3, <2>2, <3>4 DEF IsEnd, Fits
  <2>4. CASE spaces = {} /\ IsWordRune(t, e0 - 1) /\ IsWordRune(t, e0)
    <3>1. e = Min({m, e0 + Extend})
      BY <1>0, <1>5, <2>0, <2>4
    <3>2. m \in Nat /\ m <= Len(t) /\ e0 <= m
      <4>1. m = FirstFrom(t, e0, NoWords(t))
        BY DEF m
      <4> QED
        BY <1>1, <1>3, <4>1, FirstNoWord
    <3>3. e = IF m <= e0 + Extend THEN m ELSE e0 + Extend
      BY <1>3, <3>1, <3>2, MinOfTwo DEF Fits
    <3> QED
      BY <1>1, <1>3, <2>1, <3>2, <3>3 DEF IsEnd, Fits
  <2>5. CASE spaces = {} /\ ~(IsWordRune(t, e0 - 1) /\ IsWordRune(t, e0))
    <3>1. e = e0
      BY <1>0, <1>5, <2>0, <2>5
    <3> QED
      BY <1>1, <1>3, <2>1, <3>1 DEF IsEnd, Fits
  <2> QED
    BY <2>3, <2>4, <2>5
<1> QED
  BY <1>4, <1>5

\* A chunk ends after the limit of snapEndParagraph, or with the text.
LEMMA ChunkEndIs ==
  ASSUME Fits, NEW S, NEW t \in Seq(S), NEW start \in Nat, start < Len(t)
  PROVE  IsEnd(t, start, ChunkEnd(t, start))
<1> DEFINE e == SnapEnd(t, start, Min({start + ChunkSize, Len(t)}))
           low == Max({e - ParagraphLookback, start + ParagraphMinLen})
           breaks == {i \in low..(e - 2) : IsBreak(t, i)}
<1>1. Len(t) \in Nat
  BY Texts
<1> HIDE DEF e
<1>2. IsEnd(t, start, e)
  BY SnapEndIs DEF e
<1>3. ChunkEnd(t, start) = IF start + ParagraphMinLen > e \/ breaks = {} THEN e ELSE Max(breaks)
  BY DEF ChunkEnd, SnapEndParagraph, e
<1>4. CASE start + ParagraphMinLen > e \/ breaks = {}
  BY <1>2, <1>3, <1>4
<1>5. CASE ~(start + ParagraphMinLen > e \/ breaks = {})
  <2>1. e \in Nat /\ e <= Len(t)
    BY <1>2 DEF IsEnd
  <2>2. low \in Int /\ low >= start + ParagraphMinLen
    BY <2>1, MaxOfTwo DEF Fits
  <2> HIDE DEF low
  <2>3. breaks \subseteq Int /\ e - 2 \in Int /\ \A x \in breaks : x <= e - 2
    BY <2>1, <2>2
  <2>4. Max(breaks) \in breaks
    <3> HIDE DEF breaks
    <3> QED
      BY <1>5, <2>3, MaxOfBounded
  <2>5. ChunkEnd(t, start) \in low..(e - 2)
    BY <1>3, <1>5, <2>4
  <2> QED
    BY <1>1, <2>1, <2>2, <2>5 DEF IsEnd, Fits
<1> QED
  BY <1>4, <1>5

\* The next chunk begins behind this one's start, and no word is left out.
LEMMA NextStartIs ==
  ASSUME Fits, NEW S, NEW t \in Seq(S), NEW start \in Nat, NEW end, IsEnd(t, start, end),
         end # Len(t)
  PROVE  /\ NextStart(t, start, end) \in Nat
         /\ \A k \in Offsets(t) :
              IsWordRune(t, k) /\ end <= k /\ k < NextStart(t, start, end) => HasLongToken(t)
<1> DEFINE from == end - Overlap
           inside == IsWordRune(t, from) /\ IsWordRune(t, from - 1)
           token == IF inside
                    THEN FirstFrom(t, from, NoWords(t))
                    ELSE from
           next == FirstFrom(t, token, NoSpaces(t))
<1>1. /\ Len(t) \in Nat /\ end \in Nat /\ end < Len(t)
      /\ from \in Nat /\ from > start /\ from > 0 /\ from < Len(t) /\ end = from + Overlap
      /\ from - 1 \in Nat /\ Overlap \in Nat
  BY Texts DEF IsEnd, Fits
<1>2. NextStart(t, start, end) = SnapStart(t, from)
  BY <1>1 DEF NextStart, Fits
<1> HIDE DEF from
<1>3. NextStart(t, start, end) = next
  <2>1. ~(from <= 0) /\ ~(from >= Len(t))
    BY <1>1
  <2> QED
    BY <1>2, <2>1 DEF SnapStart
<1>4. /\ token \in Nat /\ token <= Len(t)
      /\ (inside => \A i \in from..(Len(t) - 1) : i < token => IsWordRune(t, i))
      /\ (~inside => token = from)
  <2>1. CASE inside
    <3> DEFINE m == FirstFrom(t, from, NoWords(t))
    <3>1. token = m
      BY <2>1
    <3> HIDE DEF m, token
    <3>2. m = FirstFrom(t, from, NoWords(t))
      BY DEF m
    <3>3. /\ m \in Nat /\ m <= Len(t)
          /\ \A i \in from..(Len(t) - 1) : i < m => IsWordRune(t, i)
      BY <1>1, <3>2, FirstNoWord
    <3> QED
      BY <2>1, <3>1, <3>3
  <2>2. CASE ~inside
    <3>1. token = from
      BY <2>2
    <3> QED
      BY <1>1, <2>2, <3>1
  <2> QED
    BY <2>1, <2>2
<1> HIDE DEF token
<1>5. /\ next \in Nat /\ next <= Len(t)
      /\ \A i \in token..(Len(t) - 1) : i < next => IsSpace(t, i)
  <2> HIDE DEF next
  <2>1. next = FirstFrom(t, token, NoSpaces(t))
    BY DEF next
  <2> QED
    BY <1>4, <2>1, FirstNoSpace
<1> HIDE DEF next
<1>6. ASSUME NEW k \in Offsets(t), IsWordRune(t, k), end <= k, k < next PROVE HasLongToken(t)
  <2>1. k \in Nat /\ k < Len(t)
    BY <1>1 DEF Offsets
  <2>2. ~IsSpace(t, k)
    BY <1>6, Kinds, KindsAt
  <2>3. k < token
    <3>1. CASE k >= token
      <4>1. k \in token..(Len(t) - 1)
        BY <1>1, <1>4, <2>1, <3>1
      <4> QED
        BY <1>5, <1>6, <2>2, <4>1
    <3> QED
      BY <1>4, <2>1, <3>1
  <2>4. inside
    BY <1>1, <1>4, <1>6, <2>1, <2>3
  <2>5. ASSUME NEW i \in (from - 1)..((from - 1) + Overlap + 1) PROVE IsWordRune(t, i)
    <3>1. CASE i = from - 1
      BY <2>4, <3>1
    <3>2. CASE i # from - 1
      <4>1. i \in from..(Len(t) - 1) /\ i < token
        BY <1>1, <1>4, <1>6, <2>1, <2>3, <3>2
      <4> QED
        BY <1>4, <2>4, <4>1
    <3> QED
      BY <3>1, <3>2
  <2>6. from - 1 \in Offsets(t) /\ (from - 1) + Overlap + 1 < Len(t)
    BY <1>1 DEF Offsets
  <2> DEFINE f == from - 1
  <2>7. f \in Offsets(t) /\ f + Overlap + 1 < Len(t)
        /\ \A i \in f..(f + Overlap + 1) : IsWordRune(t, i)
    BY <2>5, <2>6
  <2> HIDE DEF f
  <2> QED
    BY <2>7 DEF HasLongToken
<1> QED
  BY <1>3, <1>5, <1>6

-----------------------------------------------------------------------------
(* What a section is made of *)

\* Paragraphs that stand in a text one after another, a blank line apart.
Spans(t, ps) ==
  /\ ps \in Seq(Paragraph)
  /\ \A i \in 1..Len(ps) :
       /\ ps[i].text # <<>> /\ EndOf(ps[i]) <= Len(t)
       /\ ps[i].text = Slice(t, ps[i].start, EndOf(ps[i]))
  /\ \A i \in 1..(Len(ps) - 1) :
       /\ IsBreak(t, EndOf(ps[i])) /\ EndOf(ps[i]) + 2 <= ps[i + 1].start
       /\ EndOf(ps[i]) + 2 < ps[i + 1].start => Indented(t)

\* The content c of the first n paragraphs is written in the text, rune k of it
\* as the w[k]-th rune of the text.
Written(c, t, ps, n, w) ==
  /\ c \in Seq(Rune) /\ c # <<>>
  /\ w \in [1..Len(c) -> 1..Len(t)]
  /\ \A k \in 1..Len(c) : c[k] = t[w[k]]
  /\ \A k, l \in 1..Len(c) : k < l => w[k] < w[l]
  /\ \A k \in 1..(Len(c) - 1) : w[k + 1] = w[k] + 1 \/ (Break(c[k]) /\ Indented(t))
  /\ w[1] = ps[1].start + 1 /\ w[Len(c)] = EndOf(ps[n])
  /\ \A k \in 1..Len(c) :
       c[k] = Newline \/ \E i \in 1..n : ps[i].start < w[k] /\ w[k] <= EndOf(ps[i])
  /\ \A i \in 1..n : \A m \in 1..Len(ps[i].text) :
       \E k \in 1..Len(c) : w[k] = ps[i].start + m

\* All newlines of a text are inserted ones.
NewlinesInserted(t) == \A i \in 1..Len(t) : Break(t[i]) => t[i] = Newline

\* A paragraph has the runes of the text.
LEMMA SpanIs ==
  ASSUME NEW t \in Seq(Rune), NEW ps, Spans(t, ps), NEW i \in 1..Len(ps)
  PROVE  /\ ps[i] \in Paragraph /\ ps[i].start \in Nat /\ ps[i].text \in Seq(Rune)
         /\ Len(ps[i].text) \in Nat /\ Len(ps[i].text) > 0
         /\ EndOf(ps[i]) = ps[i].start + Len(ps[i].text)
         /\ EndOf(ps[i]) \in Nat /\ EndOf(ps[i]) <= Len(t) /\ Len(t) \in Nat
         /\ \A m \in 1..Len(ps[i].text) : ps[i].text[m] = t[ps[i].start + m]
<1>1. ps \in Seq(Paragraph)
  BY DEF Spans
<1>2. ps[i] \in Paragraph
  BY <1>1, Texts
<1>3. ps[i].start \in Nat /\ ps[i].text \in Seq(Rune)
  BY <1>2 DEF Paragraph
<1>4. /\ ps[i].text # <<>> /\ EndOf(ps[i]) <= Len(t)
      /\ ps[i].text = Slice(t, ps[i].start, EndOf(ps[i]))
  BY DEF Spans
<1>5. Len(ps[i].text) \in Nat /\ Len(ps[i].text) > 0 /\ Len(t) \in Nat
  BY <1>3, <1>4, Texts
<1>6. EndOf(ps[i]) = ps[i].start + Len(ps[i].text)
  BY DEF EndOf
<1> DEFINE a == ps[i].start
           b == EndOf(ps[i])
<1>7. a \in Nat /\ b \in Nat /\ a <= b /\ b <= Len(t) /\ b - a = Len(ps[i].text)
  BY <1>3, <1>4, <1>5, <1>6
<1>8. \A m \in 1..(b - a) : Slice(t, a, b)[m] = t[a + m]
  <2> HIDE DEF a, b
  <2> QED
    BY <1>7, SliceIs
<1> QED
  BY <1>2, <1>3, <1>4, <1>5, <1>6, <1>7, <1>8

\* The separator of paragraphs and pages.
LEMMA BlankLineIs ==
  /\ BlankLine \in Seq(Rune) /\ Len(BlankLine) = 2
  /\ BlankLine[1] = Newline /\ BlankLine[2] = Newline /\ DOMAIN BlankLine = 1..2
<1>1. Newline \in Rune
  BY InsertedKinds
<1> DEFINE n == Newline
<1>2. n \in Rune
  BY <1>1
<1> HIDE DEF n
<1>3. <<n, n>> \in Seq(Rune) /\ Len(<<n, n>>) = 2 /\ <<n, n>>[1] = n /\ <<n, n>>[2] = n
      /\ DOMAIN <<n, n>> = 1..2
  BY <1>2
<1> QED
  BY <1>3 DEF n, BlankLine

\* The content of one paragraph.
LEMMA WrittenFirst ==
  ASSUME NEW t \in Seq(Rune), NEW ps, Spans(t, ps), Len(ps) > 0
  PROVE  \E w : Written(ps[1].text, t, ps, 1, w)
<1>0. ps \in Seq(Paragraph) /\ Len(ps) \in Nat /\ 1 \in 1..Len(ps)
  BY Texts DEF Spans
<1> DEFINE c == ps[1].text
           s == ps[1].start
           L == Len(c)
           w == [k \in 1..L |-> s + k]
<1>1. /\ s \in Nat /\ c \in Seq(Rune) /\ L \in Nat /\ L > 0 /\ EndOf(ps[1]) = s + L
      /\ s + L <= Len(t) /\ Len(t) \in Nat /\ \A m \in 1..L : c[m] = t[s + m]
  BY <1>0, SpanIs
<1>2. c # <<>>
  BY <1>0 DEF Spans
<1> HIDE DEF c, s, L
<1>3. w \in [1..L -> 1..Len(t)] /\ \A k \in 1..L : w[k] = s + k
  BY <1>1
<1> HIDE DEF w
<1>4. \A k \in 1..L : c[k] = t[w[k]]
  BY <1>1, <1>3
<1>5. \A k, l \in 1..L : k < l => w[k] < w[l]
  BY <1>1, <1>3
<1>6. \A k \in 1..(L - 1) : w[k + 1] = w[k] + 1
  BY <1>1, <1>3
<1>7. w[1] = s + 1 /\ w[L] = EndOf(ps[1])
  BY <1>1, <1>3
<1>8. \A k \in 1..L : \E i \in 1..1 : ps[i].start < w[k] /\ w[k] <= EndOf(ps[i])
  <2> TAKE k \in 1..L
  <2>1. s < w[k] /\ w[k] <= EndOf(ps[1])
    BY <1>1, <1>3
  <2> QED
    BY <2>1 DEF s
<1>9. \A i \in 1..1 : \A m \in 1..Len(ps[i].text) : \E k \in 1..L : w[k] = ps[i].start + m
  <2> TAKE i \in 1..1
  <2>1. i = 1
    OBVIOUS
  <2> TAKE m \in 1..Len(ps[i].text)
  <2>2. m \in 1..L /\ w[m] = s + m
    BY <1>3, <2>1 DEF L, c
  <2> QED
    BY <2>1, <2>2 DEF s
<1>10. Written(c, t, ps, 1, w)
  BY <1>1, <1>2, <1>3, <1>4, <1>5, <1>6, <1>7, <1>8, <1>9 DEF Written, s, L
<1> QED
  BY <1>10 DEF c

\* One more paragraph is written after a blank line.
LEMMA WrittenNext ==
  ASSUME NEW t \in Seq(Rune), NEW ps, Spans(t, ps), NewlinesInserted(t),
         NEW n \in 2..Len(ps), NEW c, NEW w, Written(c, t, ps, n - 1, w)
  PROVE  \E v : Written(c \o BlankLine \o ps[n].text, t, ps, n, v)
<1>0. ps \in Seq(Paragraph) /\ Len(ps) \in Nat /\ n \in 1..Len(ps) /\ n - 1 \in 1..Len(ps)
      /\ n - 1 \in 1..(Len(ps) - 1) /\ (n - 1) + 1 = n
  BY Texts DEF Spans
<1> DEFINE x == ps[n].text
           s == ps[n].start
           e == EndOf(ps[n - 1])
           L == Len(c)
           M == Len(x)
           c2 == c \o BlankLine \o x
           v == [k \in 1..(L + 2 + M) |->
                   IF k <= L THEN w[k] ELSE IF k <= L + 2 THEN e + (k - L) ELSE s + (k - (L + 2))]
<1>1. /\ s \in Nat /\ x \in Seq(Rune) /\ M \in Nat /\ M > 0 /\ EndOf(ps[n]) = s + M
      /\ s + M <= Len(t) /\ Len(t) \in Nat /\ \A m \in 1..M : x[m] = t[s + m]
  BY <1>0, SpanIs
<1>2. e \in Nat
  BY <1>0, SpanIs
<1>3. /\ IsBreak(t, e) /\ e + 2 <= s /\ (e + 2 < s => Indented(t))
  BY <1>0 DEF Spans
<1>4. t[e + 1] = Newline /\ t[e + 2] = Newline
  <2>1. Break(t[e + 1]) /\ Break(t[(e + 1) + 1])
    BY <1>3, KindsAt DEF IsBreak
  <2>2. e + 1 \in 1..Len(t) /\ e + 2 \in 1..Len(t) /\ (e + 1) + 1 = e + 2
    <3> DEFINE T == Len(t)
    <3>1. /\ s \in Nat /\ M \in Nat /\ T \in Nat /\ e \in Nat
          /\ s + M <= T /\ e + 2 <= s
      BY <1>1, <1>2, <1>3
    <3> HIDE DEF s, e, M, T
    <3>2. e + 1 \in 1..T /\ e + 2 \in 1..T /\ (e + 1) + 1 = e + 2
      BY <3>1
    <3> QED
      BY <3>2 DEF T
  <2> QED
    BY <2>1, <2>2 DEF NewlinesInserted
<1>5. /\ c \in Seq(Rune) /\ c # <<>> /\ w \in [1..L -> 1..Len(t)]
      /\ \A k \in 1..L : c[k] = t[w[k]]
      /\ \A k, l \in 1..L : k < l => w[k] < w[l]
      /\ w[1] = ps[1].start + 1 /\ w[L] = e
  BY DEF Written
<1>6. \A k \in 1..(L - 1) : w[k + 1] = w[k] + 1 \/ (Break(c[k]) /\ Indented(t))
  BY DEF Written
<1>7. \A k \in 1..L :
        c[k] = Newline \/ \E i \in 1..(n - 1) : ps[i].start < w[k] /\ w[k] <= EndOf(ps[i])
  BY DEF Written
<1>8. \A i \in 1..(n - 1) : \A m \in 1..Len(ps[i].text) :
        \E k \in 1..L : w[k] = ps[i].start + m
  BY DEF Written
<1>9. L \in Nat /\ L > 0
  BY <1>5, Texts
<1>10. /\ c2 \in Seq(Rune) /\ Len(c2) = L + 2 + M
       /\ \A k \in 1..L : c2[k] = c[k]
       /\ c2[L + 1] = Newline /\ c2[L + 2] = Newline
       /\ \A m \in 1..M : c2[L + 2 + m] = x[m]
  <2> DEFINE d == c \o BlankLine
  <2>1. /\ d \in Seq(Rune) /\ Len(d) = L + 2 /\ \A k \in 1..L : d[k] = c[k]
        /\ d[L + 1] = Newline /\ d[L + 2] = Newline
    <3>0. c \in Seq(Rune) /\ BlankLine \in Seq(Rune)
      BY <1>5, BlankLineIs
    <3>1. /\ d \in Seq(Rune) /\ Len(d) = Len(c) + Len(BlankLine)
          /\ \A k \in 1..Len(c) : d[k] = c[k]
          /\ \A k \in 1..Len(BlankLine) : d[Len(c) + k] = BlankLine[k]
      BY <3>0, ConcatIs
    <3> HIDE DEF d
    <3> QED
      BY <3>1, BlankLineIs
  <2> HIDE DEF d, x
  <2>2. d \in Seq(Rune) /\ x \in Seq(Rune)
    BY <1>1, <2>1
  <2>3. /\ d \o x \in Seq(Rune) /\ Len(d \o x) = Len(d) + Len(x)
        /\ \A k \in 1..Len(d) : (d \o x)[k] = d[k]
        /\ \A k \in 1..Len(x) : (d \o x)[Len(d) + k] = x[k]
    BY <2>2, ConcatIs
  <2>4. c2 = d \o x /\ M = Len(x)
    BY DEF d
  <2> HIDE DEF c2, L, M
  <2>5. \A k \in 1..(L + 2) : c2[k] = d[k]
    BY <2>1, <2>3, <2>4
  <2>6. \A m \in 1..M : c2[L + 2 + m] = x[m]
    BY <2>1, <2>3, <2>4
  <2>7. c2 \in Seq(Rune) /\ Len(c2) = L + 2 + M
    BY <2>1, <2>3, <2>4
  <2>8. \A k \in 1..L : c2[k] = c[k]
    <3>1. \A k \in 1..L : k \in 1..(L + 2)
      BY <1>9
    <3> QED
      BY <2>1, <2>5, <3>1
  <2>9. c2[L + 1] = Newline /\ c2[L + 2] = Newline
    <3>1. L + 1 \in 1..(L + 2) /\ L + 2 \in 1..(L + 2)
      BY <1>9
    <3> QED
      BY <2>1, <2>5, <3>1
  <2> QED
    BY <2>6, <2>7, <2>8, <2>9
<1> HIDE DEF x, s, e, L, M, c2
<1>11. /\ \A k \in 1..L : v[k] = w[k]
       /\ v[L + 1] = e + 1 /\ v[L + 2] = e + 2
       /\ \A m \in 1..M : v[L + 2 + m] = s + m
  BY <1>1, <1>2, <1>9
<1>12. v \in [1..(L + 2 + M) -> 1..Len(t)]
  <2>1. ASSUME NEW k \in 1..(L + 2 + M) PROVE v[k] \in 1..Len(t)
    <3>1. CASE k <= L
      BY <1>5, <1>9, <1>11, <3>1
    <3>2. CASE ~(k <= L) /\ k <= L + 2
      <4>1. v[k] = e + (k - L)
        BY <3>2
      <4> DEFINE T == Len(t)
      <4>2. /\ s \in Nat /\ M \in Nat /\ T \in Nat /\ e \in Nat /\ L \in Nat /\ k \in Nat
            /\ s + M <= T /\ e + 2 <= s
        BY <1>1, <1>2, <1>3, <1>9
      <4> HIDE DEF v, T
      <4>3. v[k] \in 1..T
        BY <3>2, <4>1, <4>2
      <4> QED
        BY <4>3 DEF T
    <3>3. CASE ~(k <= L) /\ ~(k <= L + 2)
      <4>1. v[k] = s + (k - (L + 2))
        BY <3>3
      <4> HIDE DEF v
      <4> QED
        BY <1>1, <1>9, <3>3, <4>1, SMTT(20)
    <3> QED
      BY <3>1, <3>2, <3>3
  <2> QED
    BY <2>1
<1> HIDE DEF v
<1>13. \A k \in 1..(L + 2 + M) :
         k \in 1..L \/ k = L + 1 \/ k = L + 2 \/ \E m \in 1..M : k = L + 2 + m
  <2> TAKE k \in 1..(L + 2 + M)
  <2>1. CASE k > L + 2
    <3>1. k - (L + 2) \in 1..M /\ k = L + 2 + (k - (L + 2))
      BY <1>1, <1>9, <2>1
    <3> QED
      BY <3>1
  <2>2. CASE ~(k > L + 2)
    BY <1>1, <1>9, <2>2
  <2> QED
    BY <2>1, <2>2
<1>14. \A k \in 1..(L + 2 + M) : c2[k] = t[v[k]]
  <2> TAKE k \in 1..(L + 2 + M)
  <2>1. CASE k \in 1..L
    BY <1>5, <1>10, <1>11, <2>1
  <2>2. CASE k = L + 1 \/ k = L + 2
    BY <1>4, <1>10, <1>11, <2>2
  <2>3. ASSUME NEW m \in 1..M, k = L + 2 + m PROVE c2[k] = t[v[k]]
    BY <1>1, <1>10, <1>11, <2>3
  <2> QED
    BY <1>13, <2>1, <2>2, <2>3
<1>15. \A k \in 1..L : w[k] \in Nat /\ w[k] <= e
  BY <1>5, <1>9
<1>16. \A k, l \in 1..(L + 2 + M) : k < l => v[k] < v[l]
  <2> TAKE k, l \in 1..(L + 2 + M)
  <2> HAVE k < l
  <2>1. CASE l \in 1..L
    <3>1. k \in 1..L
      BY <1>9, <2>1
    <3>2. w[k] < w[l]
      BY <1>5, <2>1, <3>1
    <3> QED
      BY <1>11, <2>1, <3>1, <3>2
  <2>2. CASE l = L + 1 \/ l = L + 2
    <3>1. k \in 1..L \/ (k = L + 1 /\ l = L + 2)
      BY <1>9, <2>2
    <3> QED
      BY <1>2, <1>11, <1>15, <2>2, <3>1
  <2>3. ASSUME NEW m \in 1..M, l = L + 2 + m PROVE v[k] < v[l]
    <3>1. v[l] = s + m
      BY <1>11, <2>3
    <3>2. CASE k \in 1..L \/ k = L + 1 \/ k = L + 2
      <4>1. v[k] \in Int /\ v[k] <= e + 2
        BY <1>2, <1>11, <1>15, <3>2
      <4> QED
        BY <1>1, <1>2, <1>3, <3>1, <4>1, SMTT(20)
    <3>3. ASSUME NEW j \in 1..M, k = L + 2 + j PROVE v[k] < v[l]
      <4>1. v[k] = s + j /\ j < m
        BY <1>9, <1>11, <2>3, <3>3
      <4> QED
        BY <1>1, <3>1, <4>1
    <3> QED
      BY <1>13, <3>2, <3>3
  <2> QED
    BY <1>13, <2>1, <2>2, <2>3
<1>17. \A k \in 1..(L + 2 + M - 1) : v[k + 1] = v[k] + 1 \/ (Break(c2[k]) /\ Indented(t))
  <2> TAKE k \in 1..(L + 2 + M - 1)
  <2>1. CASE k \in 1..(L - 1)
    <3>1. k \in 1..L /\ k + 1 \in 1..L
      BY <1>9, <2>1
    <3>2. v[k] = w[k] /\ v[k + 1] = w[k + 1] /\ c2[k] = c[k]
      BY <1>10, <1>11, <3>1
    <3> QED
      BY <1>6, <2>1, <3>2
  <2>2. CASE k = L
    <3>1. v[k] = e /\ v[k + 1] = e + 1
      BY <1>5, <1>9, <1>11, <2>2
    <3> QED
      BY <3>1
  <2>3. CASE k = L + 1
    <3>1. v[k] = e + 1 /\ v[k + 1] = e + 2 /\ k + 1 = L + 2
      BY <1>9, <1>11, <2>3
    <3> QED
      BY <1>2, <3>1
  <2>4. CASE k = L + 2
    <3>1. 1 \in 1..M /\ k + 1 = L + 2 + 1
      BY <1>1, <2>4
    <3>2. v[k] = e + 2 /\ v[k + 1] = s + 1 /\ c2[k] = Newline
      BY <1>10, <1>11, <2>4, <3>1
    <3>3. CASE e + 2 < s
      BY <1>3, <3>2, <3>3, InsertedKinds
    <3>4. CASE ~(e + 2 < s)
      BY <1>1, <1>2, <1>3, <3>2, <3>4
    <3> QED
      BY <3>3, <3>4
  <2>5. CASE k > L + 2
    <3> DEFINE m == k - (L + 2)
    <3>1. m \in 1..M /\ m + 1 \in 1..M /\ k = L + 2 + m /\ k + 1 = L + 2 + (m + 1)
      BY <1>1, <1>9, <2>5
    <3> HIDE DEF m
    <3>2. v[k] = s + m /\ v[k + 1] = s + (m + 1)
      BY <1>11, <3>1
    <3> QED
      BY <1>1, <3>1, <3>2
  <2> QED
    BY <1>1, <1>9, <2>1, <2>2, <2>3, <2>4, <2>5
<1>18. v[1] = ps[1].start + 1 /\ v[Len(c2)] = EndOf(ps[n])
  <2>1. 1 \in 1..L /\ M \in 1..M
    BY <1>1, <1>9
  <2> QED
    BY <1>1, <1>5, <1>10, <1>11, <2>1
<1>19. \A k \in 1..(L + 2 + M) :
         c2[k] = Newline \/ \E i \in 1..n : ps[i].start < v[k] /\ v[k] <= EndOf(ps[i])
  <2> TAKE k \in 1..(L + 2 + M)
  <2>1. CASE k \in 1..L
    <3>1. c2[k] = c[k] /\ v[k] = w[k]
      BY <1>10, <1>11, <2>1
    <3>2. 1..(n - 1) \subseteq 1..n
      BY <1>0
    <3> QED
      BY <1>7, <2>1, <3>1, <3>2
  <2>2. CASE k = L + 1 \/ k = L + 2
    BY <1>10, <2>2
  <2>3. ASSUME NEW m \in 1..M, k = L + 2 + m
        PROVE  \E i \in 1..n : ps[i].start < v[k] /\ v[k] <= EndOf(ps[i])
    <3>1. v[k] = s + m /\ s < v[k] /\ v[k] <= s + M
      BY <1>1, <1>11, <2>3, SMTT(20)
    <3>2. n \in 1..n
      BY <1>0
    <3> QED
      BY <1>1, <3>1, <3>2 DEF s
  <2> QED
    BY <1>13, <2>1, <2>2, <2>3
<1>20. \A i \in 1..n : \A m \in 1..Len(ps[i].text) :
         \E k \in 1..(L + 2 + M) : v[k] = ps[i].start + m
  <2> TAKE i \in 1..n
  <2> TAKE m \in 1..Len(ps[i].text)
  <2>1. CASE i \in 1..(n - 1)
    <3>1. PICK k \in 1..L : w[k] = ps[i].start + m
      BY <1>8, <2>1
    <3>2. k \in 1..(L + 2 + M) /\ v[k] = w[k]
      BY <1>1, <1>9, <1>11
    <3> QED
      BY <3>1, <3>2
  <2>2. CASE i = n
    <3>1. m \in 1..M
      BY <2>2 DEF M, x
    <3>2. v[L + 2 + m] = s + m
      BY <1>11, <3>1
    <3> DEFINE j == L + 2 + m
    <3>3. j \in 1..(L + 2 + M)
      BY <1>1, <1>9, <3>1
    <3>4. v[j] = ps[i].start + m
      BY <2>2, <3>2 DEF s
    <3> HIDE DEF j
    <3> QED
      BY <3>3, <3>4
  <2> QED
    BY <1>0, <2>1, <2>2
<1>21. c2 # <<>>
  BY <1>1, <1>9, <1>10, Texts
<1>22. Written(c2, t, ps, n, v)
  <2>1. Len(c2) = L + 2 + M /\ Len(c2) - 1 = L + 2 + M - 1
    BY <1>1, <1>9, <1>10, SMTT(20)
  <2> QED
    BY <2>1, <1>10, <1>12, <1>14, <1>16, <1>17, <1>18, <1>19, <1>20, <1>21 DEF Written
<1> QED
  BY <1>22 DEF c2, x

\* The content of a section is written from its paragraphs.
LEMMA SectionWritten ==
  ASSUME NEW t \in Seq(Rune), NEW ps, Spans(t, ps), Len(ps) > 0, NewlinesInserted(t)
  PROVE  \E w : Written(JoinWith(TextsOf(ps), BlankLine), t, ps, Len(ps), w)
<1> DEFINE lines == TextsOf(ps)
           N == Len(ps)
<1>0. ps \in Seq(Paragraph) /\ N \in Nat /\ DOMAIN ps = 1..N
  BY Texts DEF Spans
<1>1. /\ lines \in Seq(Seq(Rune)) /\ Len(lines) = N
      /\ \A i \in 1..N : lines[i] = ps[i].text
  <2>1. \A i \in 1..N : ps[i].text \in Seq(Rune)
    BY SpanIs
  <2>2. lines = [i \in 1..N |-> ps[i].text]
    BY <1>0 DEF TextsOf
  <2> HIDE DEF lines, N
  <2>3. lines \in [1..N -> Seq(Rune)]
    BY <2>1, <2>2
  <2>4. lines \in Seq(Seq(Rune))
    BY <1>0, <2>3, IsASeq
  <2>5. Len(lines) = N
    BY <1>0, <2>2, <2>4, LenProperties
  <2> QED
    BY <2>2, <2>4, <2>5
<1> HIDE DEF lines
<1>2. PICK joined : IsJoin(joined, Rune, lines, BlankLine)
  BY <1>1, BlankLineIs, JoinWithIs
<1>3. /\ JoinWith(lines, BlankLine) = joined[N]
      /\ \A n \in 1..N : joined[n] = IF n = 1 THEN lines[1]
                                     ELSE joined[n - 1] \o BlankLine \o lines[n]
  BY <1>1, <1>2 DEF IsJoin
<1> DEFINE done == {n \in 0..N : n > 0 => \E w : Written(joined[n], t, ps, n, w)}
<1> HIDE DEF N
<1>4. 0 \in done
  BY <1>0
<1>5. ASSUME NEW n \in 1..N, n - 1 \in done PROVE n \in done
  <2>1. CASE n = 1
    <3>1. \E w : Written(ps[1].text, t, ps, 1, w)
      BY WrittenFirst
    <3>2. joined[1] = ps[1].text
      BY <1>1, <1>3, <2>1
    <3> QED
      BY <1>0, <2>1, <3>1, <3>2
  <2>2. CASE n # 1
    <3>1. PICK w : Written(joined[n - 1], t, ps, n - 1, w)
      BY <1>0, <1>5, <2>2
    <3>2. n \in 2..Len(ps)
      BY <1>0, <2>2 DEF N
    <3>3. \E v : Written(joined[n - 1] \o BlankLine \o ps[n].text, t, ps, n, v)
      BY <3>1, <3>2, WrittenNext
    <3>4. joined[n] = joined[n - 1] \o BlankLine \o ps[n].text
      BY <1>1, <1>3, <2>2
    <3>5. (\E v : Written(joined[n], t, ps, n, v)) /\ n \in 0..N
      BY <1>0, <3>3, <3>4
    <3> QED
      BY <3>5
  <2> QED
    BY <2>1, <2>2
<1>6. N \in done
  <2> HIDE DEF done
  <2>1. \A n \in 0..N : n \in done
    BY <1>0, <1>4, <1>5, InductionTo
  <2> QED
    BY <1>0, <2>1
<1>7. N > 0
  BY DEF N
<1> QED
  BY <1>3, <1>6, <1>7 DEF N, lines

\* What is written from a text in order is in order.
LEMMA WrittenInOrder ==
  ASSUME NEW t \in Seq(Rune), NEW ps, NEW c, NEW n, NEW w, Written(c, t, ps, n, w), InOrder(t)
  PROVE  InOrder(c)
<1>1. /\ c \in Seq(Rune) /\ w \in [1..Len(c) -> 1..Len(t)]
      /\ \A k \in 1..Len(c) : c[k] = t[w[k]]
      /\ \A k, l \in 1..Len(c) : k < l => w[k] < w[l]
  BY DEF Written
<1>2. DOMAIN c = 1..Len(c) /\ DOMAIN t = 1..Len(t)
  BY <1>1, Texts
<1> SUFFICES ASSUME NEW i \in DOMAIN c, NEW j \in DOMAIN c, i < j,
                    c[i].at # Nowhere, c[j].at # Nowhere
             PROVE  Before(c[i].at, c[j].at)
  BY DEF InOrder
<1>3. w[i] \in DOMAIN t /\ w[j] \in DOMAIN t /\ w[i] < w[j]
      /\ c[i] = t[w[i]] /\ c[j] = t[w[j]]
  BY <1>1, <1>2
<1> QED
  BY <1>3 DEF InOrder

\* A stretch of the content that the text has without a gap.
NoGap(w, k, d) == \A i \in 1..d : w[k + (i - 1) + 1] = w[k + (i - 1)] + 1
\* The runes from k to k + d stand next to each other in the text.
Straight(w, k, d) == \A i \in 0..d : w[k + i] = w[k] + i

\* Without a gap between neighbours there is none at all.
LEMMA WrittenRun ==
  ASSUME NEW t \in Seq(Rune), NEW ps, NEW c, NEW n, NEW w, Written(c, t, ps, n, w),
         NEW k \in 1..Len(c), NEW d \in Nat, k + d <= Len(c),
         NoGap(w, k, d)
  PROVE  Straight(w, k, d)
<1> USE DEF NoGap, Straight
<1>1. c \in Seq(Rune) /\ w \in [1..Len(c) -> 1..Len(t)]
  BY DEF Written
<1>2. Len(c) \in Nat /\ Len(t) \in Nat /\ w[k] \in Nat
  BY <1>1, Texts
<1> DEFINE done == {i \in 0..d : w[k + i] = w[k] + i}
<1>3. 0 \in done
  BY <1>2
<1>4. ASSUME NEW i \in 1..d, i - 1 \in done PROVE i \in done
  <2>1. w[k + (i - 1)] = w[k] + (i - 1)
    BY <1>4
  <2>2. k + (i - 1) + 1 = k + i /\ (w[k] + (i - 1)) + 1 = w[k] + i
    BY <1>2
  <2>3. w[k + i] = w[k] + i
    BY <2>1, <2>2
  <2> QED
    BY <2>3
<1>5. \A i \in 0..d : i \in done
  <2> HIDE DEF done
  <2> QED
    BY <1>3, <1>4, InductionTo
<1> QED
  BY <1>5

\* Without indentation a section is a stretch of the text.
LEMMA WrittenSlice ==
  ASSUME NEW t \in Seq(Rune), NEW ps, Spans(t, ps), Len(ps) > 0, ~Indented(t),
         NEW c, NEW w, Written(c, t, ps, Len(ps), w)
  PROVE  c = Slice(t, ps[1].start, EndOf(ps[Len(ps)]))
<1> DEFINE a == ps[1].start
           b == EndOf(ps[Len(ps)])
           L == Len(c)
<1>0. 1 \in 1..Len(ps) /\ Len(ps) \in 1..Len(ps)
  BY Texts DEF Spans
<1>1. /\ c \in Seq(Rune) /\ c # <<>> /\ w \in [1..L -> 1..Len(t)]
      /\ \A k \in 1..L : c[k] = t[w[k]]
      /\ w[1] = a + 1 /\ w[L] = b
  BY DEF Written
<1>2. \A k \in 1..(L - 1) : w[k + 1] = w[k] + 1
  BY DEF Written
<1>3. /\ a \in Nat /\ b \in Nat /\ b <= Len(t) /\ Len(t) \in Nat
  BY <1>0, SpanIs
<1>4. L \in Nat /\ L > 0
  BY <1>1, Texts
<1> HIDE DEF a, b, L
<1>5. \A i \in 0..(L - 1) : w[1 + i] = w[1] + i
  <2> DEFINE d == L - 1
  <2>1. d \in Nat /\ 1 + d <= Len(c) /\ 1 \in 1..Len(c)
    BY <1>4 DEF L
  <2>2. \A i \in 1..d : w[1 + (i - 1) + 1] = w[1 + (i - 1)] + 1
    <3> TAKE i \in 1..d
    <3>1. 1 + (i - 1) = i /\ i \in 1..(L - 1)
      BY <1>4
    <3> QED
      BY <1>2, <3>1
  <2> HIDE DEF d
  <2>3. NoGap(w, 1, d)
    BY <2>2 DEF NoGap
  <2>4. Straight(w, 1, d)
    BY <2>1, <2>3, WrittenRun
  <2> QED
    BY <2>4 DEF d, Straight
<1>6. \A k \in 1..L : w[k] = a + k
  <2> TAKE k \in 1..L
  <2>1. k - 1 \in 0..(L - 1) /\ 1 + (k - 1) = k
    BY <1>4
  <2>2. w[k] = w[1] + (k - 1)
    BY <1>5, <2>1
  <2> QED
    BY <1>1, <1>3, <2>2
<1>7. b = a + L
  BY <1>1, <1>4, <1>6
<1>8. /\ Slice(t, a, b) \in Seq(Rune) /\ Len(Slice(t, a, b)) = b - a
      /\ \A i \in 1..(b - a) : Slice(t, a, b)[i] = t[a + i]
  <2>1. a <= b
    BY <1>3, <1>4, <1>7
  <2> QED
    BY <1>3, <2>1, SliceIs
<1> DEFINE u == Slice(t, a, b)
<1> HIDE DEF u
<1>9. \A k \in 1..L : c[k] = u[k]
  <2> TAKE k \in 1..L
  <2>1. k \in 1..(b - a)
    BY <1>3, <1>4, <1>7
  <2>2. u[k] = t[a + k]
    BY <1>8, <2>1 DEF u
  <2> QED
    BY <1>1, <1>6, <2>2
<1>10. u \in Seq(Rune) /\ Len(u) = L /\ Len(c) = L
  BY <1>3, <1>4, <1>7, <1>8 DEF u, L
<1>11. c = u
  BY <1>1, <1>9, <1>10, SeqEqual
<1> QED
  BY <1>11 DEF u, a, b

\* A token of the content is one of the text.
LEMMA WrittenToken ==
  ASSUME NEW t \in Seq(Rune), NEW ps, NEW c, NEW n, NEW w, Written(c, t, ps, n, w),
         Overlap \in Nat, HasLongToken(c)
  PROVE  HasLongToken(t)
<1>1. /\ c \in Seq(Rune) /\ w \in [1..Len(c) -> 1..Len(t)]
      /\ \A k \in 1..Len(c) : c[k] = t[w[k]]
  BY DEF Written
<1>2. \A k \in 1..(Len(c) - 1) : w[k + 1] = w[k] + 1 \/ Break(c[k])
  BY DEF Written
<1>3. Len(c) \in Nat /\ Len(t) \in Nat
  BY <1>1, Texts
<1> DEFINE d == Overlap + 1
<1>4. PICK i \in Offsets(c) : i + Overlap + 1 < Len(c) /\
        \A k \in i..(i + Overlap + 1) : IsWordRune(c, k)
  BY DEF HasLongToken
<1>5. i \in Nat /\ d \in Nat /\ i + 1 \in 1..Len(c) /\ (i + 1) + d <= Len(c)
  BY <1>3, <1>4 DEF Offsets
<1>6. ASSUME NEW k \in i..(i + d) PROVE Letter(c[k + 1])
  <2>1. k \in i..(i + Overlap + 1)
    BY <1>5
  <2> QED
    BY <1>4, <2>1, KindsAt
<1> HIDE DEF d
<1>7. \A j \in 1..d : w[(i + 1) + (j - 1) + 1] = w[(i + 1) + (j - 1)] + 1
  <2> TAKE j \in 1..d
  <2> DEFINE k == (i + 1) + (j - 1)
  <2>1. k \in 1..(Len(c) - 1) /\ i + (j - 1) \in i..(i + d) /\ (i + (j - 1)) + 1 = k
    BY <1>3, <1>5
  <2>2. Letter(c[k])
    BY <1>6, <2>1
  <2> HIDE DEF k
  <2>3. w[k + 1] = w[k] + 1
    BY <1>2, <2>1, <2>2, Kinds
  <2> QED
    BY <2>3 DEF k
<1>8. \A j \in 0..d : w[(i + 1) + j] = w[i + 1] + j
  <2> DEFINE p == i + 1
  <2>1. p \in 1..Len(c) /\ d \in Nat /\ p + d <= Len(c)
    BY <1>5
  <2>2. NoGap(w, p, d)
    BY <1>7 DEF NoGap
  <2> HIDE DEF p
  <2>3. Straight(w, p, d)
    BY <2>1, <2>2, WrittenRun
  <2> QED
    BY <2>3 DEF p, Straight
<1> DEFINE o == w[i + 1] - 1
<1>9. w[i + 1] \in 1..Len(t) /\ o \in Offsets(t)
  BY <1>1, <1>3, <1>5 DEF Offsets
<1>10. o + Overlap + 1 < Len(t)
  <2>1. d \in 0..d /\ (i + 1) + d \in 1..Len(c)
    BY <1>3, <1>5
  <2>2. w[(i + 1) + d] \in 1..Len(t) /\ w[(i + 1) + d] = w[i + 1] + d
    BY <1>1, <1>8, <2>1
  <2> QED
    BY <1>3, <1>5, <1>9, <2>2 DEF d
<1>11. ASSUME NEW k \in o..(o + Overlap + 1) PROVE IsWordRune(t, k)
  <2> DEFINE j == k - o
             m == (i + 1) + j
  <2>0. o \in Int
    BY <1>9
  <2>1. j \in 0..d /\ m \in 1..Len(c)
    <3> HIDE DEF o
    <3> QED
      BY <1>3, <1>5, <2>0 DEF d
  <2>2. w[m] = w[i + 1] + j /\ w[i + 1] + j = k + 1
    <3>1. w[m] = w[i + 1] + j
      <4> HIDE DEF j
      <4> QED
        BY <1>8, <2>1
    <3>2. w[i + 1] + j = k + 1
      BY <1>9
    <3> QED
      BY <3>1, <3>2
  <2>3. i + j \in i..(i + d) /\ (i + j) + 1 = m
    <3>1. i \in Int /\ d \in Int /\ j \in Int /\ 0 <= j /\ j <= d
      BY <1>5, <2>1
    <3> HIDE DEF j, o
    <3>2. i + j \in i..(i + d)
      BY <3>1
    <3> QED
      BY <3>1, <3>2
  <2>4. Letter(c[m])
    BY <1>6, <2>3
  <2> HIDE DEF j, m
  <2>5. c[m] = t[k + 1]
    BY <1>1, <2>1, <2>2
  <2> QED
    BY <2>4, <2>5, KindsAt
<1> HIDE DEF o
<1> QED
  BY <1>9, <1>10, <1>11 DEF HasLongToken

-----------------------------------------------------------------------------
(* Pages *)

\* A page of the normalised text.
Boundary == [page : Nat, start : Nat, end : Nat]

\* Boundaries in the order of the text.
Increasing(bs) ==
  \A i, j \in DOMAIN bs : i < j => bs[i].end < bs[j].end /\ bs[i].page < bs[j].page

\* The boundary that names the page of an offset.
IsPage(bs, o, i) ==
  /\ i \in 1..Len(bs) /\ PageForOffset(bs, o) = bs[i].page
  /\ \A j \in 1..(i - 1) : bs[j].end <= o
  /\ bs[i].end > o \/ i = Len(bs)

\* pageForOffset takes the first boundary that ends after the offset, or the last.
LEMMA PageIs ==
  ASSUME NEW bs \in Seq(Boundary), NEW o \in Nat
  PROVE  /\ bs = <<>> => PageForOffset(bs, o) = 0
         /\ bs # <<>> => \E i : IsPage(bs, o, i)
<1> DEFINE after == {i \in DOMAIN bs : bs[i].end > o}
<1>1. Len(bs) \in Nat /\ DOMAIN bs = 1..Len(bs) /\ (bs = <<>> <=> Len(bs) = 0)
  BY Texts
<1>2. \A i \in 1..Len(bs) : bs[i].end \in Nat /\ bs[i].page \in Nat
  <2>1. \A i \in 1..Len(bs) : bs[i] \in Boundary
    BY Texts
  <2> QED
    BY <2>1 DEF Boundary
<1>3. bs = <<>> => PageForOffset(bs, o) = 0
  <2>1. bs = <<>> => after = {}
    BY <1>1
  <2> QED
    BY <2>1 DEF PageForOffset
<1>4. ASSUME bs # <<>>, after # {} PROVE \E i : IsPage(bs, o, i)
  <2> DEFINE m == Min(after)
  <2>1. m \in after /\ \A i \in after : m <= i
    <3>1. after \subseteq Nat
      BY <1>1
    <3> HIDE DEF after
    <3> QED
      BY <1>4, <3>1, MinOfNaturals
  <2>2. PageForOffset(bs, o) = bs[m].page
    BY <1>4 DEF PageForOffset
  <2> HIDE DEF m
  <2>3. m \in 1..Len(bs) /\ bs[m].end > o
    BY <1>1, <2>1
  <2>4. \A j \in 1..(m - 1) : bs[j].end <= o
    <3> TAKE j \in 1..(m - 1)
    <3>1. j \in 1..Len(bs) /\ ~(m <= j)
      BY <1>1, <2>3
    <3>2. j \notin after
      BY <2>1, <3>1
    <3> QED
      BY <1>1, <1>2, <3>1, <3>2
  <2> QED
    BY <2>2, <2>3, <2>4 DEF IsPage
<1>5. ASSUME bs # <<>>, after = {} PROVE \E i : IsPage(bs, o, i)
  <2>1. PageForOffset(bs, o) = bs[Len(bs)].page
    BY <1>5 DEF PageForOffset, Last
  <2>2. \A j \in 1..Len(bs) : bs[j].end <= o
    <3> TAKE j \in 1..Len(bs)
    <3>1. j \notin after
      BY <1>5
    <3> QED
      BY <1>1, <1>2, <3>1
  <2>3. Len(bs) \in 1..Len(bs)
    BY <1>1, <1>5
  <2>4. \A j \in 1..(Len(bs) - 1) : bs[j].end <= o
    BY <1>1, <2>2
  <2> QED
    BY <2>1, <2>3, <2>4 DEF IsPage
<1> QED
  BY <1>3, <1>4, <1>5

\* Later offsets are on later pages.
LEMMA PageMonotone ==
  ASSUME NEW bs \in Seq(Boundary), Increasing(bs), NEW o \in Nat, NEW p \in Nat, o <= p
  PROVE  /\ PageForOffset(bs, o) \in Nat /\ PageForOffset(bs, p) \in Nat
         /\ PageForOffset(bs, o) <= PageForOffset(bs, p)
<1>1. Len(bs) \in Nat
  BY Texts
<1>2. \A i \in 1..Len(bs) : bs[i].end \in Nat /\ bs[i].page \in Nat
  <2>1. \A i \in 1..Len(bs) : bs[i] \in Boundary
    BY Texts
  <2> QED
    BY <2>1 DEF Boundary
<1>3. CASE bs = <<>>
  <2>1. PageForOffset(bs, o) = 0 /\ PageForOffset(bs, p) = 0
    BY <1>3, PageIs
  <2> QED
    BY <2>1
<1>4. CASE bs # <<>>
  <2>1. PICK i : IsPage(bs, o, i)
    BY <1>4, PageIs
  <2>2. PICK j : IsPage(bs, p, j)
    BY <1>4, PageIs
  <2>3. /\ i \in 1..Len(bs) /\ PageForOffset(bs, o) = bs[i].page
        /\ \A k \in 1..(i - 1) : bs[k].end <= o
    BY <2>1 DEF IsPage
  <2>4. /\ j \in 1..Len(bs) /\ PageForOffset(bs, p) = bs[j].page
        /\ bs[j].end > p \/ j = Len(bs)
    BY <2>2 DEF IsPage
  <2>3a. i \in 1..Len(bs) /\ \A k \in 1..(i - 1) : bs[k].end <= o
    BY <2>1 DEF IsPage
  <2>4a. j \in 1..Len(bs) /\ (bs[j].end > p \/ j = Len(bs))
    BY <2>2 DEF IsPage
  <2>5. i <= j
    <3>1. CASE j \in 1..(i - 1)
      <4>1. bs[j].end <= o /\ bs[j].end > p
        BY <1>1, <1>2, <2>3a, <2>4a, <3>1
      <4> QED
        BY <1>2, <2>4, <4>1
    <3>2. i \in Nat /\ j \in Nat /\ j >= 1
      BY <1>1, <2>3a, <2>4a
    <3> QED
      BY <3>1, <3>2
  <2>6. bs[i].page <= bs[j].page
    <3>1. i \in Nat /\ j \in Nat
      BY <1>1, <2>3a, <2>4a
    <3>2. i < j => bs[i].page < bs[j].page
      <4>1. DOMAIN bs = 1..Len(bs)
        BY Texts
      <4>2. i \in DOMAIN bs /\ j \in DOMAIN bs
        BY <2>3a, <2>4a, <4>1
      <4> QED
        BY <4>2 DEF Increasing
    <3>3. bs[i].page \in Nat /\ bs[j].page \in Nat
      BY <1>2, <2>3, <2>4
    <3>4. i = j \/ i < j
      BY <2>5, <3>1
    <3> QED
      BY <3>2, <3>3, <3>4
  <2> QED
    BY <1>2, <2>3, <2>4, <2>6
<1> QED
  BY <1>3, <1>4

-----------------------------------------------------------------------------
(* Headings *)

\* The heading of an offset is a line start or NoHeading.
LEMMA HeadingIs ==
  ASSUME NEW S, NEW t \in Seq(S), NEW hs, hs \subseteq LineStarts(t), NEW o \in Nat
  PROVE  HeadingForOffset(hs, o) \in Int
<1> DEFINE above == {h \in hs : h <= o}
<1>1. Len(t) \in Nat /\ hs \subseteq Nat /\ \A h \in hs : h \in Nat
  BY Texts DEF LineStarts, Offsets
<1>2. CASE hs = {}
  <2>1. above = {}
    BY <1>2
  <2>2. HeadingForOffset(hs, o) = NoHeading
    BY <1>2, <2>1 DEF HeadingForOffset
  <2> QED
    BY <2>2 DEF NoHeading
<1>3. CASE hs # {} /\ above # {}
  <2>1. HeadingForOffset(hs, o) = Max(above)
    BY <1>3 DEF HeadingForOffset
  <2>1a. \A x \in above : x \in Int /\ x <= o
    BY <1>1
  <2>2. above \subseteq Int /\ o \in Int /\ \A x \in above : x <= o
    BY <2>1a
  <2> HIDE DEF above
  <2>3. Max(above) \in above
    BY <1>3, <2>2, MaxOfBounded
  <2> QED
    BY <2>1, <2>2, <2>3
<1>4. CASE hs # {} /\ above = {}
  <2>1. HeadingForOffset(hs, o) = Min(hs)
    BY <1>4 DEF HeadingForOffset
  <2>2. Min(hs) \in hs
    BY <1>1, <1>4, MinOfNaturals
  <2>3. Min(hs) \in Nat
    BY <1>1, <2>2
  <2> QED
    BY <2>1, <2>3
<1> QED
  BY <1>2, <1>3, <1>4

\* No line begins inside an indentation.
LEMMA SameHeading ==
  ASSUME NEW S, NEW t \in Seq(S), NEW hs, hs \subseteq LineStarts(t),
         NEW a \in Nat, NEW b \in Nat, a <= b,
         \A i \in a..(b - 1) : Indent(t[i + 1])
  PROVE  HeadingForOffset(hs, a) = HeadingForOffset(hs, b)
<1>1. Len(t) \in Nat /\ hs \subseteq Nat /\ \A h \in hs : h \in Nat
  BY Texts DEF LineStarts, Offsets
<1>2. {h \in hs : h <= a} = {h \in hs : h <= b}
  <2>0. ASSUME NEW h \in hs, h <= a PROVE h <= b
    <3>1. h \in Nat
      BY <1>1
    <3> QED
      BY <2>0, <3>1
  <2> SUFFICES ASSUME NEW h \in hs, h <= b, ~(h <= a) PROVE FALSE
    BY <2>0
  <2>1. h \in Nat /\ h # 0 /\ h - 1 \in a..(b - 1)
    BY <1>1
  <2>2. ClassAt(t, h - 1) = "\n"
    BY <2>1 DEF LineStarts
  <2>3. Break(t[(h - 1) + 1]) /\ Indent(t[(h - 1) + 1])
    BY <2>1, <2>2, KindsAt
  <2> QED
    BY <2>3, Kinds
<1> QED
  BY <1>2 DEF HeadingForOffset

\* Headings begin at line starts.
LEMMA HeadingsAtStarts ==
  ASSUME NEW t
  PROVE  HeadingsOf(t) \subseteq LineStarts(t)
  BY DEF HeadingsOf

-----------------------------------------------------------------------------
(* Paragraphs *)

\* The paragraph of the text that begins at b has nothing but indentation up to s.
Begins(t, s, b) ==
  /\ b = 0 \/ (b >= 2 /\ IsBreak(t, b - 2))
  /\ \A i \in b..(s - 1) : Indent(t[i + 1])

\* The paragraph of each of its runes begins at one offset, and its heading is
\* the one there.
LEMMA ParagraphStartIs ==
  ASSUME NEW t \in Seq(Rune), NEW hs, hs \subseteq LineStarts(t), NEW bs,
         NEW p \in Paragraph, ParagraphInv(t, hs, bs, p),
         NEW o \in p.start..(EndOf(p) - 1)
  PROVE  HeadingForOffset(hs, ParagraphStart(t, o)) = p.heading
<1> DEFINE s == p.start
           e == EndOf(p)
           breaks == {i \in 0..(o - 2) : IsBreak(t, i)}
           all == {0} \cup {i + 2 : i \in breaks}
<1>1. s \in Nat /\ p.text \in Seq(Rune) /\ Len(p.text) \in Nat /\ e = s + Len(p.text)
      /\ e \in Nat
  <2>1. p.start \in Nat /\ p.text \in Seq(Rune)
    BY DEF Paragraph
  <2> QED
    BY <2>1, Texts DEF EndOf
<1>2. /\ ~IsSpace(t, s) /\ \A i \in s..(e - 2) : ~IsBreak(t, i)
      /\ p.heading = HeadingForOffset(hs, s)
  BY DEF ParagraphInv
<1>3. PICK b \in 0..s : Begins(t, s, b)
  BY KindsAt DEF ParagraphInv, Begins
<1>3a. /\ b \in Nat /\ b <= s /\ (b = 0 \/ (b >= 2 /\ IsBreak(t, b - 2)))
  BY <1>1, <1>3 DEF Begins
<1>4. \A i \in b..(s - 1) : Indent(t[i + 1])
  BY <1>3 DEF Begins
<1>5. o \in Nat /\ s <= o /\ o < e
  BY <1>1
<1> HIDE DEF s, e
<1>6. \A i \in breaks : i \in Nat /\ i + 2 <= b
  <2> TAKE i \in breaks
  <2>1. i \in 0..(o - 2) /\ IsBreak(t, i)
    OBVIOUS
  <2>2a. Break(t[i + 1]) /\ Break(t[(i + 1) + 1])
    BY <2>1, KindsAt DEF IsBreak
  <2>2. i \in Nat /\ Break(t[i + 1]) /\ Break(t[(i + 1) + 1])
    BY <1>5, <2>1, <2>2a
  <2>3. ~(i \in s..(e - 2))
    BY <1>2, <2>1
  <2>4. i < s
    BY <1>1, <1>5, <2>1, <2>3
  <2>5. ~(i \in b..(s - 1))
    BY <1>4, <2>2, Kinds
  <2>6. i < b
    BY <1>1, <1>3a, <2>2, <2>4, <2>5
  <2>7. CASE i = b - 1
    <3>1. CASE b = s
      <4>1. (i + 1) = s
        BY <1>3a, <2>7, <3>1
      <4>2. ~Blank(t[s + 1])
        BY <1>2, KindsAt
      <4> QED
        BY <2>2, <4>1, <4>2, Kinds
    <3>2. CASE b # s
      <4>1. b \in b..(s - 1) /\ i + 1 = b
        BY <1>1, <1>3a, <2>7, <3>2
      <4>2. Indent(t[b + 1])
        BY <1>4, <4>1
      <4> QED
        BY <2>2, <4>1, <4>2, Kinds
    <3> QED
      BY <3>1, <3>2
  <2> QED
    BY <1>3a, <2>2, <2>6, <2>7
<1>7. b \in all
  <2>1. CASE b = 0
    BY <2>1
  <2>2. CASE b # 0
    <3> DEFINE i == b - 2
    <3>1. i \in 0..(o - 2) /\ i + 2 = b
      BY <1>1, <1>3a, <1>5, <2>2
    <3>2. IsBreak(t, i)
      BY <1>3a, <2>2
    <3> HIDE DEF i
    <3>3. i \in breaks
      BY <3>1, <3>2
    <3> HIDE DEF breaks
    <3> QED
      BY <3>1, <3>3
  <2> QED
    BY <2>1, <2>2
<1>8. all \subseteq Int /\ b \in Int /\ all # {} /\ \A x \in all : x <= b
  <2> HIDE DEF breaks
  <2>1. \A x \in all : x \in Int /\ x <= b
    BY <1>3a, <1>6
  <2>2. all # {}
    OBVIOUS
  <2> HIDE DEF all
  <2> QED
    BY <1>3a, <2>1, <2>2
<1>9. ParagraphStart(t, o) = Max(all)
  BY DEF ParagraphStart
<1>10. Max(all) = b
  <2> HIDE DEF all
  <2>1. Max(all) \in all /\ \A x \in all : x <= Max(all)
    BY <1>8, MaxOfBounded
  <2>2. Max(all) \in Int
    BY <1>8, <2>1
  <2> DEFINE m == Max(all)
  <2>3. m \in Int /\ m <= b /\ b <= m
    BY <1>7, <1>8, <2>1, <2>2
  <2> HIDE DEF m
  <2>4. m = b
    BY <1>8, <2>3
  <2> QED
    BY <2>4 DEF m
<1>11. HeadingForOffset(hs, b) = HeadingForOffset(hs, s)
  <2>1. b \in Nat /\ b <= s
    BY <1>1, <1>3a
  <2> QED
    BY <1>1, <1>4, <2>1, SameHeading
<1> HIDE DEF all
<1> QED
  BY <1>2, <1>9, <1>10, <1>11

\* Consecutive paragraphs are spans of the text.
LEMMA SpansOf ==
  ASSUME NEW t \in Seq(Rune), NEW hs, NEW bs, NEW ps \in Seq(Paragraph), Consecutive(t, hs, bs, ps)
  PROVE  Spans(t, ps)
<1>1. Len(ps) \in Nat /\ DOMAIN ps = 1..Len(ps) /\ Len(t) \in Nat
  BY Texts
<1>2. \A i \in 1..Len(ps) : ParagraphInv(t, hs, bs, ps[i])
  BY <1>1 DEF Consecutive
<1>3. \A i \in 1..Len(ps) : ps[i].text # <<>> /\ EndOf(ps[i]) <= Len(t)
        /\ ps[i].text = Slice(t, ps[i].start, EndOf(ps[i]))
  BY <1>2 DEF ParagraphInv
<1>4. \A i \in 1..Len(ps) : ps[i].start \in Nat /\ EndOf(ps[i]) \in Nat
                            /\ ps[i].start < EndOf(ps[i])
  <2> TAKE i \in 1..Len(ps)
  <2>1. ps[i] \in Paragraph
    BY Texts
  <2>2. ps[i].start \in Nat /\ ps[i].text \in Seq(Rune)
    BY <2>1 DEF Paragraph
  <2>3. Len(ps[i].text) \in Nat /\ Len(ps[i].text) > 0
    BY <1>3, <2>2, Texts
  <2> QED
    BY <2>2, <2>3 DEF EndOf
<1>5. ASSUME NEW i \in 1..(Len(ps) - 1)
      PROVE  /\ IsBreak(t, EndOf(ps[i])) /\ EndOf(ps[i]) + 2 <= ps[i + 1].start
             /\ EndOf(ps[i]) + 2 < ps[i + 1].start => Indented(t)
  <2> DEFINE e == EndOf(ps[i])
             s == ps[i + 1].start
  <2>1. IsBreak(t, e) /\ e + 2 <= s /\ \A k \in (e + 2)..(s - 1) : ClassAt(t, k) = " "
    BY DEF Consecutive, Follows
  <2>2. i \in 1..Len(ps) /\ i + 1 \in 1..Len(ps)
    BY <1>1
  <2>3. e \in Nat /\ s \in Nat /\ s < EndOf(ps[i + 1]) /\ EndOf(ps[i + 1]) <= Len(t)
        /\ EndOf(ps[i + 1]) \in Nat
    BY <1>3, <1>4, <2>2
  <2> HIDE DEF e, s
  <2>4. ASSUME e + 2 < s PROVE Indented(t)
    <3>1. e + 2 \in (e + 2)..(s - 1) /\ e \in 0..(Len(t) - 3)
      BY <1>1, <2>3, <2>4
    <3> QED
      BY <2>1, <3>1 DEF Indented
  <2> QED
    BY <2>1, <2>4 DEF e, s
<1> QED
  BY <1>3, <1>5 DEF Spans

\* Paragraphs that follow each other, put together and taken apart.
LEMMA ConsecutiveParts ==
  ASSUME NEW t, NEW hs, NEW bs, NEW ps \in Seq(Paragraph), NEW qs \in Seq(Paragraph),
         Consecutive(t, hs, bs, ps \o qs)
  PROVE  Consecutive(t, hs, bs, ps) /\ Consecutive(t, hs, bs, qs)
<1> DEFINE rs == ps \o qs
<1>1. /\ rs \in Seq(Paragraph) /\ Len(rs) = Len(ps) + Len(qs)
      /\ \A i \in 1..Len(ps) : rs[i] = ps[i]
      /\ \A i \in 1..Len(qs) : rs[Len(ps) + i] = qs[i]
  BY ConcatIs
<1>2. /\ Len(ps) \in Nat /\ Len(qs) \in Nat
      /\ DOMAIN ps = 1..Len(ps) /\ DOMAIN qs = 1..Len(qs)
  BY Texts
<1>3. Len(rs) \in Nat /\ DOMAIN rs = 1..Len(rs)
  <2> HIDE DEF rs
  <2>1. rs \in Seq(Paragraph)
    BY <1>1
  <2> QED
    BY <2>1, Texts
<1>4. /\ \A i \in 1..Len(rs) : ParagraphInv(t, hs, bs, rs[i])
      /\ \A i \in 1..(Len(rs) - 1) : Follows(t, rs[i], rs[i + 1])
  BY <1>3 DEF Consecutive
<1> HIDE DEF rs
<1>5. \A i \in 1..Len(ps) : ParagraphInv(t, hs, bs, ps[i])
  <2> TAKE i \in 1..Len(ps)
  <2>1. i \in 1..Len(rs) /\ rs[i] = ps[i]
    BY <1>1, <1>2
  <2> QED
    BY <1>4, <2>1
<1>6. \A i \in 1..(Len(ps) - 1) : Follows(t, ps[i], ps[i + 1])
  <2> TAKE i \in 1..(Len(ps) - 1)
  <2>1. i \in 1..(Len(rs) - 1) /\ rs[i] = ps[i] /\ rs[i + 1] = ps[i + 1]
    BY <1>1, <1>2
  <2> QED
    BY <1>4, <2>1
<1>7. \A i \in 1..Len(qs) : ParagraphInv(t, hs, bs, qs[i])
  <2> TAKE i \in 1..Len(qs)
  <2>1. Len(ps) + i \in 1..Len(rs) /\ rs[Len(ps) + i] = qs[i]
    BY <1>1, <1>2
  <2> QED
    BY <1>4, <2>1
<1>8. \A i \in 1..(Len(qs) - 1) : Follows(t, qs[i], qs[i + 1])
  <2> TAKE i \in 1..(Len(qs) - 1)
  <2>1. /\ Len(ps) + i \in 1..(Len(rs) - 1) /\ rs[Len(ps) + i] = qs[i]
        /\ Len(ps) + (i + 1) = (Len(ps) + i) + 1 /\ rs[Len(ps) + (i + 1)] = qs[i + 1]
    BY <1>1, <1>2
  <2> QED
    BY <1>4, <2>1
<1> QED
  BY <1>2, <1>5, <1>6, <1>7, <1>8 DEF Consecutive

\* One more paragraph that follows the last one.
LEMMA ConsecutiveAppend ==
  ASSUME NEW t, NEW hs, NEW bs, NEW ps \in Seq(Paragraph), NEW p \in Paragraph,
         Consecutive(t, hs, bs, ps), ParagraphInv(t, hs, bs, p),
         ps # <<>> => Follows(t, ps[Len(ps)], p)
  PROVE  Consecutive(t, hs, bs, Append(ps, p))
<1> DEFINE rs == Append(ps, p)
           N == Len(ps)
<1>1. /\ rs \in Seq(Paragraph) /\ Len(rs) = N + 1
      /\ \A i \in 1..N : rs[i] = ps[i]
      /\ rs[N + 1] = p
  BY AppendProperties
<1>2. N \in Nat /\ DOMAIN ps = 1..N /\ (N > 0 => ps # <<>>)
  BY Texts
<1>2a. N \in Nat
  BY Texts
<1>3. DOMAIN rs = 1..(N + 1)
  <2>1. DOMAIN rs = 1..Len(rs)
    BY <1>1, LenProperties
  <2> QED
    BY <1>1, <2>1
<1> HIDE DEF rs
<1>4. \A i \in 1..(N + 1) : ParagraphInv(t, hs, bs, rs[i])
  <2> TAKE i \in 1..(N + 1)
  <2>1. CASE i \in 1..N
    BY <1>1, <1>2, <2>1 DEF Consecutive
  <2>2. CASE i = N + 1
    BY <1>1, <2>2
  <2> QED
    BY <1>2, <2>1, <2>2
<1>5. \A i \in 1..N : Follows(t, rs[i], rs[i + 1])
  <2> TAKE i \in 1..N
  <2>1. CASE i \in 1..(N - 1)
    <3>1. i + 1 \in 1..N /\ rs[i + 1] = ps[i + 1] /\ rs[i] = ps[i]
      BY <1>1, <1>2, <2>1
    <3> QED
      BY <2>1, <3>1 DEF Consecutive
  <2>2. CASE i = N
    <3>1. rs[i] = ps[N] /\ rs[i + 1] = p /\ ps # <<>>
      BY <1>1, <1>2, <2>2
    <3> QED
      BY <3>1
  <2>3. i \in 1..(N - 1) \/ i = N
    BY <1>2a
  <2> QED
    BY <2>1, <2>2, <2>3
<1>6. Len(rs) - 1 = N
  BY <1>1, <1>2
<1>7. Consecutive(t, hs, bs, rs)
  BY <1>3, <1>4, <1>5, <1>6 DEF Consecutive
<1> QED
  BY <1>7 DEF rs

-----------------------------------------------------------------------------
(* Normalised texts *)

\* WellNormalized in terms of the kinds of runes.
Well(t) ==
  /\ \A i \in 1..Len(t) : Break(t[i]) => t[i] = Newline
  /\ Len(t) > 0 => ~Blank(t[1]) /\ ~Blank(t[Len(t)])
  /\ \A i \in 1..(Len(t) - 1) : Break(t[i + 1]) => ~Indent(t[i])
  /\ \A i \in 1..(Len(t) - 2) : ~(Break(t[i]) /\ Break(t[i + 1]) /\ Break(t[i + 2]))

\* The two forms of it agree.
LEMMA WellIs ==
  ASSUME NEW S, NEW t \in Seq(S)
  PROVE  WellNormalized(t) <=> Well(t)
<1>1. Len(t) \in Nat /\ DOMAIN t = 1..Len(t) /\ (t # <<>> <=> Len(t) > 0)
  BY Texts
<1>2. (\A x \in ToSet(t) : x.c = "\n" => x = Newline)
        <=> \A i \in 1..Len(t) : Break(t[i]) => t[i] = Newline
  BY <1>1 DEF ToSet, Break
<1>3. (t # <<>> => ~IsSpace(t, 0) /\ ~IsSpace(t, Len(t) - 1))
        <=> (Len(t) > 0 => ~Blank(t[1]) /\ ~Blank(t[Len(t)]))
  <2>1. 0 + 1 = 1 /\ (Len(t) - 1) + 1 = Len(t)
    BY <1>1
  <2>2. (IsSpace(t, 0) <=> Blank(t[0 + 1])) /\ (IsSpace(t, Len(t) - 1) <=> Blank(t[(Len(t) - 1) + 1]))
    BY KindsAt
  <2>3. (IsSpace(t, 0) <=> Blank(t[1])) /\ (IsSpace(t, Len(t) - 1) <=> Blank(t[Len(t)]))
    BY <2>1, <2>2
  <2> QED
    BY <1>1, <2>3
<1>4. (\A i \in 0..(Len(t) - 2) : ClassAt(t, i + 1) = "\n" => ClassAt(t, i) # " ")
        <=> (\A i \in 1..(Len(t) - 1) : Break(t[i + 1]) => ~Indent(t[i]))
  <2>1. (\A i \in 0..(Len(t) - 2) : ClassAt(t, i + 1) = "\n" => ClassAt(t, i) # " ")
          <=> (\A i \in 0..(Len(t) - 2) : Break(t[(i + 1) + 1]) => ~Indent(t[i + 1]))
    BY KindsAt
  <2>2. ASSUME \A i \in 0..(Len(t) - 2) : Break(t[(i + 1) + 1]) => ~Indent(t[i + 1]),
               NEW i \in 1..(Len(t) - 1)
        PROVE  Break(t[i + 1]) => ~Indent(t[i])
    <3>1. i - 1 \in 0..(Len(t) - 2) /\ (i - 1) + 1 = i
      BY <1>1
    <3>2. Break(t[((i - 1) + 1) + 1]) => ~Indent(t[(i - 1) + 1])
      BY <2>2, <3>1
    <3> QED
      BY <3>1, <3>2
  <2>3. ASSUME \A i \in 1..(Len(t) - 1) : Break(t[i + 1]) => ~Indent(t[i]),
               NEW i \in 0..(Len(t) - 2)
        PROVE  Break(t[(i + 1) + 1]) => ~Indent(t[i + 1])
    <3>1. i + 1 \in 1..(Len(t) - 1)
      BY <1>1
    <3> QED
      BY <2>3, <3>1
  <2> QED
    BY <2>1, <2>2, <2>3
<1>5. (\A i \in 0..(Len(t) - 3) : ~(IsBreak(t, i) /\ ClassAt(t, i + 2) = "\n"))
        <=> (\A i \in 1..(Len(t) - 2) : ~(Break(t[i]) /\ Break(t[i + 1]) /\ Break(t[i + 2])))
  <2>1. (\A i \in 0..(Len(t) - 3) : ~(IsBreak(t, i) /\ ClassAt(t, i + 2) = "\n"))
          <=> (\A i \in 0..(Len(t) - 3) :
                 ~(Break(t[i + 1]) /\ Break(t[(i + 1) + 1]) /\ Break(t[(i + 2) + 1])))
    BY KindsAt DEF IsBreak
  <2>2. ASSUME \A i \in 0..(Len(t) - 3) :
                 ~(Break(t[i + 1]) /\ Break(t[(i + 1) + 1]) /\ Break(t[(i + 2) + 1])),
               NEW i \in 1..(Len(t) - 2)
        PROVE  ~(Break(t[i]) /\ Break(t[i + 1]) /\ Break(t[i + 2]))
    <3>1. i - 1 \in 0..(Len(t) - 3) /\ (i - 1) + 1 = i /\ ((i - 1) + 2) + 1 = i + 2
      BY <1>1
    <3>2. ~(Break(t[(i - 1) + 1]) /\ Break(t[((i - 1) + 1) + 1]) /\ Break(t[((i - 1) + 2) + 1]))
      BY <2>2, <3>1
    <3> QED
      BY <3>1, <3>2
  <2>3. ASSUME \A i \in 1..(Len(t) - 2) : ~(Break(t[i]) /\ Break(t[i + 1]) /\ Break(t[i + 2])),
               NEW i \in 0..(Len(t) - 3)
        PROVE  ~(Break(t[i + 1]) /\ Break(t[(i + 1) + 1]) /\ Break(t[(i + 2) + 1]))
    <3>1. i + 1 \in 1..(Len(t) - 2) /\ (i + 2) + 1 = (i + 1) + 2
      BY <1>1
    <3> QED
      BY <2>3, <3>1
  <2> QED
    BY <2>1, <2>2, <2>3
<1> QED
  BY <1>2, <1>3, <1>4, <1>5 DEF WellNormalized, Well

-----------------------------------------------------------------------------
(* Trimming *)

\* u is t[a:b].
SliceOf(u, t, a, b) ==
  u \in Seq(Rune) /\ Len(u) = b - a /\ \A i \in 1..(b - a) : u[i] = t[a + i]

\* Slices are that.
LEMMA RunesOfSlice ==
  ASSUME NEW t \in Seq(Rune), NEW a \in Nat, NEW b \in Nat, a <= b, b <= Len(t)
  PROVE  SliceOf(Slice(t, a, b), t, a, b)
  BY SliceIs DEF SliceOf

\* A text without whitespace at its ends is left as it is.
LEMMA TrimNothing ==
  ASSUME NEW S, NEW s \in Seq(S), Len(s) > 0, ~Blank(s[1]), ~Blank(s[Len(s)])
  PROVE  TrimSpace(s) = s
<1>1. Len(s) \in Nat
  BY Texts
<1>2. PICK a \in Nat, b \in Nat :
        /\ a <= b /\ b <= Len(s)
        /\ TrimSpace(s) = Slice(s, a, b)
        /\ \A i \in Offsets(s) : ~IsSpace(s, i) => a <= i /\ i < b
  BY TrimSpaceIs
<1>3. 0 \in Offsets(s) /\ Len(s) - 1 \in Offsets(s) /\ 0 + 1 = 1 /\ (Len(s) - 1) + 1 = Len(s)
  BY <1>1 DEF Offsets
<1>4. ~IsSpace(s, 0) /\ ~IsSpace(s, Len(s) - 1)
  <2>1. ~Blank(s[0 + 1]) /\ ~Blank(s[(Len(s) - 1) + 1])
    BY <1>3
  <2> QED
    BY <2>1, KindsAt
<1>5. a <= 0 /\ Len(s) - 1 < b
  BY <1>2, <1>3, <1>4
<1>6. a = 0 /\ b = Len(s)
  BY <1>1, <1>2, <1>5
<1>7. Slice(s, 0, Len(s)) = s
  BY SubSeqFull DEF Slice
<1> QED
  BY <1>2, <1>6, <1>7

\* What is left of a stretch of a text.
LEMMA CutIs ==
  ASSUME NEW c \in Seq(Rune), NEW from \in Nat, NEW end \in Nat, from <= end, end <= Len(c),
         NEW x, x = TrimSpace(Slice(c, from, end))
  PROVE  /\ x \in Seq(Rune)
         /\ InOrder(c) => InOrder(x)
         /\ \A i \in DOMAIN x : \E k \in 1..Len(c) : x[i] = c[k]
         /\ \A k \in from..(end - 1) : Letter(c[k + 1]) => c[k + 1] \in ToSet(x)
<1>0. Len(c) \in Nat
  BY Texts
<1> DEFINE s == Slice(c, from, end)
<1>1. s \in Seq(Rune) /\ Len(s) = end - from /\ \A i \in 1..(end - from) : s[i] = c[from + i]
  BY SliceIs
<1>2. PICK a \in Nat, b \in Nat :
        /\ a <= b /\ b <= Len(s)
        /\ TrimSpace(s) = Slice(s, a, b)
        /\ \A i \in Offsets(s) : ~IsSpace(s, i) => a <= i /\ i < b
  <2>1. s \in Seq(Rune)
    BY <1>1
  <2> HIDE DEF s
  <2> QED
    BY <2>1, TrimSpaceIs
<1>3. a <= b /\ b <= end - from
  BY <1>1, <1>2
<1>4. x = Slice(c, from + a, from + b)
  <2>1. Slice(Slice(c, from, end), a, b) = Slice(c, from + a, from + b)
    BY <1>3, SliceOfSlice
  <2> QED
    BY <1>2, <2>1
<1> DEFINE p == from + a
           q == from + b
<1>5. p \in Nat /\ q \in Nat /\ p <= q /\ q <= Len(c) /\ q <= end
  BY <1>0, <1>3
<1> HIDE DEF p, q
<1>6. x = Slice(c, p, q)
  BY <1>4 DEF p, q
<1>7. x \in Seq(Rune) /\ Len(x) = q - p /\ \A i \in 1..(q - p) : x[i] = c[p + i]
  <2>1. SliceOf(Slice(c, p, q), c, p, q)
    BY <1>5, RunesOfSlice
  <2> QED
    BY <1>6, <2>1 DEF SliceOf
<1>8. DOMAIN x = 1..(q - p)
  BY <1>7, LenProperties
<1>9. InOrder(c) => InOrder(x)
  BY <1>5, <1>6, SliceInOrder
<1>10. \A i \in DOMAIN x : \E k \in 1..Len(c) : x[i] = c[k]
  <2> TAKE i \in DOMAIN x
  <2>1. i \in 1..(q - p)
    BY <1>8
  <2> DEFINE k == p + i
  <2>2. k \in 1..Len(c) /\ x[i] = c[k]
    BY <1>0, <1>5, <1>7, <2>1
  <2> HIDE DEF k
  <2> QED
    BY <2>2
<1>11. ASSUME NEW k \in from..(end - 1), Letter(c[k + 1]) PROVE c[k + 1] \in ToSet(x)
  <2> DEFINE i == k - from
  <2>1. /\ i \in Offsets(s) /\ i + 1 \in 1..(end - from) /\ from + (i + 1) = k + 1 /\ i \in Nat
        /\ from + i = k
    BY <1>1 DEF Offsets
  <2> HIDE DEF s, i
  <2>2. s[i + 1] = c[k + 1]
    BY <1>1, <2>1
  <2>3. ~IsSpace(s, i)
    BY <1>11, <2>2, Kinds, KindsAt
  <2>4. a <= i /\ i < b
    BY <1>2, <2>1, <2>3
  <2> DEFINE j == i - a + 1
  <2>5. j \in 1..(q - p) /\ p + j = k + 1
    BY <1>3, <2>1, <2>4 DEF p, q
  <2>6. x[j] = c[k + 1] /\ j \in DOMAIN x
    BY <1>7, <1>8, <2>5
  <2> HIDE DEF j
  <2> QED
    BY <2>6 DEF ToSet
<1> QED
  BY <1>7, <1>9, <1>10, <1>11

-----------------------------------------------------------------------------
(* The next paragraph *)

\* The paragraph that one round of extractParagraphSpans appends.
ParagraphAt(t, hs, bs, start, end) ==
  [start |-> start, text |-> TrimSpace(Slice(t, start, end)),
   heading |-> HeadingForOffset(hs, start),
   startPage |-> ResolvePages(bs, start, end).first,
   endPage |-> ResolvePages(bs, start, end).last]

\* The scan for paragraphs stands at the start of the text or behind a blank line.
IsCut(t, from) ==
  from = 0 \/ \E e \in Nat : from = e + 2 /\ (e = Len(t) \/ IsBreak(t, e))

\* p is the paragraph from start to end, the next one after offset from.
NextParagraph(t, hs, bs, from, start, end, p) ==
  /\ start \in Nat /\ end \in Nat /\ from <= start /\ start < end
  /\ p \in Paragraph /\ p.start = start /\ EndOf(p) = end
  /\ ParagraphInv(t, hs, bs, p)
  /\ end = Len(t) \/ IsBreak(t, end)
  /\ \A i \in from..(start - 1) : ClassAt(t, i) = " "

\* One round of extractParagraphSpans finds the next paragraph of a normalised text.
LEMMA ParagraphCut ==
  ASSUME NEW t \in Seq(Rune), Well(t), NEW hs, hs \subseteq LineStarts(t),
         NEW bs \in Seq(Boundary), Increasing(bs), NEW from \in Nat, IsCut(t, from),
         NEW start, start = FirstFrom(t, from, NoSpaces(t)), start < Len(t),
         NEW end, end = FirstFrom(t, start, Breaks(t)),
         NEW p, p = ParagraphAt(t, hs, bs, start, end)
  PROVE  NextParagraph(t, hs, bs, from, start, end, p)
<1>0. Len(t) \in Nat
  BY Texts
<1>1. /\ start \in Nat /\ ~IsSpace(t, start) /\ from <= start
      /\ \A i \in from..(Len(t) - 1) : i < start => IsSpace(t, i)
  BY FirstNoSpace
<1>1a. start \in Nat /\ from <= start
  BY <1>1
<1>2. /\ end \in Nat /\ end <= Len(t) /\ start <= end
      /\ end < Len(t) => end + 1 < Len(t) /\ IsBreak(t, end)
      /\ \A i \in start..(Len(t) - 2) : i < end => ~IsBreak(t, i)
  <2> DEFINE e == FirstFrom(t, start, Breaks(t))
  <2>1. /\ e \in Nat /\ e <= Len(t)
        /\ e < Len(t) => e + 1 < Len(t) /\ IsBreak(t, e)
        /\ \A i \in start..(Len(t) - 2) : i < e => ~IsBreak(t, i)
        /\ start <= Len(t) => start <= e
    BY <1>1a, FirstBreak
  <2>2. start <= Len(t)
    BY <1>0, <1>1a
  <2>3. end = e
    OBVIOUS
  <2> HIDE DEF e
  <2> QED
    BY <2>1, <2>2, <2>3
<1>2a. end \in Nat /\ end <= Len(t) /\ start <= end
  BY <1>2
<1>3. ~Blank(t[start + 1])
  BY <1>1, KindsAt
<1>4. end # start
  <2>1. ASSUME end = start PROVE FALSE
    <3>1. IsBreak(t, start)
      BY <1>2, <2>1
    <3>2. Break(t[start + 1])
      BY <3>1, KindsAt DEF IsBreak
    <3> QED
      BY <1>3, <3>2, Kinds
  <2> QED
    BY <2>1
<1>5. start < end
  BY <1>1a, <1>2a, <1>4
<1> DEFINE s == Slice(t, start, end)
<1>6. s \in Seq(Rune) /\ Len(s) = end - start /\ \A i \in 1..(end - start) : s[i] = t[start + i]
  <2>1. SliceOf(Slice(t, start, end), t, start, end)
    BY <1>1a, <1>2a, RunesOfSlice
  <2> QED
    BY <2>1 DEF SliceOf
<1>7. ~Blank(t[end])
  <2>1. CASE end = Len(t)
    BY <1>1a, <1>5, <2>1 DEF Well
  <2>2. CASE end # Len(t)
    <3>1. end < Len(t)
      BY <1>0, <1>2a, <2>2
    <3>2. IsBreak(t, end) /\ end + 1 < Len(t)
      BY <1>2, <3>1
    <3>3. Break(t[end + 1]) /\ Break(t[(end + 1) + 1])
      BY <3>2, KindsAt DEF IsBreak
    <3>4. end \in 1..(Len(t) - 1)
      BY <1>0, <1>1a, <1>2a, <1>5, <3>1
    <3>5. ~Indent(t[end])
      BY <3>3, <3>4 DEF Well
    <3>6. ~Break(t[end])
      <4>1. CASE end = start + 1
        BY <1>3, <4>1, Kinds
      <4>2. CASE end # start + 1
        <5> DEFINE i == end - 1
        <5>1. i \in start..(Len(t) - 2) /\ i < end /\ i + 1 = end
          BY <1>0, <1>1a, <1>2a, <1>5, <3>1, <4>2
        <5> HIDE DEF i
        <5>2. ~IsBreak(t, i)
          BY <1>2, <5>1
        <5>3. ~(Break(t[i + 1]) /\ Break(t[(i + 1) + 1]))
          BY <5>2, KindsAt DEF IsBreak
        <5> QED
          BY <3>3, <5>1, <5>3
      <4> QED
        BY <4>1, <4>2
    <3> QED
      BY <3>5, <3>6, Kinds
  <2> QED
    BY <2>1, <2>2
<1>8. TrimSpace(s) = s
  <2>1. 1 \in 1..(end - start) /\ end - start \in 1..(end - start)
        /\ start + (end - start) = end /\ end - start > 0
    BY <1>1a, <1>2a, <1>5
  <2>2. s[1] = t[start + 1] /\ s[end - start] = t[end]
    BY <1>6, <2>1
  <2> HIDE DEF s
  <2>3. s \in Seq(Rune) /\ Len(s) > 0 /\ s[Len(s)] = t[end]
    BY <1>6, <2>1, <2>2
  <2>4. ~Blank(s[1]) /\ ~Blank(s[Len(s)])
    BY <1>3, <1>7, <2>2, <2>3
  <2> QED
    BY <2>3, <2>4, TrimNothing
<1>9. /\ p.start = start /\ p.text = s /\ p.heading = HeadingForOffset(hs, start)
      /\ p.startPage = PageForOffset(bs, start) /\ p.endPage = PageForOffset(bs, end - 1)
  <2>1. /\ p.start = start /\ p.text = TrimSpace(s) /\ p.heading = HeadingForOffset(hs, start)
        /\ p.startPage = ResolvePages(bs, start, end).first
        /\ p.endPage = ResolvePages(bs, start, end).last
    BY DEF ParagraphAt
  <2>2. end > start
    BY <1>5, <1>1a, <1>2a
  <2>3. /\ ResolvePages(bs, start, end).first = PageForOffset(bs, start)
        /\ ResolvePages(bs, start, end).last = PageForOffset(bs, end - 1)
    BY <2>2 DEF ResolvePages
  <2> QED
    BY <1>8, <2>1, <2>3
<1>10. p \in Paragraph
  <2>1. end - 1 \in Nat
    BY <1>1a, <1>2a, <1>5
  <2>2. PageForOffset(bs, start) \in Nat /\ PageForOffset(bs, end - 1) \in Nat
    BY <1>1a, <2>1, PageMonotone
  <2>3. HeadingForOffset(hs, start) \in Int
    BY <1>1a, HeadingIs
  <2>4. p = [start |-> p.start, text |-> p.text, heading |-> p.heading,
             startPage |-> p.startPage, endPage |-> p.endPage]
    BY DEF ParagraphAt
  <2>5. p.start \in Nat /\ p.text \in Seq(Rune) /\ p.heading \in Int
        /\ p.startPage \in Nat /\ p.endPage \in Nat
    BY <1>1a, <1>6, <1>9, <2>2, <2>3
  <2> QED
    BY <2>4, <2>5 DEF Paragraph
<1>11. EndOf(p) = end
  <2>1. EndOf(p) = start + Len(s)
    BY <1>9 DEF EndOf
  <2>2. start + (end - start) = end
    BY <1>1a, <1>2a
  <2> QED
    BY <1>6, <2>1, <2>2
<1>12. \A i \in from..(start - 1) : Indent(t[i + 1])
  <2>1. CASE from = 0
    <3>1. start = 0
      <4>1. ASSUME start # 0 PROVE FALSE
        <5>1. 0 \in from..(Len(t) - 1) /\ 0 < start
          BY <1>0, <1>1a, <2>1, <4>1
        <5>2. IsSpace(t, 0)
          BY <1>1, <5>1
        <5>3. Blank(t[0 + 1])
          BY <5>2, KindsAt
        <5>3a. 0 + 1 = 1
          OBVIOUS
        <5>4. Len(t) > 0
          BY <1>0, <1>1a
        <5> QED
          BY <5>3, <5>3a, <5>4 DEF Well
      <4> QED
        BY <4>1
    <3> QED
      BY <2>1, <3>1
  <2>2. CASE from # 0
    <3>1. PICK e \in Nat : from = e + 2 /\ (e = Len(t) \/ IsBreak(t, e))
      BY <2>2 DEF IsCut
    <3>2. from = e + 2 /\ e # Len(t)
      BY <1>0, <1>1a, <3>1
    <3>3. Break(t[e + 1]) /\ Break(t[(e + 1) + 1])
      BY <3>1, <3>2, KindsAt DEF IsBreak
    <3> DEFINE bad == {i \in from..(start - 1) : Break(t[i + 1])}
    <3>4. ASSUME bad # {} PROVE FALSE
      <4>1. bad \subseteq Nat
        BY <1>1a
      <4>2. PICK k \in bad : \A n \in bad : k <= n
        <5> HIDE DEF bad
        <5> QED
          BY <3>4, <4>1, HasLeast
      <4>3. k \in from..(start - 1) /\ Break(t[k + 1])
        BY <4>2
      <4>4. CASE k = from
        <5>1. e + 1 \in 1..(Len(t) - 2) /\ k + 1 = (e + 1) + 2
          BY <1>0, <1>1a, <3>2, <4>4
        <5> QED
          BY <3>3, <4>3, <5>1 DEF Well
      <4>5. CASE k # from
        <5> DEFINE m == k - 1
        <5>1. m \in from..(start - 1) /\ m + 1 = k /\ ~(k <= m) /\ k \in 1..(Len(t) - 1)
              /\ m \in from..(Len(t) - 1) /\ m < start
          BY <1>0, <1>1a, <4>3, <4>5
        <5>2. m \notin bad
          BY <4>2, <5>1
        <5> HIDE DEF m
        <5>3. ~Break(t[k])
          BY <5>1, <5>2
        <5>4. IsSpace(t, m)
          BY <1>1, <5>1
        <5>5. Indent(t[k])
          BY <5>1, <5>3, <5>4, Kinds, KindsAt
        <5> QED
          BY <4>3, <5>1, <5>5 DEF Well
      <4> QED
        BY <4>4, <4>5
    <3>5. ASSUME NEW i \in from..(start - 1) PROVE Indent(t[i + 1])
      <4>1. i \in from..(Len(t) - 1) /\ i < start
        BY <1>0, <1>1a
      <4>2. IsSpace(t, i)
        BY <1>1, <4>1
      <4>3. ~Break(t[i + 1])
        BY <3>4
      <4> QED
        BY <4>2, <4>3, Kinds, KindsAt
    <3> QED
      BY <3>5
  <2> QED
    BY <2>1, <2>2
<1>13. \A i \in from..(start - 1) : ClassAt(t, i) = " "
  BY <1>12, KindsAt
<1>14. \E b \in 0..start :
         /\ b = 0 \/ (b >= 2 /\ IsBreak(t, b - 2))
         /\ \A i \in b..(start - 1) : ClassAt(t, i) = " "
  <2>1. from \in 0..start
    BY <1>1a
  <2>2. from = 0 \/ (from >= 2 /\ IsBreak(t, from - 2))
    <3>1. CASE from # 0
      <4>1. PICK e \in Nat : from = e + 2 /\ (e = Len(t) \/ IsBreak(t, e))
        BY <3>1 DEF IsCut
      <4>2. e # Len(t) /\ from >= 2 /\ from - 2 = e
        BY <1>0, <1>1a, <4>1
      <4> QED
        BY <4>1, <4>2
    <3> QED
      BY <3>1
  <2> QED
    BY <1>13, <2>1, <2>2
<1>15. \A i \in start..(end - 2) : ~IsBreak(t, i)
  <2> TAKE i \in start..(end - 2)
  <2>1. i \in start..(Len(t) - 2) /\ i < end
    BY <1>0, <1>1a, <1>2a
  <2> QED
    BY <1>2, <2>1
<1>16. s # <<>>
  <2>1. Len(s) > 0
    BY <1>1a, <1>2a, <1>5, <1>6
  <2> HIDE DEF s
  <2> QED
    BY <1>6, <2>1, Texts
<1>17. ParagraphInv(t, hs, bs, p)
  <2> HIDE DEF s
  <2>1. s = Slice(t, start, end)
    BY DEF s
  <2>2. p.text # <<>> /\ EndOf(p) <= Len(t) /\ p.text = Slice(t, p.start, EndOf(p))
    BY <1>2a, <1>9, <1>11, <1>16, <2>1
  <2>3. ~IsSpace(t, p.start) /\ \A i \in p.start..(EndOf(p) - 2) : ~IsBreak(t, i)
    BY <1>1, <1>9, <1>11, <1>15
  <2> QED
    BY <1>9, <1>11, <1>14, <2>2, <2>3 DEF ParagraphInv
<1>18. end = Len(t) \/ IsBreak(t, end)
  <2>1. end = Len(t) \/ end < Len(t)
    BY <1>0, <1>2a
  <2> QED
    BY <1>2, <2>1
<1> QED
  BY <1>1a, <1>2a, <1>5, <1>9, <1>10, <1>11, <1>13, <1>17, <1>18 DEF NextParagraph

-----------------------------------------------------------------------------
(* The content of a section *)

\* Rune o of the text lies on the page that the boundaries name.
PagesRight(t, bs) ==
  bs # <<>> => \A o \in Offsets(t) :
    t[o + 1].at # Nowhere => PageForOffset(bs, o) = t[o + 1].at[1]

\* PagesFit in these terms.
LEMMA PagesFitIs ==
  ASSUME NEW t, NEW bs
  PROVE  PagesFit(t, bs) <=> Increasing(bs) /\ PagesRight(t, bs)
  BY DEF PagesFit, Increasing, PagesRight

\* The order of places is strict.
LEMMA NotBeforeItself ==
  ASSUME NEW r \in Rune
  PROVE  ~Before(r.at, r.at)
<1>1. r.at \in Nat \X Nat \X Nat
  BY DEF Rune
<1>2. r.at[1] \in Nat /\ r.at[2] \in Nat /\ r.at[3] \in Nat
  BY <1>1
<1> QED
  BY <1>2 DEF Before

\* A rune of the document occurs once in a text.
LEMMA OccursOnce ==
  ASSUME NEW t \in Seq(Rune), InOrder(t), NEW i \in 1..Len(t), NEW j \in 1..Len(t),
         t[i] = t[j], t[i].at # Nowhere
  PROVE  i = j
<1>1. Len(t) \in Nat /\ t[i] \in Rune
  BY Texts
<1>2. DOMAIN t = 1..Len(t)
  BY Texts
<1>3. i \in DOMAIN t /\ j \in DOMAIN t
  BY <1>2
<1>4. ~(i < j) /\ ~(j < i)
  BY <1>1, <1>3, NotBeforeItself DEF InOrder
<1> QED
  BY <1>1, <1>4

\* What the content of consecutive paragraphs has to do with them.
ContentOf(t, hs, bs, ps, c) ==
  /\ c \in Seq(Rune) /\ Len(c) > 0 /\ InOrder(c)
  /\ bs # <<>> => \A k \in 1..Len(c) : c[k].at # Nowhere =>
       ps[1].startPage <= c[k].at[1] /\ c[k].at[1] <= ps[Len(ps)].endPage
  /\ ~Indented(t) => c = Slice(t, ps[1].start, EndOf(ps[Len(ps)]))
  /\ \A k \in 1..Len(c) : \A o \in Offsets(t) :
       c[k].at # Nowhere /\ c[k] = t[o + 1] =>
         \E i \in 1..Len(ps) : HeadingForOffset(hs, ParagraphStart(t, o)) = ps[i].heading
  /\ Overlap \in Nat /\ HasLongToken(c) => HasLongToken(t)
  /\ \A i \in 1..Len(ps) : \A m \in 1..Len(ps[i].text) :
       \E k \in 1..Len(c) : c[k] = ps[i].text[m]

\* The content that buildSectionInput makes of paragraphs that follow each other.
LEMMA SectionContent ==
  ASSUME NEW t \in Seq(Rune), Well(t), InOrder(t), NEW hs, hs \subseteq LineStarts(t),
         NEW bs \in Seq(Boundary), Increasing(bs), PagesRight(t, bs),
         NEW ps \in Seq(Paragraph), Len(ps) > 0, Consecutive(t, hs, bs, ps)
  PROVE  ContentOf(t, hs, bs, ps, JoinWith(TextsOf(ps), BlankLine))
<1> DEFINE c == JoinWith(TextsOf(ps), BlankLine)
           N == Len(ps)
<1>1. Spans(t, ps)
  BY SpansOf
<1>2. NewlinesInserted(t)
  BY DEF Well, NewlinesInserted
<1>3. PICK w : Written(c, t, ps, N, w)
  BY <1>1, <1>2, SectionWritten
<1> HIDE DEF c
<1>4. /\ c \in Seq(Rune) /\ c # <<>> /\ w \in [1..Len(c) -> 1..Len(t)]
      /\ \A k \in 1..Len(c) : c[k] = t[w[k]]
      /\ \A k, l \in 1..Len(c) : k < l => w[k] < w[l]
      /\ w[1] = ps[1].start + 1 /\ w[Len(c)] = EndOf(ps[N])
  BY <1>3 DEF Written
<1>5. \A k \in 1..Len(c) :
        c[k] = Newline \/ \E i \in 1..N : ps[i].start < w[k] /\ w[k] <= EndOf(ps[i])
  BY <1>3 DEF Written
<1>6. \A i \in 1..N : \A m \in 1..Len(ps[i].text) : \E k \in 1..Len(c) : w[k] = ps[i].start + m
  BY <1>3 DEF Written
<1>7. Len(c) \in Nat /\ Len(c) > 0 /\ Len(t) \in Nat /\ N \in Nat
  BY <1>4, Texts
<1>8. InOrder(c)
  BY <1>3, WrittenInOrder
<1>9. \A i \in 1..N : ParagraphInv(t, hs, bs, ps[i])
  <2>1. DOMAIN ps = 1..Len(ps)
    BY Texts
  <2> QED
    BY <2>1 DEF Consecutive
<1>10. /\ ps[1].start \in Nat /\ EndOf(ps[N]) \in Nat /\ EndOf(ps[N]) > 0
       /\ \A i \in 1..N : ps[i].start \in Nat /\ EndOf(ps[i]) \in Nat
  <2>1. 1 \in 1..N /\ N \in 1..N
    BY <1>7
  <2>2. \A i \in 1..N : /\ ps[i].start \in Nat /\ EndOf(ps[i]) \in Nat
                        /\ Len(ps[i].text) \in Nat /\ Len(ps[i].text) > 0
                        /\ EndOf(ps[i]) = ps[i].start + Len(ps[i].text)
    BY <1>1, SpanIs
  <2> HIDE DEF N
  <2>3. ASSUME NEW i \in 1..N PROVE EndOf(ps[i]) > 0
    <3> DEFINE e == EndOf(ps[i])
               a == ps[i].start
               m == Len(ps[i].text)
    <3>1. a \in Nat /\ m \in Nat /\ m > 0 /\ e = a + m
      BY <2>2
    <3> HIDE DEF e, a, m
    <3>2. e > 0
      BY <3>1
    <3> QED
      BY <3>2 DEF e
  <2> QED
    BY <2>1, <2>2, <2>3
<1>11. ASSUME bs # <<>>, NEW k \in 1..Len(c), c[k].at # Nowhere
       PROVE  ps[1].startPage <= c[k].at[1] /\ c[k].at[1] <= ps[N].endPage
  <2> DEFINE o == w[k] - 1
             a == ps[1].start
             b == EndOf(ps[N]) - 1
  <2>1. w[k] \in 1..Len(t) /\ c[k] = t[w[k]]
    BY <1>4
  <2>2. o \in Offsets(t) /\ o + 1 = w[k] /\ o \in Nat
    BY <1>7, <2>1 DEF Offsets
  <2>3. PageForOffset(bs, o) = c[k].at[1]
    <3> HIDE DEF o
    <3> QED
      BY <1>11, <2>1, <2>2 DEF PagesRight
  <2>4. a \in Nat /\ b \in Nat
    BY <1>10
  <2>5. a <= o /\ o <= b
    <3>1. 1 \in 1..Len(c) /\ Len(c) \in 1..Len(c)
      BY <1>7
    <3>2. w[1] <= w[k]
      <4>1. w[1] \in Nat /\ w[k] \in Nat
        BY <1>4, <1>7, <3>1
      <4> QED
        BY <1>4, <1>7, <3>1, <4>1
    <3>3. w[k] <= w[Len(c)]
      <4>1. w[Len(c)] \in Nat /\ w[k] \in Nat
        BY <1>4, <1>7, <3>1
      <4> QED
        BY <1>4, <1>7, <3>1, <4>1
    <3> QED
      BY <1>4, <1>10, <2>1, <3>2, <3>3
  <2>6. ps[1].startPage = PageForOffset(bs, a) /\ ps[N].endPage = PageForOffset(bs, b)
    <3>1. 1 \in 1..N /\ N \in 1..N
      BY <1>7
    <3> QED
      BY <1>9, <3>1 DEF ParagraphInv
  <2> HIDE DEF o, a, b
  <2>7. PageForOffset(bs, a) <= PageForOffset(bs, o) /\ PageForOffset(bs, o) <= PageForOffset(bs, b)
    BY <2>2, <2>4, <2>5, PageMonotone
  <2> QED
    BY <2>3, <2>6, <2>7
<1>12. ~Indented(t) => c = Slice(t, ps[1].start, EndOf(ps[N]))
  BY <1>1, <1>3, WrittenSlice
<1>13. ASSUME NEW k \in 1..Len(c), NEW o \in Offsets(t), c[k].at # Nowhere, c[k] = t[o + 1]
       PROVE  \E i \in 1..N : HeadingForOffset(hs, ParagraphStart(t, o)) = ps[i].heading
  <2>1. o \in Nat /\ o + 1 \in 1..Len(t) /\ w[k] \in 1..Len(t) /\ c[k] = t[w[k]]
    BY <1>4, <1>7 DEF Offsets
  <2>2. w[k] = o + 1
    <3> DEFINE i == o + 1
    <3>1. i \in 1..Len(t) /\ t[i] = t[w[k]] /\ t[i].at # Nowhere
      BY <1>13, <2>1
    <3> HIDE DEF i
    <3>2. i = w[k]
      BY <2>1, <3>1, OccursOnce
    <3> QED
      BY <3>2 DEF i
  <2>3. c[k] # Newline
    BY <1>13, InsertedKinds
  <2>4. PICK i \in 1..N : ps[i].start < w[k] /\ w[k] <= EndOf(ps[i])
    BY <1>5, <2>3
  <2>5. o \in ps[i].start..(EndOf(ps[i]) - 1)
    <3> DEFINE a == ps[i].start
               e == EndOf(ps[i])
    <3>1. a \in Nat /\ e \in Nat /\ o \in Nat /\ a < o + 1 /\ o + 1 <= e
      BY <1>10, <2>1, <2>2, <2>4
    <3> HIDE DEF a, e
    <3>2. o \in a..(e - 1)
      BY <3>1
    <3> QED
      BY <3>2 DEF a, e
  <2>6. ps[i] \in Paragraph /\ ParagraphInv(t, hs, bs, ps[i])
    BY <1>9, Texts
  <2>7. HeadingForOffset(hs, ParagraphStart(t, o)) = ps[i].heading
    BY <2>5, <2>6, ParagraphStartIs
  <2> QED
    BY <2>7
<1>14. Overlap \in Nat /\ HasLongToken(c) => HasLongToken(t)
  BY <1>3, WrittenToken
<1>15. ASSUME NEW i \in 1..N, NEW m \in 1..Len(ps[i].text)
       PROVE  \E k \in 1..Len(c) : c[k] = ps[i].text[m]
  <2>1. PICK k \in 1..Len(c) : w[k] = ps[i].start + m
    BY <1>6
  <2>2. ps[i].text[m] = t[ps[i].start + m]
    BY <1>1, SpanIs
  <2> QED
    BY <1>4, <2>1, <2>2
<1>16. ContentOf(t, hs, bs, ps, c)
  BY <1>4, <1>7, <1>8, <1>11, <1>12, <1>13, <1>14, <1>15 DEF ContentOf
<1> QED
  BY <1>16 DEF c

-----------------------------------------------------------------------------
(* A chunk of a section *)

\* x is a chunk of a section, cut out of its content c.
ChunkOf(t, hs, bs, ps, c, from, end, x) ==
  /\ x \in Seq(Rune) /\ InOrder(x)
  /\ bs # <<>> => \A i \in DOMAIN x : x[i].at # Nowhere =>
       ps[1].startPage <= x[i].at[1] /\ x[i].at[1] <= ps[Len(ps)].endPage
  /\ ~Indented(t) => TrimSpace(Slice(t, ps[1].start + from, ps[1].start + end)) = x
  /\ \A i \in DOMAIN x : \A o \in Offsets(t) :
       x[i].at # Nowhere /\ x[i] = t[o + 1] =>
         \E j \in 1..Len(ps) : HeadingForOffset(hs, ParagraphStart(t, o)) = ps[j].heading
  /\ \A k \in from..(end - 1) : Letter(c[k + 1]) => c[k + 1] \in ToSet(x)

\* What buildChildChunksForSection cuts out of a section is such a chunk.
LEMMA ChunkIs ==
  ASSUME NEW t \in Seq(Rune), NEW hs, NEW bs, NEW ps \in Seq(Paragraph), Len(ps) > 0,
         Spans(t, ps), NEW c, ContentOf(t, hs, bs, ps, c),
         NEW from \in Nat, NEW end \in Nat, from < end, end <= Len(c)
  PROVE  ChunkOf(t, hs, bs, ps, c, from, end, TrimSpace(Slice(c, from, end)))
<1> DEFINE x == TrimSpace(Slice(c, from, end))
           s == ps[1].start
           e == EndOf(ps[Len(ps)])
<1>1. /\ c \in Seq(Rune) /\ Len(c) > 0 /\ InOrder(c)
      /\ bs # <<>> => \A k \in 1..Len(c) : c[k].at # Nowhere =>
           ps[1].startPage <= c[k].at[1] /\ c[k].at[1] <= ps[Len(ps)].endPage
      /\ ~Indented(t) => c = Slice(t, s, e)
      /\ \A k \in 1..Len(c) : \A o \in Offsets(t) :
           c[k].at # Nowhere /\ c[k] = t[o + 1] =>
             \E i \in 1..Len(ps) : HeadingForOffset(hs, ParagraphStart(t, o)) = ps[i].heading
  BY DEF ContentOf
<1>2. /\ x \in Seq(Rune) /\ InOrder(x)
      /\ \A i \in DOMAIN x : \E k \in 1..Len(c) : x[i] = c[k]
      /\ \A k \in from..(end - 1) : Letter(c[k + 1]) => c[k + 1] \in ToSet(x)
  <2>1. c \in Seq(Rune) /\ from <= end /\ InOrder(c)
    BY <1>1
  <2> QED
    BY <2>1, CutIs
<1> HIDE DEF x
<1>3. ASSUME bs # <<>>, NEW i \in DOMAIN x, x[i].at # Nowhere
      PROVE  ps[1].startPage <= x[i].at[1] /\ x[i].at[1] <= ps[Len(ps)].endPage
  <2>1. PICK k \in 1..Len(c) : x[i] = c[k]
    BY <1>2
  <2> QED
    BY <1>1, <1>3, <2>1
<1>4. ASSUME NEW i \in DOMAIN x, NEW o \in Offsets(t), x[i].at # Nowhere, x[i] = t[o + 1]
      PROVE  \E j \in 1..Len(ps) : HeadingForOffset(hs, ParagraphStart(t, o)) = ps[j].heading
  <2>1. PICK k \in 1..Len(c) : x[i] = c[k]
    BY <1>2
  <2> QED
    BY <1>1, <1>4, <2>1
<1>5. ASSUME ~Indented(t) PROVE TrimSpace(Slice(t, s + from, s + end)) = x
  <2>1. c = Slice(t, s, e)
    BY <1>1, <1>5
  <2>2. 1 \in 1..Len(ps) /\ Len(ps) \in 1..Len(ps)
    BY Texts
  <2>3. s \in Nat /\ e \in Nat /\ e <= Len(t) /\ Len(t) \in Nat /\ Len(c) \in Nat
    BY <1>1, <2>2, SpanIs, Texts
  <2> HIDE DEF s, e
  <2>4. s <= e
    <3>1. CASE e < s
      <4>1. Slice(t, s, e) = <<>>
        BY <2>3, <3>1, SubSeqEmpty DEF Slice
      <4>2. Len(c) = 0
        BY <1>1, <2>1, <4>1, Texts
      <4> QED
        BY <1>1, <4>2
    <3> QED
      BY <2>3, <3>1
  <2>5. Len(c) = e - s
    <3>1. SliceOf(Slice(t, s, e), t, s, e)
      BY <2>3, <2>4, RunesOfSlice
    <3> QED
      BY <2>1, <3>1 DEF SliceOf
  <2>6. end <= e - s /\ from <= end
    BY <2>5
  <2>7. Slice(Slice(t, s, e), from, end) = Slice(t, s + from, s + end)
    BY <2>3, <2>4, <2>6, SliceOfSlice
  <2> QED
    BY <2>1, <2>7 DEF x
<1>6. ChunkOf(t, hs, bs, ps, c, from, end, x)
  BY <1>2, <1>3, <1>4, <1>5 DEF ChunkOf
<1> QED
  BY <1>6 DEF x

-----------------------------------------------------------------------------
(* Steps of the loops *)

\* The assumption says so.
LEMMA ConstantsFit == Fits
  BY ChunkerAssumption DEF Fits

\* What the properties say of one chunk.
ChunkOK(t, hs, bs, z) ==
  /\ InOrder(z.content)
  /\ Len(bs) > 0 => \A i \in PlacesIn(z) :
       z.page <= z.content[i].at[1] /\ z.content[i].at[1] <= z.pageEnd
  /\ ~Indented(t) => TrimSpace(Slice(t, z.start, z.end)) = z.content
  /\ \A o \in Offsets(t) : (\E i \in PlacesIn(z) : z.content[i] = t[o + 1]) =>
       z.heading = HeadingForOffset(hs, ParagraphStart(t, o))

\* The conjuncts of ChunkerInv that are about chunks.
ChunksInv ==
  /\ \A i \in DOMAIN chunks : InOrder(chunks[i].content)
  /\ PagesCover /\ OffsetsName /\ UnderItsHeading

\* What has become of the words of the text.
WordsKept ==
  ~HasLongToken(text) => \A o \in Offsets(text) : IsWordRune(text, o) => IsKept(text[o + 1], o)

\* ChunkerInv, and below ChunkerInv of the next state, by its parts.
LEMMA ChunkerInvIs ==
  ChunkerInv <=>
    /\ ChunkerTypeOK /\ TextInv /\ StageInv
    /\ Consecutive(text, Headings, boundaries, section \o paragraphs)
    /\ WordsKept /\ ChunksInv
  BY DEF ChunkerInv, WordsKept, ChunksInv

\* The same of the next state.
LEMMA ChunkerInvNext ==
  ChunkerInv' <=>
    /\ ChunkerTypeOK' /\ TextInv' /\ StageInv'
    /\ Consecutive(text', Headings', boundaries', section' \o paragraphs')
    /\ WordsKept' /\ ChunksInv'
  BY DEF ChunkerInv, WordsKept, ChunksInv

\* The properties hold of all chunks if they hold of each.
LEMMA ChunksInvIs ==
  ChunksInv <=> \A z \in ToSet(chunks) : ChunkOK(text, Headings, boundaries, z)
<1>1. (\A i \in DOMAIN chunks : InOrder(chunks[i].content))
        <=> \A z \in ToSet(chunks) : InOrder(z.content)
  BY DEF ToSet
<1> QED
  BY <1>1 DEF ChunksInv, ChunkOK, PagesCover, OffsetsName, UnderItsHeading

\* The same of the next state.
LEMMA ChunksInvNext ==
  ChunksInv' <=> \A z \in ToSet(chunks') : ChunkOK(text', Headings', boundaries', z)
<1>1. (\A i \in DOMAIN chunks' : InOrder(chunks'[i].content))
        <=> \A z \in ToSet(chunks') : InOrder(z.content)
  BY DEF ToSet
<1> QED
  BY <1>1 DEF ChunksInv, ChunkOK, PagesCover, OffsetsName, UnderItsHeading

\* Headings of the text stand at line starts.
LEMMA HeadingsIn == Headings \subseteq LineStarts(text)
  BY HeadingsAtStarts DEF Headings

\* What TextInv says, in terms of the lemmas.
LEMMA TextFacts ==
  ASSUME ChunkerTypeOK, TextInv
  PROVE  /\ text \in Seq(Rune) /\ Well(text) /\ InOrder(text)
         /\ boundaries \in Seq(Boundary) /\ Increasing(boundaries)
         /\ PagesRight(text, boundaries)
<1>1. text \in Seq(Rune) /\ boundaries \in Seq(Boundary)
  BY DEF ChunkerTypeOK, Boundary
<1> QED
  BY <1>1, WellIs, PagesFitIs DEF TextInv

\* Steps that leave the text alone keep what is said of it.
LEMMA SameText ==
  ASSUME UNCHANGED <<document, text, boundaries>>
  PROVE  /\ Headings' = Headings /\ text' = text /\ boundaries' = boundaries
         /\ TextInv /\ stage # "normalize" => TextInv'
         /\ UNCHANGED chunks /\ ChunksInv => ChunksInv'
<1>1. Headings' = Headings
  BY DEF Headings
<1>2. TextInv /\ stage # "normalize" => TextInv'
  BY DEF TextInv
<1>3. UNCHANGED chunks /\ ChunksInv => ChunksInv'
  BY <1>1, ChunksInvIs, ChunksInvNext
<1> QED
  BY <1>1, <1>2, <1>3

\* IsIn by positions.
LEMMA IsInIs ==
  ASSUME NEW ps \in Seq(Paragraph), NEW x
  PROVE  IsIn(x, ps) <=> \E i \in 1..Len(ps) : \E m \in 1..Len(ps[i].text) : ps[i].text[m] = x
<1>1. DOMAIN ps = 1..Len(ps)
  BY Texts
<1>2. \A i \in 1..Len(ps) : DOMAIN ps[i].text = 1..Len(ps[i].text)
  <2> TAKE i \in 1..Len(ps)
  <2>1. ps[i] \in Paragraph
    BY Texts
  <2>2. ps[i].text \in Seq(Rune)
    BY <2>1 DEF Paragraph
  <2> QED
    BY <2>2, LenProperties
<1>3. \A i \in 1..Len(ps) : x \in ToSet(ps[i].text) <=> \E m \in 1..Len(ps[i].text) : ps[i].text[m] = x
  BY <1>2 DEF ToSet
<1> QED
  BY <1>1, <1>3 DEF IsIn

\* A rune of some paragraphs is in those and one more.
LEMMA IsInAppend ==
  ASSUME NEW ps \in Seq(Paragraph), NEW p \in Paragraph, NEW x
  PROVE  /\ IsIn(x, ps) => IsIn(x, Append(ps, p))
         /\ x \in ToSet(p.text) => IsIn(x, Append(ps, p))
<1> DEFINE rs == Append(ps, p)
<1>1. /\ rs \in Seq(Paragraph) /\ Len(rs) = Len(ps) + 1
      /\ \A i \in 1..Len(ps) : rs[i] = ps[i]
      /\ rs[Len(ps) + 1] = p
  BY AppendProperties
<1>2. Len(ps) \in Nat
  BY Texts
<1> HIDE DEF rs
<1>3. DOMAIN rs = 1..(Len(ps) + 1)
  <2>1. DOMAIN rs = 1..Len(rs)
    BY <1>1, LenProperties
  <2> QED
    BY <1>1, <2>1
<1>4. DOMAIN ps = 1..Len(ps)
  BY LenProperties
<1>5. Len(ps) + 1 \in DOMAIN rs /\ \A i \in DOMAIN ps : i \in DOMAIN rs
  BY <1>2, <1>3, <1>4
<1>6. IsIn(x, ps) => IsIn(x, rs)
  BY <1>1, <1>4, <1>5 DEF IsIn
<1>7. x \in ToSet(p.text) => IsIn(x, rs)
  BY <1>1, <1>5 DEF IsIn
<1> QED
  BY <1>6, <1>7 DEF rs

\* The elements of a sequence and one more.
LEMMA ToSetAppend ==
  ASSUME NEW S, NEW s \in Seq(S), NEW z \in S
  PROVE  ToSet(Append(s, z)) = ToSet(s) \cup {z}
<1> DEFINE r == Append(s, z)
<1>1. /\ r \in Seq(S) /\ Len(r) = Len(s) + 1
      /\ \A i \in 1..Len(s) : r[i] = s[i]
      /\ r[Len(s) + 1] = z
  BY AppendProperties
<1>2. Len(s) \in Nat
  BY Texts
<1> HIDE DEF r
<1>3. DOMAIN r = 1..(Len(s) + 1)
  <2>1. DOMAIN r = 1..Len(r)
    BY <1>1, LenProperties
  <2> QED
    BY <1>1, <2>1
<1>4. DOMAIN s = 1..Len(s)
  BY LenProperties
<1>5. ToSet(s) \subseteq ToSet(r) /\ z \in ToSet(r)
  <2>1. Len(s) + 1 \in DOMAIN r /\ \A i \in DOMAIN s : i \in DOMAIN r
    BY <1>2, <1>3, <1>4
  <2> QED
    BY <1>1, <1>4, <2>1 DEF ToSet
<1>6. ASSUME NEW x \in ToSet(r) PROVE x \in ToSet(s) \cup {z}
  <2>1. PICK i \in DOMAIN r : x = r[i]
    BY DEF ToSet
  <2>2. i \in 1..Len(s) \/ i = Len(s) + 1
    BY <1>2, <1>3
  <2>3. CASE i \in 1..Len(s)
    BY <1>1, <1>4, <2>1, <2>3 DEF ToSet
  <2>4. CASE i = Len(s) + 1
    BY <1>1, <2>1, <2>4
  <2> QED
    BY <2>2, <2>3, <2>4
<1> QED
  BY <1>5, <1>6 DEF r

-----------------------------------------------------------------------------
(* Paragraphs *)

\* The types of the variables.
LEMMA TypesOf ==
  ASSUME ChunkerTypeOK
  PROVE  /\ stage \in Stages /\ document \in Documents /\ text \in Seq(Rune)
         /\ boundaries \in Seq(Boundary) /\ cursor \in Nat
         /\ paragraphs \in Seq(Paragraph) /\ section \in Seq(Paragraph) /\ chunks \in Seq(Chunk)
  BY DEF ChunkerTypeOK, Boundary

\* A round of extractParagraphSpans: the paragraph it finds is the one that follows
\* the last, and the words before the cursor are in paragraphs.
LEMMA ExtractParagraphKeeps ==
  ASSUME ChunkerInv, ExtractParagraph
  PROVE  ChunkerInv'
<1> DEFINE start == FirstFrom(text, cursor, NoSpaces(text))
           end == FirstFrom(text, start, Breaks(text))
           p == ParagraphAt(text, Headings, boundaries, start, end)
<1>1. /\ stage = "paragraphs" /\ start < Len(text)
      /\ paragraphs' = Append(paragraphs, p) /\ cursor' = end + 2
      /\ stage' = stage /\ UNCHANGED <<document, text, boundaries>>
      /\ section' = section /\ chunks' = chunks
  BY DEF ExtractParagraph, ParagraphAt
<1>2. /\ ChunkerTypeOK /\ TextInv /\ StageInv /\ WordsKept /\ ChunksInv
      /\ Consecutive(text, Headings, boundaries, section \o paragraphs)
  BY ChunkerInvIs
<1>3. /\ text \in Seq(Rune) /\ Well(text) /\ boundaries \in Seq(Boundary) /\ Increasing(boundaries)
      /\ cursor \in Nat /\ paragraphs \in Seq(Paragraph) /\ chunks \in Seq(Chunk)
  BY <1>2, TypesOf, TextFacts
<1>4. section = <<>> /\ Consecutive(text, Headings, boundaries, paragraphs)
  <2>1. section = <<>>
    BY <1>1, <1>2 DEF StageInv
  <2>2. section \o paragraphs = paragraphs
    BY <1>3, <2>1, ConcatEmptySeq
  <2> QED
    BY <1>2, <2>1, <2>2
<1>5. paragraphs # <<>> =>
        /\ cursor = EndOf(Last(paragraphs)) + 2
        /\ EndOf(Last(paragraphs)) = Len(text) \/ IsBreak(text, EndOf(Last(paragraphs)))
  BY <1>1, <1>2 DEF StageInv
<1>6. IsCut(text, cursor)
  <2>1. CASE paragraphs = <<>>
    BY <1>1, <1>2, <2>1 DEF StageInv, IsCut
  <2>2. CASE paragraphs # <<>>
    <3>1. Last(paragraphs) = paragraphs[Len(paragraphs)] /\ Len(paragraphs) \in 1..Len(paragraphs)
      BY <1>3, <2>2, Texts DEF Last
    <3>2. Spans(text, paragraphs)
      BY <1>3, <1>4, SpansOf
    <3>3. EndOf(Last(paragraphs)) \in Nat
      BY <1>3, <3>1, <3>2, SpanIs
    <3> QED
      BY <1>5, <2>2, <3>3 DEF IsCut
  <2> QED
    BY <2>1, <2>2
<1> HIDE DEF start, end, p
<1>6a. text \in Seq(Rune) /\ cursor \in Nat /\ Len(text) \in Nat
  BY <1>3, Texts
<1>7. NextParagraph(text, Headings, boundaries, cursor, start, end, p)
  <2>1. /\ start = FirstFrom(text, cursor, NoSpaces(text)) /\ start < Len(text)
        /\ end = FirstFrom(text, start, Breaks(text))
        /\ p = ParagraphAt(text, Headings, boundaries, start, end)
    BY <1>1 DEF start, end, p
  <2>2. Headings \subseteq LineStarts(text)
    BY HeadingsIn
  <2> QED
    BY <1>3, <1>6, <2>1, <2>2, ParagraphCut
<1>7a. start \in Nat /\ end \in Nat /\ cursor <= start /\ start < end
  BY <1>7 DEF NextParagraph
<1>7b. p \in Paragraph
  BY <1>7 DEF NextParagraph
<1>7c. p.start = start /\ EndOf(p) = end /\ ParagraphInv(text, Headings, boundaries, p)
  BY <1>7 DEF NextParagraph
<1>7d. end = Len(text) \/ IsBreak(text, end)
  BY <1>7 DEF NextParagraph
<1>7e. \A i \in cursor..(start - 1) : ClassAt(text, i) = " "
  BY <1>7 DEF NextParagraph
<1>7f. paragraphs \in Seq(Paragraph) /\ cursor' = end + 2
  BY <1>1, <1>3
<1>8. paragraphs # <<>> => Follows(text, paragraphs[Len(paragraphs)], p)
  <2> SUFFICES ASSUME paragraphs # <<>>
               PROVE  Follows(text, paragraphs[Len(paragraphs)], p)
    OBVIOUS
  <2> DEFINE e == EndOf(paragraphs[Len(paragraphs)])
  <2>1. Last(paragraphs) = paragraphs[Len(paragraphs)] /\ Len(paragraphs) \in 1..Len(paragraphs)
    BY <1>3, Texts DEF Last
  <2>2. Spans(text, paragraphs)
    BY <1>3, <1>4, SpansOf
  <2>3. e \in Nat
    BY <1>3, <2>1, <2>2, SpanIs
  <2>4. cursor = e + 2 /\ (e = Len(text) \/ IsBreak(text, e))
    BY <1>5, <2>1
  <2>5. e + 2 <= start /\ e # Len(text)
    <3>1. start < Len(text) /\ Len(text) \in Nat
      BY <1>1, <1>6a
    <3>2. cursor <= start /\ start \in Nat
      BY <1>7a
    <3>3. cursor = e + 2
      BY <2>4
    <3> QED
      BY <2>3, <3>1, <3>2, <3>3
  <2> HIDE DEF e
  <2>6. \A i \in (e + 2)..(start - 1) : ClassAt(text, i) = " "
    BY <1>7e, <2>4
  <2>7. IsBreak(text, e) /\ e + 2 <= p.start /\ \A i \in (e + 2)..(p.start - 1) : ClassAt(text, i) = " "
    BY <1>7c, <2>4, <2>5, <2>6
  <2> QED
    BY <2>7 DEF Follows, e
<1>9. Consecutive(text, Headings, boundaries, Append(paragraphs, p))
  BY <1>3, <1>4, <1>7b, <1>7c, <1>8, ConsecutiveAppend
<1>10. paragraphs' \in Seq(Paragraph) /\ paragraphs' # <<>> /\ Last(paragraphs') = p
  <2>1. /\ Append(paragraphs, p) \in Seq(Paragraph) /\ Append(paragraphs, p) # <<>>
        /\ Len(Append(paragraphs, p)) = Len(paragraphs) + 1
        /\ Append(paragraphs, p)[Len(paragraphs) + 1] = p
    BY <1>7b, <1>7f, AppendProperties
  <2> QED
    BY <1>1, <2>1 DEF Last
<1>11. section' = <<>> /\ section' \o paragraphs' = Append(paragraphs, p)
  <2>1. section' \o paragraphs' = paragraphs'
    BY <1>1, <1>4, <1>10, ConcatEmptySeq
  <2> QED
    BY <1>1, <1>4, <2>1
<1>12. ChunkerTypeOK'
  <2>1. cursor' \in Nat
    BY <1>7a, <1>7f
  <2> QED
    BY <1>1, <1>2, <1>10, <2>1 DEF ChunkerTypeOK
<1>13. StageInv'
  <2>1. stage' = "paragraphs" /\ section' = <<>> /\ paragraphs' # <<>>
    BY <1>1, <1>10, <1>11
  <2>2. EndOf(Last(paragraphs')) = end /\ cursor' = end + 2
    BY <1>1, <1>7c, <1>10
  <2>3. end = Len(text') \/ IsBreak(text', end)
    BY <1>1, <1>7d
  <2> QED
    BY <2>1, <2>2, <2>3 DEF StageInv
<1>14. WordsKept'
  <2> SUFFICES ASSUME ~HasLongToken(text), NEW o \in Offsets(text), IsWordRune(text, o)
               PROVE  IsKept(text[o + 1], o)'
    BY <1>1 DEF WordsKept
  <2> DEFINE x == text[o + 1]
  <2>1. IsKept(x, o)
    BY <1>2 DEF WordsKept
  <2>2. o \in Nat /\ o < Len(text) /\ Len(text) \in Nat
    BY <1>6a DEF Offsets
  <2>3. ~IsSpace(text, o)
    BY Kinds, KindsAt
  <2>4. CASE o < cursor
    <3>1. (\E i \in DOMAIN chunks : x \in ToSet(chunks[i].content)) \/ IsIn(x, paragraphs)
      <4>1. ~(o >= cursor)
        BY <1>6a, <2>2, <2>4
      <4> QED
        BY <1>1, <2>1, <4>1 DEF IsKept
    <3>2. IsIn(x, paragraphs) => IsIn(x, paragraphs')
      BY <1>1, <1>7b, <1>7f, IsInAppend
    <3> QED
      BY <1>1, <3>1, <3>2 DEF IsKept
  <2>5. CASE cursor <= o /\ o < end
    <3>1. start <= o
      <4>1. start = FirstFrom(text, cursor, NoSpaces(text))
        BY DEF start
      <4>2. \A i \in cursor..(Len(text) - 1) : i < start => IsSpace(text, i)
        BY <1>6a, <4>1, FirstNoSpace
      <4>3. o \in cursor..(Len(text) - 1)
        BY <1>6a, <2>2, <2>5
      <4>4. ~(o < start)
        BY <2>3, <4>2, <4>3
      <4> QED
        BY <1>7a, <2>2, <4>4
    <3>2. x \in ToSet(p.text)
      <4> DEFINE m == o - start + 1
      <4>1. p.text \in Seq(Rune) /\ p.text = Slice(text, start, end)
        BY <1>7a, <1>7b, <1>7c DEF Paragraph, ParagraphInv
      <4>2. start \in Nat /\ end \in Nat /\ start <= end
        BY <1>7a
      <4>3. end <= Len(text)
        BY <1>7c DEF ParagraphInv
      <4>4. SliceOf(Slice(text, start, end), text, start, end)
        BY <1>6a, <4>2, <4>3, RunesOfSlice
      <4>5. Len(p.text) = end - start /\ \A i \in 1..(end - start) : p.text[i] = text[start + i]
        BY <4>1, <4>4 DEF SliceOf
      <4>6. m \in 1..(end - start) /\ start + m = o + 1
        BY <2>2, <2>5, <3>1, <4>2
      <4> HIDE DEF m
      <4>7. p.text[m] = x
        BY <4>5, <4>6
      <4>8. DOMAIN p.text = 1..(end - start)
        <5>1. DOMAIN p.text = 1..Len(p.text)
          BY <4>1, LenProperties
        <5> QED
          BY <4>5, <5>1
      <4> QED
        BY <4>6, <4>7, <4>8 DEF ToSet
    <3>3. IsIn(x, paragraphs')
      BY <1>1, <1>7b, <1>7f, <3>2, IsInAppend
    <3> QED
      BY <1>1, <3>3 DEF IsKept
  <2>6. CASE end <= o
    <3>1. IsBreak(text, end)
      <4>1. end # Len(text)
        BY <1>7a, <2>2, <2>6
      <4> QED
        BY <1>7d, <4>1
    <3>2. Break(text[end + 1]) /\ Break(text[(end + 1) + 1])
      BY <3>1, KindsAt DEF IsBreak
    <3>3. ~Break(text[o + 1])
      BY <2>3, Kinds, KindsAt
    <3>4. o # end /\ o # end + 1
      BY <3>2, <3>3
    <3>5. o >= cursor'
      <4>1. end \in Nat
        BY <1>7a
      <4> QED
        BY <1>7f, <2>2, <2>6, <3>4, <4>1
    <3> QED
      BY <1>1, <3>5 DEF IsKept
  <2>7. o < cursor \/ (cursor <= o /\ o < end) \/ end <= o
    <3>1. end \in Nat
      BY <1>7a
    <3> QED
      BY <1>6a, <2>2, <3>1
  <2> QED
    BY <2>4, <2>5, <2>6, <2>7
<1>15. TextInv' /\ ChunksInv' /\ Headings' = Headings
  <2>1. stage # "normalize"
    BY <1>1
  <2> QED
    BY <1>1, <1>2, <2>1, SameText
<1> QED
  BY <1>1, <1>9, <1>11, <1>12, <1>13, <1>14, <1>15, ChunkerInvNext

\* The end of extractParagraphSpans: what is left is whitespace.
LEMMA NoMoreParagraphsKeeps ==
  ASSUME ChunkerInv, NoMoreParagraphs
  PROVE  ChunkerInv'
<1>1. /\ stage = "paragraphs" /\ stage' = "sections"
      /\ UNCHANGED <<document, text, boundaries, cursor, paragraphs, section, chunks>>
  BY DEF NoMoreParagraphs
<1>2. /\ ChunkerTypeOK /\ TextInv /\ StageInv /\ WordsKept /\ ChunksInv
      /\ Consecutive(text, Headings, boundaries, section \o paragraphs)
  BY ChunkerInvIs
<1>3. TextInv' /\ ChunksInv' /\ Headings' = Headings
  BY <1>1, <1>2, SameText
<1>4. ChunkerTypeOK'
  BY <1>1, <1>2 DEF ChunkerTypeOK, Stages
<1>5. StageInv'
  BY <1>1, <1>2 DEF StageInv
<1>6. WordsKept'
  <2> SUFFICES ASSUME ~HasLongToken(text), NEW o \in Offsets(text), IsWordRune(text, o)
               PROVE  IsKept(text[o + 1], o)'
    BY <1>1 DEF WordsKept
  <2>1. IsKept(text[o + 1], o)
    BY <1>2 DEF WordsKept
  <2>2. ~(o >= cursor)
    <3>1. text \in Seq(Rune) /\ cursor \in Nat /\ Len(text) \in Nat
      BY <1>2, TypesOf, Texts
    <3>2. Len(text) = FirstFrom(text, cursor, NoSpaces(text))
      BY DEF NoMoreParagraphs
    <3>3. \A i \in cursor..(Len(text) - 1) : i < Len(text) => IsSpace(text, i)
      BY <3>1, <3>2, FirstNoSpace
    <3>4. ~IsSpace(text, o)
      BY Kinds, KindsAt
    <3>5. o \in Nat /\ o < Len(text)
      BY <3>1 DEF Offsets
    <3>6. ASSUME o >= cursor PROVE o \in cursor..(Len(text) - 1)
      BY <3>1, <3>5, <3>6
    <3> QED
      BY <3>3, <3>4, <3>5, <3>6
  <2> QED
    BY <1>1, <2>1, <2>2 DEF IsKept
<1> QED
  BY <1>1, <1>2, <1>3, <1>4, <1>5, <1>6, ChunkerInvNext

-----------------------------------------------------------------------------
(* Sections *)

\* Moving the head of one sequence to the end of another.
LEMMA HeadMoves ==
  ASSUME NEW S, NEW s \in Seq(S), NEW t \in Seq(S), t # <<>>
  PROVE  /\ Head(t) \in S /\ Tail(t) \in Seq(S)
         /\ Append(s, Head(t)) \in Seq(S)
         /\ Append(s, Head(t)) \o Tail(t) = s \o t
<1>1. Len(t) \in Nat /\ Len(t) > 0 /\ Len(s) \in Nat
  BY Texts
<1>2. /\ Head(t) = t[1] /\ Head(t) \in S /\ Tail(t) \in Seq(S) /\ Len(Tail(t)) = Len(t) - 1
      /\ \A i \in 1..(Len(t) - 1) : Tail(t)[i] = t[i + 1]
  BY <1>1, HeadTailProperties, Texts
<1> DEFINE h == Head(t)
           r == Tail(t)
           q == Append(s, h)
<1>3. q \in Seq(S) /\ Len(q) = Len(s) + 1 /\ (\A i \in 1..Len(s) : q[i] = s[i]) /\ q[Len(s) + 1] = h
  BY <1>2, AppendProperties
<1>4. h = t[1] /\ r \in Seq(S) /\ Len(r) = Len(t) - 1 /\ \A i \in 1..(Len(t) - 1) : r[i] = t[i + 1]
  BY <1>2
<1> HIDE DEF q, h, r
<1>5. /\ q \o r \in Seq(S) /\ Len(q \o r) = Len(q) + Len(r)
      /\ \A i \in 1..Len(q) : (q \o r)[i] = q[i]
      /\ \A i \in 1..Len(r) : (q \o r)[Len(q) + i] = r[i]
  <2>1. q \in Seq(S) /\ r \in Seq(S)
    BY <1>3, <1>4
  <2> QED
    BY <2>1, ConcatIs
<1>6. /\ s \o t \in Seq(S) /\ Len(s \o t) = Len(s) + Len(t)
      /\ \A i \in 1..Len(s) : (s \o t)[i] = s[i]
      /\ \A i \in 1..Len(t) : (s \o t)[Len(s) + i] = t[i]
  BY ConcatIs
<1>7. Len(q \o r) = Len(s \o t) /\ Len(s \o t) = Len(s) + Len(t)
  BY <1>1, <1>3, <1>4, <1>5, <1>6
<1>8. ASSUME NEW i \in 1..(Len(s) + Len(t)) PROVE (q \o r)[i] = (s \o t)[i]
  <2>1. CASE i <= Len(s)
    BY <1>1, <1>3, <1>5, <1>6, <2>1
  <2>2. CASE i = Len(s) + 1
    <3>1. (q \o r)[i] = h
      BY <1>1, <1>3, <1>5, <2>2
    <3>2. (s \o t)[i] = t[1]
      BY <1>1, <1>6, <2>2
    <3> QED
      BY <1>4, <3>1, <3>2
  <2>3. CASE i > Len(s) + 1
    <3> DEFINE j == i - (Len(s) + 1)
    <3>1. j \in 1..(Len(t) - 1) /\ Len(q) + j = i /\ j + 1 \in 1..Len(t) /\ Len(s) + (j + 1) = i
      BY <1>1, <1>3, <2>3
    <3> HIDE DEF j
    <3>2. (q \o r)[Len(q) + j] = r[j]
      BY <1>4, <1>5, <3>1
    <3>3. (s \o t)[Len(s) + (j + 1)] = t[j + 1]
      BY <1>6, <3>1
    <3> QED
      BY <1>4, <3>1, <3>2, <3>3
  <2>4. i <= Len(s) \/ i = Len(s) + 1 \/ i > Len(s) + 1
    BY <1>1
  <2> QED
    BY <2>1, <2>2, <2>3, <2>4
<1>9. q \o r = s \o t
  BY <1>5, <1>6, <1>7, <1>8, SeqEqual
<1> QED
  BY <1>2, <1>3, <1>9 DEF q, h, r

\* A rune of some paragraphs is in the first or in the others.
LEMMA IsInHead ==
  ASSUME NEW ps \in Seq(Paragraph), ps # <<>>, NEW x, IsIn(x, ps)
  PROVE  x \in ToSet(Head(ps).text) \/ IsIn(x, Tail(ps))
<1>1. Len(ps) \in Nat /\ Len(ps) > 0 /\ DOMAIN ps = 1..Len(ps)
  BY Texts
<1>2. /\ Head(ps) = ps[1] /\ Tail(ps) \in Seq(Paragraph) /\ Len(Tail(ps)) = Len(ps) - 1
      /\ \A i \in 1..(Len(ps) - 1) : Tail(ps)[i] = ps[i + 1]
  BY <1>1, HeadTailProperties, Texts
<1>3. DOMAIN Tail(ps) = 1..(Len(ps) - 1)
  <2>1. DOMAIN Tail(ps) = 1..Len(Tail(ps))
    BY <1>2, LenProperties
  <2> QED
    BY <1>2, <2>1
<1>4. PICK i \in DOMAIN ps : x \in ToSet(ps[i].text)
  BY DEF IsIn
<1>5. CASE i = 1
  BY <1>2, <1>4, <1>5
<1>6. CASE i # 1
  <2> DEFINE j == i - 1
  <2>1. j \in 1..(Len(ps) - 1) /\ j + 1 = i
    BY <1>1, <1>6
  <2> HIDE DEF j
  <2>2. j \in DOMAIN Tail(ps) /\ Tail(ps)[j] = ps[i]
    BY <1>2, <1>3, <2>1
  <2> QED
    BY <1>4, <2>2 DEF IsIn
<1> QED
  BY <1>5, <1>6

\* A paragraph moves to the section: together they are what they were.
LEMMA AddParagraphKeeps ==
  ASSUME ChunkerInv, AddParagraph
  PROVE  ChunkerInv'
<1> DEFINE h == Head(paragraphs)
<1>1. /\ stage = "sections" /\ stage' = stage /\ paragraphs # <<>> /\ ~SectionEnds(h)
      /\ section' = Append(section, h) /\ paragraphs' = Tail(paragraphs)
      /\ UNCHANGED <<document, text, boundaries, cursor, chunks>>
  BY DEF AddParagraph
<1>2. /\ ChunkerTypeOK /\ TextInv /\ StageInv /\ WordsKept /\ ChunksInv
      /\ Consecutive(text, Headings, boundaries, section \o paragraphs)
  BY ChunkerInvIs
<1>3. TextInv' /\ ChunksInv' /\ Headings' = Headings
  BY <1>1, <1>2, SameText
<1>4. section \in Seq(Paragraph) /\ paragraphs \in Seq(Paragraph)
  BY <1>2, TypesOf
<1>5. /\ h \in Paragraph /\ section' \in Seq(Paragraph) /\ paragraphs' \in Seq(Paragraph)
      /\ section' \o paragraphs' = section \o paragraphs
  BY <1>1, <1>4, HeadMoves
<1>6. ChunkerTypeOK'
  BY <1>1, <1>2, <1>5 DEF ChunkerTypeOK
<1>7. Consecutive(text', Headings', boundaries', section' \o paragraphs')
  BY <1>1, <1>2, <1>3, <1>5
<1> HIDE DEF h
<1>8. \A i \in DOMAIN section' : section'[i].heading = Head(section').heading
  <2>1. /\ Len(section') = Len(section) + 1
        /\ \A i \in 1..Len(section) : section'[i] = section[i]
        /\ section'[Len(section) + 1] = h
    BY <1>1, <1>4, <1>5, AppendProperties
  <2>2. Len(section) \in Nat /\ DOMAIN section = 1..Len(section) /\ (section = <<>> <=> Len(section) = 0)
    BY <1>4, Texts
  <2>3. DOMAIN section' = 1..(Len(section) + 1)
    <3>1. DOMAIN section' = 1..Len(section')
      BY <1>5, LenProperties
    <3> QED
      BY <2>1, <3>1
  <2>4. Head(section') = section'[1]
    OBVIOUS
  <2>5. CASE section = <<>>
    BY <2>1, <2>2, <2>3, <2>4, <2>5
  <2>6. CASE section # <<>>
    <3>1. Head(section) = section[1] /\ Head(section') = Head(section)
      BY <2>1, <2>2, <2>4, <2>6
    <3>2. \A i \in 1..Len(section) : section[i].heading = Head(section).heading
      BY <1>2, <2>2 DEF StageInv
    <3>3. Head(section).heading = h.heading
      BY <1>1, <2>6 DEF SectionEnds
    <3>4. ASSUME NEW i \in 1..(Len(section) + 1) PROVE section'[i].heading = Head(section').heading
      <4>1. i \in 1..Len(section) \/ i = Len(section) + 1
        BY <2>2
      <4> QED
        BY <2>1, <3>1, <3>2, <3>3, <4>1
    <3> QED
      BY <2>3, <3>4
  <2> QED
    BY <2>5, <2>6
<1>9. StageInv'
  BY <1>1, <1>8 DEF StageInv
<1>10. WordsKept'
  <2> SUFFICES ASSUME ~HasLongToken(text), NEW o \in Offsets(text), IsWordRune(text, o)
               PROVE  IsKept(text[o + 1], o)'
    BY <1>1 DEF WordsKept
  <2> DEFINE x == text[o + 1]
  <2>1. IsKept(x, o)
    BY <1>2 DEF WordsKept
  <2> HIDE DEF x
  <2>2. \/ \E i \in DOMAIN chunks : x \in ToSet(chunks[i].content)
        \/ IsIn(x, paragraphs) \/ IsIn(x, section)
    BY <1>1, <2>1 DEF IsKept
  <2>3. IsIn(x, paragraphs) => IsIn(x, section') \/ IsIn(x, paragraphs')
    <3>1. IsIn(x, paragraphs) => x \in ToSet(h.text) \/ IsIn(x, paragraphs')
      BY <1>1, <1>4, IsInHead DEF h
    <3>2. x \in ToSet(h.text) => IsIn(x, section')
      BY <1>1, <1>4, <1>5, IsInAppend
    <3> QED
      BY <3>1, <3>2
  <2>4. IsIn(x, section) => IsIn(x, section')
    BY <1>1, <1>4, <1>5, IsInAppend
  <2>5. \/ \E i \in DOMAIN chunks' : x \in ToSet(chunks'[i].content)
        \/ IsIn(x, paragraphs') \/ (stage' = "sections" /\ IsIn(x, section'))
    BY <1>1, <2>2, <2>3, <2>4
  <2>6. x = text'[o + 1]
    BY <1>1 DEF x
  <2>7. text[o + 1] = x
    BY DEF x
  <2> QED
    BY <1>1, <2>5, <2>7 DEF IsKept
<1> QED
  BY <1>3, <1>6, <1>7, <1>9, <1>10, ChunkerInvNext

\* The content of the current section.
LEMMA SectionIs ==
  ASSUME ChunkerInv, section # <<>>
  PROVE  /\ ContentOf(text, Headings, boundaries, section, Section.content)
         /\ Spans(text, section) /\ Len(section) > 0
         /\ Section.content \in Seq(Rune) /\ Len(Section.content) \in Nat
         /\ Len(Section.content) > 0
<1>1. /\ ChunkerTypeOK /\ TextInv
      /\ Consecutive(text, Headings, boundaries, section \o paragraphs)
  BY ChunkerInvIs
<1>2. text \in Seq(Rune) /\ section \in Seq(Paragraph) /\ paragraphs \in Seq(Paragraph)
  BY <1>1, TypesOf
<1>3. Consecutive(text, Headings, boundaries, section)
  BY <1>1, <1>2, ConsecutiveParts
<1>4. Spans(text, section)
  BY <1>2, <1>3, SpansOf
<1>5. Len(section) > 0
  BY <1>2, Texts
<1>6. Section.content = JoinWith(TextsOf(section), BlankLine)
  BY DEF Section
<1>7. ContentOf(text, Headings, boundaries, section, Section.content)
  <2>1. Headings \subseteq LineStarts(text)
    BY HeadingsIn
  <2>2. /\ text \in Seq(Rune) /\ Well(text) /\ InOrder(text)
        /\ boundaries \in Seq(Boundary) /\ Increasing(boundaries) /\ PagesRight(text, boundaries)
    BY <1>1, TextFacts
  <2> QED
    BY <1>2, <1>3, <1>5, <1>6, <2>1, <2>2, SectionContent
<1>8. Section.content \in Seq(Rune) /\ Len(Section.content) > 0
  BY <1>7 DEF ContentOf
<1> QED
  BY <1>4, <1>5, <1>7, <1>8, Texts

\* It depends on the section alone.
LEMMA SectionSame ==
  ASSUME UNCHANGED section
  PROVE  Section' = Section
  BY DEF Section

\* A section is closed: its words are in its content, from offset 0 on.
LEMMA CloseSectionKeeps ==
  ASSUME ChunkerInv, CloseSection
  PROVE  ChunkerInv'
<1>1. /\ stage = "sections" /\ stage' = "chunks" /\ section # <<>> /\ cursor' = 0
      /\ UNCHANGED <<document, text, boundaries, paragraphs, section, chunks>>
  BY DEF CloseSection
<1>2. /\ ChunkerTypeOK /\ TextInv /\ StageInv /\ WordsKept /\ ChunksInv
      /\ Consecutive(text, Headings, boundaries, section \o paragraphs)
  BY ChunkerInvIs
<1>3. TextInv' /\ ChunksInv' /\ Headings' = Headings
  BY <1>1, <1>2, SameText
<1>4. ChunkerTypeOK'
  BY <1>1, <1>2 DEF ChunkerTypeOK, Stages
<1>5. Section' = Section
  BY <1>1, SectionSame
<1> DEFINE c == Section.content
<1>6. /\ ContentOf(text, Headings, boundaries, section, c)
      /\ c \in Seq(Rune) /\ Len(c) \in Nat /\ Len(c) > 0
  BY <1>1, SectionIs
<1>7. StageInv'
  <2>1. cursor' < Len(Section'.content)
    BY <1>1, <1>5, <1>6
  <2>2. \A i \in DOMAIN section' : section'[i].heading = Head(section').heading
    BY <1>1, <1>2 DEF StageInv
  <2> QED
    BY <1>1, <2>1, <2>2 DEF StageInv
<1> HIDE DEF c
<1>8. WordsKept'
  <2> SUFFICES ASSUME ~HasLongToken(text), NEW o \in Offsets(text), IsWordRune(text, o)
               PROVE  IsKept(text[o + 1], o)'
    BY <1>1 DEF WordsKept
  <2> DEFINE x == text[o + 1]
  <2>1. IsKept(x, o)
    BY <1>2 DEF WordsKept
  <2> HIDE DEF x
  <2>2. \/ \E i \in DOMAIN chunks : x \in ToSet(chunks[i].content)
        \/ IsIn(x, paragraphs) \/ IsIn(x, section)
    BY <1>1, <2>1 DEF IsKept
  <2>3. IsIn(x, section) => \E k \in Offsets(c) : k >= 0 /\ c[k + 1] = x
    <3> SUFFICES ASSUME IsIn(x, section)
                 PROVE  \E k \in Offsets(c) : k >= 0 /\ c[k + 1] = x
      OBVIOUS
    <3>1. section \in Seq(Paragraph)
      BY <1>2, TypesOf
    <3>1a. PICK i \in 1..Len(section) : \E m \in 1..Len(section[i].text) : section[i].text[m] = x
      BY <3>1, IsInIs
    <3>2. PICK m \in 1..Len(section[i].text) : section[i].text[m] = x
      BY <3>1a
    <3>3. PICK k \in 1..Len(c) : c[k] = section[i].text[m]
      BY <1>6 DEF ContentOf
    <3> DEFINE j == k - 1
    <3>4. j \in Offsets(c) /\ j >= 0 /\ j + 1 = k
      BY <1>6 DEF Offsets
    <3> HIDE DEF j
    <3> QED
      BY <3>2, <3>3, <3>4
  <2>4. \/ \E i \in DOMAIN chunks : x \in ToSet(chunks[i].content)
        \/ IsIn(x, paragraphs) \/ \E k \in Offsets(c) : k >= cursor' /\ c[k + 1] = x
    BY <1>1, <2>2, <2>3
  <2>5. text[o + 1] = x /\ Section'.content = c
    BY <1>5 DEF x, c
  <2> QED
    BY <1>1, <2>4, <2>5 DEF IsKept
<1> QED
  BY <1>1, <1>2, <1>3, <1>4, <1>7, <1>8, ChunkerInvNext

\* The chunk that is cut from a section.
ChunkAt(from, end) ==
  [content |-> TrimSpace(Slice(Section.content, from, end)),
   start |-> Section.start + from, end |-> Section.start + end,
   heading |-> Section.heading, page |-> Section.page, pageEnd |-> Section.pageEnd]

\* The chunk of the current section between two offsets, by ChunkIs.
LEMMA ChunkAtIs ==
  ASSUME ChunkerInv, section # <<>>, NEW from \in Nat, NEW end \in Nat,
         from < end, end <= Len(Section.content), NEW z, z = ChunkAt(from, end)
  PROVE  /\ z \in Chunk
         /\ ChunkOK(text, Headings, boundaries, z)
         /\ \A k \in from..(end - 1) : Letter(Section.content[k + 1]) =>
              Section.content[k + 1] \in ToSet(z.content)
<1> DEFINE c == Section.content
           x == TrimSpace(Slice(c, from, end))
           n == Len(section)
<1>1. section \in Seq(Paragraph) /\ StageInv /\ text \in Seq(Rune)
  BY ChunkerInvIs, TypesOf
<1>2. ContentOf(text, Headings, boundaries, section, c) /\ Spans(text, section) /\ Len(section) > 0
  BY SectionIs
<1>3. ChunkOf(text, Headings, boundaries, section, c, from, end, x)
  <2>1. end <= Len(c)
    OBVIOUS
  <2> HIDE DEF c
  <2> QED
    BY <1>1, <1>2, <2>1, ChunkIs
<1>4. n \in Nat /\ n > 0 /\ DOMAIN section = 1..n /\ Head(section) = section[1]
      /\ Last(section) = section[n]
  BY <1>1, <1>2, Texts DEF Last
<1>4a. 1 \in DOMAIN section /\ n \in DOMAIN section
  <2> HIDE DEF n
  <2> QED
    BY <1>4
<1>5. section[1] \in Paragraph /\ section[n] \in Paragraph
  BY <1>1, <1>4a, ElementOfSeq
<1>6. /\ Section.start = section[1].start /\ Section.heading = section[n].heading
      /\ Section.page = section[1].startPage /\ Section.pageEnd = section[n].endPage
  BY <1>4 DEF Section
<1>7. /\ Section.start \in Nat /\ Section.heading \in Int
      /\ Section.page \in Nat /\ Section.pageEnd \in Nat
  BY <1>5, <1>6 DEF Paragraph
<1>8. \A i \in DOMAIN section : section[i].heading = Section.heading
  <2>1. \A i \in DOMAIN section : section[i].heading = Head(section).heading
    BY <1>1 DEF StageInv
  <2>2. section[n].heading = Head(section).heading
    BY <1>4a, <2>1
  <2> QED
    BY <1>6, <2>1, <2>2
<1>9. /\ z.content = x /\ z.start = Section.start + from /\ z.end = Section.start + end
      /\ z.heading = Section.heading /\ z.page = Section.page /\ z.pageEnd = Section.pageEnd
  BY DEF ChunkAt
<1> HIDE DEF x
<1>10. /\ x \in Seq(Rune) /\ InOrder(x)
       /\ boundaries # <<>> => \A i \in DOMAIN x : x[i].at # Nowhere =>
            section[1].startPage <= x[i].at[1] /\ x[i].at[1] <= section[n].endPage
       /\ ~Indented(text) =>
            TrimSpace(Slice(text, section[1].start + from, section[1].start + end)) = x
       /\ \A i \in DOMAIN x : \A o \in Offsets(text) :
            x[i].at # Nowhere /\ x[i] = text[o + 1] =>
              \E j \in 1..n : HeadingForOffset(Headings, ParagraphStart(text, o)) = section[j].heading
       /\ \A k \in from..(end - 1) : Letter(c[k + 1]) => c[k + 1] \in ToSet(x)
  BY <1>3 DEF ChunkOf
<1> HIDE DEF n
<1>11. z \in Chunk
  <2>1. z = [content |-> z.content, start |-> z.start, end |-> z.end,
             heading |-> z.heading, page |-> z.page, pageEnd |-> z.pageEnd]
    BY DEF ChunkAt
  <2>2. z.start \in Nat /\ z.end \in Nat
    BY <1>7, <1>9
  <2>3. z.content \in Seq(Rune) /\ z.heading \in Int /\ z.page \in Nat /\ z.pageEnd \in Nat
    BY <1>7, <1>9, <1>10
  <2> QED
    BY <2>1, <2>2, <2>3 DEF Chunk
<1>12. ChunkOK(text, Headings, boundaries, z)
  <2>1. InOrder(z.content)
    BY <1>9, <1>10
  <2>2. ASSUME Len(boundaries) > 0, NEW i \in PlacesIn(z)
        PROVE  z.page <= z.content[i].at[1] /\ z.content[i].at[1] <= z.pageEnd
    <3>1. boundaries # <<>>
      <4>1. boundaries \in Seq(Boundary)
        BY ChunkerInvIs, TypesOf
      <4> QED
        BY <2>2, <4>1, Texts
    <3>2. i \in DOMAIN x /\ x[i].at # Nowhere
      BY <1>9 DEF PlacesIn
    <3> QED
      BY <1>6, <1>9, <1>10, <3>1, <3>2
  <2>3. ~Indented(text) => TrimSpace(Slice(text, z.start, z.end)) = z.content
    BY <1>6, <1>9, <1>10
  <2>4. ASSUME NEW o \in Offsets(text), NEW i \in PlacesIn(z), z.content[i] = text[o + 1]
        PROVE  z.heading = HeadingForOffset(Headings, ParagraphStart(text, o))
    <3>1. i \in DOMAIN x /\ x[i].at # Nowhere /\ x[i] = text[o + 1]
      BY <1>9, <2>4 DEF PlacesIn
    <3>2. PICK j \in 1..n : HeadingForOffset(Headings, ParagraphStart(text, o)) = section[j].heading
      BY <1>10, <3>1
    <3> QED
      BY <1>4, <1>8, <1>9, <3>2
  <2> QED
    BY <2>1, <2>2, <2>3, <2>4 DEF ChunkOK
<1> QED
  BY <1>9, <1>10, <1>11, <1>12

\* What is kept when a chunk is cut: the chunk has the letters up to its end,
\* and the next one begins before any other letter, or a token was too long.
LEMMA CutChunkLoses ==
  ASSUME ChunkerInv, section # <<>>, NEW from \in Nat, from < Len(Section.content),
         NEW end, end = ChunkEnd(Section.content, from),
         NEW next, next = NextStart(Section.content, from, end),
         ~HasLongToken(text), NEW z, z = ChunkAt(from, end),
         NEW k \in Offsets(Section.content), k >= from, Letter(Section.content[k + 1])
  PROVE  \/ Section.content[k + 1] \in ToSet(z.content)
         \/ end # Len(Section.content) /\ next < Len(Section.content) /\ k >= next
<1> DEFINE c == Section.content
<1>1. /\ ContentOf(text, Headings, boundaries, section, c)
      /\ c \in Seq(Rune) /\ Len(c) \in Nat /\ Len(c) > 0
  BY SectionIs
<1>2. from < Len(c) /\ end = ChunkEnd(c, from) /\ next = NextStart(c, from, end)
      /\ k \in Offsets(c) /\ Letter(c[k + 1])
  OBVIOUS
<1> HIDE DEF c
<1>3. IsEnd(c, from, end)
  BY <1>1, <1>2, ConstantsFit, ChunkEndIs
<1>4. end \in Nat /\ from < end /\ end <= Len(c)
  BY <1>3 DEF IsEnd
<1>5. k \in Nat /\ k < Len(c)
  BY <1>1, <1>2 DEF Offsets
<1>6. CASE k < end
  <2>1. k \in from..(end - 1)
    BY <1>4, <1>5, <1>6
  <2>2. \A m \in from..(end - 1) : Letter(c[m + 1]) => c[m + 1] \in ToSet(z.content)
    BY <1>4, ChunkAtIs DEF c
  <2> QED
    BY <1>2, <2>1, <2>2 DEF c
<1>7. CASE k >= end
  <2>1. end # Len(c)
    BY <1>1, <1>4, <1>5, <1>7
  <2>2. /\ next \in Nat
        /\ \A m \in Offsets(c) : IsWordRune(c, m) /\ end <= m /\ m < next => HasLongToken(c)
    BY <1>1, <1>2, <1>3, <2>1, ConstantsFit, NextStartIs
  <2>3. ~HasLongToken(c)
    BY <1>1, ConstantsFit DEF ContentOf, Fits
  <2>4. IsWordRune(c, k)
    BY <1>2, KindsAt
  <2>5. ~(end <= k /\ k < next)
    BY <1>2, <2>2, <2>3, <2>4
  <2>6. k >= next /\ next < Len(c)
    BY <1>1, <1>4, <1>5, <1>7, <2>2, <2>5
  <2> QED
    BY <2>1, <2>6 DEF c
<1> QED
  BY <1>4, <1>5, <1>6, <1>7

\* A round of buildChildChunksForSection: a new chunk has the words between its
\* offsets, and CutChunkLoses says that none is between it and the next.
LEMMA CutChunkKeeps ==
  ASSUME ChunkerInv, CutChunk
  PROVE  ChunkerInv'
<1> DEFINE c == Section.content
           end == ChunkEnd(c, cursor)
           next == NextStart(c, cursor, end)
           z == ChunkAt(cursor, end)
           last == end = Len(c) \/ next >= Len(c)
<1>1. /\ stage = "chunks" /\ chunks' = Append(chunks, z)
      /\ last => /\ section' = <<>> /\ stage' = IF paragraphs = <<>> THEN "done" ELSE "sections"
                 /\ cursor' = 0
      /\ ~last => cursor' = next /\ stage' = stage /\ section' = section
      /\ UNCHANGED <<document, text, boundaries, paragraphs>>
  BY DEF CutChunk, ChunkAt
<1>2. /\ ChunkerTypeOK /\ TextInv /\ StageInv /\ WordsKept /\ ChunksInv
      /\ Consecutive(text, Headings, boundaries, section \o paragraphs)
  BY ChunkerInvIs
<1>3. /\ section # <<>> /\ cursor < Len(c)
      /\ \A i \in DOMAIN section : section[i].heading = Head(section).heading
  BY <1>1, <1>2 DEF StageInv
<1>4. /\ cursor \in Nat /\ chunks \in Seq(Chunk) /\ section \in Seq(Paragraph)
      /\ paragraphs \in Seq(Paragraph)
  BY <1>2, TypesOf
<1>5. c \in Seq(Rune) /\ Len(c) \in Nat
  BY <1>3, SectionIs
<1>6. IsEnd(c, cursor, end)
  <2> HIDE DEF c
  <2> QED
    BY <1>3, <1>4, <1>5, ConstantsFit, ChunkEndIs
<1>7. end \in Nat /\ cursor < end /\ end <= Len(c)
  BY <1>6 DEF IsEnd
<1>8. end # Len(c) => next \in Nat
  <2> HIDE DEF c, end
  <2> QED
    BY <1>4, <1>5, <1>6, ConstantsFit, NextStartIs
<1>9. z \in Chunk /\ ChunkOK(text, Headings, boundaries, z)
  <2> HIDE DEF end, z
  <2>1. z = ChunkAt(cursor, end)
    BY DEF z
  <2> QED
    BY <1>3, <1>4, <1>7, <2>1, ChunkAtIs
<1>10. ASSUME ~HasLongToken(text), NEW k \in Offsets(c), k >= cursor, Letter(c[k + 1])
       PROVE  c[k + 1] \in ToSet(z.content) \/ (~last /\ k >= next)
  <2>1. \/ c[k + 1] \in ToSet(z.content)
        \/ end # Len(c) /\ next < Len(c) /\ k >= next
    <3>1. /\ section # <<>> /\ cursor \in Nat /\ cursor < Len(Section.content)
          /\ end = ChunkEnd(Section.content, cursor)
          /\ next = NextStart(Section.content, cursor, end) /\ z = ChunkAt(cursor, end)
          /\ k \in Offsets(Section.content) /\ k >= cursor /\ Letter(Section.content[k + 1])
          /\ ~HasLongToken(text) /\ ChunkerInv
      BY <1>3, <1>4, <1>10
    <3> HIDE DEF end, next, z
    <3>2. \/ Section.content[k + 1] \in ToSet(z.content)
          \/ end # Len(Section.content) /\ next < Len(Section.content) /\ k >= next
      BY <3>1, CutChunkLoses
    <3> QED
      BY <3>2
  <2>2. end # Len(c) /\ next < Len(c) => ~(next >= Len(c))
    <3> HIDE DEF c, end, next
    <3> QED
      BY <1>5, <1>8
  <2> QED
    BY <2>1, <2>2
<1> HIDE DEF c, end, next, z
<1>11. cursor' \in Nat
  BY <1>1, <1>8
<1>12. /\ chunks' \in Seq(Chunk) /\ ToSet(chunks') = ToSet(chunks) \cup {z}
       /\ Len(chunks') = Len(chunks) + 1 /\ chunks'[Len(chunks) + 1] = z
       /\ \A i \in 1..Len(chunks) : chunks'[i] = chunks[i]
  BY <1>1, <1>4, <1>9, AppendProperties, ToSetAppend
<1>13. TextInv' /\ Headings' = Headings
  BY <1>1, <1>2, SameText
<1>14. ChunksInv'
  <2>1. \A y \in ToSet(chunks) : ChunkOK(text, Headings, boundaries, y)
    BY <1>2, ChunksInvIs
  <2>2. \A y \in ToSet(chunks') : ChunkOK(text, Headings, boundaries, y)
    BY <1>9, <1>12, <2>1
  <2>3. text' = text /\ boundaries' = boundaries
    BY <1>1
  <2> QED
    BY <1>13, <2>2, <2>3, ChunksInvNext
<1>15. ChunkerTypeOK'
  <2>1. stage' \in Stages
    BY <1>1, <1>2 DEF ChunkerTypeOK, Stages
  <2>2. section' \in Seq(Paragraph)
    <3> HIDE DEF last
    <3>1. section' = <<>> \/ section' = section
      BY <1>1
    <3> QED
      BY <1>4, <3>1, EmptySeq
  <2> QED
    BY <1>1, <1>2, <1>11, <1>12, <2>1, <2>2 DEF ChunkerTypeOK
<1>16. Consecutive(text', Headings', boundaries', section' \o paragraphs')
  <2>1. CASE last
    <3>1. section' \o paragraphs' = paragraphs
      BY <1>1, <1>4, <2>1, ConcatEmptySeq
    <3>2. Consecutive(text, Headings, boundaries, paragraphs)
      BY <1>2, <1>4, ConsecutiveParts
    <3> QED
      BY <1>1, <1>13, <3>1, <3>2
  <2>2. CASE ~last
    BY <1>1, <1>2, <1>13, <2>2
  <2> QED
    BY <2>1, <2>2
<1>17. ~last => Section'.content = c
  BY <1>1, SectionSame DEF c
<1>18. ~last => next < Len(c)
  BY <1>5, <1>8
<1>19. StageInv'
  <2>1. CASE last
    BY <1>1, <2>1 DEF StageInv
  <2>2. CASE ~last
    <3>1. section' # <<>> /\ cursor' < Len(Section'.content)
      BY <1>1, <1>3, <1>17, <1>18, <2>2
    <3> QED
      BY <1>1, <1>3, <2>2, <3>1 DEF StageInv
  <2> QED
    BY <2>1, <2>2
<1>20. WordsKept'
  <2> SUFFICES ASSUME ~HasLongToken(text), NEW o \in Offsets(text), IsWordRune(text, o)
               PROVE  IsKept(text[o + 1], o)'
    BY <1>1 DEF WordsKept
  <2> DEFINE x == text[o + 1]
  <2>1. IsKept(x, o)
    BY <1>2 DEF WordsKept
  <2>1a. Letter(x)
    BY KindsAt
  <2> HIDE DEF x
  <2>2. \/ \E i \in DOMAIN chunks : x \in ToSet(chunks[i].content)
        \/ IsIn(x, paragraphs) \/ \E k \in Offsets(c) : k >= cursor /\ c[k + 1] = x
    BY <1>1, <2>1 DEF IsKept, c
  <2>3. Len(chunks) \in Nat /\ DOMAIN chunks = 1..Len(chunks)
    BY <1>4, Texts
  <2>4. DOMAIN chunks' = 1..(Len(chunks) + 1)
    <3>1. DOMAIN chunks' = 1..Len(chunks')
      BY <1>12, LenProperties
    <3> QED
      BY <1>12, <3>1
  <2>5. Len(chunks) + 1 \in DOMAIN chunks' /\ \A i \in DOMAIN chunks : i \in DOMAIN chunks'
    BY <2>3, <2>4
  <2>6. (\E i \in DOMAIN chunks : x \in ToSet(chunks[i].content))
          => \E i \in DOMAIN chunks' : x \in ToSet(chunks'[i].content)
    BY <1>12, <2>3, <2>5
  <2>7. (\E k \in Offsets(c) : k >= cursor /\ c[k + 1] = x)
          => \/ \E i \in DOMAIN chunks' : x \in ToSet(chunks'[i].content)
             \/ ~last /\ \E k \in Offsets(c) : k >= next /\ c[k + 1] = x
    <3> SUFFICES ASSUME NEW k \in Offsets(c), k >= cursor, c[k + 1] = x
                 PROVE  \/ \E i \in DOMAIN chunks' : x \in ToSet(chunks'[i].content)
                        \/ ~last /\ \E m \in Offsets(c) : m >= next /\ c[m + 1] = x
      OBVIOUS
    <3>1. x \in ToSet(z.content) \/ (~last /\ k >= next)
      BY <1>10, <2>1a
    <3> HIDE DEF last
    <3>2. x \in ToSet(z.content) => \E i \in DOMAIN chunks' : x \in ToSet(chunks'[i].content)
      BY <1>12, <2>5
    <3> QED
      BY <3>1, <3>2
  <2> HIDE DEF last
  <2>8. \/ \E i \in DOMAIN chunks' : x \in ToSet(chunks'[i].content)
        \/ IsIn(x, paragraphs')
        \/ (stage' = "chunks" /\ \E k \in Offsets(Section'.content) :
              k >= cursor' /\ Section'.content[k + 1] = x)
    <3>1. IsIn(x, paragraphs) <=> IsIn(x, paragraphs')
      BY <1>1
    <3>2. ~last => stage' = "chunks" /\ cursor' = next /\ Section'.content = c
      BY <1>1, <1>17
    <3>3. (~last /\ \E k \in Offsets(c) : k >= next /\ c[k + 1] = x)
            => (stage' = "chunks" /\ \E k \in Offsets(Section'.content) :
                  k >= cursor' /\ Section'.content[k + 1] = x)
      BY <3>2
    <3> QED
      BY <2>2, <2>6, <2>7, <3>1, <3>3
  <2>9. text[o + 1] = x
    BY DEF x
  <2> QED
    BY <1>1, <2>8, <2>9 DEF IsKept
<1> QED
  BY <1>13, <1>14, <1>15, <1>16, <1>19, <1>20, ChunkerInvNext

-----------------------------------------------------------------------------
(* Lines of a page *)

\* u has the letters of line, in their places, and no other placed runes.
Keeps(S, u, line) ==
  /\ u \in Seq(S)
  /\ InOrder(line) => InOrder(u)
  /\ \A i \in DOMAIN u : u[i].at # Nowhere => \E j \in DOMAIN line : u[i] = line[j]
  /\ \A j \in DOMAIN line : Letter(line[j]) => line[j] \in ToSet(u)

\* A line does not end with whitespace.
Tidy(u) == Len(u) > 0 => ~Blank(u[Len(u)])

\* u is t[a:b], of elements of any kind.
Taken(u, t, a, b) == Len(u) = b - a /\ \A i \in 1..(b - a) : u[i] = t[a + i]

\* Slices are that.
LEMMA TakenOut ==
  ASSUME NEW S, NEW line \in Seq(S), NEW a \in Nat, NEW b \in Nat, a <= b, b <= Len(line),
         NEW u, u = Slice(line, a, b)
  PROVE  Taken(u, line, a, b)
  BY SliceIs DEF Taken

\* A slice keeps the letters if only whitespace is cut off.
LEMMA SliceKeeps ==
  ASSUME NEW S, NEW line \in Seq(S), NEW a \in Nat, NEW b \in Nat, a <= b, b <= Len(line),
         \A i \in Offsets(line) : ~IsSpace(line, i) => a <= i /\ i < b,
         NEW u, u = Slice(line, a, b)
  PROVE  Keeps(S, u, line)
<1>1. u \in Seq(S) /\ Len(u) = b - a /\ \A i \in 1..(b - a) : u[i] = line[a + i]
  BY SliceIs
<1>2. Len(line) \in Nat /\ DOMAIN line = 1..Len(line) /\ DOMAIN u = 1..(b - a)
  BY <1>1, Texts
<1>3. InOrder(line) => InOrder(u)
  BY SliceInOrder
<1>4. ASSUME NEW i \in DOMAIN u PROVE \E j \in DOMAIN line : u[i] = line[j]
  <2> DEFINE j == a + i
  <2>1. j \in DOMAIN line /\ u[i] = line[j]
    BY <1>1, <1>2
  <2> HIDE DEF j
  <2> QED
    BY <2>1
<1>5. ASSUME NEW j \in DOMAIN line, Letter(line[j]) PROVE line[j] \in ToSet(u)
  <2> DEFINE o == j - 1
             i == j - a
  <2>1. o \in Offsets(line) /\ o + 1 = j
    BY <1>2 DEF Offsets
  <2>2. ~IsSpace(line, o)
    <3> HIDE DEF o
    <3>1. Letter(line[o + 1])
      BY <1>5, <2>1
    <3> QED
      BY <3>1, Kinds, KindsAt
  <2>3. a <= o /\ o < b
    <3> HIDE DEF o
    <3> QED
      BY <2>1, <2>2
  <2>4. i \in 1..(b - a) /\ a + i = j
    BY <1>2, <2>3
  <2> HIDE DEF i, o
  <2>5. u[i] = line[j] /\ i \in DOMAIN u
    BY <1>1, <1>2, <2>4
  <2> QED
    BY <2>5 DEF ToSet
<1> QED
  BY <1>1, <1>3, <1>4, <1>5 DEF Keeps

\* TrimSpace cuts off only whitespace, and all that a line ends with.
LEMMA TrimSpaceKeeps ==
  ASSUME NEW S, NEW line \in Seq(S), NEW u, u = TrimSpace(line)
  PROVE  Keeps(S, u, line) /\ Tidy(u)
<1>1. PICK a \in Nat, b \in Nat :
        /\ a <= b /\ b <= Len(line)
        /\ TrimSpace(line) = Slice(line, a, b)
        /\ \A i \in Offsets(line) : ~IsSpace(line, i) => a <= i /\ i < b
        /\ a < b => ~IsSpace(line, a) /\ ~IsSpace(line, b - 1)
  BY TrimSpaceIs
<1>2. u = Slice(line, a, b)
  BY <1>1
<1>3. Keeps(S, u, line)
  BY <1>1, <1>2, SliceKeeps
<1>4. Tidy(u)
  <2>0. Taken(u, line, a, b)
    BY <1>1, <1>2, TakenOut
  <2>1. Len(u) = b - a /\ \A i \in 1..(b - a) : u[i] = line[a + i]
    BY <2>0 DEF Taken
  <2>2. ASSUME Len(u) > 0 PROVE ~Blank(u[Len(u)])
    <3>1. a < b /\ b - a \in 1..(b - a) /\ a + (b - a) = (b - 1) + 1
      BY <1>1, <2>1, <2>2
    <3>2. ~Blank(line[(b - 1) + 1])
      BY <1>1, <3>1, KindsAt
    <3>3. u[Len(u)] = line[a + (b - a)]
      BY <2>1, <3>1
    <3> QED
      BY <3>1, <3>2, <3>3
  <2> QED
    BY <2>2 DEF Tidy
<1> QED
  BY <1>3, <1>4

\* So does TrimRight.
LEMMA TrimRightKeeps ==
  ASSUME NEW S, NEW line \in Seq(S), NEW u, u = TrimRight(line)
  PROVE  Keeps(S, u, line) /\ Tidy(u)
<1>1. PICK b \in 0..Len(line) :
        /\ TrimRight(line) = Slice(line, 0, b)
        /\ \A i \in Offsets(line) : ~IsSpace(line, i) => i < b
        /\ 0 < b => ~IsSpace(line, b - 1)
  BY TrimRightIs
<1>2. /\ u = Slice(line, 0, b) /\ b \in Nat /\ 0 <= b /\ b <= Len(line) /\ 0 \in Nat
      /\ Len(line) \in Nat
  BY <1>1, Texts
<1>3. \A i \in Offsets(line) : ~IsSpace(line, i) => 0 <= i /\ i < b
  BY <1>1, <1>2 DEF Offsets
<1>4. Keeps(S, u, line)
  BY <1>2, <1>3, SliceKeeps
<1>5. Tidy(u)
  <2>0. Taken(u, line, 0, b)
    BY <1>2, TakenOut
  <2>1. Len(u) = b - 0 /\ \A i \in 1..(b - 0) : u[i] = line[0 + i]
    BY <2>0 DEF Taken
  <2>2. ASSUME Len(u) > 0 PROVE ~Blank(u[Len(u)])
    <3>1. 0 < b /\ Len(u) = b /\ b \in 1..(b - 0) /\ 0 + b = (b - 1) + 1
      BY <1>2, <2>1, <2>2
    <3>2. ~Blank(line[(b - 1) + 1])
      BY <1>1, <3>1, KindsAt
    <3>3. u[b] = line[0 + b]
      BY <2>1, <3>1
    <3> QED
      BY <3>1, <3>2, <3>3
  <2> QED
    BY <2>2 DEF Tidy
<1> QED
  BY <1>4, <1>5

\* A line that does not end with whitespace has its end after it loses its indentation.
LEMMA TrimLeftKeeps ==
  ASSUME NEW S, NEW line \in Seq(S), line # <<>>, Tidy(line), NEW u, u = TrimLeft(line)
  PROVE  Keeps(S, u, line) /\ u # <<>> /\ Tidy(u)
<1>1. PICK a \in 0..Len(line) :
        /\ TrimLeft(line) = Slice(line, a, Len(line))
        /\ \A i \in Offsets(line) : ~IsSpace(line, i) => a <= i
        /\ a < Len(line) => ~IsSpace(line, a)
  BY TrimLeftIs
<1> DEFINE b == Len(line)
<1>2. b \in Nat /\ b > 0 /\ a \in Nat /\ a <= b
  BY <1>1, Texts
<1>3. u = Slice(line, a, b)
  BY <1>1
<1>4. \A i \in Offsets(line) : ~IsSpace(line, i) => a <= i /\ i < b
  <2>1. \A i \in Offsets(line) : i < b
    BY <1>2 DEF Offsets
  <2> QED
    BY <1>1, <2>1
<1>5. Keeps(S, u, line)
  BY <1>2, <1>3, <1>4, SliceKeeps
<1>6. a < b
  <2> DEFINE o == b - 1
  <2>1. o \in Offsets(line) /\ o + 1 = b
    BY <1>2 DEF Offsets
  <2>2. ~Blank(line[b])
    BY <1>2 DEF Tidy
  <2> HIDE DEF o
  <2>3. ~IsSpace(line, o)
    BY <2>1, <2>2, KindsAt
  <2>4. a <= o
    BY <1>1, <2>1, <2>3
  <2> QED
    BY <1>2, <2>1, <2>4 DEF o
<1>6a. Taken(u, line, a, b)
  BY <1>2, <1>3, TakenOut
<1>7. Len(u) = b - a /\ \A i \in 1..(b - a) : u[i] = line[a + i]
  BY <1>6a DEF Taken
<1>8. u # <<>>
  <2>1. Len(u) > 0
    BY <1>2, <1>6, <1>7
  <2>2. u \in Seq(S)
    BY <1>5 DEF Keeps
  <2> QED
    BY <2>1, <2>2, Texts
<1>9. Tidy(u)
  <2>1. u[Len(u)] = line[b]
    <3>1. b - a \in 1..(b - a) /\ a + (b - a) = b
      BY <1>2, <1>6
    <3> HIDE DEF b
    <3> QED
      BY <1>7, <3>1
  <2> QED
    BY <1>2, <2>1 DEF Tidy
<1> QED
  BY <1>5, <1>8, <1>9

\* A line keeps its own letters.
LEMMA KeepsSelf ==
  ASSUME NEW S, NEW line \in Seq(S)
  PROVE  Keeps(S, line, line)
  BY DEF Keeps, ToSet

-----------------------------------------------------------------------------
(* Loops over lines *)

\* x is in one of the lines.
Among(x, out) == \E i \in 1..Len(out) : x \in ToSet(out[i])

\* What a loop has made of the first n lines.
Gathered(S, lines, n, out) ==
  /\ out \in Seq(Seq(S)) /\ LinesInOrder(out)
  /\ \A i \in 1..Len(out) : Tidy(out[i])
  /\ \A i \in 1..Len(out) : \A m \in (n + 1)..Len(lines) : AllBefore(out[i], lines[m])
  /\ \A m \in 1..n : \A j \in DOMAIN lines[m] : Letter(lines[m][j]) => Among(lines[m][j], out)

\* What comes before a line comes before what is kept of it.
LEMMA KeepsBefore ==
  ASSUME NEW S, NEW u, NEW line, Keeps(S, u, line), NEW s
  PROVE  /\ AllBefore(s, line) => AllBefore(s, u)
         /\ AllBefore(line, s) => AllBefore(u, s)
  BY DEF AllBefore, Keeps

\* One more element.
LEMMA AppendIs ==
  ASSUME NEW S, NEW s \in Seq(S), NEW x \in S
  PROVE  /\ Append(s, x) \in Seq(S) /\ Len(Append(s, x)) = Len(s) + 1
         /\ \A i \in 1..Len(s) : Append(s, x)[i] = s[i]
         /\ Append(s, x)[Len(s) + 1] = x
  BY AppendProperties

\* A loop adds what it keeps of a line.
LEMMA GatherLine ==
  ASSUME NEW S, NEW lines \in Seq(Seq(S)), LinesInOrder(lines), NEW n \in 1..Len(lines),
         NEW out, Gathered(S, lines, n - 1, out), NEW u, Keeps(S, u, lines[n]), Tidy(u)
  PROVE  Gathered(S, lines, n, Append(out, u))
<1> DEFINE new == Append(out, u)
           N == Len(out)
           L == Len(lines)
<1>1. out \in Seq(Seq(S)) /\ u \in Seq(S) /\ L \in Nat /\ N \in Nat
  BY Texts DEF Gathered, Keeps
<1>2. /\ new \in Seq(Seq(S)) /\ Len(new) = N + 1
      /\ \A i \in 1..N : new[i] = out[i]
      /\ new[N + 1] = u
  BY <1>1, AppendIs
<1>3. /\ LinesInOrder(out) /\ \A i \in 1..N : Tidy(out[i])
      /\ \A i \in 1..N : \A m \in ((n - 1) + 1)..L : AllBefore(out[i], lines[m])
      /\ \A m \in 1..(n - 1) : \A j \in DOMAIN lines[m] :
           Letter(lines[m][j]) => Among(lines[m][j], out)
  BY DEF Gathered
<1>3a. /\ \A i \in 1..N : InOrder(out[i])
       /\ \A i, j \in 1..N : i < j => AllBefore(out[i], out[j])
       /\ \A i \in 1..L : InOrder(lines[i])
       /\ \A i, j \in 1..L : i < j => AllBefore(lines[i], lines[j])
  BY <1>3 DEF LinesInOrder
<1> HIDE DEF new, N, L
<1>4. n \in 1..L
  BY DEF L
<1>5. InOrder(u) /\ \A i \in 1..N : AllBefore(out[i], u)
  <2>1. InOrder(u)
    BY <1>3a, <1>4 DEF Keeps
  <2>2. ASSUME NEW i \in 1..N PROVE AllBefore(out[i], u)
    <3>1. n \in ((n - 1) + 1)..L
      BY <1>1, <1>4
    <3>2. AllBefore(out[i], lines[n])
      BY <1>3, <3>1
    <3> QED
      BY <3>2, KeepsBefore
  <2> QED
    BY <2>1, <2>2
<1>6. \A i \in 1..(N + 1) : i \in 1..N \/ i = N + 1
  BY <1>1
<1>7. \A i \in 1..(N + 1) : InOrder(new[i]) /\ Tidy(new[i])
  BY <1>2, <1>3, <1>3a, <1>5, <1>6
<1>8. ASSUME NEW i \in 1..(N + 1), NEW j \in 1..(N + 1), i < j PROVE AllBefore(new[i], new[j])
  <2>1. i \in 1..N
    BY <1>1, <1>8
  <2>2. CASE j \in 1..N
    BY <1>2, <1>3a, <1>8, <2>1, <2>2
  <2>3. CASE j = N + 1
    BY <1>2, <1>5, <2>1, <2>3
  <2> QED
    BY <1>6, <2>2, <2>3
<1>9. LinesInOrder(new)
  BY <1>2, <1>7, <1>8 DEF LinesInOrder
<1>10. ASSUME NEW i \in 1..(N + 1), NEW m \in (n + 1)..L PROVE AllBefore(new[i], lines[m])
  <2>1. CASE i \in 1..N
    <3>1. m \in ((n - 1) + 1)..L
      BY <1>1, <1>4
    <3> QED
      BY <1>2, <1>3, <2>1, <3>1
  <2>2. CASE i = N + 1
    <3>1. m \in 1..L /\ n < m
      BY <1>1, <1>4
    <3>2. AllBefore(lines[n], lines[m])
      BY <1>3a, <1>4, <3>1
    <3>3. AllBefore(u, lines[m])
      BY <3>2, KeepsBefore
    <3> QED
      BY <1>2, <2>2, <3>3
  <2> QED
    BY <1>6, <2>1, <2>2
<1>11. ASSUME NEW m \in 1..n, NEW j \in DOMAIN lines[m], Letter(lines[m][j])
       PROVE  Among(lines[m][j], new)
  <2>1. 1..N \subseteq 1..(N + 1) /\ N + 1 \in 1..(N + 1)
    BY <1>1
  <2>2. CASE m \in 1..(n - 1)
    <3>1. PICK i \in 1..N : lines[m][j] \in ToSet(out[i])
      BY <1>3, <1>11, <2>2 DEF Among, N
    <3>2. i \in 1..(N + 1) /\ new[i] = out[i]
      BY <1>2, <2>1
    <3> QED
      BY <1>2, <3>1, <3>2 DEF Among
  <2>3. CASE m = n
    <3>1. lines[m][j] \in ToSet(u)
      BY <1>11, <2>3 DEF Keeps
    <3> QED
      BY <1>2, <2>1, <3>1 DEF Among
  <2>4. m \in 1..(n - 1) \/ m = n
    BY <1>4, <1>1
  <2> QED
    BY <2>2, <2>3, <2>4
<1>12. Gathered(S, lines, n, new)
  BY <1>2, <1>7, <1>9, <1>10, <1>11 DEF Gathered, L
<1> QED
  BY <1>12 DEF new

\* It leaves out a line without letters.
LEMMA GatherNothing ==
  ASSUME NEW S, NEW lines \in Seq(Seq(S)), NEW n \in 1..Len(lines),
         NEW out, Gathered(S, lines, n - 1, out), Keeps(S, <<>>, lines[n])
  PROVE  Gathered(S, lines, n, out)
<1>1. Len(lines) \in Nat
  BY Texts
<1>2. \A i \in 1..Len(out) : \A m \in (n + 1)..Len(lines) : AllBefore(out[i], lines[m])
  <2>1. \A m \in (n + 1)..Len(lines) : m \in ((n - 1) + 1)..Len(lines)
    BY <1>1
  <2> QED
    BY <2>1 DEF Gathered
<1>3. \A m \in 1..n : \A j \in DOMAIN lines[m] : Letter(lines[m][j]) => Among(lines[m][j], out)
  <2> TAKE m \in 1..n
  <2>1. CASE m \in 1..(n - 1)
    BY <2>1 DEF Gathered
  <2>2. CASE m = n
    <3>1. ToSet(<<>>) = {}
      BY DEF ToSet
    <3> QED
      BY <2>2, <3>1 DEF Keeps
  <2>3. m \in 1..(n - 1) \/ m = n
    BY <1>1
  <2> QED
    BY <2>1, <2>2, <2>3
<1> QED
  BY <1>2, <1>3 DEF Gathered

\* What comes before two texts comes before their concatenation.
LEMMA ConcatAfter ==
  ASSUME NEW S, NEW s \in Seq(S), NEW t \in Seq(S), NEW u,
         AllBefore(u, s), AllBefore(u, t)
  PROVE  AllBefore(u, s \o t)
<1> SUFFICES ASSUME NEW j \in DOMAIN u, NEW i \in DOMAIN (s \o t),
                    u[j].at # Nowhere, (s \o t)[i].at # Nowhere
             PROVE  Before(u[j].at, (s \o t)[i].at)
  BY DEF AllBefore
<1>1. \/ i \in DOMAIN s /\ (s \o t)[i] = s[i]
      \/ i - Len(s) \in DOMAIN t /\ (s \o t)[i] = t[i - Len(s)] /\ i > Len(s)
  BY ConcatElements
<1> QED
  BY <1>1 DEF AllBefore

\* A concatenation has the elements of both.
LEMMA ConcatSet ==
  ASSUME NEW S, NEW s \in Seq(S), NEW t \in Seq(S)
  PROVE  ToSet(s) \subseteq ToSet(s \o t) /\ ToSet(t) \subseteq ToSet(s \o t)
<1> DEFINE r == s \o t
<1>1. /\ r \in Seq(S) /\ Len(r) = Len(s) + Len(t)
      /\ \A i \in 1..Len(s) : r[i] = s[i]
      /\ \A i \in 1..Len(t) : r[Len(s) + i] = t[i]
  BY ConcatIs
<1> HIDE DEF r
<1>2. Len(s) \in Nat /\ Len(t) \in Nat /\ DOMAIN s = 1..Len(s) /\ DOMAIN t = 1..Len(t)
  BY Texts
<1>3. DOMAIN r = 1..(Len(s) + Len(t))
  <2>1. DOMAIN r = 1..Len(r)
    BY <1>1, LenProperties
  <2> QED
    BY <1>1, <2>1
<1>4. \A i \in 1..Len(s) : i \in DOMAIN r
  BY <1>2, <1>3
<1>5. \A i \in 1..Len(t) : Len(s) + i \in DOMAIN r
  BY <1>2, <1>3
<1>6. ToSet(s) \subseteq ToSet(r)
  BY <1>1, <1>2, <1>4 DEF ToSet
<1>7. ToSet(t) \subseteq ToSet(r)
  BY <1>1, <1>2, <1>5 DEF ToSet
<1> QED
  BY <1>6, <1>7 DEF r

\* f is all of s but its last element.
IsFront(S, f, s) ==
  f \in Seq(S) /\ Len(f) = Len(s) - 1 /\ \A i \in 1..(Len(s) - 1) : f[i] = s[i]

\* Front is that.
LEMMA FrontIs ==
  ASSUME NEW S, NEW s \in Seq(S), s # <<>>
  PROVE  IsFront(S, Front(s), s)
<1> DEFINE b == Len(s) - 1
<1>1. b \in Nat /\ 0 \in Nat /\ 0 <= b /\ b <= Len(s) /\ Len(s) \in Nat
  BY Texts
<1>2. Front(s) = Slice(s, 0, b)
  BY DEF Front, Slice
<1> HIDE DEF b
<1>3. /\ Slice(s, 0, b) \in Seq(S) /\ Len(Slice(s, 0, b)) = b - 0
      /\ \A i \in 1..(b - 0) : Slice(s, 0, b)[i] = s[0 + i]
  BY <1>1, SliceIs
<1> DEFINE f == Front(s)
<1>4. f \in Seq(S) /\ Len(f) = b - 0 /\ \A i \in 1..(b - 0) : f[i] = s[0 + i]
  BY <1>2, <1>3
<1> HIDE DEF f
<1>5. b - 0 = b /\ \A i \in 1..b : 0 + i = i
  BY <1>1
<1>6. f \in Seq(S) /\ Len(f) = b /\ \A i \in 1..b : f[i] = s[i]
  BY <1>4, <1>5
<1> QED
  BY <1>6 DEF IsFront, f, b

\* A line is joined to the last one: w is what is kept of that and u of the line.
LEMMA GatherJoined ==
  ASSUME NEW S, NEW lines \in Seq(Seq(S)), LinesInOrder(lines), NEW n \in 1..Len(lines),
         NEW out, Gathered(S, lines, n - 1, out), out # <<>>,
         NEW w, Keeps(S, w, Last(out)), NEW u, Keeps(S, u, lines[n]), Tidy(w \o u)
  PROVE  Gathered(S, lines, n, Append(Front(out), w \o u))
<1> DEFINE q == w \o u
           new == Append(Front(out), q)
           N == Len(out)
           L == Len(lines)
<1>1. /\ out \in Seq(Seq(S)) /\ w \in Seq(S) /\ u \in Seq(S) /\ L \in Nat /\ N \in Nat /\ N > 0
      /\ Last(out) = out[N]
  <2>1. out \in Seq(Seq(S)) /\ w \in Seq(S) /\ u \in Seq(S)
    BY DEF Gathered, Keeps
  <2> QED
    BY <2>1, Texts DEF Last
<1>2. q \in Seq(S)
  BY <1>1, ConcatIs
<1> HIDE DEF q
<1>3. /\ new \in Seq(Seq(S)) /\ Len(new) = N
      /\ \A i \in 1..(N - 1) : new[i] = out[i]
      /\ new[N] = q
  <2> DEFINE f == Front(out)
  <2>3. f \in Seq(Seq(S)) /\ Len(f) = N - 1 /\ \A i \in 1..(N - 1) : f[i] = out[i]
    BY <1>1, FrontIs DEF IsFront
  <2> HIDE DEF f
  <2>4. /\ Append(f, q) \in Seq(Seq(S)) /\ Len(Append(f, q)) = Len(f) + 1
        /\ \A i \in 1..Len(f) : Append(f, q)[i] = f[i]
        /\ Append(f, q)[Len(f) + 1] = q
    BY <1>2, <2>3, AppendIs
  <2> HIDE DEF N
  <2>5. (N - 1) + 1 = N
    BY <1>1
  <2>6. \A i \in 1..(N - 1) : Append(f, q)[i] = out[i]
    BY <2>3, <2>4
  <2> QED
    BY <2>3, <2>4, <2>5, <2>6 DEF f
<1>4. /\ LinesInOrder(out) /\ \A i \in 1..N : Tidy(out[i])
      /\ \A i \in 1..N : \A m \in ((n - 1) + 1)..L : AllBefore(out[i], lines[m])
      /\ \A m \in 1..(n - 1) : \A j \in DOMAIN lines[m] :
           Letter(lines[m][j]) => Among(lines[m][j], out)
  BY DEF Gathered
<1>5. /\ \A i \in 1..N : InOrder(out[i])
      /\ \A i, j \in 1..N : i < j => AllBefore(out[i], out[j])
      /\ \A i \in 1..L : InOrder(lines[i])
      /\ \A i, j \in 1..L : i < j => AllBefore(lines[i], lines[j])
  BY <1>4 DEF LinesInOrder
<1> HIDE DEF new, N, L
<1>6. n \in 1..L /\ N \in 1..N /\ n \in ((n - 1) + 1)..L
  BY <1>1 DEF L
<1>7. InOrder(q)
  <2>1. InOrder(w) /\ InOrder(u)
    BY <1>1, <1>5, <1>6 DEF Keeps
  <2>2. AllBefore(out[N], lines[n])
    BY <1>4, <1>6
  <2>3. AllBefore(w, lines[n])
    BY <1>1, <2>2, KeepsBefore
  <2>4. AllBefore(w, u)
    BY <2>3, KeepsBefore
  <2> QED
    BY <1>1, <2>1, <2>4, ConcatInOrder DEF q
<1>8. ASSUME NEW i \in 1..(N - 1) PROVE AllBefore(out[i], q)
  <2>1. i \in 1..N /\ i < N
    BY <1>1
  <2>2. AllBefore(out[i], out[N]) /\ AllBefore(out[i], lines[n])
    BY <1>4, <1>5, <1>6, <2>1
  <2>3. AllBefore(out[i], w) /\ AllBefore(out[i], u)
    BY <1>1, <2>2, KeepsBefore
  <2> QED
    BY <1>1, <2>3, ConcatAfter DEF q
<1>9. ASSUME NEW m \in (n + 1)..L PROVE AllBefore(q, lines[m])
  <2>1. m \in ((n - 1) + 1)..L /\ m \in 1..L /\ n < m
    BY <1>1, <1>6
  <2>2. AllBefore(out[N], lines[m]) /\ AllBefore(lines[n], lines[m])
    BY <1>4, <1>5, <1>6, <2>1
  <2>3. AllBefore(w, lines[m]) /\ AllBefore(u, lines[m])
    BY <1>1, <2>2, KeepsBefore
  <2> QED
    BY <1>1, <2>3, ConcatBefore DEF q
<1>10. \A i \in 1..N : i \in 1..(N - 1) \/ i = N
  BY <1>1
<1>10a. 1..(N - 1) \subseteq 1..N
  BY <1>1
<1>11. \A i \in 1..N : InOrder(new[i]) /\ Tidy(new[i])
  <2>1. Tidy(q)
    BY DEF q
  <2> QED
    BY <1>3, <1>4, <1>5, <1>7, <1>10, <2>1
<1>12. ASSUME NEW i \in 1..N, NEW j \in 1..N, i < j PROVE AllBefore(new[i], new[j])
  <2>1. i \in 1..(N - 1)
    BY <1>1, <1>12
  <2>2. CASE j \in 1..(N - 1)
    BY <1>3, <1>5, <1>12, <2>1, <2>2
  <2>3. CASE j = N
    BY <1>3, <1>8, <2>1, <2>3
  <2> QED
    BY <1>10, <2>2, <2>3
<1>13. LinesInOrder(new)
  BY <1>3, <1>11, <1>12 DEF LinesInOrder
<1>14. ASSUME NEW i \in 1..N, NEW m \in (n + 1)..L PROVE AllBefore(new[i], lines[m])
  <2>1. m \in ((n - 1) + 1)..L
    BY <1>1, <1>6
  <2>2. CASE i \in 1..(N - 1)
    BY <1>3, <1>4, <2>1, <2>2
  <2>3. CASE i = N
    BY <1>3, <1>9, <2>3
  <2> QED
    BY <1>10, <2>2, <2>3
<1>15. ASSUME NEW m \in 1..n, NEW j \in DOMAIN lines[m], Letter(lines[m][j])
       PROVE  Among(lines[m][j], new)
  <2> DEFINE x == lines[m][j]
  <2>1. ToSet(w) \subseteq ToSet(q) /\ ToSet(u) \subseteq ToSet(q)
    BY <1>1, ConcatSet DEF q
  <2>2. CASE m \in 1..(n - 1)
    <3>1. PICK i \in 1..N : x \in ToSet(out[i])
      BY <1>4, <1>15, <2>2 DEF Among, N
    <3>2. CASE i \in 1..(N - 1)
      BY <1>3, <3>1, <3>2 DEF Among
    <3>3. CASE i = N
      <4>1. PICK k \in DOMAIN out[N] : x = out[N][k]
        BY <3>1, <3>3 DEF ToSet
      <4>2. x \in ToSet(w)
        BY <1>1, <1>15, <4>1 DEF Keeps
      <4> QED
        BY <1>3, <1>6, <2>1, <4>2 DEF Among
    <3> QED
      BY <1>10, <3>2, <3>3
  <2>3. CASE m = n
    <3>1. x \in ToSet(u)
      BY <1>15, <2>3 DEF Keeps
    <3> QED
      BY <1>3, <1>6, <2>1, <3>1 DEF Among
  <2>4. m \in 1..(n - 1) \/ m = n
    BY <1>1, <1>6
  <2> QED
    BY <2>2, <2>3, <2>4
<1>16. Gathered(S, lines, n, new)
  BY <1>3, <1>11, <1>13, <1>14, <1>15 DEF Gathered, L
<1> QED
  BY <1>16 DEF new, q

\* Nothing is gathered from no lines.
LEMMA GatherStart ==
  ASSUME NEW S, NEW lines
  PROVE  Gathered(S, lines, 0, <<>>)
<1>1. <<>> \in Seq(Seq(S)) /\ 1..Len(<<>>) = {} /\ 1..0 = {}
  BY EmptySeq
<1> QED
  BY <1>1 DEF Gathered, LinesInOrder

-----------------------------------------------------------------------------
(* The first loop: lines are kept *)

\* The state of the first loop of normalizeText.
Keeping(S) == [out : Seq(Seq(S)), inFence : BOOLEAN]

\* A round of it drops a line without letters, or appends what it keeps of it.
KeepsLine(S, out, line, new) ==
  \/ new = out /\ Keeps(S, <<>>, line)
  \/ \E u : Keeps(S, u, line) /\ Tidy(u) /\ new = Append(out, u)

\* KeepLine does so.
LEMMA KeepLineIs ==
  ASSUME NEW S, NEW state \in Keeping(S), NEW line \in Seq(S), NEW preserveIndent,
         NEW r, r = KeepLine(state, line, preserveIndent)
  PROVE  r \in Keeping(S) /\ KeepsLine(S, state.out, line, r.out)
<1> DEFINE trimmed == TrimSpace(line)
           fence == StartsWith(trimmed, <<"~">>)
           indented == state.inFence \/ preserveIndent \/ StartsWith(line, FourSpaces)
           kept == IF fence \/ ~indented THEN trimmed ELSE TrimRight(line)
           again == state.out = <<>> \/ Last(state.out) = <<>>
           skip == ~fence /\ trimmed = <<>> /\ again
<1>1. /\ r = [out |-> r.out, inFence |-> r.inFence]
      /\ r.out = IF skip THEN state.out ELSE Append(state.out, kept)
      /\ r.inFence \in BOOLEAN
  BY DEF KeepLine
<1>2. Keeps(S, trimmed, line) /\ Tidy(trimmed)
  BY TrimSpaceKeeps
<1>3. Keeps(S, TrimRight(line), line) /\ Tidy(TrimRight(line))
  BY TrimRightKeeps
<1>4. Keeps(S, kept, line) /\ Tidy(kept)
  BY <1>2, <1>3
<1>5. skip => Keeps(S, <<>>, line)
  BY <1>2
<1>6. state.out \in Seq(Seq(S))
  BY DEF Keeping
<1>7. kept \in Seq(S)
  BY <1>4 DEF Keeps
<1> HIDE DEF skip, kept
<1>8. Append(state.out, kept) \in Seq(Seq(S))
  BY <1>6, <1>7, AppendIs
<1>9. r \in Keeping(S)
  BY <1>1, <1>6, <1>8 DEF Keeping
<1>10. KeepsLine(S, state.out, line, r.out)
  BY <1>1, <1>4, <1>5 DEF KeepsLine
<1> QED
  BY <1>9, <1>10

\* f[n] is the state after n rounds.
IsKeeping(f, S, lines, preserveIndent) ==
  /\ f \in [0..Len(lines) -> Keeping(S)]
  /\ KeptLines(lines, preserveIndent) = f[Len(lines)].out
  /\ f[0].out = <<>>
  /\ \A n \in 1..Len(lines) : KeepsLine(S, f[n - 1].out, lines[n], f[n].out)

\* The recursion of KeptLines has a solution, which its CHOOSE takes.
LEMMA KeptLinesIs ==
  ASSUME NEW S, NEW lines \in Seq(Seq(S)), NEW preserveIndent
  PROVE  \E f : IsKeeping(f, S, lines, preserveIndent)
<1> DEFINE N == Len(lines)
           V == Keeping(S)
           base == [out |-> <<>>, inFence |-> FALSE]
           Rec(f) == f = [n \in 0..N |->
                            IF n = 0 THEN base ELSE KeepLine(f[n - 1], lines[n], preserveIndent)]
           step == [p \in (1..N) \X V |-> KeepLine(p[2], lines[p[1]], preserveIndent)]
<1>1. N \in Nat /\ base \in V /\ \A n \in 1..N : lines[n] \in Seq(S)
  <2>1. <<>> \in Seq(Seq(S)) /\ FALSE \in BOOLEAN
    BY EmptySeq
  <2> QED
    BY <2>1, Texts DEF Keeping
<1>2. step \in [(1..N) \X V -> V]
  <2>1. ASSUME NEW n \in 1..N, NEW s \in V PROVE KeepLine(s, lines[n], preserveIndent) \in V
    BY <1>1, KeepLineIs
  <2>2. \A p \in (1..N) \X V : KeepLine(p[2], lines[p[1]], preserveIndent) \in V
    BY <2>1
  <2> HIDE DEF N, V
  <2> QED
    BY <2>2
<1>3. PICK f \in [0..N -> V] : IsRecursion(f, N, base, step)
  <2>1. N \in Nat /\ base \in V
    BY <1>1
  <2> HIDE DEF N, V, step, base
  <2> QED
    BY <1>2, <2>1, RecursionExists
<1>4. Rec(f)
  <2>1. ASSUME NEW n \in 0..N
        PROVE  f[n] = IF n = 0 THEN base ELSE KeepLine(f[n - 1], lines[n], preserveIndent)
    <3> HIDE DEF base
    <3>1. CASE n = 0
      BY <1>3, <3>1 DEF IsRecursion
    <3>2. CASE n # 0
      <4>1. n \in 1..N /\ n - 1 \in 0..N
        BY <1>1, <3>2
      <4>2. f[n - 1] \in V /\ f[n] = step[<<n, f[n - 1]>>]
        <5> HIDE DEF V, step, N
        <5> QED
          BY <1>3, <4>1 DEF IsRecursion
      <4> HIDE DEF N, V
      <4> QED
        BY <3>2, <4>1, <4>2
    <3> QED
      BY <3>1, <3>2
  <2> HIDE DEF V, step, base
  <2> QED
    BY <1>3, <2>1
<1> DEFINE g == CHOOSE h : Rec(h)
<1>5. KeptLines(lines, preserveIndent) = g[N].out
  BY DEF KeptLines
<1>6. Rec(g)
  <2> HIDE DEF Rec
  <2> QED
    BY <1>4
<1> HIDE DEF g
<1>7. g[0] = base /\ \A n \in 1..N : g[n] = KeepLine(g[n - 1], lines[n], preserveIndent)
  <2>1. 0 \in 0..N /\ \A n \in 1..N : n \in 0..N /\ n # 0
    BY <1>1
  <2> HIDE DEF N, base
  <2> QED
    BY <1>6, <2>1
<1>8. \A n \in 0..N : g[n] \in V
  <2> DEFINE typed == {n \in 0..N : g[n] \in V}
  <2>1. 0 \in typed
    <3>1. 0 \in 0..N /\ g[0] \in V
      BY <1>1, <1>7
    <3> HIDE DEF N, V
    <3> QED
      BY <3>1
  <2>2. ASSUME NEW n \in 1..N, n - 1 \in typed PROVE n \in typed
    <3>1. n \in 0..N
      BY <1>1
    <3>2. lines[n] \in Seq(S) /\ g[n - 1] \in V
      BY <1>1, <2>2
    <3>3. g[n] \in V
      <4>1. g[n] = KeepLine(g[n - 1], lines[n], preserveIndent)
        BY <1>7
      <4> QED
        BY <3>2, <4>1, KeepLineIs
    <3> QED
      BY <3>1, <3>3
  <2>3. N \in Nat
    BY <1>1
  <2>4. \A n \in 0..N : n \in typed
    <3> HIDE DEF typed, N
    <3> QED
      BY <2>1, <2>2, <2>3, InductionTo
  <2> QED
    BY <2>4
<1>9. g = [n \in 0..N |-> g[n]]
  BY <1>6
<1>10. g \in [0..N -> V]
  <2> HIDE DEF N, V
  <2> QED
    BY <1>8, <1>9
<1>11. ASSUME NEW n \in 1..N PROVE KeepsLine(S, g[n - 1].out, lines[n], g[n].out)
  <2>1. n - 1 \in 0..N /\ lines[n] \in Seq(S)
    BY <1>1
  <2>2. g[n - 1] \in V
    BY <1>8, <2>1
  <2>3. g[n] = KeepLine(g[n - 1], lines[n], preserveIndent)
    BY <1>7
  <2> QED
    BY <2>1, <2>2, <2>3, KeepLineIs
<1>12. g[0].out = <<>>
  BY <1>7
<1> QED
  BY <1>5, <1>10, <1>11, <1>12 DEF IsKeeping

\* The first loop keeps all letters, in order.
LEMMA KeptLinesGather ==
  ASSUME NEW S, NEW lines \in Seq(Seq(S)), LinesInOrder(lines), NEW preserveIndent
  PROVE  Gathered(S, lines, Len(lines), KeptLines(lines, preserveIndent))
<1>1. PICK f : IsKeeping(f, S, lines, preserveIndent)
  BY KeptLinesIs
<1> DEFINE N == Len(lines)
           good == {n \in 0..N : Gathered(S, lines, n, f[n].out)}
<1>2. N \in Nat
  BY Texts
<1>3. 0 \in good
  <2>1. 0 \in 0..N
    BY <1>2
  <2>2. Gathered(S, lines, 0, f[0].out)
    BY <1>1, GatherStart DEF IsKeeping
  <2> QED
    BY <2>1, <2>2
<1>4. ASSUME NEW n \in 1..N, n - 1 \in good PROVE n \in good
  <2>1. Gathered(S, lines, n - 1, f[n - 1].out)
    BY <1>4
  <2>2. KeepsLine(S, f[n - 1].out, lines[n], f[n].out)
    BY <1>1 DEF IsKeeping
  <2>3. CASE f[n].out = f[n - 1].out /\ Keeps(S, <<>>, lines[n])
    <3>1. Gathered(S, lines, n, f[n - 1].out)
      BY <2>1, <2>3, GatherNothing
    <3> QED
      BY <1>2, <2>3, <3>1
  <2>4. CASE \E u : Keeps(S, u, lines[n]) /\ Tidy(u) /\ f[n].out = Append(f[n - 1].out, u)
    <3>1. PICK u : Keeps(S, u, lines[n]) /\ Tidy(u) /\ f[n].out = Append(f[n - 1].out, u)
      BY <2>4
    <3>2. Gathered(S, lines, n, Append(f[n - 1].out, u))
      BY <2>1, <3>1, GatherLine
    <3>3. f[n].out = Append(f[n - 1].out, u)
      BY <3>1
    <3>4. Gathered(S, lines, n, f[n].out)
      BY <3>2, <3>3
    <3>5. n \in 0..N
      BY <1>2
    <3> QED
      BY <3>4, <3>5
  <2> QED
    BY <2>2, <2>3, <2>4 DEF KeepsLine
<1>5. \A n \in 0..N : n \in good
  <2> HIDE DEF good, N
  <2> QED
    BY <1>2, <1>3, <1>4, InductionTo
<1>6. N \in 0..N
  BY <1>2
<1>7. Gathered(S, lines, N, f[N].out)
  BY <1>5, <1>6
<1> QED
  BY <1>1, <1>7 DEF IsKeeping

-----------------------------------------------------------------------------
(* The second loop: lines are joined *)

\* No blank line comes first or after a blank one.
Sparse(out) == \A i \in 1..Len(out) : out[i] = <<>> => i > 1 /\ out[i - 1] # <<>>

\* A blank line is appended only after one that is not.
LEMMA SparseAppend ==
  ASSUME NEW S, NEW out \in Seq(S), Sparse(out), NEW x \in S,
         x = <<>> => out # <<>> /\ Last(out) # <<>>
  PROVE  Sparse(Append(out, x))
<1> DEFINE new == Append(out, x)
           N == Len(out)
<1>1. N \in Nat /\ (out = <<>> <=> N = 0) /\ Last(out) = out[N]
  BY Texts DEF Last
<1>2. Len(new) = N + 1 /\ (\A i \in 1..N : new[i] = out[i]) /\ new[N + 1] = x
  BY AppendIs
<1> HIDE DEF new, N
<1>3. ASSUME NEW i \in 1..(N + 1), new[i] = <<>> PROVE i > 1 /\ new[i - 1] # <<>>
  <2>1. CASE i \in 1..N
    <3>1. i > 1 /\ out[i - 1] # <<>>
      BY <1>2, <1>3, <2>1 DEF Sparse, N
    <3>2. i - 1 \in 1..N
      BY <1>1, <2>1, <3>1
    <3> QED
      BY <1>2, <3>1, <3>2
  <2>2. CASE i = N + 1
    <3>1. out # <<>> /\ Last(out) # <<>>
      BY <1>2, <1>3, <2>2
    <3>2. N # 0
      BY <1>1, <3>1
    <3>3. i > 1 /\ i - 1 = N /\ N \in 1..N
      BY <1>1, <2>2, <3>2
    <3>4. new[N] = out[N] /\ out[N] # <<>>
      BY <1>1, <1>2, <3>1, <3>3
    <3> QED
      BY <3>3, <3>4
  <2>3. i \in 1..N \/ i = N + 1
    BY <1>1
  <2> QED
    BY <2>1, <2>2, <2>3
<1> QED
  BY <1>2, <1>3 DEF Sparse, new

\* The last line may be replaced by one that is not blank.
LEMMA SparseJoined ==
  ASSUME NEW S, NEW out \in Seq(S), Sparse(out), out # <<>>, NEW x \in S, x # <<>>
  PROVE  Sparse(Append(Front(out), x)) /\ Append(Front(out), x) \in Seq(S)
<1> DEFINE f == Front(out)
<1>1. f \in Seq(S) /\ Len(f) = Len(out) - 1 /\ \A i \in 1..(Len(out) - 1) : f[i] = out[i]
  BY FrontIs DEF IsFront
<1>2. Len(out) \in Nat /\ Len(out) > 0
  BY Texts
<1> HIDE DEF f
<1>3. Sparse(f)
  <2>1. ASSUME NEW i \in 1..(Len(out) - 1), f[i] = <<>> PROVE i > 1 /\ f[i - 1] # <<>>
    <3>1. i \in 1..Len(out) /\ out[i] = <<>>
      BY <1>1, <1>2, <2>1
    <3>2. i > 1 /\ out[i - 1] # <<>>
      BY <3>1 DEF Sparse
    <3>3. i - 1 \in 1..(Len(out) - 1)
      BY <1>2, <3>2
    <3> QED
      BY <1>1, <3>2, <3>3
  <2> QED
    BY <1>1, <2>1 DEF Sparse
<1>4. Sparse(Append(f, x))
  BY <1>1, <1>3, SparseAppend
<1>5. Append(f, x) \in Seq(S)
  BY <1>1, AppendIs
<1> QED
  BY <1>4, <1>5 DEF f

\* An inserted rune costs no letter.
LEMMA KeepsInserted ==
  ASSUME NEW S, NEW line \in Seq(S), NEW x \in S, x.at = Nowhere
  PROVE  Keeps(S, Append(line, x), line)
<1> DEFINE u == Append(line, x)
           N == Len(line)
<1>1. N \in Nat /\ DOMAIN line = 1..N
  BY Texts
<1>2. u \in Seq(S) /\ Len(u) = N + 1 /\ (\A i \in 1..N : u[i] = line[i]) /\ u[N + 1] = x
  BY AppendIs
<1> HIDE DEF u, N
<1>3. DOMAIN u = 1..(N + 1)
  <2>1. DOMAIN u = 1..Len(u)
    BY <1>2, LenProperties
  <2> QED
    BY <1>2, <2>1
<1>4. \A i \in DOMAIN u : u[i].at # Nowhere => i \in DOMAIN line /\ u[i] = line[i]
  <2> TAKE i \in DOMAIN u
  <2>1. i \in 1..N \/ i = N + 1
    BY <1>1, <1>3
  <2> QED
    BY <1>1, <1>2, <2>1
<1>5. InOrder(line) => InOrder(u)
  BY <1>4 DEF InOrder
<1>6. \A j \in DOMAIN line : line[j] \in ToSet(u)
  <2>1. \A j \in DOMAIN line : j \in DOMAIN u /\ u[j] = line[j]
    BY <1>1, <1>2, <1>3
  <2> QED
    BY <2>1 DEF ToSet
<1> QED
  BY <1>2, <1>4, <1>5, <1>6 DEF Keeps, u

\* Nor does the loss of a hyphen.
LEMMA KeepsFront ==
  ASSUME NEW S, NEW line \in Seq(S), line # <<>>, ~Letter(Last(line))
  PROVE  Keeps(S, Front(line), line)
<1> DEFINE f == Front(line)
           N == Len(line)
<1>1. N \in Nat /\ N > 0 /\ DOMAIN line = 1..N /\ Last(line) = line[N]
  BY Texts DEF Last
<1>2. f \in Seq(S) /\ Len(f) = N - 1 /\ \A i \in 1..(N - 1) : f[i] = line[i]
  BY FrontIs DEF IsFront
<1> HIDE DEF f, N
<1>3. DOMAIN f = 1..(N - 1)
  <2>1. DOMAIN f = 1..Len(f)
    BY <1>2, LenProperties
  <2> QED
    BY <1>2, <2>1
<1>4. \A i \in DOMAIN f : i \in DOMAIN line /\ f[i] = line[i]
  BY <1>1, <1>2, <1>3
<1>5. InOrder(line) => InOrder(f)
  BY <1>4 DEF InOrder
<1>6. ASSUME NEW j \in DOMAIN line, Letter(line[j]) PROVE line[j] \in ToSet(f)
  <2>1. j # N
    BY <1>1, <1>6
  <2>2. j \in DOMAIN f
    BY <1>1, <1>3, <2>1
  <2> QED
    BY <1>4, <2>2 DEF ToSet
<1> QED
  BY <1>2, <1>4, <1>5, <1>6 DEF Keeps, f

\* A concatenation ends as its second part does.
LEMMA TidyConcat ==
  ASSUME NEW S, NEW s \in Seq(S), NEW t \in Seq(S), t # <<>>, Tidy(t)
  PROVE  s \o t \in Seq(S) /\ s \o t # <<>> /\ Tidy(s \o t)
<1> DEFINE r == s \o t
<1>1. /\ r \in Seq(S) /\ Len(r) = Len(s) + Len(t)
      /\ \A i \in 1..Len(t) : r[Len(s) + i] = t[i]
  BY ConcatIs
<1>2. Len(s) \in Nat /\ Len(t) \in Nat /\ Len(t) > 0
  BY Texts
<1> HIDE DEF r
<1>3. Len(t) \in 1..Len(t)
  BY <1>2
<1>4. r[Len(r)] = t[Len(t)]
  BY <1>1, <1>3
<1>5. Len(r) > 0
  BY <1>1, <1>2
<1>6. r # <<>>
  BY <1>1, <1>5, Texts
<1> QED
  BY <1>1, <1>2, <1>4, <1>6 DEF Tidy, r

\* A round of the second loop of normalizeText does what one of the first does, or
\* joins the line to the last one.
JoinsLine(S, out, line, new) ==
  \/ KeepsLine(S, out, line, new)
  \/ /\ out # <<>>
     /\ \E w, u : /\ Keeps(S, w, Last(out)) /\ Keeps(S, u, line) /\ Tidy(w \o u)
                  /\ new = Append(Front(out), w \o u)

\* Lines may have an inserted space.
Spaced(S) == New(" ") \in S

\* The state of the second loop.
Joining(S) == {out \in Seq(Seq(S)) : Sparse(out)}

\* A line that is not blank is joined to the last one, which is not blank.
LEMMA JoinedToIs ==
  ASSUME NEW S, Spaced(S), NEW prev \in Seq(S), prev # <<>>,
         NEW line \in Seq(S), line # <<>>, Tidy(line)
  PROVE  \E w, u : /\ Keeps(S, w, prev) /\ Keeps(S, u, line)
                   /\ Tidy(w \o u) /\ w \o u \in Seq(S) /\ w \o u # <<>>
                   /\ JoinedTo(prev, line) = w \o u
<1> DEFINE u == TrimLeft(line)
           hyphen == EndsWithHyphenatedWord(prev) /\ StartsWithWord(line)
           w == IF hyphen THEN Front(prev) ELSE Append(prev, New(" "))
<1>1. Keeps(S, u, line) /\ u # <<>> /\ Tidy(u)
  BY TrimLeftKeeps
<1>2. Keeps(S, w, prev)
  <2>1. CASE hyphen
    <3>1. ~Letter(Last(prev))
      BY <2>1 DEF EndsWithHyphenatedWord, Letter, Words
    <3>2. Keeps(S, Front(prev), prev)
      BY <3>1, KeepsFront
    <3> QED
      BY <2>1, <3>2
  <2>2. CASE ~hyphen
    <3>1. New(" ").at = Nowhere
      BY InsertedKinds
    <3>2. Keeps(S, Append(prev, New(" ")), prev)
      BY <3>1, KeepsInserted DEF Spaced
    <3> QED
      BY <2>2, <3>2
  <2> QED
    BY <2>1, <2>2
<1>3. JoinedTo(prev, line) = w \o u
  BY DEF JoinedTo
<1> HIDE DEF u, w
<1>4. w \in Seq(S) /\ u \in Seq(S)
  BY <1>1, <1>2 DEF Keeps
<1>5. w \o u \in Seq(S) /\ w \o u # <<>> /\ Tidy(w \o u)
  BY <1>1, <1>4, TidyConcat
<1> QED
  BY <1>1, <1>2, <1>3, <1>5

\* JoinLine does so.
LEMMA JoinLineIs ==
  ASSUME NEW S, Spaced(S), NEW out \in Joining(S), NEW line \in Seq(S), Tidy(line),
         NEW r, r = JoinLine(out, line)
  PROVE  r \in Joining(S) /\ JoinsLine(S, out, line, r)
<1>1. out \in Seq(Seq(S)) /\ Sparse(out)
  BY DEF Joining
<1>2. Keeps(S, line, line)
  BY KeepsSelf
<1> DEFINE again == out = <<>> \/ Last(out) = <<>>
<1>3. CASE again /\ line = <<>>
  <2>1. r = out
    BY <1>3 DEF JoinLine
  <2>2. Keeps(S, <<>>, line)
    BY <1>2, <1>3
  <2> QED
    BY <2>1, <2>2 DEF JoinsLine, KeepsLine
<1>4. ASSUME r = Append(out, line), line = <<>> => ~again
      PROVE  r \in Joining(S) /\ JoinsLine(S, out, line, r)
  <2>1. Sparse(Append(out, line))
    BY <1>1, <1>4, SparseAppend
  <2>2. Append(out, line) \in Seq(Seq(S))
    BY <1>1, AppendIs
  <2>3. KeepsLine(S, out, line, r)
    BY <1>2, <1>4 DEF KeepsLine
  <2> QED
    BY <1>4, <2>1, <2>2, <2>3 DEF Joining, JoinsLine
<1>5. CASE (again \/ line = <<>>) /\ ~(again /\ line = <<>>)
  <2>1. r = Append(out, line)
    BY <1>5 DEF JoinLine
  <2> QED
    BY <1>4, <1>5, <2>1
<1>6. CASE ~again /\ line # <<>>
  <2>1. CASE ShouldPreserveLineBreak(Last(out), line)
    <3>1. r = Append(out, line)
      BY <1>6, <2>1 DEF JoinLine
    <3> QED
      BY <1>4, <1>6, <3>1
  <2>2. CASE ~ShouldPreserveLineBreak(Last(out), line)
    <3>1. r = Append(Front(out), JoinedTo(Last(out), line))
      BY <1>6, <2>2 DEF JoinLine
    <3>2. Last(out) \in Seq(S) /\ Last(out) # <<>> /\ out # <<>>
      <4>0. out # <<>> /\ out \in Seq(Seq(S))
        BY <1>1, <1>6
      <4>1. Len(out) \in 1..Len(out)
        BY <4>0, Texts
      <4> QED
        BY <1>1, <1>6, <4>1, Texts DEF Last
    <3>3. PICK w, u : /\ Keeps(S, w, Last(out)) /\ Keeps(S, u, line)
                      /\ Tidy(w \o u) /\ w \o u \in Seq(S) /\ w \o u # <<>>
                      /\ JoinedTo(Last(out), line) = w \o u
      BY <1>6, <3>2, JoinedToIs
    <3> DEFINE q == w \o u
    <3>4. q \in Seq(S) /\ q # <<>> /\ r = Append(Front(out), q)
      BY <3>1, <3>3
    <3> HIDE DEF q
    <3>5. r \in Joining(S)
      BY <1>1, <3>2, <3>4, SparseJoined DEF Joining
    <3>6. r = Append(Front(out), w \o u)
      BY <3>4 DEF q
    <3>7. JoinsLine(S, out, line, r)
      BY <3>2, <3>3, <3>6 DEF JoinsLine
    <3> QED
      BY <3>5, <3>7
  <2> QED
    BY <2>1, <2>2
<1> QED
  BY <1>3, <1>5, <1>6

\* f[n] is the state after n rounds.
IsJoining(f, S, lines) ==
  /\ f \in [0..Len(lines) -> Joining(S)]
  /\ JoinedLines(lines) = f[Len(lines)]
  /\ f[0] = <<>>
  /\ \A n \in 1..Len(lines) : JoinsLine(S, f[n - 1], lines[n], f[n])

\* The recursion of JoinedLines has a solution, which its CHOOSE takes.
LEMMA JoinedLinesIs ==
  ASSUME NEW S, Spaced(S), NEW lines \in Seq(Seq(S)), \A n \in 1..Len(lines) : Tidy(lines[n])
  PROVE  \E f : IsJoining(f, S, lines)
<1> DEFINE N == Len(lines)
           V == Joining(S)
           Rec(f) == f = [n \in 0..N |-> IF n = 0 THEN <<>> ELSE JoinLine(f[n - 1], lines[n])]
           step == [p \in (1..N) \X V |-> JoinLine(p[2], lines[p[1]])]
<1>1. N \in Nat /\ <<>> \in V /\ \A n \in 1..N : lines[n] \in Seq(S) /\ Tidy(lines[n])
  <2>1. <<>> \in Seq(Seq(S)) /\ 1..Len(<<>>) = {}
    BY EmptySeq
  <2> QED
    BY <2>1, Texts DEF Joining, Sparse
<1>2. step \in [(1..N) \X V -> V]
  <2>1. ASSUME NEW n \in 1..N, NEW s \in V PROVE JoinLine(s, lines[n]) \in V
    <3>1. lines[n] \in Seq(S) /\ Tidy(lines[n])
      BY <1>1
    <3> QED
      BY <3>1, JoinLineIs
  <2>2. \A p \in (1..N) \X V : JoinLine(p[2], lines[p[1]]) \in V
    BY <2>1
  <2> HIDE DEF N, V
  <2> QED
    BY <2>2
<1>3. PICK f \in [0..N -> V] : IsRecursion(f, N, <<>>, step)
  <2>1. N \in Nat /\ <<>> \in V
    BY <1>1
  <2> HIDE DEF N, V, step
  <2> QED
    BY <1>2, <2>1, RecursionExists
<1>4. Rec(f)
  <2>1. ASSUME NEW n \in 0..N
        PROVE  f[n] = IF n = 0 THEN <<>> ELSE JoinLine(f[n - 1], lines[n])
    <3>1. CASE n = 0
      BY <1>3, <3>1 DEF IsRecursion
    <3>2. CASE n # 0
      <4>1. n \in 1..N /\ n - 1 \in 0..N
        BY <1>1, <3>2
      <4>2. f[n - 1] \in V /\ f[n] = step[<<n, f[n - 1]>>]
        <5> HIDE DEF V, step, N
        <5> QED
          BY <1>3, <4>1 DEF IsRecursion
      <4> HIDE DEF N, V
      <4> QED
        BY <3>2, <4>1, <4>2
    <3> QED
      BY <3>1, <3>2
  <2> HIDE DEF V, step
  <2> QED
    BY <1>3, <2>1
<1> DEFINE g == CHOOSE h : Rec(h)
<1>5. JoinedLines(lines) = g[N]
  BY DEF JoinedLines
<1>6. Rec(g)
  <2> HIDE DEF Rec
  <2> QED
    BY <1>4
<1> HIDE DEF g
<1>7. g[0] = <<>> /\ \A n \in 1..N : g[n] = JoinLine(g[n - 1], lines[n])
  <2>1. 0 \in 0..N /\ \A n \in 1..N : n \in 0..N /\ n # 0
    BY <1>1
  <2> HIDE DEF N
  <2> QED
    BY <1>6, <2>1
<1>8. \A n \in 0..N : g[n] \in V
  <2> DEFINE typed == {n \in 0..N : g[n] \in V}
  <2>1. 0 \in typed
    <3>1. 0 \in 0..N /\ g[0] \in V
      BY <1>1, <1>7
    <3> HIDE DEF N, V
    <3> QED
      BY <3>1
  <2>2. ASSUME NEW n \in 1..N, n - 1 \in typed PROVE n \in typed
    <3>1. n \in 0..N
      BY <1>1
    <3>2. lines[n] \in Seq(S) /\ Tidy(lines[n]) /\ g[n - 1] \in V
      BY <1>1, <2>2
    <3>3. g[n] \in V
      <4>1. g[n] = JoinLine(g[n - 1], lines[n])
        BY <1>7
      <4> QED
        BY <3>2, <4>1, JoinLineIs
    <3> QED
      BY <3>1, <3>3
  <2>3. N \in Nat
    BY <1>1
  <2>4. \A n \in 0..N : n \in typed
    <3> HIDE DEF typed, N
    <3> QED
      BY <2>1, <2>2, <2>3, InductionTo
  <2> QED
    BY <2>4
<1>9. g = [n \in 0..N |-> g[n]]
  BY <1>6
<1>10. g \in [0..N -> V]
  <2> HIDE DEF N, V
  <2> QED
    BY <1>8, <1>9
<1>11. ASSUME NEW n \in 1..N PROVE JoinsLine(S, g[n - 1], lines[n], g[n])
  <2>1. n - 1 \in 0..N /\ lines[n] \in Seq(S) /\ Tidy(lines[n])
    BY <1>1
  <2>2. g[n - 1] \in V
    BY <1>8, <2>1
  <2>3. g[n] = JoinLine(g[n - 1], lines[n])
    BY <1>7
  <2> QED
    BY <2>1, <2>2, <2>3, JoinLineIs
<1> QED
  BY <1>5, <1>7, <1>10, <1>11 DEF IsJoining

\* The second loop keeps all letters, in order, and no two blank lines.
LEMMA JoinedLinesGather ==
  ASSUME NEW S, Spaced(S), NEW lines \in Seq(Seq(S)), LinesInOrder(lines),
         \A n \in 1..Len(lines) : Tidy(lines[n])
  PROVE  Gathered(S, lines, Len(lines), JoinedLines(lines)) /\ Sparse(JoinedLines(lines))
<1>1. PICK f : IsJoining(f, S, lines)
  BY JoinedLinesIs
<1> DEFINE N == Len(lines)
           good == {n \in 0..N : Gathered(S, lines, n, f[n])}
<1>2. N \in Nat
  BY Texts
<1>3. 0 \in good
  <2>1. 0 \in 0..N
    BY <1>2
  <2>2. Gathered(S, lines, 0, f[0])
    BY <1>1, GatherStart DEF IsJoining
  <2> QED
    BY <2>1, <2>2
<1>4. ASSUME NEW n \in 1..N, n - 1 \in good PROVE n \in good
  <2> DEFINE out == f[n - 1]
             new == f[n]
  <2>1. Gathered(S, lines, n - 1, out)
    BY <1>4
  <2>2. JoinsLine(S, out, lines[n], new)
    BY <1>1 DEF IsJoining
  <2>3. n \in 0..N
    BY <1>2
  <2> HIDE DEF out, new
  <2>4. CASE new = out /\ Keeps(S, <<>>, lines[n])
    <3>1. Gathered(S, lines, n, out)
      BY <2>1, <2>4, GatherNothing
    <3> QED
      BY <2>3, <2>4, <3>1 DEF new
  <2>5. CASE \E u : Keeps(S, u, lines[n]) /\ Tidy(u) /\ new = Append(out, u)
    <3>1. PICK u : Keeps(S, u, lines[n]) /\ Tidy(u) /\ new = Append(out, u)
      BY <2>5
    <3>2. Gathered(S, lines, n, Append(out, u))
      BY <2>1, <3>1, GatherLine
    <3>3. Gathered(S, lines, n, new)
      BY <3>1, <3>2
    <3> QED
      BY <2>3, <3>3 DEF new
  <2>6. CASE /\ out # <<>>
             /\ \E w, u : /\ Keeps(S, w, Last(out)) /\ Keeps(S, u, lines[n]) /\ Tidy(w \o u)
                          /\ new = Append(Front(out), w \o u)
    <3>1. PICK w, u : /\ Keeps(S, w, Last(out)) /\ Keeps(S, u, lines[n]) /\ Tidy(w \o u)
                      /\ new = Append(Front(out), w \o u)
      BY <2>6
    <3>2. Gathered(S, lines, n, Append(Front(out), w \o u))
      BY <2>1, <2>6, <3>1, GatherJoined
    <3>3. Gathered(S, lines, n, new)
      BY <3>1, <3>2
    <3> QED
      BY <2>3, <3>3 DEF new
  <2> QED
    BY <2>2, <2>4, <2>5, <2>6 DEF JoinsLine, KeepsLine
<1>5. \A n \in 0..N : n \in good
  <2> HIDE DEF good, N
  <2> QED
    BY <1>2, <1>3, <1>4, InductionTo
<1>6. N \in 0..N
  BY <1>2
<1>7. Gathered(S, lines, N, f[N])
  BY <1>5, <1>6
<1>8. Sparse(f[N])
  <2>1. f[N] \in Joining(S)
    BY <1>1, <1>6 DEF IsJoining
  <2> QED
    BY <2>1 DEF Joining
<1> QED
  BY <1>1, <1>7, <1>8 DEF IsJoining

-----------------------------------------------------------------------------
(* A page of lines *)

\* Runes of the lines of a page, and of its text.
LineRune(p) == {r \in Rune : ~Break(r) /\ (r.at # Nowhere => r.at[1] = p)}
\* Runes of page p in its text, in which only the newlines inserted are.
TextRune(p) == {r \in Rune : (Break(r) => r = Newline) /\ (r.at # Nowhere => r.at[1] = p)}

\* No space before a newline, and no three newlines.
Calm(t) ==
  /\ \A i \in 1..(Len(t) - 1) : Break(t[i + 1]) => ~Indent(t[i])
  /\ \A i \in 1..(Len(t) - 2) : ~(Break(t[i]) /\ Break(t[i + 1]) /\ Break(t[i + 2]))

\* A line has no newline in it.
Breakless(u) == \A i \in 1..Len(u) : ~Break(u[i])

\* How a text ends whose last line is this one.
Ends(t, line) ==
  /\ Len(t) > 0 /\ ~Indent(t[Len(t)])
  /\ line # <<>> => ~Break(t[Len(t)])
  /\ line = <<>> => Len(t) > 1 /\ ~Break(t[Len(t) - 1])

\* One more line after a newline leaves a text calm.
LEMMA NextLineCalm ==
  ASSUME NEW S, Newline \in S, NEW t \in Seq(S), NEW u \in Seq(S), NEW line,
         Calm(t), Ends(t, line), Breakless(u), Tidy(u), u = <<>> => line # <<>>,
         NEW r, r = t \o <<Newline>> \o u
  PROVE  Calm(r) /\ Ends(r, u)
<1> DEFINE N == Len(t)
           M == Len(u)
           v == t \o <<Newline>>
<1>1. N \in Nat /\ M \in Nat /\ (u = <<>> <=> M = 0) /\ N > 0
  BY Texts DEF Ends
<1>2. v \in Seq(S) /\ Len(v) = N + 1 /\ (\A i \in 1..N : v[i] = t[i]) /\ v[N + 1] = Newline
  <2>1. <<Newline>> \in Seq(S) /\ Len(<<Newline>>) = 1 /\ <<Newline>>[1] = Newline /\ 1 \in 1..1
    OBVIOUS
  <2> DEFINE x == <<Newline>>
  <2>2. x \in Seq(S) /\ Len(x) = 1 /\ x[1] = Newline /\ 1 \in 1..Len(x)
    BY <2>1
  <2>3. v = t \o x
    OBVIOUS
  <2>2a. x \in Seq(S)
    BY <2>2
  <2> HIDE DEF x, v
  <2>4. /\ v \in Seq(S) /\ Len(v) = Len(t) + Len(x)
        /\ \A i \in 1..Len(t) : v[i] = t[i]
        /\ \A i \in 1..Len(x) : v[Len(t) + i] = x[i]
    BY <2>2a, <2>3, ConcatIs
  <2> QED
    BY <2>2, <2>4
<1> HIDE DEF v
<1>3. /\ r \in Seq(S) /\ Len(r) = (N + 1) + M
      /\ \A i \in 1..(N + 1) : r[i] = v[i]
      /\ \A i \in 1..M : r[(N + 1) + i] = u[i]
  <2>1. r = v \o u
    BY DEF v
  <2>2. /\ r \in Seq(S) /\ Len(r) = Len(v) + Len(u)
        /\ \A i \in 1..Len(v) : r[i] = v[i]
        /\ \A i \in 1..Len(u) : r[Len(v) + i] = u[i]
    BY <1>2, <2>1, ConcatIs
  <2> QED
    BY <1>2, <2>2
<1> HIDE DEF N, M
<1>4. \A i \in 1..N : r[i] = t[i]
  <2>1. 1..N \subseteq 1..(N + 1)
    BY <1>1
  <2> QED
    BY <1>2, <1>3, <2>1
<1>5. r[N + 1] = Newline /\ ~Indent(r[N + 1])
  <2>1. N + 1 \in 1..(N + 1)
    BY <1>1
  <2>2. r[N + 1] = Newline
    BY <1>2, <1>3, <2>1
  <2> QED
    BY <2>2, Kinds, InsertedKinds
<1>6. \A i \in (N + 2)..(N + 1 + M) : ~Break(r[i])
  <2> TAKE i \in (N + 2)..(N + 1 + M)
  <2> DEFINE k == i - (N + 1)
  <2>1. k \in 1..M /\ (N + 1) + k = i
    BY <1>1
  <2> HIDE DEF k
  <2>2. r[i] = u[k]
    BY <1>3, <2>1
  <2> QED
    BY <2>1, <2>2 DEF Breakless, M
<1>7. ASSUME NEW i \in 1..(Len(r) - 1), Break(r[i + 1]) PROVE ~Indent(r[i])
  <2>1. i + 1 \notin (N + 2)..(N + 1 + M)
    BY <1>6, <1>7
  <2>2. i + 1 \in 1..N \/ i = N
    BY <1>1, <1>3, <2>1
  <2>3. CASE i + 1 \in 1..N
    <3>1. i \in 1..N /\ i \in 1..(N - 1)
      BY <1>1, <2>3
    <3>2. r[i] = t[i] /\ r[i + 1] = t[i + 1]
      BY <1>4, <2>3, <3>1
    <3> QED
      BY <1>7, <3>1, <3>2 DEF Calm, N
  <2>4. CASE i = N
    <3>1. N \in 1..N
      BY <1>1
    <3>2. r[i] = t[N]
      BY <1>4, <2>4, <3>1
    <3> QED
      BY <3>2 DEF Ends, N
  <2> QED
    BY <2>2, <2>3, <2>4
<1>8. ASSUME NEW i \in 1..(Len(r) - 2), Break(r[i]), Break(r[i + 1]), Break(r[i + 2])
      PROVE  FALSE
  <2>1. i + 2 \notin (N + 2)..(N + 1 + M)
    BY <1>6, <1>8
  <2>2. i + 2 \in 1..N \/ i + 2 = N + 1
    BY <1>1, <1>3, <2>1
  <2>3. CASE i + 2 \in 1..N
    <3>1. i \in 1..N /\ i + 1 \in 1..N /\ i \in 1..(N - 2)
      BY <1>1, <2>3
    <3>2. r[i] = t[i] /\ r[i + 1] = t[i + 1] /\ r[i + 2] = t[i + 2]
      BY <1>4, <2>3, <3>1
    <3> QED
      BY <1>8, <3>1, <3>2 DEF Calm, N
  <2>4. CASE i + 2 = N + 1
    <3>1. i + 1 = N /\ i = N - 1 /\ N - 1 \in 1..N /\ N \in 1..N
      BY <1>1, <2>4
    <3>2. Break(t[N]) /\ Break(t[N - 1])
      BY <1>4, <1>8, <3>1
    <3> QED
      BY <3>2 DEF Ends, N
  <2> QED
    BY <2>2, <2>3, <2>4
<1>9. Calm(r)
  BY <1>7, <1>8 DEF Calm
<1>10. CASE u # <<>>
  <2>1. M \in 1..M /\ (N + 1) + M = Len(r) /\ Len(r) > 0 /\ M > 0
    BY <1>1, <1>3, <1>10
  <2>2. r[Len(r)] = u[M]
    BY <1>3, <2>1
  <2>3. ~Blank(u[M])
    BY <2>1 DEF Tidy, M
  <2>4. ~Indent(r[Len(r)]) /\ ~Break(r[Len(r)])
    BY <2>2, <2>3, Kinds
  <2> QED
    BY <1>9, <1>10, <2>1, <2>4 DEF Ends
<1>11. CASE u = <<>>
  <2>1. Len(r) = N + 1 /\ Len(r) > 1 /\ Len(r) > 0 /\ Len(r) - 1 = N /\ N \in 1..N
    BY <1>1, <1>3, <1>11
  <2>2. ~Break(t[N])
    BY <1>11 DEF Ends, N
  <2>3. r[N] = t[N]
    BY <1>4, <2>1
  <2> QED
    BY <1>5, <1>9, <1>11, <2>1, <2>2, <2>3 DEF Ends
<1> QED
  BY <1>10, <1>11

\* What the lines of a page are when they are joined.
LinesWritten(S, lines, n, t) ==
  /\ t \in Seq(S) /\ InOrder(t) /\ Calm(t)
  /\ \A m \in (n + 1)..Len(lines) : AllBefore(t, lines[m])
  /\ \A m \in 1..n : ToSet(lines[m]) \subseteq ToSet(t)
  /\ n > 0 => Ends(t, lines[n])

\* A newline that is inserted is in order anywhere.
LEMMA UnplacedIs ==
  ASSUME NEW u
  PROVE  InOrder(<<Newline>>) /\ AllBefore(<<Newline>>, u) /\ AllBefore(u, <<Newline>>)
<1>1. \A i \in DOMAIN <<Newline>> : <<Newline>>[i].at = Nowhere
  <2>1. DOMAIN <<Newline>> = {1} /\ <<Newline>>[1] = Newline
    OBVIOUS
  <2> QED
    BY <2>1, InsertedKinds
<1> QED
  BY <1>1 DEF InOrder, AllBefore

\* One more line leaves the text in order and with all letters.
LEMMA NextLineWritten ==
  ASSUME NEW S, Newline \in S, NEW lines \in Seq(Seq(S)), LinesInOrder(lines), Sparse(lines),
         \A i \in 1..Len(lines) : Tidy(lines[i]) /\ Breakless(lines[i]),
         NEW n \in 1..Len(lines), NEW t, LinesWritten(S, lines, n - 1, t),
         NEW r, r = IF n = 1 THEN lines[1] ELSE t \o <<Newline>> \o lines[n]
  PROVE  LinesWritten(S, lines, n, r)
<1>1. /\ Len(lines) \in Nat /\ lines[n] \in Seq(S) /\ InOrder(lines[n])
      /\ Tidy(lines[n]) /\ Breakless(lines[n])
  BY Texts DEF LinesInOrder
<1>2. \A m \in (n + 1)..Len(lines) : AllBefore(lines[n], lines[m])
  <2> TAKE m \in (n + 1)..Len(lines)
  <2>1. m \in 1..Len(lines) /\ n < m
    BY <1>1
  <2> QED
    BY <2>1 DEF LinesInOrder
<1>3. CASE n = 1
  <2> DEFINE u == lines[1]
  <2>1. r = u /\ u \in Seq(S) /\ Tidy(u) /\ Breakless(u) /\ InOrder(u)
    BY <1>1, <1>3
  <2>2. u # <<>>
    <3>1. 1 \in 1..Len(lines)
      BY <1>3
    <3> QED
      BY <3>1 DEF Sparse
  <2>3. Len(u) \in Nat /\ Len(u) > 0
    BY <2>1, <2>2, Texts
  <2> HIDE DEF u
  <2>4. Calm(u)
    <3>1. \A i \in 1..(Len(u) - 1) : i + 1 \in 1..Len(u)
      BY <2>3
    <3>2. \A i \in 1..(Len(u) - 2) : i \in 1..Len(u)
      BY <2>3
    <3> QED
      BY <2>1, <3>1, <3>2 DEF Calm, Breakless
  <2>5. Ends(u, u)
    <3>1. ~Blank(u[Len(u)])
      BY <2>1, <2>3 DEF Tidy
    <3>2. ~Indent(u[Len(u)]) /\ ~Break(u[Len(u)])
      BY <3>1, Kinds
    <3> QED
      BY <2>2, <2>3, <3>2 DEF Ends
  <2>6. \A m \in 1..n : ToSet(lines[m]) \subseteq ToSet(r)
    BY <1>3, <2>1 DEF u
  <2>7. lines[n] = u /\ r = u
    BY <1>3, <2>1 DEF u
  <2>8. \A m \in (n + 1)..Len(lines) : AllBefore(r, lines[m])
    BY <1>2, <2>7
  <2> QED
    BY <2>1, <2>4, <2>5, <2>6, <2>7, <2>8 DEF LinesWritten
<1>4. CASE n # 1
  <2> DEFINE u == lines[n]
             x == <<Newline>>
             v == t \o x
  <2>1. n - 1 \in 1..Len(lines) /\ n - 1 > 0
    BY <1>1, <1>4
  <2>2. /\ t \in Seq(S) /\ InOrder(t) /\ Calm(t) /\ Ends(t, lines[n - 1])
        /\ \A m \in ((n - 1) + 1)..Len(lines) : AllBefore(t, lines[m])
        /\ \A m \in 1..(n - 1) : ToSet(lines[m]) \subseteq ToSet(t)
    BY <2>1 DEF LinesWritten
  <2>3. u = <<>> => lines[n - 1] # <<>>
    BY DEF Sparse
  <2>4. r = t \o <<Newline>> \o u
    BY <1>4
  <2>5. u \in Seq(S) /\ Tidy(u) /\ Breakless(u) /\ InOrder(u)
    BY <1>1
  <2>6. Calm(r) /\ Ends(r, u)
    <3> HIDE DEF u
    <3> QED
      BY <2>2, <2>3, <2>4, <2>5, NextLineCalm
  <2>7. x \in Seq(S)
    OBVIOUS
  <2>8. InOrder(x) /\ AllBefore(t, x) /\ AllBefore(x, u) /\ \A m \in 1..Len(lines) : AllBefore(x, lines[m])
    BY UnplacedIs
  <2>9. r = v \o u
    BY <2>4
  <2> HIDE DEF x, u
  <2>10. v \in Seq(S) /\ InOrder(v)
    BY <2>2, <2>7, <2>8, ConcatIs, ConcatInOrder
  <2>11. ToSet(t) \subseteq ToSet(v)
    BY <2>2, <2>7, ConcatSet
  <2>12. AllBefore(t, u)
    <3>1. n \in ((n - 1) + 1)..Len(lines)
      BY <1>1
    <3> QED
      BY <2>2, <3>1 DEF u
  <2>13. AllBefore(v, u)
    BY <2>2, <2>7, <2>8, <2>12, ConcatBefore
  <2>14. ASSUME NEW m \in (n + 1)..Len(lines) PROVE AllBefore(r, lines[m])
    <3>1. m \in ((n - 1) + 1)..Len(lines) /\ m \in 1..Len(lines)
      BY <1>1
    <3>2. AllBefore(t, lines[m]) /\ AllBefore(x, lines[m])
      BY <2>2, <2>8, <3>1
    <3>3. AllBefore(v, lines[m])
      BY <2>2, <2>7, <3>2, ConcatBefore
    <3>4. AllBefore(u, lines[m])
      BY <1>2 DEF u
    <3> HIDE DEF v
    <3> QED
      BY <2>5, <2>9, <2>10, <3>3, <3>4, ConcatBefore
  <2> HIDE DEF v
  <2>15. r \in Seq(S) /\ InOrder(r)
    <3>1. v \in Seq(S) /\ u \in Seq(S)
      BY <2>5, <2>10
    <3>2. InOrder(v) /\ InOrder(u)
      BY <2>5, <2>10
    <3>3. v \o u \in Seq(S)
      BY <3>1, ConcatIs
    <3>4. InOrder(v \o u)
      BY <2>13, <3>1, <3>2, ConcatInOrder
    <3> QED
      BY <2>9, <3>3, <3>4
  <2>16. ToSet(v) \subseteq ToSet(r) /\ ToSet(u) \subseteq ToSet(r)
    BY <2>5, <2>9, <2>10, ConcatSet
  <2>17. ASSUME NEW m \in 1..n PROVE ToSet(lines[m]) \subseteq ToSet(r)
    <3>1. m \in 1..(n - 1) \/ m = n
      BY <1>1
    <3> QED
      BY <2>2, <2>11, <2>16, <3>1 DEF u
  <2> QED
    BY <2>6, <2>14, <2>15, <2>17 DEF LinesWritten, u
<1> QED
  BY <1>3, <1>4

\* strings.Join of the lines that the second loop leaves.
LEMMA JoinedWritten ==
  ASSUME NEW S, Newline \in S, NEW lines \in Seq(Seq(S)), LinesInOrder(lines), Sparse(lines),
         \A i \in 1..Len(lines) : Tidy(lines[i]) /\ Breakless(lines[i])
  PROVE  LinesWritten(S, lines, Len(lines), JoinWith(lines, <<Newline>>))
<1> DEFINE N == Len(lines)
           x == <<Newline>>
<1>1. N \in Nat
  BY Texts
<1>2. x \in Seq(S)
  OBVIOUS
<1> HIDE DEF x
<1>3. PICK f : IsJoin(f, S, lines, x)
  BY <1>2, JoinWithIs
<1>4. /\ JoinWith(lines, x) = f[N] /\ f[0] = <<>>
      /\ \A n \in 1..N : f[n] = IF n = 1 THEN lines[1] ELSE f[n - 1] \o x \o lines[n]
  BY <1>3 DEF IsJoin
<1> DEFINE good == {n \in 0..N : LinesWritten(S, lines, n, f[n])}
<1>5. 0 \in good
  <2>1. 0 \in 0..N
    BY <1>1
  <2>2. <<>> \in Seq(S) /\ Len(<<>>) = 0 /\ DOMAIN <<>> = {} /\ 1..0 = {}
    BY EmptySeq
  <2>2a. 1..(0 - 1) = {} /\ 1..(0 - 2) = {} /\ ~(0 > 0)
    OBVIOUS
  <2>3. LinesWritten(S, lines, 0, <<>>)
    <3>1. InOrder(<<>>) /\ \A m \in (0 + 1)..Len(lines) : AllBefore(<<>>, lines[m])
      BY <2>2 DEF InOrder, AllBefore
    <3>2. Calm(<<>>)
      BY <2>2, <2>2a DEF Calm
    <3> QED
      BY <2>2, <2>2a, <3>1, <3>2 DEF LinesWritten
  <2> QED
    BY <1>4, <2>1, <2>3
<1>6. ASSUME NEW n \in 1..N, n - 1 \in good PROVE n \in good
  <2>1. LinesWritten(S, lines, n - 1, f[n - 1])
    BY <1>6
  <2>2. f[n] = IF n = 1 THEN lines[1] ELSE f[n - 1] \o <<Newline>> \o lines[n]
    BY <1>4 DEF x
  <2>3. LinesWritten(S, lines, n, f[n])
    BY <2>1, <2>2, NextLineWritten
  <2>4. n \in 0..N
    BY <1>1
  <2> QED
    BY <2>3, <2>4
<1>7. \A n \in 0..N : n \in good
  <2> HIDE DEF good, N
  <2> QED
    BY <1>1, <1>5, <1>6, InductionTo
<1>8. N \in 0..N
  BY <1>1
<1>9. LinesWritten(S, lines, N, f[N])
  BY <1>7, <1>8
<1> QED
  BY <1>4, <1>9 DEF x

-----------------------------------------------------------------------------
(* Words that are still hyphenated *)

\* What is dropped is a hyphen and a newline between two runes that are named.
DroppedAt(t, h) ==
  /\ 0 < h /\ h + 2 < Len(t)
  /\ h \in Dropped(t) /\ h + 1 \in Dropped(t)
  /\ ~Blank(t[h]) /\ ~Blank(t[h + 3])
  /\ ~Letter(t[h + 1]) /\ ~Letter(t[h + 2])

LEMMA DroppedIs ==
  ASSUME NEW S, NEW t \in Seq(S), NEW x \in Dropped(t)
  PROVE  \E h \in Nat : DroppedAt(t, h) /\ (x = h \/ x = h + 1)
<1>1. PICK h \in Replaced(t) : x = h \/ x = h + 1
  BY DEF Dropped
<1>2. /\ h \in Offsets(t) /\ 0 < h /\ h + 2 < Len(t)
      /\ ClassAt(t, h - 1) \in Named /\ ClassAt(t, h) = "-"
      /\ ClassAt(t, h + 1) = "\n" /\ ClassAt(t, h + 2) \in Named
  BY DEF Replaced, HyphenBreaks
<1>3. /\ h \in Nat /\ h - 1 + 1 = h /\ h + 1 + 1 = h + 2 /\ h + 2 + 1 = h + 3
  BY <1>2, Texts DEF Offsets
<1>4. h \in Dropped(t) /\ h + 1 \in Dropped(t)
  BY DEF Dropped
<1>5. /\ t[h].c \in Named /\ t[h + 1].c = "-" /\ t[h + 2].c = "\n" /\ t[h + 3].c \in Named
  BY <1>2, <1>3 DEF ClassAt
<1>6. ~Blank(t[h]) /\ ~Blank(t[h + 3]) /\ ~Letter(t[h + 1]) /\ ~Letter(t[h + 2])
  BY <1>5 DEF Named, Blank, Letter, Words
<1> QED
  BY <1>1, <1>2, <1>3, <1>4, <1>6 DEF DroppedAt

\* kept[n] is what Unhyphenated keeps of the first n runes.
IsUnhyphenated(kept, S, t) ==
  /\ Unhyphenated(t) = kept[Len(t)]
  /\ kept[0] = <<>>
  /\ \A n \in 1..Len(t) :
       kept[n] = IF n - 1 \in Dropped(t) THEN kept[n - 1] ELSE Append(kept[n - 1], t[n])

\* The recursion of Unhyphenated has a solution, which its CHOOSE takes.
LEMMA UnhyphenatedIs ==
  ASSUME NEW S, NEW t \in Seq(S)
  PROVE  \E kept : IsUnhyphenated(kept, S, t)
<1> DEFINE N == Len(t)
           V == Seq(S)
           Rec(f) == f = [n \in 0..N |->
                            IF n = 0 THEN <<>>
                            ELSE IF n - 1 \in Dropped(t) THEN f[n - 1] ELSE Append(f[n - 1], t[n])]
           step == [p \in (1..N) \X V |->
                      IF p[1] - 1 \in Dropped(t) THEN p[2] ELSE Append(p[2], t[p[1]])]
<1>1. N \in Nat /\ <<>> \in V /\ \A n \in 1..N : t[n] \in S
  BY Texts, EmptySeq
<1>2. step \in [(1..N) \X V -> V]
  <2>1. \A n \in 1..N : \A s \in V : Append(s, t[n]) \in V
    BY <1>1, AppendIs
  <2>2. \A p \in (1..N) \X V :
          (IF p[1] - 1 \in Dropped(t) THEN p[2] ELSE Append(p[2], t[p[1]])) \in V
    BY <2>1
  <2> HIDE DEF N, V
  <2> QED
    BY <2>2
<1>3. PICK f \in [0..N -> V] : IsRecursion(f, N, <<>>, step)
  <2> HIDE DEF N, V, step
  <2> QED
    BY <1>1, <1>2, RecursionExists
<1>4. Rec(f)
  <2>1. ASSUME NEW n \in 0..N
        PROVE  f[n] = IF n = 0 THEN <<>>
                      ELSE IF n - 1 \in Dropped(t) THEN f[n - 1] ELSE Append(f[n - 1], t[n])
    <3>1. CASE n = 0
      BY <1>3, <3>1 DEF IsRecursion
    <3>2. CASE n # 0
      <4>1. n \in 1..N /\ n - 1 \in 0..N
        BY <1>1, <3>2
      <4>2. f[n - 1] \in V /\ f[n] = step[<<n, f[n - 1]>>]
        <5> HIDE DEF V, step, N
        <5> QED
          BY <1>3, <4>1 DEF IsRecursion
      <4> HIDE DEF N, V
      <4> QED
        BY <3>2, <4>1, <4>2
    <3> QED
      BY <3>1, <3>2
  <2> HIDE DEF V, step
  <2> QED
    BY <1>3, <2>1
<1> DEFINE kept == CHOOSE g : Rec(g)
<1>5. Unhyphenated(t) = kept[N]
  BY DEF Unhyphenated
<1>6. Rec(kept)
  <2> HIDE DEF Rec
  <2> QED
    BY <1>4
<1> HIDE DEF kept
<1>7. /\ kept[0] = <<>>
      /\ \A n \in 1..N :
           kept[n] = IF n - 1 \in Dropped(t) THEN kept[n - 1] ELSE Append(kept[n - 1], t[n])
  <2>1. 0 \in 0..N /\ \A n \in 1..N : n \in 0..N /\ n # 0
    BY <1>1
  <2> HIDE DEF N
  <2> QED
    BY <1>6, <2>1
<1> QED
  BY <1>5, <1>7 DEF IsUnhyphenated

\* out is what is left of the first n runes of t, read at the places w.
ReadAt(w, out, S, t, n) ==
  /\ out \in Seq(S) /\ w \in [1..Len(out) -> 1..n]
  /\ \A i \in 1..Len(out) : out[i] = t[w[i]] /\ w[i] - 1 \notin Dropped(t)
  /\ \A i, j \in 1..Len(out) : i < j => w[i] < w[j]
  /\ \A m \in 1..n : m - 1 \notin Dropped(t) => \E i \in 1..Len(out) : w[i] = m

\* One rune more is dropped or read.
LEMMA NextRead ==
  ASSUME NEW S, NEW t \in Seq(S), NEW n \in 1..Len(t), NEW w, NEW out,
         ReadAt(w, out, S, t, n - 1)
  PROVE  /\ n - 1 \in Dropped(t) => ReadAt(w, out, S, t, n)
         /\ n - 1 \notin Dropped(t) => \E v : ReadAt(v, Append(out, t[n]), S, t, n)
<1>1. /\ out \in Seq(S) /\ w \in [1..Len(out) -> 1..(n - 1)]
      /\ \A i \in 1..Len(out) : out[i] = t[w[i]] /\ w[i] - 1 \notin Dropped(t)
      /\ \A i, j \in 1..Len(out) : i < j => w[i] < w[j]
      /\ \A m \in 1..(n - 1) : m - 1 \notin Dropped(t) => \E i \in 1..Len(out) : w[i] = m
  BY DEF ReadAt
<1>2. n \in Nat /\ Len(out) \in Nat /\ t[n] \in S
  BY <1>1, Texts
<1>3. 1..(n - 1) \subseteq 1..n /\ \A m \in 1..n : m \in 1..(n - 1) \/ m = n
  BY <1>2
<1>4. ASSUME n - 1 \in Dropped(t) PROVE ReadAt(w, out, S, t, n)
  <2>1. w \in [1..Len(out) -> 1..n]
    BY <1>1, <1>3
  <2>2. \A m \in 1..n : m - 1 \notin Dropped(t) => \E i \in 1..Len(out) : w[i] = m
    BY <1>1, <1>3, <1>4
  <2> QED
    BY <1>1, <2>1, <2>2 DEF ReadAt
<1>5. ASSUME n - 1 \notin Dropped(t) PROVE \E v : ReadAt(v, Append(out, t[n]), S, t, n)
  <2> DEFINE L == Len(out)
             new == Append(out, t[n])
             v == [i \in 1..(L + 1) |-> IF i = L + 1 THEN n ELSE w[i]]
  <2>1. /\ new \in Seq(S) /\ Len(new) = L + 1
        /\ \A i \in 1..L : new[i] = out[i]
        /\ new[L + 1] = t[n]
    BY <1>1, <1>2, AppendIs
  <2>2. /\ L \in Nat /\ 1..L \subseteq 1..(L + 1) /\ L + 1 \in 1..(L + 1) /\ n \in 1..n
        /\ \A i \in 1..(L + 1) : i \in 1..L \/ i = L + 1
        /\ \A i \in 1..L : i # L + 1
    BY <1>2
  <2> HIDE DEF L, new
  <2>3. v[L + 1] = n /\ \A i \in 1..L : v[i] = w[i]
    BY <2>2
  <2>4. \A i \in 1..L : w[i] \in 1..(n - 1)
    BY <1>1 DEF L
  <2>5. v \in [1..(L + 1) -> 1..n]
    BY <1>3, <2>2, <2>4
  <2> HIDE DEF v
  <2>6. \A i \in 1..(L + 1) : new[i] = t[v[i]] /\ v[i] - 1 \notin Dropped(t)
    BY <1>1, <1>5, <2>1, <2>2, <2>3 DEF L
  <2>7. ASSUME NEW i \in 1..(L + 1), NEW j \in 1..(L + 1), i < j PROVE v[i] < v[j]
    <3>1. i \in 1..L
      BY <2>2, <2>7
    <3>2. CASE j \in 1..L
      BY <1>1, <2>3, <2>7, <3>1, <3>2 DEF L
    <3>3. CASE j = L + 1
      <4>1. w[i] \in 1..(n - 1)
        BY <2>4, <3>1
      <4>2. w[i] < n
        BY <1>2, <4>1
      <4> QED
        BY <2>3, <3>1, <3>3, <4>2
    <3> QED
      BY <2>2, <3>2, <3>3
  <2>8. ASSUME NEW m \in 1..n, m - 1 \notin Dropped(t) PROVE \E i \in 1..(L + 1) : v[i] = m
    <3>1. CASE m = n
      BY <2>2, <2>3, <3>1
    <3>2. CASE m \in 1..(n - 1)
      <4>1. PICK i \in 1..L : w[i] = m
        BY <1>1, <2>8, <3>2 DEF L
      <4> QED
        BY <2>2, <2>3, <4>1
    <3> QED
      BY <1>3, <3>1, <3>2
  <2>9. ReadAt(v, new, S, t, n)
    BY <2>1, <2>5, <2>6, <2>7, <2>8 DEF ReadAt
  <2> QED
    BY <2>9 DEF new
<1> QED
  BY <1>4, <1>5

\* So all of it is read.
LEMMA UnhyphenatedReads ==
  ASSUME NEW S, NEW t \in Seq(S)
  PROVE  \E w : ReadAt(w, Unhyphenated(t), S, t, Len(t))
<1> DEFINE N == Len(t)
<1>1. N \in Nat
  BY Texts
<1>2. PICK kept : IsUnhyphenated(kept, S, t)
  BY UnhyphenatedIs
<1>3. /\ Unhyphenated(t) = kept[N] /\ kept[0] = <<>>
      /\ \A n \in 1..N : kept[n] = IF n - 1 \in Dropped(t) THEN kept[n - 1]
                                   ELSE Append(kept[n - 1], t[n])
  BY <1>2 DEF IsUnhyphenated
<1> DEFINE read == {n \in 0..N : \E w : ReadAt(w, kept[n], S, t, n)}
<1>4. 0 \in read
  <2> DEFINE w == [i \in 1..0 |-> i]
  <2>1. <<>> \in Seq(S) /\ Len(<<>>) = 0 /\ 1..0 = {}
    BY EmptySeq
  <2>2. w \in [1..0 -> 1..0]
    BY <2>1
  <2> HIDE DEF w
  <2>3. ReadAt(w, <<>>, S, t, 0)
    BY <2>1, <2>2 DEF ReadAt
  <2>4. 0 \in 0..N
    BY <1>1
  <2> QED
    BY <1>3, <2>3, <2>4
<1>5. ASSUME NEW n \in 1..N, n - 1 \in read PROVE n \in read
  <2>1. PICK w : ReadAt(w, kept[n - 1], S, t, n - 1)
    BY <1>5
  <2>2. \E v : ReadAt(v, kept[n], S, t, n)
    <3>1. CASE n - 1 \in Dropped(t)
      BY <1>3, <2>1, <3>1, NextRead
    <3>2. CASE n - 1 \notin Dropped(t)
      <4>1. kept[n] = Append(kept[n - 1], t[n])
        BY <1>3, <3>2
      <4> QED
        BY <2>1, <3>2, <4>1, NextRead
    <3> QED
      BY <3>1, <3>2
  <2>3. n \in 0..N
    BY <1>1
  <2> QED
    BY <2>2, <2>3
<1>6. \A n \in 0..N : n \in read
  <2> HIDE DEF read, N
  <2> QED
    BY <1>1, <1>4, <1>5, InductionTo
<1>7. N \in 0..N
  BY <1>1
<1> QED
  BY <1>3, <1>6, <1>7

\* Runes that are read one after the other stood so, unless something between them
\* was dropped, and then neither of them is whitespace.
LEMMA ReadNext ==
  ASSUME NEW S, NEW t \in Seq(S), NEW u, NEW w, ReadAt(w, u, S, t, Len(t)),
         NEW i \in 1..(Len(u) - 1)
  PROVE  w[i + 1] = w[i] + 1 \/ (~Blank(u[i]) /\ ~Blank(u[i + 1]))
<1>1. /\ u \in Seq(S) /\ w \in [1..Len(u) -> 1..Len(t)]
      /\ \A k \in 1..Len(u) : u[k] = t[w[k]] /\ w[k] - 1 \notin Dropped(t)
      /\ \A k, m \in 1..Len(u) : k < m => w[k] < w[m]
      /\ \A m \in 1..Len(t) : m - 1 \notin Dropped(t) => \E k \in 1..Len(u) : w[k] = m
  BY DEF ReadAt
<1>2. Len(u) \in Nat /\ Len(t) \in Nat
  BY <1>1, Texts
<1>3. i \in 1..Len(u) /\ i + 1 \in 1..Len(u) /\ i < i + 1 /\ i \in Nat
  BY <1>2
<1> DEFINE a == w[i]
           b == w[i + 1]
<1>4. a \in 1..Len(t) /\ b \in 1..Len(t) /\ a < b
  BY <1>1, <1>3
<1>5. u[i] = t[a] /\ u[i + 1] = t[b] /\ a - 1 \notin Dropped(t) /\ b - 1 \notin Dropped(t)
  BY <1>1, <1>3
<1>6. ASSUME NEW m \in 1..Len(t), a < m, m < b PROVE m - 1 \in Dropped(t)
  <2>1. SUFFICES ASSUME m - 1 \notin Dropped(t) PROVE FALSE
    OBVIOUS
  <2>2. PICK k \in 1..Len(u) : w[k] = m
    BY <1>1, <2>1
  <2>3. k \in Nat /\ (k < i \/ k = i \/ k = i + 1 \/ i + 1 < k)
    BY <1>2, <1>3
  <2>4. k < i => m < a
    BY <1>1, <1>3, <2>2
  <2>5. i + 1 < k => b < m
    BY <1>1, <1>3, <2>2
  <2> QED
    BY <1>4, <1>6, <2>2, <2>3, <2>4, <2>5
<1> HIDE DEF a, b
<1>7. ASSUME b # a + 1 PROVE ~Blank(t[a]) /\ ~Blank(t[b])
  <2>1. /\ a \in Nat /\ b \in Nat
        /\ a + 1 \in 1..Len(t) /\ a < a + 1 /\ a + 1 < b /\ (a + 1) - 1 = a
        /\ b - 1 \in 1..Len(t) /\ a < b - 1 /\ b - 1 < b /\ (b - 1) - 1 = b - 2
    BY <1>2, <1>4, <1>7
  <2>2. a \in Dropped(t) /\ b - 2 \in Dropped(t)
    BY <1>6, <2>1
  <2>3. PICK h \in Nat : DroppedAt(t, h) /\ (a = h \/ a = h + 1)
    BY <2>2, DroppedIs
  <2>4. PICK g \in Nat : DroppedAt(t, g) /\ (b - 2 = g \/ b - 2 = g + 1)
    BY <2>2, DroppedIs
  <2>5. /\ h \in Dropped(t) /\ ~Blank(t[h])
        /\ g + 1 \in Dropped(t) /\ ~Blank(t[g + 3])
    BY <2>3, <2>4 DEF DroppedAt
  <2>6. a = h
    <3>1. a = h + 1 => a - 1 = h
      BY <2>3
    <3> QED
      BY <1>5, <2>3, <2>5, <3>1
  <2>7. b = g + 3
    <3>1. b - 2 = g => b - 1 = g + 1
      BY <2>1, <2>4
    <3>2. b - 2 = g + 1 => b = g + 3
      BY <2>1, <2>4
    <3> QED
      BY <1>5, <2>4, <2>5, <3>1, <3>2
  <2> QED
    BY <2>5, <2>6, <2>7
<1> QED
  BY <1>5, <1>7 DEF a, b

\* A normalised text stays normalised, and keeps its letters in their order.
LEMMA UnhyphenatedKeeps ==
  ASSUME NEW S, NEW t \in Seq(S), Well(t), InOrder(t), NEW u, u = Unhyphenated(t)
  PROVE  /\ u \in Seq(S) /\ Well(u) /\ InOrder(u)
         /\ \A m \in DOMAIN t : Letter(t[m]) => t[m] \in ToSet(u)
<1>1. PICK w : ReadAt(w, u, S, t, Len(t))
  BY UnhyphenatedReads
<1>2. /\ u \in Seq(S) /\ w \in [1..Len(u) -> 1..Len(t)]
      /\ \A i \in 1..Len(u) : u[i] = t[w[i]] /\ w[i] - 1 \notin Dropped(t)
      /\ \A i, j \in 1..Len(u) : i < j => w[i] < w[j]
      /\ \A m \in 1..Len(t) : m - 1 \notin Dropped(t) => \E i \in 1..Len(u) : w[i] = m
  BY <1>1 DEF ReadAt
<1>3. /\ Len(u) \in Nat /\ DOMAIN u = 1..Len(u)
      /\ Len(t) \in Nat /\ DOMAIN t = 1..Len(t)
  BY <1>2, Texts
<1>4. \A i \in 1..Len(u) : w[i] \in 1..Len(t) /\ u[i] = t[w[i]]
  BY <1>2
<1>4a. \A L \in Nat : \A i \in 1..L : ~(L < i) /\ (i = L \/ i < L)
  OBVIOUS
<1>5. InOrder(u)
  <2>1. ASSUME NEW i \in 1..Len(u), NEW j \in 1..Len(u), i < j,
               u[i].at # Nowhere, u[j].at # Nowhere
        PROVE  Before(u[i].at, u[j].at)
    <3>1. w[i] \in 1..Len(t) /\ w[j] \in 1..Len(t) /\ w[i] < w[j]
      BY <1>2, <1>4, <2>1
    <3>2. u[i] = t[w[i]] /\ u[j] = t[w[j]]
      BY <1>4
    <3>3. t[w[i]].at # Nowhere /\ t[w[j]].at # Nowhere
      BY <2>1, <3>2
    <3>4. Before(t[w[i]].at, t[w[j]].at)
      BY <1>3, <3>1, <3>3 DEF InOrder
    <3> QED
      BY <3>2, <3>4
  <2> QED
    BY <1>3, <2>1 DEF InOrder
<1>6. ASSUME NEW m \in DOMAIN t, Letter(t[m]) PROVE t[m] \in ToSet(u)
  <2>1. m \in 1..Len(t) /\ m \in Nat
    BY <1>3
  <2>2. m - 1 \notin Dropped(t)
    <3>1. SUFFICES ASSUME m - 1 \in Dropped(t) PROVE FALSE
      OBVIOUS
    <3>2. PICK h \in Nat : DroppedAt(t, h) /\ (m - 1 = h \/ m - 1 = h + 1)
      BY <3>1, DroppedIs
    <3>3. m = h + 1 \/ m = h + 2
      BY <2>1, <3>2
    <3>4. ~Letter(t[h + 1]) /\ ~Letter(t[h + 2])
      BY <3>2 DEF DroppedAt
    <3> QED
      BY <1>6, <3>3, <3>4
  <2>3. PICK i \in 1..Len(u) : w[i] = m
    BY <1>2, <2>1, <2>2
  <2>4. u[i] = t[m] /\ i \in DOMAIN u
    BY <1>3, <1>4, <2>3
  <2> QED
    BY <2>4 DEF ToSet
<1>7. ASSUME Len(u) > 0 PROVE ~Blank(u[1]) /\ ~Blank(u[Len(u)])
  <2>1. 1 \in 1..Len(u) /\ Len(u) \in 1..Len(u)
    BY <1>3, <1>7
  <2>2. Len(t) > 0
    <3>1. w[1] \in 1..Len(t)
      BY <1>4, <2>1
    <3> QED
      BY <1>3, <3>1
  <2>3. ~Blank(t[1]) /\ ~Blank(t[Len(t)])
    BY <2>2 DEF Well
  <2>4. 1 \in 1..Len(t) /\ Len(t) \in 1..Len(t)
    BY <1>3, <2>2
  <2>5. 1 - 1 \notin Dropped(t) /\ Len(t) - 1 \notin Dropped(t)
    <3>1. SUFFICES ASSUME NEW x, x = 1 - 1 \/ x = Len(t) - 1, x \in Dropped(t) PROVE FALSE
      OBVIOUS
    <3>2. PICK h \in Nat : DroppedAt(t, h) /\ (x = h \/ x = h + 1)
      BY <3>1, DroppedIs
    <3>3. 0 < h /\ h + 2 < Len(t)
      BY <3>2 DEF DroppedAt
    <3> QED
      BY <1>3, <3>1, <3>2, <3>3
  <2>6. w[1] = 1
    <3>1. PICK i \in 1..Len(u) : w[i] = 1
      BY <1>2, <2>4, <2>5
    <3>2. i = 1 \/ 1 < i
      OBVIOUS
    <3>3. 1 < i => w[1] < 1
      BY <1>2, <2>1, <3>1
    <3>4. w[1] \in 1..Len(t)
      BY <1>4, <2>1
    <3> QED
      BY <3>1, <3>2, <3>3, <3>4
  <2>7. w[Len(u)] = Len(t)
    <3>1. PICK i \in 1..Len(u) : w[i] = Len(t)
      BY <1>2, <2>4, <2>5
    <3>2. i = Len(u) \/ i < Len(u)
      BY <1>3, <1>4a
    <3>3. i < Len(u) => Len(t) < w[Len(u)]
      BY <1>2, <2>1, <3>1
    <3>4. ~(Len(t) < w[Len(u)])
      BY <1>3, <1>4, <1>4a, <2>1
    <3> QED
      BY <3>1, <3>2, <3>3, <3>4
  <2> QED
    BY <1>4, <2>1, <2>3, <2>6, <2>7
<1>8. \A i \in 1..Len(u) : Break(u[i]) => u[i] = Newline
  BY <1>4 DEF Well
<1>9. ASSUME NEW i \in 1..(Len(u) - 1), Break(u[i + 1]) PROVE ~Indent(u[i])
  <2>1. Blank(u[i + 1])
    BY <1>9, Kinds
  <2>2. w[i + 1] = w[i] + 1
    BY <1>1, <2>1, ReadNext
  <2>3. i \in 1..Len(u) /\ i + 1 \in 1..Len(u)
    BY <1>3
  <2>4. /\ w[i] \in 1..Len(t) /\ w[i] + 1 \in 1..Len(t)
        /\ u[i] = t[w[i]] /\ u[i + 1] = t[w[i] + 1]
    BY <1>4, <2>2, <2>3
  <2>5. w[i] \in 1..(Len(t) - 1)
    BY <1>3, <2>4
  <2> QED
    BY <1>9, <2>4, <2>5 DEF Well
<1>10. ASSUME NEW i \in 1..(Len(u) - 2), Break(u[i]), Break(u[i + 1]), Break(u[i + 2])
       PROVE  FALSE
  <2>1. Blank(u[i + 1])
    BY <1>10, Kinds
  <2>2. i \in 1..(Len(u) - 1) /\ i + 1 \in 1..(Len(u) - 1) /\ (i + 1) + 1 = i + 2
    BY <1>3
  <2>3. w[i + 1] = w[i] + 1
    BY <1>1, <2>1, <2>2, ReadNext
  <2>4. w[(i + 1) + 1] = w[i + 1] + 1
    BY <1>1, <2>1, <2>2, ReadNext
  <2>5. i \in 1..Len(u) /\ i + 1 \in 1..Len(u) /\ i + 2 \in 1..Len(u)
    BY <1>3
  <2>6. w[i] \in 1..Len(t) /\ w[i + 1] \in 1..Len(t) /\ w[i + 2] \in 1..Len(t)
    BY <1>4, <2>5
  <2>7. w[i + 2] = w[i] + 2 /\ w[i] \in 1..(Len(t) - 2)
    <3>1. \A a \in 1..Len(t) : a + 2 \in 1..Len(t) => a \in 1..(Len(t) - 2)
      BY <1>3
    <3>2. w[i + 2] = (w[i] + 1) + 1
      BY <2>2, <2>3, <2>4
    <3>3. w[i + 2] = w[i] + 2
      BY <2>6, <3>2
    <3> QED
      BY <2>6, <3>1, <3>3
  <2>8. u[i] = t[w[i]] /\ u[i + 1] = t[w[i] + 1] /\ u[i + 2] = t[w[i] + 2]
    BY <1>4, <2>3, <2>5, <2>7
  <2> QED
    BY <1>10, <2>7, <2>8 DEF Well
<1>11. Well(u)
  BY <1>7, <1>8, <1>9, <1>10 DEF Well
<1> QED
  BY <1>2, <1>5, <1>6, <1>11

-----------------------------------------------------------------------------
(* The text of a page *)

\* A calm text is normalised once it is trimmed.
LEMMA TrimCalm ==
  ASSUME NEW S, NEW t \in Seq(S), Calm(t), \A r \in S : Break(r) => r = Newline,
         NEW u, u = TrimSpace(t)
  PROVE  Well(u)
<1>1. PICK a \in Nat, b \in Nat :
        /\ a <= b /\ b <= Len(t)
        /\ TrimSpace(t) = Slice(t, a, b)
        /\ \A i \in Offsets(t) : ~IsSpace(t, i) => a <= i /\ i < b
        /\ a < b => ~IsSpace(t, a) /\ ~IsSpace(t, b - 1)
  BY TrimSpaceIs
<1>2. u = Slice(t, a, b) /\ a <= b /\ b <= Len(t)
  BY <1>1
<1>3. Taken(u, t, a, b)
  BY <1>2, TakenOut
<1>4. Len(u) = b - a /\ \A i \in 1..(b - a) : u[i] = t[a + i]
  BY <1>3 DEF Taken
<1>5. Len(t) \in Nat
  BY Texts
<1>6. \A i \in 1..Len(u) : Break(u[i]) => u[i] = Newline
  <2> TAKE i \in 1..Len(u)
  <2>1. a + i \in 1..Len(t) /\ u[i] = t[a + i]
    BY <1>2, <1>4, <1>5
  <2>2. u[i] \in S
    BY <2>1, Texts
  <2> QED
    BY <2>2
<1>7. ASSUME Len(u) > 0 PROVE ~Blank(u[1]) /\ ~Blank(u[Len(u)])
  <2>1. a < b /\ 1 \in 1..(b - a) /\ b - a \in 1..(b - a) /\ a + (b - a) = (b - 1) + 1
    BY <1>2, <1>4, <1>7
  <2>2. ~Blank(t[a + 1]) /\ ~Blank(t[(b - 1) + 1])
    BY <1>1, <2>1, KindsAt
  <2>3. u[1] = t[a + 1] /\ u[Len(u)] = t[(b - 1) + 1]
    BY <1>4, <2>1
  <2> QED
    BY <2>2, <2>3
<1>8. ASSUME NEW i \in 1..(Len(u) - 1), Break(u[i + 1]) PROVE ~Indent(u[i])
  <2>1. /\ i \in 1..(b - a) /\ i + 1 \in 1..(b - a)
        /\ a + i \in 1..(Len(t) - 1) /\ a + (i + 1) = (a + i) + 1
    BY <1>2, <1>4, <1>5
  <2>2. u[i] = t[a + i] /\ u[i + 1] = t[(a + i) + 1]
    BY <1>4, <2>1
  <2> QED
    BY <1>8, <2>1, <2>2 DEF Calm
<1>9. ASSUME NEW i \in 1..(Len(u) - 2) PROVE ~(Break(u[i]) /\ Break(u[i + 1]) /\ Break(u[i + 2]))
  <2>1. /\ i \in 1..(b - a) /\ i + 1 \in 1..(b - a) /\ i + 2 \in 1..(b - a)
        /\ a + i \in 1..(Len(t) - 2) /\ a + (i + 1) = (a + i) + 1 /\ a + (i + 2) = (a + i) + 2
    BY <1>2, <1>4, <1>5
  <2>2. u[i] = t[a + i] /\ u[i + 1] = t[(a + i) + 1] /\ u[i + 2] = t[(a + i) + 2]
    BY <1>4, <2>1
  <2> QED
    BY <2>1, <2>2 DEF Calm
<1> QED
  BY <1>6, <1>7, <1>8, <1>9 DEF Well

\* What is normalised keeps the letters of the lines, in their order.
PageText(p, lines, u) ==
  /\ u \in Seq(TextRune(p)) /\ Well(u) /\ InOrder(u)
  /\ \A m \in 1..Len(lines) : \A j \in DOMAIN lines[m] :
       Letter(lines[m][j]) => lines[m][j] \in ToSet(u)

\* Spaces are inserted in lines, newlines between them.
LEMMA InsertedRunes ==
  ASSUME NEW p
  PROVE  Spaced(LineRune(p)) /\ Newline \in TextRune(p) /\ LineRune(p) \subseteq TextRune(p)
<1>1. ~Break(New(" "))
  BY Kinds, InsertedKinds
<1>2. Spaced(LineRune(p))
  BY <1>1, InsertedKinds DEF Spaced, LineRune
<1> QED
  BY <1>2, InsertedKinds DEF LineRune, TextRune

\* normalizeText keeps all letters of a page, in order, and its result is normalised.
LEMMA NormalizeTextIs ==
  ASSUME NEW p, NEW lines \in Seq(Seq(LineRune(p))), LinesInOrder(lines), NEW preserveIndent
  PROVE  PageText(p, lines, NormalizeText(lines, preserveIndent))
<1> DEFINE S == LineRune(p)
           T == TextRune(p)
           kept == KeptLines(lines, preserveIndent)
           joined == JoinedLines(kept)
           t == JoinWith(joined, <<Newline>>)
           u == TrimSpace(t)
           v == Unhyphenated(u)
<1>1. Spaced(S) /\ Newline \in T /\ S \subseteq T
  BY InsertedRunes
<1>2. Gathered(S, lines, Len(lines), kept)
  <2> HIDE DEF S
  <2>1. lines \in Seq(Seq(S))
    BY DEF S
  <2> QED
    BY <2>1, KeptLinesGather
<1> HIDE DEF S, kept
<1>3. kept \in Seq(Seq(S)) /\ LinesInOrder(kept) /\ \A i \in 1..Len(kept) : Tidy(kept[i])
  BY <1>2 DEF Gathered
<1>4. Gathered(S, kept, Len(kept), joined) /\ Sparse(joined)
  BY <1>1, <1>3, JoinedLinesGather
<1> HIDE DEF joined
<1>5. joined \in Seq(Seq(S)) /\ LinesInOrder(joined) /\ \A i \in 1..Len(joined) : Tidy(joined[i])
  BY <1>4 DEF Gathered
<1>6. joined \in Seq(Seq(T))
  BY <1>1, <1>5
<1>7. \A i \in 1..Len(joined) : Breakless(joined[i])
  <2> TAKE i \in 1..Len(joined)
  <2>1. joined[i] \in Seq(S)
    BY <1>5, Texts
  <2>2. \A k \in 1..Len(joined[i]) : joined[i][k] \in S
    BY <2>1, Texts
  <2> QED
    BY <2>2 DEF Breakless, S, LineRune
<1>8. LinesWritten(T, joined, Len(joined), t)
  <2> HIDE DEF T
  <2> QED
    BY <1>1, <1>4, <1>5, <1>6, <1>7, JoinedWritten
<1> HIDE DEF t
<1>9. t \in Seq(T) /\ InOrder(t) /\ Calm(t) /\ \A m \in 1..Len(joined) : ToSet(joined[m]) \subseteq ToSet(t)
  BY <1>8 DEF LinesWritten
<1>10. \A r \in T : Break(r) => r = Newline
  BY DEF TextRune
<1> HIDE DEF T
<1>11. Well(u)
  BY <1>9, <1>10, TrimCalm
<1>12. Keeps(T, u, t)
  BY <1>9, TrimSpaceKeeps
<1> HIDE DEF u
<1>13. u \in Seq(T) /\ InOrder(u)
  BY <1>9, <1>12 DEF Keeps
<1>14. ASSUME NEW m \in 1..Len(lines), NEW j \in DOMAIN lines[m], Letter(lines[m][j])
       PROVE  lines[m][j] \in ToSet(u)
  <2> DEFINE x == lines[m][j]
  <2>1. Among(x, kept)
    BY <1>2, <1>14 DEF Gathered
  <2>1a. Letter(x)
    BY <1>14
  <2> HIDE DEF x
  <2>2. PICK i \in 1..Len(kept) : x \in ToSet(kept[i])
    BY <2>1 DEF Among
  <2>3. PICK k \in DOMAIN kept[i] : x = kept[i][k]
    BY <2>2 DEF ToSet
  <2>4. Among(x, joined)
    BY <1>4, <2>1a, <2>3 DEF Gathered
  <2>5. x \in ToSet(t)
    BY <1>9, <2>4 DEF Among
  <2>6. PICK n \in DOMAIN t : x = t[n]
    BY <2>5 DEF ToSet
  <2>7. x \in ToSet(u)
    BY <1>12, <2>1a, <2>6 DEF Keeps
  <2> QED
    BY <2>7 DEF x
<1>15. /\ v \in Seq(T) /\ Well(v) /\ InOrder(v)
       /\ \A m \in DOMAIN u : Letter(u[m]) => u[m] \in ToSet(v)
  BY <1>11, <1>13, UnhyphenatedKeeps
<1> HIDE DEF v
<1>16. ASSUME NEW m \in 1..Len(lines), NEW j \in DOMAIN lines[m], Letter(lines[m][j])
       PROVE  lines[m][j] \in ToSet(v)
  <2> DEFINE x == lines[m][j]
  <2>1. Letter(x) /\ x \in ToSet(u)
    BY <1>14, <1>16
  <2> HIDE DEF x
  <2>2. PICK k \in DOMAIN u : x = u[k]
    BY <2>1 DEF ToSet
  <2>3. x \in ToSet(v)
    BY <1>15, <2>1, <2>2
  <2> QED
    BY <2>3 DEF x
<1>17. v = NormalizeText(lines, preserveIndent)
  BY DEF v, u, t, joined, kept, NormalizeText
<1>18. PageText(p, lines, v)
  BY <1>15, <1>16 DEF PageText, T
<1> QED
  BY <1>17, <1>18

-----------------------------------------------------------------------------
(* Pages *)

\* A page that is laid after others that end at E.
BoundaryLast(bs, b, E) ==
  /\ \A i \in 1..Len(bs) : bs[i].end <= E /\ bs[i].page < b.page
  /\ bs # <<>> => bs[Len(bs)].end = E
  /\ bs = <<>> => E = 0
  /\ E < b.end

\* cs are the boundaries bs and, from E on, b.
PagesWith(bs, b, E, cs) ==
  /\ cs \in Seq(Boundary) /\ Increasing(cs)
  /\ \A o \in Nat : PageForOffset(cs, o) = IF o < E THEN PageForOffset(bs, o) ELSE b.page

\* So they are when b is appended.
LEMMA BoundaryAdded ==
  ASSUME NEW bs \in Seq(Boundary), Increasing(bs), NEW b \in Boundary, NEW E \in Nat,
         BoundaryLast(bs, b, E), NEW new, new = Append(bs, b)
  PROVE  PagesWith(bs, b, E, new)
<1>0. /\ \A i \in 1..Len(bs) : bs[i].end <= E /\ bs[i].page < b.page
      /\ bs # <<>> => bs[Len(bs)].end = E
      /\ bs = <<>> => E = 0
      /\ E < b.end
  BY DEF BoundaryLast
<1> DEFINE N == Len(bs)
<1>1. N \in Nat /\ DOMAIN bs = 1..N /\ (bs = <<>> <=> N = 0)
  BY Texts
<1>2. new \in Seq(Boundary) /\ Len(new) = N + 1 /\ (\A i \in 1..N : new[i] = bs[i]) /\ new[N + 1] = b
  BY AppendIs
<1>3. \A i \in 1..N : bs[i].end \in Nat /\ bs[i].page \in Nat /\ bs[i].end <= E /\ bs[i].page < b.page
  <2> TAKE i \in 1..N
  <2>1. bs[i] \in Boundary
    BY Texts
  <2> QED
    BY <1>0, <2>1 DEF Boundary
<1>4. b.end \in Nat /\ b.page \in Nat
  BY DEF Boundary
<1> HIDE DEF N
<1>5. DOMAIN new = 1..(N + 1)
  <2>1. DOMAIN new = 1..Len(new)
    BY <1>2, LenProperties
  <2> QED
    BY <1>2, <2>1
<1>6. \A i \in 1..(N + 1) : i \in 1..N \/ i = N + 1
  BY <1>1
<1>7. Increasing(new)
  <2>1. ASSUME NEW i \in 1..(N + 1), NEW j \in 1..(N + 1), i < j
        PROVE  new[i].end < new[j].end /\ new[i].page < new[j].page
    <3>1. i \in 1..N
      BY <1>1, <2>1
    <3>2. CASE j \in 1..N
      BY <1>1, <1>2, <2>1, <3>1, <3>2 DEF Increasing
    <3>3. CASE j = N + 1
      <4>1. bs[i].end <= E /\ bs[i].end \in Nat /\ bs[i].page < b.page
        BY <1>3, <3>1
      <4>2. bs[i].end < b.end
        BY <1>0, <1>4, <4>1
      <4> QED
        BY <1>2, <3>1, <3>3, <4>1, <4>2
    <3> QED
      BY <1>6, <3>2, <3>3
  <2> QED
    BY <1>5, <2>1 DEF Increasing
<1>8. ASSUME NEW o \in Nat
      PROVE  PageForOffset(new, o) = IF o < E THEN PageForOffset(bs, o) ELSE b.page
  <2>1. new # <<>>
    BY <1>1, <1>2, Texts
  <2>2. PICK i : IsPage(new, o, i)
    BY <1>2, <2>1, PageIs
  <2>3. /\ i \in 1..(N + 1) /\ PageForOffset(new, o) = new[i].page
        /\ \A j \in 1..(i - 1) : new[j].end <= o
        /\ new[i].end > o \/ i = N + 1
    BY <1>2, <2>2 DEF IsPage
  <2>4. CASE o >= E
    <3>1. i = N + 1
      <4>1. ASSUME i \in 1..N PROVE FALSE
        <5> DEFINE e == new[i].end
        <5>1. e <= E /\ e \in Nat /\ i # N + 1
          BY <1>1, <1>2, <1>3, <4>1
        <5>2. e > o
          BY <2>3, <5>1
        <5> HIDE DEF e
        <5> QED
          BY <2>4, <5>1, <5>2
      <4> QED
        BY <1>6, <2>3, <4>1
    <3>2. ~(o < E)
      BY <2>4
    <3> QED
      BY <1>2, <2>3, <3>1, <3>2
  <2>5. CASE o < E
    <3>1. bs # <<>> /\ N \in 1..N /\ bs[N].end = E
      <4>1. bs # <<>>
        BY <1>0, <2>5
      <4> QED
        BY <1>0, <1>1, <4>1 DEF N
    <3>2. i \in 1..N
      <4>1. ASSUME i = N + 1 PROVE FALSE
        <5>1. N \in 1..(i - 1)
          BY <1>1, <3>1, <4>1
        <5>2. new[N].end <= o /\ new[N] = bs[N]
          BY <1>2, <2>3, <3>1, <5>1
        <5> QED
          BY <2>5, <3>1, <5>2
      <4> QED
        BY <1>6, <2>3, <4>1
    <3>3. bs[i].end > o
      <4>1. i # N + 1
        BY <1>1, <3>2
      <4> QED
        BY <1>2, <2>3, <3>2, <4>1
    <3>4. PICK k : IsPage(bs, o, k)
      BY <3>1, PageIs
    <3>5. /\ k \in 1..N /\ PageForOffset(bs, o) = bs[k].page
          /\ \A j \in 1..(k - 1) : bs[j].end <= o
          /\ bs[k].end > o \/ k = N
      BY <3>4 DEF IsPage, N
    <3>6. ~(i < k)
      <4>1. ASSUME i < k PROVE FALSE
        <5>1. i \in 1..(k - 1)
          BY <3>2, <3>5, <4>1
        <5>2. bs[i].end <= o /\ bs[i].end \in Nat
          BY <1>3, <3>2, <3>5, <5>1
        <5> QED
          BY <3>3, <5>2
      <4> QED
        BY <4>1
    <3>7. ~(k < i)
      <4>1. ASSUME k < i PROVE FALSE
        <5>1. k \in 1..(i - 1) /\ k # N
          BY <1>1, <3>2, <3>5, <4>1
        <5>2. bs[k].end > o
          BY <3>5, <5>1
        <5>3. bs[k].end <= o /\ bs[k].end \in Nat
          BY <1>2, <1>3, <2>3, <3>5, <5>1
        <5> QED
          BY <5>2, <5>3
      <4> QED
        BY <4>1
    <3>8. i = k
      BY <1>1, <3>2, <3>5, <3>6, <3>7
    <3> QED
      BY <1>2, <2>3, <2>5, <3>2, <3>5, <3>8
  <2>6. o >= E \/ o < E
    OBVIOUS
  <2> QED
    BY <2>4, <2>5, <2>6
<1> QED
  BY <1>2, <1>7, <1>8 DEF PagesWith

\* Two texts with a blank line between them.
IsLaid(r, t, u) ==
  /\ r \in Seq(Rune) /\ Len(r) = Len(t) + 2 + Len(u)
  /\ \A i \in 1..Len(t) : r[i] = t[i]
  /\ r[Len(t) + 1] = Newline /\ r[Len(t) + 2] = Newline
  /\ \A i \in 1..Len(u) : r[Len(t) + 2 + i] = u[i]

\* A text after another and a blank line.
LEMMA LaidIs ==
  ASSUME NEW t \in Seq(Rune), NEW u \in Seq(Rune)
  PROVE  /\ IsLaid(t \o BlankLine \o u, t, u)
         /\ t \o BlankLine \in Seq(Rune) /\ Len(t \o BlankLine) = Len(t) + 2
<1> DEFINE x == BlankLine
           v == t \o x
           r == v \o u
<1>1. x \in Seq(Rune) /\ Len(x) = 2 /\ x[1] = Newline /\ x[2] = Newline
  BY BlankLineIs
<1>1a. x \in Seq(Rune)
  BY <1>1
<1> HIDE DEF x
<1>2. /\ v \in Seq(Rune) /\ Len(v) = Len(t) + Len(x)
      /\ \A i \in 1..Len(t) : v[i] = t[i]
      /\ \A i \in 1..Len(x) : v[Len(t) + i] = x[i]
  BY <1>1a, ConcatIs
<1>2a. v \in Seq(Rune)
  BY <1>2
<1> HIDE DEF v
<1>3. /\ r \in Seq(Rune) /\ Len(r) = Len(v) + Len(u)
      /\ \A i \in 1..Len(v) : r[i] = v[i]
      /\ \A i \in 1..Len(u) : r[Len(v) + i] = u[i]
  BY <1>2a, ConcatIs
<1> HIDE DEF r
<1>4. Len(t) \in Nat /\ Len(u) \in Nat
  BY Texts
<1>5. Len(v) = Len(t) + 2 /\ 1 \in 1..Len(x) /\ 2 \in 1..Len(x)
  BY <1>1, <1>2
<1>6. v[Len(t) + 1] = Newline /\ v[Len(t) + 2] = Newline
  BY <1>1, <1>2, <1>5
<1>7. 1..Len(t) \subseteq 1..Len(v) /\ Len(t) + 1 \in 1..Len(v) /\ Len(t) + 2 \in 1..Len(v)
  BY <1>4, <1>5
<1>8. \A i \in 1..Len(t) : r[i] = t[i]
  BY <1>2, <1>3, <1>7
<1>9. r[Len(t) + 1] = Newline /\ r[Len(t) + 2] = Newline
  BY <1>3, <1>6, <1>7
<1>10. Len(r) = Len(t) + 2 + Len(u) /\ \A i \in 1..Len(u) : r[Len(t) + 2 + i] = u[i]
  BY <1>3, <1>5
<1>11. IsLaid(r, t, u)
  BY <1>3, <1>8, <1>9, <1>10 DEF IsLaid
<1> QED
  BY <1>2a, <1>5, <1>11 DEF r, v, x

\* It is normalised if both are.
LEMMA WellLaid ==
  ASSUME NEW t \in Seq(Rune), t # <<>>, Well(t), NEW u \in Seq(Rune), u # <<>>, Well(u),
         NEW r, IsLaid(r, t, u)
  PROVE  Well(r)
<1> DEFINE N == Len(t)
           M == Len(u)
<1>1. N \in Nat /\ N > 0 /\ M \in Nat /\ M > 0
  BY Texts
<1>2. /\ ~Blank(t[1]) /\ ~Blank(t[N]) /\ ~Blank(u[1]) /\ ~Blank(u[M])
  BY <1>1 DEF Well
<1>3. ~Break(t[N]) /\ ~Indent(t[N]) /\ ~Break(u[1])
  BY <1>2, Kinds
<1>4. /\ Len(r) = N + 2 + M
      /\ \A i \in 1..N : r[i] = t[i]
      /\ r[N + 1] = Newline /\ r[N + 2] = Newline
      /\ \A i \in 1..M : r[N + 2 + i] = u[i]
  BY DEF IsLaid
<1>5. ~Indent(Newline)
  BY Kinds, InsertedKinds
<1> HIDE DEF N, M
<1>6. \A i \in (N + 3)..(N + 2 + M) : i - (N + 2) \in 1..M /\ r[i] = u[i - (N + 2)]
  <2> TAKE i \in (N + 3)..(N + 2 + M)
  <2> DEFINE k == i - (N + 2)
  <2>1. k \in 1..M /\ N + 2 + k = i
    BY <1>1
  <2> HIDE DEF k
  <2>2. r[i] = u[k]
    BY <1>4, <2>1
  <2> QED
    BY <2>1, <2>2 DEF k
<1>7. ASSUME NEW i \in 1..Len(r), Break(r[i]) PROVE r[i] = Newline
  <2>1. i \in 1..N \/ i = N + 1 \/ i = N + 2 \/ i \in (N + 3)..(N + 2 + M)
    BY <1>1, <1>4
  <2>2. CASE i \in 1..N
    <3>1. r[i] = t[i]
      BY <1>4, <2>2
    <3> QED
      BY <1>7, <2>2, <3>1 DEF Well, N
  <2>3. CASE i \in (N + 3)..(N + 2 + M)
    BY <1>6, <1>7, <2>3 DEF Well, M
  <2> QED
    BY <1>4, <2>1, <2>2, <2>3
<1>8. ~Blank(r[1]) /\ ~Blank(r[Len(r)])
  <2>1. 1 \in 1..N /\ M \in 1..M /\ N + 2 + M = Len(r)
    BY <1>1, <1>4
  <2>2. r[1] = t[1] /\ r[Len(r)] = u[M]
    BY <1>4, <2>1
  <2> QED
    BY <1>2, <2>2
<1>9. ASSUME NEW i \in 1..(Len(r) - 1), Break(r[i + 1]) PROVE ~Indent(r[i])
  <2>1. \/ i + 1 \in 1..N \/ i = N \/ i = N + 1 \/ i + 1 = N + 2 + 1
        \/ i + 1 \in (N + 4)..(N + 2 + M)
    BY <1>1, <1>4
  <2>2. CASE i + 1 \in 1..N
    <3>1. i \in 1..N /\ i \in 1..(N - 1)
      BY <1>1, <2>2
    <3>2. r[i] = t[i] /\ r[i + 1] = t[i + 1]
      BY <1>4, <2>2, <3>1
    <3> QED
      BY <1>9, <3>1, <3>2 DEF Well, N
  <2>3. CASE i = N
    <3>1. N \in 1..N
      BY <1>1
    <3>2. r[i] = t[N]
      BY <1>4, <2>3, <3>1
    <3> QED
      BY <1>3, <3>2
  <2>4. CASE i = N + 1
    BY <1>4, <1>5, <2>4
  <2>5. CASE i + 1 = N + 2 + 1
    <3>1. 1 \in 1..M
      BY <1>1
    <3>2. r[i + 1] = u[1]
      BY <1>4, <2>5, <3>1
    <3> QED
      BY <1>3, <1>9, <3>2
  <2>6. CASE i + 1 \in (N + 4)..(N + 2 + M)
    <3> DEFINE k == i - (N + 2)
    <3>1. /\ i \in (N + 3)..(N + 2 + M) /\ i + 1 \in (N + 3)..(N + 2 + M)
          /\ k \in 1..(M - 1) /\ (i + 1) - (N + 2) = k + 1
      BY <1>1, <2>6
    <3>2. r[i] = u[k] /\ r[i + 1] = u[k + 1]
      BY <1>6, <3>1
    <3> HIDE DEF k
    <3> QED
      BY <1>9, <3>1, <3>2 DEF Well, M
  <2> QED
    BY <2>1, <2>2, <2>3, <2>4, <2>5, <2>6
<1>10. ASSUME NEW i \in 1..(Len(r) - 2), Break(r[i]), Break(r[i + 1]), Break(r[i + 2])
       PROVE  FALSE
  <2>1. \/ i + 2 \in 1..N \/ i + 1 = N \/ i = N \/ i + 2 = N + 2 + 1 \/ i + 1 = N + 2 + 1
        \/ i \in (N + 3)..(N + 2 + M)
    BY <1>1, <1>4
  <2>2. CASE i + 2 \in 1..N
    <3>1. i \in 1..N /\ i + 1 \in 1..N /\ i \in 1..(N - 2)
      BY <1>1, <2>2
    <3>2. r[i] = t[i] /\ r[i + 1] = t[i + 1] /\ r[i + 2] = t[i + 2]
      BY <1>4, <2>2, <3>1
    <3> QED
      BY <1>10, <3>1, <3>2 DEF Well, N
  <2>3. r[N] = t[N] /\ r[N + 2 + 1] = u[1]
    <3>1. N \in 1..N /\ 1 \in 1..M
      BY <1>1
    <3> QED
      BY <1>4, <3>1
  <2>4. CASE i + 1 = N \/ i = N \/ i + 2 = N + 2 + 1 \/ i + 1 = N + 2 + 1
    BY <1>3, <1>10, <2>3, <2>4
  <2>5. CASE i \in (N + 3)..(N + 2 + M)
    <3> DEFINE k == i - (N + 2)
    <3>1. /\ i + 1 \in (N + 3)..(N + 2 + M) /\ i + 2 \in (N + 3)..(N + 2 + M)
          /\ k \in 1..(M - 2) /\ (i + 1) - (N + 2) = k + 1 /\ (i + 2) - (N + 2) = k + 2
      BY <1>1, <1>4, <2>5
    <3>2. r[i] = u[k] /\ r[i + 1] = u[k + 1] /\ r[i + 2] = u[k + 2]
      BY <1>6, <2>5, <3>1
    <3> HIDE DEF k
    <3> QED
      BY <1>10, <3>1, <3>2 DEF Well, M
  <2> QED
    BY <2>1, <2>2, <2>4, <2>5
<1> QED
  BY <1>7, <1>8, <1>9, <1>10 DEF Well

\* What the first n pages of lines have become.
Laid(pages, n, t, bs) ==
  /\ t \in Seq(Rune) /\ Well(t) /\ InOrder(t)
  /\ bs \in Seq(Boundary) /\ Increasing(bs) /\ PagesRight(t, bs)
  /\ bs = <<>> <=> t = <<>>
  /\ bs # <<>> => bs[Len(bs)].end = Len(t)
  /\ \A i \in 1..Len(bs) : bs[i].end <= Len(t) /\ bs[i].page <= n
  /\ \A i \in DOMAIN t : t[i].at # Nowhere => t[i].at[1] <= n
  /\ \A m \in 1..n : \A l \in 1..Len(pages[m]) : \A j \in DOMAIN pages[m][l] :
       Letter(pages[m][l][j]) => pages[m][l][j] \in ToSet(t)

\* A page without text leaves the others as they are.
LEMMA BlankPage ==
  ASSUME NEW pages, NEW n \in Nat, n > 0, NEW t, NEW bs, Laid(pages, n - 1, t, bs),
         PageText(n, pages[n], <<>>)
  PROVE  Laid(pages, n, t, bs)
<1>1. \A i \in 1..Len(bs) : bs[i].page <= n
  <2>1. \A i \in 1..Len(bs) : bs[i].page <= n - 1 /\ bs[i].page \in Nat
    <3>1. bs \in Seq(Boundary)
      BY DEF Laid
    <3>2. \A i \in 1..Len(bs) : bs[i] \in Boundary
      BY <3>1, Texts
    <3> QED
      BY <3>2 DEF Laid, Boundary
  <2> QED
    BY <2>1
<1>2. \A i \in DOMAIN t : t[i].at # Nowhere => t[i].at[1] <= n
  <2> SUFFICES ASSUME NEW i \in DOMAIN t, t[i].at # Nowhere PROVE t[i].at[1] <= n
    OBVIOUS
  <2>1. t \in Seq(Rune) /\ t[i].at[1] <= n - 1
    BY DEF Laid
  <2>2. t[i] \in Rune
    BY <2>1, ElementOfSeq
  <2>3. t[i].at[1] \in Nat
    BY <2>2 DEF Rune
  <2> QED
    BY <2>1, <2>3
<1>3. \A m \in 1..n : \A l \in 1..Len(pages[m]) : \A j \in DOMAIN pages[m][l] :
        Letter(pages[m][l][j]) => pages[m][l][j] \in ToSet(t)
  <2> TAKE m \in 1..n
  <2>1. m \in 1..(n - 1) \/ m = n
    OBVIOUS
  <2>2. CASE m \in 1..(n - 1)
    BY <2>2 DEF Laid
  <2>3. CASE m = n
    <3>1. ToSet(<<>>) = {}
      BY DEF ToSet
    <3> QED
      BY <2>3, <3>1 DEF PageText
  <2> QED
    BY <2>1, <2>2, <2>3
<1> QED
  BY <1>1, <1>2, <1>3 DEF Laid

\* r is a text and, perhaps after a blank line, another one.
IsAfter(r, t, F, u) ==
  /\ r \in Seq(Rune) /\ Well(r) /\ F \in Nat /\ Len(t) <= F /\ Len(r) = F + Len(u)
  /\ \A i \in 1..Len(r) : r[i].at # Nowhere =>
       \/ i \in 1..Len(t) /\ r[i] = t[i]
       \/ i - F \in 1..Len(u) /\ r[i] = u[i - F]
  /\ ToSet(t) \subseteq ToSet(r) /\ ToSet(u) \subseteq ToSet(r)

\* Where the runes of a text that is laid after another come from.
LEMMA AfterIs ==
  ASSUME NEW t \in Seq(Rune), Well(t), NEW u \in Seq(Rune), u # <<>>, Well(u),
         NEW before, before = IF t = <<>> THEN <<>> ELSE t \o BlankLine,
         NEW r, r = before \o u
  PROVE  IsAfter(r, t, Len(before), u)
<1>1. Len(t) \in Nat /\ Len(u) \in Nat
  BY Texts
<1>2. CASE t = <<>>
  <2>1. r = u /\ Len(before) = 0 /\ Len(t) = 0 /\ ToSet(t) = {}
    <3>1. r = <<>> \o u /\ before = <<>>
      BY <1>2
    <3>2. <<>> \o u = u /\ Len(<<>>) = 0
      BY ConcatEmptySeq
    <3>3. ToSet(<<>>) = {}
      BY DEF ToSet
    <3> QED
      BY <1>2, <3>1, <3>2, <3>3
  <2>2. \A i \in 1..Len(u) : i - 0 = i
    BY <1>1
  <2>3. 0 \in Nat /\ 0 <= 0 /\ Len(u) = 0 + Len(u)
    BY <1>1
  <2> QED
    BY <2>1, <2>2, <2>3 DEF IsAfter
<1>3. CASE t # <<>>
  <2>1. before = t \o BlankLine /\ r = t \o BlankLine \o u
    BY <1>3
  <2>2. IsLaid(r, t, u) /\ before \in Seq(Rune) /\ Len(before) = Len(t) + 2
    BY <2>1, LaidIs
  <2>3. Well(r)
    BY <1>3, <2>2, WellLaid
  <2> DEFINE N == Len(t)
             F == Len(before)
  <2>4. /\ r \in Seq(Rune) /\ Len(r) = N + 2 + Len(u)
        /\ \A i \in 1..N : r[i] = t[i]
        /\ r[N + 1] = Newline /\ r[N + 2] = Newline
        /\ \A i \in 1..Len(u) : r[N + 2 + i] = u[i]
    BY <2>2 DEF IsLaid
  <2>5. F = N + 2 /\ N \in Nat
    BY <1>1, <2>2
  <2> HIDE DEF N, F
  <2>6. F \in Nat /\ N <= F /\ Len(r) = F + Len(u)
    BY <1>1, <2>4, <2>5
  <2>7. ASSUME NEW i \in 1..Len(r), r[i].at # Nowhere
        PROVE  \/ i \in 1..N /\ r[i] = t[i]
               \/ i - F \in 1..Len(u) /\ r[i] = u[i - F]
    <3>1. r[N + 1].at = Nowhere /\ r[N + 2].at = Nowhere
      BY <2>4, InsertedKinds
    <3>2. i # N + 1 /\ i # N + 2
      BY <2>7, <3>1
    <3>3. i \in 1..N \/ i - F \in 1..Len(u)
      BY <1>1, <2>5, <2>6, <3>2
    <3>4. CASE i \in 1..N
      BY <2>4, <3>4
    <3>5. CASE i - F \in 1..Len(u)
      <4> DEFINE k == i - F
      <4>1. k \in 1..Len(u) /\ N + 2 + k = i
        BY <1>1, <2>5, <3>5
      <4> HIDE DEF k
      <4>2. r[i] = u[k]
        BY <2>4, <4>1
      <4> QED
        BY <4>1, <4>2 DEF k
    <3> QED
      BY <3>3, <3>4, <3>5
  <2>8. ToSet(t) \subseteq ToSet(r) /\ ToSet(u) \subseteq ToSet(r)
    <3>1. BlankLine \in Seq(Rune)
      BY BlankLineIs
    <3>2. ToSet(t) \subseteq ToSet(before)
      BY <2>1, <3>1, ConcatSet
    <3>3. ToSet(before) \subseteq ToSet(r) /\ ToSet(u) \subseteq ToSet(r)
      BY <2>2, ConcatSet
    <3> QED
      BY <3>2, <3>3
  <2> QED
    BY <2>3, <2>4, <2>6, <2>7, <2>8 DEF IsAfter, N, F
<1> QED
  BY <1>2, <1>3

\* One more page is laid after the others.
LEMMA PageLaid ==
  ASSUME NEW pages, NEW n \in Nat, n > 0, NEW t, NEW bs, Laid(pages, n - 1, t, bs),
         NEW u, u # <<>>, PageText(n, pages[n], u),
         NEW before, before = IF t = <<>> THEN <<>> ELSE t \o BlankLine,
         NEW r, r = before \o u,
         NEW cs, cs = Append(bs, [page |-> n, start |-> Len(before), end |-> Len(r)])
  PROVE  Laid(pages, n, r, cs)
<1>1. /\ t \in Seq(Rune) /\ Well(t) /\ InOrder(t)
      /\ bs \in Seq(Boundary) /\ Increasing(bs) /\ PagesRight(t, bs)
      /\ bs = <<>> <=> t = <<>>
      /\ bs # <<>> => bs[Len(bs)].end = Len(t)
      /\ \A i \in 1..Len(bs) : bs[i].end <= Len(t) /\ bs[i].page <= n - 1
      /\ \A i \in DOMAIN t : t[i].at # Nowhere => t[i].at[1] <= n - 1
  BY DEF Laid
<1>2. u \in Seq(Rune) /\ Well(u) /\ InOrder(u)
  <2>1. u \in Seq(TextRune(n)) /\ TextRune(n) \subseteq Rune
    BY DEF PageText, TextRune
  <2> QED
    BY <2>1 DEF PageText
<1>3. \A i \in 1..Len(u) : u[i].at # Nowhere => u[i].at[1] = n
  <2>1. u \in Seq(TextRune(n))
    BY DEF PageText
  <2>2. \A i \in 1..Len(u) : u[i] \in TextRune(n)
    BY <2>1, Texts
  <2> QED
    BY <2>2 DEF TextRune
<1> DEFINE E == Len(t)
           F == Len(before)
           L == Len(u)
           b == [page |-> n, start |-> F, end |-> Len(r)]
<1>4. IsAfter(r, t, F, u)
  BY <1>1, <1>2, AfterIs
<1>5. E \in Nat /\ L \in Nat /\ L > 0 /\ DOMAIN t = 1..E /\ DOMAIN u = 1..L
  BY <1>1, <1>2, Texts
<1>5a. (t = <<>> <=> E = 0)
  BY <1>1, Texts
<1> HIDE DEF E, F, L
<1>6. /\ r \in Seq(Rune) /\ Well(r) /\ F \in Nat /\ E <= F /\ Len(r) = F + L
      /\ \A i \in 1..Len(r) : r[i].at # Nowhere =>
           \/ i \in 1..E /\ r[i] = t[i]
           \/ i - F \in 1..L /\ r[i] = u[i - F]
      /\ ToSet(t) \subseteq ToSet(r) /\ ToSet(u) \subseteq ToSet(r)
  BY <1>4 DEF IsAfter, E, L
<1>7. Len(r) \in Nat /\ E < Len(r) /\ DOMAIN r = 1..Len(r) /\ r # <<>>
  <2>1. Len(r) \in Nat /\ E < Len(r)
    BY <1>5, <1>6
  <2>2. DOMAIN r = 1..Len(r) /\ (r = <<>> <=> Len(r) = 0)
    BY <1>6, Texts
  <2> QED
    BY <1>5, <2>1, <2>2
<1>8. \A i \in 1..E : t[i].at # Nowhere => t[i].at[1] \in Nat /\ t[i].at[1] <= n - 1 /\ t[i].at[1] < n
  <2> SUFFICES ASSUME NEW i \in 1..E, t[i].at # Nowhere
               PROVE  t[i].at[1] \in Nat /\ t[i].at[1] <= n - 1 /\ t[i].at[1] < n
    OBVIOUS
  <2>1. t[i] \in Rune
    BY <1>1, <1>5, ElementOfSeq
  <2>2. t[i].at[1] \in Nat
    BY <2>1 DEF Rune
  <2>3. t[i].at[1] <= n - 1
    BY <1>1, <1>5
  <2> QED
    BY <2>2, <2>3
<1>9. InOrder(r)
  <2> SUFFICES ASSUME NEW i \in 1..Len(r), NEW j \in 1..Len(r), i < j,
                      r[i].at # Nowhere, r[j].at # Nowhere
               PROVE  Before(r[i].at, r[j].at)
    BY <1>7 DEF InOrder
  <2>1. CASE i \in 1..E /\ r[i] = t[i] /\ j \in 1..E /\ r[j] = t[j]
    BY <1>1, <1>5, <2>1 DEF InOrder
  <2>2. CASE i \in 1..E /\ r[i] = t[i] /\ j - F \in 1..L /\ r[j] = u[j - F]
    <3>1. t[i].at[1] < n
      BY <1>8, <2>2
    <3>2. u[j - F].at[1] = n
      BY <1>3, <2>2 DEF L
    <3> QED
      BY <2>2, <3>1, <3>2 DEF Before
  <2>3. CASE i - F \in 1..L /\ r[i] = u[i - F] /\ j - F \in 1..L /\ r[j] = u[j - F]
    <3>1. i - F < j - F
      BY <1>6
    <3> QED
      BY <1>2, <1>5, <2>3, <3>1 DEF InOrder
  <2>4. ~(i - F \in 1..L /\ j \in 1..E)
    BY <1>5, <1>6
  <2> QED
    BY <1>6, <2>1, <2>2, <2>3, <2>4
<1>10. b \in Boundary
  BY <1>6, <1>7 DEF Boundary
<1>11. /\ cs \in Seq(Boundary) /\ Increasing(cs)
       /\ \A o \in Nat : PageForOffset(cs, o) = IF o < E THEN PageForOffset(bs, o) ELSE b.page
  <2>1. \A i \in 1..Len(bs) : bs[i].end <= E /\ bs[i].page < b.page
    <3> SUFFICES ASSUME NEW i \in 1..Len(bs) PROVE bs[i].end <= E /\ bs[i].page < n
      OBVIOUS
    <3>1. bs[i].end <= E /\ bs[i].page <= n - 1
      BY <1>1 DEF E
    <3>2. bs[i].page \in Nat
      <4>1. bs[i] \in Boundary
        BY <1>1, Texts
      <4> QED
        BY <4>1 DEF Boundary
    <3> QED
      BY <3>1, <3>2
  <2>2. (bs # <<>> => bs[Len(bs)].end = E) /\ (bs = <<>> => E = 0)
    BY <1>1, <1>5a DEF E
  <2>3. E < b.end
    BY <1>7
  <2>4. cs = Append(bs, b)
    BY DEF F
  <2> HIDE DEF b
  <2>5. bs \in Seq(Boundary) /\ Increasing(bs)
    BY <1>1
  <2>6. E \in Nat
    BY <1>5
  <2>7. BoundaryLast(bs, b, E)
    BY <2>1, <2>2, <2>3 DEF BoundaryLast
  <2>8. PagesWith(bs, b, E, cs)
    BY <1>10, <2>4, <2>5, <2>6, <2>7, BoundaryAdded
  <2> QED
    BY <2>8 DEF PagesWith
<1>12. /\ Len(cs) = Len(bs) + 1 /\ (\A i \in 1..Len(bs) : cs[i] = bs[i])
       /\ cs[Len(bs) + 1] = b /\ Len(bs) \in Nat /\ cs # <<>>
  <2>1. cs = Append(bs, b)
    BY DEF F
  <2> HIDE DEF b
  <2>2. /\ Append(bs, b) \in Seq(Boundary) /\ Len(Append(bs, b)) = Len(bs) + 1
        /\ \A i \in 1..Len(bs) : Append(bs, b)[i] = bs[i]
        /\ Append(bs, b)[Len(bs) + 1] = b
    BY <1>1, <1>10, AppendIs
  <2>3. Len(bs) \in Nat
    BY <1>1, Texts
  <2>4. Len(cs) # 0 /\ cs \in Seq(Boundary)
    BY <2>1, <2>2, <2>3
  <2>5. cs # <<>>
    BY <2>4, Texts
  <2> QED
    BY <2>1, <2>2, <2>3, <2>5
<1>13. b.page = n /\ b.end = Len(r)
  OBVIOUS
<1> HIDE DEF b
<1>14. PagesRight(r, cs)
  <2> SUFFICES ASSUME NEW o \in Offsets(r), r[o + 1].at # Nowhere
               PROVE  PageForOffset(cs, o) = r[o + 1].at[1]
    BY DEF PagesRight
  <2>1. o \in Nat /\ o + 1 \in 1..Len(r)
    BY <1>7 DEF Offsets
  <2>2. CASE o + 1 \in 1..E /\ r[o + 1] = t[o + 1]
    <3>1. o < E /\ o \in Offsets(t) /\ E # 0
      BY <1>5, <2>1, <2>2 DEF Offsets, E
    <3>2. bs # <<>>
      BY <1>1, <1>5a, <3>1
    <3>3. PageForOffset(bs, o) = t[o + 1].at[1]
      BY <1>1, <2>2, <3>1, <3>2 DEF PagesRight
    <3> QED
      BY <1>11, <2>1, <2>2, <3>1, <3>3
  <2>3. CASE (o + 1) - F \in 1..L /\ r[o + 1] = u[(o + 1) - F]
    <3>1. ~(o < E)
      BY <1>5, <1>6, <2>1, <2>3
    <3>2. u[(o + 1) - F].at[1] = n
      BY <1>3, <2>3 DEF L
    <3> QED
      BY <1>11, <1>13, <2>1, <2>3, <3>1, <3>2
  <2> QED
    BY <1>6, <2>1, <2>2, <2>3
<1>15. ASSUME NEW i \in 1..Len(cs) PROVE cs[i].end <= Len(r) /\ cs[i].page <= n
  <2>1. i \in 1..Len(bs) \/ i = Len(bs) + 1
    BY <1>12
  <2>2. CASE i \in 1..Len(bs)
    <3>1. cs[i] = bs[i] /\ bs[i].end <= E /\ bs[i].page <= n - 1
      BY <1>1, <1>12, <2>2 DEF E
    <3>2. bs[i].end \in Nat /\ bs[i].page \in Nat
      <4>1. bs[i] \in Boundary
        BY <1>1, <2>2, Texts
      <4> QED
        BY <4>1 DEF Boundary
    <3> DEFINE e == bs[i].end
               g == bs[i].page
    <3>3. e \in Nat /\ e <= E /\ g \in Nat /\ g <= n - 1
      BY <3>1, <3>2
    <3> HIDE DEF e, g
    <3>4. e <= Len(r) /\ g <= n
      BY <1>5, <1>7, <3>3
    <3> QED
      BY <3>1, <3>4 DEF e, g
  <2>3. CASE i = Len(bs) + 1
    BY <1>7, <1>12, <1>13, <2>3
  <2> QED
    BY <2>1, <2>2, <2>3
<1>16. cs[Len(cs)].end = Len(r)
  BY <1>12, <1>13
<1>17. \A i \in DOMAIN r : r[i].at # Nowhere => r[i].at[1] <= n
  <2> SUFFICES ASSUME NEW i \in 1..Len(r), r[i].at # Nowhere PROVE r[i].at[1] <= n
    BY <1>7
  <2>1. CASE i \in 1..E /\ r[i] = t[i]
    <3> DEFINE e == t[i].at[1]
    <3>1. e \in Nat /\ e < n
      BY <1>8, <2>1
    <3>2. r[i].at[1] = e
      BY <2>1
    <3> HIDE DEF e
    <3>3. e <= n
      BY <3>1
    <3> QED
      BY <3>2, <3>3
  <2>2. CASE i - F \in 1..L /\ r[i] = u[i - F]
    <3>1. u[i - F].at[1] = n
      BY <1>3, <2>2 DEF L
    <3>2. r[i].at[1] = n
      BY <2>2, <3>1
    <3>3. n <= n
      OBVIOUS
    <3> QED
      BY <3>2, <3>3
  <2> QED
    BY <1>6, <2>1, <2>2
<1>18. \A m \in 1..n : \A l \in 1..Len(pages[m]) : \A j \in DOMAIN pages[m][l] :
         Letter(pages[m][l][j]) => pages[m][l][j] \in ToSet(r)
  <2> TAKE m \in 1..n
  <2>1. m \in 1..(n - 1) \/ m = n
    OBVIOUS
  <2>2. CASE m \in 1..(n - 1)
    BY <1>6, <2>2 DEF Laid
  <2>3. CASE m = n
    BY <1>6, <2>3 DEF PageText
  <2> QED
    BY <2>1, <2>2, <2>3
<1> QED
  BY <1>6, <1>7, <1>9, <1>11, <1>12, <1>14, <1>15, <1>16, <1>17, <1>18 DEF Laid

-----------------------------------------------------------------------------
(* The runes of a document *)

\* Functions on 1..n are sequences.
LEMMA FunctionIsSequence ==
  ASSUME NEW n \in Nat, NEW S, NEW f \in [1..n -> S]
  PROVE  f \in Seq(S) /\ Len(f) = n
  BY SeqDef, LenProperties

\* The rune of class c at a place of the document.
RuneAt(c, p, l, k) == [c |-> c, at |-> <<p, l, k>>]
\* What a line consists of.
LineClasses == Classes \ {"\n"}

\* It is a rune of page p.
LEMMA RuneAtIs ==
  ASSUME NEW c \in LineClasses, NEW p \in Nat, NEW l \in Nat, NEW k \in Nat, p > 0
  PROVE  RuneAt(c, p, l, k) \in LineRune(p) /\ RuneAt(c, p, l, k).at = <<p, l, k>>
<1>1. c \in Classes /\ c # "\n"
  BY DEF LineClasses
<1>2. <<p, l, k>> \in Nat \X Nat \X Nat
  OBVIOUS
<1>3. RuneAt(c, p, l, k) \in Rune
  BY <1>1, <1>2 DEF RuneAt, Rune
<1>4. ~Break(RuneAt(c, p, l, k))
  BY <1>1 DEF RuneAt, Break
<1>5. RuneAt(c, p, l, k).at = <<p, l, k>> /\ RuneAt(c, p, l, k).at[1] = p
  BY DEF RuneAt
<1> QED
  BY <1>3, <1>4, <1>5 DEF LineRune

\* Pages of runes that are those of the document.
AreRunes(pages, d) ==
  /\ Len(pages) = Len(d.pages) /\ Len(pages) \in Nat /\ Len(pages) > 0
  /\ \A p \in 1..Len(pages) :
       pages[p] \in Seq(Seq(LineRune(p))) /\ LinesInOrder(pages[p])
  /\ DOMAIN d.pages = 1..Len(pages)
  /\ \A p \in 1..Len(pages) : \A l \in DOMAIN d.pages[p] :
       l \in 1..Len(pages[p]) /\ \A k \in DOMAIN d.pages[p][l] :
         k \in DOMAIN pages[p][l] /\ pages[p][l][k] = RuneAt(d.pages[p][l][k], p, l, k)

\* The lines of a page: places increase along a line and from line to line.
LEMMA PageOfRunes ==
  ASSUME NEW ls \in Seq(Seq(LineClasses)), NEW p \in Nat, p > 0,
         NEW rs, rs = [l \in DOMAIN ls |-> [k \in DOMAIN ls[l] |-> RuneAt(ls[l][k], p, l, k)]]
  PROVE  /\ rs \in Seq(Seq(LineRune(p))) /\ LinesInOrder(rs)
         /\ \A l \in DOMAIN ls : l \in 1..Len(rs) /\ \A k \in DOMAIN ls[l] :
              k \in DOMAIN rs[l] /\ rs[l][k] = RuneAt(ls[l][k], p, l, k)
<1> DEFINE N == Len(ls)
           S == LineRune(p)
           line(l) == [k \in DOMAIN ls[l] |-> RuneAt(ls[l][k], p, l, k)]
<1>1. N \in Nat /\ DOMAIN ls = 1..N /\ \A l \in 1..N : ls[l] \in Seq(LineClasses)
  BY Texts
<1>2. \A l \in 1..N : /\ Len(ls[l]) \in Nat /\ DOMAIN ls[l] = 1..Len(ls[l])
                      /\ \A k \in 1..Len(ls[l]) : ls[l][k] \in LineClasses
  BY <1>1, Texts
<1> HIDE DEF N
<1>3. ASSUME NEW l \in 1..N
      PROVE  /\ line(l) \in Seq(S) /\ DOMAIN line(l) = 1..Len(ls[l])
             /\ \A k \in 1..Len(ls[l]) :
                  line(l)[k] = RuneAt(ls[l][k], p, l, k) /\ line(l)[k].at = <<p, l, k>>
  <2> DEFINE M == Len(ls[l])
  <2>1. M \in Nat /\ DOMAIN ls[l] = 1..M /\ l \in Nat
    BY <1>1, <1>2
  <2>2. ASSUME NEW k \in 1..M
        PROVE  RuneAt(ls[l][k], p, l, k) \in S /\ RuneAt(ls[l][k], p, l, k).at = <<p, l, k>>
    <3>1. k \in Nat /\ ls[l][k] \in LineClasses
      BY <1>2, <2>1
    <3> QED
      BY <2>1, <3>1, RuneAtIs
  <2> HIDE DEF M, S
  <2>3. line(l) \in [1..M -> S]
    BY <2>1, <2>2
  <2>4. line(l) \in Seq(S)
    BY <2>1, <2>3, FunctionIsSequence
  <2> QED
    BY <2>1, <2>2, <2>3, <2>4 DEF M
<1>4. /\ DOMAIN rs = 1..N /\ \A l \in 1..N : rs[l] = line(l)
  BY <1>1
<1> HIDE DEF S, line
<1>5. rs \in Seq(Seq(S)) /\ Len(rs) = N
  <2>1. rs \in [1..N -> Seq(S)]
    <3>1. rs = [l \in DOMAIN ls |-> line(l)]
      BY DEF line
    <3> QED
      BY <1>1, <1>3, <3>1
  <2> QED
    BY <1>1, <2>1, FunctionIsSequence
<1>6. ASSUME NEW l \in 1..N, NEW k \in 1..Len(ls[l])
      PROVE  k \in DOMAIN rs[l] /\ rs[l][k] = RuneAt(ls[l][k], p, l, k) /\ rs[l][k].at = <<p, l, k>>
  BY <1>3, <1>4
<1>7. \A l \in 1..N : DOMAIN rs[l] = 1..Len(ls[l])
  BY <1>3, <1>4
<1>8. ASSUME NEW l \in 1..N PROVE InOrder(rs[l])
  <2> DEFINE r == rs[l]
             M == Len(ls[l])
  <2>1. DOMAIN r = 1..M /\ M \in Nat
    BY <1>2, <1>7
  <2>2. \A i \in 1..M : r[i].at = <<p, l, i>>
    BY <1>6
  <2> HIDE DEF r, M
  <2>3. ASSUME NEW i \in 1..M, NEW j \in 1..M, i < j PROVE Before(r[i].at, r[j].at)
    <3>1. Before(<<p, l, i>>, <<p, l, j>>)
      BY <2>3 DEF Before
    <3> QED
      BY <2>2, <3>1
  <2>4. InOrder(r)
    BY <2>1, <2>3 DEF InOrder
  <2> QED
    BY <2>4 DEF r
<1>9. ASSUME NEW l \in 1..N, NEW m \in 1..N, l < m PROVE AllBefore(rs[l], rs[m])
  <2> DEFINE r == rs[l]
             q == rs[m]
  <2>1. DOMAIN r = 1..Len(ls[l]) /\ DOMAIN q = 1..Len(ls[m])
    BY <1>7
  <2>2. /\ \A i \in DOMAIN r : r[i].at = <<p, l, i>>
        /\ \A i \in DOMAIN q : q[i].at = <<p, m, i>>
    BY <1>6, <2>1
  <2> HIDE DEF r, q
  <2>3. ASSUME NEW i \in DOMAIN r, NEW j \in DOMAIN q PROVE Before(r[i].at, q[j].at)
    <3>1. Before(<<p, l, i>>, <<p, m, j>>)
      BY <1>9 DEF Before
    <3> QED
      BY <2>2, <3>1
  <2>4. AllBefore(r, q)
    BY <2>3 DEF AllBefore
  <2> QED
    BY <2>4 DEF r, q
<1>10. LinesInOrder(rs)
  BY <1>5, <1>8, <1>9 DEF LinesInOrder
<1>11. \A l \in DOMAIN ls : l \in 1..Len(rs) /\ \A k \in DOMAIN ls[l] :
         k \in DOMAIN rs[l] /\ rs[l][k] = RuneAt(ls[l][k], p, l, k)
  BY <1>1, <1>2, <1>5, <1>6
<1> QED
  BY <1>5, <1>10, <1>11 DEF S

\* The runes of a document are so on every page.
LEMMA RunesAre ==
  ASSUME NEW d, IsDocument(d)
  PROVE  AreRunes(Runes(d), d)
<1> DEFINE ps == d.pages
           N == Len(ps)
           row(p) == [l \in DOMAIN ps[p] |-> [k \in DOMAIN ps[p][l] |-> RuneAt(ps[p][l][k], p, l, k)]]
           rs == Runes(d)
<1>1. ps \in Seq(Seq(Seq(LineClasses))) /\ ps # <<>>
  BY DEF IsDocument, LineClasses
<1>2. rs = [p \in DOMAIN ps |-> row(p)]
  BY DEF Runes, RuneAt
<1> HIDE DEF ps, rs
<1>3. N \in Nat /\ N > 0 /\ DOMAIN ps = 1..N /\ \A p \in 1..N : ps[p] \in Seq(Seq(LineClasses))
  BY <1>1, Texts
<1> HIDE DEF row
<1>4. DOMAIN rs = 1..N /\ \A p \in 1..N : rs[p] = row(p)
  BY <1>2, <1>3
<1>5. Len(rs) = N
  <2> DEFINE V == {row(p) : p \in 1..N}
  <2>1. rs \in [1..N -> V]
    BY <1>2, <1>3
  <2> HIDE DEF V, N
  <2> QED
    BY <1>3, <2>1, FunctionIsSequence
<1> HIDE DEF N
<1>6. ASSUME NEW p \in 1..N
      PROVE  /\ rs[p] \in Seq(Seq(LineRune(p))) /\ LinesInOrder(rs[p])
             /\ \A l \in DOMAIN ps[p] : l \in 1..Len(rs[p]) /\ \A k \in DOMAIN ps[p][l] :
                  k \in DOMAIN rs[p][l] /\ rs[p][l][k] = RuneAt(ps[p][l][k], p, l, k)
  <2> DEFINE ls == ps[p]
  <2>1. ls \in Seq(Seq(LineClasses)) /\ p \in Nat /\ p > 0
    BY <1>3
  <2>2. rs[p] = [l \in DOMAIN ls |-> [k \in DOMAIN ls[l] |-> RuneAt(ls[l][k], p, l, k)]]
    BY <1>4 DEF row
  <2> HIDE DEF ls
  <2>3. /\ rs[p] \in Seq(Seq(LineRune(p))) /\ LinesInOrder(rs[p])
        /\ \A l \in DOMAIN ls : l \in 1..Len(rs[p]) /\ \A k \in DOMAIN ls[l] :
             k \in DOMAIN rs[p][l] /\ rs[p][l][k] = RuneAt(ls[l][k], p, l, k)
    BY <2>1, <2>2, PageOfRunes
  <2> QED
    BY <2>3 DEF ls
<1> QED
  BY <1>3, <1>5, <1>6 DEF AreRunes, ps, N, rs

-----------------------------------------------------------------------------
(* The normalised text of a document *)

\* The state of the loop over pages.
Paged == [text : Seq(Rune), boundaries : Seq(Boundary)]

\* Its first state.
NoPages == [text |-> <<>>, boundaries |-> <<>>]

\* No pages are laid in it.
LEMMA NoPagesLaid ==
  ASSUME NEW pages
  PROVE  NoPages \in Paged /\ Laid(pages, 0, NoPages.text, NoPages.boundaries)
<1>1. /\ <<>> \in Seq(Rune) /\ <<>> \in Seq(Boundary) /\ Len(<<>>) = 0 /\ DOMAIN <<>> = 1..0
  BY EmptySeq
<1>2. NoPages.text = <<>> /\ NoPages.boundaries = <<>> /\ NoPages \in Paged
  BY <1>1 DEF NoPages, Paged
<1>3. Well(<<>>) /\ InOrder(<<>>)
  BY <1>1 DEF Well, InOrder
<1>4. Increasing(<<>>) /\ PagesRight(<<>>, <<>>)
  BY <1>1 DEF Increasing, PagesRight
<1> QED
  BY <1>1, <1>2, <1>3, <1>4 DEF Laid

\* The text of a page is a text.
LEMMA TextRunes ==
  ASSUME NEW p, NEW lines, NEW u, PageText(p, lines, u)
  PROVE  u \in Seq(Rune) /\ Well(u) /\ InOrder(u)
<1>1. u \in Seq(TextRune(p)) /\ TextRune(p) \subseteq Rune
  BY DEF PageText, TextRune
<1> QED
  BY <1>1 DEF PageText

\* A round of the loop over pages has a state of that type.
LEMMA AddPageIs ==
  ASSUME NEW s \in Paged, NEW n \in Nat, NEW u \in Seq(Rune)
  PROVE  AddPage(s, n, u) \in Paged
<1> DEFINE before == IF s.text = <<>> THEN <<>> ELSE s.text \o BlankLine
           r == before \o u
           b == [page |-> n, start |-> Len(before), end |-> Len(r)]
<1>1. s.text \in Seq(Rune) /\ s.boundaries \in Seq(Boundary) /\ BlankLine \in Seq(Rune)
  BY BlankLineIs DEF Paged
<1>2. before \in Seq(Rune)
  <2>1. s.text \o BlankLine \in Seq(Rune)
    BY <1>1, ConcatIs
  <2> QED
    BY <2>1, EmptySeq
<1> HIDE DEF before
<1>3. r \in Seq(Rune)
  BY <1>2, ConcatIs
<1>4. b \in Boundary
  <2>1. Len(before) \in Nat /\ Len(r) \in Nat
    BY <1>2, <1>3, Texts
  <2> QED
    BY <2>1 DEF Boundary
<1>5. AddPage(s, n, u) = IF u = <<>> THEN s ELSE [text |-> r, boundaries |-> Append(s.boundaries, b)]
  BY DEF AddPage, before
<1> HIDE DEF r, b
<1>6. Append(s.boundaries, b) \in Seq(Boundary)
  BY <1>1, <1>4, AppendIs
<1> QED
  BY <1>3, <1>5, <1>6 DEF Paged

\* It lays the page after the others, or skips it.
LEMMA AddPageLays ==
  ASSUME NEW pages, NEW n \in Nat, n > 0, NEW s, Laid(pages, n - 1, s.text, s.boundaries),
         NEW u, PageText(n, pages[n], u), NEW q, q = AddPage(s, n, u)
  PROVE  Laid(pages, n, q.text, q.boundaries)
<1> DEFINE t == s.text
           bs == s.boundaries
           before == IF t = <<>> THEN <<>> ELSE t \o BlankLine
           r == before \o u
           cs == Append(bs, [page |-> n, start |-> Len(before), end |-> Len(r)])
<1>1. CASE u = <<>>
  <2>1. q = s
    BY <1>1 DEF AddPage
  <2>2. PageText(n, pages[n], <<>>)
    BY <1>1
  <2>3. Laid(pages, n, s.text, s.boundaries)
    BY <2>2, BlankPage
  <2> QED
    BY <2>1, <2>3
<1>2. CASE u # <<>>
  <2>1. q.text = r /\ q.boundaries = cs
    BY <1>2 DEF AddPage
  <2>2. Laid(pages, n, r, cs)
    BY <1>2, PageLaid
  <2> QED
    BY <2>1, <2>2
<1> QED
  BY <1>1, <1>2

\* f[n] is the state after n pages, and Normalized is its last one.
IsPaging(f, pages) ==
  /\ f \in [0..Len(pages) -> Paged] /\ f[0] = NoPages
  /\ \A n \in 1..Len(pages) : f[n] = AddPage(f[n - 1], n, NormalizeText(pages[n], TRUE))
  /\ \A pdf : Normalized(pages, pdf) =
       IF pdf /\ Len(pages) > 1 THEN f[Len(pages)]
       ELSE [text |-> NormalizeText(pages[1], pdf), boundaries |-> <<>>]

\* The recursion of Normalized has a solution, which its CHOOSE takes.
LEMMA PagingIs ==
  ASSUME NEW pages, Len(pages) \in Nat,
         \A n \in 1..Len(pages) : NormalizeText(pages[n], TRUE) \in Seq(Rune)
  PROVE  \E f : IsPaging(f, pages)
<1> DEFINE N == Len(pages)
           V == Paged
           U(n) == NormalizeText(pages[n], TRUE)
           Rec(f) == f = [n \in 0..N |-> IF n = 0 THEN NoPages ELSE AddPage(f[n - 1], n, U(n))]
           step == [p \in (1..N) \X V |-> AddPage(p[2], p[1], U(p[1]))]
<1>1. N \in Nat /\ NoPages \in V /\ \A n \in 1..N : U(n) \in Seq(Rune) /\ n \in Nat
  <2>1. NoPages \in V
    BY NoPagesLaid
  <2>2. \A n \in 1..N : U(n) \in Seq(Rune)
    OBVIOUS
  <2>3. \A n \in 1..N : n \in Nat
    OBVIOUS
  <2> QED
    BY <2>1, <2>2, <2>3
<1> HIDE DEF U
<1>2. step \in [(1..N) \X V -> V]
  <2>1. ASSUME NEW n \in 1..N, NEW s \in V PROVE AddPage(s, n, U(n)) \in V
    BY <1>1, AddPageIs
  <2>2. \A p \in (1..N) \X V : AddPage(p[2], p[1], U(p[1])) \in V
    BY <2>1
  <2> HIDE DEF N, V
  <2> QED
    BY <2>2
<1>3. PICK f \in [0..N -> V] : IsRecursion(f, N, NoPages, step)
  <2>1. N \in Nat /\ NoPages \in V
    BY <1>1
  <2> HIDE DEF N, V, step
  <2> QED
    BY <1>2, <2>1, RecursionExists
<1>4. Rec(f)
  <2>1. ASSUME NEW n \in 0..N
        PROVE  f[n] = IF n = 0 THEN NoPages ELSE AddPage(f[n - 1], n, U(n))
    <3>1. CASE n = 0
      BY <1>3, <3>1 DEF IsRecursion
    <3>2. CASE n # 0
      <4>1. n \in 1..N /\ n - 1 \in 0..N
        BY <1>1, <3>2
      <4>2. f[n - 1] \in V /\ f[n] = step[<<n, f[n - 1]>>]
        <5> HIDE DEF V, step, N
        <5> QED
          BY <1>3, <4>1 DEF IsRecursion
      <4> HIDE DEF N, V
      <4> QED
        BY <3>2, <4>1, <4>2
    <3> QED
      BY <3>1, <3>2
  <2> HIDE DEF V, step
  <2> QED
    BY <1>3, <2>1
<1> DEFINE g == CHOOSE h : Rec(h)
<1>5. \A pdf : Normalized(pages, pdf) =
        IF pdf /\ N > 1 THEN g[N]
        ELSE [text |-> NormalizeText(pages[1], pdf), boundaries |-> <<>>]
  BY DEF Normalized, NoPages, U
<1>6. Rec(g)
  <2> HIDE DEF Rec
  <2> QED
    BY <1>4
<1> HIDE DEF g
<1>7. g[0] = NoPages /\ \A n \in 1..N : g[n] = AddPage(g[n - 1], n, U(n))
  <2>1. 0 \in 0..N /\ \A n \in 1..N : n \in 0..N /\ n # 0
    BY <1>1
  <2> HIDE DEF N
  <2> QED
    BY <1>6, <2>1
<1>8. \A n \in 0..N : g[n] \in V
  <2> DEFINE typed == {n \in 0..N : g[n] \in V}
  <2>1. 0 \in typed
    <3>1. 0 \in 0..N /\ g[0] \in V
      BY <1>1, <1>7
    <3> HIDE DEF N, V
    <3> QED
      BY <3>1
  <2>2. ASSUME NEW n \in 1..N, n - 1 \in typed PROVE n \in typed
    <3>1. n \in 0..N /\ n \in Nat
      BY <1>1
    <3>2. U(n) \in Seq(Rune) /\ g[n - 1] \in V
      BY <1>1, <2>2
    <3>3. g[n] \in V
      <4>1. g[n] = AddPage(g[n - 1], n, U(n))
        BY <1>7
      <4> QED
        BY <3>1, <3>2, <4>1, AddPageIs
    <3> QED
      BY <3>1, <3>3
  <2>3. N \in Nat
    BY <1>1
  <2>4. \A n \in 0..N : n \in typed
    <3> HIDE DEF typed, N
    <3> QED
      BY <2>1, <2>2, <2>3, InductionTo
  <2> QED
    BY <2>4
<1>9. g = [n \in 0..N |-> g[n]]
  BY <1>6
<1>10. g \in [0..N -> V]
  <2> HIDE DEF N, V
  <2> QED
    BY <1>8, <1>9
<1> QED
  BY <1>5, <1>7, <1>10 DEF IsPaging, U

\* A normalised text: r is that of document d.
NormalText(d, r) ==
  /\ r.text \in Seq(Rune) /\ Well(r.text) /\ InOrder(r.text)
  /\ r.boundaries \in Seq(Boundary) /\ Increasing(r.boundaries)
  /\ PagesRight(r.text, r.boundaries) /\ HasLetters(r.text, d.pages)

\* Letters of the runes are letters of the document.
LEMMA LettersOf ==
  ASSUME NEW pages, NEW d, AreRunes(pages, d), NEW t,
         \A m \in 1..Len(pages) : \A l \in 1..Len(pages[m]) : \A j \in DOMAIN pages[m][l] :
           Letter(pages[m][l][j]) => pages[m][l][j] \in ToSet(t)
  PROVE  HasLetters(t, d.pages)
<1> SUFFICES ASSUME NEW p \in DOMAIN d.pages, NEW l \in DOMAIN d.pages[p],
                    NEW k \in DOMAIN d.pages[p][l], d.pages[p][l][k] \in Words
             PROVE  RuneAt(d.pages[p][l][k], p, l, k) \in ToSet(t)
  BY DEF HasLetters, RuneAt
<1> DEFINE r == RuneAt(d.pages[p][l][k], p, l, k)
<1>1. p \in 1..Len(pages) /\ l \in 1..Len(pages[p]) /\ k \in DOMAIN pages[p][l] /\ pages[p][l][k] = r
  BY DEF AreRunes
<1>2. Letter(r)
  BY DEF Letter, RuneAt
<1> HIDE DEF r
<1>3. r \in ToSet(t)
  BY <1>1, <1>2
<1> QED
  BY <1>3 DEF r

\* normalizeWithPageBoundaries keeps all letters of a document, in order, and its
\* boundaries name the page of every rune.
LEMMA NormalizedIs ==
  ASSUME NEW d, IsDocument(d)
  PROVE  NormalText(d, Normalized(Runes(d), d.pdf))
<1> DEFINE pages == Runes(d)
           N == Len(pages)
<1>1. AreRunes(pages, d)
  BY RunesAre
<1> HIDE DEF pages
<1>2. /\ N \in Nat /\ N > 0
      /\ \A n \in 1..N : pages[n] \in Seq(Seq(LineRune(n))) /\ LinesInOrder(pages[n])
  BY <1>1 DEF AreRunes
<1>3. \A n \in 1..N : \A indent : PageText(n, pages[n], NormalizeText(pages[n], indent))
  BY <1>2, NormalizeTextIs
<1>4. \A n \in 1..N : NormalizeText(pages[n], TRUE) \in Seq(Rune)
  BY <1>3, TextRunes
<1>5. PICK f : IsPaging(f, pages)
  BY <1>2, <1>4, PagingIs
<1>6. \A n \in 0..N : Laid(pages, n, f[n].text, f[n].boundaries)
  <2> DEFINE good == {n \in 0..N : Laid(pages, n, f[n].text, f[n].boundaries)}
  <2>1. 0 \in good
    <3>1. f[0] = NoPages /\ 0 \in 0..N
      BY <1>2, <1>5 DEF IsPaging
    <3> QED
      BY <3>1, NoPagesLaid
  <2>2. ASSUME NEW n \in 1..N, n - 1 \in good PROVE n \in good
    <3>1. f[n] = AddPage(f[n - 1], n, NormalizeText(pages[n], TRUE))
      BY <1>5 DEF IsPaging
    <3>2. Laid(pages, n - 1, f[n - 1].text, f[n - 1].boundaries)
      BY <2>2
    <3>3. n \in Nat /\ n > 0 /\ n \in 0..N
      BY <1>2
    <3>4. PageText(n, pages[n], NormalizeText(pages[n], TRUE))
      BY <1>3
    <3>5. Laid(pages, n, f[n].text, f[n].boundaries)
      BY <3>1, <3>2, <3>3, <3>4, AddPageLays
    <3> QED
      BY <3>3, <3>5
  <2> HIDE DEF good, N
  <2>3. \A n \in 0..N : n \in good
    BY <1>2, <2>1, <2>2, InductionTo
  <2> QED
    BY <2>3 DEF good
<1> DEFINE r == Normalized(pages, d.pdf)
<1>7. d.pdf \in BOOLEAN /\ (~d.pdf => N = 1)
  <2>1. d.pdf \in BOOLEAN /\ (~d.pdf => Len(d.pages) = 1)
    BY DEF IsDocument
  <2>2. N = Len(d.pages)
    BY <1>1 DEF AreRunes
  <2> QED
    BY <2>1, <2>2
<1>8. CASE d.pdf /\ N > 1
  <2>1. r = f[N]
    BY <1>5, <1>8 DEF IsPaging
  <2>2. Laid(pages, N, r.text, r.boundaries)
    BY <1>2, <1>6, <2>1
  <2>3. HasLetters(r.text, d.pages)
    <3>1. \A m \in 1..N : \A l \in 1..Len(pages[m]) : \A j \in DOMAIN pages[m][l] :
            Letter(pages[m][l][j]) => pages[m][l][j] \in ToSet(r.text)
      BY <2>2 DEF Laid
    <3> HIDE DEF r
    <3> QED
      BY <1>1, <3>1, LettersOf
  <2> QED
    BY <2>2, <2>3 DEF Laid, NormalText, pages
<1>9. CASE ~(d.pdf /\ N > 1)
  <2>1. N = 1
    <3>1. CASE d.pdf
      <4>1. ~(N > 1)
        BY <1>9, <3>1
      <4>2. N \in Nat /\ N > 0
        BY <1>2
      <4> HIDE DEF N, r
      <4> QED
        BY <4>1, <4>2
    <3>2. CASE ~d.pdf
      BY <1>7, <3>2
    <3> QED
      BY <3>1, <3>2
  <2> DEFINE u == NormalizeText(pages[1], d.pdf)
  <2>2. r = [text |-> u, boundaries |-> <<>>]
    BY <1>5, <1>9 DEF IsPaging
  <2>3. PageText(1, pages[1], u)
    BY <1>3, <2>1
  <2> HIDE DEF u
  <2>4. r.text = u /\ r.boundaries = <<>>
    BY <2>2
  <2>5. u \in Seq(Rune) /\ Well(u) /\ InOrder(u)
    BY <2>3, TextRunes
  <2>6. <<>> \in Seq(Boundary) /\ Increasing(<<>>) /\ PagesRight(u, <<>>)
    BY EmptySeq DEF Increasing, PagesRight
  <2>7. HasLetters(u, d.pages)
    <3>1. \A m \in 1..N : \A l \in 1..Len(pages[m]) : \A j \in DOMAIN pages[m][l] :
            Letter(pages[m][l][j]) => pages[m][l][j] \in ToSet(u)
      BY <2>1, <2>3 DEF PageText
    <3> QED
      BY <1>1, <3>1, LettersOf
  <2>8. NormalText(d, r)
    BY <2>4, <2>5, <2>6, <2>7 DEF NormalText
  <2> QED
    BY <2>8 DEF pages
<1> QED
  BY <1>8, <1>9

-----------------------------------------------------------------------------
(* The first step, and the theorems *)

\* No paragraphs follow each other.
LEMMA EmptyConsecutive ==
  ASSUME NEW t, NEW hs, NEW bs, NEW ps, ps = <<>>, NEW qs, qs = <<>>
  PROVE  Consecutive(t, hs, bs, ps \o qs)
<1>1. ps \o qs = <<>> /\ Len(<<>>) = 0 /\ DOMAIN <<>> = {}
  OBVIOUS
<1> QED
  BY <1>1 DEF Consecutive

\* The invariant holds before the text is normalised.
LEMMA ChunkerInvInit ==
  ASSUME ChunkerInit
  PROVE  ChunkerInv
<1>1. /\ stage = "normalize" /\ document \in Documents /\ text = <<>> /\ boundaries = <<>>
      /\ cursor = 0 /\ paragraphs = <<>> /\ section = <<>> /\ chunks = <<>>
  BY DEF ChunkerInit
<1>2. /\ <<>> \in Seq(Rune) /\ <<>> \in Seq(Boundary) /\ <<>> \in Seq(Paragraph)
      /\ <<>> \in Seq(Chunk) /\ Len(<<>>) = 0 /\ DOMAIN <<>> = {} /\ ToSet(<<>>) = {}
  <2>1. ToSet(<<>>) = {}
    BY DEF ToSet
  <2> QED
    BY <2>1, EmptySeq
<1>3. ChunkerTypeOK
  BY <1>1, <1>2 DEF ChunkerTypeOK, Stages, Boundary
<1>4. Offsets(text) = {}
  BY <1>1, <1>2 DEF Offsets
<1>5. TextInv
  <2>1. Well(text) /\ InOrder(text)
    BY <1>1, <1>2 DEF Well, InOrder
  <2>2. Increasing(boundaries) /\ PagesRight(text, boundaries)
    BY <1>1, <1>2 DEF Increasing, PagesRight
  <2>3. text \in Seq(Rune)
    BY <1>1, <1>2
  <2> QED
    BY <1>1, <2>1, <2>2, <2>3, WellIs, PagesFitIs DEF TextInv
<1>6. StageInv
  BY <1>1, <1>2 DEF StageInv
<1>7. Consecutive(text, Headings, boundaries, section \o paragraphs)
  BY <1>1, EmptyConsecutive
<1>8. WordsKept
  BY <1>4 DEF WordsKept
<1>9. ChunksInv
  BY <1>1, <1>2, ChunksInvIs
<1> QED
  BY <1>3, <1>5, <1>6, <1>7, <1>8, <1>9, ChunkerInvIs

\* Normalisation of the text, by NormalizedIs.
LEMMA NormalizeKeeps ==
  ASSUME ChunkerInv, Normalize
  PROVE  ChunkerInv'
<1> DEFINE n == Normalized(Runes(document), document.pdf)
<1>1. /\ stage = "normalize" /\ text' = n.text /\ boundaries' = n.boundaries
      /\ stage' = IF n.text = <<>> THEN "done" ELSE "paragraphs"
      /\ UNCHANGED <<document, cursor, paragraphs, section, chunks>>
  BY DEF Normalize
<1>2. ChunkerTypeOK /\ StageInv
  BY ChunkerInvIs
<1>3. cursor' = 0 /\ chunks' = <<>> /\ section' = <<>> /\ paragraphs' = <<>>
  BY <1>1, <1>2 DEF StageInv
<1>4. /\ <<>> \in Seq(Paragraph) /\ <<>> \in Seq(Chunk)
      /\ Len(<<>>) = 0 /\ DOMAIN <<>> = {} /\ ToSet(<<>>) = {}
  <2>1. ToSet(<<>>) = {}
    BY DEF ToSet
  <2> QED
    BY <2>1, EmptySeq
<1>5. document \in Documents /\ document' = document
  BY <1>1, <1>2 DEF ChunkerTypeOK
<1>6. NormalText(document, n)
  <2>1. IsDocument(document)
    BY <1>5, ChunkerAssumption
  <2> QED
    BY <2>1, NormalizedIs
<1> HIDE DEF n
<1>7. /\ text' \in Seq(Rune) /\ Well(text') /\ InOrder(text')
      /\ boundaries' \in Seq(Boundary) /\ Increasing(boundaries') /\ PagesRight(text', boundaries')
      /\ HasLetters(text', document'.pages)
  BY <1>1, <1>5, <1>6 DEF NormalText
<1>8. stage' \in {"done", "paragraphs"} /\ (stage' = "done" => text' = <<>>)
  BY <1>1
<1>9. ChunkerTypeOK'
  <2>1. stage' \in Stages
    BY <1>8 DEF Stages
  <2> QED
    BY <1>3, <1>4, <1>5, <1>7, <2>1 DEF ChunkerTypeOK, Boundary
<1>10. TextInv'
  <2>1. WellNormalized(text') /\ PagesFit(text', boundaries')
    BY <1>7, WellIs, PagesFitIs
  <2> QED
    BY <1>7, <2>1 DEF TextInv
<1>11. StageInv'
  BY <1>3, <1>4, <1>8 DEF StageInv
<1>12. Consecutive(text', Headings', boundaries', section' \o paragraphs')
  BY <1>3, EmptyConsecutive
<1>13. WordsKept'
  <2>1. CASE stage' = "done"
    <3>1. Offsets(text') = {}
      BY <1>4, <1>8, <2>1 DEF Offsets
    <3> QED
      BY <3>1 DEF WordsKept
  <2>2. CASE stage' = "paragraphs"
    <3>1. \A o \in Offsets(text') : o >= cursor'
      <4>1. cursor' = 0
        BY <1>3
      <4> QED
        BY <4>1 DEF Offsets
    <3> QED
      BY <2>2, <3>1 DEF WordsKept, IsKept
  <2> QED
    BY <1>8, <2>1, <2>2
<1>14. ChunksInv'
  BY <1>3, <1>4, ChunksInvNext
<1> QED
  BY <1>9, <1>10, <1>11, <1>12, <1>13, <1>14, ChunkerInvNext

\* Steps that change nothing.
LEMMA NothingKeeps ==
  ASSUME ChunkerInv, UNCHANGED vars
  PROVE  ChunkerInv'
<1>1. /\ stage' = stage /\ document' = document /\ text' = text /\ boundaries' = boundaries
      /\ cursor' = cursor /\ paragraphs' = paragraphs /\ section' = section /\ chunks' = chunks
  BY DEF vars
<1>2. /\ ChunkerTypeOK /\ TextInv /\ StageInv /\ WordsKept /\ ChunksInv
      /\ Consecutive(text, Headings, boundaries, section \o paragraphs)
  BY ChunkerInvIs
<1>3. Headings' = Headings /\ Section' = Section
  BY <1>1, SectionSame DEF Headings
<1>4. ChunkerTypeOK' /\ TextInv'
  BY <1>1, <1>2 DEF ChunkerTypeOK, TextInv
<1>5. StageInv'
  BY <1>1, <1>2, <1>3 DEF StageInv
<1>6. Consecutive(text', Headings', boundaries', section' \o paragraphs')
  BY <1>1, <1>2, <1>3
<1>7. WordsKept'
  <2>1. \A x, o : IsKept(x, o)' <=> IsKept(x, o)
    BY <1>1, <1>3 DEF IsKept
  <2> QED
    BY <1>1, <1>2, <2>1 DEF WordsKept
<1>8. ChunksInv'
  BY <1>1, <1>2, <1>3, ChunksInvIs, ChunksInvNext
<1> QED
  BY <1>4, <1>5, <1>6, <1>7, <1>8, ChunkerInvNext

\* Paragraphs stand in the text one after another, the current section gathers them in
\* that order, and what chunks have is theirs: the invariant behind the properties,
\* for all documents and all limits with Overlap < ParagraphMinLen <= MinLen <= ChunkSize.
THEOREM ChunkerInvariant == ChunkerSpec => []ChunkerInv
<1>1. ChunkerInit => ChunkerInv
  BY ChunkerInvInit
<1>2. ASSUME ChunkerInv, [ChunkerNext]_vars PROVE ChunkerInv'
  <2>1. CASE Normalize
    BY <1>2, <2>1, NormalizeKeeps
  <2>2. CASE ExtractParagraph
    BY <1>2, <2>2, ExtractParagraphKeeps
  <2>3. CASE NoMoreParagraphs
    BY <1>2, <2>3, NoMoreParagraphsKeeps
  <2>4. CASE AddParagraph
    BY <1>2, <2>4, AddParagraphKeeps
  <2>5. CASE CloseSection
    BY <1>2, <2>5, CloseSectionKeeps
  <2>6. CASE CutChunk
    BY <1>2, <2>6, CutChunkKeeps
  <2>7. CASE UNCHANGED vars
    BY <1>2, <2>7, NothingKeeps
  <2> QED
    BY <1>2, <2>1, <2>2, <2>3, <2>4, <2>5, <2>6, <2>7 DEF ChunkerNext, Done
<1> QED
  BY <1>1, <1>2, PTL DEF ChunkerSpec

\* When all is done, a letter of the text is in a chunk.
LEMMA LettersKept ==
  ASSUME ChunkerInv, stage = "done", ~HasLongToken(text), NEW x \in ToSet(text), Letter(x)
  PROVE  \E c \in ToSet(chunks) : \E i \in DOMAIN c.content : c.content[i] = x
<1>1. ChunkerTypeOK /\ StageInv /\ WordsKept
  BY ChunkerInvIs
<1>2. text \in Seq(Rune)
  BY <1>1, TypesOf
<1>3. PICK m \in 1..Len(text) : text[m] = x
  BY <1>2, Texts DEF ToSet
<1>4. Len(text) \in Nat
  BY <1>2, Texts
<1> DEFINE o == m - 1
<1>5. o \in Offsets(text) /\ o + 1 = m
  BY <1>4 DEF Offsets
<1> HIDE DEF o
<1>6. IsWordRune(text, o)
  BY <1>3, <1>5, KindsAt
<1>7. text[o + 1] = x
  BY <1>3, <1>5
<1>8. IsKept(x, o)
  BY <1>1, <1>5, <1>6, <1>7 DEF WordsKept
<1>9. ~IsIn(x, paragraphs)
  <2>1. paragraphs = <<>> /\ DOMAIN <<>> = {}
    BY <1>1 DEF StageInv
  <2> QED
    BY <2>1 DEF IsIn
<1>10. PICK i \in DOMAIN chunks : x \in ToSet(chunks[i].content)
  BY <1>8, <1>9 DEF IsKept
<1> QED
  BY <1>10 DEF ToSet

\* chunkDocumentText loses no letter of a document and keeps their order, unless the
\* normalised text has a token longer than the overlap of chunks by two.
THEOREM NothingIsLost == ChunkerSpec => []NothingLost
<1>1. ASSUME ChunkerInv PROVE NothingLost
  <2> SUFFICES ASSUME stage = "done"
               PROVE  /\ \A c \in ToSet(chunks) : \A i, j \in PlacesIn(c) :
                           i < j => Before(c.content[i].at, c.content[j].at)
                      /\ ~HasLongToken(text) =>
                           \A p \in DOMAIN document.pages : \A l \in DOMAIN document.pages[p] :
                           \A k \in DOMAIN document.pages[p][l] :
                             document.pages[p][l][k] \in Words =>
                               \E c \in ToSet(chunks) : \E i \in DOMAIN c.content :
                                 c.content[i].at = <<p, l, k>>
    BY DEF NothingLost
  <2>1. TextInv /\ ChunksInv
    BY <1>1, ChunkerInvIs
  <2>2. \A c \in ToSet(chunks) : \A i, j \in PlacesIn(c) :
          i < j => Before(c.content[i].at, c.content[j].at)
    <3>1. \A c \in ToSet(chunks) : InOrder(c.content)
      BY <2>1 DEF ChunksInv, ToSet
    <3> QED
      BY <3>1 DEF InOrder, PlacesIn
  <2>3. ASSUME ~HasLongToken(text), NEW p \in DOMAIN document.pages,
               NEW l \in DOMAIN document.pages[p], NEW k \in DOMAIN document.pages[p][l],
               document.pages[p][l][k] \in Words
        PROVE  \E c \in ToSet(chunks) : \E i \in DOMAIN c.content : c.content[i].at = <<p, l, k>>
    <3> DEFINE x == RuneAt(document.pages[p][l][k], p, l, k)
    <3>1. x \in ToSet(text) /\ Letter(x) /\ x.at = <<p, l, k>>
      BY <2>1, <2>3 DEF TextInv, HasLetters, RuneAt, Letter
    <3> HIDE DEF x
    <3>2. PICK c \in ToSet(chunks) : \E i \in DOMAIN c.content : c.content[i] = x
      BY <1>1, <2>3, <3>1, LettersKept
    <3>3. PICK i \in DOMAIN c.content : c.content[i] = x
      BY <3>2
    <3> QED
      BY <3>1, <3>3
  <2> QED
    BY <2>2, <2>3
<1> QED
  BY <1>1, ChunkerInvariant, PTL

\* The pages that chunkDocumentText names for a chunk of a PDF include the page each
\* rune of it stands on.
THEOREM PagesAreCovered == ChunkerSpec => []PagesCover
<1>1. ChunkerInv => PagesCover
  BY DEF ChunkerInv
<1> QED
  BY <1>1, ChunkerInvariant, PTL

\* char_start and char_end of a chunk are its offsets in the normalised text, unless a
\* paragraph of the text is indented.
THEOREM OffsetsAreRight == ChunkerSpec => []OffsetsName
<1>1. ChunkerInv => OffsetsName
  BY DEF ChunkerInv
<1> QED
  BY <1>1, ChunkerInvariant, PTL

\* chunkDocumentText cites each chunk under the heading of the paragraphs that all its
\* runes come from.
THEOREM ChunksUnderTheirHeading == ChunkerSpec => []UnderItsHeading
<1>1. ChunkerInv => UnderItsHeading
  BY DEF ChunkerInv
<1> QED
  BY <1>1, ChunkerInvariant, PTL
=============================================================================
