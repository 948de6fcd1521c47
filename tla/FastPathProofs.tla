--------------------------- MODULE FastPathProofs ---------------------------
(***************************************************************************)
(* Facts about the operators of FastPath that the proofs about BinaryFile  *)
(* rest on, for every page size and every file: what a slice of the file   *)
(* is, and how pages lie in it.                                            *)
(***************************************************************************)
EXTENDS FastPath, WellFoundedInduction, TLAPS

-----------------------------------------------------------------------------
(* Least elements.                                                         *)

\* The smaller of two numbers.
LEMMA MinOfTwo ==
  ASSUME NEW a \in Int, NEW b \in Int
  PROVE  Min({a, b}) = IF a <= b THEN a ELSE b
<1> DEFINE m == IF a <= b THEN a ELSE b
<1>1. m \in {a, b} /\ \A y \in {a, b} : m <= y
  OBVIOUS
<1>2. \A x \in {a, b} : (\A y \in {a, b} : x <= y) => x = m
  OBVIOUS
<1> QED
  BY <1>1, <1>2 DEF Min

\* The least of some numbers: the cold page mincore finds first, the end of a
\* line.
LEMMA MinOfNats ==
  ASSUME NEW S \in SUBSET Nat, S # {}
  PROVE  Min(S) \in S /\ \A y \in S : Min(S) <= y
<1>1. \E x \in S : \A y \in S : ~(<<y, x>> \in OpToRel(<, Nat))
  <2>1. IsWellFoundedOn(OpToRel(<, Nat), Nat)
    BY NatLessThanWellFounded
  <2> QED
    BY <2>1, WFMin
<1>2. \A x, y \in Nat : y < x => <<y, x>> \in OpToRel(<, Nat)
  BY DEF OpToRel
<1>3. \E x \in S : \A y \in S : x <= y
  <2>1. PICK x \in S : \A y \in S : ~(<<y, x>> \in OpToRel(<, Nat))
    BY <1>1
  <2> SUFFICES \A y \in S : x <= y
    OBVIOUS
  <2> TAKE y \in S
  <2>2. x \in Nat /\ y \in Nat /\ ~(y < x)
    BY <1>2, <2>1
  <2> QED
    BY <2>2
<1> QED
  BY <1>3 DEF Min

-----------------------------------------------------------------------------
(* Pages.                                                                  *)

LEMMA RoundDown ==
  ASSUME NEW b \in Nat
  PROVE  /\ b \div Page \in Nat /\ b % Page \in Nat /\ b % Page < Page
         /\ b = (b \div Page) * Page + (b % Page)
BY PageAssumption

LEMMA MultipleMod ==
  ASSUME NEW i \in Nat
  PROVE  i * Page \in Nat /\ (i * Page) % Page = 0
BY PageAssumption

\* Multiples of the page size, seen as such.
LEMMA MultipleIs ==
  ASSUME NEW p \in Nat, p % Page = 0
  PROVE  \E i \in Nat : p = i * Page
<1>1. p \div Page \in Nat /\ p = (p \div Page) * Page + 0
  BY RoundDown
<1>2. p = (p \div Page) * Page
  BY <1>1, PageAssumption
<1> QED
  BY <1>1, <1>2

\* The sum of two multiples is one.
LEMMA MultipleSum ==
  ASSUME NEW p \in Nat, NEW q \in Nat, p % Page = 0, q % Page = 0
  PROVE  (p + q) % Page = 0
<1>1. PICK i \in Nat : p = i * Page
  BY MultipleIs
<1>2. PICK j \in Nat : q = j * Page
  BY MultipleIs
<1>3. p + q = (i + j) * Page
  BY <1>1, <1>2, PageAssumption
<1> QED
  BY <1>3, MultipleMod

\* Of two different multiples the larger is a page further, at least.
LEMMA MultiplesApart ==
  ASSUME NEW p \in Nat, NEW q \in Nat, p % Page = 0, q % Page = 0, p < q
  PROVE  p + Page <= q
<1>1. PICK i \in Nat : p = i * Page
  BY MultipleIs
<1>2. PICK j \in Nat : q = j * Page
  BY MultipleIs
<1>3. i < j
  <2>1. CASE i >= j
    <3>1. i * Page >= j * Page
      BY <2>1, PageAssumption
    <3> QED
      BY <1>1, <1>2, <3>1
  <2> QED
    BY <2>1
<1>4. (i + 1) * Page <= j * Page
  BY <1>3, PageAssumption
<1> QED
  BY <1>1, <1>2, <1>4, PageAssumption

\* PageOf is the page a byte lies in.
LEMMA PageOfIs ==
  ASSUME NEW b \in Nat
  PROVE  /\ PageOf(b) \in Nat /\ PageOf(b) % Page = 0
         /\ PageOf(b) <= b /\ b < PageOf(b) + Page
<1>1. b \div Page \in Nat
  BY RoundDown
<1>2. PageOf(b) \in Nat /\ PageOf(b) % Page = 0
  BY <1>1, MultipleMod DEF PageOf
<1>3. b = PageOf(b) + (b % Page) /\ b % Page \in Nat /\ b % Page < Page
  BY RoundDown DEF PageOf
<1> QED
  BY <1>2, <1>3, PageAssumption

\* Rounding up to a page, as ensure_view and resident do.
RoundUp(n) == ((n + Page - 1) \div Page) * Page

\* The end of the page range of [.., n) is the first page boundary from n on.
LEMMA RoundUpIs ==
  ASSUME NEW n \in Nat
  PROVE  /\ RoundUp(n) \in Nat /\ RoundUp(n) % Page = 0
         /\ n <= RoundUp(n) /\ RoundUp(n) < n + Page
         /\ \A v \in Nat : v % Page = 0 /\ n <= v => RoundUp(n) <= v
<1>1. n + Page - 1 \in Nat
  BY PageAssumption
<1>2. /\ RoundUp(n) \in Nat /\ RoundUp(n) % Page = 0
      /\ RoundUp(n) <= n + Page - 1 /\ n + Page - 1 < RoundUp(n) + Page
  BY <1>1, PageOfIs DEF PageOf, RoundUp
<1>3. n <= RoundUp(n) /\ RoundUp(n) < n + Page
  BY <1>2, PageAssumption
<1>4. ASSUME NEW v \in Nat, v % Page = 0, n <= v, v < RoundUp(n) PROVE FALSE
  <2>1. v + Page <= RoundUp(n)
    BY <1>2, <1>4, MultiplesApart
  <2> QED
    BY <1>2, <1>4, <2>1, PageAssumption
<1> QED
  BY <1>2, <1>3, <1>4

\* A mapping is whole pages, the headroom included, and covers the file.
LEMMA ViewLenIs ==
  ASSUME NEW n \in Nat
  PROVE  ViewLen(n) \in Nat /\ ViewLen(n) % Page = 0 /\ n <= ViewLen(n)
<1>1. ViewLen(n) = RoundUp(n) + Headroom
  BY DEF ViewLen, RoundUp
<1>2. RoundUp(n) \in Nat /\ RoundUp(n) % Page = 0 /\ n <= RoundUp(n)
  BY RoundUpIs
<1>3. (RoundUp(n) + Headroom) % Page = 0
  BY <1>2, MultipleSum, HeadroomAssumption
<1> QED
  BY <1>1, <1>2, <1>3, HeadroomAssumption

-----------------------------------------------------------------------------
(* What the file holds.                                                    *)

\* The file f holds the bytes s from place p on.
Holds(f, s, p) == \A i \in 1 .. Len(s) : p + i <= Len(f) /\ f[p + i] = s[i]

LEMMA SubSeqIs ==
  ASSUME NEW B, NEW c \in Seq(B), NEW p \in Nat, NEW m \in 0 .. Len(c)
  PROVE  /\ SubSeq(c, p + 1, m) \in Seq(B)
         /\ Len(SubSeq(c, p + 1, m)) = IF p + 1 <= m THEN m - p ELSE 0
         /\ \A i \in 1 .. Len(SubSeq(c, p + 1, m)) : SubSeq(c, p + 1, m)[i] = c[p + i]
<1>1. CASE p + 1 <= m
  BY <1>1
<1>2. CASE p + 1 > m
  <2>1. SubSeq(c, p + 1, m) = <<>>
    BY <1>2
  <2> QED
    BY <1>2, <2>1
<1> QED
  BY <1>1, <1>2

\* The bytes a read finds are those of the file, as many as were asked for
\* unless the file ends before.
LEMMA SliceIs ==
  ASSUME NEW B, content \in Seq(B), NEW p \in Nat, NEW n \in Nat
  PROVE  /\ Slice(p, n) \in Seq(B)
         /\ Holds(content, Slice(p, n), p)
         /\ Len(Slice(p, n)) <= n
         /\ Len(Slice(p, n)) = n \/ p + Len(Slice(p, n)) >= Size
<1>1. Size \in Nat
  BY DEF Size
<1>2. PICK m \in Nat : m = Min({p + n, Size}) /\ m = IF p + n <= Size THEN p + n ELSE Size
  BY <1>1, MinOfTwo
<1>3. Slice(p, n) = SubSeq(content, p + 1, m)
  BY <1>2 DEF Slice
<1>4. /\ SubSeq(content, p + 1, m) \in Seq(B)
      /\ Len(SubSeq(content, p + 1, m)) = IF p + 1 <= m THEN m - p ELSE 0
      /\ \A i \in 1 .. Len(SubSeq(content, p + 1, m)) :
           SubSeq(content, p + 1, m)[i] = content[p + i]
  <2>1. m \in 0 .. Len(content)
    BY <1>1, <1>2 DEF Size
  <2> QED
    BY <2>1, SubSeqIs
<1>5. PICK t : t = Slice(p, n)
  OBVIOUS
<1>6. /\ t \in Seq(B) /\ Len(t) = IF p + 1 <= m THEN m - p ELSE 0
      /\ \A i \in 1 .. Len(t) : t[i] = content[p + i]
  BY <1>3, <1>4, <1>5
<1>7. Holds(content, t, p)
  <2>1. \A i \in 1 .. Len(t) : p + i <= Len(content)
    BY <1>1, <1>2, <1>6 DEF Size
  <2> QED
    BY <1>6, <2>1 DEF Holds
<1>8. Len(t) <= n /\ (Len(t) = n \/ p + Len(t) >= Size)
  BY <1>1, <1>2, <1>6
<1> QED
  BY <1>5, <1>6, <1>7, <1>8

\* Bytes the file holds at a place are the slice of that length.
LEMMA HoldsIsSlice ==
  ASSUME NEW B, content \in Seq(B), NEW s \in Seq(B), NEW p \in Nat, Holds(content, s, p)
  PROVE  s = Slice(p, Len(s))
<1>1. Size \in Nat /\ Len(s) \in Nat
  BY DEF Size
<1>2. Len(s) = 0 \/ p + Len(s) <= Size
  BY <1>1 DEF Holds, Size
<1>3. PICK t : t = Slice(p, Len(s))
  OBVIOUS
<1>4. /\ t \in Seq(B) /\ Holds(content, t, p) /\ Len(t) <= Len(s)
      /\ Len(t) = Len(s) \/ p + Len(t) >= Size
  BY <1>1, <1>3, SliceIs
<1>5. Len(t) = Len(s)
  BY <1>1, <1>2, <1>4
<1>6. \A i \in 1 .. Len(s) : s[i] = t[i]
  BY <1>4, <1>5 DEF Holds
<1> QED
  BY <1>1, <1>3, <1>4, <1>5, <1>6

\* Nothing is held anywhere.
LEMMA HoldsNothing ==
  ASSUME NEW f, NEW p
  PROVE  Holds(f, <<>>, p)
BY DEF Holds

\* Two pieces, one behind the other.
LEMMA HoldsConcat ==
  ASSUME NEW B, NEW f, NEW s \in Seq(B), NEW t \in Seq(B), NEW p \in Nat,
         Holds(f, s, p), Holds(f, t, p + Len(s))
  PROVE  Holds(f, s \o t, p) /\ s \o t \in Seq(B) /\ Len(s \o t) = Len(s) + Len(t)
<1>1. /\ s \o t \in Seq(B) /\ Len(s \o t) = Len(s) + Len(t) /\ Len(s) \in Nat /\ Len(t) \in Nat
      /\ \A i \in 1 .. Len(s) + Len(t) : (s \o t)[i] = IF i <= Len(s) THEN s[i] ELSE t[i - Len(s)]
  OBVIOUS
<1>2. ASSUME NEW i \in 1 .. Len(s) + Len(t)
      PROVE  p + i <= Len(f) /\ f[p + i] = (s \o t)[i]
  <2>1. CASE i <= Len(s)
    BY <1>1, <1>2, <2>1 DEF Holds
  <2>2. CASE i > Len(s)
    <3>1. i - Len(s) \in 1 .. Len(t) /\ p + Len(s) + (i - Len(s)) = p + i
      BY <1>1, <1>2, <2>2
    <3> QED
      BY <1>1, <2>2, <3>1 DEF Holds
  <2> QED
    BY <1>1, <2>1, <2>2
<1> QED
  BY <1>1, <1>2 DEF Holds

\* The beginning of a piece, and the rest of it.
LEMMA HoldsSplit ==
  ASSUME NEW B, NEW f, NEW s \in Seq(B), NEW p \in Nat, NEW k \in 0 .. Len(s), Holds(f, s, p)
  PROVE  /\ SubSeq(s, 1, k) \in Seq(B) /\ Len(SubSeq(s, 1, k)) = k
         /\ \A i \in 1 .. k : SubSeq(s, 1, k)[i] = s[i]
         /\ Holds(f, SubSeq(s, 1, k), p)
         /\ SubSeq(s, k + 1, Len(s)) \in Seq(B) /\ Len(SubSeq(s, k + 1, Len(s))) = Len(s) - k
         /\ Holds(f, SubSeq(s, k + 1, Len(s)), p + k)
<1>1. /\ SubSeq(s, 1, k) \in Seq(B) /\ Len(SubSeq(s, 1, k)) = k
      /\ \A i \in 1 .. k : SubSeq(s, 1, k)[i] = s[i]
      /\ Len(s) \in Nat
  OBVIOUS
<1>2. /\ SubSeq(s, k + 1, Len(s)) \in Seq(B) /\ Len(SubSeq(s, k + 1, Len(s))) = Len(s) - k
      /\ \A i \in 1 .. Len(s) - k : SubSeq(s, k + 1, Len(s))[i] = s[k + i]
  BY <1>1
<1>3. Holds(f, SubSeq(s, 1, k), p)
  BY <1>1 DEF Holds
<1>4. ASSUME NEW i \in 1 .. Len(s) - k
      PROVE  p + k + i <= Len(f) /\ f[p + k + i] = SubSeq(s, k + 1, Len(s))[i]
  <2>1. k + i \in 1 .. Len(s) /\ p + (k + i) = p + k + i
    BY <1>1
  <2> QED
    BY <1>2, <2>1 DEF Holds
<1> QED
  BY <1>1, <1>2, <1>3, <1>4 DEF Holds

\* What the file holds it still holds when it has grown.
LEMMA HoldsGrown ==
  ASSUME NEW f, NEW g, Len(f) \in Nat, Len(g) \in Nat, Len(f) <= Len(g),
         \A i \in 1 .. Len(f) : g[i] = f[i],
         NEW s, Len(s) \in Nat, NEW p \in Nat, Holds(f, s, p)
  PROVE  Holds(g, s, p)
BY DEF Holds
=============================================================================
