--------------------------- MODULE HostSide_proofs ---------------------------
(***************************************************************************)
(* Proofs about what the host side of a device computes on its own: the    *)
(* staging pools (HostBufferPool), for any size of the block, any          *)
(* alignment and any requests; the blocks of a kernel on the CPU backend   *)
(* (KernelBlock), for any kernel, block size and number of runners; and    *)
(* the streams and events of the Metal backend (MetalStream), for any      *)
(* streams, events and bounds.                                             *)
(*                                                                         *)
(* Pools.  All that the pool does to its free list is to put one node      *)
(* where some neighbouring nodes were (none, one or two), or to take a     *)
(* node out.  The lemmas about "Spliced" say what the former keeps.        *)
(*                                                                         *)
(* Kernels.  In a round over the lanes of a block, the lanes before the    *)
(* present one have run k + 1 parts of the kernel and the others k.        *)
(*                                                                         *)
(* Metal.  The signals of an event are numbered in the order of its        *)
(* stream's queue and the event shows the last one executed, so a wait     *)
(* that is let through comes after the signal it names.  Of the buffers    *)
(* at the heads of stuck queues, the one committed first would wait for a  *)
(* stuck buffer committed before it: there is none.                        *)
(***************************************************************************)
EXTENDS MCHostSide, FrontEnd_proofs, Resources_proofs, DXQueue_proofs, SequenceTheorems,
        NaturalsInduction, WellFoundedInduction, TLAPS

\* The pieces of the block, and the bytes of one.
Piece == {x \in [offset : 0 .. Limit, size : 1 .. Limit] : x.offset + x.size <= Limit}
Separate(x, y) == End(x) <= y.offset \/ End(y) <= x.offset
HasByte(x, b) == x.offset <= b /\ b < End(x)
Multiple(n) == \E m \in Nat : n = m * Alignment

FreeInOrder(fr) ==
    /\ fr \in Seq(Piece)
    /\ \A j, k \in DOMAIN fr : j < k => End(fr[j]) < fr[k].offset

UsersApart(us) == us \subseteq Piece /\ \A x, y \in us : x # y => Separate(x, y)

FreeUnused(fr, us) == \A k \in DOMAIN fr : \A x \in us : Separate(fr[k], x)

Covered(fr, us) ==
    \A b \in 0 .. Limit - 1 :
        (\E k \in DOMAIN fr : HasByte(fr[k], b)) \/ (\E x \in us : HasByte(x, b))

AtMultiples(fr, us) ==
    /\ \A k \in DOMAIN fr : Multiple(fr[k].offset)
    /\ \A x \in us : Multiple(x.offset)

Exact(fr, us) ==
    FreeInOrder(fr) /\ UsersApart(us) /\ FreeUnused(fr, us) /\ Covered(fr, us) /\ AtMultiples(fr, us)

\* The inductive invariant.
PoolInv == Exact(free, inUse) /\ adHoc \in 0 .. MaxAdHoc /\ failed = FALSE

-----------------------------------------------------------------------------
LEMMA PieceFacts ==
  ASSUME NEW x \in Piece
  PROVE  /\ x.offset \in Nat /\ x.size \in Nat /\ x.size > 0
         /\ End(x) \in Nat /\ End(x) = x.offset + x.size /\ End(x) <= Limit /\ x.offset < End(x)
BY PoolAssumption DEF Piece, End

LEMMA PieceMade ==
  ASSUME NEW a \in Nat, NEW e \in Nat, a < e, e <= Limit, NEW x, x = Node(a, e - a)
  PROVE  x \in Piece /\ x.offset = a /\ End(x) = e
<1>1. a \in 0 .. Limit /\ e - a \in 1 .. Limit /\ a + (e - a) = e
  BY PoolAssumption
<1> DEFINE n == e - a
<1>2. x = [offset |-> a, size |-> n]
  BY DEF Node
<1> HIDE DEF n
<1>3. x.offset = a /\ x.size = n
  BY <1>2
<1>4. a + n = e /\ n \in 1 .. Limit
  BY <1>1 DEF n
<1> QED
  BY <1>1, <1>2, <1>3, <1>4 DEF Piece, End

LEMMA LeastNumber ==
  ASSUME NEW S \in SUBSET Nat, S # {}
  PROVE  \E x \in S : \A y \in S : x <= y
<1>1. \E x \in S : \A y \in S : ~(<<y, x>> \in OpToRel(<, Nat))
  BY NatLessThanWellFounded, WFMin
<1>2. \E x \in S : \A y \in S : ~(y < x)
  BY <1>1 DEF OpToRel
<1> QED
  BY <1>2

\* Alignment rounds up to the next multiple.
LEMMA AlignedFacts ==
  ASSUME NEW n \in Nat \ {0}
  PROVE  Aligned(n) \in Nat /\ Aligned(n) >= n /\ Multiple(Aligned(n))
<1> DEFINE q == (n + Alignment - 1) \div Alignment
           r == (n + Alignment - 1) % Alignment
<1>1. Alignment \in Nat /\ Alignment > 0
  BY PoolAssumption
<1>2. /\ q \in Nat /\ r \in Nat /\ r < Alignment
      /\ n + Alignment - 1 = Alignment * q + r
  BY <1>1
<1>3. Aligned(n) = q * Alignment
  BY DEF Aligned
<1> HIDE DEF q, r
<1>4. q * Alignment = Alignment * q /\ Alignment * q \in Nat
  BY <1>1, <1>2
<1>5. Multiple(q * Alignment)
  BY <1>2 DEF Multiple
<1> QED
  BY <1>1, <1>2, <1>3, <1>4, <1>5

LEMMA MultiplesAdd ==
  ASSUME NEW a, NEW b, Multiple(a), Multiple(b)
  PROVE  Multiple(a + b)
<1>1. PICK m \in Nat : a = m * Alignment
  BY DEF Multiple
<1>2. PICK k \in Nat : b = k * Alignment
  BY DEF Multiple
<1>3. Alignment \in Nat
  BY PoolAssumption
<1>4. a + b = (m + k) * Alignment
  BY <1>1, <1>2, <1>3
<1>5. m + k \in Nat
  OBVIOUS
<1> QED
  BY <1>4, <1>5 DEF Multiple

LEMMA MultipleIsAligned ==
  ASSUME NEW a, Multiple(a)
  PROVE  a % Alignment = 0
<1>1. PICK m \in Nat : a = m * Alignment
  BY DEF Multiple
<1>2. Alignment \in Nat /\ Alignment > 0
  BY PoolAssumption
<1> QED
  BY <1>1, <1>2

-----------------------------------------------------------------------------
(***************************************************************************)
(* The free list                                                           *)
(***************************************************************************)
\* s2 is s with node m in the place of the nodes lo to hi (before node lo,
\* when hi is lo - 1).
Spliced(s, lo, hi, m, s2) ==
    /\ s \in Seq(Piece) /\ lo \in 1 .. Len(s) + 1 /\ hi \in 0 .. Len(s) /\ lo <= hi + 1
    /\ s2 \in Seq(Piece) /\ Len(s2) = Len(s) - (hi - lo)
    /\ \A j \in 1 .. lo - 1 : s2[j] = s[j]
    /\ s2[lo] = m
    /\ \A j \in lo + 1 .. Len(s2) : s2[j] = s[j + (hi - lo)]

\* s2 is s without node k.
Dropped(s, k, s2) ==
    /\ s \in Seq(Piece) /\ k \in 1 .. Len(s)
    /\ s2 \in Seq(Piece) /\ Len(s2) = Len(s) - 1
    /\ \A j \in 1 .. k - 1 : s2[j] = s[j]
    /\ \A j \in k .. Len(s2) : s2[j] = s[j + 1]

LEMMA ListFacts ==
  ASSUME NEW s \in Seq(Piece)
  PROVE  /\ Len(s) \in Nat /\ DOMAIN s = 1 .. Len(s)
         /\ \A k \in 1 .. Len(s) : s[k] \in Piece
BY LenProperties, ElementOfSeq

LEMMA ReplaceSplices ==
  ASSUME NEW s \in Seq(Piece), NEW k \in 1 .. Len(s), NEW m \in Piece
  PROVE  Spliced(s, k, k, m, [s EXCEPT ![k] = m])
<1> DEFINE s2 == [s EXCEPT ![k] = m]
<1>1. Len(s) \in Nat /\ DOMAIN s = 1 .. Len(s)
  BY ListFacts
<1>2. s2 \in Seq(Piece) /\ Len(s2) = Len(s) /\ s2[k] = m
      /\ \A j \in 1 .. Len(s) : j # k => s2[j] = s[j]
  BY <1>1, ExceptSeq
<1> HIDE DEF s2
<1>3. k \in Int /\ k - k = 0 /\ \A j \in k + 1 .. Len(s2) : j + (k - k) = j /\ j \in 1 .. Len(s) /\ j # k
  BY <1>1, <1>2
<1>4. \A j \in 1 .. k - 1 : j \in 1 .. Len(s) /\ j # k
  BY <1>1
<1> QED
  <2>1. Spliced(s, k, k, m, s2)
    BY <1>1, <1>2, <1>3, <1>4 DEF Spliced
  <2> QED
    BY <2>1 DEF s2

LEMMA CutFacts ==
  ASSUME NEW s \in Seq(Piece), NEW a \in Int, NEW b \in Int, a >= 1, b <= Len(s)
  PROVE  /\ SubSeq(s, a, b) \in Seq(Piece)
         /\ Len(SubSeq(s, a, b)) = IF a <= b THEN b - a + 1 ELSE 0
         /\ \A j \in 1 .. b - a + 1 : SubSeq(s, a, b)[j] = s[a + j - 1]
<1>1. \A j \in a .. b : s[j] \in Piece
  BY ListFacts
<1> QED
  BY <1>1, SubSeqProperties

LEMMA Joined ==
  ASSUME NEW s1 \in Seq(Piece), NEW s2 \in Seq(Piece)
  PROVE  /\ s1 \o s2 \in Seq(Piece) /\ Len(s1 \o s2) = Len(s1) + Len(s2)
         /\ \A j \in 1 .. Len(s1) : (s1 \o s2)[j] = s1[j]
         /\ \A j \in Len(s1) + 1 .. Len(s1) + Len(s2) : (s1 \o s2)[j] = s2[j - Len(s1)]
<1> DEFINE s == s1 \o s2
           a == Len(s1)
           b == Len(s2)
<1>1. a \in Nat /\ b \in Nat
  BY ListFacts
<1>2. s \in Seq(Piece) /\ Len(s) = a + b
  BY ConcatProperties
<1>3. \A j \in 1 .. a + b : s[j] = IF j <= a THEN s1[j] ELSE s2[j - a]
  BY ConcatProperties
<1> HIDE DEF s, a, b
<1>4. \A j \in 1 .. a : j \in 1 .. a + b /\ j <= a
  BY <1>1
<1>5. \A j \in a + 1 .. a + b : j \in 1 .. a + b /\ ~(j <= a)
  BY <1>1
<1>6. /\ \A j \in 1 .. a : s[j] = s1[j]
      /\ \A j \in a + 1 .. a + b : s[j] = s2[j - a]
  BY <1>3, <1>4, <1>5
<1> QED
  BY <1>2, <1>6 DEF s, a, b

LEMMA RemoveDrops ==
  ASSUME NEW s \in Seq(Piece), NEW k \in 1 .. Len(s)
  PROVE  Dropped(s, k, RemoveAt(s, k))
<1> DEFINE front == SubSeq(s, 1, k - 1)
           back  == SubSeq(s, k + 1, Len(s))
           s2    == RemoveAt(s, k)
<1>1. Len(s) \in Nat /\ k \in Int
  BY ListFacts
<1>2. /\ front \in Seq(Piece) /\ Len(front) = k - 1
      /\ \A j \in 1 .. k - 1 : front[j] = s[j]
  BY <1>1, CutFacts
<1>3. /\ back \in Seq(Piece) /\ Len(back) = Len(s) - k
      /\ \A j \in 1 .. Len(s) - k : back[j] = s[k + j]
  <2>1. /\ back \in Seq(Piece) /\ Len(back) = Len(s) - k
        /\ \A j \in 1 .. Len(s) - (k + 1) + 1 : back[j] = s[k + 1 + j - 1]
    BY <1>1, CutFacts
  <2> HIDE DEF back
  <2>2. \A j \in 1 .. Len(s) - k : j \in 1 .. Len(s) - (k + 1) + 1 /\ k + 1 + j - 1 = k + j
    BY <1>1
  <2> QED
    BY <2>1, <2>2
<1>4. s2 = front \o back
  BY DEF RemoveAt
<1> HIDE DEF front, back, s2
<1>5. /\ s2 \in Seq(Piece) /\ Len(s2) = Len(front) + Len(back)
      /\ \A j \in 1 .. Len(front) : s2[j] = front[j]
      /\ \A j \in Len(front) + 1 .. Len(front) + Len(back) : s2[j] = back[j - Len(front)]
  BY <1>2, <1>3, <1>4, Joined
<1>6. \A j \in 1 .. k - 1 : s2[j] = s[j]
  BY <1>2, <1>5
<1>7. ASSUME NEW j \in k .. Len(s2) PROVE s2[j] = s[j + 1]
  <2>1. s2[j] = back[j - (k - 1)]
    <3>1. j \in Len(front) + 1 .. Len(front) + Len(back)
      BY <1>1, <1>2, <1>3, <1>5
    <3> QED
      BY <1>2, <1>5, <3>1
  <2>2. j - (k - 1) \in 1 .. Len(s) - k /\ k + (j - (k - 1)) = j + 1
    BY <1>1, <1>2, <1>3, <1>5
  <2> QED
    BY <1>3, <2>1, <2>2
<1> QED
  <2>1. Dropped(s, k, s2)
    BY <1>1, <1>2, <1>3, <1>5, <1>6, <1>7 DEF Dropped
  <2> QED
    BY <2>1 DEF s2

LEMMA InsertSplices ==
  ASSUME NEW s \in Seq(Piece), NEW k \in 1 .. Len(s) + 1, NEW m \in Piece
  PROVE  Spliced(s, k, k - 1, m, InsertAt(s, k, m))
<1> DEFINE front == SubSeq(s, 1, k - 1)
           back  == SubSeq(s, k, Len(s))
           one   == <<m>>
           older  == front \o one
           n     == Len(front)
           s2    == InsertAt(s, k, m)
<1>1. Len(s) \in Nat /\ k \in Int
  BY ListFacts
<1>2. /\ front \in Seq(Piece) /\ Len(front) = k - 1
      /\ \A j \in 1 .. k - 1 : front[j] = s[j]
  BY <1>1, CutFacts
<1>3. /\ back \in Seq(Piece) /\ Len(back) = Len(s) - k + 1
      /\ \A j \in 1 .. Len(s) - k + 1 : back[j] = s[k + j - 1]
  BY <1>1, CutFacts
<1>4. one \in Seq(Piece) /\ Len(one) = 1 /\ one[1] = m
  OBVIOUS
<1>5. s2 = older \o back
  BY DEF InsertAt
<1> HIDE DEF front, back, one, s2
<1>6. /\ older \in Seq(Piece) /\ Len(older) = n + 1
      /\ \A j \in 1 .. n : older[j] = front[j]
      /\ \A j \in n + 1 .. n + 1 : older[j] = one[j - n]
  <2>1. /\ older \in Seq(Piece) /\ Len(older) = n + Len(one)
        /\ \A j \in 1 .. n : older[j] = front[j]
        /\ \A j \in n + 1 .. n + Len(one) : older[j] = one[j - n]
    BY <1>2, <1>4, Joined
  <2> HIDE DEF older, n
  <2> QED
    BY <1>4, <2>1
<1> HIDE DEF older
<1>a. /\ Len(older) = k /\ older[k] = m
      /\ \A j \in 1 .. k - 1 : older[j] = s[j]
  <2>1. Len(older) = k
    BY <1>1, <1>2, <1>6
  <2>2. k \in n + 1 .. n + 1 /\ k - n = 1 /\ \A j \in 1 .. k - 1 : j \in 1 .. n
    BY <1>1, <1>2
  <2> QED
    BY <1>2, <1>4, <1>6, <2>1, <2>2
<1>7. /\ s2 \in Seq(Piece) /\ Len(s2) = Len(older) + Len(back)
      /\ \A j \in 1 .. Len(older) : s2[j] = older[j]
      /\ \A j \in Len(older) + 1 .. Len(older) + Len(back) : s2[j] = back[j - Len(older)]
  BY <1>3, <1>5, <1>6, Joined
<1>b. Len(s2) = Len(s) + 1
  BY <1>1, <1>3, <1>7, <1>a
<1>8. \A j \in 1 .. k - 1 : s2[j] = s[j]
  <2>1. \A j \in 1 .. k - 1 : j \in 1 .. k
    BY <1>1
  <2> QED
    BY <1>7, <1>a, <2>1
<1>9. s2[k] = m
  <2>1. k \in 1 .. k
    BY <1>1
  <2> QED
    BY <1>7, <1>a, <2>1
<1>10. ASSUME NEW j \in k + 1 .. Len(s2) PROVE s2[j] = s[j + (k - 1 - k)]
  <2>1. s2[j] = back[j - k]
    <3>1. j \in Len(older) + 1 .. Len(older) + Len(back)
      BY <1>1, <1>7, <1>a
    <3> QED
      BY <1>7, <1>a, <3>1
  <2>2. j - k \in 1 .. Len(s) - k + 1 /\ k + (j - k) - 1 = j + (k - 1 - k)
    BY <1>1, <1>b
  <2> QED
    BY <1>3, <2>1, <2>2
<1> QED
  <2>1. /\ k - 1 \in 0 .. Len(s) /\ k \in 1 .. Len(s) + 1 /\ k <= k - 1 + 1
        /\ Len(s2) = Len(s) - (k - 1 - k)
    BY <1>1, <1>b
  <2>2. Spliced(s, k, k - 1, m, s2)
    BY <1>7, <1>8, <1>9, <1>10, <2>1 DEF Spliced
  <2> QED
    BY <2>2 DEF s2

LEMMA PrependSplices ==
  ASSUME NEW s \in Seq(Piece), NEW m \in Piece
  PROVE  Spliced(s, 1, 0, m, <<m>> \o s)
<1> DEFINE one == <<m>>
           s2  == one \o s
<1>1. one \in Seq(Piece) /\ Len(one) = 1 /\ one[1] = m
  OBVIOUS
<1>2. Len(s) \in Nat
  BY ListFacts
<1>3. s2 = one \o s
  OBVIOUS
<1> HIDE DEF one, s2
<1>4. /\ s2 \in Seq(Piece) /\ Len(s2) = Len(one) + Len(s)
      /\ \A j \in 1 .. Len(one) : s2[j] = one[j]
      /\ \A j \in Len(one) + 1 .. Len(one) + Len(s) : s2[j] = s[j - Len(one)]
  BY <1>1, <1>3, Joined
<1> QED
  <2>1. Spliced(s, 1, 0, m, s2)
    BY <1>1, <1>2, <1>4 DEF Spliced
  <2> QED
    BY <2>1 DEF s2, one

LEMMA MergeSplices ==
  ASSUME NEW s \in Seq(Piece), NEW k \in 1 .. Len(s) - 1, NEW m \in Piece,
         NEW s1, Spliced(s, k, k, m, s1)
  PROVE  Spliced(s, k, k + 1, m, RemoveAt(s1, k + 1))
<1> DEFINE s2 == RemoveAt(s1, k + 1)
<1>1. Len(s) \in Nat /\ k \in Int /\ k \in 1 .. Len(s)
  BY ListFacts
<1>3. /\ s1 \in Seq(Piece) /\ Len(s1) = Len(s) /\ s1[k] = m
      /\ \A j \in 1 .. k - 1 : s1[j] = s[j]
      /\ \A j \in k + 1 .. Len(s) : s1[j] = s[j]
  BY <1>1 DEF Spliced
<1>4. Dropped(s1, k + 1, s2)
  <2>1. k + 1 \in 1 .. Len(s1)
    BY <1>1, <1>3
  <2> QED
    BY <1>3, <2>1, RemoveDrops
<1> HIDE DEF s2
<1>5. /\ s2 \in Seq(Piece) /\ Len(s2) = Len(s) - 1
      /\ \A j \in 1 .. k : s2[j] = s1[j]
      /\ \A j \in k + 1 .. Len(s2) : s2[j] = s1[j + 1]
  <2>1. k + 1 - 1 = k
    BY <1>1
  <2> QED
    BY <1>3, <1>4, <2>1 DEF Dropped
<1>6. \A j \in k + 1 .. Len(s2) : s2[j] = s[j + (k + 1 - k)]
  <2>1. \A j \in k + 1 .. Len(s2) : j + 1 \in k + 1 .. Len(s) /\ j + 1 = j + (k + 1 - k)
    BY <1>1, <1>5
  <2> QED
    BY <1>3, <1>5, <2>1
<1>7. /\ k \in 1 .. k /\ k \in 1 .. Len(s) + 1 /\ k + 1 \in 0 .. Len(s) /\ k <= k + 1 + 1
      /\ Len(s2) = Len(s) - (k + 1 - k) /\ \A j \in 1 .. k - 1 : j \in 1 .. k
  BY <1>1, <1>5
<1> QED
  <2>1. Spliced(s, k, k + 1, m, s2)
    BY <1>1, <1>3, <1>5, <1>6, <1>7 DEF Spliced
  <2> QED
    BY <2>1 DEF s2

-----------------------------------------------------------------------------
(***************************************************************************)
(* What the changes of the list keep                                       *)
(***************************************************************************)
LEMMA SeparateBytes ==
  ASSUME NEW x \in Piece, NEW y \in Piece
  PROVE  Separate(x, y) <=> \A b \in Nat : ~(HasByte(x, b) /\ HasByte(y, b))
<1>1. /\ x.offset \in Nat /\ End(x) \in Nat /\ x.offset < End(x)
      /\ y.offset \in Nat /\ End(y) \in Nat /\ y.offset < End(y)
  BY PieceFacts
<1>2. CASE x.offset <= y.offset
  <2>1. Separate(x, y) <=> End(x) <= y.offset
    BY <1>1, <1>2 DEF Separate
  <2>2. HasByte(y, y.offset) /\ (HasByte(x, y.offset) <=> y.offset < End(x))
    BY <1>1, <1>2 DEF HasByte
  <2>3. \A b \in Nat : HasByte(x, b) /\ HasByte(y, b) => y.offset < End(x)
    BY <1>1 DEF HasByte
  <2> QED
    BY <1>1, <2>1, <2>2, <2>3
<1>3. CASE y.offset <= x.offset
  <2>1. Separate(x, y) <=> End(y) <= x.offset
    BY <1>1, <1>3 DEF Separate
  <2>2. HasByte(x, x.offset) /\ (HasByte(y, x.offset) <=> x.offset < End(y))
    BY <1>1, <1>3 DEF HasByte
  <2>3. \A b \in Nat : HasByte(x, b) /\ HasByte(y, b) => x.offset < End(y)
    BY <1>1 DEF HasByte
  <2> QED
    BY <1>1, <2>1, <2>2, <2>3
<1> QED
  BY <1>1, <1>2, <1>3

\* The nodes of the list after a splice.
LEMMA SplicedNodes ==
  ASSUME NEW s, NEW lo, NEW hi, NEW m, NEW s2, Spliced(s, lo, hi, m, s2)
  PROVE  /\ \A j \in DOMAIN s2 : \/ s2[j] = m
                                 \/ \E i \in DOMAIN s : (i < lo \/ i > hi) /\ s2[j] = s[i]
         /\ \A i \in DOMAIN s : (i < lo \/ i > hi) => \E j \in DOMAIN s2 : s2[j] = s[i]
         /\ \E j \in DOMAIN s2 : s2[j] = m
<1>1. /\ Len(s) \in Nat /\ DOMAIN s = 1 .. Len(s) /\ Len(s2) \in Nat /\ DOMAIN s2 = 1 .. Len(s2)
      /\ lo \in 1 .. Len(s) + 1 /\ hi \in 0 .. Len(s) /\ lo <= hi + 1
      /\ Len(s2) = Len(s) - (hi - lo)
  BY ListFacts DEF Spliced
<1>2. ASSUME NEW j \in DOMAIN s2
      PROVE  s2[j] = m \/ \E i \in DOMAIN s : (i < lo \/ i > hi) /\ s2[j] = s[i]
  <2>1. CASE j < lo
    <3>1. j \in 1 .. lo - 1 /\ j \in DOMAIN s
      BY <1>1, <1>2, <2>1
    <3> QED
      BY <2>1, <3>1 DEF Spliced
  <2>2. CASE j > lo
    <3>1. j \in lo + 1 .. Len(s2) /\ j + (hi - lo) \in DOMAIN s /\ j + (hi - lo) > hi
      BY <1>1, <1>2, <2>2
    <3> QED
      BY <3>1 DEF Spliced
  <2> QED
    BY <1>1, <1>2, <2>1, <2>2 DEF Spliced
<1>3. ASSUME NEW i \in DOMAIN s, i < lo \/ i > hi
      PROVE  \E j \in DOMAIN s2 : s2[j] = s[i]
  <2>1. CASE i < lo
    <3>1. i \in 1 .. lo - 1 /\ i \in DOMAIN s2
      BY <1>1, <1>3, <2>1
    <3> QED
      BY <3>1 DEF Spliced
  <2>2. CASE i > hi
    <3> DEFINE j == i - (hi - lo)
    <3>1. j \in lo + 1 .. Len(s2) /\ j \in DOMAIN s2 /\ j + (hi - lo) = i
      BY <1>1, <1>3, <2>2
    <3> QED
      BY <3>1 DEF Spliced
  <2> QED
    BY <1>3, <2>1, <2>2
<1>4. lo \in DOMAIN s2
  BY <1>1
<1> QED
  BY <1>2, <1>3, <1>4 DEF Spliced

LEMMA DroppedNodes ==
  ASSUME NEW s, NEW k, NEW s2, Dropped(s, k, s2)
  PROVE  /\ \A j \in DOMAIN s2 : \E i \in DOMAIN s : i # k /\ s2[j] = s[i]
         /\ \A i \in DOMAIN s : i # k => \E j \in DOMAIN s2 : s2[j] = s[i]
<1>1. /\ Len(s) \in Nat /\ DOMAIN s = 1 .. Len(s) /\ Len(s2) \in Nat /\ DOMAIN s2 = 1 .. Len(s2)
      /\ k \in 1 .. Len(s) /\ Len(s2) = Len(s) - 1
  BY ListFacts DEF Dropped
<1>2. ASSUME NEW j \in DOMAIN s2
      PROVE  \E i \in DOMAIN s : i # k /\ s2[j] = s[i]
  <2>1. CASE j < k
    <3>1. j \in 1 .. k - 1 /\ j \in DOMAIN s /\ j # k
      BY <1>1, <1>2, <2>1
    <3> QED
      BY <3>1 DEF Dropped
  <2>2. CASE j >= k
    <3>1. j \in k .. Len(s2) /\ j + 1 \in DOMAIN s /\ j + 1 # k
      BY <1>1, <1>2, <2>2
    <3> QED
      BY <3>1 DEF Dropped
  <2> QED
    BY <1>1, <1>2, <2>1, <2>2
<1>3. ASSUME NEW i \in DOMAIN s, i # k
      PROVE  \E j \in DOMAIN s2 : s2[j] = s[i]
  <2>1. CASE i < k
    <3>1. i \in 1 .. k - 1 /\ i \in DOMAIN s2
      BY <1>1, <1>3, <2>1
    <3> QED
      BY <3>1 DEF Dropped
  <2>2. CASE i > k
    <3> DEFINE j == i - 1
    <3>1. j \in k .. Len(s2) /\ j \in DOMAIN s2 /\ j + 1 = i
      BY <1>1, <1>3, <2>2
    <3> QED
      BY <3>1 DEF Dropped
  <2> QED
    BY <1>1, <1>3, <2>1, <2>2
<1> QED
  BY <1>2, <1>3

\* The node fits between those that stay, with room on both sides.
RoomAround(s, lo, hi, m) ==
    /\ m \in Piece
    /\ lo > 1 => End(s[lo - 1]) < m.offset
    /\ hi < Len(s) => End(m) < s[hi + 1].offset

LEMMA SplicedInOrder ==
  ASSUME NEW s, FreeInOrder(s), NEW lo, NEW hi, NEW m, NEW s2, Spliced(s, lo, hi, m, s2),
         RoomAround(s, lo, hi, m)
  PROVE  FreeInOrder(s2)
<1>1. /\ Len(s) \in Nat /\ DOMAIN s = 1 .. Len(s) /\ Len(s2) \in Nat /\ DOMAIN s2 = 1 .. Len(s2)
      /\ lo \in 1 .. Len(s) + 1 /\ hi \in 0 .. Len(s) /\ lo <= hi + 1
      /\ Len(s2) = Len(s) - (hi - lo) /\ s2 \in Seq(Piece)
      /\ \A i \in 1 .. Len(s) : s[i] \in Piece
  BY ListFacts DEF Spliced
<1>2. /\ \A i \in 1 .. Len(s) : s[i].offset \in Nat /\ End(s[i]) \in Nat /\ s[i].offset < End(s[i])
      /\ m.offset \in Nat /\ End(m) \in Nat /\ m.offset < End(m)
  BY <1>1, PieceFacts DEF RoomAround
<1>3. \A i, k \in 1 .. Len(s) : i < k => End(s[i]) < s[k].offset
  BY <1>1 DEF FreeInOrder
<1>4. \A i \in 1 .. lo - 1 : End(s[i]) < m.offset
  <2> SUFFICES ASSUME NEW i \in 1 .. lo - 1 PROVE End(s[i]) < m.offset
    OBVIOUS
  <2>1. i \in 1 .. Len(s) /\ lo - 1 \in 1 .. Len(s) /\ lo > 1 /\ (i = lo - 1 \/ i < lo - 1)
    BY <1>1
  <2>2. End(s[lo - 1]) < m.offset
    BY <2>1 DEF RoomAround
  <2> QED
    BY <1>2, <1>3, <2>1, <2>2
<1>5. \A i \in hi + 1 .. Len(s) : End(m) < s[i].offset
  <2> SUFFICES ASSUME NEW i \in hi + 1 .. Len(s) PROVE End(m) < s[i].offset
    OBVIOUS
  <2>1. i \in 1 .. Len(s) /\ hi + 1 \in 1 .. Len(s) /\ hi < Len(s) /\ (i = hi + 1 \/ hi + 1 < i)
    BY <1>1
  <2>2. End(m) < s[hi + 1].offset
    BY <2>1 DEF RoomAround
  <2> QED
    BY <1>2, <1>3, <2>1, <2>2
<1>6. ASSUME NEW j \in DOMAIN s2, NEW k \in DOMAIN s2, j < k
      PROVE  End(s2[j]) < s2[k].offset
  <2> DEFINE d == hi - lo
  <2>1. /\ j < lo => j \in 1 .. Len(s) /\ j \in 1 .. lo - 1 /\ s2[j] = s[j]
        /\ k < lo => k \in 1 .. Len(s) /\ s2[k] = s[k]
    <3>1. /\ j < lo => j \in 1 .. Len(s) /\ j \in 1 .. lo - 1
          /\ k < lo => k \in 1 .. Len(s) /\ k \in 1 .. lo - 1
      BY <1>1, <1>6
    <3> QED
      BY <3>1 DEF Spliced
  <2>2. /\ j > lo => j + d \in 1 .. Len(s) /\ s2[j] = s[j + d]
        /\ k > lo => k + d \in 1 .. Len(s) /\ k + d \in hi + 1 .. Len(s) /\ s2[k] = s[k + d]
    <3>1. j > lo => j + d \in 1 .. Len(s) /\ j \in lo + 1 .. Len(s2)
      BY <1>1, <1>6
    <3>2. k > lo => k + d \in hi + 1 .. Len(s) /\ k \in lo + 1 .. Len(s2)
      BY <1>1, <1>6
    <3>3. k > lo => k + d \in 1 .. Len(s)
      BY <1>1, <3>2
    <3> QED
      BY <3>1, <3>2, <3>3 DEF Spliced
  <2>3. s2[lo] = m
    BY DEF Spliced
  <2>4. /\ j < lo \/ j = lo \/ j > lo
        /\ k < lo \/ k = lo \/ k > lo
        /\ j < lo /\ k > lo => j < k + d
        /\ j > lo => k > lo /\ j + d < k + d
        /\ j = lo => k > lo
    BY <1>1, <1>6
  <2> HIDE DEF d
  <2>5. CASE j < lo /\ k < lo
    BY <1>3, <1>6, <2>1, <2>5
  <2>6. CASE j < lo /\ k = lo
    BY <1>4, <2>1, <2>3, <2>6
  <2>7. CASE j < lo /\ k > lo
    BY <1>3, <2>1, <2>2, <2>4, <2>7
  <2>8. CASE j = lo /\ k > lo
    BY <1>5, <2>2, <2>3, <2>8
  <2>9. CASE j > lo /\ k > lo
    BY <1>3, <2>2, <2>4, <2>9
  <2> QED
    BY <1>6, <2>4, <2>5, <2>6, <2>7, <2>8, <2>9
<1> QED
  BY <1>1, <1>6 DEF FreeInOrder

LEMMA DroppedInOrder ==
  ASSUME NEW s, FreeInOrder(s), NEW k, NEW s2, Dropped(s, k, s2)
  PROVE  FreeInOrder(s2)
<1>1. /\ Len(s) \in Nat /\ DOMAIN s = 1 .. Len(s) /\ Len(s2) \in Nat /\ DOMAIN s2 = 1 .. Len(s2)
      /\ k \in 1 .. Len(s) /\ Len(s2) = Len(s) - 1 /\ s2 \in Seq(Piece)
  BY ListFacts DEF Dropped
<1>2. ASSUME NEW i \in DOMAIN s2, NEW j \in DOMAIN s2, i < j
      PROVE  End(s2[i]) < s2[j].offset
  <2>1. /\ i < k => i \in 1 .. Len(s) /\ i \in 1 .. k - 1
        /\ j < k => j \in 1 .. Len(s) /\ j \in 1 .. k - 1
        /\ i >= k => i + 1 \in 1 .. Len(s) /\ i \in k .. Len(s2)
        /\ j >= k => j + 1 \in 1 .. Len(s) /\ j \in k .. Len(s2)
        /\ i < k \/ i >= k
        /\ j < k \/ j >= k
        /\ i >= k => j >= k
        /\ i < j + 1 /\ i + 1 < j + 1
    BY <1>1, <1>2
  <2>2. /\ i < k => s2[i] = s[i]
        /\ j < k => s2[j] = s[j]
        /\ i >= k => s2[i] = s[i + 1]
        /\ j >= k => s2[j] = s[j + 1]
    BY <2>1 DEF Dropped
  <2>3. \A a, b \in 1 .. Len(s) : a < b => End(s[a]) < s[b].offset
    BY <1>1 DEF FreeInOrder
  <2> QED
    BY <1>2, <2>1, <2>2, <2>3
<1> QED
  BY <1>1, <1>2 DEF FreeInOrder

\* A piece that has the bytes of others is separate from what they are separate
\* from.
LEMMA SeparateFromPieces ==
  ASSUME NEW m \in Piece, NEW y \in Piece, NEW Pieces \in SUBSET Piece,
         \A b \in Nat : HasByte(m, b) => \E x \in Pieces : HasByte(x, b),
         \A x \in Pieces : Separate(x, y)
  PROVE  Separate(m, y)
<1>1. \A x \in Pieces : \A b \in Nat : ~(HasByte(x, b) /\ HasByte(y, b))
  BY SeparateBytes
<1>2. \A b \in Nat : ~(HasByte(m, b) /\ HasByte(y, b))
  BY <1>1
<1> QED
  BY <1>2, SeparateBytes

\* A node that is given back has been merged with the nodes lo to hi into m.
Absorbs(s, lo, hi, node, m) ==
    /\ Multiple(m.offset)
    /\ \A b \in Nat : HasByte(m, b) => \/ HasByte(node, b)
                                       \/ \E i \in DOMAIN s : lo <= i /\ i <= hi /\ HasByte(s[i], b)
    /\ \A b \in Nat : HasByte(node, b) => HasByte(m, b)
    /\ \A i \in DOMAIN s : lo <= i /\ i <= hi => \A b \in Nat : HasByte(s[i], b) => HasByte(m, b)

LEMMA PutBackExact ==
  ASSUME NEW s, NEW us, Exact(s, us), NEW node \in us,
         NEW lo, NEW hi, NEW m, NEW s2, Spliced(s, lo, hi, m, s2),
         RoomAround(s, lo, hi, m), Absorbs(s, lo, hi, node, m)
  PROVE  Exact(s2, us \ {node})
<1>1. /\ FreeInOrder(s) /\ UsersApart(us) /\ FreeUnused(s, us) /\ Covered(s, us)
      /\ AtMultiples(s, us)
  BY DEF Exact
<1>2. /\ \A j \in DOMAIN s2 : \/ s2[j] = m
                              \/ \E i \in DOMAIN s : (i < lo \/ i > hi) /\ s2[j] = s[i]
      /\ \A i \in DOMAIN s : (i < lo \/ i > hi) => \E j \in DOMAIN s2 : s2[j] = s[i]
      /\ \E j \in DOMAIN s2 : s2[j] = m
  BY SplicedNodes
<1>3. /\ Len(s) \in Nat /\ DOMAIN s = 1 .. Len(s) /\ lo \in Int /\ hi \in Int
      /\ \A i \in DOMAIN s : s[i] \in Piece
      /\ m \in Piece /\ us \subseteq Piece
  BY <1>1, ListFacts DEF Spliced, RoomAround, UsersApart
<1>4. FreeInOrder(s2)
  BY <1>1, SplicedInOrder
<1>5. UsersApart(us \ {node})
  BY <1>1 DEF UsersApart
<1>6. FreeUnused(s2, us \ {node})
  <2> SUFFICES ASSUME NEW x \in us, x # node PROVE Separate(m, x)
    BY <1>1, <1>2 DEF FreeUnused
  <2> DEFINE Pieces == {node} \cup {s[i] : i \in {k \in DOMAIN s : lo <= k /\ k <= hi}}
  <2>1. Pieces \in SUBSET Piece
    BY <1>3
  <2>2. \A b \in Nat : HasByte(m, b) => \E y \in Pieces : HasByte(y, b)
    BY DEF Absorbs
  <2>3. \A y \in Pieces : Separate(y, x)
    BY <1>1 DEF UsersApart, FreeUnused
  <2> HIDE DEF Pieces
  <2> QED
    BY <1>3, <2>1, <2>2, <2>3, SeparateFromPieces
<1>7. Covered(s2, us \ {node})
  <2> SUFFICES ASSUME NEW b \in 0 .. Limit - 1
               PROVE  \/ \E k \in DOMAIN s2 : HasByte(s2[k], b)
                      \/ \E x \in us \ {node} : HasByte(x, b)
    BY DEF Covered
  <2>1. b \in Nat
    BY PoolAssumption
  <2>2. CASE \E x \in us : HasByte(x, b)
    BY <1>2, <2>1, <2>2 DEF Absorbs
  <2>3. CASE \E k \in DOMAIN s : HasByte(s[k], b)
    <3>1. PICK k \in DOMAIN s : HasByte(s[k], b)
      BY <2>3
    <3>2. CASE lo <= k /\ k <= hi
      BY <1>2, <2>1, <3>1, <3>2 DEF Absorbs
    <3>3. CASE k < lo \/ k > hi
      BY <1>2, <3>1, <3>3
    <3> QED
      BY <1>3, <3>2, <3>3
  <2> QED
    BY <1>1, <2>2, <2>3 DEF Covered
<1>8. AtMultiples(s2, us \ {node})
  BY <1>1, <1>2 DEF AtMultiples, Absorbs
<1> QED
  BY <1>4, <1>5, <1>6, <1>7, <1>8 DEF Exact

\* The whole of a free node is handed out.
LEMMA TakeWholeExact ==
  ASSUME NEW s, NEW us, Exact(s, us), NEW k, NEW s2, Dropped(s, k, s2)
  PROVE  Exact(s2, us \cup {s[k]})
<1>1. /\ FreeInOrder(s) /\ UsersApart(us) /\ FreeUnused(s, us) /\ Covered(s, us)
      /\ AtMultiples(s, us)
  BY DEF Exact
<1>2. /\ \A j \in DOMAIN s2 : \E i \in DOMAIN s : i # k /\ s2[j] = s[i]
      /\ \A i \in DOMAIN s : i # k => \E j \in DOMAIN s2 : s2[j] = s[i]
  BY DroppedNodes
<1>3. /\ Len(s) \in Nat /\ DOMAIN s = 1 .. Len(s) /\ k \in DOMAIN s
      /\ \A i \in DOMAIN s : s[i] \in Piece
  BY ListFacts DEF Dropped
<1>4. FreeInOrder(s2)
  BY <1>1, DroppedInOrder
<1>5. \A i, j \in DOMAIN s : i # j => Separate(s[i], s[j])
  <2>1. \A i \in DOMAIN s : s[i].offset \in Nat /\ End(s[i]) \in Nat
    BY <1>3, PieceFacts
  <2> QED
    BY <1>1, <1>3, <2>1 DEF FreeInOrder, Separate
<1>6. UsersApart(us \cup {s[k]})
  <2>1. \A x \in us : Separate(x, s[k]) /\ Separate(s[k], x)
    BY <1>1, <1>3 DEF FreeUnused, Separate
  <2> QED
    BY <1>1, <1>3, <2>1 DEF UsersApart
<1>7. FreeUnused(s2, us \cup {s[k]})
  BY <1>1, <1>2, <1>3, <1>5 DEF FreeUnused
<1>8. Covered(s2, us \cup {s[k]})
  BY <1>1, <1>2 DEF Covered
<1>9. AtMultiples(s2, us \cup {s[k]})
  BY <1>1, <1>2, <1>3 DEF AtMultiples
<1> QED
  BY <1>4, <1>6, <1>7, <1>8, <1>9 DEF Exact

\* A free node is split: its beginning is handed out, the rest stays.
Halves(x, first, rest) ==
    /\ first \in Piece /\ rest \in Piece /\ Multiple(rest.offset)
    /\ first.offset = x.offset /\ End(first) = rest.offset /\ End(rest) = End(x)

LEMMA SplitExact ==
  ASSUME NEW s, NEW us, Exact(s, us), NEW k \in DOMAIN s,
         NEW first, NEW rest, Halves(s[k], first, rest),
         NEW s2, Spliced(s, k, k, rest, s2)
  PROVE  Exact(s2, us \cup {first})
<1>1. /\ FreeInOrder(s) /\ UsersApart(us) /\ FreeUnused(s, us) /\ Covered(s, us)
      /\ AtMultiples(s, us)
  BY DEF Exact
<1>2. /\ \A j \in DOMAIN s2 : \/ s2[j] = rest
                              \/ \E i \in DOMAIN s : i # k /\ s2[j] = s[i]
      /\ \A i \in DOMAIN s : i # k => \E j \in DOMAIN s2 : s2[j] = s[i]
      /\ \E j \in DOMAIN s2 : s2[j] = rest
  <2>1. Len(s) \in Nat /\ DOMAIN s = 1 .. Len(s) /\ k \in Int
    BY ListFacts DEF Spliced
  <2>2. \A i \in DOMAIN s : (i < k \/ i > k) <=> i # k
    BY <2>1
  <2> QED
    BY <2>2, SplicedNodes
<1>3. /\ Len(s) \in Nat /\ DOMAIN s = 1 .. Len(s)
      /\ \A i \in DOMAIN s : s[i] \in Piece
      /\ first \in Piece /\ rest \in Piece
  BY ListFacts DEF Spliced, Halves
<1>4. /\ \A i \in DOMAIN s : s[i].offset \in Nat /\ End(s[i]) \in Nat /\ s[i].offset < End(s[i])
      /\ \A i, j \in DOMAIN s : i < j => End(s[i]) < s[j].offset
      /\ first.offset \in Nat /\ End(first) \in Nat /\ first.offset < End(first)
      /\ rest.offset \in Nat /\ End(rest) \in Nat /\ rest.offset < End(rest)
      /\ first.offset = s[k].offset /\ End(first) = rest.offset /\ End(rest) = End(s[k])
  BY <1>1, <1>3, PieceFacts DEF Halves, FreeInOrder
<1>5. FreeInOrder(s2)
  <2>1. k > 1 => k - 1 \in DOMAIN s /\ k - 1 < k
    BY <1>3
  <2>2. k < Len(s) => k + 1 \in DOMAIN s /\ k < k + 1
    BY <1>3
  <2>3. RoomAround(s, k, k, rest)
    BY <1>3, <1>4, <2>1, <2>2 DEF RoomAround
  <2> QED
    BY <1>1, <2>3, SplicedInOrder
<1>6. \A b \in Nat : HasByte(s[k], b) <=> HasByte(first, b) \/ HasByte(rest, b)
  BY <1>4 DEF HasByte
<1>7. \A y \in Piece : Separate(s[k], y) => Separate(first, y) /\ Separate(rest, y)
  <2> SUFFICES ASSUME NEW y \in Piece, Separate(s[k], y)
               PROVE  Separate(first, y) /\ Separate(rest, y)
    OBVIOUS
  <2>1. y.offset \in Nat /\ End(y) \in Nat
    BY PieceFacts
  <2> QED
    BY <1>4, <2>1 DEF Separate
<1>8. UsersApart(us \cup {first})
  <2>1. \A x \in us : x \in Piece /\ Separate(s[k], x)
    BY <1>1 DEF FreeUnused, UsersApart
  <2>2. \A x \in us : Separate(first, x) /\ Separate(x, first)
    BY <1>7, <2>1 DEF Separate
  <2> QED
    BY <1>1, <1>3, <2>2 DEF UsersApart
<1>9. FreeUnused(s2, us \cup {first})
  <2>1. Separate(rest, first)
    BY <1>4 DEF Separate
  <2>2. \A x \in us : Separate(rest, x)
    BY <1>1, <1>7 DEF FreeUnused, UsersApart
  <2>3. \A i \in DOMAIN s : i # k => Separate(s[i], first)
    <3> SUFFICES ASSUME NEW i \in DOMAIN s, i # k PROVE Separate(s[i], first)
      OBVIOUS
    <3>1. i < k \/ k < i
      BY <1>3
    <3> QED
      BY <1>4, <3>1 DEF Separate
  <2> QED
    BY <1>1, <1>2, <2>1, <2>2, <2>3 DEF FreeUnused
<1>10. Covered(s2, us \cup {first})
  <2> SUFFICES ASSUME NEW b \in 0 .. Limit - 1
               PROVE  \/ \E j \in DOMAIN s2 : HasByte(s2[j], b)
                      \/ \E x \in us \cup {first} : HasByte(x, b)
    BY DEF Covered
  <2>1. b \in Nat
    BY PoolAssumption
  <2>2. CASE \E x \in us : HasByte(x, b)
    BY <2>2
  <2>3. CASE \E j \in DOMAIN s : HasByte(s[j], b)
    BY <1>2, <1>6, <2>1, <2>3
  <2> QED
    BY <1>1, <2>2, <2>3 DEF Covered
<1>11. AtMultiples(s2, us \cup {first})
  BY <1>1, <1>2, <1>4 DEF AtMultiples, Halves
<1> QED
  BY <1>5, <1>8, <1>9, <1>10, <1>11 DEF Exact

-----------------------------------------------------------------------------
(***************************************************************************)
(* The operations of the pool                                              *)
(***************************************************************************)
LEMMA InitPoolInv == PoolInit => PoolInv
<1> SUFFICES ASSUME PoolInit PROVE PoolInv
  OBVIOUS
<1> DEFINE all == Node(0, Limit)
<1>1. Limit \in Nat /\ Limit > 0
  BY PoolAssumption
<1>2. all \in Piece /\ all.offset = 0 /\ End(all) = Limit
  <2>1. all = Node(0, Limit - 0)
    BY <1>1
  <2> HIDE DEF all
  <2> QED
    BY <1>1, <2>1, PieceMade
<1> HIDE DEF all
<1>3. /\ free \in Seq(Piece) /\ DOMAIN free = {1} /\ free[1] = all
      /\ inUse = {} /\ adHoc = 0 /\ failed = FALSE
  BY <1>2 DEF PoolInit, all
<1>4. Multiple(all.offset)
  <2>1. 0 \in Nat /\ 0 * Alignment = 0
    BY PoolAssumption
  <2> QED
    BY <1>2, <2>1 DEF Multiple
<1>5. Covered(free, inUse)
  BY <1>1, <1>2, <1>3 DEF Covered, HasByte
<1>6. FreeInOrder(free) /\ UsersApart(inUse) /\ FreeUnused(free, inUse) /\ AtMultiples(free, inUse)
  BY <1>3, <1>4 DEF FreeInOrder, UsersApart, FreeUnused, AtMultiples
<1>7. adHoc \in 0 .. MaxAdHoc
  BY <1>3, PoolAssumption
<1> QED
  BY <1>3, <1>5, <1>6, <1>7 DEF PoolInv, Exact

LEMMA ExactFacts ==
  ASSUME NEW s, NEW us, Exact(s, us)
  PROVE  /\ s \in Seq(Piece) /\ Len(s) \in Nat /\ DOMAIN s = 1 .. Len(s) /\ us \subseteq Piece
         /\ \A k \in 1 .. Len(s) : s[k] \in Piece
BY ListFacts DEF Exact, FreeInOrder, UsersApart

\* The first node that fits is one of the list.
LEMMA FirstFitFits ==
  ASSUME free \in Seq(Piece), NEW n, HasFit(n)
  PROVE  FirstFit(n) \in DOMAIN free /\ Fits(free[FirstFit(n)], n)
<1> DEFINE Good == {k \in DOMAIN free : Fits(free[k], n)}
<1>1. Len(free) \in Nat /\ DOMAIN free = 1 .. Len(free)
  BY ListFacts
<1>2. Good \in SUBSET Nat /\ Good # {}
  BY <1>1 DEF HasFit
<1> HIDE DEF Good
<1>3. PICK k \in Good : \A j \in Good : k <= j
  BY <1>2, LeastNumber
<1>4. k \in DOMAIN free /\ Fits(free[k], n)
  BY <1>3 DEF Good
<1>5. \A j \in 1 .. k - 1 : ~Fits(free[j], n)
  <2> SUFFICES ASSUME NEW j \in 1 .. k - 1, Fits(free[j], n) PROVE FALSE
    OBVIOUS
  <2>1. j \in DOMAIN free /\ ~(k <= j)
    BY <1>1, <1>4
  <2> QED
    BY <1>3, <2>1 DEF Good
<1> QED
  BY <1>4, <1>5 DEF FirstFit

\* What an allocation hands out: a piece of a free node, from its beginning.
LEMMA AllocateEffect ==
  ASSUME Exact(free, inUse), NEW n \in Request, Allocate(n)
  PROVE  /\ Exact(free', inUse')
         /\ \E k \in DOMAIN free : \E r \in Piece :
              /\ inUse' = inUse \cup {r} /\ r.offset = free[k].offset /\ r.size >= n
              /\ End(r) <= End(free[k])
<1> DEFINE k == FirstFit(n)
           node == free[k]
           up == Aligned(n)
           first == Node(node.offset, up)
           rest == Node(node.offset + up, node.size - up)
<1>1. /\ free \in Seq(Piece) /\ Len(free) \in Nat /\ DOMAIN free = 1 .. Len(free)
      /\ \A j \in 1 .. Len(free) : free[j] \in Piece
  BY ExactFacts
<1>2. k \in DOMAIN free /\ Fits(node, n)
  BY <1>1, FirstFitFits DEF Allocate
<1>3. n \in Nat \ {0} /\ up \in Nat /\ up >= n /\ Multiple(up)
  BY PoolAssumption, AlignedFacts
<1>4. node \in Piece /\ node.size > n
  BY <1>1, <1>2 DEF Fits
<1>5. /\ node.offset \in Nat /\ node.size \in Nat /\ End(node) \in Nat
      /\ End(node) = node.offset + node.size /\ End(node) <= Limit
  BY <1>4, PieceFacts
<1>6. Multiple(node.offset)
  BY <1>2 DEF Exact, AtMultiples
<1>a. \/ /\ node.size > up
         /\ inUse' = inUse \cup {first} /\ free' = [free EXCEPT ![k] = rest]
      \/ /\ node.size <= up
         /\ inUse' = inUse \cup {node} /\ free' = RemoveAt(free, k)
  BY DEF Allocate
<1> HIDE DEF k, up
<1>7. CASE /\ node.size > up
           /\ inUse' = inUse \cup {first} /\ free' = [free EXCEPT ![k] = rest]
  <2> DEFINE a == node.offset
             e == a + up
             z == End(node)
  <2>1. a \in Nat /\ e \in Nat /\ z \in Nat /\ a < e /\ e < z /\ e <= Limit /\ z <= Limit
        /\ up = e - a /\ node.size - up = z - e
    BY <1>3, <1>5, <1>7, PoolAssumption
  <2>2. first = Node(a, e - a) /\ rest = Node(e, z - e)
    BY <2>1
  <2> HIDE DEF first, rest, a, e, z
  <2>3. /\ first \in Piece /\ first.offset = a /\ End(first) = e
        /\ rest \in Piece /\ rest.offset = e /\ End(rest) = z
    BY <2>1, <2>2, PieceMade
  <2>4. Multiple(e)
    BY <1>3, <1>6, MultiplesAdd DEF e, a
  <2>5. Halves(node, first, rest)
    BY <2>3, <2>4 DEF Halves, a, z
  <2>6. Spliced(free, k, k, rest, free')
    BY <1>1, <1>2, <1>7, <2>3, ReplaceSplices
  <2>7. Exact(free', inUse')
    BY <1>2, <1>7, <2>5, <2>6, SplitExact
  <2>8. first.size >= n
    <3>1. first.size \in Nat /\ End(first) = first.offset + first.size
      BY <2>3, PieceFacts
    <3> QED
      BY <1>3, <2>1, <2>3, <3>1
  <2>9. End(first) <= End(node) /\ first.offset = node.offset
    BY <2>1, <2>3 DEF z, a
  <2> QED
    BY <1>2, <1>7, <2>3, <2>7, <2>8, <2>9
<1>8. CASE /\ node.size <= up
           /\ inUse' = inUse \cup {node} /\ free' = RemoveAt(free, k)
  <2>1. Dropped(free, k, free')
    BY <1>1, <1>2, <1>8, RemoveDrops
  <2>2. Exact(free', inUse')
    BY <1>8, <2>1, TakeWholeExact
  <2>3. node.size >= n /\ End(node) <= End(node) /\ n \in Nat
    BY <1>3, <1>4, <1>5
  <2> QED
    BY <1>2, <1>4, <1>8, <2>2, <2>3
<1> QED
  BY <1>7, <1>8, <1>a

\* A node in use lies beside every free node.
LEMMA UsedBesideFree ==
  ASSUME Exact(free, inUse), NEW node \in inUse
  PROVE  /\ node \in Piece /\ Multiple(node.offset)
         /\ node.offset \in Nat /\ node.size \in Nat /\ End(node) \in Nat /\ node.offset < End(node)
         /\ End(node) <= Limit
         /\ \A k \in DOMAIN free :
              /\ End(free[k]) <= node.offset \/ End(node) <= free[k].offset
              /\ free[k] \in Piece /\ Multiple(free[k].offset)
              /\ free[k].offset \in Nat /\ free[k].size \in Nat /\ End(free[k]) \in Nat
              /\ free[k].offset < End(free[k]) /\ End(free[k]) <= Limit
         /\ \A j, k \in DOMAIN free : j < k => End(free[j]) < free[k].offset
BY ExactFacts, PieceFacts DEF Exact, FreeUnused, Separate, AtMultiples, FreeInOrder

\* free() finds a place in the list for every node in use.
LEMMA PlaceFound ==
  ASSUME Exact(free, inUse), NEW node \in inUse, ~GoesFirst(node)
  PROVE  \E k \in Places(node) : \A j \in Places(node) : k <= j
<1> DEFINE S == {k \in DOMAIN free : k = Len(free) \/ ~(End(free[k + 1]) <= node.offset)}
<1>1. /\ Len(free) \in Nat /\ DOMAIN free = 1 .. Len(free)
  BY ExactFacts
<1>2. 1 \in DOMAIN free /\ ~(End(node) <= free[1].offset)
  <2>1. free # <<>> /\ ~(End(node) <= free[1].offset)
    BY DEF GoesFirst
  <2>2. free \in Seq(Piece)
    BY ExactFacts
  <2>3. Len(free) # 0
    BY <2>1, <2>2, EmptySeq
  <2> QED
    BY <1>1, <2>1, <2>3
<1>3. S \in SUBSET Nat /\ S # {}
  <2>1. Len(free) \in S
    BY <1>1, <1>2
  <2> QED
    BY <1>1, <2>1
<1>4. PICK k \in S : \A j \in S : k <= j
  BY <1>3, LeastNumber
<1>5. End(free[k]) <= node.offset
  <2>1. CASE k = 1
    BY <1>2, <2>1, UsedBesideFree
  <2>2. CASE k # 1
    <3>1. k - 1 \in DOMAIN free /\ k - 1 # Len(free) /\ ~(k <= k - 1) /\ k - 1 + 1 = k
      BY <1>1, <1>4, <2>2
    <3>2. k - 1 \notin S
      BY <1>4, <3>1
    <3> QED
      BY <3>1, <3>2
  <2> QED
    BY <2>1, <2>2
<1>6. k \in Places(node)
  <2>1. k = Len(free) \/ End(node) <= free[k + 1].offset
    <3>1. k # Len(free) => k + 1 \in DOMAIN free
      BY <1>1, <1>4
    <3> QED
      BY <1>4, <3>1, UsedBesideFree
  <2> QED
    BY <1>4, <1>5, <2>1 DEF Places
<1>7. Places(node) \in SUBSET Nat
  BY <1>1 DEF Places
<1> QED
  BY <1>6, <1>7, LeastNumber

\* The node goes after node k (before the first one, when k is 0), alone or
\* merged with the nodes it touches.
LEMMA PutExact ==
  ASSUME Exact(free, inUse), NEW node \in inUse,
         NEW k \in 0 .. Len(free),
         k > 0 => End(free[k]) <= node.offset,
         k < Len(free) => End(node) <= free[k + 1].offset,
         NEW lo, lo = (IF k > 0 /\ End(free[k]) = node.offset THEN k ELSE k + 1),
         NEW hi, hi = (IF k < Len(free) /\ End(node) = free[k + 1].offset THEN k + 1 ELSE k),
         NEW m \in Piece,
         m.offset = (IF lo = k THEN free[k].offset ELSE node.offset),
         End(m) = (IF hi = k THEN End(node) ELSE End(free[k + 1])),
         NEW s2, Spliced(free, lo, hi, m, s2)
  PROVE  Exact(s2, inUse \ {node})
<1>1. /\ Len(free) \in Nat /\ DOMAIN free = 1 .. Len(free) /\ k \in Int
      /\ k > 0 => k \in DOMAIN free
      /\ k < Len(free) => k + 1 \in DOMAIN free
      /\ lo \in Int /\ hi \in Int
  BY ExactFacts
<1>2. /\ Multiple(node.offset) /\ node.offset \in Nat /\ End(node) \in Nat /\ node.offset < End(node)
      /\ \A j \in DOMAIN free :
           /\ Multiple(free[j].offset) /\ free[j].offset \in Nat /\ End(free[j]) \in Nat
           /\ free[j].offset < End(free[j])
      /\ \A i, j \in DOMAIN free : i < j => End(free[i]) < free[j].offset
  BY UsedBesideFree
<1>3. RoomAround(free, lo, hi, m)
  <2>1. ASSUME lo > 1 PROVE End(free[lo - 1]) < m.offset
    <3>1. CASE lo = k
      <4>1. k - 1 \in DOMAIN free /\ k \in DOMAIN free /\ k - 1 < k /\ lo - 1 = k - 1
        BY <1>1, <2>1, <3>1
      <4> QED
        BY <1>2, <3>1, <4>1
    <3>2. CASE lo # k
      <4>1. lo = k + 1 /\ lo - 1 = k /\ k > 0 /\ k \in DOMAIN free /\ End(free[k]) # node.offset
        BY <1>1, <2>1, <3>2
      <4> QED
        BY <1>2, <3>2, <4>1
    <3> QED
      BY <3>1, <3>2
  <2>2. ASSUME hi < Len(free) PROVE End(m) < free[hi + 1].offset
    <3>1. CASE hi = k
      <4>1. k < Len(free) /\ k + 1 \in DOMAIN free /\ End(node) # free[k + 1].offset
        BY <1>1, <2>2, <3>1
      <4> QED
        BY <1>2, <3>1, <4>1
    <3>2. CASE hi # k
      <4>1. hi = k + 1 /\ k < Len(free)
        BY <3>2
      <4>2. k + 1 \in DOMAIN free /\ k + 1 + 1 \in DOMAIN free /\ k + 1 < k + 1 + 1
        BY <1>1, <2>2, <4>1
      <4> QED
        BY <1>2, <3>2, <4>1, <4>2
    <3> QED
      BY <3>1, <3>2
  <2> QED
    BY <2>1, <2>2 DEF RoomAround
<1>4. Absorbs(free, lo, hi, node, m)
  <2>1. Multiple(m.offset)
    <3>1. lo = k => k \in DOMAIN free
      BY <1>1
    <3> QED
      BY <1>2, <3>1
  <2>2. /\ lo = k => k \in DOMAIN free /\ End(free[k]) = node.offset
        /\ hi # k => hi = k + 1 /\ k + 1 \in DOMAIN free /\ End(node) = free[k + 1].offset
        /\ lo # k => lo = k + 1
    BY <1>1
  <2>3. m.offset <= node.offset /\ End(node) <= End(m)
    BY <1>2, <2>2
  <2>4. m.offset \in Nat /\ End(m) \in Nat
    BY PieceFacts
  <2>5. \A i \in DOMAIN free : lo <= i /\ i <= hi => (i = k /\ lo = k) \/ (i = k + 1 /\ hi # k)
    BY <1>1, <2>2
  <2>6. ASSUME NEW b \in Nat, HasByte(m, b)
        PROVE  \/ HasByte(node, b)
               \/ \E i \in DOMAIN free : lo <= i /\ i <= hi /\ HasByte(free[i], b)
    <3>1. CASE b < node.offset
      <4>1. lo = k
        BY <1>2, <2>4, <2>6, <3>1 DEF HasByte
      <4>2. HasByte(free[k], b)
        BY <2>2, <2>6, <3>1, <4>1 DEF HasByte
      <4>3. lo <= k /\ k <= hi
        BY <1>1, <2>2, <4>1
      <4> QED
        BY <2>2, <4>1, <4>2, <4>3
    <3>2. CASE End(node) <= b
      <4>1. hi # k
        BY <1>2, <2>4, <2>6, <3>2 DEF HasByte
      <4>2. HasByte(free[k + 1], b)
        BY <2>2, <2>6, <3>2, <4>1 DEF HasByte
      <4>3. lo <= k + 1 /\ k + 1 <= hi
        BY <1>1, <2>2, <4>1
      <4> QED
        BY <2>2, <4>1, <4>2, <4>3
    <3>3. CASE node.offset <= b /\ b < End(node)
      BY <3>3 DEF HasByte
    <3> QED
      BY <1>2, <3>1, <3>2, <3>3
  <2>7. \A b \in Nat : HasByte(node, b) => HasByte(m, b)
    BY <1>2, <2>3, <2>4 DEF HasByte
  <2>8. ASSUME NEW i \in DOMAIN free, lo <= i, i <= hi, NEW b \in Nat, HasByte(free[i], b)
        PROVE  HasByte(m, b)
    <3>1. CASE i = k /\ lo = k
      BY <1>2, <2>2, <2>3, <2>4, <2>8, <3>1 DEF HasByte
    <3>2. CASE i = k + 1 /\ hi # k
      BY <1>2, <2>2, <2>3, <2>4, <2>8, <3>2 DEF HasByte
    <3> QED
      BY <2>5, <2>8, <3>1, <3>2
  <2> QED
    BY <2>1, <2>6, <2>7, <2>8 DEF Absorbs
<1> QED
  BY <1>3, <1>4, PutBackExact

LEMMA PutFirstExact ==
  ASSUME Exact(free, inUse), NEW node \in inUse, GoesFirst(node)
  PROVE  Exact(PutFirst(node), inUse \ {node})
<1>1. /\ free \in Seq(Piece) /\ Len(free) \in Nat /\ DOMAIN free = 1 .. Len(free)
  BY ExactFacts
<1>2. node \in Piece /\ node.offset \in Nat /\ node.size \in Nat /\ End(node) \in Nat
      /\ End(node) = node.offset + node.size
  BY UsedBesideFree DEF End
<1>3. 0 < Len(free) <=> free # <<>>
  BY <1>1, EmptySeq
<1>4. 0 \in 0 .. Len(free) /\ (0 < Len(free) => End(node) <= free[0 + 1].offset) /\ ~(0 > 0)
  BY <1>1, <1>3 DEF GoesFirst
<1>5. CASE free # <<>> /\ End(node) = free[1].offset
  <2> DEFINE m == Node(node.offset, node.size + free[1].size)
             z == End(free[1])
             a == node.offset
  <2>1. 1 \in DOMAIN free
    BY <1>1, <1>3, <1>5
  <2>2. /\ free[1].size \in Nat /\ z \in Nat /\ free[1].offset < z /\ z <= Limit
        /\ z = free[1].offset + free[1].size /\ a < End(node)
    BY <2>1, UsedBesideFree DEF End
  <2>3. m = Node(a, z - a) /\ a < z
    <3>1. node.size + free[1].size = z - a /\ a < z
      BY <1>2, <1>5, <2>2
    <3> QED
      BY <3>1
  <2>4. PutFirst(node) = [free EXCEPT ![1] = m]
    BY <1>5 DEF PutFirst
  <2> HIDE DEF m, z, a
  <2>5. m \in Piece /\ m.offset = a /\ End(m) = z
    BY <1>2, <2>2, <2>3, PieceMade DEF a
  <2>6. Spliced(free, 1, 1, m, PutFirst(node))
    <3>1. Spliced(free, 1, 1, m, [free EXCEPT ![1] = m])
      BY <1>1, <2>1, <2>5, ReplaceSplices
    <3> QED
      BY <2>4, <3>1
  <2> DEFINE k == 0
             lo == 1
             hi == 1
  <2>7. /\ k \in 0 .. Len(free)
        /\ ~(k > 0)
        /\ k < Len(free) => End(node) <= free[k + 1].offset
        /\ lo = (IF k > 0 /\ End(free[k]) = node.offset THEN k ELSE k + 1)
        /\ hi = (IF k < Len(free) /\ End(node) = free[k + 1].offset THEN k + 1 ELSE k)
        /\ m.offset = (IF lo = k THEN free[k].offset ELSE node.offset)
        /\ End(m) = (IF hi = k THEN End(node) ELSE End(free[k + 1]))
    BY <1>3, <1>4, <1>5, <2>5 DEF a, z
  <2> HIDE DEF k, lo, hi
  <2>8. Spliced(free, lo, hi, m, PutFirst(node))
    BY <2>6 DEF lo, hi
  <2> QED
    BY <2>5, <2>7, <2>8, PutExact
<1>6. CASE ~(free # <<>> /\ End(node) = free[1].offset)
  <2>1. PutFirst(node) = <<node>> \o free
    BY <1>6 DEF PutFirst
  <2>2. Spliced(free, 1, 0, node, PutFirst(node))
    BY <1>1, <1>2, <2>1, PrependSplices
  <2> DEFINE k == 0
             lo == 1
             hi == 0
  <2>3. /\ k \in 0 .. Len(free)
        /\ ~(k > 0)
        /\ k < Len(free) => End(node) <= free[k + 1].offset
        /\ lo = (IF k > 0 /\ End(free[k]) = node.offset THEN k ELSE k + 1)
        /\ hi = (IF k < Len(free) /\ End(node) = free[k + 1].offset THEN k + 1 ELSE k)
        /\ node.offset = (IF lo = k THEN free[k].offset ELSE node.offset)
        /\ End(node) = (IF hi = k THEN End(node) ELSE End(free[k + 1]))
    BY <1>3, <1>4, <1>6
  <2> HIDE DEF k, lo, hi
  <2>4. Spliced(free, lo, hi, node, PutFirst(node))
    BY <2>2 DEF lo, hi
  <2> QED
    BY <1>2, <2>3, <2>4, PutExact
<1> QED
  BY <1>5, <1>6

LEMMA PutAfterExact ==
  ASSUME Exact(free, inUse), NEW node \in inUse, NEW k \in Places(node)
  PROVE  Exact(PutAfter(node, k), inUse \ {node})
<1> DEFINE before == End(free[k]) = node.offset
           behind == k < Len(free) /\ End(node) = free[k + 1].offset
           lo == IF before THEN k ELSE k + 1
           hi == IF behind THEN k + 1 ELSE k
           a == IF before THEN free[k].offset ELSE node.offset
           z == IF behind THEN End(free[k + 1]) ELSE End(node)
           m == Node(a, z - a)
           s2 == PutAfter(node, k)
<1>1. /\ free \in Seq(Piece) /\ Len(free) \in Nat /\ DOMAIN free = 1 .. Len(free)
      /\ k \in DOMAIN free /\ k \in Int /\ k > 0 /\ End(free[k]) <= node.offset
      /\ k < Len(free) => End(node) <= free[k + 1].offset
      /\ behind => k + 1 \in DOMAIN free
  <2>1. /\ free \in Seq(Piece) /\ Len(free) \in Nat /\ DOMAIN free = 1 .. Len(free)
    BY ExactFacts
  <2>2. /\ k \in DOMAIN free /\ End(free[k]) <= node.offset
        /\ k = Len(free) \/ End(node) <= free[k + 1].offset
    BY DEF Places
  <2> QED
    BY <2>1, <2>2
<1>2. /\ node \in Piece /\ node.offset \in Nat /\ node.size \in Nat /\ End(node) \in Nat
      /\ End(node) = node.offset + node.size /\ node.offset < End(node) /\ End(node) <= Limit
      /\ \A j \in DOMAIN free :
           /\ free[j].offset \in Nat /\ free[j].size \in Nat /\ End(free[j]) \in Nat
           /\ End(free[j]) = free[j].offset + free[j].size
           /\ free[j].offset < End(free[j]) /\ End(free[j]) <= Limit
  BY UsedBesideFree DEF End
<1>3. a \in Nat /\ z \in Nat /\ a < z /\ z <= Limit
  BY <1>1, <1>2
<1>4. m \in Piece /\ m.offset = a /\ End(m) = z
  <2>1. m = Node(a, z - a)
    OBVIOUS
  <2> HIDE DEF m, a, z
  <2> QED
    BY <1>3, <2>1, PieceMade
<1>5. Spliced(free, lo, hi, m, s2)
  <2>1. CASE before /\ behind
    <3> DEFINE n == node.size + free[k + 1].size
    <3>1. m = Node(free[k].offset, free[k].size + n)
      <4>1. z - a = free[k].size + n
        <5>1. z = End(free[k + 1]) /\ a = free[k].offset
          BY <2>1
        <5>2. k + 1 \in DOMAIN free
          BY <1>1, <2>1
        <5>3. End(free[k]) = node.offset /\ End(node) = free[k + 1].offset
          BY <2>1
        <5>4. /\ End(free[k]) = free[k].offset + free[k].size
              /\ End(free[k + 1]) = free[k + 1].offset + free[k + 1].size
              /\ free[k].offset \in Nat /\ free[k].size \in Nat
              /\ free[k + 1].offset \in Nat /\ free[k + 1].size \in Nat
          BY <1>1, <1>2, <5>2
        <5> HIDE DEF z, a
        <5> QED
          BY <1>2, <5>1, <5>3, <5>4
      <4>2. a = free[k].offset
        BY <2>1
      <4> QED
        BY <4>1, <4>2
    <3>2. [free EXCEPT ![k].size = @ + node.size + free[k + 1].size]
            = [free EXCEPT ![k].size = @ + n]
      <4>1. free[k].size + node.size + free[k + 1].size = free[k].size + n
        BY <1>1, <1>2, <2>1
      <4> QED
        BY <4>1
    <3>3. s2 = RemoveAt([free EXCEPT ![k] = m], k + 1)
      <4>1. s2 = RemoveAt([free EXCEPT ![k].size = @ + node.size + free[k + 1].size], k + 1)
        BY <2>1 DEF PutAfter
      <4> HIDE DEF s2, m, n
      <4>2. [free EXCEPT ![k].size = @ + n]
              = [free EXCEPT ![k] = Node(free[k].offset, free[k].size + n)]
        <5>1. free[k] \in Piece
          BY <1>1, ListFacts
        <5>2. [free[k] EXCEPT !.size = @ + n] = Node(free[k].offset, free[k].size + n)
          BY <5>1 DEF Piece, Node
        <5> QED
          BY <5>2
      <4> QED
        BY <3>1, <3>2, <4>1, <4>2
    <3>4. k \in 1 .. Len(free) - 1 /\ lo = k /\ hi = k + 1
      BY <1>1, <2>1
    <3> HIDE DEF m, s2, lo, hi
    <3>5. Spliced(free, k, k, m, [free EXCEPT ![k] = m])
      BY <1>1, <1>4, ReplaceSplices
    <3> QED
      BY <1>1, <1>4, <3>3, <3>4, <3>5, MergeSplices
  <2>2. CASE before /\ ~behind
    <3>1. m = Node(free[k].offset, free[k].size + node.size)
      <4>1. z - a = free[k].size + node.size
        <5>1. z = End(node) /\ a = free[k].offset /\ End(free[k]) = node.offset
          BY <2>2
        <5>2. free[k].offset \in Nat /\ free[k].size \in Nat /\ End(free[k]) = free[k].offset + free[k].size
          BY <1>1, <1>2
        <5> QED
          BY <1>2, <5>1, <5>2
      <4>2. a = free[k].offset
        BY <2>2
      <4> QED
        BY <4>1, <4>2
    <3>2. s2 = [free EXCEPT ![k] = m]
      <4>1. s2 = [free EXCEPT ![k].size = @ + node.size]
        BY <2>2 DEF PutAfter
      <4> DEFINE n == node.size
      <4> HIDE DEF s2, m, n
      <4>2. [free EXCEPT ![k].size = @ + n]
              = [free EXCEPT ![k] = Node(free[k].offset, free[k].size + n)]
        <5>1. free[k] \in Piece
          BY <1>1, ListFacts
        <5>2. [free[k] EXCEPT !.size = @ + n] = Node(free[k].offset, free[k].size + n)
          BY <5>1 DEF Piece, Node
        <5> QED
          BY <5>2
      <4> QED
        BY <3>1, <4>1, <4>2 DEF n
    <3>3. lo = k /\ hi = k
      BY <2>2
    <3> HIDE DEF m, s2, lo, hi
    <3> QED
      BY <1>1, <1>4, <3>2, <3>3, ReplaceSplices
  <2>3. CASE ~before /\ behind
    <3>1. m = Node(node.offset, node.size + free[k + 1].size)
      <4>1. z - a = node.size + free[k + 1].size
        <5>1. z = End(free[k + 1]) /\ a = node.offset /\ End(node) = free[k + 1].offset
          BY <2>3
        <5>2. /\ free[k + 1].offset \in Nat /\ free[k + 1].size \in Nat
              /\ End(free[k + 1]) = free[k + 1].offset + free[k + 1].size
          BY <1>1, <1>2, <2>3
        <5> QED
          BY <1>2, <5>1, <5>2
      <4>2. a = node.offset
        BY <2>3
      <4> QED
        BY <4>1, <4>2
    <3>2. s2 = [free EXCEPT ![k + 1] = m]
      <4>1. s2 = [free EXCEPT ![k + 1] = Node(node.offset, node.size + @.size)]
        BY <2>3 DEF PutAfter
      <4> HIDE DEF s2, m
      <4> QED
        BY <1>1, <2>3, <3>1, <4>1
    <3>3. lo = k + 1 /\ hi = k + 1 /\ k + 1 \in 1 .. Len(free)
      BY <1>1, <2>3
    <3> HIDE DEF m, s2, lo, hi
    <3> QED
      BY <1>1, <1>4, <3>2, <3>3, ReplaceSplices
  <2>4. CASE ~before /\ ~behind
    <3>1. m = node
      <4>1. m = Node(node.offset, node.size)
        <5>1. z - a = node.size /\ a = node.offset
          BY <1>2, <2>4
        <5> QED
          BY <5>1
      <4> QED
        BY <1>2, <4>1 DEF Node, Piece
    <3>2. s2 = InsertAt(free, k + 1, node)
      BY <2>4 DEF PutAfter
    <3>3. lo = k + 1 /\ hi = k + 1 - 1 /\ k + 1 \in 1 .. Len(free) + 1
      BY <1>1, <2>4
    <3> HIDE DEF m, s2, lo, hi
    <3> QED
      BY <1>1, <1>4, <3>1, <3>2, <3>3, InsertSplices
  <2> QED
    BY <2>1, <2>2, <2>3, <2>4
<1>6. /\ k \in 0 .. Len(free)
      /\ k > 0 => End(free[k]) <= node.offset
      /\ lo = (IF k > 0 /\ End(free[k]) = node.offset THEN k ELSE k + 1)
      /\ hi = (IF k < Len(free) /\ End(node) = free[k + 1].offset THEN k + 1 ELSE k)
  BY <1>1
<1>7. m.offset = (IF lo = k THEN free[k].offset ELSE node.offset)
  <2>1. lo = k <=> before
    BY <1>1
  <2> HIDE DEF lo, m
  <2> QED
    BY <1>4, <2>1
<1>8. End(m) = (IF hi = k THEN End(node) ELSE End(free[k + 1]))
  <2>1. hi = k <=> ~behind
    BY <1>1
  <2> HIDE DEF hi, m
  <2> QED
    BY <1>4, <2>1
<1> HIDE DEF lo, hi, m, s2
<1>9. Exact(s2, inUse \ {node})
  BY <1>1, <1>4, <1>5, <1>6, <1>7, <1>8, PutExact
<1> QED
  BY <1>9 DEF s2

LEMMA RecycleExact ==
  ASSUME Exact(free, inUse), NEW node \in inUse, Recycle(node)
  PROVE  Exact(free', inUse') /\ failed' = failed
<1>1. inUse' = inUse \ {node}
  BY DEF Recycle
<1>2. CASE GoesFirst(node)
  <2>1. free' = PutFirst(node) /\ failed' = failed
    BY <1>2 DEF Recycle
  <2> QED
    BY <1>1, <1>2, <2>1, PutFirstExact
<1>3. CASE ~GoesFirst(node)
  <2> DEFINE k == CHOOSE x \in Places(node) : \A j \in Places(node) : x <= j
  <2>1. k \in Places(node)
    BY <1>3, PlaceFound
  <2>2. free' = PutAfter(node, k) /\ failed' = failed
    BY <1>3, <2>1 DEF Recycle
  <2> HIDE DEF k
  <2> QED
    BY <1>1, <2>1, <2>2, PutAfterExact
<1> QED
  BY <1>2, <1>3

LEMMA PoolNextKeeps == PoolInv /\ [PoolNext]_poolVars => PoolInv'
<1> SUFFICES ASSUME PoolInv, [PoolNext]_poolVars PROVE PoolInv'
  OBVIOUS
<1>1. Exact(free, inUse) /\ adHoc \in 0 .. MaxAdHoc /\ failed = FALSE
  BY DEF PoolInv
<1>2. CASE UNCHANGED poolVars
  BY <1>1, <1>2 DEF PoolInv, poolVars
<1>3. ASSUME NEW n \in Request, Allocate(n) PROVE PoolInv'
  <2>1. Exact(free', inUse')
    BY <1>1, <1>3, AllocateEffect
  <2>2. UNCHANGED <<adHoc, failed>>
    BY <1>3 DEF Allocate
  <2> QED
    BY <1>1, <2>1, <2>2 DEF PoolInv
<1>4. ASSUME NEW n \in Request, AllocateAdHoc(n) PROVE PoolInv'
  <2>1. adHoc' \in 0 .. MaxAdHoc /\ UNCHANGED <<free, inUse, failed>>
    BY <1>1, <1>4, PoolAssumption DEF AllocateAdHoc
  <2> QED
    BY <1>1, <2>1 DEF PoolInv
<1>5. CASE RecycleAdHoc
  <2>1. adHoc' \in 0 .. MaxAdHoc /\ UNCHANGED <<free, inUse, failed>>
    BY <1>1, <1>5, PoolAssumption DEF RecycleAdHoc
  <2> QED
    BY <1>1, <2>1 DEF PoolInv
<1>6. ASSUME NEW node \in inUse, Recycle(node) PROVE PoolInv'
  <2>1. Exact(free', inUse') /\ failed' = failed
    BY <1>1, <1>6, RecycleExact
  <2>2. UNCHANGED adHoc
    BY <1>6 DEF Recycle
  <2> QED
    BY <1>1, <2>1, <2>2 DEF PoolInv
<1> QED
  BY <1>2, <1>3, <1>4, <1>5, <1>6 DEF PoolNext

-----------------------------------------------------------------------------
\* The free nodes are in order and do not touch, the nodes in use lie between
\* them, each at a multiple of the alignment, and together they cover the
\* block; free() always finds a place for a node.
THEOREM PoolConsistent == PoolSpec => []PoolInv
<1> QED
  BY InitPoolInv, PoolNextKeeps, PTL DEF PoolSpec

LEMMA PoolTypes == PoolInv => PoolTypeOK
<1> SUFFICES ASSUME PoolInv PROVE PoolTypeOK
  OBVIOUS
<1>1. \A k \in DOMAIN free : free[k] \in Piece
  BY ExactFacts DEF PoolInv
<1>2. inUse \subseteq Piece
  BY ExactFacts DEF PoolInv
<1> QED
  BY <1>1, <1>2 DEF PoolInv, PoolTypeOK, Piece

\* The variables of the pool have their types, and free() never fails.
THEOREM PoolTypeCorrect == PoolSpec => []PoolTypeOK
BY PoolTypes, PoolConsistent, PTL

\* Whatever order the views come back in, the free list describes the block
\* exactly: no byte is lost, none is there twice, free neighbours are merged.
THEOREM FreeListDescribesBlock == PoolSpec => []FreeListExact
<1>1. PoolInv => FreeListExact
  <2> SUFFICES ASSUME PoolInv PROVE EveryByteOnce /\ FreeNodesApart
    BY DEF FreeListExact
  <2>1. /\ FreeInOrder(free) /\ UsersApart(inUse) /\ FreeUnused(free, inUse)
        /\ Covered(free, inUse)
    BY DEF PoolInv, Exact
  <2>2. /\ Len(free) \in Nat /\ DOMAIN free = 1 .. Len(free) /\ inUse \subseteq Piece
        /\ \A k \in DOMAIN free : free[k] \in Piece
    BY ExactFacts DEF PoolInv
  <2>3. FreeNodesApart
    <3>1. \A k \in 1 .. Len(free) - 1 : k \in DOMAIN free /\ k + 1 \in DOMAIN free /\ k < k + 1
      BY <2>2
    <3> QED
      BY <2>1, <3>1 DEF FreeNodesApart, FreeInOrder
  <2>4. EveryByteOnce
    <3> SUFFICES ASSUME NEW b \in 0 .. Limit - 1
                 PROVE  LET holds(node) == node.offset <= b /\ b < End(node)
                            frees == {k \in DOMAIN free : holds(free[k])}
                            users == {node \in inUse : holds(node)}
                        IN \/ users = {} /\ \E k \in frees : frees = {k}
                           \/ frees = {} /\ \E node \in users : users = {node}
      BY DEF EveryByteOnce
    <3> DEFINE frees == {k \in DOMAIN free : HasByte(free[k], b)}
               users == {node \in inUse : HasByte(node, b)}
    <3>1. b \in Nat
      BY PoolAssumption
    <3>2. \A x, y \in Piece : HasByte(x, b) /\ HasByte(y, b) => ~Separate(x, y)
      BY <3>1, SeparateBytes
    <3>3. \A j, k \in frees : j = k
      <4> SUFFICES ASSUME NEW j \in DOMAIN free, NEW k \in DOMAIN free, j < k,
                          HasByte(free[j], b), HasByte(free[k], b)
                   PROVE  FALSE
        BY <2>2
      <4>1. End(free[j]) < free[k].offset /\ End(free[j]) \in Nat /\ free[k].offset \in Nat
        BY <2>1, <2>2, PieceFacts DEF FreeInOrder
      <4> QED
        BY <3>1, <4>1 DEF HasByte
    <3>4. \A x, y \in users : x = y
      BY <2>1, <2>2, <3>2 DEF UsersApart
    <3>5. \A k \in frees : \A x \in users : FALSE
      BY <2>1, <2>2, <3>2 DEF FreeUnused
    <3>6. frees # {} \/ users # {}
      BY <2>1 DEF Covered
    <3>7. \/ users = {} /\ \E k \in frees : frees = {k}
          \/ frees = {} /\ \E node \in users : users = {node}
      <4> HIDE DEF frees, users
      <4>1. ASSUME NEW k \in frees PROVE users = {} /\ frees = {k}
        BY <3>3, <3>5, <4>1
      <4>2. ASSUME NEW x \in users PROVE frees = {} /\ users = {x}
        BY <3>4, <3>5, <4>2
      <4> QED
        BY <3>6, <4>1, <4>2
    <3> QED
      BY <3>7 DEF HasByte
  <2> QED
    BY <2>3, <2>4
<1> QED
  BY <1>1, PoolConsistent, PTL

\* A request that is refused is larger than every gap, or as large: a gap that
\* is larger lies in one free node.
LEMMA RefusalRight ==
  ASSUME PoolInv, NEW n \in Request, AllocateAdHoc(n)
  PROVE  Pool!MayRefuse(n)
<1> SUFFICES ASSUME NEW r \in Pool!Range, r.size > n, \A s \in inUse : Pool!Apart(r, s)
             PROVE  FALSE
  BY DEF Pool!MayRefuse
<1>1. r \in Piece /\ \A x \in inUse : Separate(r, x)
  BY DEF Pool!Range, Piece, Pool!Apart, Separate, End
<1>2. /\ FreeInOrder(free) /\ Covered(free, inUse)
      /\ DOMAIN free = 1 .. Len(free) /\ Len(free) \in Nat /\ inUse \subseteq Piece
      /\ \A k \in DOMAIN free : free[k] \in Piece
  BY ExactFacts DEF PoolInv, Exact
<1>3. /\ r.offset \in Nat /\ End(r) \in Nat /\ r.offset < End(r) /\ End(r) <= Limit
      /\ r.size \in Nat /\ End(r) = r.offset + r.size
  BY <1>1, PieceFacts
<1>4. /\ \A k \in DOMAIN free : /\ free[k].offset \in Nat /\ free[k].size \in Nat
                                /\ End(free[k]) \in Nat /\ End(free[k]) = free[k].offset + free[k].size
      /\ \A j, k \in DOMAIN free : j < k => End(free[j]) < free[k].offset
  BY <1>2, PieceFacts DEF FreeInOrder
<1>5. \A b \in Nat : HasByte(r, b) => \E k \in DOMAIN free : HasByte(free[k], b)
  <2> SUFFICES ASSUME NEW b \in Nat, HasByte(r, b) PROVE \E k \in DOMAIN free : HasByte(free[k], b)
    OBVIOUS
  <2>1. b \in 0 .. Limit - 1
    BY <1>3, PoolAssumption DEF HasByte
  <2>2. \A x \in inUse : ~HasByte(x, b)
    BY <1>1, <1>2, SeparateBytes
  <2> QED
    BY <1>2, <2>1, <2>2 DEF Covered
<1>6. HasByte(r, r.offset)
  BY <1>3 DEF HasByte
<1>7. PICK k \in DOMAIN free : HasByte(free[k], r.offset)
  BY <1>3, <1>5, <1>6
<1>8. End(r) <= End(free[k])
  <2> SUFFICES ASSUME End(free[k]) < End(r) PROVE FALSE
    BY <1>3, <1>4
  <2>1. HasByte(r, End(free[k]))
    BY <1>3, <1>4, <1>7 DEF HasByte
  <2>2. PICK j \in DOMAIN free : HasByte(free[j], End(free[k]))
    BY <1>4, <1>5, <2>1
  <2>3. j < k \/ j = k \/ k < j
    BY <1>2
  <2> QED
    BY <1>4, <1>7, <2>2, <2>3 DEF HasByte
<1>9. Fits(free[k], n)
  <2>1. n \in Nat
    BY PoolAssumption
  <2> QED
    BY <1>3, <1>4, <1>7, <1>8, <2>1 DEF HasByte, Fits
<1> QED
  BY <1>9 DEF AllocateAdHoc, HasFit

\* Every step of the pool is one of the allocator.
LEMMA PoolStepsAllocate ==
  ASSUME PoolInv, [PoolNext]_poolVars
  PROVE  [Pool!Next]_inUse
<1>1. Exact(free, inUse)
  BY DEF PoolInv
<1>2. ASSUME NEW n \in Request, Allocate(n) PROVE Pool!Allocate(n)
  <2>1. PICK k \in DOMAIN free : \E r \in Piece :
              /\ inUse' = inUse \cup {r} /\ r.offset = free[k].offset /\ r.size >= n
              /\ End(r) <= End(free[k])
    BY <1>1, <1>2, AllocateEffect
  <2>2. PICK r \in Piece : /\ inUse' = inUse \cup {r} /\ r.offset = free[k].offset /\ r.size >= n
                           /\ End(r) <= End(free[k])
    BY <2>1
  <2>3. /\ free[k] \in Piece /\ inUse \subseteq Piece
        /\ \A x \in inUse : Separate(free[k], x)
        /\ Multiple(free[k].offset)
    BY <1>1, ExactFacts DEF Exact, FreeUnused, AtMultiples
  <2>4. \A x \in inUse : Separate(r, x)
    <3> SUFFICES ASSUME NEW x \in inUse PROVE Separate(r, x)
      OBVIOUS
    <3>1. x.offset \in Nat /\ End(x) \in Nat /\ End(r) \in Nat /\ End(free[k]) \in Nat
      BY <2>2, <2>3, PieceFacts
    <3> QED
      BY <2>2, <2>3, <3>1 DEF Separate
  <2>5. r \notin inUse
    <3>1. ~Separate(r, r)
      BY PieceFacts DEF Separate
    <3> QED
      BY <2>4, <3>1
  <2>6. r.offset % Alignment = 0
    BY <2>2, <2>3, MultipleIsAligned
  <2>7. r \in Pool!Range /\ \A s \in inUse : Pool!Apart(r, s)
    BY <2>4 DEF Piece, Separate, End, Pool!Range, Pool!Apart
  <2>8. r \in inUse' \ inUse
    BY <2>2, <2>5
  <2> QED
    BY <2>2, <2>6, <2>7, <2>8 DEF Pool!Allocate
<1>3. ASSUME NEW n \in Request, AllocateAdHoc(n) PROVE UNCHANGED inUse
  BY <1>3 DEF AllocateAdHoc
<1>4. CASE RecycleAdHoc
  BY <1>4 DEF RecycleAdHoc
<1>5. ASSUME NEW node \in inUse, Recycle(node) PROVE Pool!Recycle
  BY <1>5 DEF Recycle, Pool!Recycle
<1>6. CASE UNCHANGED poolVars
  BY <1>6 DEF poolVars
<1> QED
  BY <1>2, <1>3, <1>4, <1>5, <1>6 DEF PoolNext, Pool!Next

\* The pool implements the allocator: a view has the bytes that were asked for,
\* at an aligned place that no other view has, and a request is refused only
\* when no gap is larger than it.
THEOREM PoolImplementsAllocator == PoolSpec => ImplementsAllocator
<1>1. PoolInit => Pool!Init
  BY DEF PoolInit, Pool!Init
<1>2. PoolInv /\ [PoolNext]_poolVars => [Pool!Next]_inUse
  BY PoolStepsAllocate
<1>3. PoolInv /\ [PoolNext]_poolVars =>
        [\A n \in Request : AllocateAdHoc(n) => Pool!MayRefuse(n)]_poolVars
  BY RefusalRight
<1>4. PoolSpec => Pool!Spec
  BY <1>1, <1>2, PoolConsistent, PTL DEF PoolSpec, Pool!Spec
<1>5. PoolSpec => RefusedOnlyWhenFull
  BY <1>3, PoolConsistent, PTL DEF PoolSpec, RefusedOnlyWhenFull
<1> QED
  BY <1>4, <1>5, PTL DEF ImplementsAllocator

-----------------------------------------------------------------------------
\* The blocks of a kernel.
SyncsOf(kn, b, l) == kn.syncs[DispatchId(b, l)]

LEMMA KernelFacts ==
  ASSUME NEW kn \in KernelShapes, NEW b \in Block
  PROVE  /\ \A l \in Lanes(b) : l \in Lane /\ SyncsOf(kn, b, l) \in 0 .. MaxSyncs
         /\ kn.coroutine \in BOOLEAN
         /\ kn.coroutine \/ \A l \in Lanes(b) : SyncsOf(kn, b, l) = 0
<1>1. /\ BlockSize \in Nat /\ BlockSize > 0 /\ DispatchSize \in Nat /\ MaxSyncs \in Nat
      /\ kn \in [coroutine : BOOLEAN, syncs : [0 .. DispatchSize - 1 -> 0 .. MaxSyncs]]
      /\ kn.coroutine \/ \A i \in DOMAIN kn.syncs : kn.syncs[i] = 0
  BY KernelAssumption
<1>2. /\ kn.coroutine \in BOOLEAN /\ kn.syncs \in [0 .. DispatchSize - 1 -> 0 .. MaxSyncs]
      /\ DOMAIN kn.syncs = 0 .. DispatchSize - 1
  BY <1>1
<1>3. \A l \in Lanes(b) : l \in Lane /\ DispatchId(b, l) \in 0 .. DispatchSize - 1
  <2> SUFFICES ASSUME NEW l \in Lanes(b) PROVE l \in Lane /\ DispatchId(b, l) \in 0 .. DispatchSize - 1
    OBVIOUS
  <2>1. l \in Lane /\ DispatchId(b, l) < DispatchSize /\ l \in Nat
    BY <1>1 DEF Lanes, ValidThread, Lane
  <2>2. b \in Nat
    BY <1>1 DEF Block, GridSize
  <2>3. DispatchId(b, l) \in Nat
    BY <1>1, <2>1, <2>2 DEF DispatchId
  <2> QED
    BY <1>1, <2>1, <2>3
<1> QED
  BY <1>1, <1>2, <1>3 DEF SyncsOf

\* The first lane of every block has work to do.
LEMMA FirstLaneValid ==
  ASSUME NEW b \in Block
  PROVE  b \in Nat /\ 0 \in Lanes(b)
<1>1. BlockSize \in Nat /\ BlockSize > 0 /\ DispatchSize \in Nat
  BY KernelAssumption
<1> DEFINE q == (DispatchSize + BlockSize - 1) \div BlockSize
           r == (DispatchSize + BlockSize - 1) % BlockSize
<1>2. q \in Nat /\ r \in Nat /\ DispatchSize + BlockSize - 1 = BlockSize * q + r /\ r < BlockSize
  BY <1>1
<1>3. b \in Nat /\ b <= q - 1
  BY <1>2 DEF Block, GridSize
<1> HIDE DEF q, r
<1>4. BlockSize * b <= BlockSize * (q - 1)
  BY <1>1, <1>2, <1>3
<1>5. BlockSize * (q - 1) = BlockSize * q - BlockSize
  BY <1>1, <1>2
<1>6. BlockSize * b < DispatchSize /\ BlockSize * b = b * BlockSize
  BY <1>1, <1>2, <1>3, <1>4, <1>5
<1>7. b * BlockSize \in Nat
  BY <1>1, <1>3
<1>8. DispatchId(b, 0) < DispatchSize
  BY <1>1, <1>3, <1>6, <1>7 DEF DispatchId
<1> QED
  BY <1>1, <1>3, <1>8 DEF Lanes, Lane, ValidThread

States == {"null", "suspended", "final", "destroyed"}
RunRecord == [at : {"run"}, block : Block, lane : Lane, allDone : BOOLEAN, states : [Lane -> States]]
Draws == [at |-> "draw"]
LeftRunner == [at |-> "gone"]

KernelTyped(kn, cnt, rn, pt, sh, al) ==
    /\ kn \in KernelShapes /\ cnt \in Nat
    /\ DOMAIN rn = Runner /\ \A r \in Runner : rn[r] \in RunRecord \/ rn[r] = Draws \/ rn[r] = LeftRunner
    /\ pt \in [Block -> [Lane -> Nat]]
    /\ sh \in [Lane -> [0 .. MaxSyncs -> Nat]]
    /\ al \in [Block -> SUBSET Block]

\* A runner that has run the first n lanes in round k of a block, whose lanes
\* have run p parts: a round is begun only while some lane has more to run, and
\* allDone tells whether another one will be.
InRound(kn, x, n, p, k) ==
    /\ \A i \in Lanes(x.block) : p[i] = IF i < n THEN k + 1 ELSE k
    /\ ~kn.coroutine => k = 0
    /\ k >= 2 => \E i \in Lanes(x.block) : SyncsOf(kn, x.block, i) >= k
    /\ k = 0 /\ n > 0 => ~x.allDone
    /\ k >= 1 => (x.allDone <=> \A i \in Lanes(x.block) :
                                   i < n => p[i] = SyncsOf(kn, x.block, i) + 1)

\* The state of a coroutine tells how far its lane is.
StatesRight(kn, x, p) ==
    \A i \in Lanes(x.block) :
        /\ p[i] <= SyncsOf(kn, x.block, i) + 1
        /\ x.states[i] = "null" /\ kn.coroutine => p[i] = 0
        /\ x.states[i] = "suspended" => p[i] >= 1 /\ p[i] <= SyncsOf(kn, x.block, i)
        /\ x.states[i] \in {"final", "destroyed"} => p[i] = SyncsOf(kn, x.block, i) + 1
        /\ ~kn.coroutine => x.states[i] = "null"

UnderWay(kn, x, p) == (\E k \in Nat : InRound(kn, x, x.lane, p, k)) /\ StatesRight(kn, x, p)

\* After a lane: the next one, the next round, or the end of the block.
LEMMA AfterLane ==
  ASSUME kernel \in KernelShapes, NEW here \in RunRecord, NEW p \in [Lane -> Nat],
         NEW k \in Nat, InRound(kernel, here, here.lane + 1, p, k), StatesRight(kernel, here, p)
  PROVE  LET y == NextLane(here, here.lane)
         IN \/ y \in RunRecord /\ y.block = here.block /\ UnderWay(kernel, y, p)
            \/ y = Draws /\ \A i \in Lanes(here.block) : p[i] = SyncsOf(kernel, here.block, i) + 1
<1> DEFINE b == here.block
           l == here.lane
           y == NextLane(here, l)
<1>1. /\ BlockSize \in Nat /\ BlockSize > 0
      /\ b \in Block /\ l \in Lane /\ l \in Nat /\ l < BlockSize /\ here.allDone \in BOOLEAN
      /\ here.at = "run"
  BY KernelAssumption DEF RunRecord, Lane
<1>2. /\ \A i \in Lanes(b) : /\ i \in Lane /\ i \in Nat /\ i < BlockSize
                             /\ SyncsOf(kernel, b, i) \in Nat /\ p[i] \in Nat
      /\ kernel.coroutine \in BOOLEAN
      /\ kernel.coroutine \/ \A i \in Lanes(b) : SyncsOf(kernel, b, i) = 0
      /\ 0 \in Lanes(b)
  <2>1. MaxSyncs \in Nat
    BY KernelAssumption
  <2>2. /\ \A i \in Lanes(b) : i \in Lane /\ SyncsOf(kernel, b, i) \in 0 .. MaxSyncs
        /\ kernel.coroutine \in BOOLEAN
        /\ kernel.coroutine \/ \A i \in Lanes(b) : SyncsOf(kernel, b, i) = 0
    BY <1>1, KernelFacts
  <2>3. \A i \in Lanes(b) : i \in Nat /\ i < BlockSize /\ SyncsOf(kernel, b, i) \in Nat /\ p[i] \in Nat
    BY <1>1, <2>1, <2>2 DEF Lane
  <2>4. 0 \in Lanes(b)
    BY <1>1, FirstLaneValid
  <2> QED
    BY <2>2, <2>3, <2>4
<1>3. CASE l + 1 < BlockSize
  <2>1. y = [here EXCEPT !.lane = l + 1]
    BY <1>3 DEF NextLane
  <2>2. l + 1 \in Lane
    BY <1>1, <1>3 DEF Lane
  <2>3. /\ y \in RunRecord /\ y.block = b /\ y.lane = l + 1 /\ y.allDone = here.allDone
        /\ y.states = here.states
    <3> HIDE DEF y
    <3> QED
      BY <2>1, <2>2 DEF RunRecord
  <2> HIDE DEF y
  <2>4. InRound(kernel, y, l + 1, p, k)
    BY <2>3 DEF InRound
  <2>5. StatesRight(kernel, y, p)
    BY <2>3 DEF StatesRight
  <2> QED
    BY <2>3, <2>4, <2>5 DEF UnderWay, y
<1>4. CASE ~(l + 1 < BlockSize)
  <2>1. /\ \A i \in Lanes(b) : p[i] = k + 1
        /\ k = 0 => ~here.allDone
        /\ k >= 1 => (here.allDone <=> \A i \in Lanes(b) : p[i] = SyncsOf(kernel, b, i) + 1)
        /\ ~kernel.coroutine => k = 0
    BY <1>1, <1>2, <1>4 DEF InRound
  <2>2. CASE kernel.coroutine /\ ~here.allDone
    <3>1. y = [here EXCEPT !.lane = 0, !.allDone = TRUE]
      BY <1>4, <2>2 DEF NextLane
    <3>2. 0 \in Lane
      BY <1>1 DEF Lane
    <3>3. /\ y \in RunRecord /\ y.block = b /\ y.lane = 0 /\ y.allDone = TRUE
          /\ y.states = here.states
      <4> HIDE DEF y
      <4> QED
        BY <3>1, <3>2 DEF RunRecord
    <3> HIDE DEF y
    <3>4. k + 1 >= 2 => \E i \in Lanes(b) : SyncsOf(kernel, b, i) >= k + 1
      <4> SUFFICES ASSUME k >= 1 PROVE \E i \in Lanes(b) : SyncsOf(kernel, b, i) >= k + 1
        OBVIOUS
      <4>1. PICK i \in Lanes(b) : p[i] # SyncsOf(kernel, b, i) + 1
        BY <2>1, <2>2
      <4>2. p[i] <= SyncsOf(kernel, b, i) + 1 /\ p[i] = k + 1
        BY <2>1 DEF StatesRight
      <4> QED
        BY <1>2, <4>1, <4>2
    <3>5. InRound(kernel, y, 0, p, k + 1)
      <4>1. \A i \in Lanes(b) : ~(i < 0)
        BY <1>2
      <4> QED
        BY <2>1, <2>2, <3>3, <3>4, <4>1 DEF InRound
    <3>6. StatesRight(kernel, y, p)
      BY <3>3 DEF StatesRight
    <3>7. k + 1 \in Nat
      OBVIOUS
    <3> QED
      BY <3>3, <3>5, <3>6, <3>7 DEF UnderWay, y
  <2>3. CASE ~(kernel.coroutine /\ ~here.allDone)
    <3>1. y = Draws
      BY <1>4, <2>3 DEF NextLane, Draws
    <3>2. \A i \in Lanes(b) : p[i] = SyncsOf(kernel, b, i) + 1
      <4>1. CASE ~kernel.coroutine
        BY <1>2, <2>1, <4>1
      <4>2. CASE kernel.coroutine
        <5>1. here.allDone /\ k >= 1
          BY <2>1, <2>3, <4>2
        <5> QED
          BY <2>1, <5>1
      <4> QED
        BY <4>1, <4>2
    <3> QED
      BY <3>1, <3>2
  <2> QED
    BY <2>2, <2>3
<1> QED
  BY <1>3, <1>4

\* A lane that has nothing to do is passed over.
LEMMA LaneSkipped ==
  ASSUME NEW kn, NEW x \in RunRecord, NEW p, NEW k \in Nat,
         InRound(kn, x, x.lane, p, k), x.lane \notin Lanes(x.block)
  PROVE  InRound(kn, x, x.lane + 1, p, k)
<1>1. x.lane \in Nat /\ x.block \in Block /\ BlockSize \in Nat
  BY KernelAssumption DEF RunRecord, Lane
<1>2. \A i \in Lanes(x.block) : i \in Nat /\ (i < x.lane + 1 <=> i < x.lane)
  <2>1. \A i \in Lanes(x.block) : i \in Nat /\ i # x.lane
    BY <1>1 DEF Lanes, Lane
  <2> QED
    BY <1>1, <2>1
<1>3. x.lane > 0
  BY <1>1, FirstLaneValid
<1> QED
  BY <1>1, <1>2, <1>3 DEF InRound

\* A lane runs its first part.
LEMMA LaneCalled ==
  ASSUME NEW kn \in KernelShapes, NEW x \in RunRecord, NEW p \in [Lane -> Nat],
         UnderWay(kn, x, p), x.lane \in Lanes(x.block), x.states[x.lane] = "null",
         NEW state,
         state = (IF ~kn.coroutine THEN "null"
                  ELSE IF p[x.lane] = SyncsOf(kn, x.block, x.lane) THEN "final" ELSE "suspended"),
         NEW p2, p2 = [p EXCEPT ![x.lane] = @ + 1]
  PROVE  /\ AfterCall(x, x.lane, state) \in RunRecord
         /\ AfterCall(x, x.lane, state).block = x.block /\ AfterCall(x, x.lane, state).lane = x.lane
         /\ p2 \in [Lane -> Nat] /\ p[x.lane] \in 0 .. MaxSyncs
         /\ \E k \in Nat : InRound(kn, AfterCall(x, x.lane, state), x.lane + 1, p2, k)
         /\ StatesRight(kn, AfterCall(x, x.lane, state), p2)
<1> DEFINE l == x.lane
           b == x.block
           here == AfterCall(x, l, state)
<1>1. l \in Nat /\ l \in Lane /\ b \in Block /\ x.states \in [Lane -> States] /\ state \in States
  BY KernelAssumption DEF RunRecord, Lane, States
<1>2. /\ here \in RunRecord /\ here.block = b /\ here.lane = l /\ here.allDone = FALSE
      /\ here.states = [x.states EXCEPT ![l] = state]
  <2>1. here = [x EXCEPT !.states[l] = state, !.allDone = FALSE]
    BY DEF AfterCall
  <2>2. [x.states EXCEPT ![l] = state] \in [Lane -> States]
    BY <1>1
  <2> HIDE DEF here
  <2> QED
    BY <2>1, <2>2 DEF RunRecord
<1> HIDE DEF here
<1>3. /\ \A i \in Lanes(b) : /\ i \in Lane /\ i \in Nat /\ SyncsOf(kn, b, i) \in 0 .. MaxSyncs
                             /\ SyncsOf(kn, b, i) \in Nat /\ p[i] \in Nat
      /\ kn.coroutine \in BOOLEAN
      /\ kn.coroutine \/ \A i \in Lanes(b) : SyncsOf(kn, b, i) = 0
      /\ BlockSize \in Nat /\ MaxSyncs \in Nat
  BY <1>1, KernelFacts, KernelAssumption DEF Lane
<1>4. PICK k \in Nat : InRound(kn, x, l, p, k)
  BY DEF UnderWay
<1>5. /\ \A i \in Lanes(b) : p[i] = IF i < l THEN k + 1 ELSE k
      /\ ~kn.coroutine => k = 0
  BY <1>4 DEF InRound
<1>6. p[l] = k /\ k = 0
  <2>1. p[l] = k
    BY <1>1, <1>5
  <2>2. kn.coroutine => p[l] = 0
    BY DEF UnderWay, StatesRight
  <2> QED
    BY <1>5, <2>1, <2>2
<1>7. /\ p2 \in [Lane -> Nat] /\ p2[l] = 1
      /\ \A i \in Lane : i # l => p2[i] = p[i]
  BY <1>1, <1>6
<1>8. InRound(kn, here, l + 1, p2, 0)
  <2>1. \A i \in Lanes(b) : i < l + 1 <=> i < l \/ i = l
    BY <1>1, <1>3
  <2>2. \A i \in Lanes(b) : p2[i] = IF i < l + 1 THEN 0 + 1 ELSE 0
    BY <1>1, <1>3, <1>5, <1>6, <1>7, <2>1
  <2> QED
    BY <1>2, <2>2 DEF InRound
<1>9. StatesRight(kn, here, p2)
  <2> SUFFICES ASSUME NEW i \in Lanes(b)
               PROVE  /\ p2[i] <= SyncsOf(kn, b, i) + 1
                      /\ here.states[i] = "null" /\ kn.coroutine => p2[i] = 0
                      /\ here.states[i] = "suspended" => p2[i] >= 1 /\ p2[i] <= SyncsOf(kn, b, i)
                      /\ here.states[i] \in {"final", "destroyed"} => p2[i] = SyncsOf(kn, b, i) + 1
                      /\ ~kn.coroutine => here.states[i] = "null"
    BY <1>2 DEF StatesRight
  <2>1. CASE i # l
    <3>1. here.states[i] = x.states[i] /\ p2[i] = p[i]
      BY <1>1, <1>2, <1>3, <1>7, <2>1
    <3> QED
      BY <3>1 DEF UnderWay, StatesRight
  <2>2. CASE i = l
    <3>1. here.states[l] = state /\ p2[l] = 1 /\ SyncsOf(kn, b, l) \in Nat
      BY <1>1, <1>2, <1>3, <1>7, <2>2
    <3>2. CASE ~kn.coroutine
      BY <1>3, <2>2, <3>1, <3>2
    <3>3. CASE kn.coroutine /\ SyncsOf(kn, b, l) = 0
      BY <1>6, <2>2, <3>1, <3>3
    <3>4. CASE kn.coroutine /\ SyncsOf(kn, b, l) # 0
      BY <1>6, <2>2, <3>1, <3>4
    <3> QED
      BY <3>2, <3>3, <3>4
  <2> QED
    BY <2>1, <2>2
<1>10. p[l] \in 0 .. MaxSyncs /\ 0 \in Nat
  BY <1>3, <1>6
<1> QED
  BY <1>2, <1>7, <1>8, <1>9, <1>10 DEF here

\* A coroutine that is suspended goes on to its next part.
LEMMA LaneResumed ==
  ASSUME NEW kn \in KernelShapes, NEW x \in RunRecord, NEW p \in [Lane -> Nat],
         UnderWay(kn, x, p), x.lane \in Lanes(x.block), x.states[x.lane] = "suspended",
         NEW ended \in BOOLEAN, ended <=> p[x.lane] = SyncsOf(kn, x.block, x.lane),
         NEW here, here = AfterResume(x, x.lane, ended),
         NEW p2, p2 = [p EXCEPT ![x.lane] = @ + 1]
  PROVE  /\ here \in RunRecord /\ here.block = x.block /\ here.lane = x.lane
         /\ p2 \in [Lane -> Nat] /\ p[x.lane] \in 0 .. MaxSyncs
         /\ \E k \in Nat : InRound(kn, here, x.lane + 1, p2, k)
         /\ StatesRight(kn, here, p2)
<1> DEFINE l == x.lane
           b == x.block
           state == IF ended THEN "destroyed" ELSE "suspended"
<1>1. l \in Nat /\ l \in Lane /\ b \in Block /\ x.states \in [Lane -> States] /\ state \in States
      /\ x.allDone \in BOOLEAN
  BY KernelAssumption DEF RunRecord, Lane, States
<1>2. /\ here \in RunRecord /\ here.block = b /\ here.lane = l /\ here.allDone \in BOOLEAN
      /\ here.allDone <=> x.allDone /\ ended
      /\ here.states = [x.states EXCEPT ![l] = state]
  <2>1. [x.states EXCEPT ![l] = state] \in [Lane -> States]
    BY <1>1
  <2>2. (x.allDone /\ ended) \in BOOLEAN
    OBVIOUS
  <2> QED
    BY <1>1, <2>1, <2>2 DEF RunRecord, AfterResume
<1>3. /\ \A i \in Lanes(b) : /\ i \in Lane /\ i \in Nat /\ SyncsOf(kn, b, i) \in 0 .. MaxSyncs
                             /\ SyncsOf(kn, b, i) \in Nat /\ p[i] \in Nat
      /\ kn.coroutine \in BOOLEAN
      /\ BlockSize \in Nat /\ MaxSyncs \in Nat
  BY <1>1, KernelFacts, KernelAssumption DEF Lane
<1>4. PICK k \in Nat : InRound(kn, x, l, p, k)
  BY DEF UnderWay
<1>5. /\ \A i \in Lanes(b) : p[i] = IF i < l THEN k + 1 ELSE k
      /\ ~kn.coroutine => k = 0
      /\ k >= 2 => \E i \in Lanes(b) : SyncsOf(kn, b, i) >= k
      /\ k >= 1 => (x.allDone <=> \A i \in Lanes(b) : i < l => p[i] = SyncsOf(kn, b, i) + 1)
  BY <1>4 DEF InRound
<1>6. p[l] = k /\ k >= 1 /\ k <= SyncsOf(kn, b, l)
  <2>1. p[l] = k
    BY <1>1, <1>5
  <2>2. p[l] >= 1 /\ p[l] <= SyncsOf(kn, b, l)
    BY DEF UnderWay, StatesRight
  <2> QED
    BY <2>1, <2>2
<1>7. /\ p2 \in [Lane -> Nat] /\ p2[l] = k + 1
      /\ \A i \in Lane : i # l => p2[i] = p[i]
  BY <1>1, <1>6
<1>8. InRound(kn, here, l + 1, p2, k)
  <2>1. \A i \in Lanes(b) : i < l + 1 <=> i < l \/ i = l
    BY <1>1, <1>3
  <2>2. \A i \in Lanes(b) : p2[i] = IF i < l + 1 THEN k + 1 ELSE k
    BY <1>1, <1>3, <1>5, <1>6, <1>7, <2>1
  <2>3. ended <=> p2[l] = SyncsOf(kn, b, l) + 1
    BY <1>3, <1>6, <1>7
  <2>4. here.allDone <=> \A i \in Lanes(b) : i < l + 1 => p2[i] = SyncsOf(kn, b, i) + 1
    <3>1. x.allDone <=> \A i \in Lanes(b) : i < l => p2[i] = SyncsOf(kn, b, i) + 1
      BY <1>1, <1>3, <1>5, <1>6, <1>7
    <3> QED
      BY <1>2, <2>1, <2>3, <3>1
  <2>5. k # 0
    BY <1>6
  <2> QED
    BY <1>2, <1>5, <2>2, <2>4, <2>5 DEF InRound
<1>9. StatesRight(kn, here, p2)
  <2> SUFFICES ASSUME NEW i \in Lanes(b)
               PROVE  /\ p2[i] <= SyncsOf(kn, b, i) + 1
                      /\ here.states[i] = "null" /\ kn.coroutine => p2[i] = 0
                      /\ here.states[i] = "suspended" => p2[i] >= 1 /\ p2[i] <= SyncsOf(kn, b, i)
                      /\ here.states[i] \in {"final", "destroyed"} => p2[i] = SyncsOf(kn, b, i) + 1
                      /\ ~kn.coroutine => here.states[i] = "null"
    BY <1>2 DEF StatesRight
  <2>1. CASE i # l
    <3>1. here.states[i] = x.states[i] /\ p2[i] = p[i]
      BY <1>1, <1>2, <1>3, <1>7, <2>1
    <3> QED
      BY <3>1 DEF UnderWay, StatesRight
  <2>2. CASE i = l
    <3>1. here.states[l] = state /\ p2[l] = k + 1 /\ SyncsOf(kn, b, l) \in Nat
      BY <1>1, <1>2, <1>3, <1>7, <2>2
    <3>2. kn.coroutine
      BY <1>5, <1>6
    <3> QED
      BY <1>6, <2>2, <3>1, <3>2
  <2> QED
    BY <2>1, <2>2
<1>10. p[l] \in 0 .. MaxSyncs
  BY <1>3, <1>6
<1> QED
  BY <1>2, <1>7, <1>8, <1>9, <1>10

-----------------------------------------------------------------------------
\* A runner has a block of its own, drawn before now, and the blocks that run
\* at the same time know of each other.
BlocksApart(cnt, rn, al) ==
    /\ \A r \in Runner : rn[r].at = "run" => rn[r].block < cnt
    /\ \A r, q \in Runner :
         r # q /\ rn[r].at = "run" /\ rn[q].at = "run"
            => rn[r].block # rn[q].block /\ rn[q].block \in al[rn[r].block]

NotDrawnYet(cnt, pt) == \A b \in Block : cnt <= b => \A l \in Lane : pt[b][l] = 0

EndedWhole(kn, cnt, rn, pt) ==
    \A b \in Block :
        b < cnt /\ (\A r \in Runner : rn[r].at = "run" => rn[r].block # b)
            => \A l \in Lanes(b) : pt[b][l] = SyncsOf(kn, b, l) + 1

RoundsRight(kn, rn, pt) ==
    \A r \in Runner : rn[r].at = "run" => UnderWay(kn, rn[r], pt[rn[r].block])

\* The rows that a running block has written hold what it or a block alongside
\* wrote.
RowsRight(rn, pt, sh, al) ==
    \A r \in Runner : rn[r].at = "run" =>
        \A m \in Lane, j \in 0 .. MaxSyncs :
            j < pt[rn[r].block][m] => sh[m][j] \in {rn[r].block} \cup al[rn[r].block]

SyncsInStep(kn, b) ==
    \A l, m \in Lanes(b) : SyncsOf(kn, b, l) = SyncsOf(kn, b, m) /\ SyncsOf(kn, b, l) > 0

FaultRight(kn, pt, ft) ==
    ft # "none" => \E b \in Block : pt[b][0] > 0 /\ ~SyncsInStep(kn, b)

BlocksRight(kn, cnt, rn, pt, sh, al) ==
    /\ KernelTyped(kn, cnt, rn, pt, sh, al) /\ BlocksApart(cnt, rn, al) /\ NotDrawnYet(cnt, pt)
    /\ EndedWhole(kn, cnt, rn, pt) /\ RoundsRight(kn, rn, pt) /\ RowsRight(rn, pt, sh, al)

\* The inductive invariant.
KernelInv ==
    /\ BlocksRight(kernel, counter, runner, parts, shared, alongside)
    /\ FaultRight(kernel, parts, fault)

\* What a lane of runner r leaves behind: x is the runner's record after it, p
\* the parts of its block, sh2 the shared memory.
LaneLeaves(kn, b, x, p, pt, sh, sh2) ==
    /\ p \in [Lane -> Nat] /\ \A l \in Lane : pt[b][l] <= p[l]
    /\ \/ x \in RunRecord /\ x.block = b /\ UnderWay(kn, x, p)
       \/ x = Draws /\ \A i \in Lanes(b) : p[i] = SyncsOf(kn, b, i) + 1
    /\ sh2 \in [Lane -> [0 .. MaxSyncs -> Nat]]
    /\ \A m \in Lane, j \in 0 .. MaxSyncs :
         /\ sh2[m][j] = sh[m][j] \/ sh2[m][j] = b
         /\ j < p[m] /\ ~(j < pt[b][m]) => sh2[m][j] = b

LEMMA LaneStepRight ==
  ASSUME NEW kn, NEW cnt, NEW rn, NEW pt, NEW sh, NEW al, BlocksRight(kn, cnt, rn, pt, sh, al),
         NEW r \in Runner, rn[r].at = "run",
         NEW x, NEW p, NEW sh2, LaneLeaves(kn, rn[r].block, x, p, pt, sh, sh2)
  PROVE  BlocksRight(kn, cnt, [rn EXCEPT ![r] = x], [pt EXCEPT ![rn[r].block] = p], sh2, al)
<1> DEFINE b == rn[r].block
           rn2 == [rn EXCEPT ![r] = x]
           pt2 == [pt EXCEPT ![b] = p]
<1>1. /\ KernelTyped(kn, cnt, rn, pt, sh, al) /\ BlocksApart(cnt, rn, al) /\ NotDrawnYet(cnt, pt)
      /\ EndedWhole(kn, cnt, rn, pt) /\ RoundsRight(kn, rn, pt) /\ RowsRight(rn, pt, sh, al)
  BY DEF BlocksRight
<1>2. /\ rn[r] \in RunRecord /\ b \in Block /\ b < cnt /\ cnt \in Nat
      /\ \A q \in Runner : rn[q].at = "run" => rn[q].block \in Block
      /\ Block \subseteq Nat
  <2>1. Block \subseteq Nat
    BY FirstLaneValid
  <2>2. /\ Draws.at # "run" /\ LeftRunner.at # "run"
    BY DEF Draws, LeftRunner
  <2>3. \A q \in Runner : rn[q].at = "run" => rn[q] \in RunRecord
    BY <1>1, <2>2 DEF KernelTyped
  <2>4. \A q \in Runner : rn[q].at = "run" => rn[q].block \in Block
    BY <2>3 DEF RunRecord
  <2> QED
    BY <1>1, <2>1, <2>3, <2>4 DEF BlocksApart, KernelTyped
<1>3. /\ DOMAIN rn2 = Runner /\ rn2[r] = x /\ \A q \in Runner : q # r => rn2[q] = rn[q]
      /\ pt2 \in [Block -> [Lane -> Nat]] /\ pt2[b] = p
      /\ \A c \in Block : c # b => pt2[c] = pt[c]
  BY <1>1, <1>2 DEF KernelTyped, LaneLeaves
<1>4. /\ x.at = "run" => x \in RunRecord /\ x.block = b /\ UnderWay(kn, x, p)
      /\ x.at # "run" => \A i \in Lanes(b) : p[i] = SyncsOf(kn, b, i) + 1
      /\ x \in RunRecord \/ x = Draws
  BY DEF LaneLeaves, RunRecord, Draws
<1>5. \A q \in Runner : q # r /\ rn[q].at = "run" => rn[q].block # b /\ b \in al[rn[q].block]
  BY <1>1 DEF BlocksApart
<1> HIDE DEF rn2, pt2, b
<1>6. KernelTyped(kn, cnt, rn2, pt2, sh2, al)
  BY <1>1, <1>3, <1>4 DEF KernelTyped, LaneLeaves
<1>7. BlocksApart(cnt, rn2, al)
  <2>1. \A q \in Runner : rn2[q].at = "run" => rn[q].at = "run" /\ rn2[q].block = rn[q].block
    BY <1>3, <1>4 DEF b
  <2> QED
    BY <1>1, <2>1 DEF BlocksApart
<1>8. NotDrawnYet(cnt, pt2)
  <2>1. \A c \in Block : cnt <= c => c # b
    BY <1>2
  <2> QED
    BY <1>1, <1>3, <2>1 DEF NotDrawnYet
<1>9. EndedWhole(kn, cnt, rn2, pt2)
  <2> SUFFICES ASSUME NEW c \in Block, c < cnt,
                      \A q \in Runner : rn2[q].at = "run" => rn2[q].block # c
               PROVE  \A l \in Lanes(c) : pt2[c][l] = SyncsOf(kn, c, l) + 1
    BY DEF EndedWhole
  <2>1. CASE c = b
    BY <1>3, <1>4, <2>1
  <2>2. CASE c # b
    <3>1. \A q \in Runner : rn[q].at = "run" => rn[q].block # c
      BY <1>3, <2>2 DEF b
    <3> QED
      BY <1>1, <1>3, <2>2, <3>1 DEF EndedWhole
  <2> QED
    BY <2>1, <2>2
<1>10. RoundsRight(kn, rn2, pt2)
  <2> SUFFICES ASSUME NEW q \in Runner, rn2[q].at = "run"
               PROVE  UnderWay(kn, rn2[q], pt2[rn2[q].block])
    BY DEF RoundsRight
  <2>1. CASE q = r
    <3>1. rn2[q] = x /\ x.at = "run"
      BY <1>3, <2>1
    <3>2. x.block = b /\ UnderWay(kn, x, p)
      BY <1>4, <3>1
    <3> QED
      BY <1>3, <3>1, <3>2
  <2>2. CASE q # r
    <3>1. rn2[q] = rn[q] /\ rn[q].at = "run"
      BY <1>3, <2>2
    <3>2. pt2[rn[q].block] = pt[rn[q].block]
      BY <1>2, <1>3, <1>5, <2>2, <3>1
    <3>3. UnderWay(kn, rn[q], pt[rn[q].block])
      BY <1>1, <3>1 DEF RoundsRight
    <3> QED
      BY <3>1, <3>2, <3>3
  <2> QED
    BY <2>1, <2>2
<1>11. RowsRight(rn2, pt2, sh2, al)
  <2> SUFFICES ASSUME NEW q \in Runner, rn2[q].at = "run", NEW m \in Lane, NEW j \in 0 .. MaxSyncs,
                      j < pt2[rn2[q].block][m]
               PROVE  sh2[m][j] \in {rn2[q].block} \cup al[rn2[q].block]
    BY DEF RowsRight
  <2>1. sh2[m][j] = sh[m][j] \/ sh2[m][j] = b
    BY DEF LaneLeaves, b
  <2>2. CASE q = r
    <3>1. rn2[q].block = b /\ pt2[b] = p
      BY <1>3, <1>4, <2>2
    <3>2. CASE j < pt[b][m]
      BY <1>1, <2>1, <3>1, <3>2 DEF RowsRight, b
    <3>3. CASE ~(j < pt[b][m])
      <4>1. sh2[m][j] = b
        BY <3>1, <3>3 DEF LaneLeaves, b
      <4> QED
        BY <3>1, <4>1
    <3> QED
      BY <3>2, <3>3
  <2>3. CASE q # r
    <3>1. rn2[q] = rn[q] /\ rn[q].block # b /\ b \in al[rn[q].block] /\ rn[q].block \in Block
      BY <1>2, <1>3, <1>5, <2>3
    <3>2. j < pt[rn[q].block][m]
      BY <1>3, <3>1
    <3>3. sh[m][j] \in {rn[q].block} \cup al[rn[q].block]
      BY <1>1, <3>1, <3>2 DEF RowsRight
    <3> QED
      BY <2>1, <3>1, <3>3
  <2> QED
    BY <2>2, <2>3
<1>12. BlocksRight(kn, cnt, rn2, pt2, sh2, al)
  BY <1>6, <1>7, <1>8, <1>9, <1>10, <1>11 DEF BlocksRight
<1> QED
  BY <1>12 DEF rn2, pt2, b

LEMMA InitKernelInv == KernelInit => KernelInv
<1> SUFFICES ASSUME KernelInit PROVE KernelInv
  OBVIOUS
<1>1. /\ kernel \in KernelShapes /\ counter = 0 /\ fault = "none"
      /\ runner = [r \in Runner |-> Draws] /\ parts = [b \in Block |-> [l \in Lane |-> 0]]
      /\ shared = [l \in Lane |-> [k \in 0 .. MaxSyncs |-> GridSize]]
      /\ alongside = [b \in Block |-> {}]
  BY DEF KernelInit, Draws
<1>2. GridSize \in Nat
  BY KernelAssumption DEF GridSize
<1>3. \A r \in Runner : runner[r] = Draws /\ runner[r].at # "run"
  BY <1>1 DEF Draws
<1>4. KernelTyped(kernel, counter, runner, parts, shared, alongside)
  BY <1>1, <1>2 DEF KernelTyped
<1>5. BlocksApart(counter, runner, alongside)
  BY <1>3 DEF BlocksApart
<1>6. NotDrawnYet(counter, parts)
  BY <1>1 DEF NotDrawnYet
<1>7. EndedWhole(kernel, counter, runner, parts)
  <2>1. \A b \in Block : ~(b < counter)
    BY <1>1, FirstLaneValid
  <2> QED
    BY <2>1 DEF EndedWhole
<1>8. RoundsRight(kernel, runner, parts) /\ RowsRight(runner, parts, shared, alongside)
  BY <1>3 DEF RoundsRight, RowsRight
<1> QED
  BY <1>1, <1>4, <1>5, <1>6, <1>7, <1>8 DEF KernelInv, BlocksRight, FaultRight

\* A thread draws the next block, or finds that there is none.
LEMMA DrawKeeps ==
  ASSUME KernelInv, NEW r \in Runner, DrawBlock(r)
  PROVE  KernelInv'
<1>1. /\ KernelTyped(kernel, counter, runner, parts, shared, alongside)
      /\ BlocksApart(counter, runner, alongside) /\ NotDrawnYet(counter, parts)
      /\ EndedWhole(kernel, counter, runner, parts) /\ RoundsRight(kernel, runner, parts)
      /\ RowsRight(runner, parts, shared, alongside) /\ FaultRight(kernel, parts, fault)
  BY DEF KernelInv, BlocksRight
<1>2. /\ runner[r].at = "draw" /\ counter' = counter + 1 /\ counter \in Nat
      /\ kernel' = kernel /\ parts' = parts /\ shared' = shared /\ fault' = fault
      /\ Block \subseteq Nat /\ GridSize \in Nat
      /\ \A b \in Block : (counter + 1 <= b => counter <= b) /\ (b < counter => b < counter + 1)
  <2>1. GridSize \in Nat
    BY KernelAssumption DEF GridSize
  <2>2. Block \subseteq Nat
    BY FirstLaneValid
  <2>3. counter \in Nat
    BY <1>1 DEF KernelTyped
  <2> QED
    BY <2>1, <2>2, <2>3 DEF DrawBlock
<1>3. /\ \A q \in Runner : runner[q].at = "run" => runner[q] \in RunRecord /\ runner[q].block \in Block
      /\ \A q \in Runner : runner[q].at = "run" => q # r
  <2>1. /\ Draws.at # "run" /\ LeftRunner.at # "run"
    BY DEF Draws, LeftRunner
  <2>2. \A q \in Runner : runner[q].at = "run" => runner[q] \in RunRecord
    BY <1>1, <2>1 DEF KernelTyped
  <2> QED
    BY <1>2, <2>2 DEF RunRecord
<1>4. FaultRight(kernel', parts', fault')
  BY <1>1, <1>2
<1>5. CASE /\ counter >= GridSize /\ alongside' = alongside
           /\ runner' = [runner EXCEPT ![r] = [at |-> "gone"]]
  <2>1. /\ DOMAIN runner' = Runner /\ runner'[r] = LeftRunner
        /\ \A q \in Runner : q # r => runner'[q] = runner[q]
    BY <1>1, <1>5 DEF KernelTyped, LeftRunner
  <2>2. \A q \in Runner : runner'[q].at = "run" <=> runner[q].at = "run"
    BY <1>2, <2>1 DEF LeftRunner
  <2>3. \A q \in Runner : runner[q].at = "run" => runner'[q] = runner[q]
    BY <1>3, <2>1
  <2>4. KernelTyped(kernel', counter', runner', parts', shared', alongside')
    BY <1>1, <1>2, <1>5, <2>1 DEF KernelTyped
  <2>5. BlocksApart(counter', runner', alongside')
    BY <1>1, <1>2, <1>3, <1>5, <2>2, <2>3 DEF BlocksApart
  <2>6. NotDrawnYet(counter', parts')
    BY <1>1, <1>2 DEF NotDrawnYet
  <2>7. EndedWhole(kernel', counter', runner', parts')
    <3>1. \A b \in Block : b < counter
      BY <1>2, <1>5 DEF Block
    <3> QED
      BY <1>1, <1>2, <2>2, <2>3, <3>1 DEF EndedWhole
  <2>8. RoundsRight(kernel', runner', parts')
    BY <1>1, <1>2, <2>2, <2>3 DEF RoundsRight
  <2>9. RowsRight(runner', parts', shared', alongside')
    BY <1>1, <1>2, <1>5, <2>2, <2>3 DEF RowsRight
  <2> QED
    BY <1>4, <2>4, <2>5, <2>6, <2>7, <2>8, <2>9 DEF KernelInv, BlocksRight
<1> DEFINE y == [at |-> "run", block |-> counter, lane |-> 0,
                 allDone |-> TRUE, states |-> [l \in Lane |-> "null"]]
<1>6. CASE /\ counter < GridSize /\ runner' = [runner EXCEPT ![r] = y]
           /\ alongside' = [b \in Block |-> alongside[b] \cup (IF b = counter THEN Running
                                              ELSE IF b \in Running THEN {counter} ELSE {})]
  <2>1. counter \in Block /\ 0 \in Lane
    BY <1>2, <1>6, KernelAssumption DEF Block, Lane
  <2>2. /\ y \in RunRecord /\ y.at = "run" /\ y.block = counter /\ y.lane = 0 /\ y.allDone = TRUE
        /\ \A l \in Lane : y.states[l] = "null"
    <3>1. [l \in Lane |-> "null"] \in [Lane -> States]
      BY DEF States
    <3> QED
      BY <2>1, <3>1 DEF RunRecord
  <2> HIDE DEF y
  <2>3. /\ DOMAIN runner' = Runner /\ runner'[r] = y
        /\ \A q \in Runner : q # r => runner'[q] = runner[q]
    BY <1>1, <1>6 DEF KernelTyped
  <2>4. \A q \in Runner : runner[q].at = "run" =>
           runner[q].block \in Running /\ runner[q].block # counter /\ runner[q].block < counter
    BY <1>1, <1>2, <1>3 DEF Running, BlocksApart
  <2>5. Running \subseteq Block
    BY <1>3 DEF Running
  <2>6. /\ alongside' \in [Block -> SUBSET Block]
        /\ \A b \in Block : alongside[b] \subseteq alongside'[b]
        /\ Running \subseteq alongside'[counter]
        /\ \A b \in Running : b # counter => counter \in alongside'[b]
    <3>1. \A b \in Block : alongside[b] \subseteq Block
      BY <1>1 DEF KernelTyped
    <3>2. \A b \in Block : alongside'[b] = alongside[b] \cup (IF b = counter THEN Running
                                              ELSE IF b \in Running THEN {counter} ELSE {})
      BY <1>6
    <3>3. \A b \in Block : alongside'[b] \subseteq Block
      BY <2>1, <2>5, <3>1, <3>2
    <3>4. alongside' \in [Block -> SUBSET Block]
      <4>1. DOMAIN alongside' = Block /\ alongside' = [b \in Block |-> alongside'[b]]
        BY <1>6
      <4> QED
        BY <3>3, <4>1
    <3> QED
      BY <2>1, <2>5, <3>2, <3>4
  <2>7. KernelTyped(kernel', counter', runner', parts', shared', alongside')
    BY <1>1, <1>2, <2>2, <2>3, <2>6 DEF KernelTyped
  <2>8. BlocksApart(counter', runner', alongside')
    <3>1. \A q \in Runner : runner'[q].at = "run" => runner'[q].block < counter'
      <4>1. \A q \in Runner : q # r /\ runner'[q].at = "run" => runner'[q].block < counter + 1
        <5>1. \A b \in Block : b < counter => b < counter + 1
          BY <1>2
        <5> QED
          BY <1>3, <2>3, <2>4, <5>1
      <4>2. runner'[r].block < counter + 1
        BY <1>2, <2>2, <2>3
      <4> QED
        BY <1>2, <4>1, <4>2
    <3>2. \A q \in Runner : q # r /\ runner'[q].at = "run" =>
             /\ runner'[q].block # counter /\ runner'[q].block \in Running
             /\ runner'[q].block \in alongside'[counter] /\ counter \in alongside'[runner'[q].block]
      BY <2>3, <2>4, <2>6
    <3>3. \A q, s \in Runner : q # s /\ q # r /\ s # r /\ runner'[q].at = "run" /\ runner'[s].at = "run"
             => runner'[q].block # runner'[s].block /\ runner'[s].block \in alongside'[runner'[q].block]
      BY <1>1, <1>3, <2>3, <2>6 DEF BlocksApart
    <3> QED
      BY <2>2, <2>3, <3>1, <3>2, <3>3 DEF BlocksApart
  <2>9. NotDrawnYet(counter', parts')
    BY <1>1, <1>2 DEF NotDrawnYet
  <2>10. EndedWhole(kernel', counter', runner', parts')
    <3> SUFFICES ASSUME NEW b \in Block, b < counter + 1,
                        \A q \in Runner : runner'[q].at = "run" => runner'[q].block # b
                 PROVE  \A l \in Lanes(b) : parts[b][l] = SyncsOf(kernel, b, l) + 1
      BY <1>2 DEF EndedWhole
    <3>1. b # counter
      BY <2>2, <2>3
    <3>2. b < counter
      BY <1>2, <3>1
    <3>3. \A q \in Runner : runner[q].at = "run" => runner[q].block # b
      BY <1>3, <2>3
    <3> QED
      BY <1>1, <3>2, <3>3 DEF EndedWhole
  <2>11. \A l \in Lane : parts[counter][l] = 0
    BY <1>1, <1>2, <2>1 DEF NotDrawnYet
  <2>12. RoundsRight(kernel', runner', parts')
    <3>1. UnderWay(kernel, y, parts[counter])
      <4>1. \A i \in Lanes(counter) : /\ i \in Lane /\ ~(i < 0) /\ SyncsOf(kernel, counter, i) \in Nat
                                      /\ parts[counter][i] = 0 /\ y.states[i] = "null"
        <5>1. kernel \in KernelShapes
          BY <1>1 DEF KernelTyped
        <5>2. \A i \in Lanes(counter) : i \in Lane /\ SyncsOf(kernel, counter, i) \in 0 .. MaxSyncs
          BY <2>1, <5>1, KernelFacts
        <5>3. MaxSyncs \in Nat /\ \A i \in Lane : ~(i < 0)
          BY KernelAssumption DEF Lane
        <5>4. \A i \in Lanes(counter) : SyncsOf(kernel, counter, i) \in Nat
          BY <5>2, <5>3
        <5> QED
          BY <2>2, <2>11, <5>2, <5>3, <5>4
      <4>2. InRound(kernel, y, 0, parts[counter], 0)
        BY <2>2, <4>1 DEF InRound
      <4>3. StatesRight(kernel, y, parts[counter])
        BY <2>2, <4>1 DEF StatesRight
      <4> QED
        BY <2>2, <4>2, <4>3 DEF UnderWay
    <3> QED
      BY <1>1, <1>2, <2>2, <2>3, <3>1 DEF RoundsRight
  <2>13. RowsRight(runner', parts', shared', alongside')
    <3> SUFFICES ASSUME NEW q \in Runner, runner'[q].at = "run", NEW m \in Lane, NEW j \in 0 .. MaxSyncs,
                        j < parts[runner'[q].block][m]
                 PROVE  shared[m][j] \in {runner'[q].block} \cup alongside'[runner'[q].block]
      BY <1>2 DEF RowsRight
    <3>1. q # r
      BY <2>2, <2>3, <2>11, KernelAssumption
    <3>2. runner'[q] = runner[q] /\ runner[q].at = "run" /\ runner[q].block \in Block
      BY <1>3, <2>3, <3>1
    <3>3. shared[m][j] \in {runner[q].block} \cup alongside[runner[q].block]
      BY <1>1, <3>2 DEF RowsRight
    <3> QED
      BY <2>6, <3>2, <3>3
  <2> QED
    BY <1>4, <2>7, <2>8, <2>9, <2>10, <2>12, <2>13 DEF KernelInv, BlocksRight
<1>7. \/ /\ counter >= GridSize /\ alongside' = alongside
         /\ runner' = [runner EXCEPT ![r] = [at |-> "gone"]]
      \/ /\ counter < GridSize /\ runner' = [runner EXCEPT ![r] = y]
         /\ alongside' = [b \in Block |-> alongside[b] \cup (IF b = counter THEN Running
                                              ELSE IF b \in Running THEN {counter} ELSE {})]
  BY DEF DrawBlock
<1> QED
  BY <1>5, <1>6, <1>7

\* A runner takes up a lane of its block.
LaneOf(r, l) == /\ r \in Runner /\ l \in Lane /\ runner[r] \in RunRecord
                /\ runner[r].at = "run" /\ runner[r].lane = l /\ runner[r].block \in Block
                /\ parts[runner[r].block] \in [Lane -> Nat] /\ kernel \in KernelShapes
                /\ UnderWay(kernel, runner[r], parts[runner[r].block])

LEMMA LaneTakenUp ==
  ASSUME KernelInv, NEW r \in Runner, NEW l \in Lane, At(r, l)
  PROVE  LaneOf(r, l)
<1>1. /\ KernelTyped(kernel, counter, runner, parts, shared, alongside)
      /\ RoundsRight(kernel, runner, parts)
  BY DEF KernelInv, BlocksRight
<1>2. runner[r].at = "run" /\ runner[r].lane = l /\ Draws.at # "run" /\ LeftRunner.at # "run"
  BY DEF At, Draws, LeftRunner
<1>3. runner[r] \in RunRecord
  BY <1>1, <1>2 DEF KernelTyped
<1> QED
  BY <1>1, <1>2, <1>3 DEF LaneOf, KernelTyped, RoundsRight, RunRecord

LEMMA SkipKeeps ==
  ASSUME KernelInv, NEW r \in Runner, NEW l \in Lane, SkipLane(r, l)
  PROVE  KernelInv'
<1> DEFINE b == runner[r].block
           x == NextLane(runner[r], l)
<1>1. LaneOf(r, l) /\ BlocksRight(kernel, counter, runner, parts, shared, alongside)
  BY LaneTakenUp DEF SkipLane, KernelInv
<1>2. /\ runner[r] \in RunRecord /\ runner[r].at = "run" /\ runner[r].lane = l /\ b \in Block
      /\ parts[b] \in [Lane -> Nat] /\ kernel \in KernelShapes
      /\ StatesRight(kernel, runner[r], parts[b])
      /\ runner[r].lane \notin Lanes(b)
  BY <1>1 DEF LaneOf, UnderWay, SkipLane, Lanes
<1>3. PICK k \in Nat : InRound(kernel, runner[r], l, parts[b], k)
  BY <1>1 DEF LaneOf, UnderWay
<1>4. InRound(kernel, runner[r], runner[r].lane + 1, parts[b], k)
  BY <1>2, <1>3, LaneSkipped
<1>5. \/ x \in RunRecord /\ x.block = b /\ UnderWay(kernel, x, parts[b])
      \/ x = Draws /\ \A i \in Lanes(b) : parts[b][i] = SyncsOf(kernel, b, i) + 1
  BY <1>2, <1>4, AfterLane
<1>6. /\ runner' = [runner EXCEPT ![r] = x] /\ kernel' = kernel /\ counter' = counter /\ parts' = parts
      /\ shared' = shared /\ alongside' = alongside /\ fault' = fault
  BY <1>2 DEF SkipLane
<1> HIDE DEF x
<1>7. /\ shared \in [Lane -> [0 .. MaxSyncs -> Nat]] /\ parts \in [Block -> [Lane -> Nat]]
  BY <1>1 DEF BlocksRight, KernelTyped
<1>8. LaneLeaves(kernel, b, x, parts[b], parts, shared, shared)
  <2>1. \A m \in Lane : parts[b][m] \in Nat /\ parts[b][m] <= parts[b][m]
    BY <1>2
  <2> QED
    BY <1>2, <1>5, <1>7, <2>1 DEF LaneLeaves
<1>9. BlocksRight(kernel, counter, [runner EXCEPT ![r] = x], [parts EXCEPT ![b] = parts[b]], shared, alongside)
  BY <1>1, <1>2, <1>8, LaneStepRight
<1>10. [parts EXCEPT ![b] = parts[b]] = parts
  BY <1>2, <1>7
<1>11. BlocksRight(kernel', counter', runner', parts', shared', alongside')
  BY <1>6, <1>9, <1>10
<1>12. FaultRight(kernel', parts', fault')
  BY <1>6 DEF KernelInv
<1> QED
  BY <1>11, <1>12 DEF KernelInv

\* A part that runs writes its element of the shared memory.
LEMMA PartLeaves ==
  ASSUME KernelInv, NEW r \in Runner, NEW l \in Lane, LaneOf(r, l), RunPart(runner[r].block, l),
         NEW p, p = [parts[runner[r].block] EXCEPT ![l] = @ + 1], p \in [Lane -> Nat],
         parts[runner[r].block][l] \in 0 .. MaxSyncs,
         NEW x, runner' = [runner EXCEPT ![r] = x],
         \/ x \in RunRecord /\ x.block = runner[r].block /\ UnderWay(kernel, x, p)
         \/ x = Draws /\ \A i \in Lanes(runner[r].block) : p[i] = SyncsOf(kernel, runner[r].block, i) + 1,
         UNCHANGED <<kernel, counter, alongside, fault>>, fault = "none"
  PROVE  KernelInv'
<1> DEFINE b == runner[r].block
           n == parts[b][l]
<1>1. /\ BlocksRight(kernel, counter, runner, parts, shared, alongside)
      /\ shared \in [Lane -> [0 .. MaxSyncs -> Nat]] /\ parts \in [Block -> [Lane -> Nat]]
      /\ b \in Block /\ runner[r].at = "run" /\ n \in 0 .. MaxSyncs /\ n \in Nat
      /\ Block \subseteq Nat /\ parts[b] \in [Lane -> Nat]
  BY FirstLaneValid DEF KernelInv, BlocksRight, KernelTyped, LaneOf
<1>2. parts' = [parts EXCEPT ![b] = p]
  BY <1>1 DEF RunPart
<1>3. shared' = [shared EXCEPT ![l][n] = b]
  BY DEF RunPart
<1> HIDE DEF b, n
<1>4. p[l] = n + 1 /\ \A m \in Lane : m # l => p[m] = parts[b][m]
  BY <1>1 DEF b, n
<1>5. /\ shared' \in [Lane -> [0 .. MaxSyncs -> Nat]]
      /\ shared'[l][n] = b
      /\ \A m \in Lane, j \in 0 .. MaxSyncs : ~(m = l /\ j = n) => shared'[m][j] = shared[m][j]
  BY <1>1, <1>3
<1>6. \A m \in Lane, j \in 0 .. MaxSyncs : j < p[m] /\ ~(j < parts[b][m]) => m = l /\ j = n
  <2> SUFFICES ASSUME NEW m \in Lane, NEW j \in 0 .. MaxSyncs, j < p[m], ~(j < parts[b][m])
               PROVE  m = l /\ j = n
    OBVIOUS
  <2>1. m = l
    BY <1>4
  <2>2. j \in Nat /\ j < n + 1 /\ ~(j < n)
    BY <1>4, <2>1 DEF n
  <2> QED
    BY <1>1, <2>1, <2>2
<1>7. \A m \in Lane : parts[b][m] <= p[m]
  <2>1. \A m \in Lane : parts[b][m] \in Nat
    BY <1>1
  <2> QED
    BY <1>1, <1>4, <2>1 DEF n
<1>8. LaneLeaves(kernel, b, x, p, parts, shared, shared')
  BY <1>5, <1>6, <1>7 DEF LaneLeaves, b
<1>9. BlocksRight(kernel, counter, [runner EXCEPT ![r] = x], [parts EXCEPT ![b] = p], shared', alongside)
  BY <1>1, <1>8, LaneStepRight DEF b
<1>10. BlocksRight(kernel', counter', runner', parts', shared', alongside')
  BY <1>2, <1>9
<1>11. FaultRight(kernel', parts', fault')
  BY DEF FaultRight
<1> QED
  BY <1>10, <1>11 DEF KernelInv

LEMMA CallKeeps ==
  ASSUME KernelInv, fault = "none", NEW r \in Runner, NEW l \in Lane, CallKernel(r, l)
  PROVE  KernelInv'
<1> DEFINE b == runner[r].block
           p == parts[b]
           p2 == [p EXCEPT ![l] = @ + 1]
           state == IF ~kernel.coroutine THEN "null"
                    ELSE IF IsDone(b, l) THEN "final" ELSE "suspended"
           here == AfterCall(runner[r], l, state)
           x == NextLane(here, l)
<1>1. LaneOf(r, l)
  BY LaneTakenUp DEF CallKernel
<1>2. /\ runner[r] \in RunRecord /\ runner[r].at = "run" /\ runner[r].lane = l /\ b \in Block
      /\ p \in [Lane -> Nat] /\ kernel \in KernelShapes /\ UnderWay(kernel, runner[r], p)
      /\ l \in Lanes(b) /\ runner[r].states[l] = "null"
  BY <1>1 DEF LaneOf, CallKernel, Lanes
<1>3. state = (IF ~kernel.coroutine THEN "null"
               ELSE IF p[l] = SyncsOf(kernel, b, l) THEN "final" ELSE "suspended")
  BY DEF IsDone, Syncs, SyncsOf
<1>4. /\ RunPart(b, l) /\ runner' = [runner EXCEPT ![r] = x]
      /\ UNCHANGED <<kernel, counter, alongside, fault>>
  BY DEF CallKernel
<1> HIDE DEF p2, state
<1>5. /\ here \in RunRecord /\ here.block = b /\ here.lane = l
      /\ p2 \in [Lane -> Nat] /\ p[l] \in 0 .. MaxSyncs
      /\ \E k \in Nat : InRound(kernel, here, l + 1, p2, k)
      /\ StatesRight(kernel, here, p2)
  BY <1>2, <1>3, LaneCalled DEF p2
<1> HIDE DEF here
<1>6. \/ x \in RunRecord /\ x.block = b /\ UnderWay(kernel, x, p2)
      \/ x = Draws /\ \A i \in Lanes(b) : p2[i] = SyncsOf(kernel, b, i) + 1
  BY <1>2, <1>5, AfterLane
<1> HIDE DEF x
<1>7. PICK y, q : y = x /\ q = p2
  OBVIOUS
<1>8. /\ q = [parts[runner[r].block] EXCEPT ![l] = @ + 1] /\ q \in [Lane -> Nat]
      /\ parts[runner[r].block][l] \in 0 .. MaxSyncs
      /\ RunPart(runner[r].block, l) /\ runner' = [runner EXCEPT ![r] = y]
      /\ \/ y \in RunRecord /\ y.block = runner[r].block /\ UnderWay(kernel, y, q)
         \/ y = Draws /\ \A i \in Lanes(runner[r].block) : q[i] = SyncsOf(kernel, runner[r].block, i) + 1
      /\ UNCHANGED <<kernel, counter, alongside, fault>>
  BY <1>4, <1>5, <1>6, <1>7 DEF p2
<1> QED
  BY <1>1, <1>8, PartLeaves

LEMMA ResumeKeeps ==
  ASSUME KernelInv, fault = "none", NEW r \in Runner, NEW l \in Lane, ResumeKernel(r, l)
  PROVE  KernelInv'
<1> DEFINE b == runner[r].block
           p == parts[b]
           p2 == [p EXCEPT ![l] = @ + 1]
           ended == IsDone(b, l)
           here == AfterResume(runner[r], l, ended)
           x == NextLane(here, l)
<1>1. LaneOf(r, l)
  BY LaneTakenUp DEF ResumeKernel
<1>2. /\ runner[r] \in RunRecord /\ runner[r].at = "run" /\ runner[r].lane = l /\ b \in Block
      /\ p \in [Lane -> Nat] /\ kernel \in KernelShapes /\ UnderWay(kernel, runner[r], p)
      /\ l \in Lanes(b) /\ runner[r].states[l] = "suspended"
  BY <1>1 DEF LaneOf, ResumeKernel, Lanes
<1>3. ended \in BOOLEAN /\ (ended <=> p[l] = SyncsOf(kernel, b, l))
  BY DEF IsDone, Syncs, SyncsOf
<1>4. /\ RunPart(b, l) /\ runner' = [runner EXCEPT ![r] = x]
      /\ UNCHANGED <<kernel, counter, alongside, fault>>
  BY DEF ResumeKernel
<1> HIDE DEF p2, ended
<1>5. /\ here \in RunRecord /\ here.block = b /\ here.lane = l
      /\ p2 \in [Lane -> Nat] /\ p[l] \in 0 .. MaxSyncs
      /\ \E k \in Nat : InRound(kernel, here, l + 1, p2, k)
      /\ StatesRight(kernel, here, p2)
  BY <1>2, <1>3, LaneResumed DEF p2
<1> HIDE DEF here
<1>6. \/ x \in RunRecord /\ x.block = b /\ UnderWay(kernel, x, p2)
      \/ x = Draws /\ \A i \in Lanes(b) : p2[i] = SyncsOf(kernel, b, i) + 1
  BY <1>2, <1>5, AfterLane
<1> HIDE DEF x
<1>7. PICK y, q : y = x /\ q = p2
  OBVIOUS
<1>8. /\ q = [parts[runner[r].block] EXCEPT ![l] = @ + 1] /\ q \in [Lane -> Nat]
      /\ parts[runner[r].block][l] \in 0 .. MaxSyncs
      /\ RunPart(runner[r].block, l) /\ runner' = [runner EXCEPT ![r] = y]
      /\ \/ y \in RunRecord /\ y.block = runner[r].block /\ UnderWay(kernel, y, q)
         \/ y = Draws /\ \A i \in Lanes(runner[r].block) : q[i] = SyncsOf(kernel, runner[r].block, i) + 1
      /\ UNCHANGED <<kernel, counter, alongside, fault>>
  BY <1>4, <1>5, <1>6, <1>7 DEF p2
<1> QED
  BY <1>1, <1>8, PartLeaves

\* Only lanes that do not all synchronize equally often let an ended coroutine
\* be resumed.
LEMMA EndedKeeps ==
  ASSUME KernelInv, fault = "none", NEW r \in Runner, NEW l \in Lane, ResumeEnded(r, l)
  PROVE  KernelInv'
<1> DEFINE b == runner[r].block
           p == parts[b]
<1>1. LaneOf(r, l)
  BY LaneTakenUp DEF ResumeEnded
<1>2. /\ runner[r] \in RunRecord /\ runner[r].lane = l /\ b \in Block
      /\ p \in [Lane -> Nat] /\ kernel \in KernelShapes /\ StatesRight(kernel, runner[r], p)
      /\ l \in Lanes(b) /\ runner[r].states[l] \in {"final", "destroyed"}
      /\ UNCHANGED <<kernel, counter, runner, parts, shared, alongside>>
  BY <1>1 DEF LaneOf, ResumeEnded, Lanes, UnderWay
<1>3. PICK k \in Nat : InRound(kernel, runner[r], l, p, k)
  BY <1>1 DEF LaneOf, UnderWay
<1>4. /\ 0 \in Lanes(b) /\ MaxSyncs \in Nat /\ BlockSize \in Nat
      /\ \A i \in Lanes(b) : i \in Lane /\ SyncsOf(kernel, b, i) \in 0 .. MaxSyncs
  BY <1>2, KernelFacts, FirstLaneValid, KernelAssumption
<1>5. \A i \in Lanes(b) : i \in Nat /\ SyncsOf(kernel, b, i) \in Nat
  BY <1>4 DEF Lane
<1>6. /\ p[l] = SyncsOf(kernel, b, l) + 1
      /\ p[l] = k
      /\ k >= 2 => \E i \in Lanes(b) : SyncsOf(kernel, b, i) >= k
      /\ p[0] = k \/ p[0] = k + 1
  <2>1. ~(l < l)
    BY <1>2, <1>5
  <2>2. p[l] = SyncsOf(kernel, b, l) + 1
    BY <1>2 DEF StatesRight
  <2> QED
    BY <1>2, <1>3, <1>4, <2>1, <2>2 DEF InRound
<1>7. ~SyncsInStep(kernel, b)
  <2>1. CASE k >= 2
    <3>1. PICK i \in Lanes(b) : SyncsOf(kernel, b, i) >= k
      BY <1>6, <2>1
    <3>2. SyncsOf(kernel, b, i) # SyncsOf(kernel, b, l)
      BY <1>2, <1>5, <1>6, <3>1
    <3> QED
      BY <1>2, <3>2 DEF SyncsInStep
  <2>2. CASE ~(k >= 2)
    <3>1. SyncsOf(kernel, b, l) = 0
      BY <1>2, <1>5, <1>6, <2>2
    <3> QED
      BY <1>2, <3>1 DEF SyncsInStep
  <2> QED
    BY <2>1, <2>2
<1>8. p[0] > 0
  BY <1>2, <1>5, <1>6
<1>9. FaultRight(kernel', parts', fault')
  BY <1>2, <1>7, <1>8 DEF FaultRight
<1> QED
  BY <1>2, <1>9 DEF KernelInv

LEMMA KernelStep == KernelInv /\ [KernelNext]_kernelVars => KernelInv'
<1> SUFFICES ASSUME KernelInv, [KernelNext]_kernelVars PROVE KernelInv'
  OBVIOUS
<1>1. CASE UNCHANGED kernelVars
  BY <1>1 DEF kernelVars, KernelInv
<1>2. ASSUME fault = "none", NEW r \in Runner, DrawBlock(r) PROVE KernelInv'
  BY <1>2, DrawKeeps
<1>3. ASSUME fault = "none", NEW r \in Runner, NEW l \in Lane, SkipLane(r, l) PROVE KernelInv'
  BY <1>3, SkipKeeps
<1>4. ASSUME fault = "none", NEW r \in Runner, NEW l \in Lane, CallKernel(r, l) PROVE KernelInv'
  BY <1>4, CallKeeps
<1>5. ASSUME fault = "none", NEW r \in Runner, NEW l \in Lane, ResumeKernel(r, l) PROVE KernelInv'
  BY <1>5, ResumeKeeps
<1>6. ASSUME fault = "none", NEW r \in Runner, NEW l \in Lane, ResumeEnded(r, l) PROVE KernelInv'
  BY <1>6, EndedKeeps
<1> QED
  BY <1>1, <1>2, <1>3, <1>4, <1>5, <1>6 DEF KernelNext

\* The number of parts every lane of a block under way has run is one of two
\* that follow one another.
THEOREM KernelConsistent == KernelSpec => []KernelInv
BY InitKernelInv, KernelStep, PTL DEF KernelSpec

\* A thread that draws no block leaves, so the counter passes the number of blocks
\* by one for each that has left.
LeftRunners == {r \in Runner : runner[r].at = "gone"}
DrawsCounted ==
    /\ counter <= GridSize + Cardinality(LeftRunners)
    /\ fault \in {"none", "trap", "undefined"}

LEMMA GridTyped == GridSize \in Nat
BY KernelAssumption DEF GridSize

LEMMA LeftCounted ==
  ASSUME NEW S \in SUBSET Runner
  PROVE  /\ IsFiniteSet(S) /\ Cardinality(S) \in Nat /\ Cardinality(S) <= Cardinality(Runner)
         /\ Cardinality(Runner) \in Nat
         /\ \A r \in Runner \ S : Cardinality(S \cup {r}) = Cardinality(S) + 1
<1>1. IsFiniteSet(Runner) /\ Cardinality(Runner) \in Nat
  BY KernelAssumption, FS_CardinalityType
<1>2. IsFiniteSet(S) /\ Cardinality(S) <= Cardinality(Runner)
  BY <1>1, FS_Subset
<1> QED
  BY <1>1, <1>2, FS_CardinalityType, FS_AddElement

LEMMA DrawsCountedInit == KernelInit => DrawsCounted
<1> SUFFICES ASSUME KernelInit PROVE DrawsCounted
  OBVIOUS
<1>1. GridSize \in Nat /\ Cardinality(LeftRunners) \in Nat
  BY GridTyped, LeftCounted DEF LeftRunners
<1> QED
  BY <1>1 DEF KernelInit, DrawsCounted

\* A lane is the end of no thread.
LEMMA NextLaneStays ==
  ASSUME NEW here \in RunRecord, NEW l \in Lane
  PROVE  NextLane(here, l).at # "gone"
BY DEF NextLane, RunRecord

LEMMA LaneOutcome ==
  ASSUME NEW here \in RunRecord, NEW l \in Lane
  PROVE  /\ \A state \in States : AfterCall(here, l, state) \in RunRecord
         /\ \A ended \in BOOLEAN : AfterResume(here, l, ended) \in RunRecord
BY DEF AfterCall, AfterResume, RunRecord, States

LEMMA LanesDrawNothing ==
  ASSUME KernelInv, NEW r \in Runner, NEW l \in Lane, SkipLane(r, l) \/ CallKernel(r, l) \/ ResumeKernel(r, l)
  PROVE  LeftRunners' = LeftRunners /\ counter' = counter /\ fault' = fault
<1>1. runner[r] \in RunRecord /\ runner[r].at = "run" /\ DOMAIN runner = Runner
  <2>1. DOMAIN runner = Runner
    BY DEF KernelInv, BlocksRight, KernelTyped
  <2> QED
    BY <2>1, LaneTakenUp DEF SkipLane, CallKernel, ResumeKernel, LaneOf
<1>2. ASSUME NEW x, x.at # "gone", runner' = [runner EXCEPT ![r] = x] PROVE LeftRunners' = LeftRunners
  BY <1>1, <1>2 DEF LeftRunners
<1>3. CASE SkipLane(r, l)
  BY <1>1, <1>2, <1>3, NextLaneStays DEF SkipLane
<1>4. CASE CallKernel(r, l)
  <2>1. PICK state \in States : runner' = [runner EXCEPT ![r] = NextLane(AfterCall(runner[r], l, state), l)]
    BY <1>4 DEF CallKernel, States
  <2>2. AfterCall(runner[r], l, state) \in RunRecord
    BY <1>1, LaneOutcome
  <2> QED
    BY <1>2, <1>4, <2>1, <2>2, NextLaneStays DEF CallKernel
<1>5. CASE ResumeKernel(r, l)
  <2>1. PICK ended \in BOOLEAN : runner' = [runner EXCEPT ![r] = NextLane(AfterResume(runner[r], l, ended), l)]
    BY <1>5 DEF ResumeKernel, IsDone
  <2>2. AfterResume(runner[r], l, ended) \in RunRecord
    BY <1>1, LaneOutcome
  <2> QED
    BY <1>2, <1>5, <2>1, <2>2, NextLaneStays DEF ResumeKernel
<1> QED
  BY <1>3, <1>4, <1>5 DEF SkipLane, CallKernel, ResumeKernel

LEMMA DrawCounts ==
  ASSUME KernelInv, DrawsCounted, NEW r \in Runner, DrawBlock(r)
  PROVE  DrawsCounted'
<1>1. counter \in Nat /\ GridSize \in Nat /\ DOMAIN runner = Runner
  BY GridTyped DEF KernelInv, BlocksRight, KernelTyped
<1>2. LeftRunners \in SUBSET Runner /\ LeftRunners' \in SUBSET Runner /\ r \notin LeftRunners
  BY DEF LeftRunners, DrawBlock
<1>3. /\ Cardinality(LeftRunners) \in Nat /\ Cardinality(LeftRunners') \in Nat
      /\ Cardinality(LeftRunners \cup {r}) = Cardinality(LeftRunners) + 1
  BY <1>2, LeftCounted
<1>4. counter' = counter + 1 /\ fault' = fault
  BY DEF DrawBlock
<1>5. CASE counter < GridSize
  BY <1>1, <1>3, <1>4, <1>5 DEF DrawsCounted
<1>6. CASE counter >= GridSize
  <2>1. runner' = [runner EXCEPT ![r] = [at |-> "gone"]]
    BY <1>1, <1>6 DEF DrawBlock
  <2>2. LeftRunners' = LeftRunners \cup {r}
    BY <1>1, <2>1 DEF LeftRunners
  <2> QED
    BY <1>1, <1>3, <1>4, <2>2 DEF DrawsCounted
<1> QED
  BY <1>1, <1>5, <1>6

LEMMA DrawsCountedStep == KernelInv /\ DrawsCounted /\ [KernelNext]_kernelVars => DrawsCounted'
<1> SUFFICES ASSUME KernelInv, DrawsCounted, [KernelNext]_kernelVars PROVE DrawsCounted'
  OBVIOUS
<1>1. CASE UNCHANGED kernelVars
  BY <1>1 DEF kernelVars, DrawsCounted, LeftRunners
<1>2. ASSUME NEW r \in Runner, DrawBlock(r) PROVE DrawsCounted'
  BY <1>2, DrawCounts
<1>3. ASSUME NEW r \in Runner, NEW l \in Lane, SkipLane(r, l) \/ CallKernel(r, l) \/ ResumeKernel(r, l)
      PROVE  DrawsCounted'
  BY <1>3, LanesDrawNothing DEF DrawsCounted
<1>4. ASSUME NEW r \in Runner, NEW l \in Lane, ResumeEnded(r, l) PROVE DrawsCounted'
  BY <1>4 DEF ResumeEnded, DrawsCounted, LeftRunners
<1> QED
  BY <1>1, <1>2, <1>3, <1>4 DEF KernelNext

LEMMA KernelTypes == KernelInv /\ DrawsCounted => KernelTypeOK
<1> SUFFICES ASSUME KernelInv, DrawsCounted PROVE KernelTypeOK
  OBVIOUS
<1>1. KernelTyped(kernel, counter, runner, parts, shared, alongside)
  BY DEF KernelInv, BlocksRight
<1>2. counter \in 0 .. GridSize + Cardinality(Runner)
  <2>1. counter \in Nat /\ GridSize \in Nat /\ LeftRunners \in SUBSET Runner
    BY <1>1, GridTyped DEF KernelTyped, LeftRunners
  <2>2. /\ Cardinality(LeftRunners) \in Nat /\ Cardinality(Runner) \in Nat
        /\ Cardinality(LeftRunners) <= Cardinality(Runner)
    BY <2>1, LeftCounted
  <2> QED
    BY <2>1, <2>2 DEF DrawsCounted
<1>3. ASSUME NEW r \in Runner, runner[r].at = "run"
      PROVE  /\ runner[r].block \in Block /\ runner[r].lane \in Lane
             /\ \A l \in Lane : runner[r].states[l] \in {"null", "suspended", "final", "destroyed"}
  <2>1. runner[r] \in RunRecord
    BY <1>1, <1>3 DEF KernelTyped, Draws, LeftRunner
  <2> QED
    BY <2>1 DEF RunRecord, States
<1> QED
  BY <1>1, <1>2, <1>3 DEF KernelTypeOK, KernelTyped, DrawsCounted

\* The counter of a dispatch, which every thread increments once more than it
\* draws blocks, stays within the blocks and the threads, and what a thread
\* runs is a lane of a block.
THEOREM KernelTypeCorrect == KernelSpec => []KernelTypeOK
BY InitKernelInv, KernelStep, DrawsCountedInit, DrawsCountedStep, KernelTypes, PTL DEF KernelSpec

\* synchronize_block() is a barrier (llvm_codegen_kernel.cpp): no lane of a block
\* goes past it before all lanes have arrived, a kernel faults only when the
\* lanes of a block do not synchronize equally often, and a block that has ended
\* has run every part of every lane.
THEOREM BlockSynchronizes == KernelSpec => []SyncIsABarrier
<1>1. KernelInv => SyncIsABarrier
  <2> SUFFICES ASSUME KernelInv PROVE SyncIsABarrier
    OBVIOUS
  <2>1. /\ KernelTyped(kernel, counter, runner, parts, shared, alongside)
        /\ NotDrawnYet(counter, parts) /\ EndedWhole(kernel, counter, runner, parts)
        /\ RoundsRight(kernel, runner, parts) /\ FaultRight(kernel, parts, fault)
        /\ kernel \in KernelShapes /\ counter \in Nat
        /\ \A b \in Block : InStep(b) <=> SyncsInStep(kernel, b)
    BY DEF KernelInv, BlocksRight, KernelTyped, InStep, SyncsInStep, Syncs, SyncsOf
  <2>2. ASSUME NEW b \in Block, InStep(b), NEW l \in Lanes(b), NEW m \in Lanes(b)
        PROVE  Passed(b, l) <= Arrived(b, m)
    <3> DEFINE n == SyncsOf(kernel, b, m)
    <3>1. /\ parts[b][l] \in Nat /\ parts[b][m] \in Nat /\ n \in Nat /\ b \in Nat
          /\ l \in Lane /\ m \in Lane
          /\ n = SyncsOf(kernel, b, l) /\ n = Syncs(b, m)
      <4>1. l \in Lane /\ m \in Lane /\ n \in 0 .. MaxSyncs
        BY <2>1, KernelFacts
      <4>2. n \in Nat
        BY <4>1, KernelAssumption
      <4> QED
        BY <2>1, <2>2, <4>1, <4>2, FirstLaneValid DEF KernelTyped, SyncsInStep, Syncs, SyncsOf
    <3> HIDE DEF n
    <3>2. CASE counter <= b
      <4>1. parts[b][l] = 0 /\ parts[b][m] = 0
        BY <2>1, <3>1, <3>2 DEF NotDrawnYet
      <4> QED
        BY <3>1, <4>1 DEF Passed, Arrived
    <3>3. CASE b < counter /\ \A r \in Runner : runner[r].at = "run" => runner[r].block # b
      <4>1. parts[b][l] = n + 1 /\ parts[b][m] = n + 1
        BY <2>1, <2>2, <3>1, <3>3 DEF EndedWhole, n
      <4> QED
        BY <3>1, <4>1 DEF Passed, Arrived
    <3>4. ASSUME NEW r \in Runner, runner[r].at = "run", runner[r].block = b
          PROVE  Passed(b, l) <= Arrived(b, m)
      <4>1. UnderWay(kernel, runner[r], parts[b])
        BY <2>1, <3>4 DEF RoundsRight
      <4>2. PICK k \in Nat : InRound(kernel, runner[r], runner[r].lane, parts[b], k)
        BY <4>1 DEF UnderWay
      <4>3. /\ parts[b][l] = k \/ parts[b][l] = k + 1
            /\ parts[b][m] = k \/ parts[b][m] = k + 1
        BY <3>4, <4>2 DEF InRound
      <4>4. parts[b][l] <= n + 1 /\ parts[b][m] <= n + 1
        BY <3>1, <3>4, <4>1 DEF UnderWay, StatesRight, n
      <4> QED
        BY <3>1, <4>3, <4>4 DEF Passed, Arrived
    <3> QED
      BY <2>1, <3>1, <3>2, <3>3, <3>4
  <2>3. fault # "none" => \E b \in Block : parts[b][0] > 0 /\ ~InStep(b)
    BY <2>1 DEF FaultRight
  <2>4. ASSUME NEW b \in Block, b < counter, b \notin Running, NEW l \in Lanes(b)
        PROVE  parts[b][l] = Syncs(b, l) + 1
    <3>1. \A r \in Runner : runner[r].at = "run" => runner[r].block # b
      BY <2>4 DEF Running
    <3> QED
      BY <2>1, <2>4, <3>1 DEF EndedWhole, Syncs, SyncsOf
  <2> QED
    BY <2>2, <2>3, <2>4 DEF SyncIsABarrier
<1> QED
  BY <1>1, KernelConsistent, PTL

\* What a part of a kernel reads in the shared memory (the row that the part
\* before it wrote) is of its own block or of one that ran at the same time:
\* all blocks of a dispatch share one buffer.
THEOREM SharedIsOfTheBlocksAlongside == KernelSpec => SharedFromOverlapping
<1>1. ASSUME KernelInv, NEW r \in Runner, NEW l \in Lane, ResumeKernel(r, l), InStep(runner[r].block)
      PROVE  \A m \in Lanes(runner[r].block) :
                shared[m][parts[runner[r].block][l] - 1] \in {runner[r].block} \cup alongside[runner[r].block]
  <2> DEFINE b == runner[r].block
             p == parts[b]
  <2>1. LaneOf(r, l) /\ l \in Lanes(b)
    BY <1>1, LaneTakenUp DEF ResumeKernel, LaneOf, Lanes
  <2>2. /\ runner[r].at = "run" /\ b \in Block /\ p \in [Lane -> Nat] /\ kernel \in KernelShapes
        /\ StatesRight(kernel, runner[r], p) /\ runner[r].states[l] = "suspended"
    BY <1>1, <2>1 DEF LaneOf, UnderWay, ResumeKernel
  <2>3. PICK k \in Nat : InRound(kernel, runner[r], l, p, k)
    BY <2>1 DEF LaneOf, UnderWay
  <2>4. l \in Nat /\ MaxSyncs \in Nat /\ \A i \in Lanes(b) : i \in Lane /\ SyncsOf(kernel, b, i) \in 0 .. MaxSyncs
    BY <2>2, KernelFacts, KernelAssumption DEF Lane
  <2>5. p[l] = k /\ k >= 1 /\ k - 1 \in 0 .. MaxSyncs
    <3>1. ~(l < l)
      BY <2>4
    <3>2. p[l] = k
      BY <2>1, <2>3, <3>1 DEF InRound
    <3>3. k >= 1 /\ k <= SyncsOf(kernel, b, l)
      BY <2>1, <2>2, <3>2 DEF StatesRight
    <3> QED
      BY <2>1, <2>4, <3>2, <3>3
  <2>6. \A m \in Lanes(b) : k - 1 < p[m]
    BY <2>3, <2>5 DEF InRound
  <2>7. RowsRight(runner, parts, shared, alongside)
    BY <1>1 DEF KernelInv, BlocksRight
  <2>8. \A m \in Lanes(b) : shared[m][k - 1] \in {b} \cup alongside[b]
    BY <2>2, <2>4, <2>5, <2>6, <2>7 DEF RowsRight
  <2> QED
    BY <2>5, <2>8
<1> DEFINE Alike == \A r \in Runner, l \in Lane : ResumeKernel(r, l) =>
                   LET b == runner[r].block
                   IN InStep(b) => \A m \in Lanes(b) : shared[m][parts[b][l] - 1] \in {b} \cup alongside[b]
<1>2. KernelInv /\ [KernelNext]_kernelVars => [Alike]_kernelVars
  BY <1>1
<1> HIDE DEF Alike
<1>3. KernelSpec => [][Alike]_kernelVars
  BY KernelConsistent, <1>2, PTL DEF KernelSpec
<1> QED
  BY <1>3 DEF SharedFromOverlapping, Alike

-----------------------------------------------------------------------------
(***************************************************************************)
(* The streams and events of the Metal backend                             *)
(***************************************************************************)
\* An event is signalled by one stream.
OneMetalSignaller == \A s, t \in MetalQueue, v \in MetalEvent :
                  <<s, v>> \in Signallers /\ <<t, v>> \in Signallers => s = t

MetalPlace == [queue : MetalQueue, place : Nat]
PlainOps == {"list", "build", "function", "nothing"}
MetalBuffer ==
    [op : PlainOps] \cup [op : {"signal"}, event : MetalEvent, value : Nat]
      \cup [op : {"wait"}, event : MetalEvent, value : Nat, after : MetalPlace]

MetalTyped ==
    /\ committed \in [MetalQueue -> Seq(MetalBuffer)]
    /\ executed \in [MetalQueue -> Nat] /\ completed \in [MetalQueue -> Nat]
    /\ semaphore \in [MetalQueue -> Nat] /\ last \in [MetalQueue -> Nat]
    /\ eventCounter \in [MetalEvent -> Nat] /\ eventValue \in [MetalEvent -> Nat]
    /\ signalers \in [MetalEvent -> SUBSET MetalPlace]
    /\ lastSignal \in [MetalEvent -> MetalPlace]

\* The semaphore counts what is under way.
QueuesRight ==
    \A s \in MetalQueue :
      /\ completed[s] <= executed[s] /\ executed[s] <= Len(committed[s])
      /\ semaphore[s] + (Len(committed[s]) - completed[s]) = MaxCommandBuffers

\* _last is the last buffer, or there is nothing to wait for.
LastRight ==
    \A s \in MetalQueue :
      \/ last[s] = Len(committed[s])
      \/ /\ last[s] = 0
         /\ completed[s] = Len(committed[s]) \/ (caller.at = "synchronize" /\ caller.queue = s)

CallerRight ==
    \/ caller = Idle
    \/ /\ caller.at = "create" /\ caller.queue \in MetalQueue
       /\ caller.op \in {"list", "build", "function", "wait", "signal"}
       /\ caller.op \in {"wait", "signal"} => caller.event \in MetalEvent
       /\ caller.op = "signal" => <<caller.queue, caller.event>> \in Signallers
    \/ caller.at = "commit" /\ caller.queue \in MetalQueue /\ caller.buffer \in MetalBuffer
    \/ /\ caller.at = "compact" /\ caller.queue \in MetalQueue
       /\ caller.place = Len(committed[caller.queue])
    \/ /\ caller.at = "synchronize" /\ caller.queue \in MetalQueue /\ caller.place \in Nat
       /\ \/ caller.place = Len(committed[caller.queue])
          \/ caller.place = 0 /\ completed[caller.queue] = Len(committed[caller.queue])
    \/ caller.at = "event" /\ caller.event \in MetalEvent

\* The buffer at hand is to signal v.
Signalling(v) == caller.at = "commit" /\ caller.buffer.op = "signal" /\ caller.buffer.event = v

\* The signal of v with the number n is the buffer at place i of s.
MetalSignalAt(s, i, v, n) ==
    /\ i \in 1..Len(committed[s])
    /\ committed[s][i].op = "signal" /\ committed[s][i].event = v /\ committed[s][i].value = n

\* The signals of an event are numbered in the order of its stream's queue, and
\* the event has the number of the last one executed.
SignalsRight ==
    /\ \A s \in MetalQueue, i \in Nat, v \in MetalEvent, n \in Nat : MetalSignalAt(s, i, v, n) =>
         /\ <<s, v>> \in Signallers /\ n <= eventCounter[v]
         /\ Signalling(v) => n < eventCounter[v]
         /\ i <= executed[s] <=> n <= eventValue[v]
    /\ \A s \in MetalQueue, i, j \in Nat, v \in MetalEvent, m, n \in Nat :
         MetalSignalAt(s, i, v, m) /\ MetalSignalAt(s, j, v, n) /\ i < j => m < n
    /\ \A v \in MetalEvent : /\ eventValue[v] <= eventCounter[v]
                             /\ Signalling(v) => eventValue[v] < eventCounter[v]

\* lastSignal is where the last signal is, and _signalers has it until it has
\* completed.
LastSignalOf(v) ==
    /\ \A b \in signalers[v] : \/ b.place <= Len(committed[b.queue])
                               \/ Signalling(v) /\ b = lastSignal[v]
    /\ lastSignal[v] \in signalers[v] \/ HasCompleted(lastSignal[v])
    /\ Signalling(v) => /\ lastSignal[v].queue = caller.queue /\ <<caller.queue, v>> \in Signallers
                        /\ lastSignal[v].place = Len(committed[caller.queue]) + 1
                        /\ caller.buffer.value = eventCounter[v]
    /\ ~Signalling(v) /\ eventCounter[v] # 0 =>
         MetalSignalAt(lastSignal[v].queue, lastSignal[v].place, v, eventCounter[v])

LastSignalRight == \A v \in MetalEvent : LastSignalOf(v)

\* A wait is for the signal it names.
WaitRight(buffer) ==
    buffer.op = "wait" => MetalSignalAt(buffer.after.queue, buffer.after.place, buffer.event, buffer.value)

WaitsRight ==
    /\ \A s \in MetalQueue : \A i \in 1..Len(committed[s]) : WaitRight(committed[s][i])
    /\ caller.at = "commit" => WaitRight(caller.buffer)

MetalWorkRight ==
    /\ MetalTyped /\ QueuesRight /\ LastRight /\ CallerRight
    /\ SignalsRight /\ LastSignalRight /\ WaitsRight

LEMMA BufferFacts ==
  ASSUME NEW x \in MetalBuffer
  PROVE  /\ x.op \in PlainOps \cup {"signal", "wait"}
         /\ x.op = "signal" => x.event \in MetalEvent /\ x.value \in Nat
         /\ x.op = "wait" => /\ x.event \in MetalEvent /\ x.value \in Nat /\ x.after \in MetalPlace
                             /\ x.after.queue \in MetalQueue /\ x.after.place \in Nat
<1>1. CASE x \in [op : PlainOps]
  BY <1>1 DEF PlainOps
<1>2. CASE x \in [op : {"signal"}, event : MetalEvent, value : Nat]
  BY <1>2 DEF PlainOps
<1>3. CASE x \in [op : {"wait"}, event : MetalEvent, value : Nat, after : MetalPlace]
  BY <1>3 DEF PlainOps, MetalPlace
<1> QED
  BY <1>1, <1>2, <1>3 DEF MetalBuffer

LEMMA MadeBuffers ==
  /\ \A op \in PlainOps : [op |-> op] \in MetalBuffer
  /\ \A v \in MetalEvent, n \in Nat : [op |-> "signal", event |-> v, value |-> n] \in MetalBuffer
  /\ \A v \in MetalEvent, n \in Nat, p \in MetalPlace :
       [op |-> "wait", event |-> v, value |-> n, after |-> p] \in MetalBuffer
BY DEF MetalBuffer

\* What the variables hold, place by place.
LEMMA MetalFacts ==
  ASSUME MetalTyped
  PROVE  /\ \A s \in MetalQueue : /\ committed[s] \in Seq(MetalBuffer) /\ Len(committed[s]) \in Nat
                                  /\ executed[s] \in Nat /\ completed[s] \in Nat
                                  /\ semaphore[s] \in Nat /\ last[s] \in Nat
                                  /\ \A i \in 1..Len(committed[s]) : committed[s][i] \in MetalBuffer
         /\ \A v \in MetalEvent : /\ eventCounter[v] \in Nat /\ eventValue[v] \in Nat
                                  /\ signalers[v] \subseteq MetalPlace
                                  /\ lastSignal[v] \in MetalPlace
                                  /\ lastSignal[v].queue \in MetalQueue /\ lastSignal[v].place \in Nat
                                  /\ \A b \in signalers[v] : b.queue \in MetalQueue /\ b.place \in Nat
<1>1. \A p \in MetalPlace : p.queue \in MetalQueue /\ p.place \in Nat
  BY DEF MetalPlace
<1>2. \A s \in MetalQueue : committed[s] \in Seq(MetalBuffer)
  BY DEF MetalTyped
<1>3. ASSUME NEW s \in MetalQueue
      PROVE  /\ Len(committed[s]) \in Nat
             /\ \A i \in 1..Len(committed[s]) : committed[s][i] \in MetalBuffer
  <2>1. PICK c \in Seq(MetalBuffer) : c = committed[s]
    BY <1>2
  <2>2. Len(c) \in Nat /\ \A i \in 1..Len(c) : c[i] \in MetalBuffer
    OBVIOUS
  <2> QED
    BY <2>1, <2>2
<1>4. \A v \in MetalEvent : signalers[v] \subseteq MetalPlace /\ lastSignal[v] \in MetalPlace
  BY DEF MetalTyped
<1>5. /\ \A s \in MetalQueue : /\ executed[s] \in Nat /\ completed[s] \in Nat
                               /\ semaphore[s] \in Nat /\ last[s] \in Nat
      /\ \A v \in MetalEvent : eventCounter[v] \in Nat /\ eventValue[v] \in Nat
  BY DEF MetalTyped
<1> QED
  BY <1>1, <1>2, <1>3, <1>4, <1>5

\* A step that does nothing for the signals and the waits.
LEMMA QuietSignals ==
  ASSUME MetalTyped, SignalsRight, LastSignalRight, WaitsRight,
         UNCHANGED <<committed, executed, eventCounter, eventValue, lastSignal>>,
         caller' = caller \/ (caller.at # "commit" /\ caller'.at # "commit"),
         \A s \in MetalQueue : completed[s] <= completed'[s] /\ completed'[s] \in Nat,
         \A v \in MetalEvent : \/ signalers'[v] = signalers[v]
                               \/ signalers'[v] = {} /\ HasCompleted(lastSignal[v])
  PROVE  SignalsRight' /\ LastSignalRight' /\ WaitsRight'
<1>1. \A v : Signalling(v)' <=> Signalling(v)
  BY DEF Signalling
<1>2. \A s, i, v, n : MetalSignalAt(s, i, v, n)' <=> MetalSignalAt(s, i, v, n)
  BY DEF MetalSignalAt
<1>3. \A x : WaitRight(x)' <=> WaitRight(x)
  BY <1>2 DEF WaitRight
<1>4. SignalsRight'
  BY <1>1, <1>2 DEF SignalsRight
<1>5. WaitsRight'
  <2>1. ASSUME NEW s \in MetalQueue, NEW i \in 1..Len(committed[s])
        PROVE  WaitRight(committed[s][i])'
    <3>1. PICK x : x = committed[s][i] /\ x = committed'[s][i]
      OBVIOUS
    <3>2. WaitRight(x)'
      BY <1>3, <3>1 DEF WaitsRight
    <3> QED
      BY <3>1, <3>2 DEF WaitRight
  <2>2. ASSUME caller'.at = "commit"
        PROVE  WaitRight(caller.buffer)'
    <3>1. PICK x : x = caller.buffer /\ x = caller'.buffer
      BY <2>2
    <3>2. WaitRight(x)'
      BY <1>3, <2>2, <3>1 DEF WaitsRight
    <3> QED
      BY <3>1, <3>2 DEF WaitRight
  <2> QED
    BY <2>1, <2>2 DEF WaitsRight
<1>6. ASSUME NEW v \in MetalEvent
      PROVE  LastSignalOf(v)'
  <2>1. PICK l, n : l = lastSignal[v] /\ l = lastSignal'[v] /\ n = eventCounter[v] /\ n = eventCounter'[v]
    OBVIOUS
  <2>2. l.queue \in MetalQueue /\ l.place \in Nat /\ LastSignalOf(v)
    BY <2>1, MetalFacts DEF LastSignalRight
  <2>3. HasCompleted(l) => HasCompleted(l)'
    BY <2>2, MetalFacts DEF HasCompleted
  <2>4. (lastSignal[v] \in signalers[v] \/ HasCompleted(lastSignal[v]))'
    BY <2>1, <2>2, <2>3 DEF LastSignalOf, HasCompleted
  <2>5. (\A b \in signalers[v] : \/ b.place <= Len(committed[b.queue])
                                 \/ Signalling(v) /\ b = lastSignal[v])'
    BY <1>1, <2>2 DEF LastSignalOf
  <2>6. Signalling(v)' => caller' = caller
    BY DEF Signalling
  <2>7. (Signalling(v) => /\ lastSignal[v].queue = caller.queue /\ <<caller.queue, v>> \in Signallers
                          /\ lastSignal[v].place = Len(committed[caller.queue]) + 1
                          /\ caller.buffer.value = eventCounter[v])'
    BY <1>1, <2>1, <2>2, <2>6 DEF LastSignalOf
  <2>8. ASSUME ~Signalling(v)', n # 0
        PROVE  MetalSignalAt(l.queue, l.place, v, n)'
    BY <1>1, <1>2, <2>1, <2>2, <2>8 DEF LastSignalOf
  <2>9. (~Signalling(v) /\ eventCounter[v] # 0 =>
           MetalSignalAt(lastSignal[v].queue, lastSignal[v].place, v, eventCounter[v]))'
    BY <2>1, <2>8 DEF MetalSignalAt
  <2> QED
    BY <2>4, <2>5, <2>7, <2>9 DEF LastSignalOf
<1>7. LastSignalRight'
  BY <1>6 DEF LastSignalRight
<1> QED
  BY <1>4, <1>5, <1>7

\* What a call of the program that begins, or one that ends, leaves alone.
LEMMA CallsKeep ==
  ASSUME MetalWorkRight,
         UNCHANGED <<committed, executed, completed, semaphore, eventCounter, eventValue, lastSignal>>,
         caller.at # "commit", caller'.at # "commit",
         \A v \in MetalEvent : \/ signalers'[v] = signalers[v]
                               \/ signalers'[v] = {} /\ HasCompleted(lastSignal[v]),
         signalers' \in [MetalEvent -> SUBSET MetalPlace],
         last' \in [MetalQueue -> Nat], LastRight', CallerRight'
  PROVE  MetalWorkRight'
<1>1. MetalTyped /\ MetalTyped' /\ QueuesRight'
  BY DEF MetalWorkRight, MetalTyped, QueuesRight
<1>2. \A s \in MetalQueue : completed[s] <= completed'[s] /\ completed'[s] \in Nat
  BY <1>1, MetalFacts
<1>3. SignalsRight' /\ LastSignalRight' /\ WaitsRight'
  BY <1>1, <1>2, QuietSignals DEF MetalWorkRight
<1> QED
  BY <1>1, <1>3 DEF MetalWorkRight

LEMMA BeginKeeps ==
  ASSUME MetalWorkRight,
         \/ \E s \in MetalQueue : BeginDispatch(s) \/ BeginSynchronize(s)
         \/ \E v \in MetalEvent : BeginSynchronizeEvent(v)
  PROVE  MetalWorkRight'
<1>1. MetalTyped /\ QueuesRight /\ LastRight /\ CallerRight
  BY DEF MetalWorkRight
<1>2. ASSUME NEW s \in MetalQueue, BeginDispatch(s)
      PROVE  MetalWorkRight'
  <2>1. /\ caller = Idle
        /\ UNCHANGED <<committed, executed, completed, semaphore, last, eventCounter, signalers,
                       eventValue, lastSignal>>
    BY <1>2 DEF BeginDispatch, Made
  <2>2. /\ caller'.at = "create" /\ caller'.queue = s
        /\ caller'.op \in {"list", "build", "function", "wait", "signal"}
        /\ caller'.op \in {"wait", "signal"} => caller'.event \in MetalEvent
        /\ caller'.op = "signal" => <<caller'.queue, caller'.event>> \in Signallers
    <3>1. CASE \E op \in {"list", "build", "function"} :
                 Made([at |-> "create", queue |-> s, op |-> op])
      BY <3>1 DEF Made
    <3>2. CASE \E v \in MetalEvent : Made([at |-> "create", queue |-> s, op |-> "wait", event |-> v])
      BY <3>2 DEF Made
    <3>3. CASE \E v \in MetalEvent :
                 /\ <<s, v>> \in Signallers
                 /\ Made([at |-> "create", queue |-> s, op |-> "signal", event |-> v])
      BY <3>3 DEF Made
    <3> QED
      BY <1>2, <3>1, <3>2, <3>3 DEF BeginDispatch
  <2>3. CallerRight'
    BY <2>2 DEF CallerRight
  <2>4. LastRight'
    BY <1>1, <2>1, <2>2 DEF LastRight, Idle
  <2>5. last' \in [MetalQueue -> Nat] /\ signalers' \in [MetalEvent -> SUBSET MetalPlace]
    BY <1>1, <2>1 DEF MetalTyped
  <2> QED
    BY <2>1, <2>2, <2>3, <2>4, <2>5, CallsKeep DEF Idle
<1>3. ASSUME NEW s \in MetalQueue, BeginSynchronize(s)
      PROVE  MetalWorkRight'
  <2>1. /\ caller = Idle /\ caller' = [at |-> "synchronize", queue |-> s, place |-> last[s]]
        /\ last' = [last EXCEPT ![s] = 0]
        /\ UNCHANGED <<committed, executed, completed, semaphore, eventCounter, signalers,
                       eventValue, lastSignal>>
    BY <1>3 DEF BeginSynchronize, Made
  <2>2. last' \in [MetalQueue -> Nat] /\ last'[s] = 0 /\ \A t \in MetalQueue : t # s => last'[t] = last[t]
    BY <1>1, <2>1 DEF MetalTyped
  <2>3. last[s] = Len(committed[s]) \/ (last[s] = 0 /\ completed[s] = Len(committed[s]))
    BY <1>1, <2>1 DEF LastRight, Idle
  <2>4. caller'.at = "synchronize" /\ caller'.queue = s /\ caller'.place = last[s] /\ last[s] \in Nat
    BY <1>1, <2>1, MetalFacts
  <2>5. CallerRight'
    BY <2>1, <2>3, <2>4 DEF CallerRight
  <2>6. LastRight'
    BY <1>1, <2>1, <2>2, <2>4 DEF LastRight, Idle
  <2>7. signalers' \in [MetalEvent -> SUBSET MetalPlace]
    BY <1>1, <2>1 DEF MetalTyped
  <2> QED
    BY <2>1, <2>2, <2>4, <2>5, <2>6, <2>7, CallsKeep DEF Idle
<1>4. ASSUME NEW v \in MetalEvent, BeginSynchronizeEvent(v)
      PROVE  MetalWorkRight'
  <2>1. /\ caller = Idle /\ caller' = [at |-> "event", event |-> v]
        /\ UNCHANGED <<committed, executed, completed, semaphore, last, eventCounter, signalers,
                       eventValue, lastSignal>>
    BY <1>4 DEF BeginSynchronizeEvent, Made
  <2>2. caller'.at = "event" /\ caller'.event = v
    BY <2>1
  <2>3. CallerRight'
    BY <2>2 DEF CallerRight
  <2>4. LastRight'
    BY <1>1, <2>1, <2>2 DEF LastRight, Idle
  <2>5. last' \in [MetalQueue -> Nat] /\ signalers' \in [MetalEvent -> SUBSET MetalPlace]
    BY <1>1, <2>1 DEF MetalTyped
  <2> QED
    BY <2>1, <2>2, <2>3, <2>4, <2>5, CallsKeep DEF Idle
<1> QED
  BY <1>2, <1>3, <1>4

LEMMA EndKeeps ==
  ASSUME MetalWorkRight, Compacted \/ EndSynchronize \/ EndSynchronizeEvent
  PROVE  MetalWorkRight'
<1>1. MetalTyped /\ QueuesRight /\ LastRight /\ CallerRight /\ LastSignalRight
  BY DEF MetalWorkRight
<1>2. CASE Compacted
  <2>1. /\ caller.at = "compact"
        /\ caller' = [at |-> "create", queue |-> caller.queue, op |-> "list"]
        /\ UNCHANGED <<committed, executed, completed, semaphore, last, eventCounter, signalers,
                       eventValue, lastSignal>>
    BY <1>2 DEF Compacted
  <2>2. caller.queue \in MetalQueue
    BY <1>1, <2>1 DEF CallerRight, Idle
  <2>3. caller'.at = "create" /\ caller'.queue = caller.queue /\ caller'.op = "list"
    BY <2>1
  <2>4. CallerRight'
    BY <2>2, <2>3 DEF CallerRight
  <2>5. LastRight'
    BY <1>1, <2>1, <2>3 DEF LastRight
  <2>6. last' \in [MetalQueue -> Nat] /\ signalers' \in [MetalEvent -> SUBSET MetalPlace]
    BY <1>1, <2>1 DEF MetalTyped
  <2> QED
    BY <2>1, <2>3, <2>4, <2>5, <2>6, CallsKeep
<1>3. CASE EndSynchronize
  <2>1. /\ caller.at = "synchronize" /\ HasCompleted(caller) /\ caller' = Idle
        /\ UNCHANGED <<committed, executed, completed, semaphore, last, eventCounter, signalers,
                       eventValue, lastSignal>>
    BY <1>3 DEF EndSynchronize
  <2>2. PICK s \in MetalQueue :
          /\ s = caller.queue
          /\ \/ caller.place = Len(committed[s])
             \/ completed[s] = Len(committed[s])
    BY <1>1, <2>1 DEF CallerRight, Idle
  <2>3. completed[s] = Len(committed[s])
    <3>1. /\ completed[s] >= caller.place /\ completed[s] <= executed[s]
          /\ executed[s] <= Len(committed[s])
      BY <1>1, <2>1, <2>2 DEF HasCompleted, QueuesRight
    <3>2. completed[s] \in Nat /\ executed[s] \in Nat /\ Len(committed[s]) \in Nat
      BY <1>1, MetalFacts
    <3> QED
      BY <2>2, <3>1, <3>2
  <2>4. LastRight'
    BY <1>1, <2>1, <2>2, <2>3 DEF LastRight, Idle
  <2>5. last' \in [MetalQueue -> Nat] /\ signalers' \in [MetalEvent -> SUBSET MetalPlace]
    BY <1>1, <2>1 DEF MetalTyped
  <2>6. CallerRight' /\ caller'.at # "commit"
    BY <2>1 DEF CallerRight, Idle
  <2> QED
    BY <2>1, <2>4, <2>5, <2>6, CallsKeep
<1>4. CASE EndSynchronizeEvent
  <2>1. PICK v \in MetalEvent : v = caller.event
    BY <1>1, <1>4 DEF EndSynchronizeEvent, CallerRight, Idle
  <2>2. /\ caller.at = "event" /\ Signaled(v) /\ caller' = Idle
        /\ signalers' = [signalers EXCEPT ![v] = {}]
        /\ UNCHANGED <<committed, executed, completed, semaphore, last, eventCounter, eventValue,
                       lastSignal>>
    BY <1>4, <2>1 DEF EndSynchronizeEvent
  <2>3. LastSignalOf(v)
    BY <1>1 DEF LastSignalRight
  <2>4. HasCompleted(lastSignal[v])
    BY <2>2, <2>3 DEF LastSignalOf, Signaled
  <2>5. \A u \in MetalEvent : \/ signalers'[u] = signalers[u]
                              \/ signalers'[u] = {} /\ HasCompleted(lastSignal[u])
    BY <1>1, <2>2, <2>4 DEF MetalTyped
  <2>6. signalers' \in [MetalEvent -> SUBSET MetalPlace] /\ last' \in [MetalQueue -> Nat]
    BY <1>1, <2>2 DEF MetalTyped
  <2>7. LastRight'
    BY <1>1, <2>2 DEF LastRight, Idle
  <2>8. CallerRight' /\ caller'.at # "commit"
    BY <2>2 DEF CallerRight, Idle
  <2> QED
    BY <2>2, <2>5, <2>6, <2>7, <2>8, CallsKeep
<1> QED
  BY <1>2, <1>3, <1>4

\* The caller has a buffer to commit that signals nothing.
LEMMA EncodeOther ==
  ASSUME MetalWorkRight, caller.at = "create", NEW x \in MetalBuffer, x.op # "signal", WaitRight(x),
         caller' = [at |-> "commit", queue |-> caller.queue, buffer |-> x],
         UNCHANGED <<committed, executed, completed, semaphore, last, eventCounter, signalers,
                     eventValue, lastSignal>>
  PROVE  MetalWorkRight'
<1>1. MetalTyped /\ QueuesRight /\ LastRight /\ CallerRight /\ SignalsRight /\ LastSignalRight
      /\ WaitsRight /\ caller.queue \in MetalQueue
  BY DEF MetalWorkRight, CallerRight, Idle
<1>2. caller'.at = "commit" /\ caller'.queue = caller.queue /\ caller'.buffer = x
  OBVIOUS
<1>3. MetalTyped' /\ QueuesRight'
  BY <1>1 DEF MetalTyped, QueuesRight
<1>4. CallerRight'
  BY <1>1, <1>2 DEF CallerRight
<1>5. LastRight'
  BY <1>1, <1>2 DEF LastRight
<1>6. \A v : ~Signalling(v) /\ ~Signalling(v)'
  BY <1>2 DEF Signalling
<1>7. \A s, i, v, n : MetalSignalAt(s, i, v, n)' <=> MetalSignalAt(s, i, v, n)
  BY DEF MetalSignalAt
<1>8. SignalsRight'
  BY <1>1, <1>6, <1>7 DEF SignalsRight
<1>9. ASSUME NEW v \in MetalEvent
      PROVE  LastSignalOf(v)'
  <2>1. LastSignalOf(v)
    BY <1>1 DEF LastSignalRight
  <2> QED
    BY <1>6, <2>1 DEF LastSignalOf, MetalSignalAt, HasCompleted
<1>10. \A y : WaitRight(y)' <=> WaitRight(y)
  BY <1>7 DEF WaitRight
<1>11. WaitsRight'
  <2>1. ASSUME NEW s \in MetalQueue, NEW i \in 1..Len(committed[s])
        PROVE  WaitRight(committed[s][i])'
    <3>1. PICK y : y = committed[s][i] /\ y = committed'[s][i]
      OBVIOUS
    <3>2. WaitRight(y)'
      BY <1>1, <1>10, <3>1 DEF WaitsRight
    <3> QED
      BY <3>1, <3>2 DEF WaitRight
  <2>2. WaitRight(caller.buffer)'
    <3>1. WaitRight(x)'
      BY <1>10
    <3> QED
      BY <1>2, <3>1 DEF WaitRight
  <2> QED
    BY <2>1, <2>2 DEF WaitsRight
<1> QED
  BY <1>3, <1>4, <1>5, <1>8, <1>9, <1>11 DEF MetalWorkRight, LastSignalRight

LEMMA EncodeSignal ==
  ASSUME MetalWorkRight, caller.at = "create", caller.op = "signal",
         NEW q, q = caller.queue, NEW v, v = caller.event, NEW here,
         here = [queue |-> q, place |-> Len(committed[q]) + 1],
         eventCounter' = [eventCounter EXCEPT ![v] = @ + 1],
         signalers' = [signalers EXCEPT ![v] = {b \in @ : ~HasCompleted(b)} \cup {here}],
         lastSignal' = [lastSignal EXCEPT ![v] = here],
         caller' = [at |-> "commit", queue |-> q,
                    buffer |-> [op |-> "signal", event |-> v, value |-> eventCounter[v] + 1]],
         UNCHANGED <<committed, executed, completed, semaphore, last, eventValue>>
  PROVE  MetalWorkRight'
<1>1. MetalTyped /\ QueuesRight /\ LastRight /\ CallerRight /\ SignalsRight /\ LastSignalRight
      /\ WaitsRight
  BY DEF MetalWorkRight
<1>2. q \in MetalQueue /\ v \in MetalEvent /\ <<q, v>> \in Signallers
  BY <1>1 DEF CallerRight, Idle
<1>3. eventCounter[v] \in Nat /\ Len(committed[q]) \in Nat
  BY <1>1, <1>2, MetalFacts
<1>4. PICK n \in Nat : n = eventCounter[v] + 1
  BY <1>3
<1>5. PICK x : x = [op |-> "signal", event |-> v, value |-> n]
  OBVIOUS
<1>6. /\ x \in MetalBuffer /\ x.op = "signal" /\ x.event = v /\ x.value = n
      /\ caller'.at = "commit" /\ caller'.queue = q /\ caller'.buffer = x
  BY <1>2, <1>4, <1>5, MadeBuffers
<1>7. here \in MetalPlace /\ here.queue = q /\ here.place = Len(committed[q]) + 1
  BY <1>2, <1>3 DEF MetalPlace
<1>8. /\ eventCounter' \in [MetalEvent -> Nat] /\ eventCounter'[v] = n
      /\ \A u \in MetalEvent : u # v => eventCounter'[u] = eventCounter[u]
  BY <1>1, <1>2, <1>4 DEF MetalTyped
<1>9. /\ signalers' \in [MetalEvent -> SUBSET MetalPlace]
      /\ signalers'[v] = {b \in signalers[v] : ~HasCompleted(b)} \cup {here}
      /\ \A u \in MetalEvent : u # v => signalers'[u] = signalers[u]
  BY <1>1, <1>2, <1>7 DEF MetalTyped
<1>10. /\ lastSignal' \in [MetalEvent -> MetalPlace] /\ lastSignal'[v] = here
       /\ \A u \in MetalEvent : u # v => lastSignal'[u] = lastSignal[u]
  BY <1>1, <1>2, <1>7 DEF MetalTyped
<1>11. MetalTyped' /\ QueuesRight'
  BY <1>1, <1>8, <1>9, <1>10 DEF MetalTyped, QueuesRight
<1>12. CallerRight'
  BY <1>2, <1>6 DEF CallerRight
<1>13. LastRight'
  BY <1>1, <1>6 DEF LastRight
<1>14. \A u : ~Signalling(u) /\ (Signalling(u)' <=> u = v)
  BY <1>6 DEF Signalling
<1>15. \A s, i, u, m : MetalSignalAt(s, i, u, m)' <=> MetalSignalAt(s, i, u, m)
  BY DEF MetalSignalAt
<1>16. \A u \in MetalEvent : /\ eventCounter[u] \in Nat /\ eventValue[u] \in Nat
                             /\ eventCounter[u] <= eventCounter'[u]
                             /\ u = v => eventCounter[u] < eventCounter'[u]
  BY <1>1, <1>4, <1>8, MetalFacts
<1>17. SignalsRight'
  <2>1. ASSUME NEW s \in MetalQueue, NEW i \in Nat, NEW u \in MetalEvent, NEW m \in Nat,
               MetalSignalAt(s, i, u, m)'
        PROVE  /\ <<s, u>> \in Signallers /\ m <= eventCounter'[u]
               /\ Signalling(u)' => m < eventCounter'[u]
               /\ i <= executed'[s] <=> m <= eventValue'[u]
    <3>1. /\ <<s, u>> \in Signallers /\ m <= eventCounter[u]
          /\ i <= executed[s] <=> m <= eventValue[u]
      BY <1>1, <1>15, <2>1 DEF SignalsRight
    <3>2. eventCounter'[u] \in Nat
      BY <1>8
    <3> QED
      BY <1>14, <1>16, <3>1, <3>2
  <2>2. \A s \in MetalQueue, i, j \in Nat, u \in MetalEvent, k, m \in Nat :
          MetalSignalAt(s, i, u, k)' /\ MetalSignalAt(s, j, u, m)' /\ i < j => k < m
    BY <1>1, <1>15 DEF SignalsRight
  <2>3. ASSUME NEW u \in MetalEvent
        PROVE  eventValue'[u] <= eventCounter'[u] /\ (Signalling(u)' => eventValue'[u] < eventCounter'[u])
    <3>1. eventValue[u] <= eventCounter[u] /\ eventCounter'[u] \in Nat
      BY <1>1, <1>8 DEF SignalsRight
    <3> QED
      BY <1>14, <1>16, <3>1
  <2> QED
    BY <2>1, <2>2, <2>3 DEF SignalsRight
<1>18. ASSUME NEW u \in MetalEvent
       PROVE  LastSignalOf(u)'
  <2>1. LastSignalOf(u)
    BY <1>1 DEF LastSignalRight
  <2>2. CASE u # v
    BY <1>8, <1>9, <1>10, <1>14, <2>1, <2>2 DEF LastSignalOf, MetalSignalAt, HasCompleted
  <2>3. CASE u = v
    <3>1. \A b \in signalers[v] : b.place <= Len(committed[b.queue])
      BY <1>14, <2>1, <2>3 DEF LastSignalOf
    <3>2. (\A b \in signalers[v] : \/ b.place <= Len(committed[b.queue])
                                   \/ Signalling(v) /\ b = lastSignal[v])'
      BY <1>9, <1>10, <1>14, <3>1
    <3>3. (lastSignal[v] \in signalers[v])'
      BY <1>9, <1>10
    <3>4. (/\ lastSignal[v].queue = caller.queue /\ <<caller.queue, v>> \in Signallers
           /\ lastSignal[v].place = Len(committed[caller.queue]) + 1
           /\ caller.buffer.value = eventCounter[v])'
      BY <1>2, <1>6, <1>7, <1>8, <1>10
    <3> QED
      BY <1>14, <2>3, <3>2, <3>3, <3>4 DEF LastSignalOf
  <2> QED
    BY <2>2, <2>3
<1>19. WaitsRight'
  <2>1. ASSUME NEW s \in MetalQueue, NEW i \in 1..Len(committed[s])
        PROVE  WaitRight(committed[s][i])'
    <3>1. PICK y : y = committed[s][i] /\ y = committed'[s][i]
      OBVIOUS
    <3>2. WaitRight(y)'
      BY <1>1, <1>15, <3>1 DEF WaitsRight, WaitRight
    <3> QED
      BY <3>1, <3>2 DEF WaitRight
  <2>2. WaitRight(caller.buffer)'
    BY <1>6 DEF WaitRight
  <2> QED
    BY <2>1, <2>2 DEF WaitsRight
<1> QED
  BY <1>11, <1>12, <1>13, <1>17, <1>18, <1>19 DEF MetalWorkRight, LastSignalRight

LEMMA EncodeKeeps ==
  ASSUME MetalWorkRight, EncodeBuffer
  PROVE  MetalWorkRight'
<1>1. MetalTyped /\ LastSignalRight /\ CallerRight /\ caller.at = "create"
  BY DEF MetalWorkRight, EncodeBuffer
<1>2. UNCHANGED <<committed, executed, completed, semaphore, last, eventValue>>
  BY DEF EncodeBuffer
<1>3. PICK q, v, here : /\ q = caller.queue /\ v = caller.event
                        /\ here = [queue |-> q, place |-> Len(committed[q]) + 1]
  OBVIOUS
<1>4. /\ caller.op \in {"list", "build", "function", "wait", "signal"}
      /\ caller.op = "wait" => v \in MetalEvent
  BY <1>1, <1>3 DEF CallerRight, Idle
<1>5. CASE caller.op = "signal"
  <2>1. /\ eventCounter' = [eventCounter EXCEPT ![v] = @ + 1]
        /\ signalers' = [signalers EXCEPT ![v] = {b \in @ : ~HasCompleted(b)} \cup {here}]
        /\ lastSignal' = [lastSignal EXCEPT ![v] = here]
        /\ caller' = [at |-> "commit", queue |-> q,
                      buffer |-> [op |-> "signal", event |-> v, value |-> eventCounter[v] + 1]]
    BY <1>3, <1>5 DEF EncodeBuffer
  <2> QED
    BY <1>1, <1>2, <1>3, <1>5, <2>1, EncodeSignal
<1>6. CASE caller.op = "wait" /\ eventCounter[v] # 0
  <2>1. PICK x : x = [op |-> "wait", event |-> v, value |-> eventCounter[v], after |-> lastSignal[v]]
    OBVIOUS
  <2>2. /\ caller' = [at |-> "commit", queue |-> caller.queue, buffer |-> x]
        /\ UNCHANGED <<eventCounter, signalers, lastSignal>>
    BY <1>3, <1>6, <2>1 DEF EncodeBuffer, CounterNow
  <2>3. x \in MetalBuffer /\ x.op = "wait" /\ x.event = v /\ x.value = eventCounter[v]
        /\ x.after = lastSignal[v]
    <3>1. v \in MetalEvent /\ eventCounter[v] \in Nat /\ lastSignal[v] \in MetalPlace
      BY <1>1, <1>4, <1>6, MetalFacts
    <3> QED
      BY <2>1, <3>1, MadeBuffers
  <2>4. MetalSignalAt(lastSignal[v].queue, lastSignal[v].place, v, eventCounter[v])
    <3>1. LastSignalOf(v) /\ ~Signalling(v)
      BY <1>1, <1>4, <1>6 DEF LastSignalRight, Signalling
    <3> QED
      BY <1>6, <3>1 DEF LastSignalOf
  <2>5. WaitRight(x)
    BY <2>3, <2>4 DEF WaitRight
  <2>6. x.op # "signal"
    BY <2>3
  <2> QED
    BY <1>1, <1>2, <2>2, <2>3, <2>5, <2>6, EncodeOther
<1>7. CASE caller.op # "signal" /\ (caller.op = "wait" => eventCounter[v] = 0)
  <2>1. PICK op \in PlainOps : op = IF caller.op = "wait" THEN "nothing" ELSE caller.op
    BY <1>4, <1>7 DEF PlainOps
  <2>2. PICK x : x = [op |-> op]
    OBVIOUS
  <2>3. /\ caller' = [at |-> "commit", queue |-> caller.queue, buffer |-> x]
        /\ UNCHANGED <<eventCounter, signalers, lastSignal>>
    BY <1>3, <1>7, <2>1, <2>2 DEF EncodeBuffer
  <2>4. x \in MetalBuffer /\ x.op = op /\ x.op \notin {"signal", "wait"}
    BY <2>1, <2>2, MadeBuffers DEF PlainOps
  <2>5. WaitRight(x) /\ x.op # "signal"
    BY <2>4 DEF WaitRight
  <2> QED
    BY <1>1, <1>2, <2>3, <2>4, <2>5, EncodeOther
<1> QED
  BY <1>5, <1>6, <1>7

LEMMA CommitKeeps ==
  ASSUME MetalWorkRight, CommitBuffer
  PROVE  MetalWorkRight'
<1>1. MetalTyped /\ QueuesRight /\ LastRight /\ CallerRight /\ SignalsRight /\ LastSignalRight
      /\ WaitsRight
  BY DEF MetalWorkRight
<1>2. PICK s \in MetalQueue, x \in MetalBuffer : caller.at = "commit" /\ s = caller.queue /\ x = caller.buffer
  BY <1>1 DEF CommitBuffer, CallerRight, Idle
<1>3. PICK c \in Seq(MetalBuffer) : c = committed[s]
  BY <1>1 DEF MetalTyped
<1>4. PICK p \in Nat : p = Len(c) + 1
  OBVIOUS
<1>5. /\ semaphore[s] > 0 /\ semaphore' = [semaphore EXCEPT ![s] = @ - 1]
      /\ last' = [last EXCEPT ![s] = p]
      /\ committed' = [committed EXCEPT ![s] = Append(c, x)]
      /\ caller' = IF x.op = "build" THEN [at |-> "compact", queue |-> s, place |-> p] ELSE Idle
      /\ UNCHANGED <<executed, completed, eventCounter, signalers, eventValue, lastSignal>>
  BY <1>2, <1>3, <1>4 DEF CommitBuffer
<1>6. /\ Append(c, x) \in Seq(MetalBuffer) /\ Len(Append(c, x)) = p /\ Append(c, x)[p] = x
      /\ \A i \in 1..Len(c) : Append(c, x)[i] = c[i]
  BY <1>4
<1>7. /\ committed' \in [MetalQueue -> Seq(MetalBuffer)] /\ committed'[s] = Append(c, x)
      /\ \A t \in MetalQueue : t # s => committed'[t] = committed[t]
  BY <1>1, <1>5, <1>6 DEF MetalTyped
<1>8. /\ semaphore' \in [MetalQueue -> Nat] /\ semaphore'[s] = semaphore[s] - 1
      /\ \A t \in MetalQueue : t # s => semaphore'[t] = semaphore[t]
  <2>1. semaphore \in [MetalQueue -> Nat] /\ semaphore[s] - 1 \in Nat
    BY <1>1, <1>5 DEF MetalTyped
  <2> QED
    BY <1>5, <2>1
<1>9. /\ last' \in [MetalQueue -> Nat] /\ last'[s] = p
      /\ \A t \in MetalQueue : t # s => last'[t] = last[t]
  BY <1>1, <1>5 DEF MetalTyped
<1>10. MetalTyped'
  BY <1>1, <1>5, <1>7, <1>8, <1>9 DEF MetalTyped
<1>11. \A t \in MetalQueue : /\ Len(committed[t]) \in Nat /\ Len(committed'[t]) \in Nat
                             /\ Len(committed[t]) <= Len(committed'[t])
                             /\ executed[t] \in Nat /\ completed[t] \in Nat
                             /\ completed[t] <= executed[t] /\ executed[t] <= Len(committed[t])
                             /\ semaphore[t] + (Len(committed[t]) - completed[t]) = MaxCommandBuffers
  <2>1. ASSUME NEW t \in MetalQueue
        PROVE  /\ Len(committed[t]) \in Nat /\ Len(committed'[t]) \in Nat
               /\ Len(committed[t]) <= Len(committed'[t])
               /\ executed[t] \in Nat /\ completed[t] \in Nat
               /\ completed[t] <= executed[t] /\ executed[t] <= Len(committed[t])
               /\ semaphore[t] + (Len(committed[t]) - completed[t]) = MaxCommandBuffers
    <3>1. Len(committed[t]) \in Nat /\ executed[t] \in Nat /\ completed[t] \in Nat
      BY <1>1, MetalFacts
    <3>2. /\ completed[t] <= executed[t] /\ executed[t] <= Len(committed[t])
          /\ semaphore[t] + (Len(committed[t]) - completed[t]) = MaxCommandBuffers
      BY <1>1 DEF QueuesRight
    <3>3. PICK k \in Nat : k = Len(committed[t])
      BY <3>1
    <3>4. Len(committed'[t]) \in Nat /\ k <= Len(committed'[t])
      <4>1. CASE t = s
        <5>1. Len(committed'[t]) = p /\ k = Len(c)
          BY <1>3, <1>6, <1>7, <3>3, <4>1
        <5> QED
          BY <1>4, <3>3, <5>1
      <4>2. CASE t # s
        <5>1. Len(committed'[t]) = k
          BY <1>7, <3>3, <4>2
        <5> QED
          BY <3>3, <5>1
      <4> QED
        BY <4>1, <4>2
    <3> QED
      BY <3>1, <3>2, <3>3, <3>4
  <2> QED
    BY <2>1
<1>12. Len(committed'[s]) = p /\ Len(committed[s]) = p - 1 /\ semaphore[s] \in Nat
  BY <1>1, <1>3, <1>4, <1>6, <1>7, MetalFacts
<1>13. QueuesRight'
  <2>1. ASSUME NEW t \in MetalQueue
        PROVE  /\ completed[t] <= executed[t] /\ executed[t] <= Len(committed'[t])
               /\ semaphore'[t] + (Len(committed'[t]) - completed[t]) = MaxCommandBuffers
    <3>1. CASE t = s
      <4>1. PICK e \in Nat, d \in Nat, m \in Nat : e = executed[s] /\ d = completed[s] /\ m = semaphore[s]
        BY <1>11, <1>12
      <4>2. d <= e /\ e <= p - 1 /\ m + ((p - 1) - d) = MaxCommandBuffers
        BY <1>11, <1>12, <4>1
      <4>3. d <= e /\ e <= p /\ (m - 1) + (p - d) = MaxCommandBuffers
        BY <4>2
      <4> QED
        BY <1>8, <1>12, <3>1, <4>1, <4>3
    <3>2. CASE t # s
      BY <1>7, <1>8, <1>11, <3>2
    <3> QED
      BY <3>1, <3>2
  <2> QED
    BY <1>5, <2>1 DEF QueuesRight
<1>14. LastRight'
  <2>1. ASSUME NEW t \in MetalQueue
        PROVE  \/ last'[t] = Len(committed'[t])
               \/ last'[t] = 0 /\ completed'[t] = Len(committed'[t])
    BY <1>1, <1>2, <1>5, <1>7, <1>9, <1>12 DEF LastRight
  <2> QED
    BY <2>1 DEF LastRight
<1>15. CallerRight' /\ caller'.at # "commit"
  <2>1. CASE x.op = "build"
    <3>1. caller'.at = "compact" /\ caller'.queue = s /\ caller'.place = Len(committed'[s])
      BY <1>5, <1>12, <2>1
    <3> QED
      BY <3>1 DEF CallerRight
  <2>2. CASE x.op # "build"
    BY <1>5, <2>2 DEF CallerRight, Idle
  <2> QED
    BY <2>1, <2>2
<1>16. \A v : ~Signalling(v)' /\ (Signalling(v) <=> x.op = "signal" /\ x.event = v)
  BY <1>2, <1>15 DEF Signalling
<1>17. \A t \in MetalQueue, i \in Nat : \A v, n :
         MetalSignalAt(t, i, v, n)' <=> \/ MetalSignalAt(t, i, v, n)
                                        \/ /\ t = s /\ i = p
                                           /\ x.op = "signal" /\ x.event = v /\ x.value = n
  <2>1. ASSUME NEW t \in MetalQueue, NEW i \in Nat, NEW v, NEW n
        PROVE  MetalSignalAt(t, i, v, n)' <=> \/ MetalSignalAt(t, i, v, n)
                                              \/ /\ t = s /\ i = p
                                                 /\ x.op = "signal" /\ x.event = v /\ x.value = n
    <3>1. CASE t # s
      BY <1>7, <3>1 DEF MetalSignalAt
    <3>2. CASE t = s /\ i = p
      <4>1. committed'[t][i] = x /\ i \in 1..Len(committed'[t]) /\ i \notin 1..Len(committed[t])
        BY <1>4, <1>6, <1>7, <1>12, <3>2
      <4> QED
        BY <3>2, <4>1 DEF MetalSignalAt
    <3>3. CASE t = s /\ i # p
      <4>1. i \in 1..Len(committed'[t]) <=> i \in 1..Len(committed[t])
        BY <1>4, <1>12, <3>3
      <4>2. i \in 1..Len(committed[t]) => committed'[t][i] = committed[t][i]
        BY <1>3, <1>6, <1>7, <3>3
      <4> QED
        BY <3>3, <4>1, <4>2 DEF MetalSignalAt
    <3> QED
      BY <3>1, <3>2, <3>3
  <2> QED
    BY <2>1
<1>18. ASSUME NEW v \in MetalEvent, x.op = "signal", x.event = v
       PROVE  /\ lastSignal[v].queue = s /\ <<s, v>> \in Signallers /\ lastSignal[v].place = p
              /\ x.value = eventCounter[v] /\ eventValue[v] < eventCounter[v]
  <2>1. LastSignalOf(v) /\ Signalling(v)
    BY <1>1, <1>16, <1>18 DEF LastSignalRight
  <2>2. Len(committed[s]) + 1 = p
    BY <1>3, <1>4
  <2> QED
    BY <1>1, <1>2, <2>1, <2>2 DEF LastSignalOf, SignalsRight
<1>19. SignalsRight'
  <2>1. ASSUME NEW t \in MetalQueue, NEW i \in Nat, NEW v \in MetalEvent, NEW n \in Nat,
               MetalSignalAt(t, i, v, n)'
        PROVE  /\ <<t, v>> \in Signallers /\ n <= eventCounter[v]
               /\ i <= executed[t] <=> n <= eventValue[v]
    <3>1. CASE MetalSignalAt(t, i, v, n)
      BY <1>1, <3>1 DEF SignalsRight
    <3>2. CASE t = s /\ i = p /\ x.op = "signal" /\ x.event = v /\ x.value = n
      <4>1. <<t, v>> \in Signallers /\ n = eventCounter[v] /\ eventValue[v] < eventCounter[v]
        BY <1>18, <3>2
      <4>2. eventValue[v] \in Nat /\ executed[s] < p
        BY <1>1, <1>11, <1>12, MetalFacts
      <4>3. ~(n <= eventValue[v]) /\ ~(i <= executed[t])
        BY <1>11, <3>2, <4>1, <4>2
      <4> QED
        BY <4>1, <4>3
    <3> QED
      BY <1>17, <2>1, <3>1, <3>2
  <2>2. ASSUME NEW t \in MetalQueue, NEW i \in Nat, NEW j \in Nat, NEW v \in MetalEvent,
               NEW m \in Nat, NEW n \in Nat, MetalSignalAt(t, i, v, m)', MetalSignalAt(t, j, v, n)', i < j
        PROVE  m < n
    <3>1. \/ MetalSignalAt(t, i, v, m)
          \/ t = s /\ i = p
      BY <1>17, <2>2
    <3>2. \/ MetalSignalAt(t, j, v, n)
          \/ t = s /\ j = p /\ x.op = "signal" /\ x.event = v /\ x.value = n
      BY <1>17, <2>2
    <3>3. CASE MetalSignalAt(t, i, v, m) /\ MetalSignalAt(t, j, v, n)
      BY <1>1, <2>2, <3>3 DEF SignalsRight
    <3>4. CASE MetalSignalAt(t, i, v, m) /\ x.op = "signal" /\ x.event = v /\ x.value = n
      <4>1. Signalling(v)
        BY <1>16, <3>4
      <4>2. n = eventCounter[v]
        BY <1>18, <3>4
      <4>3. Signalling(v) => m < eventCounter[v]
        BY <1>1, <3>4 DEF SignalsRight
      <4> QED
        BY <4>1, <4>2, <4>3
    <3>5. CASE t = s /\ i = p
      <4>1. j \in 1..Len(committed'[s])
        BY <2>2, <3>5 DEF MetalSignalAt
      <4> QED
        BY <1>12, <2>2, <3>5, <4>1
    <3> QED
      BY <3>1, <3>2, <3>3, <3>4, <3>5
  <2>3. \A v \in MetalEvent : eventValue[v] <= eventCounter[v]
    BY <1>1 DEF SignalsRight
  <2> QED
    BY <1>5, <1>16, <2>1, <2>2, <2>3 DEF SignalsRight
<1>20. ASSUME NEW v \in MetalEvent
       PROVE  LastSignalOf(v)'
  <2>1. PICK l, n : l = lastSignal[v] /\ l = lastSignal'[v] /\ n = eventCounter[v] /\ n = eventCounter'[v]
    BY <1>5
  <2>2. l.queue \in MetalQueue /\ l.place \in Nat /\ LastSignalOf(v) /\ l \in MetalPlace
    BY <1>1, <2>1, MetalFacts DEF LastSignalRight
  <2>3. \A b \in signalers[v] : b.queue \in MetalQueue /\ b.place \in Nat
    BY <1>1, MetalFacts
  <2>4. ASSUME NEW b \in signalers[v]
        PROVE  b.place <= Len(committed'[b.queue])
    <3>1. \/ b.place <= Len(committed[b.queue])
          \/ Signalling(v) /\ b = l
      BY <2>1, <2>2 DEF LastSignalOf
    <3>2. CASE b.place <= Len(committed[b.queue])
      BY <1>11, <2>3, <3>2
    <3>3. CASE Signalling(v) /\ b = l
      <4>1. b.queue = s /\ b.place = p
        BY <1>16, <1>18, <2>1, <3>3
      <4> QED
        BY <1>12, <4>1
    <3> QED
      BY <3>1, <3>2, <3>3
  <2>5. lastSignal[v] \in signalers[v] \/ HasCompleted(lastSignal[v])
    BY <2>2 DEF LastSignalOf
  <2>6. (lastSignal[v] \in signalers[v] \/ HasCompleted(lastSignal[v]))'
    BY <1>5, <2>1, <2>5 DEF HasCompleted
  <2>7. ASSUME n # 0
        PROVE  MetalSignalAt(l.queue, l.place, v, n)'
    <3>1. CASE Signalling(v)
      BY <1>16, <1>17, <1>18, <2>1, <2>2, <3>1
    <3>2. CASE ~Signalling(v)
      <4>1. MetalSignalAt(l.queue, l.place, v, n)
        BY <2>1, <2>2, <2>7, <3>2 DEF LastSignalOf
      <4> QED
        BY <1>17, <2>2, <4>1
    <3> QED
      BY <3>1, <3>2
  <2>8. (~Signalling(v) /\ eventCounter[v] # 0 =>
           MetalSignalAt(lastSignal[v].queue, lastSignal[v].place, v, eventCounter[v]))'
    BY <2>1, <2>7 DEF MetalSignalAt
  <2> QED
    BY <1>5, <1>16, <2>4, <2>6, <2>8 DEF LastSignalOf
<1>21. ASSUME NEW y \in MetalBuffer, WaitRight(y)
       PROVE  WaitRight(y)'
  BY <1>17, <1>21, BufferFacts DEF WaitRight
<1>22. WaitsRight'
  <2>1. ASSUME NEW t \in MetalQueue, NEW i \in 1..Len(committed'[t])
        PROVE  WaitRight(committed[t][i])'
    <3>1. PICK y : y = committed'[t][i]
      OBVIOUS
    <3>2. y \in MetalBuffer /\ WaitRight(y)
      <4>1. CASE t # s
        BY <1>1, <1>7, <3>1, <4>1, MetalFacts DEF WaitsRight
      <4>2. CASE t = s /\ i = p
        BY <1>1, <1>2, <1>6, <1>7, <3>1, <4>2 DEF WaitsRight
      <4>3. CASE t = s /\ i # p
        <5>1. i \in 1..Len(committed[s]) /\ committed'[t][i] = committed[s][i]
          BY <1>3, <1>4, <1>6, <1>7, <1>12, <4>3
        <5> QED
          BY <1>1, <3>1, <5>1, MetalFacts DEF WaitsRight
      <4> QED
        BY <4>1, <4>2, <4>3
    <3>3. WaitRight(y)'
      BY <1>21, <3>2
    <3> QED
      BY <3>1, <3>3 DEF WaitRight
  <2> QED
    BY <1>15, <2>1 DEF WaitsRight
<1> QED
  BY <1>10, <1>13, <1>14, <1>15, <1>19, <1>20, <1>22 DEF MetalWorkRight, LastSignalRight

LEMMA ExecuteKeeps ==
  ASSUME OneMetalSignaller, MetalWorkRight, NEW s \in MetalQueue, ExecuteBuffer(s)
  PROVE  MetalWorkRight'
<1>1. MetalTyped /\ QueuesRight /\ LastRight /\ CallerRight /\ SignalsRight /\ LastSignalRight
      /\ WaitsRight
  BY DEF MetalWorkRight
<1>2. PICK e \in Nat, x \in MetalBuffer :
        /\ e = executed[s] + 1 /\ e \in 1..Len(committed[s]) /\ x = committed[s][e]
  <2>1. executed[s] \in Nat /\ Len(committed[s]) \in Nat /\ executed[s] < Len(committed[s])
    BY <1>1, MetalFacts DEF ExecuteBuffer, MayExecute
  <2>2. executed[s] + 1 \in 1..Len(committed[s])
    BY <2>1
  <2> QED
    BY <1>1, <2>1, <2>2, MetalFacts
<1>3. /\ executed' = [executed EXCEPT ![s] = e]
      /\ eventValue' = IF x.op = "signal" THEN [eventValue EXCEPT ![x.event] = x.value] ELSE eventValue
      /\ UNCHANGED <<caller, committed, completed, semaphore, last, eventCounter, signalers, lastSignal>>
  BY <1>2 DEF ExecuteBuffer
<1>4. /\ executed' \in [MetalQueue -> Nat] /\ executed'[s] = e
      /\ \A t \in MetalQueue : t # s => executed'[t] = executed[t]
  BY <1>1, <1>3 DEF MetalTyped
<1>5. x.op = "signal" => x.event \in MetalEvent /\ x.value \in Nat /\ MetalSignalAt(s, e, x.event, x.value)
  BY <1>2, BufferFacts DEF MetalSignalAt
<1>6. /\ eventValue' \in [MetalEvent -> Nat]
      /\ \A v \in MetalEvent : IF x.op = "signal" /\ x.event = v THEN eventValue'[v] = x.value
                               ELSE eventValue'[v] = eventValue[v]
  BY <1>1, <1>3, <1>5 DEF MetalTyped
<1>7. MetalTyped'
  BY <1>1, <1>3, <1>4, <1>6 DEF MetalTyped
<1>8. QueuesRight'
  <2>1. ASSUME NEW t \in MetalQueue
        PROVE  completed[t] <= executed'[t] /\ executed'[t] <= Len(committed[t])
    <3>1. completed[t] <= executed[t] /\ executed[t] <= Len(committed[t])
      BY <1>1 DEF QueuesRight
    <3>2. completed[t] \in Nat /\ executed[t] \in Nat /\ Len(committed[t]) \in Nat
      BY <1>1, MetalFacts
    <3> QED
      BY <1>2, <1>4, <3>1, <3>2
  <2> QED
    BY <1>1, <1>3, <2>1 DEF QueuesRight
<1>9. LastRight' /\ CallerRight'
  BY <1>1, <1>3 DEF LastRight, CallerRight
<1>10. \A t, i, v, n : MetalSignalAt(t, i, v, n)' <=> MetalSignalAt(t, i, v, n)
  BY <1>3 DEF MetalSignalAt
<1>11. \A v : Signalling(v)' <=> Signalling(v)
  BY <1>3 DEF Signalling
<1>12. \A t \in MetalQueue, i \in Nat, v \in MetalEvent, n \in Nat : MetalSignalAt(t, i, v, n) =>
         /\ <<t, v>> \in Signallers /\ n <= eventCounter[v]
         /\ Signalling(v) => n < eventCounter[v]
         /\ i <= executed[t] <=> n <= eventValue[v]
  BY <1>1 DEF SignalsRight
<1>13. \A t \in MetalQueue, i, j \in Nat, v \in MetalEvent, m, n \in Nat :
         MetalSignalAt(t, i, v, m) /\ MetalSignalAt(t, j, v, n) /\ i < j => m < n
  BY <1>1 DEF SignalsRight
<1>14. ASSUME NEW t \in MetalQueue, NEW i \in Nat, NEW v \in MetalEvent, NEW n \in Nat,
              MetalSignalAt(t, i, v, n)
       PROVE  i <= executed'[t] <=> n <= eventValue'[v]
  <2>1. CASE x.op = "signal" /\ x.event = v
    <3>1. PICK k \in Nat : k = x.value
      BY <1>5, <2>1
    <3>2. MetalSignalAt(s, e, v, k)
      BY <1>5, <2>1, <3>1
    <3>3. <<t, v>> \in Signallers /\ <<s, v>> \in Signallers
      BY <1>12, <1>14, <3>2
    <3>4. t = s
      BY <3>3 DEF OneMetalSignaller
    <3>5. i < e => n < k
      BY <1>13, <1>14, <3>2, <3>4
    <3>6. e < i => k < n
      BY <1>13, <1>14, <3>2, <3>4
    <3>7. i = e => n = k
      BY <1>14, <3>2, <3>4 DEF MetalSignalAt
    <3>8. i <= e <=> n <= k
      BY <3>5, <3>6, <3>7
    <3> QED
      BY <1>4, <1>6, <2>1, <3>1, <3>4, <3>8
  <2>2. CASE ~(x.op = "signal" /\ x.event = v)
    <3>1. i <= executed[t] <=> n <= eventValue[v]
      BY <1>12, <1>14
    <3>2. t = s => i # e
      BY <1>2, <1>14, <2>2 DEF MetalSignalAt
    <3>3. executed[t] \in Nat
      BY <1>1, MetalFacts
    <3>4. i <= executed'[t] <=> i <= executed[t]
      BY <1>2, <1>4, <3>2, <3>3
    <3> QED
      BY <1>6, <2>2, <3>1, <3>4
  <2> QED
    BY <2>1, <2>2
<1>15. ASSUME NEW v \in MetalEvent
       PROVE  eventValue'[v] <= eventCounter[v] /\ (Signalling(v) => eventValue'[v] < eventCounter[v])
  <2>1. CASE x.op = "signal" /\ x.event = v
    <3>1. PICK k \in Nat : k = x.value /\ MetalSignalAt(s, e, v, k)
      BY <1>5, <2>1
    <3>2. k <= eventCounter[v] /\ (Signalling(v) => k < eventCounter[v])
      BY <1>12, <3>1
    <3> QED
      BY <1>6, <2>1, <3>1, <3>2
  <2>2. CASE ~(x.op = "signal" /\ x.event = v)
    BY <1>1, <1>6, <2>2 DEF SignalsRight
  <2> QED
    BY <2>1, <2>2
<1>16. SignalsRight'
  BY <1>3, <1>10, <1>11, <1>12, <1>13, <1>14, <1>15 DEF SignalsRight
<1>17. LastSignalRight'
  BY <1>1, <1>3, <1>10, <1>11 DEF LastSignalRight, LastSignalOf, HasCompleted
<1>18. WaitsRight'
  BY <1>1, <1>3, <1>10 DEF WaitsRight, WaitRight
<1> QED
  BY <1>7, <1>8, <1>9, <1>16, <1>17, <1>18 DEF MetalWorkRight

LEMMA CompleteKeeps ==
  ASSUME MetalWorkRight, NEW s \in MetalQueue, CompleteBuffer(s)
  PROVE  MetalWorkRight'
<1>1. MetalTyped /\ QueuesRight /\ LastRight /\ CallerRight /\ SignalsRight /\ LastSignalRight
      /\ WaitsRight
  BY DEF MetalWorkRight
<1>2. \A t \in MetalQueue : /\ Len(committed[t]) \in Nat /\ executed[t] \in Nat
                            /\ completed[t] \in Nat /\ semaphore[t] \in Nat
                            /\ completed[t] <= executed[t] /\ executed[t] <= Len(committed[t])
                            /\ semaphore[t] + (Len(committed[t]) - completed[t]) = MaxCommandBuffers
  BY <1>1, MetalFacts DEF QueuesRight
<1>3. /\ completed[s] < executed[s]
      /\ completed' = [completed EXCEPT ![s] = completed[s] + 1]
      /\ semaphore' = [semaphore EXCEPT ![s] = semaphore[s] + 1]
      /\ UNCHANGED <<caller, committed, executed, last, eventCounter, signalers, eventValue, lastSignal>>
  BY DEF CompleteBuffer
<1>4. /\ completed' \in [MetalQueue -> Nat] /\ completed'[s] = completed[s] + 1
      /\ semaphore' \in [MetalQueue -> Nat] /\ semaphore'[s] = semaphore[s] + 1
      /\ \A t \in MetalQueue : t # s => completed'[t] = completed[t] /\ semaphore'[t] = semaphore[t]
  BY <1>1, <1>3 DEF MetalTyped
<1>5. MetalTyped'
  BY <1>1, <1>3, <1>4 DEF MetalTyped
<1>6. QueuesRight'
  <2>1. ASSUME NEW t \in MetalQueue
        PROVE  /\ completed'[t] <= executed[t]
               /\ semaphore'[t] + (Len(committed[t]) - completed'[t]) = MaxCommandBuffers
    <3>1. CASE t = s
      <4>1. PICK l \in Nat, d \in Nat, m \in Nat :
              l = Len(committed[s]) /\ d = completed[s] /\ m = semaphore[s]
        BY <1>2
      <4>2. m + (l - d) = MaxCommandBuffers
        BY <1>2, <4>1
      <4>3. (m + 1) + (l - (d + 1)) = MaxCommandBuffers
        BY <4>2
      <4>4. d + 1 <= executed[s]
        BY <1>2, <1>3, <4>1
      <4> QED
        BY <1>4, <3>1, <4>1, <4>3, <4>4
    <3>2. CASE t # s
      BY <1>2, <1>4, <3>2
    <3> QED
      BY <3>1, <3>2
  <2> QED
    BY <1>2, <1>3, <2>1 DEF QueuesRight
<1>7. completed[s] # Len(committed[s])
  BY <1>2, <1>3
<1>8. LastRight'
  BY <1>1, <1>3, <1>4, <1>7 DEF LastRight
<1>9. CallerRight'
  BY <1>1, <1>3, <1>4, <1>7 DEF CallerRight
<1>10. \A t \in MetalQueue : completed[t] <= completed'[t] /\ completed'[t] \in Nat
  BY <1>2, <1>4
<1>11. SignalsRight' /\ LastSignalRight' /\ WaitsRight'
  BY <1>1, <1>3, <1>10, QuietSignals
<1> QED
  BY <1>5, <1>6, <1>8, <1>9, <1>11 DEF MetalWorkRight

\* From the start, everything the invariant speaks of is empty.
LEMMA MetalStart ==
  ASSUME MetalInit
  PROVE  MetalWorkRight
<1>1. NoBuffer \in MetalPlace /\ NoBuffer.queue \in MetalQueue /\ NoBuffer.place = 0
  BY MetalAssumption DEF NoBuffer, MetalPlace
<1>2. \A s \in MetalQueue : /\ committed[s] = <<>> /\ Len(committed[s]) = 0 /\ executed[s] = 0
                            /\ completed[s] = 0 /\ semaphore[s] = MaxCommandBuffers /\ last[s] = 0
  BY DEF MetalInit
<1>3. \A v \in MetalEvent : /\ eventCounter[v] = 0 /\ eventValue[v] = 0 /\ signalers[v] = {}
                            /\ lastSignal[v] = NoBuffer
  BY DEF MetalInit
<1>4. caller.at = "idle" /\ caller = Idle
  BY DEF MetalInit, Idle
<1>5. MetalTyped
  <2>1. <<>> \in Seq(MetalBuffer) /\ MaxCommandBuffers \in Nat
    BY MetalAssumption
  <2> QED
    BY <1>1, <2>1 DEF MetalInit, MetalTyped
<1>6. QueuesRight /\ LastRight /\ CallerRight
  BY <1>2, <1>4, MetalAssumption DEF QueuesRight, LastRight, CallerRight
<1>7. \A s \in MetalQueue : \A i, v, n : ~MetalSignalAt(s, i, v, n)
  BY <1>2 DEF MetalSignalAt
<1>8. \A v : ~Signalling(v)
  BY <1>4 DEF Signalling
<1>9. SignalsRight
  BY <1>3, <1>7, <1>8 DEF SignalsRight
<1>10. LastSignalRight
  BY <1>1, <1>2, <1>3, <1>8 DEF LastSignalRight, LastSignalOf, HasCompleted
<1>11. WaitsRight
  BY <1>2, <1>4 DEF WaitsRight
<1> QED
  BY <1>5, <1>6, <1>9, <1>10, <1>11 DEF MetalWorkRight

LEMMA MetalStep ==
  ASSUME OneMetalSignaller, MetalWorkRight, [MetalNext]_metalVars
  PROVE  MetalWorkRight'
<1>1. CASE \/ \E s \in MetalQueue : BeginDispatch(s) \/ BeginSynchronize(s)
           \/ \E v \in MetalEvent : BeginSynchronizeEvent(v)
  BY <1>1, BeginKeeps
<1>2. CASE Compacted \/ EndSynchronize \/ EndSynchronizeEvent
  BY <1>2, EndKeeps
<1>3. CASE EncodeBuffer
  BY <1>3, EncodeKeeps
<1>4. CASE CommitBuffer
  BY <1>4, CommitKeeps
<1>5. ASSUME NEW s \in MetalQueue, ExecuteBuffer(s)
      PROVE  MetalWorkRight'
  BY <1>5, ExecuteKeeps
<1>6. ASSUME NEW s \in MetalQueue, CompleteBuffer(s)
      PROVE  MetalWorkRight'
  BY <1>6, CompleteKeeps
<1>7. CASE UNCHANGED metalVars
  <2>1. UNCHANGED <<caller, committed, executed, completed, semaphore, last, eventCounter, signalers,
                    eventValue, lastSignal>>
    BY <1>7 DEF metalVars
  <2>2. /\ MetalTyped' = MetalTyped /\ QueuesRight' = QueuesRight /\ LastRight' = LastRight
        /\ CallerRight' = CallerRight
    BY <2>1 DEF MetalTyped, QueuesRight, LastRight, CallerRight
  <2>3. MetalTyped /\ SignalsRight /\ LastSignalRight /\ WaitsRight
    BY DEF MetalWorkRight
  <2>4. \A s \in MetalQueue : completed[s] <= completed'[s] /\ completed'[s] \in Nat
    BY <2>1, <2>3, MetalFacts
  <2>5. SignalsRight' /\ LastSignalRight' /\ WaitsRight'
    BY <2>1, <2>3, <2>4, QuietSignals
  <2> QED
    BY <2>2, <2>5 DEF MetalWorkRight
<1> QED
  BY <1>1, <1>2, <1>3, <1>4, <1>5, <1>6, <1>7 DEF MetalNext

\* Under every order of the host's calls, the queues and the completion handlers,
\* the invariant holds.
THEOREM MetalConsistent ==
  ASSUME OneMetalSignaller
  PROVE  MetalSpec => []MetalWorkRight
<1>1. MetalInit => MetalWorkRight
  BY MetalStart
<1>2. MetalWorkRight /\ [MetalNext]_metalVars => MetalWorkRight'
  BY MetalStep
<1> QED
  BY <1>1, <1>2, PTL DEF MetalSpec

\* f numbers the committed buffers, below n, in the order the host committed them.
NumberedBy(f, n) ==
    \A s \in MetalQueue : \A i \in 1..Len(committed[s]) :
      /\ f[<<s, i>>] < n
      /\ \A j \in 1..Len(committed[s]) : i < j => f[<<s, i>>] < f[<<s, j>>]
      /\ committed[s][i].op = "wait" =>
           f[<<committed[s][i].after.queue, committed[s][i].after.place>>] < f[<<s, i>>]

CommitsNumbered == \E f \in [MetalQueue \X Nat -> Nat], n \in Nat : NumberedBy(f, n)

LEMMA CommitNumbers ==
  ASSUME MetalWorkRight, CommitsNumbered, CommitBuffer
  PROVE  CommitsNumbered'
<1>1. MetalTyped /\ QueuesRight /\ CallerRight /\ WaitsRight
  BY DEF MetalWorkRight
<1>2. PICK s \in MetalQueue, x \in MetalBuffer : caller.at = "commit" /\ s = caller.queue /\ x = caller.buffer
  BY <1>1 DEF CommitBuffer, CallerRight, Idle
<1>3. PICK c \in Seq(MetalBuffer) : c = committed[s]
  BY <1>1 DEF MetalTyped
<1>4. PICK p \in Nat : p = Len(c) + 1
  OBVIOUS
<1>5. committed' = [committed EXCEPT ![s] = Append(c, x)]
  BY <1>2, <1>3 DEF CommitBuffer
<1>6. /\ Append(c, x) \in Seq(MetalBuffer) /\ Len(Append(c, x)) = p /\ Append(c, x)[p] = x
      /\ \A i \in 1..Len(c) : Append(c, x)[i] = c[i]
  BY <1>4
<1>7. /\ committed'[s] = Append(c, x)
      /\ \A t \in MetalQueue : t # s => committed'[t] = committed[t]
  BY <1>1, <1>5 DEF MetalTyped
<1>8. PICK f \in [MetalQueue \X Nat -> Nat], n \in Nat : NumberedBy(f, n)
  BY DEF CommitsNumbered
<1> DEFINE g == [f EXCEPT ![<<s, p>>] = n]
<1>9. /\ g \in [MetalQueue \X Nat -> Nat] /\ g[<<s, p>>] = n
      /\ \A t \in MetalQueue, i \in Nat : <<t, i>> # <<s, p>> => g[<<t, i>>] = f[<<t, i>>]
      /\ \A t \in MetalQueue, i \in Nat : f[<<t, i>>] \in Nat /\ g[<<t, i>>] \in Nat
  <2>1. \A t \in MetalQueue, i \in Nat : <<t, i>> \in MetalQueue \X Nat
    OBVIOUS
  <2>2. <<s, p>> \in MetalQueue \X Nat
    BY <2>1
  <2> QED
    BY <2>1, <2>2
<1> HIDE DEF g
<1>10. \A t \in MetalQueue : \A i \in 1..Len(committed[t]) :
         /\ i \in Nat /\ <<t, i>> # <<s, p>> /\ g[<<t, i>>] = f[<<t, i>>] /\ g[<<t, i>>] < n
  <2>1. ASSUME NEW t \in MetalQueue, NEW i \in 1..Len(committed[t])
        PROVE  i \in Nat /\ <<t, i>> # <<s, p>>
    <3>1. i \in Nat /\ (t = s => i <= Len(c))
      BY <1>1, <1>3, MetalFacts
    <3> QED
      BY <1>4, <3>1
  <2> QED
    BY <1>8, <1>9, <2>1 DEF NumberedBy
<1>11. \A t \in MetalQueue, i \in Nat : i \in 1..Len(committed'[t]) =>
         \/ i \in 1..Len(committed[t]) /\ committed'[t][i] = committed[t][i]
         \/ t = s /\ i = p /\ committed'[t][i] = x
  <2>1. ASSUME NEW t \in MetalQueue, NEW i \in Nat, i \in 1..Len(committed'[t])
        PROVE  \/ i \in 1..Len(committed[t]) /\ committed'[t][i] = committed[t][i]
               \/ t = s /\ i = p /\ committed'[t][i] = x
    <3>1. CASE t # s
      BY <1>7, <2>1, <3>1
    <3>2. CASE t = s
      <4>1. i \in 1..p
        BY <1>6, <1>7, <2>1, <3>2
      <4>2. i = p \/ i \in 1..Len(c)
        BY <1>4, <4>1
      <4>3. CASE i = p
        BY <1>6, <1>7, <3>2, <4>3
      <4>4. CASE i \in 1..Len(c)
        <5>1. Append(c, x)[i] = c[i]
          BY <1>6, <4>4
        <5> QED
          BY <1>3, <1>7, <3>2, <4>4, <5>1
      <4> QED
        BY <4>2, <4>3, <4>4
    <3> QED
      BY <3>1, <3>2
  <2> QED
    BY <2>1
<1>12. \A y \in MetalBuffer : y.op = "wait" /\ WaitRight(y) =>
         /\ y.after.queue \in MetalQueue /\ y.after.place \in 1..Len(committed[y.after.queue])
  BY BufferFacts DEF WaitRight, MetalSignalAt
<1>13. ASSUME NEW t \in MetalQueue, NEW i \in 1..Len(committed'[t])
       PROVE  /\ g[<<t, i>>] < n + 1
              /\ \A j \in 1..Len(committed'[t]) : i < j => g[<<t, i>>] < g[<<t, j>>]
              /\ committed'[t][i].op = "wait" =>
                   g[<<committed'[t][i].after.queue, committed'[t][i].after.place>>] < g[<<t, i>>]
  <2>1. i \in Nat
    OBVIOUS
  <2>2. g[<<t, i>>] < n + 1
    <3>1. CASE i \in 1..Len(committed[t])
      <4>1. g[<<t, i>>] < n /\ g[<<t, i>>] \in Nat
        BY <1>9, <1>10, <2>1, <3>1
      <4> QED
        BY <4>1
    <3>2. CASE t = s /\ i = p
      BY <1>9, <3>2
    <3> QED
      BY <1>11, <2>1, <3>1, <3>2
  <2>3. ASSUME NEW j \in 1..Len(committed'[t]), i < j
        PROVE  g[<<t, i>>] < g[<<t, j>>]
    <3>1. j \in Nat
      OBVIOUS
    <3>2. CASE j \in 1..Len(committed[t])
      <4>1. i \in 1..Len(committed[t])
        <5>1. Len(committed[t]) \in Nat
          BY <1>1, MetalFacts
        <5> QED
          BY <2>1, <2>3, <3>2, <5>1
      <4>2. f[<<t, i>>] < f[<<t, j>>]
        BY <1>8, <2>3, <3>2, <4>1 DEF NumberedBy
      <4> QED
        BY <1>10, <3>2, <4>1, <4>2
    <3>3. CASE t = s /\ j = p
      <4>1. i \in 1..Len(committed[t])
        <5>1. CASE i \in 1..Len(committed[t])
          BY <5>1
        <5>2. CASE i = p
          BY <1>4, <2>3, <3>3, <5>2
        <5> QED
          BY <1>11, <2>1, <5>1, <5>2
      <4> QED
        BY <1>9, <1>10, <3>3, <4>1
    <3> QED
      BY <1>11, <3>1, <3>2, <3>3
  <2>4. ASSUME committed'[t][i].op = "wait"
        PROVE  g[<<committed'[t][i].after.queue, committed'[t][i].after.place>>] < g[<<t, i>>]
    <3>1. CASE i \in 1..Len(committed[t]) /\ committed'[t][i] = committed[t][i]
      <4>1. PICK y : y = committed[t][i]
        OBVIOUS
      <4>2. y \in MetalBuffer /\ WaitRight(y) /\ y.op = "wait"
        BY <1>1, <2>4, <3>1, <4>1, MetalFacts DEF WaitsRight
      <4>3. /\ y.after.queue \in MetalQueue /\ y.after.place \in 1..Len(committed[y.after.queue])
        BY <1>12, <4>2
      <4>4. f[<<y.after.queue, y.after.place>>] < f[<<t, i>>]
        BY <1>8, <3>1, <4>1, <4>2 DEF NumberedBy
      <4>5. g[<<y.after.queue, y.after.place>>] < g[<<t, i>>]
        BY <1>10, <3>1, <4>3, <4>4
      <4> QED
        BY <3>1, <4>1, <4>5
    <3>2. CASE t = s /\ i = p /\ committed'[t][i] = x
      <4>1. x.op = "wait" /\ WaitRight(x)
        BY <1>1, <1>2, <2>4, <3>2 DEF WaitsRight
      <4>2. x.after.queue \in MetalQueue /\ x.after.place \in 1..Len(committed[x.after.queue])
        BY <1>12, <4>1
      <4>3. g[<<x.after.queue, x.after.place>>] < n
        BY <1>10, <4>2
      <4> QED
        BY <1>9, <3>2, <4>3
    <3> QED
      BY <1>11, <2>1, <3>1, <3>2
  <2> QED
    BY <2>2, <2>3, <2>4
<1>14. PICK m \in Nat : m = n + 1
  OBVIOUS
<1>15. PICK h \in [MetalQueue \X Nat -> Nat] : h = g
  BY <1>9
<1>16. NumberedBy(h, m)'
  BY <1>13, <1>14, <1>15 DEF NumberedBy
<1> QED
  BY <1>14, <1>16 DEF CommitsNumbered

LEMMA NumbersKept ==
  ASSUME MetalWorkRight, CommitsNumbered, [MetalNext]_metalVars
  PROVE  CommitsNumbered'
<1>1. CASE CommitBuffer
  BY <1>1, CommitNumbers
<1>2. CASE ~CommitBuffer
  <2>1. UNCHANGED committed
    BY <1>2 DEF MetalNext, metalVars, BeginDispatch, BeginSynchronize, BeginSynchronizeEvent, EncodeBuffer,
                Compacted, EndSynchronize, EndSynchronizeEvent, ExecuteBuffer, CompleteBuffer
  <2> QED
    BY <2>1, Zenon DEF CommitsNumbered, NumberedBy
<1> QED
  BY <1>1, <1>2

\* A stuck stream would wait for one that is stuck before it.
LEMMA SomethingToDo ==
  ASSUME MetalWorkRight, CommitsNumbered, \A s \in MetalQueue : ~MayExecute(s)
  PROVE  \A s \in MetalQueue : executed[s] = Len(committed[s])
<1>1. MetalTyped /\ QueuesRight /\ SignalsRight /\ WaitsRight
  BY DEF MetalWorkRight
<1>2. \A s \in MetalQueue : /\ executed[s] \in Nat /\ Len(committed[s]) \in Nat
                            /\ executed[s] <= Len(committed[s])
  BY <1>1, MetalFacts DEF QueuesRight
<1>3. PICK f \in [MetalQueue \X Nat -> Nat], n \in Nat : NumberedBy(f, n)
  BY DEF CommitsNumbered
<1>4. \A s \in MetalQueue, i \in Nat : f[<<s, i>>] \in Nat
  <2>1. \A s \in MetalQueue, i \in Nat : <<s, i>> \in MetalQueue \X Nat
    OBVIOUS
  <2> QED
    BY <1>3, <2>1
<1> DEFINE Stuck == {s \in MetalQueue : executed[s] < Len(committed[s])}
           Heads == {f[<<s, executed[s] + 1>>] : s \in Stuck}
<1>5. SUFFICES ASSUME Stuck # {}
               PROVE  FALSE
  <2>1. ASSUME NEW s \in MetalQueue, s \notin Stuck
        PROVE  executed[s] = Len(committed[s])
    <3>1. ~(executed[s] < Len(committed[s]))
      BY <2>1
    <3> QED
      BY <1>2, <3>1
  <2> QED
    BY <2>1
<1>6. Heads \in SUBSET Nat /\ Heads # {}
  <2>1. ASSUME NEW s \in Stuck
        PROVE  f[<<s, executed[s] + 1>>] \in Nat
    <3>1. PICK k \in Nat : k = executed[s] + 1
      BY <1>2
    <3> QED
      BY <1>4, <3>1
  <2> QED
    BY <1>5, <2>1
<1>7. PICK m \in Heads : \A k \in Heads : ~(<<k, m>> \in OpToRel(<, Nat))
  BY <1>6, NatLessThanWellFounded, WFMin
<1>8. PICK s \in Stuck : m = f[<<s, executed[s] + 1>>]
  OBVIOUS
<1>9. \A t \in Stuck : ~(f[<<t, executed[t] + 1>>] < m)
  BY <1>6, <1>7 DEF OpToRel
<1>10. PICK e \in Nat : e = executed[s] + 1
  BY <1>2
<1>11. s \in MetalQueue /\ e \in 1..Len(committed[s])
  BY <1>2, <1>10
<1>12. PICK x \in MetalBuffer : x = committed[s][e]
  BY <1>1, <1>11, MetalFacts
<1>13. x.op = "wait" /\ ~(eventValue[x.event] >= x.value)
  <2>1. executed[s] < Len(committed[s]) /\ ~MayExecute(s)
    OBVIOUS
  <2> QED
    BY <1>10, <1>12, <2>1 DEF MayExecute
<1>14. WaitRight(x)
  BY <1>1, <1>11, <1>12 DEF WaitsRight
<1>15. PICK t \in MetalQueue, i \in Nat, v \in MetalEvent, k \in Nat :
         t = x.after.queue /\ i = x.after.place /\ v = x.event /\ k = x.value
  BY <1>13, BufferFacts
<1>16. MetalSignalAt(t, i, v, k) /\ i \in 1..Len(committed[t])
  BY <1>13, <1>14, <1>15 DEF WaitRight, MetalSignalAt
<1>17. ~(i <= executed[t])
  <2>1. eventValue[v] \in Nat /\ ~(k <= eventValue[v])
    BY <1>1, <1>13, <1>15, MetalFacts
  <2> QED
    BY <1>1, <1>16, <2>1 DEF SignalsRight
<1>18. t \in Stuck
  BY <1>2, <1>16, <1>17
<1>19. PICK d \in Nat : d = executed[t] + 1
  BY <1>2
<1>20. d \in 1..Len(committed[t]) /\ d <= i
  BY <1>2, <1>16, <1>17, <1>19
<1>21. f[<<t, d>>] <= f[<<t, i>>]
  <2>1. CASE d = i
    BY <1>4, <2>1
  <2>2. CASE d < i
    <3>1. f[<<t, d>>] < f[<<t, i>>]
      BY <1>3, <1>16, <1>20, <2>2 DEF NumberedBy
    <3> QED
      BY <1>4, <3>1
  <2> QED
    BY <1>20, <2>1, <2>2
<1>22. f[<<t, i>>] < f[<<s, e>>]
  BY <1>3, <1>11, <1>12, <1>13, <1>15 DEF NumberedBy
<1>23. f[<<t, d>>] < f[<<s, e>>]
  BY <1>4, <1>21, <1>22
<1> QED
  BY <1>8, <1>9, <1>10, <1>18, <1>19, <1>23

LEMMA HostGoesOn ==
  ASSUME MetalWorkRight, CommitsNumbered
  PROVE  MetalNeverStuck
<1>1. MetalTyped /\ QueuesRight /\ CallerRight /\ LastSignalRight
  BY DEF MetalWorkRight
<1>2. SUFFICES ASSUME caller # Idle,
                      \A s \in MetalQueue : ~MayExecute(s) /\ ~(completed[s] < executed[s])
               PROVE  HostCanGoOn
  BY DEF MetalNeverStuck
<1>3. ASSUME NEW s \in MetalQueue
      PROVE  /\ Len(committed[s]) \in Nat /\ executed[s] = Len(committed[s])
             /\ completed[s] = Len(committed[s]) /\ semaphore[s] = MaxCommandBuffers
  <2>1. Len(committed[s]) \in Nat /\ executed[s] = Len(committed[s])
    BY <1>1, <1>2, SomethingToDo, MetalFacts
  <2>2. completed[s] \in Nat /\ completed[s] <= executed[s] /\ ~(completed[s] < executed[s])
        /\ semaphore[s] + (Len(committed[s]) - completed[s]) = MaxCommandBuffers /\ semaphore[s] \in Nat
    BY <1>1, <1>2, MetalFacts DEF QueuesRight
  <2>3. completed[s] = Len(committed[s])
    BY <2>1, <2>2
  <2> QED
    BY <2>1, <2>2, <2>3
<1>4. CASE caller.at = "create" /\ caller.queue \in MetalQueue
  <2>1. QueueHasRoom(caller.queue)
    BY <1>3, <1>4, MetalAssumption DEF QueueHasRoom
  <2> QED
    BY <1>4, <2>1 DEF HostCanGoOn
<1>5. CASE caller.at = "commit" /\ caller.queue \in MetalQueue
  <2>1. semaphore[caller.queue] > 0
    BY <1>3, <1>5, MetalAssumption
  <2> QED
    BY <1>5, <2>1 DEF HostCanGoOn
<1>6. CASE /\ caller.at \in {"compact", "synchronize"} /\ caller.queue \in MetalQueue
           /\ caller.place = Len(committed[caller.queue]) \/ caller.place = 0
  <2>1. HasCompleted(caller)
    BY <1>3, <1>6 DEF HasCompleted
  <2> QED
    BY <1>6, <2>1 DEF HostCanGoOn
<1>7. CASE caller.at = "event" /\ caller.event \in MetalEvent
  <2>1. PICK v \in MetalEvent : v = caller.event
    BY <1>7
  <2>2. LastSignalOf(v) /\ ~Signalling(v)
    BY <1>1, <1>7 DEF LastSignalRight, Signalling
  <2>3. \A b \in signalers[v] : HasCompleted(b)
    BY <1>1, <1>3, <2>2, MetalFacts DEF LastSignalOf, HasCompleted
  <2> QED
    BY <1>7, <2>1, <2>3 DEF HostCanGoOn, Signaled
<1> QED
  BY <1>1, <1>2, <1>4, <1>5, <1>6, <1>7 DEF CallerRight

\* The host is never stuck in a call: with full queues, with the semaphore at
\* zero or in the middle of a list, for any streams, events and bounds.
THEOREM MetalGoesOn ==
  ASSUME OneMetalSignaller
  PROVE  MetalSpec => []MetalNeverStuck
<1>1. MetalInit => CommitsNumbered
  <2> SUFFICES ASSUME MetalInit
               PROVE  CommitsNumbered
    OBVIOUS
  <2>1. PICK f : f = [p \in MetalQueue \X Nat |-> 0]
    OBVIOUS
  <2>2. f \in [MetalQueue \X Nat -> Nat] /\ 0 \in Nat
    BY <2>1
  <2>3. \A s \in MetalQueue : \A i \in 1..Len(committed[s]) : FALSE
    <3>1. \A s \in MetalQueue : Len(committed[s]) = 0
      BY DEF MetalInit
    <3>2. \A i \in 1..0 : FALSE
      OBVIOUS
    <3> QED
      BY <3>1, <3>2
  <2>4. NumberedBy(f, 0)
    BY <2>3 DEF NumberedBy
  <2> QED
    BY <2>2, <2>4 DEF CommitsNumbered
<1>2. MetalWorkRight /\ CommitsNumbered /\ [MetalNext]_metalVars => CommitsNumbered'
  BY NumbersKept
<1>3. MetalWorkRight /\ CommitsNumbered => MetalNeverStuck
  BY HostGoesOn
<1> QED
  BY <1>1, <1>2, <1>3, MetalConsistent, PTL DEF MetalSpec

LEMMA MetalReturns ==
  ASSUME MetalWorkRight, EndSynchronize
  PROVE  completed[caller.queue] = Len(committed[caller.queue])
<1>1. MetalTyped /\ QueuesRight /\ CallerRight
  BY DEF MetalWorkRight
<1>2. PICK s \in MetalQueue : s = caller.queue
  BY <1>1 DEF EndSynchronize, CallerRight, Idle
<1>3. /\ completed[s] \in Nat /\ executed[s] \in Nat /\ Len(committed[s]) \in Nat
      /\ completed[s] <= executed[s] /\ executed[s] <= Len(committed[s])
  BY <1>1, MetalFacts DEF QueuesRight
<1>4. completed[s] >= caller.place
  BY <1>2 DEF EndSynchronize, HasCompleted
<1>5. caller.place = Len(committed[s]) \/ completed[s] = Len(committed[s])
  BY <1>1, <1>2 DEF EndSynchronize, CallerRight, Idle
<1> QED
  BY <1>2, <1>3, <1>4, <1>5

LEMMA MetalEventReturns ==
  ASSUME MetalWorkRight, EndSynchronizeEvent
  PROVE  HasCompleted(lastSignal[caller.event])
<1>1. CallerRight /\ LastSignalRight
  BY DEF MetalWorkRight
<1>2. PICK v \in MetalEvent : v = caller.event /\ Signaled(v)
  BY <1>1 DEF EndSynchronizeEvent, CallerRight, Idle
<1>3. LastSignalOf(v)
  BY <1>1 DEF LastSignalRight
<1> QED
  BY <1>2, <1>3 DEF LastSignalOf, Signaled

LEMMA MetalWaits ==
  ASSUME MetalWorkRight, NEW s \in MetalQueue, ExecuteBuffer(s), NEW x, x = committed[s][executed[s] + 1],
         x.op = "wait"
  PROVE  executed[x.after.queue] >= x.after.place
<1>1. MetalTyped /\ SignalsRight /\ WaitsRight
  BY DEF MetalWorkRight
<1>2. executed[s] + 1 \in 1..Len(committed[s]) /\ eventValue[x.event] >= x.value
  <2>1. /\ executed[s] < Len(committed[s]) /\ eventValue[x.event] >= x.value
        /\ executed[s] \in Nat /\ Len(committed[s]) \in Nat
    BY <1>1, MetalFacts DEF ExecuteBuffer, MayExecute
  <2> QED
    BY <2>1
<1>3. x \in MetalBuffer /\ WaitRight(x)
  BY <1>1, <1>2, MetalFacts DEF WaitsRight
<1>4. PICK t \in MetalQueue, i \in Nat, v \in MetalEvent, k \in Nat :
        t = x.after.queue /\ i = x.after.place /\ v = x.event /\ k = x.value
  BY <1>3, BufferFacts
<1>5. MetalSignalAt(t, i, v, k)
  BY <1>3, <1>4 DEF WaitRight
<1>6. eventValue[v] \in Nat /\ executed[t] \in Nat /\ k <= eventValue[v]
  BY <1>1, <1>2, <1>4, MetalFacts
<1>7. i <= executed[t]
  BY <1>1, <1>5, <1>6 DEF SignalsRight
<1> QED
  BY <1>4, <1>6, <1>7

\* When synchronize() of a stream or an event returns, the handlers of what it
\* waits for have run, and what follows a wait executes after the signal it names.
THEOREM MetalWorkOrdered ==
  ASSUME OneMetalSignaller
  PROVE  MetalSpec => MetalOrdersWork
<1>1. MetalWorkRight /\ EndSynchronize => completed[caller.queue] = Len(committed[caller.queue])
  BY MetalReturns
<1>2. MetalWorkRight /\ EndSynchronizeEvent => HasCompleted(lastSignal[caller.event])
  BY MetalEventReturns
<1>3. MetalWorkRight =>
        \A s \in MetalQueue :
          LET buffer == committed[s][executed[s] + 1]
          IN ExecuteBuffer(s) /\ buffer.op = "wait"
               => executed[buffer.after.queue] >= buffer.after.place
  BY MetalWaits
<1> QED
  BY <1>1, <1>2, <1>3, MetalConsistent, PTL DEF MetalOrdersWork

LEMMA MetalTypes == MetalWorkRight => MetalTypeOK
<1> SUFFICES ASSUME MetalWorkRight
             PROVE  MetalTypeOK
  OBVIOUS
<1>1. MetalTyped /\ QueuesRight /\ LastRight /\ CallerRight /\ SignalsRight
  BY DEF MetalWorkRight
<1>2. caller.at \in {"idle", "create", "commit", "compact", "synchronize", "event"}
  BY <1>1 DEF CallerRight, Idle
<1>3. ASSUME NEW s \in MetalQueue
      PROVE  /\ semaphore[s] \in 0..MaxCommandBuffers /\ last[s] \in 0..Len(committed[s])
             /\ executed[s] \in 0..Len(committed[s]) /\ completed[s] \in 0..executed[s]
  <2>1. /\ executed[s] \in Nat /\ completed[s] \in Nat /\ semaphore[s] \in Nat
        /\ last[s] \in Nat /\ Len(committed[s]) \in Nat
    BY <1>1, MetalFacts
  <2>2. /\ completed[s] <= executed[s] /\ executed[s] <= Len(committed[s])
        /\ semaphore[s] + (Len(committed[s]) - completed[s]) = MaxCommandBuffers
    BY <1>1 DEF QueuesRight
  <2>3. PICK l \in Nat, e \in Nat, d \in Nat, m \in Nat :
          l = Len(committed[s]) /\ e = executed[s] /\ d = completed[s] /\ m = semaphore[s]
    BY <2>1
  <2>4. m <= MaxCommandBuffers
    BY <2>2, <2>3, MetalAssumption
  <2>5. last[s] = Len(committed[s]) \/ last[s] = 0
    BY <1>1 DEF LastRight
  <2> QED
    BY <2>1, <2>2, <2>3, <2>4, <2>5, MetalAssumption
<1>4. \A v \in MetalEvent : eventValue[v] \in 0..eventCounter[v]
  BY <1>1, MetalFacts DEF SignalsRight
<1> QED
  BY <1>2, <1>3, <1>4 DEF MetalTypeOK

\* The variables keep their types; the semaphore, _last and the event stay in
\* their ranges.
THEOREM MetalTypeCorrect ==
  ASSUME OneMetalSignaller
  PROVE  MetalSpec => []MetalTypeOK
BY MetalTypes, MetalConsistent, PTL

-----------------------------------------------------------------------------
(***************************************************************************)
(* The parts that one run checks side by side (MCHostSide): each step is   *)
(* one of the part that was chosen, so the invariants of the parts give    *)
(* an invariant of the whole.                                              *)
(***************************************************************************)
PartsInv ==
    /\ part \in Parts
    /\ part = "reorder"  => ReorderInv
    /\ part = "bindless" => TrackInv
    /\ part = "array"    => ShowInv /\ ArrayMade
    /\ part = "pool"     => PoolInv
    /\ part = "accel"    => AccelInv
    /\ part = "queue"    => TypeInv /\ QueueInv
    /\ part = "tracker"  => TrackerInv
    /\ part = "metal"    => MetalWorkRight
    /\ part = "kernel"   => KernelInv /\ DrawsCounted

LEMMA OnlyOf == ASSUME NEW p, Only(p) PROVE part = p /\ part' = p
BY DEF Only

\* What a step of each part is.
LEMMA ReorderMoves == ReorderSteps => part = "reorder" /\ part' = "reorder" /\ Next
BY OnlyOf DEF ReorderSteps, Next

LEMMA BindlessMoves == BindlessSteps => part = "bindless" /\ part' = "bindless" /\ BindlessNext
BY OnlyOf DEF BindlessSteps, BindlessNext

LEMMA ArrayMoves == ArraySteps => part = "array" /\ part' = "array" /\ BindlessDeviceNext
BY OnlyOf DEF ArraySteps, BindlessDeviceNext

LEMMA PoolMoves == PoolSteps => part = "pool" /\ part' = "pool" /\ PoolNext
BY OnlyOf DEF PoolSteps, PoolNext

LEMMA AccelMoves == AccelSteps => part = "accel" /\ part' = "accel" /\ AccelNext
BY OnlyOf DEF AccelSteps, AccelNext

LEMMA QueueMoves == QueueHostSteps \/ QueueThreadSteps => part = "queue" /\ part' = "queue" /\ QueueNext
BY OnlyOf DEF QueueHostSteps, QueueThreadSteps, QueueNext, HostCall, HostStep, ThreadStep

LEMMA TrackerMoves == TrackerSteps => part = "tracker" /\ part' = "tracker" /\ TrackerNext
BY OnlyOf DEF TrackerSteps, TrackerNext

LEMMA MetalMoves == MetalSteps => part = "metal" /\ part' = "metal" /\ MetalNext
BY OnlyOf DEF MetalSteps, MetalNext

LEMMA KernelMoves == KernelSteps => part = "kernel" /\ part' = "kernel" /\ KernelNext
BY OnlyOf DEF KernelSteps, KernelNext

LEMMA OthersMove ==
  UsageSteps \/ FrontSteps => part \in {"usage", "front"} /\ part' = part
BY OnlyOf DEF UsageSteps, FrontSteps

LEMMA PartsStart == HostSideInit => PartsInv
<1> SUFFICES ASSUME HostSideInit PROVE PartsInv
  OBVIOUS
<1>1. /\ part \in Parts /\ Init /\ BindlessInit /\ BindlessDeviceInit /\ PoolInit /\ AccelInit /\ QueueInit
      /\ TrackerInit /\ MetalInit /\ KernelInit
  BY DEF HostSideInit
<1>2. ReorderInv
  BY <1>1, ReorderStart
<1>3. TrackInv
  BY <1>1, InitIInv
<1>4. ShowInv /\ ArrayMade
  BY <1>1, InitHolds, ArrayMadeInit
<1>5. PoolInv
  BY <1>1, InitPoolInv
<1>6. AccelInv
  BY <1>1, AccelStart
<1>7. TypeInv /\ QueueInv
  BY <1>1, QueueStart
<1>8. TrackerInv
  BY <1>1, TrackerInvInit
<1>9. MetalWorkRight
  BY <1>1, MetalStart
<1>10. KernelInv /\ DrawsCounted
  BY <1>1, InitKernelInv, DrawsCountedInit
<1> QED
  BY <1>1, <1>2, <1>3, <1>4, <1>5, <1>6, <1>7, <1>8, <1>9, <1>10 DEF PartsInv

LEMMA PartsStep ==
  ASSUME OneMetalSignaller, PartsInv,
         [HostSideNext]_<<part, vars, bindlessVars, arrayVars, poolVars, accelVars,
                          queueVars, trackerVars, metalVars, kernelVars, usageVars, frontEndVars>>
  PROVE  PartsInv'
<1> DEFINE Rest == UNCHANGED <<part, vars, bindlessVars, arrayVars, poolVars, accelVars,
                               queueVars, trackerVars, metalVars, kernelVars, usageVars, frontEndVars>>
<1>1. CASE Rest
  <2>1. part = "reorder" => ReorderInv'
    BY <1>1, ReorderStep DEF PartsInv
  <2>2. part = "bindless" => TrackInv'
    BY <1>1, TrackStep DEF PartsInv
  <2>3. part = "array" => (ShowInv /\ ArrayMade)'
    BY <1>1, ShowStep, ArrayMadeStep DEF PartsInv
  <2>4. part = "pool" => PoolInv'
    BY <1>1, PoolNextKeeps DEF PartsInv
  <2>5. part = "accel" => AccelInv'
    BY <1>1, AccelStep DEF PartsInv
  <2>6. part = "queue" => (TypeInv /\ QueueInv)'
    BY <1>1, QueueStep DEF PartsInv
  <2>7. part = "tracker" => TrackerInv'
    BY <1>1, TrackerInvNext DEF PartsInv
  <2>8. part = "metal" => MetalWorkRight'
    BY <1>1, MetalStep DEF PartsInv
  <2>9. part = "kernel" => (KernelInv /\ DrawsCounted)'
    BY <1>1, KernelStep, DrawsCountedStep DEF PartsInv
  <2>10. part' = part
    BY <1>1
  <2> QED
    BY <2>1, <2>2, <2>3, <2>4, <2>5, <2>6, <2>7, <2>8, <2>9, <2>10 DEF PartsInv
<1>2. CASE ReorderSteps
  <2>1. part = "reorder" /\ part' = "reorder" /\ Next
    BY <1>2, ReorderMoves
  <2>2. ReorderInv'
    BY <2>1, ReorderStep DEF PartsInv
  <2> QED
    BY <2>1, <2>2 DEF PartsInv, Parts
<1>3. CASE BindlessSteps
  <2>1. part = "bindless" /\ part' = "bindless" /\ BindlessNext
    BY <1>3, BindlessMoves
  <2>2. TrackInv'
    BY <2>1, TrackStep DEF PartsInv
  <2> QED
    BY <2>1, <2>2 DEF PartsInv, Parts
<1>4. CASE ArraySteps
  <2>1. part = "array" /\ part' = "array" /\ BindlessDeviceNext
    BY <1>4, ArrayMoves
  <2>2. (ShowInv /\ ArrayMade)'
    BY <2>1, ShowStep, ArrayMadeStep DEF PartsInv
  <2> QED
    BY <2>1, <2>2 DEF PartsInv, Parts
<1>5. CASE PoolSteps
  <2>1. part = "pool" /\ part' = "pool" /\ PoolNext
    BY <1>5, PoolMoves
  <2>2. PoolInv'
    BY <2>1, PoolNextKeeps DEF PartsInv
  <2> QED
    BY <2>1, <2>2 DEF PartsInv, Parts
<1>6. CASE AccelSteps
  <2>1. part = "accel" /\ part' = "accel" /\ AccelNext
    BY <1>6, AccelMoves
  <2>2. AccelInv'
    BY <2>1, AccelStep DEF PartsInv
  <2> QED
    BY <2>1, <2>2 DEF PartsInv, Parts
<1>7. CASE QueueHostSteps \/ QueueThreadSteps
  <2>1. part = "queue" /\ part' = "queue" /\ QueueNext
    BY <1>7, QueueMoves
  <2>2. (TypeInv /\ QueueInv)'
    BY <2>1, QueueStep DEF PartsInv
  <2> QED
    BY <2>1, <2>2 DEF PartsInv, Parts
<1>8. CASE TrackerSteps
  <2>1. part = "tracker" /\ part' = "tracker" /\ TrackerNext
    BY <1>8, TrackerMoves
  <2>2. TrackerInv'
    BY <2>1, TrackerInvNext DEF PartsInv
  <2> QED
    BY <2>1, <2>2 DEF PartsInv, Parts
<1>9. CASE MetalSteps
  <2>1. part = "metal" /\ part' = "metal" /\ MetalNext
    BY <1>9, MetalMoves
  <2>2. MetalWorkRight'
    BY <2>1, MetalStep DEF PartsInv
  <2> QED
    BY <2>1, <2>2 DEF PartsInv, Parts
<1>10. CASE KernelSteps
  <2>1. part = "kernel" /\ part' = "kernel" /\ KernelNext
    BY <1>10, KernelMoves
  <2>2. (KernelInv /\ DrawsCounted)'
    BY <2>1, KernelStep, DrawsCountedStep DEF PartsInv
  <2> QED
    BY <2>1, <2>2 DEF PartsInv, Parts
<1>11. CASE UsageSteps \/ FrontSteps
  <2>1. part \in {"usage", "front"} /\ part' = part
    BY <1>11, OthersMove
  <2> QED
    BY <2>1 DEF PartsInv, Parts
<1> QED
  BY <1>1, <1>2, <1>3, <1>4, <1>5, <1>6, <1>7, <1>8, <1>9, <1>10, <1>11 DEF HostSideNext

LEMMA PartsTyped == PartsInv => PartsTypeOK
<1> SUFFICES ASSUME PartsInv PROVE PartsTypeOK
  OBVIOUS
<1>1. CASE part = "reorder"
  <2>1. TypeOK
    BY <1>1, ReorderTypes DEF PartsInv
  <2> QED
    BY <1>1, <2>1 DEF PartsTypeOK
<1>2. CASE part = "bindless"
  <2>1. BindlessTypeOK
    BY <1>2, TrackTypes DEF PartsInv
  <2> QED
    BY <1>2, <2>1 DEF PartsTypeOK
<1>3. CASE part = "array"
  <2>1. BindlessDeviceTypeOK
    BY <1>3, ArrayTypes DEF PartsInv
  <2> QED
    BY <1>3, <2>1 DEF PartsTypeOK
<1>4. CASE part = "pool"
  <2>1. PoolTypeOK
    BY <1>4, PoolTypes DEF PartsInv
  <2> QED
    BY <1>4, <2>1 DEF PartsTypeOK
<1>5. CASE part = "accel"
  <2>1. AccelTypeOK
    BY <1>5, AccelTypes DEF PartsInv
  <2> QED
    BY <1>5, <2>1 DEF PartsTypeOK
<1>6. CASE part = "queue"
  <2>1. QueueTypeOK
    BY <1>6, QueueTyped DEF PartsInv
  <2> QED
    BY <1>6, <2>1 DEF PartsTypeOK
<1>7. CASE part = "tracker"
  <2>1. TrackerTypeOK
    BY <1>7, TrackerTypes DEF PartsInv
  <2> QED
    BY <1>7, <2>1 DEF PartsTypeOK
<1>8. CASE part = "metal"
  <2>1. MetalTypeOK
    BY <1>8, MetalTypes DEF PartsInv
  <2> QED
    BY <1>8, <2>1 DEF PartsTypeOK
<1>9. CASE part = "kernel"
  <2>1. KernelTypeOK
    BY <1>9, KernelTypes DEF PartsInv
  <2> QED
    BY <1>9, <2>1 DEF PartsTypeOK
<1>10. CASE part \in {"usage", "front"}
  BY <1>10 DEF PartsTypeOK
<1> QED
  BY <1>1, <1>2, <1>3, <1>4, <1>5, <1>6, <1>7, <1>8, <1>9, <1>10 DEF PartsInv, Parts

\* Every part keeps its types and stays in its ranges: the marks of the visitor,
\* the counts of a bindless array and what its places show, the nodes of a pool,
\* the instances of an accel, the frames, callbacks and events of DirectX, the
\* states of its tracker, the semaphores and events of Metal, and the counter of
\* a dispatch on the CPU.
THEOREM PartsTypeCorrect ==
  ASSUME OneMetalSignaller
  PROVE  HostSideSpec => []PartsTypeOK
BY PartsStart, PartsStep, PartsTyped, PTL DEF HostSideSpec

=============================================================================
