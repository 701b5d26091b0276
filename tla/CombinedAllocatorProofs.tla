----------------------- MODULE CombinedAllocatorProofs ------------------------
(*****************************************************************************)
(* EachChunkOnce and ReleaseIsExact of the primary allocator for any number  *)
(* of threads, any size of chunk, page, region and free array, and any size  *)
(* of the caches; ArrayIsExact and LookupsAgree of the secondary allocator   *)
(* for any number of threads and blocks, any address space, sizes and        *)
(* alignments.                                                               *)
(*****************************************************************************)
EXTENDS CombinedAllocator, FiniteSetTheorems, TLAPS

-------------------------------------------------------------------------------
(* The primary allocator.  The inductive invariant: EachChunkOnce said chunk *)
(* by chunk, with types.                                                     *)

PTypeOK ==
  /\ class_size \in ClassSizes
  /\ free_array \in SUBSET Nat
  /\ n_allocated \in Nat
  /\ mapped_user \in Nat
  /\ mapped_free_array \in Nat
  /\ cache \in [Threads -> SUBSET Nat]
  /\ used \in SUBSET Nat

Placed ==
  /\ \A c \in Nat : c < n_allocated <=>
       c \in free_array \/ c \in used \/ \E t \in Threads : c \in cache[t]
  /\ \A c \in free_array : c \notin used
  /\ \A t \in Threads : \A c \in cache[t] : c \notin free_array /\ c \notin used
  /\ \A t, u \in Threads : t # u => \A c \in cache[t] : c \notin cache[u]

UserFits ==
  /\ n_allocated * class_size <= mapped_user
  /\ mapped_user <= kUserSpace[class_size]

ArrayFits == Cardinality(free_array) <= mapped_free_array

PInv == PTypeOK /\ Placed /\ UserFits /\ ArrayFits

-------------------------------------------------------------------------------
(* Arithmetic *)

\* Division rounds down.
LEMMA Division ==
  ASSUME NEW a \in Nat, NEW b \in Nat \ {0}
  PROVE  /\ a \div b \in Nat
         /\ (a \div b) * b <= a
         /\ a < (a \div b) * b + b
BY Z3

\* RoundUpTo does not round down.
LEMMA RoundsUp ==
  ASSUME NEW x \in Nat, NEW b \in Nat \ {0}
  PROVE  RoundUpTo(x, b) \in Nat /\ x <= RoundUpTo(x, b)
<1>1. x + b - 1 \in Nat
  OBVIOUS
<1> DEFINE q == (x + b - 1) \div b
<1>2. q \in Nat /\ x + b - 1 < q * b + b
  BY <1>1, Division
<1>3. q * b \in Nat
  BY <1>2
<1>4. RoundUpTo(x, b) = q * b
  BY DEF RoundUpTo
<1> HIDE DEF q
<1> QED
  BY <1>2, <1>3, <1>4

\* The new chunks fit in the mapped part.
LEMMA NewChunksFit ==
  ASSUME NEW n \in Nat, NEW size \in Nat \ {0}, NEW m \in Nat, n * size <= m
  PROVE  /\ (m - n * size) \div size \in Nat
         /\ (n + (m - n * size) \div size) * size <= m
<1>1. n * size \in Nat /\ m - n * size \in Nat
  OBVIOUS
<1> DEFINE q == (m - n * size) \div size
<1>2. q \in Nat /\ q * size <= m - n * size
  BY <1>1, Division
<1> HIDE DEF q
<1>3. (n + q) * size = n * size + q * size
  BY <1>2
<1>4. q * size \in Nat
  BY <1>2
<1>5. (n + q) * size <= m
  BY <1>1, <1>2, <1>3, <1>4
<1> QED
  BY <1>2, <1>5 DEF q

\* Every nonempty set of natural numbers has a least one.
LEMMA Least ==
  ASSUME NEW T \in SUBSET Nat, T # {}
  PROVE  \E x \in T : \A y \in T : x <= y
<1>1. PICK R : R = OpToRel(<, Nat)
  BY Zenon
<1>2. IsWellFoundedOn(R, Nat)
  BY <1>1, NatLessThanWellFounded, Zenon
<1>3. \A x, y \in Nat : x < y => <<x, y>> \in R
  BY <1>1 DEF OpToRel
<1>4. PICK x \in T : \A y \in T : ~(<<y, x>> \in R)
  BY <1>2, WFMin, Zenon
<1>5. ASSUME NEW y \in T PROVE x <= y
  <2>1. ~(y < x)
    BY <1>3, <1>4, Zenon
  <2> QED
    BY <2>1
<1> QED
  BY <1>5

\* Induction over the natural numbers.
LEMMA Induct ==
  ASSUME NEW S, 0 \in S, \A n \in Nat : n \in S => n + 1 \in S
  PROVE  Nat \subseteq S
<1> SUFFICES ASSUME Nat \ S # {} PROVE FALSE
  OBVIOUS
<1>1. PICK x \in Nat \ S : \A y \in Nat \ S : x <= y
  BY Least, Zenon
<1>2. x # 0 /\ x - 1 \in Nat /\ x - 1 \in S
  BY <1>1
<1>3. x - 1 + 1 \in S
  BY <1>2
<1> QED
  BY <1>1, <1>3

-------------------------------------------------------------------------------
(* ReleaseFreeMemoryToOS, for every ratio of chunk and page size.            *)

\* Products keep the order.
LEMMA Scale ==
  ASSUME NEW a \in Int, NEW b \in Int, NEW d \in Nat \ {0}
  PROVE  /\ a <= b => a * d <= b * d
         /\ a < b => a * d + d <= b * d
         /\ a * d \in Int
         /\ (a + b) * d = a * d + b * d
         /\ (a + 1) * d = a * d + d
BY Z3

\* What a quotient is compared with, its dividend is compared with multiplied.
LEMMA DivBelow ==
  ASSUME NEW x \in Nat, NEW d \in Nat \ {0}, NEW k \in Nat
  PROVE  /\ x \div d <= k <=> x < (k + 1) * d
         /\ k <= x \div d <=> k * d <= x
<1>1. PICK q \in Nat : q = x \div d
  BY Division
<1>2. q * d <= x /\ x < q * d + d
  BY <1>1, Division
<1>3. q <= k => q * d <= k * d
  BY Scale
<1>4. k < q => k * d + d <= q * d
  BY Scale
<1>5. k <= q => k * d <= q * d
  BY Scale
<1>6. q < k => q * d + d <= k * d
  BY Scale
<1>7. (k + 1) * d = k * d + d /\ k * d \in Int /\ q * d \in Int
  BY Scale
<1> QED
  BY <1>1, <1>2, <1>3, <1>4, <1>5, <1>6, <1>7

\* The first and the last chunk on page p.
FirstOn(p) == (p * kPageSize) \div class_size
LastOn(p) == ((p + 1) * kPageSize - 1) \div class_size

\* A quotient is what its dividend lies between.
LEMMA Quotient ==
  ASSUME NEW x \in Nat, NEW d \in Nat \ {0}, NEW k \in Nat,
         k * d <= x, x < (k + 1) * d
  PROVE  x \div d = k
<1>1. x \div d \in Nat
  BY Division
<1>2. x \div d <= k /\ k <= x \div d
  BY DivBelow
<1> QED
  BY <1>1, <1>2

\* The pages begin and end at natural numbers.
LEMMA PageEnds ==
  ASSUME NEW p \in Nat
  PROVE  /\ kPageSize \in Nat \ {0}
         /\ p * kPageSize \in Nat
         /\ (p + 1) * kPageSize = p * kPageSize + kPageSize
         /\ (p + 1) * kPageSize \in Nat
         /\ (p + 1) * kPageSize - 1 \in Nat
<1>1. kPageSize \in Nat \ {0}
  BY PrimaryAssumption
<1>2. p * kPageSize \in Nat
  BY <1>1, Z3
<1>3. (p + 1) * kPageSize = p * kPageSize + kPageSize
  BY <1>1, Scale
<1>4. (p + 1) * kPageSize \in Nat
  BY <1>1, <1>2, <1>3
<1> QED
  BY <1>1, <1>2, <1>3, <1>4

\* Where the first and the last chunk of a page lie.
LEMMA EndsOn ==
  ASSUME class_size \in Nat \ {0}, NEW p \in Nat
  PROVE  /\ FirstOn(p) \in Nat
         /\ FirstOn(p) * class_size <= p * kPageSize
         /\ p * kPageSize < FirstOn(p) * class_size + class_size
         /\ LastOn(p) \in Nat
         /\ LastOn(p) * class_size < (p + 1) * kPageSize
         /\ (p + 1) * kPageSize <= LastOn(p) * class_size + class_size
<1>1. p * kPageSize \in Nat /\ (p + 1) * kPageSize - 1 \in Nat
      /\ (p + 1) * kPageSize \in Nat
  BY PageEnds, Zenon
<1>2. PICK x \in Nat : x = (p + 1) * kPageSize - 1
  BY <1>1
<1>3. x \div class_size \in Nat
      /\ (x \div class_size) * class_size <= x
      /\ x < (x \div class_size) * class_size + class_size
  BY Division
<1>4. LastOn(p) = x \div class_size
  BY <1>2 DEF LastOn
<1>5. LastOn(p) \in Nat /\ LastOn(p) * class_size \in Int
  BY <1>3, <1>4, Scale
<1>6. LastOn(p) * class_size <= x /\ x < LastOn(p) * class_size + class_size
  BY <1>3, <1>4
<1>7. LastOn(p) * class_size < (p + 1) * kPageSize
      /\ (p + 1) * kPageSize <= LastOn(p) * class_size + class_size
  BY <1>1, <1>2, <1>5, <1>6
<1>8. /\ FirstOn(p) \in Nat
      /\ FirstOn(p) * class_size <= p * kPageSize
      /\ p * kPageSize < FirstOn(p) * class_size + class_size
  BY <1>1, Division DEF FirstOn
<1> QED
  BY <1>5, <1>7, <1>8

\* A chunk lies on page p exactly if it is between the first and the last.
LEMMA OnPage ==
  ASSUME class_size \in Nat \ {0}, NEW p \in Nat, NEW c \in Nat
  PROVE  p \in PagesOf(c) <=> FirstOn(p) <= c /\ c <= LastOn(p)
<1>1. /\ kPageSize \in Nat \ {0}
      /\ p * kPageSize \in Nat
      /\ (p + 1) * kPageSize - 1 \in Nat
      /\ (p + 1) * kPageSize \in Nat
  BY PageEnds, Zenon
<1>2. c * class_size \in Nat /\ (c + 1) * class_size - 1 \in Nat
  <2>1. c * class_size \in Nat
    BY Z3
  <2>2. (c + 1) * class_size = c * class_size + class_size
    BY Scale
  <2> QED
    BY <2>1, <2>2
<1>3. (c * class_size) \div kPageSize <= p <=> c * class_size < (p + 1) * kPageSize
  BY <1>1, <1>2, DivBelow
<1>4. p <= ((c + 1) * class_size - 1) \div kPageSize
        <=> p * kPageSize <= (c + 1) * class_size - 1
  BY <1>1, <1>2, DivBelow
<1>5. FirstOn(p) <= c <=> p * kPageSize < (c + 1) * class_size
  BY <1>1, DivBelow DEF FirstOn
<1>6. c <= LastOn(p) <=> c * class_size <= (p + 1) * kPageSize - 1
  BY <1>1, DivBelow DEF LastOn
<1>7. (c * class_size) \div kPageSize \in Nat /\ ((c + 1) * class_size - 1) \div kPageSize \in Nat
  BY <1>1, <1>2, Division
<1>8. p \in PagesOf(c) <=> /\ (c * class_size) \div kPageSize <= p
                           /\ p <= ((c + 1) * class_size - 1) \div kPageSize
  BY <1>7 DEF PagesOf
<1>9. p * kPageSize <= (c + 1) * class_size - 1 <=> p * kPageSize < (c + 1) * class_size
  BY <1>1, <1>2
<1>10. c * class_size <= (p + 1) * kPageSize - 1 <=> c * class_size < (p + 1) * kPageSize
  BY <1>1, <1>2
<1> QED
  BY <1>3, <1>4, <1>5, <1>6, <1>8, <1>9, <1>10

\* A chunk is a multiple of a page: the page lies in one chunk.
LEMMA OneChunk ==
  ASSUME class_size \in Nat \ {0}, NEW p \in Nat,
         class_size > kPageSize, class_size % kPageSize = 0
  PROVE  LastOn(p) = FirstOn(p)
<1>1. /\ kPageSize \in Nat \ {0}
      /\ p * kPageSize \in Nat
      /\ (p + 1) * kPageSize = p * kPageSize + kPageSize
      /\ (p + 1) * kPageSize - 1 \in Nat
  BY PageEnds, Zenon
<1>2. PICK m \in Nat : class_size = m * kPageSize
  BY <1>1, Z3
<1>3. PICK f \in Nat : f = FirstOn(p)
  BY EndsOn
<1>4. f * class_size <= p * kPageSize /\ p * kPageSize < f * class_size + class_size
  BY <1>3, EndsOn
<1>5. (f + 1) * class_size = f * class_size + class_size
  BY Scale
<1>6. PICK k \in Nat : k = (f + 1) * m
  BY <1>2, Z3
<1>7. (f + 1) * class_size = k * kPageSize
  BY <1>1, <1>2, <1>6, Z3
<1>8. p * kPageSize < k * kPageSize
  BY <1>4, <1>5, <1>7
<1>9. p < k
  <2>1. k <= p => k * kPageSize <= p * kPageSize
    BY <1>1, Scale
  <2>2. k * kPageSize \in Int
    BY <1>1, Scale
  <2> QED
    BY <1>1, <1>8, <2>1, <2>2
<1>10. p * kPageSize + kPageSize <= k * kPageSize
  BY <1>1, <1>9, Scale
<1>11. (p + 1) * kPageSize - 1 < (f + 1) * class_size
       /\ f * class_size <= (p + 1) * kPageSize - 1
  <2>1. f * class_size \in Int
    BY Scale
  <2> QED
    BY <1>1, <1>4, <1>5, <1>7, <1>10, <2>1
<1>12. LastOn(p) = f
  BY <1>1, <1>11, Quotient DEF LastOn
<1> QED
  BY <1>3, <1>12

\* A page is a multiple of a chunk: it begins and ends with one.
LEMMA WholeChunks ==
  ASSUME class_size \in Nat \ {0}, NEW p \in Nat, kPageSize % class_size = 0
  PROVE  LastOn(p) - FirstOn(p) + 1 = kPageSize \div class_size
<1>1. /\ kPageSize \in Nat \ {0}
      /\ p * kPageSize \in Nat
      /\ (p + 1) * kPageSize = p * kPageSize + kPageSize
      /\ (p + 1) * kPageSize - 1 \in Nat
  BY PageEnds, Zenon
<1>2. PICK k \in Nat : kPageSize = k * class_size /\ k = kPageSize \div class_size
  BY <1>1, Z3
<1>3. PICK f \in Nat : f = p * k
  BY <1>2, Z3
<1>4. p * kPageSize = f * class_size
  BY <1>2, <1>3, Z3
<1>5. (f + 1) * class_size = f * class_size + class_size
  BY Scale
<1>6. FirstOn(p) = f
  BY <1>1, <1>4, <1>5, Quotient DEF FirstOn
<1>7. k >= 1
  BY <1>1, <1>2, Z3
<1>8. PICK l \in Nat : l = f + k - 1
  BY <1>7
<1>9. (l + 1) * class_size = (p + 1) * kPageSize
  <2>1. (f + k) * class_size = f * class_size + k * class_size
    BY Scale
  <2> QED
    BY <1>1, <1>2, <1>4, <1>8, <2>1
<1>10. (l + 1) * class_size = l * class_size + class_size /\ l * class_size \in Int
  BY Scale
<1>11. LastOn(p) = l
  <2>1. /\ l * class_size <= (p + 1) * kPageSize - 1
        /\ (p + 1) * kPageSize - 1 < (l + 1) * class_size
    BY <1>1, <1>9, <1>10
  <2> QED
    BY <1>1, <2>1, Quotient DEF LastOn
<1> QED
  BY <1>2, <1>6, <1>8, <1>11

\* The rest of a page divides a chunk: chunks hang over by multiples of that
\* rest, so that every page has one chunk more than fit.
LEMMA OneMore ==
  ASSUME class_size \in Nat \ {0}, NEW p \in Nat, class_size <= kPageSize,
         kPageSize % class_size # 0,
         class_size % (kPageSize % class_size) = 0
  PROVE  LastOn(p) - FirstOn(p) + 1 = (kPageSize \div class_size) + 1
<1>1. /\ kPageSize \in Nat \ {0}
      /\ p * kPageSize \in Nat
      /\ (p + 1) * kPageSize = p * kPageSize + kPageSize
      /\ (p + 1) * kPageSize - 1 \in Nat
  BY PageEnds, Zenon
<1>2. PICK r \in Nat \ {0} : r = kPageSize % class_size
  BY <1>1, Z3
<1>3. PICK q \in Nat : q = kPageSize \div class_size /\ kPageSize = q * class_size + r
  BY <1>1, <1>2, Z3
<1>4. PICK k \in Nat : class_size = k * r
  <2>1. class_size % r = 0
    BY <1>2
  <2> QED
    BY <2>1, Z3
<1>5. PICK f \in Nat : f = FirstOn(p)
  BY EndsOn
<1>6. f * class_size <= p * kPageSize /\ p * kPageSize < f * class_size + class_size
  BY <1>5, EndsOn
<1>7. PICK a \in Nat : a = p * (q * k + 1)
  <2>1. q * k + 1 \in Nat
    BY Z3
  <2> QED
    BY <2>1, Z3
<1>8. p * kPageSize = a * r
  <2>1. kPageSize = (q * k + 1) * r
    <3>1. kPageSize = q * (k * r) + r
      BY <1>3, <1>4
    <3> QED
      BY <3>1, Z3
  <2>2. p * ((q * k + 1) * r) = (p * (q * k + 1)) * r
    BY Z3
  <2> QED
    BY <1>7, <2>1, <2>2
<1>9. PICK b \in Nat : b = (f + 1) * k
  BY <1>4, <1>5, Z3
<1>10. (f + 1) * class_size = b * r
  BY <1>4, <1>9, Z3
<1>11. (f + 1) * class_size = f * class_size + class_size /\ f * class_size \in Int
  BY Scale
<1>12. a * r < b * r
  BY <1>6, <1>8, <1>10, <1>11
<1>13. a < b
  <2>1. b <= a => b * r <= a * r
    BY Scale
  <2>2. a * r \in Int /\ b * r \in Int
    BY Scale
  <2> QED
    BY <1>12, <2>1, <2>2
<1>14. a * r + r <= b * r
  BY <1>13, Scale
<1>15. p * kPageSize + r <= f * class_size + class_size
  BY <1>8, <1>10, <1>11, <1>14
<1>16. PICK l \in Nat : l = f + q
  OBVIOUS
<1>17. l * class_size = f * class_size + q * class_size /\ q * class_size \in Int
       /\ (l + 1) * class_size = l * class_size + class_size
  BY <1>16, Scale
<1>18. LastOn(p) = l
  <2>1. /\ l * class_size <= (p + 1) * kPageSize - 1
        /\ (p + 1) * kPageSize - 1 < (l + 1) * class_size
    BY <1>1, <1>2, <1>3, <1>6, <1>11, <1>15, <1>17
  <2> QED
    BY <1>1, <2>1, Quotient DEF LastOn
<1>19. l - f + 1 = q + 1
  BY <1>16
<1> QED
  BY <1>3, <1>5, <1>18, <1>19

\* What the fast path expects on a page is the number of chunks on it.
LEMMA FastPath ==
  ASSUME class_size \in Nat \ {0}, NEW p \in Nat, SameChunkCountPerPage
  PROVE  FullPageCount = LastOn(p) - FirstOn(p) + 1
<1>1. kPageSize \in Nat \ {0} /\ FirstOn(p) \in Nat
  BY PageEnds, EndsOn
<1>2. CASE class_size > kPageSize
  <2>1. class_size % kPageSize = 0 /\ FullPageCount = 1
    BY <1>2 DEF SameChunkCountPerPage, FullPageCount
  <2> QED
    BY <1>1, <1>2, <2>1, OneChunk
<1>3. CASE ~(class_size > kPageSize) /\ kPageSize % class_size = 0
  <2>1. FullPageCount = kPageSize \div class_size
    BY <1>3 DEF FullPageCount
  <2> QED
    BY <1>3, <2>1, WholeChunks
<1>4. CASE ~(class_size > kPageSize) /\ kPageSize % class_size # 0
  <2>1. /\ class_size % (kPageSize % class_size) = 0
        /\ FullPageCount = (kPageSize \div class_size) + 1
    BY <1>4 DEF SameChunkCountPerPage, FullPageCount
  <2>2. class_size <= kPageSize
    BY <1>1, <1>4
  <2> QED
    BY <1>4, <2>1, <2>2, OneMore
<1> QED
  BY <1>2, <1>3, <1>4

\* The chunks that begin before page i.
Begun(i) == (i * kPageSize + class_size - 1) \div class_size

\* They are those that end at the first end of a chunk at or after the page's
\* beginning.
LEMMA BegunIs ==
  ASSUME class_size \in Nat \ {0}, NEW i \in Nat
  PROVE  /\ Begun(i) \in Nat
         /\ Begun(i) * class_size \in Int
         /\ i * kPageSize <= Begun(i) * class_size
         /\ Begun(i) * class_size < i * kPageSize + class_size
<1>1. i * kPageSize \in Nat
  BY PageEnds
<1>2. PICK x \in Nat : x = i * kPageSize + class_size - 1
  BY <1>1
<1>3. PICK q \in Nat : q = x \div class_size
  BY Division
<1>4. q * class_size <= x /\ x < q * class_size + class_size
  BY <1>3, Division
<1>5. Begun(i) = q
  BY <1>2, <1>3 DEF Begun
<1>6. q * class_size \in Int
  BY Scale
<1> QED
  BY <1>1, <1>2, <1>4, <1>5, <1>6

\* And no other number has that property.
LEMMA BegunOnly ==
  ASSUME class_size \in Nat \ {0}, NEW i \in Nat, NEW e \in Nat,
         i * kPageSize <= e * class_size,
         e * class_size < i * kPageSize + class_size
  PROVE  Begun(i) = e
<1>1. i * kPageSize \in Nat
  BY PageEnds
<1>2. PICK x \in Nat : x = i * kPageSize + class_size - 1
  BY <1>1
<1>3. (e + 1) * class_size = e * class_size + class_size /\ e * class_size \in Int
  BY Scale
<1>4. e * class_size <= x /\ x < (e + 1) * class_size
  BY <1>1, <1>2, <1>3
<1> QED
  BY <1>2, <1>4, Quotient DEF Begun

\* pn whole chunks fit in a page, or the chunk is larger; pn + 1 do not.
LEMMA Fits ==
  ASSUME class_size \in Nat \ {0}
  PROVE  /\ pn \in Nat \ {0}
         /\ pn * class_size \in Int
         /\ pn * class_size <= kPageSize \/ (pn = 1 /\ kPageSize <= class_size)
         /\ kPageSize < pn * class_size + class_size
<1>1. kPageSize \in Nat \ {0}
  BY PrimaryAssumption
<1>2. CASE class_size < kPageSize
  <2>1. PICK q \in Nat : q = kPageSize \div class_size
    BY <1>1, Division
  <2>2. pn = q
    BY <1>2, <2>1 DEF pn
  <2>3. q * class_size <= kPageSize /\ kPageSize < q * class_size + class_size
    BY <1>1, <2>1, Division
  <2>4. 1 <= q
    BY <1>1, <1>2, <2>1, DivBelow
  <2>5. q * class_size \in Int
    BY Scale
  <2> QED
    BY <2>2, <2>3, <2>4, <2>5
<1>3. CASE ~(class_size < kPageSize)
  <2>1. pn = 1
    BY <1>3 DEF pn
  <2> QED
    BY <1>1, <1>3, <2>1
<1> QED
  BY <1>2, <1>3

\* The walk goes from the end of a chunk that begins before page i to the end
\* of the last one that begins before page i + 1.
LEMMA WalkStep ==
  ASSUME class_size \in Nat \ {0}, NEW i \in Nat
  PROVE  AfterPage(i, Begun(i) * class_size) = Begun(i + 1) * class_size
<1>1. /\ kPageSize \in Nat \ {0}
      /\ i * kPageSize \in Nat
      /\ (i + 1) * kPageSize = i * kPageSize + kPageSize
      /\ i + 1 \in Nat
  BY PageEnds
<1>2. PICK e \in Nat : e = Begun(i)
  BY BegunIs
<1>3. PICK n \in Nat \ {0} : n = pn
  BY Fits
<1>4. i * kPageSize <= e * class_size /\ e * class_size < i * kPageSize + class_size
  BY <1>2, BegunIs
<1>5. /\ n * class_size \in Int
      /\ n * class_size <= kPageSize \/ (n = 1 /\ kPageSize <= class_size)
      /\ kPageSize < n * class_size + class_size
  BY <1>3, Fits
<1>6. /\ e * class_size \in Int
      /\ (e + n) * class_size = e * class_size + n * class_size
      /\ (e + n + 1) * class_size = (e + n) * class_size + class_size
  BY Scale
<1>7. CASE e * class_size >= (i + 1) * kPageSize
  <2>1. AfterPage(i, e * class_size) = e * class_size
    BY <1>7 DEF AfterPage
  <2>2. e * class_size < (i + 1) * kPageSize + class_size
    BY <1>1, <1>4, <1>6
  <2>3. Begun(i + 1) = e
    BY <1>1, <1>6, <1>7, <2>2, BegunOnly
  <2> QED
    BY <1>2, <2>1, <2>3
<1>8. CASE /\ ~(e * class_size >= (i + 1) * kPageSize)
           /\ e * class_size + n * class_size < (i + 1) * kPageSize
  <2>1. AfterPage(i, e * class_size) = e * class_size + n * class_size + class_size
    BY <1>3, <1>8 DEF AfterPage
  <2>2. PICK m \in Nat : m = e + n + 1
    OBVIOUS
  <2>3. m * class_size = e * class_size + n * class_size + class_size
    BY <1>6, <2>2
  <2>4. m * class_size < (i + 1) * kPageSize + class_size
    BY <1>1, <1>5, <1>6, <1>8, <2>3
  <2>5. (i + 1) * kPageSize <= m * class_size
    BY <1>1, <1>4, <1>5, <1>6, <2>3
  <2>6. Begun(i + 1) = m
    BY <1>1, <2>4, <2>5, BegunOnly
  <2> QED
    BY <1>2, <2>1, <2>3, <2>6
<1>9. CASE /\ ~(e * class_size >= (i + 1) * kPageSize)
           /\ ~(e * class_size + n * class_size < (i + 1) * kPageSize)
  <2>1. AfterPage(i, e * class_size) = e * class_size + n * class_size
    BY <1>3, <1>9 DEF AfterPage
  <2>2. PICK m \in Nat : m = e + n
    OBVIOUS
  <2>3. m * class_size = e * class_size + n * class_size
    BY <1>6, <2>2
  <2>4. m * class_size < (i + 1) * kPageSize + class_size
    <3>1. CASE n * class_size <= kPageSize
      BY <1>1, <1>4, <1>5, <1>6, <2>3, <3>1
    <3>2. CASE n = 1
      BY <1>1, <1>5, <1>6, <1>9, <2>3, <3>2
    <3> QED
      BY <1>5, <3>1, <3>2
  <2>5. (i + 1) * kPageSize <= m * class_size
    BY <1>1, <1>5, <1>6, <1>9, <2>3
  <2>6. Begun(i + 1) = m
    BY <1>1, <2>4, <2>5, BegunOnly
  <2> QED
    BY <1>2, <2>1, <2>3, <2>6
<1> QED
  BY <1>7, <1>8, <1>9

\* current_boundary when the slow path reaches page i.
LEMMA Walk ==
  ASSUME class_size \in Nat \ {0}, NEW i \in Nat
  PROVE  CurrentBoundary[i] = Begun(i) * class_size
<1> DEFINE F(f) == [j \in Nat |-> IF j = 0 THEN 0 ELSE AfterPage(j - 1, f[j - 1])]
           g == [j \in Nat |-> Begun(j) * class_size]
<1>1. g[0] = 0
  <2>1. Begun(0) = 0
    <3>1. 0 * kPageSize = 0 /\ 0 * class_size = 0
      BY PrimaryAssumption
    <3> QED
      BY <3>1, BegunOnly
  <2> QED
    BY <2>1
<1>2. \A j \in Nat : AfterPage(j, g[j]) = g[j + 1]
  BY WalkStep
<1>3. g = F(g)
  <2>1. ASSUME NEW j \in Nat
        PROVE  g[j] = IF j = 0 THEN 0 ELSE AfterPage(j - 1, g[j - 1])
    <3>1. CASE j = 0
      BY <1>1, <3>1
    <3>2. CASE j # 0
      <4>1. j - 1 \in Nat /\ j - 1 + 1 = j
        BY <3>2
      <4> HIDE DEF g
      <4>2. AfterPage(j - 1, g[j - 1]) = g[j]
        BY <1>2, <4>1
      <4> QED
        BY <3>2, <4>2
    <3> QED
      BY <3>1, <3>2
  <2> QED
    BY <2>1
<1>4. CurrentBoundary = F(CurrentBoundary)
  <2>1. CurrentBoundary = CHOOSE f : f = F(f)
    BY DEF CurrentBoundary
  <2> HIDE DEF F, g
  <2> QED
    BY <1>3, <2>1
<1>5. /\ CurrentBoundary[0] = 0
      /\ \A j \in Nat : CurrentBoundary[j + 1] = AfterPage(j, CurrentBoundary[j])
  <2>1. PICK w : w = CurrentBoundary
    OBVIOUS
  <2>2. w = [j \in Nat |-> IF j = 0 THEN 0 ELSE AfterPage(j - 1, w[j - 1])]
    BY <1>4, <2>1
  <2>3. ASSUME NEW j \in Nat
        PROVE  w[j + 1] = AfterPage(j, w[j])
    <3>1. j + 1 \in Nat /\ j + 1 # 0 /\ j + 1 - 1 = j
      OBVIOUS
    <3>2. w[j + 1] = AfterPage(j + 1 - 1, w[j + 1 - 1])
      BY <2>2, <3>1
    <3> QED
      BY <3>1, <3>2
  <2>4. w[0] = 0
    BY <2>2
  <2> QED
    BY <2>1, <2>3, <2>4
<1> DEFINE S == {j \in Nat : CurrentBoundary[j] = g[j]}
<1> HIDE DEF g
<1>6. 0 \in S
  BY <1>1, <1>5
<1>7. \A j \in Nat : j \in S => j + 1 \in S
  BY <1>2, <1>5
<1>8. i \in S
  <2> HIDE DEF S
  <2> QED
    BY <1>6, <1>7, Induct
<1> QED
  BY <1>8 DEF g

\* What the slow path expects on a page is the number of chunks on it.
LEMMA SlowPath ==
  ASSUME class_size \in Nat \ {0}, NEW i \in Nat
  PROVE  ChunksPerPage(i) = LastOn(i) - FirstOn(i) + 1
<1>1. /\ kPageSize \in Nat \ {0}
      /\ i * kPageSize \in Nat
      /\ (i + 1) * kPageSize = i * kPageSize + kPageSize
      /\ (i + 1) * kPageSize - 1 \in Nat
  BY PageEnds, Zenon
<1>2. PICK e \in Nat : e = Begun(i)
  BY BegunIs
<1>3. PICK n \in Nat \ {0} : n = pn
  BY Fits
<1>4. i * kPageSize <= e * class_size /\ e * class_size < i * kPageSize + class_size
  BY <1>2, BegunIs
<1>5. /\ n * class_size \in Int
      /\ n * class_size <= kPageSize \/ (n = 1 /\ kPageSize <= class_size)
      /\ kPageSize < n * class_size + class_size
  BY <1>3, Fits
<1>6. /\ e * class_size \in Int
      /\ (e + 1) * class_size = e * class_size + class_size
      /\ (e + n) * class_size = e * class_size + n * class_size
      /\ (e + n + 1) * class_size = (e + n) * class_size + class_size
      /\ (e - 1) * class_size + class_size = e * class_size
      /\ (e - 1) * class_size \in Int
      /\ (e + n - 1) * class_size + class_size = (e + n) * class_size
      /\ (e + n - 1) * class_size \in Int
  <2>1. (e - 1) * class_size \in Int /\ (e - 1 + 1) * class_size = (e - 1) * class_size + class_size
    BY Scale
  <2>2. /\ (e + n - 1) * class_size \in Int
        /\ (e + n - 1 + 1) * class_size = (e + n - 1) * class_size + class_size
    BY Scale
  <2>3. e - 1 + 1 = e /\ e + n - 1 + 1 = e + n
    OBVIOUS
  <2>4. /\ e * class_size \in Int
        /\ (e + 1) * class_size = e * class_size + class_size
        /\ (e + n) * class_size = e * class_size + n * class_size
        /\ (e + n + 1) * class_size = (e + n) * class_size + class_size
    BY Scale
  <2> QED
    BY <2>1, <2>2, <2>3, <2>4
<1>7. CurrentBoundary[i] = e * class_size
  BY <1>2, Walk
<1>8. e * class_size > i * kPageSize => e - 1 \in Nat
  <2>1. e = 0 => e * class_size = 0
    OBVIOUS
  <2> QED
    BY <1>1, <2>1
<1>9. e * class_size > i * kPageSize => FirstOn(i) = e - 1
  <2> SUFFICES ASSUME e * class_size > i * kPageSize
               PROVE  FirstOn(i) = e - 1
    OBVIOUS
  <2>1. PICK m \in Nat : m = e - 1
    BY <1>8
  <2>2. m * class_size <= i * kPageSize /\ i * kPageSize < (m + 1) * class_size
    <3>1. m + 1 = e /\ m * class_size = (e - 1) * class_size
      BY <2>1
    <3> QED
      BY <1>1, <1>4, <1>6, <3>1
  <2> QED
    BY <1>1, <2>1, <2>2, Quotient DEF FirstOn
<1>10. ~(e * class_size > i * kPageSize) => FirstOn(i) = e
  <2> SUFFICES ASSUME ~(e * class_size > i * kPageSize)
               PROVE  FirstOn(i) = e
    OBVIOUS
  <2>1. e * class_size <= i * kPageSize /\ i * kPageSize < (e + 1) * class_size
    BY <1>1, <1>4, <1>6
  <2> QED
    BY <1>1, <2>1, Quotient DEF FirstOn
<1>11. CASE e * class_size >= (i + 1) * kPageSize
  <2>1. ChunksPerPage(i) = n
    BY <1>3, <1>7, <1>11 DEF ChunksPerPage
  <2>2. n = 1
    <3>1. class_size >= kPageSize
      BY <1>1, <1>4, <1>6, <1>11
    <3> QED
      BY <1>1, <1>3, <3>1 DEF pn
  <2>3. e * class_size > i * kPageSize
    BY <1>1, <1>6, <1>11
  <2>4. PICK m \in Nat : m = e - 1
    BY <1>8, <2>3
  <2>5. /\ m * class_size <= (i + 1) * kPageSize - 1
        /\ (i + 1) * kPageSize - 1 < (m + 1) * class_size
    <3>1. m + 1 = e /\ m * class_size = (e - 1) * class_size
      BY <2>4
    <3> QED
      BY <1>1, <1>4, <1>6, <1>11, <3>1
  <2>6. LastOn(i) = m
    BY <1>1, <2>5, Quotient DEF LastOn
  <2> QED
    BY <1>9, <2>1, <2>2, <2>3, <2>4, <2>6
<1>12. CASE ~(e * class_size >= (i + 1) * kPageSize)
  <2> DEFINE before == IF e * class_size > i * kPageSize THEN 1 ELSE 0
             after == IF e * class_size + n * class_size < (i + 1) * kPageSize
                      THEN 1 ELSE 0
  <2>1. ChunksPerPage(i) = n + before + after
    BY <1>3, <1>7, <1>12 DEF ChunksPerPage
  <2>2. FirstOn(i) = e - before
    BY <1>9, <1>10
  <2>3. e * class_size + n * class_size < (i + 1) * kPageSize => LastOn(i) = e + n
    <3> SUFFICES ASSUME e * class_size + n * class_size < (i + 1) * kPageSize
                 PROVE  LastOn(i) = e + n
      OBVIOUS
    <3>1. PICK m \in Nat : m = e + n
      OBVIOUS
    <3>2. m * class_size = e * class_size + n * class_size
          /\ (m + 1) * class_size = m * class_size + class_size
      BY <1>6, <3>1
    <3>3. /\ m * class_size <= (i + 1) * kPageSize - 1
          /\ (i + 1) * kPageSize - 1 < (m + 1) * class_size
      BY <1>1, <1>4, <1>5, <1>6, <3>2
    <3> QED
      BY <1>1, <3>1, <3>3, Quotient DEF LastOn
  <2>4. ~(e * class_size + n * class_size < (i + 1) * kPageSize) => LastOn(i) = e + n - 1
    <3> SUFFICES ASSUME ~(e * class_size + n * class_size < (i + 1) * kPageSize)
                 PROVE  LastOn(i) = e + n - 1
      OBVIOUS
    <3>1. PICK m \in Nat : m = e + n - 1
      OBVIOUS
    <3>2. m + 1 = e + n
      BY <3>1
    <3>3. (m + 1) * class_size = e * class_size + n * class_size
          /\ (m + 1) * class_size = m * class_size + class_size
          /\ m * class_size \in Int
      BY <1>6, <3>1, <3>2
    <3>4. m * class_size <= (i + 1) * kPageSize - 1
      <4>1. CASE n * class_size <= kPageSize
        BY <1>1, <1>4, <1>5, <1>6, <3>3, <4>1
      <4>2. CASE n = 1
        BY <1>1, <1>6, <1>12, <3>3, <4>2
      <4> QED
        BY <1>5, <4>1, <4>2
    <3>5. (i + 1) * kPageSize - 1 < (m + 1) * class_size
      BY <1>1, <1>5, <1>6, <3>3
    <3> QED
      BY <1>1, <3>1, <3>4, <3>5, Quotient DEF LastOn
  <2>5. LastOn(i) = e + n - 1 + after
    BY <2>3, <2>4
  <2>6. before \in Nat /\ after \in Nat
    OBVIOUS
  <2> HIDE DEF before, after
  <2> QED
    BY <2>1, <2>2, <2>5, <2>6
<1> QED
  BY <1>11, <1>12

\* What ReleaseFreeMemoryToOS expects on a page.
Expected(p) == IF SameChunkCountPerPage THEN FullPageCount ELSE ChunksPerPage(p)

\* It is the number of chunks on that page.
LEMMA ExpectedIs ==
  ASSUME class_size \in Nat \ {0}, NEW p \in Nat
  PROVE  Expected(p) = LastOn(p) - FirstOn(p) + 1
BY FastPath, SlowPath DEF Expected

\* The counter of a page reaches what is expected exactly if all chunks of the
\* page are free.
LEMMA CountIsExact ==
  ASSUME class_size \in Nat \ {0}, NEW p \in Nat, NEW n \in Nat,
         NEW chunks \in SUBSET (0 .. n - 1)
  PROVE  FreeOn(chunks, p) = Expected(p)
           <=> FirstOn(p) .. LastOn(p) \subseteq chunks
<1> DEFINE here == {c \in chunks : p \in PagesOf(c)}
           all == FirstOn(p) .. LastOn(p)
<1>1. /\ FirstOn(p) \in Nat
      /\ LastOn(p) \in Nat
      /\ FirstOn(p) <= LastOn(p)
  <2>1. /\ kPageSize \in Nat \ {0}
        /\ p * kPageSize \in Nat
        /\ (p + 1) * kPageSize = p * kPageSize + kPageSize
    BY PageEnds
  <2>2. PICK f \in Nat : f = FirstOn(p)
    BY EndsOn
  <2>3. PICK l \in Nat : l = LastOn(p)
    BY EndsOn
  <2>4. /\ f * class_size <= p * kPageSize
        /\ (p + 1) * kPageSize <= l * class_size + class_size
    BY <2>2, <2>3, EndsOn
  <2>5. l < f => l * class_size + class_size <= f * class_size
    BY Scale
  <2>6. l * class_size \in Int /\ f * class_size \in Int
    BY Scale
  <2> QED
    BY <2>1, <2>2, <2>3, <2>4, <2>5, <2>6
<1>2. here = chunks \cap all
  <2>1. ASSUME NEW c \in chunks
        PROVE  p \in PagesOf(c) <=> c \in all
    <3>1. c \in Nat
      OBVIOUS
    <3> QED
      BY <1>1, <3>1, OnPage
  <2> QED
    BY <2>1, Zenon
<1>3. IsFiniteSet(all) /\ Cardinality(all) = LastOn(p) - FirstOn(p) + 1
  BY <1>1, FS_Interval
<1>4. FreeOn(chunks, p) = Cardinality(here)
  BY DEF FreeOn
<1> HIDE DEF here, all
<1>5. here \in SUBSET all
  BY <1>2
<1>6. Cardinality(here) = Cardinality(all) => here = all
  BY <1>3, <1>5, FS_Subset
<1>7. FreeOn(chunks, p) = Expected(p) <=> here = all
  BY <1>3, <1>4, <1>6, ExpectedIs
<1>8. here = all <=> all \subseteq chunks
  BY <1>2
<1> QED
  BY <1>7, <1>8 DEF all

\* A page carries free chunks only exactly if the part cut into chunks reaches
\* its end and every chunk on it is free.
LEMMA PageIsFree ==
  ASSUME class_size \in Nat \ {0}, n_allocated \in Nat, NEW p \in Nat,
         NEW chunks \in SUBSET (0 .. n_allocated - 1)
  PROVE  FirstOn(p) .. LastOn(p) \subseteq chunks <=>
           /\ (p + 1) * kPageSize <= n_allocated * class_size
           /\ \A c \in 0 .. n_allocated - 1 : p \in PagesOf(c) => c \in chunks
<1>1. PICK f \in Nat : f = FirstOn(p)
  BY EndsOn
<1>2. PICK l \in Nat : l = LastOn(p)
  BY EndsOn
<1>3. /\ l * class_size < (p + 1) * kPageSize
      /\ (p + 1) * kPageSize <= l * class_size + class_size
  BY <1>2, EndsOn
<1>4. /\ l * class_size \in Int
      /\ n_allocated * class_size \in Int
      /\ (p + 1) * kPageSize \in Nat
  BY Scale, PageEnds
<1>5. \A c \in Nat : p \in PagesOf(c) <=> f <= c /\ c <= l
  BY <1>1, <1>2, OnPage
<1>6. ASSUME f .. l \subseteq chunks
      PROVE  /\ (p + 1) * kPageSize <= n_allocated * class_size
             /\ \A c \in 0 .. n_allocated - 1 : p \in PagesOf(c) => c \in chunks
  <2>1. f <= l
    <3>1. f * class_size <= p * kPageSize /\ f * class_size \in Int
      BY <1>1, EndsOn, Scale
    <3>2. l < f => l * class_size + class_size <= f * class_size
      BY Scale
    <3>3. (p + 1) * kPageSize = p * kPageSize + kPageSize /\ p * kPageSize \in Nat
          /\ kPageSize \in Nat \ {0}
      BY PageEnds
    <3> QED
      BY <1>3, <1>4, <3>1, <3>2, <3>3
  <2>2. l < n_allocated
    BY <1>6, <2>1
  <2>3. l * class_size + class_size <= n_allocated * class_size
    BY <2>2, Scale
  <2>4. (p + 1) * kPageSize <= n_allocated * class_size
    BY <1>3, <1>4, <2>3
  <2>5. \A c \in 0 .. n_allocated - 1 : p \in PagesOf(c) => c \in chunks
    BY <1>5, <1>6
  <2> QED
    BY <2>4, <2>5
<1>7. ASSUME (p + 1) * kPageSize <= n_allocated * class_size,
             \A c \in 0 .. n_allocated - 1 : p \in PagesOf(c) => c \in chunks
      PROVE  f .. l \subseteq chunks
  <2>1. n_allocated <= l => n_allocated * class_size <= l * class_size
    BY Scale
  <2>2. l < n_allocated
    BY <1>3, <1>4, <1>7, <2>1
  <2>3. \A c \in f .. l : c \in 0 .. n_allocated - 1 /\ p \in PagesOf(c)
    BY <1>5, <2>2
  <2> QED
    BY <1>7, <2>3
<1> QED
  BY <1>1, <1>2, <1>6, <1>7

\* The counting finds the pages that carry free chunks only.
LEMMA CountingIsExact ==
  ASSUME class_size \in Nat \ {0}, n_allocated \in Nat,
         NEW chunks \in SUBSET (0 .. n_allocated - 1)
  PROVE  ReleaseFreeMemoryToOS(chunks) =
           {p \in 0 .. AllocatedPages - 1 :
              /\ (p + 1) * kPageSize <= n_allocated * class_size
              /\ \A c \in 0 .. n_allocated - 1 : p \in PagesOf(c) => c \in chunks}
<1>1. AllocatedPages \in Nat
  <2>1. kPageSize \in Nat \ {0} /\ n_allocated * class_size \in Nat
    <3>1. n_allocated * class_size \in Nat
      BY Z3
    <3> QED
      BY <3>1, PrimaryAssumption
  <2>2. RoundUpTo(n_allocated * class_size, kPageSize) \in Nat
    BY <2>1, RoundsUp
  <2> QED
    BY <2>1, <2>2, Division DEF AllocatedPages
<1>2. ASSUME NEW p \in 0 .. AllocatedPages - 1
      PROVE  FreeOn(chunks, p) = Expected(p) <=>
               /\ (p + 1) * kPageSize <= n_allocated * class_size
               /\ \A c \in 0 .. n_allocated - 1 : p \in PagesOf(c) => c \in chunks
  <2>1. p \in Nat
    BY <1>1
  <2>2. FreeOn(chunks, p) = Expected(p) <=> FirstOn(p) .. LastOn(p) \subseteq chunks
    BY <2>1, CountIsExact, Zenon
  <2> QED
    BY <2>1, <2>2, PageIsFree
<1>3. ReleaseFreeMemoryToOS(chunks) =
        {p \in 0 .. AllocatedPages - 1 : FreeOn(chunks, p) = Expected(p)}
  BY DEF ReleaseFreeMemoryToOS, Expected
<1> QED
  BY <1>2, <1>3

-------------------------------------------------------------------------------
(* What the operators keep *)

\* The sets of chunks are finite: all chunks lie below allocated_user.
LEMMA Finite ==
  ASSUME PTypeOK, Placed
  PROVE  /\ IsFiniteSet(free_array) /\ Cardinality(free_array) \in Nat
         /\ \A t \in Threads : IsFiniteSet(cache[t]) /\ Cardinality(cache[t]) \in Nat
<1>1. IsFiniteSet(0 .. n_allocated - 1)
  BY FS_Interval DEF PTypeOK
<1>2. free_array \in SUBSET (0 .. n_allocated - 1)
  BY DEF PTypeOK, Placed
<1>3. ASSUME NEW t \in Threads
      PROVE  cache[t] \in SUBSET (0 .. n_allocated - 1)
  BY DEF PTypeOK, Placed
<1>4. IsFiniteSet(free_array) /\ Cardinality(free_array) \in Nat
  BY <1>1, <1>2, FS_Subset, FS_CardinalityType, Zenon
<1>5. ASSUME NEW t \in Threads
      PROVE  IsFiniteSet(cache[t]) /\ Cardinality(cache[t]) \in Nat
  BY <1>1, <1>3, FS_Subset, FS_CardinalityType, Zenon
<1> QED
  BY <1>4, <1>5

\* A union has at most as many elements as its parts together.
LEMMA UnionBound ==
  ASSUME NEW S, IsFiniteSet(S), NEW T, IsFiniteSet(T)
  PROVE  /\ IsFiniteSet(S \cup T)
         /\ Cardinality(S \cup T) \in Nat
         /\ Cardinality(S \cup T) <= Cardinality(S) + Cardinality(T)
<1>1. IsFiniteSet(S \cap T)
  BY FS_Intersection
<1>2. /\ Cardinality(S) \in Nat
      /\ Cardinality(T) \in Nat
      /\ Cardinality(S \cap T) \in Nat
  BY <1>1, FS_CardinalityType
<1>3. IsFiniteSet(S \cup T)
      /\ Cardinality(S \cup T) = Cardinality(S) + Cardinality(T) - Cardinality(S \cap T)
  BY FS_Union
<1>4. Cardinality(S \cup T) \in Nat
  BY <1>3, FS_CardinalityType
<1> QED
  BY <1>2, <1>3, <1>4

\* After EnsureFreeArraySpace(n) the free array has room for n entries.
LEMMA SpaceEnsured ==
  ASSUME PTypeOK, NEW n \in Nat, EnsureFreeArraySpace(n)
  PROVE  mapped_free_array' \in Nat /\ n <= mapped_free_array'
<1>1. kFreeArrayMapSize \in Nat \ {0}
  BY PrimaryAssumption
<1>2. RoundUpTo(n, kFreeArrayMapSize) \in Nat /\ n <= RoundUpTo(n, kFreeArrayMapSize)
  BY <1>1, RoundsUp
<1> QED
  BY <1>2 DEF EnsureFreeArraySpace, SpaceIsMapped, PTypeOK

\* What PopulateFreeArray maps is never less than before, and within the
\* region unless that is exhausted.
LEMMA MappedUserGrows ==
  ASSUME PInv, Missing > 0, ~IsRegionExhausted
  PROVE  /\ MappedUser \in Nat
         /\ mapped_user <= MappedUser
         /\ MappedUser <= kUserSpace[class_size]
         /\ NewChunksCount(MappedUser) \in Nat
         /\ (n_allocated + NewChunksCount(MappedUser)) * class_size <= MappedUser
<1>1. /\ class_size \in Nat \ {0}
      /\ kUserMapSize[class_size] \in Nat \ {0}
      /\ kUserSpace[class_size] \in Nat
      /\ mapped_user \in Nat
      /\ n_allocated \in Nat
      /\ MaxCachedHint \in Nat
  BY PrimaryAssumption DEF PInv, PTypeOK
<1>2. Missing \in Nat
  BY <1>1, Finite DEF Missing, PInv
<1>3. TotalUserBytes \in Nat
  BY <1>1, <1>2 DEF TotalUserBytes
<1>4. MappedUser \in Nat /\ mapped_user <= MappedUser
  <2>1. CASE TotalUserBytes <= mapped_user
    BY <1>1, <2>1 DEF MappedUser
  <2>2. CASE ~(TotalUserBytes <= mapped_user)
    <3>1. TotalUserBytes - mapped_user \in Nat
      BY <1>1, <1>3, <2>2
    <3>2. RoundUpTo(TotalUserBytes - mapped_user, kUserMapSize[class_size]) \in Nat
      BY <1>1, <3>1, RoundsUp
    <3> QED
      BY <1>1, <2>2, <3>2 DEF MappedUser
  <2> QED
    BY <2>1, <2>2
<1>5. MappedUser <= kUserSpace[class_size]
  <2>1. CASE TotalUserBytes <= mapped_user
    BY <2>1 DEF MappedUser, PInv, UserFits
  <2>2. CASE ~(TotalUserBytes <= mapped_user)
    BY <1>1, <1>3, <1>4, <2>2 DEF IsRegionExhausted
  <2> QED
    BY <2>1, <2>2
<1>6. n_allocated * class_size \in Nat /\ n_allocated * class_size <= MappedUser
  BY <1>1, <1>4 DEF PInv, UserFits
<1>7. /\ NewChunksCount(MappedUser) \in Nat
      /\ (n_allocated + NewChunksCount(MappedUser)) * class_size <= MappedUser
  BY <1>1, <1>4, <1>6, NewChunksFit DEF NewChunksCount
<1> QED
  BY <1>4, <1>5, <1>7

\* MaybeReleaseToOS and its callers leave the chunks alone.
LEMMA Frame ==
  ASSUME PInv,
         UNCHANGED <<class_size, free_array, n_allocated, mapped_user,
                     mapped_free_array, cache, used>>
  PROVE  PInv'
BY DEF PInv, PTypeOK, Placed, UserFits, ArrayFits

-------------------------------------------------------------------------------
(* The steps *)

\* AllocateFromCache moves a chunk from a cache to the caller.
LEMMA AllocateStep ==
  ASSUME PInv, NEW t \in Threads, AllocateFromCache(t)
  PROVE  PInv'
<1>1. PICK c \in cache[t] : /\ cache' = [cache EXCEPT ![t] = @ \ {c}]
                            /\ used' = used \cup {c}
  BY Zenon DEF AllocateFromCache
<1>2. UNCHANGED <<class_size, free_array, n_allocated, mapped_user, mapped_free_array>>
  BY DEF AllocateFromCache
<1>3. /\ cache'[t] = cache[t] \ {c}
      /\ \A u \in Threads : u # t => cache'[u] = cache[u]
  BY <1>1 DEF PInv, PTypeOK
<1>4. PTypeOK'
  BY <1>1, <1>2 DEF PInv, PTypeOK
<1>5. Placed'
  BY <1>1, <1>2, <1>3 DEF PInv, PTypeOK, Placed
<1> QED
  BY <1>2, <1>4, <1>5 DEF PInv, UserFits, ArrayFits

\* TakeFrom moves chunks of the free array, which then is S, to an empty cache
\* and one of them to the caller.
LEMMA TakeFromStep ==
  ASSUME PTypeOK, NEW t \in Threads, cache[t] = {},
         NEW S \in SUBSET Nat, IsFiniteSet(S), TakeFrom(t, S),
         NEW n \in Nat,
         \A c \in Nat : c < n <=>
            c \in S \/ c \in used \/ \E u \in Threads : c \in cache[u],
         \A c \in S : c \notin used /\ \A u \in Threads : c \notin cache[u],
         Placed, n_allocated' = n
  PROVE  /\ Placed'
         /\ free_array' \in SUBSET Nat
         /\ cache' \in [Threads -> SUBSET Nat]
         /\ used' \in SUBSET Nat
         /\ Cardinality(free_array') \in Nat
         /\ Cardinality(free_array') <= Cardinality(S)
<1>a. PICK taken \in SUBSET S : \E c \in taken :
        /\ free_array' = S \ taken
        /\ cache' = [cache EXCEPT ![t] = taken \ {c}]
        /\ used' = used \cup {c}
  BY Zenon DEF TakeFrom, kSubset
<1>1. PICK c \in taken :
        /\ free_array' = S \ taken
        /\ cache' = [cache EXCEPT ![t] = taken \ {c}]
        /\ used' = used \cup {c}
  BY <1>a, Zenon
<1>2. /\ cache'[t] = taken \ {c}
      /\ \A u \in Threads : u # t => cache'[u] = cache[u]
  BY <1>1 DEF PTypeOK
<1>3. /\ free_array' \in SUBSET Nat
      /\ cache' \in [Threads -> SUBSET Nat]
      /\ used' \in SUBSET Nat
  BY <1>1 DEF PTypeOK
<1>4. Cardinality(free_array') \in Nat /\ Cardinality(free_array') <= Cardinality(S)
  BY <1>1, FS_Subset, FS_CardinalityType
<1>5. ASSUME NEW d \in Nat
      PROVE  d < n_allocated' <=>
               d \in free_array' \/ d \in used' \/ \E u \in Threads : d \in cache'[u]
  <2>1. (d \in S \/ d \in used \/ \E u \in Threads : d \in cache[u]) <=>
          d \in free_array' \/ d \in used' \/ \E u \in Threads : d \in cache'[u]
    BY <1>1, <1>2
  <2> QED
    BY <2>1
<1>6. \A d \in free_array' : d \notin used'
  BY <1>1
<1>7. ASSUME NEW u \in Threads, NEW d \in cache'[u]
      PROVE  d \notin free_array' /\ d \notin used'
  <2>1. CASE u = t
    BY <1>1, <1>2, <1>7, <2>1, Zenon
  <2>2. CASE u # t
    <3>1. d \in cache[u]
      BY <1>2, <1>7, <2>2
    <3>2. d \notin used /\ d \notin S
      BY <3>1, Zenon DEF Placed
    <3> QED
      BY <1>1, <3>2
  <2> QED
    BY <2>1, <2>2
<1>8. ASSUME NEW u \in Threads, NEW v \in Threads, u # v, NEW d \in cache'[u]
      PROVE  d \notin cache'[v]
  <2>1. \A w \in Threads : w # t => cache'[w] = cache[w] /\ \A e \in S : e \notin cache[w]
    BY <1>2
  <2>2. \A e \in cache'[t] : e \in S
    BY <1>2, Zenon
  <2>3. CASE u # t /\ v # t
    BY <1>8, <2>1, <2>3 DEF Placed
  <2>4. CASE u = t \/ v = t
    BY <1>8, <2>1, <2>2, <2>4, Zenon
  <2> QED
    BY <2>3, <2>4
<1>9. Placed'
  BY <1>5, <1>6, <1>7, <1>8 DEF Placed
<1> QED
  BY <1>3, <1>4, <1>9

\* Refill takes the chunks of the free array.
LEMMA RefillStep ==
  ASSUME PInv, NEW t \in Threads, Refill(t)
  PROVE  PInv'
<1>1. /\ cache[t] = {}
      /\ TakeFrom(t, free_array)
      /\ UNCHANGED <<class_size, n_allocated, mapped_user, mapped_free_array>>
  BY DEF Refill
<1>2. /\ PTypeOK
      /\ Placed
      /\ IsFiniteSet(free_array)
      /\ Cardinality(free_array) \in Nat
  BY Finite DEF PInv
<1>3. /\ free_array \in SUBSET Nat
      /\ n_allocated \in Nat
      /\ \A c \in Nat : c < n_allocated <=>
           c \in free_array \/ c \in used \/ \E u \in Threads : c \in cache[u]
      /\ \A c \in free_array : c \notin used /\ \A u \in Threads : c \notin cache[u]
  BY <1>2 DEF PTypeOK, Placed
<1>4. /\ Placed'
      /\ free_array' \in SUBSET Nat
      /\ cache' \in [Threads -> SUBSET Nat]
      /\ used' \in SUBSET Nat
      /\ Cardinality(free_array') \in Nat
      /\ Cardinality(free_array') <= Cardinality(free_array)
  BY <1>1, <1>2, <1>3, TakeFromStep
<1>5. PTypeOK'
  BY <1>1, <1>2, <1>4 DEF PTypeOK
<1>6. ArrayFits'
  BY <1>1, <1>2, <1>4 DEF PInv, ArrayFits, PTypeOK
<1> QED
  BY <1>1, <1>4, <1>5, <1>6 DEF PInv, UserFits

\* PopulateFreeArray cuts the chunks from allocated_user on, which are in no
\* place yet, and takes from the larger array.
LEMMA PopulateStep ==
  ASSUME PInv, NEW t \in Threads, PopulateFreeArray(t)
  PROVE  PInv'
<1> DEFINE k == NewChunksCount(MappedUser)
           new == NewChunks(MappedUser)
           S == free_array \cup new
<1>1. /\ cache[t] = {}
      /\ EnsureFreeArraySpace(Cardinality(free_array) + k)
      /\ mapped_user' = MappedUser
      /\ n_allocated' = n_allocated + k
      /\ TakeFrom(t, S)
      /\ UNCHANGED class_size
  BY DEF PopulateFreeArray
<1>2. /\ MappedUser \in Nat
      /\ MappedUser <= kUserSpace[class_size]
      /\ k \in Nat
      /\ (n_allocated + k) * class_size <= MappedUser
  BY MappedUserGrows DEF PopulateFreeArray
<1>3. /\ PTypeOK
      /\ Placed
      /\ IsFiniteSet(free_array)
      /\ Cardinality(free_array) \in Nat
  BY Finite DEF PInv
<1>4. new = n_allocated .. n_allocated + k - 1
  BY DEF NewChunks
<1> HIDE DEF k, new
<1>5. n_allocated \in Nat /\ n_allocated + k \in Nat
  BY <1>2, <1>3 DEF PTypeOK
<1>6. IsFiniteSet(new) /\ Cardinality(new) = k
  BY <1>2, <1>4, <1>5, FS_Interval
<1>7. IsFiniteSet(S) /\ Cardinality(S) \in Nat
      /\ Cardinality(S) <= Cardinality(free_array) + k
  BY <1>3, <1>6, UnionBound
<1>8. S \in SUBSET Nat
  <2>1. \A c \in new : c \in Nat
    BY <1>2, <1>4, <1>5
  <2> QED
    BY <1>3, <2>1, Zenon DEF PTypeOK
<1>9. \A c \in Nat : c \in new <=> n_allocated <= c /\ c < n_allocated + k
  BY <1>2, <1>4, <1>5
<1>10. \A c \in Nat : c < n_allocated + k <=>
         c \in S \/ c \in used \/ \E u \in Threads : c \in cache[u]
  <2> SUFFICES ASSUME NEW c \in Nat
               PROVE  c < n_allocated + k <=>
                        c \in S \/ c \in used \/ \E u \in Threads : c \in cache[u]
    OBVIOUS
  <2>1. c < n_allocated <=>
          c \in free_array \/ c \in used \/ \E u \in Threads : c \in cache[u]
    BY <1>3 DEF Placed
  <2>2. c < n_allocated + k <=> c < n_allocated \/ c \in new
    BY <1>2, <1>5, <1>9
  <2> QED
    BY <2>1, <2>2
<1>11. \A c \in S : c \notin used /\ \A u \in Threads : c \notin cache[u]
  <2>1. ASSUME NEW c \in free_array
        PROVE  c \notin used /\ \A u \in Threads : c \notin cache[u]
    BY <1>3 DEF Placed
  <2>2. ASSUME NEW c \in new
        PROVE  c \notin used /\ \A u \in Threads : c \notin cache[u]
    <3>1. c \in Nat /\ ~(c < n_allocated)
      BY <1>2, <1>4, <1>5
    <3> QED
      BY <1>3, <3>1 DEF Placed
  <2> QED
    BY <2>1, <2>2
<1> HIDE DEF S
<1>12. /\ Placed'
       /\ free_array' \in SUBSET Nat
       /\ cache' \in [Threads -> SUBSET Nat]
       /\ used' \in SUBSET Nat
       /\ Cardinality(free_array') \in Nat
       /\ Cardinality(free_array') <= Cardinality(S)
  BY <1>1, <1>3, <1>5, <1>7, <1>8, <1>10, <1>11, TakeFromStep
<1>13. /\ mapped_free_array' \in Nat
       /\ Cardinality(free_array) + k <= mapped_free_array'
  BY <1>1, <1>2, <1>3, SpaceEnsured
<1>14. PTypeOK'
  BY <1>1, <1>2, <1>3, <1>5, <1>12, <1>13 DEF PTypeOK
<1>15. ArrayFits'
  BY <1>2, <1>3, <1>7, <1>12, <1>13 DEF ArrayFits
<1>16. UserFits'
  BY <1>1, <1>2 DEF UserFits
<1> QED
  BY <1>12, <1>14, <1>15, <1>16 DEF PInv

\* The kernel grants memory for chunks and refuses it for the free array: no
\* chunk comes into being.
LEMMA RefusedStep ==
  ASSUME PInv, NEW t \in Threads, FreeArrayIsRefused(t)
  PROVE  PInv'
<1>1. /\ mapped_user' = MappedUser
      /\ UNCHANGED <<class_size, free_array, n_allocated, mapped_free_array, cache,
                     used>>
  BY DEF FreeArrayIsRefused
<1>2. /\ MappedUser \in Nat
      /\ mapped_user <= MappedUser
      /\ MappedUser <= kUserSpace[class_size]
  BY MappedUserGrows DEF FreeArrayIsRefused
<1>3. PTypeOK'
  BY <1>1, <1>2 DEF PInv, PTypeOK
<1>4. n_allocated * class_size \in Nat /\ mapped_user \in Nat
  BY PrimaryAssumption DEF PInv, PTypeOK
<1>5. UserFits'
  BY <1>1, <1>2, <1>4 DEF PInv, UserFits
<1>6. Placed' /\ ArrayFits'
  BY <1>1 DEF PInv, Placed, ArrayFits
<1> QED
  BY <1>3, <1>5, <1>6 DEF PInv

\* Deallocate moves a chunk from the caller to the cache of any thread.
LEMMA DeallocateStep ==
  ASSUME PInv, NEW t \in Threads, NEW c \in used, Deallocate(t, c)
  PROVE  PInv'
<1>1. /\ used' = used \ {c}
      /\ cache' = [cache EXCEPT ![t] = @ \cup {c}]
      /\ UNCHANGED <<class_size, free_array, n_allocated, mapped_user, mapped_free_array>>
  BY DEF Deallocate
<1>2. /\ cache'[t] = cache[t] \cup {c}
      /\ \A u \in Threads : u # t => cache'[u] = cache[u]
  BY <1>1 DEF PInv, PTypeOK
<1>3. PTypeOK'
  BY <1>1 DEF PInv, PTypeOK
<1>4. Placed'
  BY <1>1, <1>2 DEF PInv, PTypeOK, Placed
<1> QED
  BY <1>1, <1>3, <1>4 DEF PInv, UserFits, ArrayFits

\* ReturnToAllocator moves chunks of a cache to the free array; what stays of
\* that cache may then get one chunk more from the caller.
LEMMA ReturnStep ==
  ASSUME PInv, NEW t \in Threads, NEW back \in SUBSET cache[t],
         ReturnToAllocator(back),
         NEW given \in SUBSET used,
         cache' = [cache EXCEPT ![t] = (@ \ back) \cup given],
         used' = used \ given,
         UNCHANGED <<class_size, n_allocated, mapped_user>>
  PROVE  PInv'
<1> DEFINE n == Cardinality(free_array) + Cardinality(back)
<1>1. free_array' = free_array \cup back /\ EnsureFreeArraySpace(n)
  BY DEF ReturnToAllocator
<1>2. /\ cache'[t] = (cache[t] \ back) \cup given
      /\ \A u \in Threads : u # t => cache'[u] = cache[u]
  BY DEF PInv, PTypeOK
<1>3. /\ PTypeOK /\ Placed
      /\ IsFiniteSet(free_array) /\ Cardinality(free_array) \in Nat
      /\ IsFiniteSet(back) /\ Cardinality(back) \in Nat
  BY Finite, FS_Subset, FS_CardinalityType DEF PInv
<1>4. Cardinality(free_array') \in Nat /\ Cardinality(free_array') <= n
  BY <1>1, <1>3, UnionBound, Zenon
<1>5. n \in Nat
  BY <1>3
<1> HIDE DEF n
<1>6. mapped_free_array' \in Nat /\ n <= mapped_free_array'
  BY <1>1, <1>3, <1>5, SpaceEnsured
<1>7. PTypeOK'
  <2>1. cache[t] \in SUBSET Nat /\ used \in SUBSET Nat /\ free_array \in SUBSET Nat
    BY <1>3 DEF PTypeOK
  <2> QED
    BY <1>1, <1>3, <1>6, <2>1, Zenon DEF PTypeOK
<1>8. ArrayFits'
  BY <1>4, <1>5, <1>6 DEF ArrayFits
<1>9. UserFits'
  BY DEF PInv, UserFits
<1>10. ASSUME NEW c \in Nat
       PROVE  c < n_allocated' <=>
                c \in free_array' \/ c \in used' \/ \E u \in Threads : c \in cache'[u]
  <2>1. c < n_allocated <=>
          c \in free_array \/ c \in used \/ \E u \in Threads : c \in cache[u]
    BY <1>3 DEF Placed
  <2>2. (c \in free_array \/ c \in used \/ \E u \in Threads : c \in cache[u]) <=>
          c \in free_array' \/ c \in used' \/ \E u \in Threads : c \in cache'[u]
    BY <1>1, <1>2
  <2> QED
    BY <2>1, <2>2
<1>11. \A c \in free_array' : c \notin used'
  BY <1>1, <1>3 DEF Placed
<1>12. ASSUME NEW u \in Threads, NEW c \in cache'[u]
       PROVE  c \notin free_array' /\ c \notin used'
  <2>1. CASE u = t
    BY <1>1, <1>2, <1>3, <1>12, <2>1 DEF Placed
  <2>2. CASE u # t
    BY <1>1, <1>2, <1>3, <1>12, <2>2 DEF Placed
  <2> QED
    BY <2>1, <2>2
<1>13. ASSUME NEW u \in Threads, NEW v \in Threads, u # v, NEW c \in cache'[u]
       PROVE  c \notin cache'[v]
  BY <1>2, <1>3, <1>13 DEF Placed
<1>14. Placed'
  BY <1>10, <1>11, <1>12, <1>13 DEF Placed
<1> QED
  BY <1>7, <1>8, <1>9, <1>14 DEF PInv

\* The inductive invariant says more than EachChunkOnce.
LEMMA InvImpliesEachChunkOnce == PInv => EachChunkOnce
<1> SUFFICES ASSUME PInv
             PROVE  EachChunkOnce
  OBVIOUS
<1>1. PTypeOK /\ Placed
  BY DEF PInv
<1>2. ASSUME NEW c
      PROVE  c \in free_array \cup used \cup UNION {cache[t] : t \in Threads}
               <=> c \in 0 .. n_allocated - 1
  <2>1. c \in UNION {cache[t] : t \in Threads} <=> \E t \in Threads : c \in cache[t]
    OBVIOUS
  <2>2. CASE c \in Nat
    <3>1. c \in 0 .. n_allocated - 1 <=> c < n_allocated
      BY <1>1, <2>2 DEF PTypeOK
    <3> QED
      BY <1>1, <2>1, <2>2, <3>1 DEF Placed
  <2>3. CASE c \notin Nat
    <3>1. c \notin 0 .. n_allocated - 1
      BY <1>1, <2>3 DEF PTypeOK
    <3> QED
      BY <1>1, <2>1, <2>3, <3>1, Zenon DEF PTypeOK
  <2> QED
    BY <2>2, <2>3
<1>3. free_array \cup used \cup UNION {cache[t] : t \in Threads} = 0 .. n_allocated - 1
  BY <1>2
<1>4. /\ free_array \cap used = {}
      /\ \A t \in Threads : cache[t] \cap (free_array \cup used) = {}
      /\ \A t, u \in Threads : t # u => cache[t] \cap cache[u] = {}
  BY <1>1 DEF Placed
<1> QED
  BY <1>3, <1>4 DEF PInv, UserFits, ArrayFits, EachChunkOnce

\* No chunk has been cut at first.
LEMMA PrimaryInitInv == PrimaryInit => PInv
<1> SUFFICES ASSUME PrimaryInit
             PROVE  PInv
  OBVIOUS
<1>1. class_size \in Nat /\ kUserSpace[class_size] \in Nat
  BY PrimaryAssumption DEF PrimaryInit
<1>2. Cardinality(free_array) = 0
  BY FS_EmptySet DEF PrimaryInit
<1> QED
  BY <1>1, <1>2 DEF PrimaryInit, PInv, PTypeOK, Placed, UserFits, ArrayFits

\* Every call of the allocator keeps the invariant.
LEMMA PrimaryNextInv == PInv /\ [PrimaryNext]_pvars => PInv'
<1> SUFFICES ASSUME PInv, [PrimaryNext]_pvars
             PROVE  PInv'
  OBVIOUS
<1>1. ASSUME NEW t \in Threads, AllocateFromCache(t)
      PROVE  PInv'
  BY <1>1, AllocateStep
<1>2. ASSUME NEW t \in Threads, Refill(t)
      PROVE  PInv'
  BY <1>2, RefillStep
<1>3. ASSUME NEW t \in Threads, PopulateFreeArray(t)
      PROVE  PInv'
  BY <1>3, PopulateStep
<1>4. ASSUME NEW t \in Threads,
             RegionIsExhausted(t) \/ FreeArrayOverflows(t) \/ ReturnDies(t)
      PROVE  PInv'
  BY <1>4, Frame DEF RegionIsExhausted, FreeArrayOverflows, ReturnDies, Abort
<1>5. ASSUME NEW t \in Threads, FreeArrayIsRefused(t)
      PROVE  PInv'
  BY <1>5, RefusedStep
<1>6. ASSUME NEW t \in Threads, Drain(t)
      PROVE  PInv'
  <2>1. /\ ReturnToAllocator(cache[t])
        /\ cache' = [cache EXCEPT ![t] = (@ \ cache[t]) \cup {}]
        /\ used' = used \ {}
        /\ UNCHANGED <<class_size, n_allocated, mapped_user>>
    BY <1>6, Zenon DEF Drain
  <2>2. PICK back \in SUBSET cache[t] : back = cache[t]
    OBVIOUS
  <2>3. PICK given \in SUBSET used : given = {}
    BY Zenon
  <2>4. /\ ReturnToAllocator(back)
        /\ cache' = [cache EXCEPT ![t] = (@ \ back) \cup given]
        /\ used' = used \ given
    BY <2>1, <2>2, <2>3
  <2> QED
    BY <2>1, <2>4, ReturnStep, Zenon
<1>7. ASSUME NEW t \in Threads, NEW c \in used, Deallocate(t, c)
      PROVE  PInv'
  BY <1>7, DeallocateStep
<1>8. ASSUME NEW t \in Threads, NEW c \in used, DeallocateFull(t, c)
      PROVE  PInv'
  <2>1. PICK half \in SUBSET cache[t] :
          /\ ReturnToAllocator(half)
          /\ cache' = [cache EXCEPT ![t] = (@ \ half) \cup {c}]
    BY <1>8, Zenon DEF DeallocateFull, kSubset
  <2>2. used' = used \ {c} /\ UNCHANGED <<class_size, n_allocated, mapped_user>>
    BY <1>8 DEF DeallocateFull
  <2>3. {c} \in SUBSET used
    OBVIOUS
  <2> QED
    BY <2>1, <2>2, <2>3, ReturnStep, Zenon
<1>9. CASE ForceReleaseToOS
  BY <1>9, Frame DEF ForceReleaseToOS
<1>10. CASE UNCHANGED pvars
  BY <1>10, Frame DEF pvars
<1> QED
  BY <1>1, <1>2, <1>3, <1>4, <1>5, <1>6, <1>7, <1>8, <1>9, <1>10 DEF PrimaryNext

-------------------------------------------------------------------------------
(* The pages given back.                                                     *)

\* The first part of ReleaseIsExact.
LEMMA ReleaseFindsFreePages == PInv => ReleaseFreeMemoryToOS(free_array) = FreePages
<1> SUFFICES ASSUME PInv
             PROVE  ReleaseFreeMemoryToOS(free_array) = FreePages
  OBVIOUS
<1>1. class_size \in Nat \ {0} /\ n_allocated \in Nat
  BY PrimaryAssumption DEF PInv, PTypeOK
<1>2. free_array \in SUBSET (0 .. n_allocated - 1)
  BY DEF PInv, PTypeOK, Placed
<1> QED
  BY <1>1, <1>2, CountingIsExact DEF FreePages

\* The second: no chunk in use lies on a page that was given back.
UsedIsKept == \A c \in used : PagesOf(c) \cap released = {}

\* A call that leaves the pages alone and takes chunks of the callers back.
LEMMA KeptFrame ==
  ASSUME UsedIsKept, UNCHANGED <<class_size, released>>, used' \subseteq used
  PROVE  UsedIsKept'
BY DEF UsedIsKept, PagesOf

\* Allocate writes into the chunk it returns, so its pages are back.
LEMMA KeptAllocate ==
  ASSUME UsedIsKept, UNCHANGED class_size, NEW c,
         used' = used \cup {c}, released' = released \ PagesOf(c)
  PROVE  UsedIsKept'
<1>1. ASSUME NEW d \in used'
      PROVE  PagesOf(d) \cap released' = {}
  <2>1. CASE d = c
    BY <2>1
  <2>2. CASE d # c
    BY <2>2 DEF UsedIsKept
  <2> QED
    BY <2>1, <2>2
<1>2. \A d : PagesOf(d)' = PagesOf(d)
  BY DEF PagesOf
<1> QED
  BY <1>1, <1>2 DEF UsedIsKept

\* MaybeReleaseToOS gives back no page of a chunk that is not in the free array.
LEMMA KeptRelease ==
  ASSUME PInv, PInv', UsedIsKept, UNCHANGED <<class_size, n_allocated>>,
         NEW count, MaybeReleaseToOS(free_array', count), used' \subseteq used
  PROVE  UsedIsKept'
<1>1. class_size \in Nat \ {0} /\ n_allocated \in Nat
  BY PrimaryAssumption DEF PInv, PTypeOK
<1>2. PICK chunks : chunks = free_array'
  OBVIOUS
<1>3. chunks \in SUBSET (0 .. n_allocated - 1)
  BY <1>2 DEF PInv, PTypeOK, Placed
<1>4. used' \subseteq 0 .. n_allocated - 1
  BY DEF PInv, PTypeOK, Placed
<1>5. \A c \in used' : c \notin chunks
  BY <1>2 DEF PInv, Placed
<1>6. \A c : PagesOf(c)' = PagesOf(c)
  BY DEF PagesOf
<1>7. released' = released \/ released' = released \cup ReleaseFreeMemoryToOS(chunks)
  BY <1>2 DEF MaybeReleaseToOS
<1>8. ASSUME NEW c \in used'
      PROVE  PagesOf(c) \cap ReleaseFreeMemoryToOS(chunks) = {}
  <2>1. \A p \in ReleaseFreeMemoryToOS(chunks) :
          \A d \in 0 .. n_allocated - 1 : p \in PagesOf(d) => d \in chunks
    BY <1>1, <1>3, CountingIsExact
  <2> QED
    BY <1>4, <1>5, <2>1
<1>9. ASSUME NEW c \in used'
      PROVE  PagesOf(c) \cap released' = {}
  BY <1>7, <1>8 DEF UsedIsKept
<1> QED
  BY <1>6, <1>9 DEF UsedIsKept

\* Every call of the allocator keeps the chunks in use off the pages given back.
LEMMA KeptNext == PInv /\ PInv' /\ UsedIsKept /\ [PrimaryNext]_pvars => UsedIsKept'
<1> SUFFICES ASSUME PInv, PInv', UsedIsKept, [PrimaryNext]_pvars
             PROVE  UsedIsKept'
  OBVIOUS
<1>1. ASSUME NEW t \in Threads, AllocateFromCache(t)
      PROVE  UsedIsKept'
  BY <1>1, KeptAllocate DEF AllocateFromCache
<1>2. ASSUME NEW t \in Threads, NEW chunks, TakeFrom(t, chunks), UNCHANGED class_size
      PROVE  UsedIsKept'
  BY <1>2, KeptAllocate DEF TakeFrom
<1>3. ASSUME NEW t \in Threads, Refill(t) \/ PopulateFreeArray(t)
      PROVE  UsedIsKept'
  BY <1>2, <1>3, Zenon DEF Refill, PopulateFreeArray
<1>4. ASSUME NEW t \in Threads,
             \/ RegionIsExhausted(t) \/ FreeArrayOverflows(t) \/ ReturnDies(t)
             \/ FreeArrayIsRefused(t)
      PROVE  UsedIsKept'
  BY <1>4, KeptFrame, Zenon
     DEF RegionIsExhausted, FreeArrayOverflows, ReturnDies, FreeArrayIsRefused, Abort
<1>5. ASSUME NEW back, ReturnToAllocator(back), used' \subseteq used,
             UNCHANGED <<class_size, n_allocated>>
      PROVE  UsedIsKept'
  <2>1. free_array' = free_array \cup back
    BY <1>5 DEF ReturnToAllocator
  <2>2. \E count : MaybeReleaseToOS(free_array', count)
    BY <1>5, <2>1 DEF ReturnToAllocator
  <2> QED
    BY <1>5, <2>2, KeptRelease
<1>6. ASSUME NEW t \in Threads, Drain(t)
      PROVE  UsedIsKept'
  BY <1>5, <1>6 DEF Drain
<1>7. ASSUME NEW t \in Threads, NEW c \in used, Deallocate(t, c)
      PROVE  UsedIsKept'
  BY <1>7, KeptFrame DEF Deallocate
<1>8. ASSUME NEW t \in Threads, NEW c \in used, DeallocateFull(t, c)
      PROVE  UsedIsKept'
  BY <1>5, <1>8 DEF DeallocateFull
<1>9. CASE ForceReleaseToOS
  <2>1. MaybeReleaseToOS(free_array', unreleased)
    BY <1>9 DEF ForceReleaseToOS
  <2> QED
    BY <1>9, <2>1, KeptRelease DEF ForceReleaseToOS
<1>10. CASE UNCHANGED pvars
  BY <1>10, KeptFrame DEF pvars
<1> QED
  BY <1>1, <1>3, <1>4, <1>6, <1>7, <1>8, <1>9, <1>10 DEF PrimaryNext

-------------------------------------------------------------------------------
(* The inductive invariant of the secondary allocator.                       *)

STypeOK ==
  /\ mapped \subseteq AddressSpace
  /\ header \in [AddressSpace -> [map_beg : Nat, map_size : Nat, chunk_idx : Nat]]
  /\ chunks_ \in Seq(AddressSpace)
  /\ chunks_sorted_ \in BOOLEAN
  /\ owned \subseteq AddressSpace
  /\ at \in [Callers -> {"idle", "insert", "unmap"}]
  /\ h \in [Callers -> Nat]
  /\ locked \in Callers \cup {NoThread}
  /\ ptr \in Nat /\ beg \in Nat /\ end \in Nat /\ block \in Nat
  /\ check_failed \in BOOLEAN

\* The headers that are in use: those of the callers' blocks, and those of the
\* blocks a thread has mapped and not inserted, or removed and not unmapped.
Live == owned \cup {h[t] : t \in {u \in Callers : at[u] # "idle"}}

\* No header has two users, and each lies in a mapping of its own.
Apart ==
  /\ Live \subseteq AddressSpace
  /\ \A t \in Callers : at[t] # "idle" => h[t] \notin owned
  /\ \A t, u \in Callers : t # u /\ at[t] # "idle" /\ at[u] # "idle" => h[t] # h[u]
  /\ \A g \in Live : g \in Mapping(g) /\ Mapping(g) \subseteq mapped
  /\ \A g, k \in Live : g # k => Mapping(g) \cap Mapping(k) = {}

\* The array holds the callers' blocks, each at the index its header has.
Indexed ==
  /\ \A i \in DOMAIN chunks_ : chunks_[i] \in owned /\ header[chunks_[i]].chunk_idx = i
  /\ \A g \in owned : \E i \in DOMAIN chunks_ : chunks_[i] = g
  /\ Len(chunks_) <= kMaxNumChunks
  /\ check_failed => Len(chunks_) = kMaxNumChunks

\* chunks_sorted_ says what it says, and GetBlockBeginFastLocked has lost
\* nothing: the header it looks for is between beg and end.
Sound ==
  /\ chunks_sorted_ => \A i, j \in DOMAIN chunks_ : i < j => chunks_[i] < chunks_[j]
  /\ ptr # 0 => locked # NoThread
  /\ ptr # 0 /\ beg = 0 => block = BlockOf(ptr)
  /\ beg # 0 =>
       /\ ptr # 0 /\ chunks_sorted_
       /\ 1 <= beg /\ beg <= end /\ end <= Len(chunks_)
       /\ chunks_[beg] <= ptr
       /\ end < Len(chunks_) => ptr < chunks_[end + 1]

SInv == STypeOK /\ Apart /\ Indexed /\ Sound

-------------------------------------------------------------------------------
(* Ranks: the place of a number among the members of a finite set.           *)

Rank(S, x) == Cardinality({y \in S : y <= x})

\* The rank of a member is between 1 and the number of members.
LEMMA RankType ==
  ASSUME NEW S \in SUBSET Nat, IsFiniteSet(S), NEW x \in S
  PROVE  /\ Rank(S, x) \in 1 .. Cardinality(S)
         /\ IsFiniteSet({y \in S : y <= x})
<1> DEFINE T == {y \in S : y <= x}
<1>1. T \in SUBSET S
  OBVIOUS
<1>2. x \in T
  OBVIOUS
<1> HIDE DEF T
<1>3. /\ IsFiniteSet(T)
      /\ Cardinality(T) <= Cardinality(S)
  BY <1>1, FS_Subset, Zenon
<1>4. Cardinality(T) \in Nat /\ Cardinality(S) \in Nat
  BY <1>3, FS_CardinalityType
<1>5. Cardinality(T) # 0
  BY <1>2, <1>3, FS_EmptySet
<1>6. Cardinality(T) \in 1 .. Cardinality(S)
  BY <1>3, <1>4, <1>5
<1> QED
  BY <1>3, <1>6 DEF T, Rank

\* A smaller member has a smaller rank.
LEMMA RankGrows ==
  ASSUME NEW S \in SUBSET Nat, IsFiniteSet(S), NEW x \in S, NEW y \in S, x < y
  PROVE  Rank(S, x) < Rank(S, y)
<1> DEFINE T == {z \in S : z <= x}
           U == {z \in S : z <= y}
<1>0. \A z \in S : z <= x => z <= y
  OBVIOUS
<1>1. T \in SUBSET U
  BY <1>0, Zenon
<1>2. y \in U /\ y \notin T
  OBVIOUS
<1>3. IsFiniteSet(T) /\ IsFiniteSet(U)
  BY RankType
<1> HIDE DEF T, U
<1>4. Cardinality(T) <= Cardinality(U) /\ Cardinality(U) # Cardinality(T)
  BY <1>1, <1>2, <1>3, FS_Subset, Zenon
<1>5. Cardinality(T) \in Nat /\ Cardinality(U) \in Nat
  BY <1>3, FS_CardinalityType
<1>6. Cardinality(T) < Cardinality(U)
  BY <1>4, <1>5
<1> QED
  BY <1>6 DEF T, U, Rank

\* Every rank is taken.
LEMMA RankTaken ==
  ASSUME NEW S \in SUBSET Nat, IsFiniteSet(S), NEW i \in 1 .. Cardinality(S)
  PROVE  \E x \in S : Rank(S, x) = i
<1> DEFINE n == Cardinality(S)
           f == [x \in S |-> Rank(S, x)]
<1>1. n \in Nat
  BY FS_CardinalityType
<1>2. IsFiniteSet(1 .. n) /\ Cardinality(1 .. n) = n
  BY <1>1, FS_Interval
<1>3. f \in [S -> 1 .. n]
  BY RankType, Zenon
<1>4. \A x, y \in S : f[x] = f[y] => x = y
  <2> SUFFICES ASSUME NEW x \in S, NEW y \in S, x # y
               PROVE  Rank(S, x) # Rank(S, y)
    OBVIOUS
  <2>1. Rank(S, x) \in Nat /\ Rank(S, y) \in Nat
    <3>1. Rank(S, x) \in 1 .. n /\ Rank(S, y) \in 1 .. n
      BY RankType, Zenon
    <3> QED
      BY <1>1, <3>1
  <2>2. CASE x < y
    BY <2>1, <2>2, RankGrows
  <2>3. CASE y < x
    BY <2>1, <2>3, RankGrows
  <2> QED
    BY <2>2, <2>3
<1> HIDE DEF f
<1>5. f \in Injection(S, 1 .. n)
  BY <1>3, <1>4 DEF Injection, IsInjective
<1>6. f \in Surjection(S, 1 .. n)
  BY <1>2, <1>5, FS_Injection
<1>7. \E x \in S : f[x] = i
  BY <1>6 DEF Surjection
<1> QED
  BY <1>7 DEF f

\* A finite set of numbers that is not empty has a largest member.
LEMMA MaxIsLargest ==
  ASSUME NEW S \in SUBSET Nat, IsFiniteSet(S), S # {}
  PROVE  Max(S) \in S /\ \A y \in S : y <= Max(S)
<1> DEFINE n == Cardinality(S)
<1>1. n \in Nat /\ n # 0
  BY FS_CardinalityType, FS_EmptySet
<1>2. PICK x \in S : Rank(S, x) = n
  BY <1>1, RankTaken
<1>3. {y \in S : y <= x} = S
  BY <1>2, FS_Subset DEF Rank
<1>4. \A y \in S : x >= y
  BY <1>3
<1> QED
  BY <1>4, Zenon DEF Max

-------------------------------------------------------------------------------
(* Sort *)

\* The members of an array without duplicates, and how many they are.
LEMMA Members ==
  ASSUME NEW s \in Seq(Nat), \A i, j \in DOMAIN s : s[i] = s[j] => i = j
  PROVE  /\ Range(s) \in SUBSET Nat
         /\ IsFiniteSet(Range(s))
         /\ Cardinality(Range(s)) = Len(s)
<1> DEFINE n == Len(s)
<1>1. n \in Nat /\ DOMAIN s = 1 .. n /\ s \in [1 .. n -> Nat]
  OBVIOUS
<1> HIDE DEF n
<1>2. IsFiniteSet(1 .. n) /\ Cardinality(1 .. n) = n
  BY <1>1, FS_Interval
<1>3. Range(s) \in SUBSET Nat
  BY <1>1 DEF Range
<1>4. s \in [1 .. n -> Range(s)]
  BY <1>1 DEF Range
<1>5. s \in Surjection(1 .. n, Range(s))
  BY <1>1, <1>4 DEF Range, Surjection
<1>6. s \in Injection(1 .. n, Range(s))
  BY <1>1, <1>4 DEF Injection, IsInjective
<1> QED
  BY <1>2, <1>3, <1>5, <1>6, FS_Surjection DEF n

\* Sorted has the same members, in ascending order.
LEMMA SortSorts ==
  ASSUME NEW s \in Seq(Nat), \A i, j \in DOMAIN s : s[i] = s[j] => i = j
  PROVE  /\ Sorted(s) \in Seq(Range(s))
         /\ Len(Sorted(s)) = Len(s)
         /\ DOMAIN Sorted(s) = DOMAIN s
         /\ \A x \in Range(s) : \E i \in DOMAIN s : Sorted(s)[i] = x
         /\ \A i, j \in DOMAIN s : i < j => Sorted(s)[i] < Sorted(s)[j]
<1> DEFINE n == Len(s)
           S == Range(s)
           r == Sorted(s)
<1>1. n \in Nat /\ DOMAIN s = 1 .. n
  OBVIOUS
<1>2. S \in SUBSET Nat /\ IsFiniteSet(S) /\ Cardinality(S) = n
  BY Members
<1>3. r = [i \in 1 .. n |-> CHOOSE x \in S : Rank(S, x) = i]
  BY <1>1 DEF Sorted, Rank
<1>4. DOMAIN r = 1 .. n
  BY <1>1 DEF Sorted
<1> HIDE DEF S
<1>5. \A i \in 1 .. n : r[i] \in S /\ Rank(S, r[i]) = i
  <2> TAKE i \in 1 .. n
  <2>1. \E x \in S : Rank(S, x) = i
    BY <1>2, RankTaken
  <2> QED
    BY <1>3, <2>1
<1> HIDE DEF r, n
<1>6. \A x \in S : x \in Nat
  BY <1>2
<1>7. r \in [1 .. n -> S]
  BY <1>3, <1>5
<1>8. r \in Seq(S) /\ Len(r) = n
  BY <1>1, <1>7
<1>9. \A x \in S : \E i \in 1 .. n : r[i] = x
  <2> TAKE x \in S
  <2>1. PICK i \in 1 .. n : i = Rank(S, x)
    BY <1>2, RankType, Zenon
  <2>2. r[i] \in S /\ Rank(S, r[i]) = i
    BY <1>5
  <2>3. x \in Nat /\ r[i] \in Nat
    BY <1>6, <1>7
  <2>4. ~(x < r[i])
    BY <1>2, <2>1, <2>2, <2>3, RankGrows
  <2>5. ~(r[i] < x)
    BY <1>2, <2>1, <2>2, <2>3, RankGrows
  <2>6. r[i] = x
    BY <2>3, <2>4, <2>5
  <2> QED
    BY <2>6
<1>10. \A i, j \in 1 .. n : i < j => r[i] < r[j]
  <2> SUFFICES ASSUME NEW i \in 1 .. n, NEW j \in 1 .. n, i < j
               PROVE  r[i] < r[j]
    OBVIOUS
  <2>1. r[i] \in Nat /\ r[j] \in Nat
    BY <1>6, <1>7
  <2>2. r[i] # r[j]
    BY <1>5, <2>1
  <2>3. ~(r[j] < r[i])
    <3> SUFFICES ASSUME r[j] < r[i]
                 PROVE  FALSE
      OBVIOUS
    <3>1. Rank(S, r[j]) < Rank(S, r[i])
      BY <1>2, <1>5, RankGrows, Zenon
    <3>2. j < i
      BY <1>5, <3>1
    <3> QED
      BY <2>1, <3>2
  <2> QED
    BY <2>1, <2>2, <2>3
<1> QED
  BY <1>1, <1>4, <1>8, <1>9, <1>10, Zenon DEF r, n, S

-------------------------------------------------------------------------------
(* What the invariant says about addresses.                                  *)

\* The pages of a mapping.
LEMMA MappingPages ==
  ASSUME STypeOK, NEW g \in AddressSpace
  PROVE  /\ g \in Nat
         /\ header[g].map_beg \in Nat /\ header[g].map_size \in Nat
         /\ header[g].chunk_idx \in Nat
         /\ \A p \in Nat : p \in Mapping(g) <=>
              header[g].map_beg <= p /\ p < header[g].map_beg + header[g].map_size
<1>1. g \in Nat
  BY SecondaryAssumption
<1>2. header[g] \in [map_beg : Nat, map_size : Nat, chunk_idx : Nat]
  BY DEF STypeOK
<1>3. /\ header[g].map_beg \in Nat /\ header[g].map_size \in Nat
      /\ header[g].chunk_idx \in Nat
  BY <1>2
<1> QED
  BY <1>1, <1>3 DEF Mapping, MapRange

\* An address belongs to the nearest block below it, or to none.
LEMMA Nearest ==
  ASSUME STypeOK, Apart, NEW p \in Nat, NEW g \in owned, g <= p,
         \A k \in owned : k <= p => k <= g
  PROVE  BlockOf(p) = IF p \in Mapping(g) THEN GetUser(g) ELSE 0
<1>1. \A k \in owned : k \in AddressSpace
  BY DEF STypeOK
<1>2. \A k \in owned : /\ k \in Nat /\ header[k].map_beg \in Nat
                       /\ header[k].map_size \in Nat
                       /\ \A q \in Nat : q \in Mapping(k) <=>
                            /\ header[k].map_beg <= q
                            /\ q < header[k].map_beg + header[k].map_size
  BY <1>1, MappingPages
<1>3. \A k \in owned : k \in Mapping(k)
  BY DEF Apart, Live
<1>4. \A k \in owned : k # g => Mapping(k) \cap Mapping(g) = {}
  BY DEF Apart, Live
<1>5. \A k \in owned : k \in BlocksAt(p) <=>
        k <= p /\ p < header[k].map_beg + header[k].map_size
  BY <1>2 DEF BlocksAt
<1>6. \A k \in BlocksAt(p) : k = g
  <2> SUFFICES ASSUME NEW k \in BlocksAt(p), k # g
               PROVE  FALSE
    OBVIOUS
  <2>0. k \in owned
    BY DEF BlocksAt
  <2>1. k <= p /\ p < header[k].map_beg + header[k].map_size
    BY <1>5, <2>0
  <2>2. k < g
    BY <1>2, <2>0, <2>1
  <2>3. header[k].map_beg <= k
    BY <1>2, <1>3, <2>0
  <2>4. g \in Mapping(k)
    BY <1>2, <2>0, <2>1, <2>2, <2>3
  <2> QED
    BY <1>3, <1>4, <2>0, <2>4
<1>7. g \in BlocksAt(p) <=> p \in Mapping(g)
  <2>1. header[g].map_beg <= p
    BY <1>2, <1>3
  <2> QED
    BY <1>2, <1>5, <2>1
<1>8. CASE p \in Mapping(g)
  BY <1>6, <1>7, <1>8 DEF BlockOf
<1>9. CASE p \notin Mapping(g)
  BY <1>6, <1>7, <1>9 DEF BlockOf
<1> QED
  BY <1>8, <1>9

\* An address below all blocks belongs to none.
LEMMA BelowAll ==
  ASSUME STypeOK, NEW p \in Nat, \A k \in owned : ~(k <= p)
  PROVE  BlockOf(p) = 0
<1>1. \A k \in owned : k \in Nat /\ header[k].map_beg + header[k].map_size \in Nat
  BY MappingPages DEF STypeOK
<1>2. BlocksAt(p) = {}
  BY <1>1 DEF BlocksAt
<1> QED
  BY <1>2 DEF BlockOf

\* The block an address belongs to depends on the blocks and their mappings.
LEMMA BlockStays ==
  ASSUME owned' = owned, ptr' = ptr,
         \A g \in owned : /\ header'[g].map_beg = header[g].map_beg
                          /\ header'[g].map_size = header[g].map_size
  PROVE  BlockOf(ptr)' = BlockOf(ptr)
<1>1. BlocksAt(ptr)' = BlocksAt(ptr)
  BY DEF BlocksAt
<1> QED
  BY <1>1 DEF BlockOf, GetUser

\* A mapping depends on its header.
LEMMA MappingStays ==
  ASSUME NEW g, header'[g].map_beg = header[g].map_beg,
         header'[g].map_size = header[g].map_size
  PROVE  Mapping(g)' = Mapping(g)
BY DEF Mapping, MapRange

\* The headers that stay in use stay apart.
LEMMA FewerStayApart ==
  ASSUME Apart,
         \A k \in Live' : /\ k \in Live /\ Mapping(k)' = Mapping(k)
                          /\ Mapping(k) \subseteq mapped'
  PROVE  /\ (Live \subseteq AddressSpace)'
         /\ (\A k \in Live : k \in Mapping(k) /\ Mapping(k) \subseteq mapped)'
         /\ (\A k, l \in Live : k # l => Mapping(k) \cap Mapping(l) = {})'
<1>1. /\ \A k \in Live : k \in AddressSpace /\ k \in Mapping(k)
      /\ \A k, l \in Live : k # l => Mapping(k) \cap Mapping(l) = {}
  BY DEF Apart
<1>2. (Live \subseteq AddressSpace)'
  BY <1>1
<1>3. (\A k \in Live : k \in Mapping(k) /\ Mapping(k) \subseteq mapped)'
  BY <1>1
<1>4. (\A k, l \in Live : k # l => Mapping(k) \cap Mapping(l) = {})'
  BY <1>1
<1> QED
  BY <1>2, <1>3, <1>4

\* No header is in the array twice.
LEMMA NoDuplicates ==
  ASSUME STypeOK, Indexed
  PROVE  /\ chunks_ \in Seq(Nat)
         /\ \A i, j \in DOMAIN chunks_ : chunks_[i] = chunks_[j] => i = j
         /\ Range(chunks_) = owned
         /\ IsFiniteSet(owned) /\ owned \in SUBSET Nat
<1>1. chunks_ \in Seq(Nat)
  <2>1. chunks_ \in [1 .. Len(chunks_) -> AddressSpace] /\ Len(chunks_) \in Nat
    BY DEF STypeOK
  <2>2. chunks_ \in [1 .. Len(chunks_) -> Nat]
    BY <2>1, SecondaryAssumption, Zenon
  <2> QED
    BY <2>1, <2>2
<1>2. \A i, j \in DOMAIN chunks_ : chunks_[i] = chunks_[j] => i = j
  BY DEF Indexed
<1>3. Range(chunks_) = owned
  BY DEF Indexed, Range
<1> QED
  BY <1>1, <1>2, <1>3, Members

-------------------------------------------------------------------------------
(* The invariant implies the properties.                                     *)

\* The invariant says that the array holds the blocks of the callers, once each.
LEMMA InvImpliesArrayIsExact == SInv => ArrayIsExact
<1> SUFFICES ASSUME SInv
             PROVE  ArrayIsExact
  OBVIOUS
<1>1. ~check_failed \/ Len(chunks_) = kMaxNumChunks
  BY DEF SInv, STypeOK, Indexed
<1>2. Range(chunks_) = owned
  BY NoDuplicates DEF SInv
<1>3. ASSUME NEW i \in DOMAIN chunks_
      PROVE  /\ header[chunks_[i]].chunk_idx = i
             /\ chunks_[i] \in Mapping(chunks_[i])
             /\ Mapping(chunks_[i]) \subseteq mapped
  <2>1. chunks_[i] \in Live /\ header[chunks_[i]].chunk_idx = i
    BY DEF SInv, Indexed, Live
  <2> QED
    BY <2>1 DEF SInv, Apart
<1>4. ASSUME NEW i \in DOMAIN chunks_, NEW j \in DOMAIN chunks_, i # j
      PROVE  Mapping(chunks_[i]) \cap Mapping(chunks_[j]) = {}
  <2>1. chunks_[i] \in Live /\ chunks_[j] \in Live
    BY DEF SInv, Indexed, Live
  <2>2. chunks_[i] # chunks_[j]
    BY <1>4, NoDuplicates DEF SInv
  <2> QED
    BY <2>1, <2>2 DEF SInv, Apart
<1> QED
  BY <1>1, <1>2, <1>3, <1>4 DEF ArrayIsExact

\* GetBlockBegin finds the nearest block below.
LEMMA LinearSearch ==
  ASSUME SInv, NEW p \in AddressSpace
  PROVE  GetBlockBegin(p) = BlockOf(p)
<1> DEFINE left == {g \in Range(chunks_) : g <= p}
<1>0. p \in Nat /\ STypeOK /\ Apart
  BY SecondaryAssumption DEF SInv
<1>1. Range(chunks_) = owned /\ IsFiniteSet(owned) /\ owned \in SUBSET Nat
  BY NoDuplicates DEF SInv
<1>2. left \in SUBSET owned /\ left \in SUBSET Nat
  BY <1>1, Zenon
<1>3. \A k \in owned : k <= p => k \in left
  BY <1>1
<1>4. \A k \in left : k <= p
  OBVIOUS
<1>5. GetBlockBegin(p) =
        IF left = {} \/ header[Max(left)].map_beg + header[Max(left)].map_size <= p
        THEN 0 ELSE GetUser(Max(left))
  BY DEF GetBlockBegin
<1> HIDE DEF left
<1>6. IsFiniteSet(left)
  BY <1>1, <1>2, FS_Subset, Zenon
<1>7. CASE left = {}
  <2>1. \A k \in owned : ~(k <= p)
    BY <1>3, <1>7
  <2> QED
    BY <1>0, <1>5, <1>7, <2>1, BelowAll
<1>8. CASE left # {}
  <2> DEFINE g == Max(left)
  <2>1. g \in left /\ \A k \in left : k <= g
    BY <1>2, <1>6, <1>8, MaxIsLargest
  <2> HIDE DEF g
  <2>2. g \in owned /\ g <= p /\ \A k \in owned : k <= p => k <= g
    BY <1>2, <1>3, <1>4, <2>1
  <2>3. BlockOf(p) = IF p \in Mapping(g) THEN GetUser(g) ELSE 0
    BY <1>0, <2>2, Nearest
  <2>4. g \in AddressSpace
    BY <1>0, <2>2 DEF STypeOK
  <2>5. /\ g \in Nat /\ header[g].map_beg \in Nat /\ header[g].map_size \in Nat
        /\ \A q \in Nat : q \in Mapping(g) <=>
             header[g].map_beg <= q /\ q < header[g].map_beg + header[g].map_size
    BY <1>0, <2>4, MappingPages
  <2>6. g \in Mapping(g)
    BY <2>2 DEF SInv, Apart, Live
  <2>7. p \in Mapping(g) <=> ~(header[g].map_beg + header[g].map_size <= p)
    BY <1>0, <2>2, <2>5, <2>6
  <2> QED
    BY <1>5, <1>8, <2>3, <2>7 DEF g
<1> QED
  BY <1>7, <1>8

\* The invariant says that both searches find the block that holds the address.
LEMMA InvImpliesLookupsAgree == SInv => LookupsAgree
BY LinearSearch DEF SInv, Sound, LookupsAgree

-------------------------------------------------------------------------------
(* The steps.                                                                *)

\* The block lies behind its header in the mapping, whatever the alignment.
LEMMA HeaderFits ==
  ASSUME NEW size \in Nat \ {0}, NEW alignment \in Nat \ {0}, NEW map_beg \in Nat \ {0},
         NEW map_size, map_size = size + 1 + (IF alignment > 1 THEN alignment ELSE 0)
  PROVE  /\ map_size \in Nat
         /\ AlignUp(map_beg + 1, alignment) - 1 \in MapRange(map_beg, map_size)
<1> DEFINE q == (map_beg + 1) % alignment
<1>1. q \in 0 .. alignment - 1
  BY Z3
<1>2. AlignUp(map_beg + 1, alignment) =
        IF q = 0 THEN map_beg + 1 ELSE map_beg + 1 + alignment - q
  BY DEF AlignUp
<1> HIDE DEF q
<1>3. map_size \in Nat
  OBVIOUS
<1>4. CASE alignment = 1
  BY <1>1, <1>2, <1>4 DEF MapRange
<1>5. CASE alignment > 1
  BY <1>1, <1>2, <1>5 DEF MapRange
<1> QED
  BY <1>3, <1>4, <1>5

\* What does not touch the array leaves it in order, as long as the headers of
\* the callers' blocks stay.
LEMMA ArrayStays ==
  ASSUME SInv, UNCHANGED array, check_failed' = check_failed,
         \A g \in owned : header'[g] = header[g]
  PROVE  Indexed'
<1>1. \A i \in DOMAIN chunks_ : chunks_[i] \in owned /\ header[chunks_[i]].chunk_idx = i
  BY DEF SInv, Indexed
<1>2. \A g \in owned : \E i \in DOMAIN chunks_ : chunks_[i] = g
  BY DEF SInv, Indexed
<1> QED
  BY <1>1, <1>2 DEF SInv, Indexed, array

\* Nor does it disturb a lookup.
LEMMA LookupStays ==
  ASSUME SInv, UNCHANGED << array, lookup, locked >>,
         \A g \in owned : header'[g] = header[g]
  PROVE  Sound'
<1>1. BlockOf(ptr)' = BlockOf(ptr)
  BY BlockStays DEF array, lookup
<1> QED
  BY <1>1 DEF SInv, Sound, array, lookup

\* Allocate, before the mutex: the new mapping overlaps no other.
LEMMA MmapStep ==
  ASSUME SInv, NEW t \in Callers, NEW size \in LargeSizes, NEW a \in Alignments,
         NEW map_beg \in AddressSpace, Mmap(t, size, a, map_beg)
  PROVE  SInv'
<1> DEFINE map_size == size + 1 + (IF a > 1 THEN a ELSE 0)
           pages == MapRange(map_beg, map_size)
           g == AlignUp(map_beg + 1, a) - 1
           new == [map_beg |-> map_beg, map_size |-> map_size, chunk_idx |-> 0]
<1>1. map_beg \in Nat \ {0} /\ size \in Nat \ {0} /\ a \in Nat \ {0}
  BY SecondaryAssumption
<1>2. map_size \in Nat /\ g \in pages
  BY <1>1, HeaderFits, Zenon
<1>3. /\ at[t] = "idle"
      /\ pages \subseteq AddressSpace
      /\ pages \cap mapped = {}
      /\ mapped' = mapped \cup pages
      /\ header' = [header EXCEPT ![g] = new]
      /\ at' = [at EXCEPT ![t] = "insert"]
      /\ h' = [h EXCEPT ![t] = g]
      /\ UNCHANGED << array, locked, lookup, check_failed >>
  BY DEF Mmap
<1>3a. new \in [map_beg : Nat, map_size : Nat, chunk_idx : Nat]
       /\ new.map_beg = map_beg /\ new.map_size = map_size
  BY <1>1, <1>2
<1> HIDE DEF map_size, g, new
<1>4. g \in AddressSpace /\ g \in Nat /\ g \notin mapped
  BY <1>2, <1>3, SecondaryAssumption, Zenon
<1>5. \A k \in Live : k \in AddressSpace /\ k \in mapped /\ k # g
  BY <1>4, Zenon DEF SInv, Apart
<1>6. \A k \in Live : header'[k] = header[k] /\ Mapping(k)' = Mapping(k)
  <2> TAKE k \in Live
  <2>1. header'[k] = header[k]
    BY <1>3, <1>5 DEF SInv, STypeOK
  <2> QED
    BY <2>1, MappingStays
<1>7. Mapping(g)' = pages
  <2>1. header'[g] = new
    BY <1>3, <1>4 DEF SInv, STypeOK
  <2> QED
    BY <1>3a, <2>1 DEF Mapping
<1> HIDE DEF pages
<1>8. owned' = owned
  BY <1>3 DEF array
<1>9. \A u \in Callers : u # t => at'[u] = at[u] /\ h'[u] = h[u]
  BY <1>3 DEF SInv, STypeOK
<1>10. at'[t] = "insert" /\ h'[t] = g
  BY <1>3 DEF SInv, STypeOK
<1>11. STypeOK'
  BY <1>3, <1>3a, <1>4 DEF SInv, STypeOK, array, lookup
<1>12. \A k \in Live' : k \in Live \/ k = g
  BY <1>8, <1>9, <1>10, Zenon DEF Live
<1>13. Apart'
  <2>1. (Live \subseteq AddressSpace)'
    BY <1>4, <1>5, <1>12
  <2>2. \A u \in Callers : at[u] # "idle" => h[u] \in Live
    BY Zenon DEF Live
  <2>3. (\A u \in Callers : at[u] # "idle" => h[u] \notin owned)'
    <3>1. \A u \in Callers : at[u] # "idle" => h[u] \notin owned
      BY DEF SInv, Apart
    <3>2. g \notin owned
      BY <1>5 DEF Live
    <3> QED
      BY <1>8, <1>9, <1>10, <3>1, <3>2
  <2>4. (\A u, v \in Callers : u # v /\ at[u] # "idle" /\ at[v] # "idle" => h[u] # h[v])'
    <3>1. \A u, v \in Callers : u # v /\ at[u] # "idle" /\ at[v] # "idle" => h[u] # h[v]
      BY DEF SInv, Apart
    <3> QED
      BY <1>5, <1>9, <1>10, <2>2, <3>1
  <2>5. (\A k \in Live : k \in Mapping(k) /\ Mapping(k) \subseteq mapped)'
    <3>1. \A k \in Live : k \in Mapping(k) /\ Mapping(k) \subseteq mapped
      BY Zenon DEF SInv, Apart
    <3> QED
      BY <1>2, <1>3, <1>6, <1>7, <1>12, <3>1
  <2>6. (\A k, l \in Live : k # l => Mapping(k) \cap Mapping(l) = {})'
    <3>1. \A k, l \in Live : k # l => Mapping(k) \cap Mapping(l) = {}
      BY DEF SInv, Apart
    <3>2. \A k \in Live : Mapping(k) \cap pages = {}
      BY <1>3 DEF SInv, Apart
    <3>3. ASSUME NEW k \in Live', NEW l \in Live', k # l, k # g
          PROVE  Mapping(k)' \cap Mapping(l)' = {}
      <4>1. k \in Live /\ Mapping(k)' = Mapping(k)
        BY <1>6, <1>12, <3>3
      <4>2. CASE l = g
        BY <1>7, <3>2, <4>1, <4>2
      <4>3. CASE l # g
        BY <1>6, <1>12, <3>1, <3>3, <4>1, <4>3
      <4> QED
        BY <4>2, <4>3
    <3>4. \A k, l \in Live' : k # l => Mapping(k)' \cap Mapping(l)' = {}
      BY <3>3
    <3> QED
      BY <3>4
  <2> QED
    BY <2>1, <2>3, <2>4, <2>5, <2>6, Zenon DEF Apart
<1>14. \A k \in owned : header'[k] = header[k]
  BY <1>6 DEF Live
<1>15. Indexed'
  BY <1>3, <1>14, ArrayStays
<1>16. Sound'
  BY <1>3, <1>14, LookupStays
<1> QED
  BY <1>11, <1>13, <1>15, <1>16 DEF SInv

\* While nobody holds the mutex there is no lookup.
LEMMA NoLookup ==
  ASSUME SInv, locked = NoThread
  PROVE  ptr = 0 /\ beg = 0
BY DEF SInv, Sound, STypeOK

\* A header that is told its index keeps its mapping.
LEMMA Reindexed ==
  ASSUME STypeOK, NEW g \in AddressSpace, NEW i \in Nat,
         header' = [header EXCEPT ![g].chunk_idx = i]
  PROVE  /\ header' \in [AddressSpace -> [map_beg : Nat, map_size : Nat, chunk_idx : Nat]]
         /\ header'[g].chunk_idx = i
         /\ \A k \in AddressSpace :
              /\ header'[k].map_beg = header[k].map_beg
              /\ header'[k].map_size = header[k].map_size
              /\ k # g => header'[k] = header[k]
<1> DEFINE new == [header[g] EXCEPT !.chunk_idx = i]
<1>1. \A k \in AddressSpace : header[k] \in [map_beg : Nat, map_size : Nat, chunk_idx : Nat]
  BY DEF STypeOK
<1>2. /\ new \in [map_beg : Nat, map_size : Nat, chunk_idx : Nat]
      /\ new.chunk_idx = i /\ new.map_beg = header[g].map_beg
      /\ new.map_size = header[g].map_size
  BY <1>1
<1>3. header' = [header EXCEPT ![g] = new]
  OBVIOUS
<1> HIDE DEF new
<1>4. header \in [AddressSpace -> [map_beg : Nat, map_size : Nat, chunk_idx : Nat]]
  BY DEF STypeOK
<1> QED
  BY <1>2, <1>3, <1>4

\* Allocate, under the mutex: the header goes to the end of the array.
LEMMA InsertStep ==
  ASSUME SInv, ~check_failed, NEW t \in Callers, InsertHeader(t)
  PROVE  SInv'
<1> DEFINE g == h[t]
           n == Len(chunks_)
<1>0. STypeOK /\ Apart /\ Indexed /\ Sound
  BY DEF SInv
<1>1. /\ at[t] = "insert" /\ locked = NoThread
      /\ at' = [at EXCEPT ![t] = "idle"]
      /\ h' = [h EXCEPT ![t] = 0]
      /\ UNCHANGED << mapped, locked, lookup >>
  BY DEF InsertHeader
<1>2. ptr = 0 /\ beg = 0 /\ ptr' = 0 /\ beg' = 0
  BY <1>1, NoLookup DEF lookup
<1>3. g \in Live /\ g \notin owned /\ g \in AddressSpace
  BY <1>0, <1>1 DEF Live, Apart
<1>4. n \in Nat /\ kMaxNumChunks \in Nat /\ n <= kMaxNumChunks
  BY <1>0, SecondaryAssumption DEF STypeOK, Indexed
<1>5. /\ at'[t] = "idle"
      /\ \A u \in Callers : u # t => at'[u] = at[u] /\ h'[u] = h[u]
  BY <1>0, <1>1 DEF STypeOK
<1>6. at' \in [Callers -> {"idle", "insert", "unmap"}] /\ h' \in [Callers -> Nat]
  BY <1>0, <1>1 DEF STypeOK
<1>7. CASE n >= kMaxNumChunks
  <2>1. check_failed' = TRUE /\ UNCHANGED << header, array >>
    BY <1>7 DEF InsertHeader
  <2>2. STypeOK'
    BY <1>0, <1>1, <1>6, <2>1 DEF STypeOK, array, lookup
  <2>3. Live' \subseteq Live
    BY <1>5, <2>1, Zenon DEF Live, array
  <2>4. Apart'
    <3>1. \A k \in Live' : /\ k \in Live /\ Mapping(k)' = Mapping(k)
                           /\ Mapping(k) \subseteq mapped'
      <4>1. \A k : header'[k] = header[k] /\ Mapping(k)' = Mapping(k)
        BY <2>1, MappingStays
      <4> QED
        BY <1>0, <1>1, <2>3, <4>1, Zenon DEF Apart
    <3>2. (\A u \in Callers : at[u] # "idle" => h[u] \notin owned)'
      BY <1>0, <1>5, <2>1 DEF Apart, array
    <3>3. (\A u, v \in Callers : u # v /\ at[u] # "idle" /\ at[v] # "idle" => h[u] # h[v])'
      BY <1>0, <1>5 DEF Apart
    <3> QED
      BY <1>0, <3>1, <3>2, <3>3, FewerStayApart, Zenon DEF Apart
  <2>5. Indexed'
    <3>1. chunks_' = chunks_ /\ owned' = owned /\ header' = header
      BY <2>1 DEF array
    <3>2. n = kMaxNumChunks
      BY <1>4, <1>7
    <3> QED
      BY <1>0, <3>1, <3>2 DEF Indexed
  <2>6. Sound'
    BY <1>0, <1>2, <2>1 DEF Sound, array
  <2> QED
    BY <2>2, <2>4, <2>5, <2>6 DEF SInv
<1>8. CASE ~(n >= kMaxNumChunks)
  <2>1. /\ chunks_' = Append(chunks_, g)
        /\ header' = [header EXCEPT ![g].chunk_idx = n + 1]
        /\ chunks_sorted_' = FALSE
        /\ owned' = owned \cup {g}
        /\ check_failed' = check_failed
    BY <1>8 DEF InsertHeader
  <2>1a. n + 1 \in Nat
    BY <1>4
  <2>2. /\ header' \in [AddressSpace -> [map_beg : Nat, map_size : Nat, chunk_idx : Nat]]
        /\ header'[g].chunk_idx = n + 1
        /\ \A k \in AddressSpace :
             /\ header'[k].map_beg = header[k].map_beg
             /\ header'[k].map_size = header[k].map_size
             /\ k # g => header'[k] = header[k]
    BY <1>0, <1>3, <2>1, <2>1a, Reindexed, Zenon
  <2>4. /\ chunks_' \in Seq(AddressSpace) /\ Len(chunks_') = n + 1
        /\ \A i \in 1 .. n : chunks_'[i] = chunks_[i]
        /\ chunks_'[n + 1] = g
    BY <1>0, <1>3, <2>1 DEF STypeOK
  <2>5. STypeOK'
    BY <1>0, <1>1, <1>3, <1>6, <2>1, <2>2, <2>4, Zenon DEF STypeOK, lookup
  <2>6. Live' \subseteq Live
    BY <1>3, <1>5, <2>1 DEF Live
  <2>7. \A k \in Live : Mapping(k)' = Mapping(k)
    BY <1>0, <2>2, MappingStays DEF Apart
  <2>8. Apart'
    <3>1. \A u \in Callers : at'[u] # "idle" =>
            u # t /\ at[u] # "idle" /\ h'[u] = h[u] /\ h[u] # g
      BY <1>0, <1>1, <1>5 DEF Apart
    <3>2. (\A u \in Callers : at[u] # "idle" => h[u] \notin owned)'
      BY <1>0, <2>1, <3>1 DEF Apart
    <3>3. (\A u, v \in Callers : u # v /\ at[u] # "idle" /\ at[v] # "idle" => h[u] # h[v])'
      BY <1>0, <3>1 DEF Apart
    <3> QED
      BY <1>0, <1>1, <2>6, <2>7, <3>2, <3>3 DEF Apart
  <2>9. Indexed'
    <3>1. DOMAIN chunks_ = 1 .. n /\ DOMAIN chunks_' = 1 .. n + 1
      BY <1>0, <2>4 DEF STypeOK
    <3>2. (\A i \in DOMAIN chunks_ : chunks_[i] \in owned /\ header[chunks_[i]].chunk_idx = i)'
      <4> SUFFICES ASSUME NEW i \in DOMAIN chunks_'
                   PROVE  chunks_'[i] \in owned' /\ header'[chunks_'[i]].chunk_idx = i
        OBVIOUS
      <4>1. CASE i = n + 1
        BY <2>1, <2>2, <2>4, <4>1
      <4>2. CASE i \in 1 .. n
        <5>1. chunks_[i] \in owned /\ header[chunks_[i]].chunk_idx = i
          BY <1>0, <3>1, <4>2 DEF Indexed
        <5>2. chunks_[i] # g /\ chunks_[i] \in AddressSpace
          BY <1>0, <1>3, <5>1 DEF STypeOK
        <5> QED
          BY <2>1, <2>2, <2>4, <4>2, <5>1, <5>2
      <4> QED
        BY <1>4, <3>1, <4>1, <4>2
    <3>3. (\A k \in owned : \E i \in DOMAIN chunks_ : chunks_[i] = k)'
      <4> SUFFICES ASSUME NEW k \in owned'
                   PROVE  \E i \in DOMAIN chunks_' : chunks_'[i] = k
        OBVIOUS
      <4>1. CASE k = g
        <5>1. n + 1 \in DOMAIN chunks_'
          BY <1>4, <3>1
        <5> QED
          BY <2>4, <4>1, <5>1
      <4>2. CASE k \in owned
        <5>1. PICK i \in 1 .. n : chunks_[i] = k
          BY <1>0, <3>1, <4>2 DEF Indexed
        <5>2. i \in DOMAIN chunks_'
          BY <1>4, <3>1
        <5> QED
          BY <2>4, <5>1, <5>2
      <4> QED
        BY <2>1, <4>1, <4>2
    <3>4. (Len(chunks_) <= kMaxNumChunks)' /\ ~check_failed'
      BY <1>4, <1>8, <2>1, <2>4
    <3> QED
      BY <3>2, <3>3, <3>4 DEF Indexed
  <2>10. Sound'
    BY <1>2, <2>1 DEF Sound
  <2> QED
    BY <2>5, <2>8, <2>9, <2>10 DEF SInv
<1> QED
  BY <1>7, <1>8

\* An array in which the last entry takes the place of another.
Filled(s, idx) == SubSeq([s EXCEPT ![idx] = s[Len(s)]], 1, Len(s) - 1)

\* It is one shorter and differs in that place only.
LEMMA LastMoves ==
  ASSUME NEW S, NEW s \in Seq(S), NEW idx \in DOMAIN s
  PROVE  /\ Len(s) # 0
         /\ Filled(s, idx) \in Seq(S)
         /\ Len(Filled(s, idx)) = Len(s) - 1
         /\ \A i \in 1 .. Len(s) - 1 :
              Filled(s, idx)[i] = IF i = idx THEN s[Len(s)] ELSE s[i]
<1> DEFINE n == Len(s)
           q == [s EXCEPT ![idx] = s[n]]
<1>1. n \in Nat /\ DOMAIN s = 1 .. n /\ s \in [1 .. n -> S] /\ n # 0
  OBVIOUS
<1>2. s[n] \in S
  BY <1>1
<1>3. q \in [1 .. n -> S] /\ \A i \in 1 .. n : q[i] = IF i = idx THEN s[n] ELSE s[i]
  BY <1>1, <1>2
<1>4. Filled(s, idx) = SubSeq(q, 1, n - 1)
  BY DEF Filled
<1> HIDE DEF n, q
<1>5. q \in Seq(S) /\ Len(q) = n
  BY <1>1, <1>3
<1>6. Filled(s, idx) \in Seq(S) /\ Len(Filled(s, idx)) = n - 1
  BY <1>1, <1>4, <1>5
<1>7. \A i \in 1 .. n - 1 : Filled(s, idx)[i] = q[i]
  BY <1>1, <1>4, <1>5
<1>8. \A i \in 1 .. n - 1 : i \in 1 .. n
  BY <1>1
<1>9. \A i \in 1 .. n - 1 : Filled(s, idx)[i] = IF i = idx THEN s[n] ELSE s[i]
  BY <1>3, <1>7, <1>8
<1> QED
  BY <1>1, <1>6, <1>9 DEF n

\* Deallocate, under the mutex: its CHECK holds, and the last header of the
\* array takes the place of the one that goes.
LEMMA RemoveStep ==
  ASSUME SInv, ~check_failed, NEW t \in Callers, NEW g \in owned, RemoveHeader(t, g)
  PROVE  SInv'
<1> DEFINE n == Len(chunks_)
           idx == header[g].chunk_idx
           last == chunks_[n]
<1>0. STypeOK /\ Apart /\ Indexed /\ Sound
  BY DEF SInv
<1>1. n \in Nat /\ DOMAIN chunks_ = 1 .. n /\ g \in AddressSpace /\ g \in Nat
  BY <1>0, SecondaryAssumption DEF STypeOK
<1>2. idx \in 1 .. n /\ chunks_[idx] = g
  <2>1. PICK i \in 1 .. n : chunks_[i] = g
    BY <1>0, <1>1 DEF Indexed
  <2>2. header[chunks_[i]].chunk_idx = i
    BY <1>0, <1>1 DEF Indexed
  <2> QED
    BY <2>1, <2>2
<1>3. /\ at[t] = "idle" /\ locked = NoThread
      /\ chunks_' = SubSeq([chunks_ EXCEPT ![idx] = last], 1, n - 1)
      /\ header' = [header EXCEPT ![last].chunk_idx = idx]
      /\ chunks_sorted_' = FALSE
      /\ owned' = owned \ {g}
      /\ at' = [at EXCEPT ![t] = "unmap"]
      /\ h' = [h EXCEPT ![t] = g]
      /\ UNCHANGED << mapped, locked, lookup, check_failed >>
  BY <1>1, <1>2 DEF RemoveHeader, MovedTo
<1>4. /\ n # 0 /\ chunks_' \in Seq(AddressSpace) /\ Len(chunks_') = n - 1
      /\ \A i \in 1 .. n - 1 : chunks_'[i] = IF i = idx THEN last ELSE chunks_[i]
  <2>1. chunks_ \in Seq(AddressSpace) /\ idx \in DOMAIN chunks_
    BY <1>0, <1>1, <1>2 DEF STypeOK
  <2> HIDE DEF idx
  <2>2. chunks_' = Filled(chunks_, idx)
    BY <1>3 DEF Filled
  <2>3. /\ n # 0 /\ Filled(chunks_, idx) \in Seq(AddressSpace)
        /\ Len(Filled(chunks_, idx)) = n - 1
        /\ \A i \in 1 .. n - 1 : Filled(chunks_, idx)[i] =
                                   IF i = idx THEN chunks_[n] ELSE chunks_[i]
    BY <2>1, LastMoves, Zenon
  <2> QED
    BY <2>2, <2>3
<1>5. last \in owned /\ last \in AddressSpace /\ header[last].chunk_idx = n
  <2>1. n \in DOMAIN chunks_
    BY <1>1, <1>4
  <2>2. last \in owned /\ header[last].chunk_idx = n
    BY <1>0, <2>1 DEF Indexed
  <2> QED
    BY <1>0, <2>2 DEF STypeOK
<1>6. idx \in Nat
  BY <1>1, <1>2
<1>7. /\ header' \in [AddressSpace -> [map_beg : Nat, map_size : Nat, chunk_idx : Nat]]
      /\ header'[last].chunk_idx = idx
      /\ \A k \in AddressSpace :
           /\ header'[k].map_beg = header[k].map_beg
           /\ header'[k].map_size = header[k].map_size
           /\ k # last => header'[k] = header[k]
  <2> HIDE DEF last, idx
  <2> QED
    BY <1>0, <1>3, <1>5, <1>6, Reindexed, Zenon
<1> HIDE DEF idx, last, n
<1>8. ptr = 0 /\ beg = 0 /\ ptr' = 0 /\ beg' = 0
  BY <1>3, NoLookup DEF lookup
<1>9. /\ at'[t] = "unmap" /\ h'[t] = g
      /\ \A u \in Callers : u # t => at'[u] = at[u] /\ h'[u] = h[u]
  BY <1>0, <1>3 DEF STypeOK
<1>10. STypeOK'
  BY <1>0, <1>1, <1>3, <1>4, <1>7, Zenon DEF STypeOK, lookup
<1>11. Live' \subseteq Live
  BY <1>3, <1>9 DEF Live
<1>12. Apart'
  <2>1. \A k \in Live : Mapping(k)' = Mapping(k)
    BY <1>0, <1>7, MappingStays DEF Apart
  <2>2. (\A u \in Callers : at[u] # "idle" => h[u] \notin owned)'
    BY <1>0, <1>3, <1>9 DEF Apart
  <2>3. (\A u, v \in Callers : u # v /\ at[u] # "idle" /\ at[v] # "idle" => h[u] # h[v])'
    BY <1>0, <1>9, Zenon DEF Apart
  <2> QED
    BY <1>0, <1>3, <1>11, <2>1, <2>2, <2>3 DEF Apart
<1>13. Indexed'
  <2>1. DOMAIN chunks_' = 1 .. n - 1
    BY <1>1, <1>4
  <2>2. (\A i \in DOMAIN chunks_ : chunks_[i] \in owned /\ header[chunks_[i]].chunk_idx = i)'
    <3> SUFFICES ASSUME NEW i \in 1 .. n - 1
                 PROVE  chunks_'[i] \in owned' /\ header'[chunks_'[i]].chunk_idx = i
      BY <2>1
    <3>1. i \in DOMAIN chunks_ /\ i # n
      BY <1>1
    <3>2. CASE i = idx
      <4>1. chunks_'[i] = last
        BY <1>4, <3>2
      <4>2. last # g
        BY <1>5, <3>1, <3>2 DEF idx
      <4> QED
        BY <1>3, <1>5, <1>7, <3>2, <4>1, <4>2, Zenon
    <3>3. CASE i # idx
      <4>1. chunks_'[i] = chunks_[i]
        BY <1>4, <3>3
      <4>2. chunks_[i] \in owned /\ header[chunks_[i]].chunk_idx = i
        BY <1>0, <3>1 DEF Indexed
      <4>3. chunks_[i] # g /\ chunks_[i] # last /\ chunks_[i] \in AddressSpace
        BY <1>0, <1>5, <3>1, <3>3, <4>2 DEF idx, STypeOK
      <4> QED
        BY <1>3, <1>7, <4>1, <4>2, <4>3, Zenon
    <3> QED
      BY <3>2, <3>3
  <2>3. (\A k \in owned : \E i \in DOMAIN chunks_ : chunks_[i] = k)'
    <3> SUFFICES ASSUME NEW k \in owned'
                 PROVE  \E i \in 1 .. n - 1 : chunks_'[i] = k
      BY <2>1
    <3>1. k \in owned /\ k # g
      BY <1>3
    <3>2. PICK i \in 1 .. n : chunks_[i] = k
      BY <1>0, <1>1, <3>1 DEF Indexed
    <3>3. i # idx
      BY <1>2, <3>1, <3>2
    <3>4. CASE i = n
      <4>1. idx \in 1 .. n - 1
        BY <1>1, <1>2, <3>3, <3>4
      <4>2. k = last
        BY <3>2, <3>4 DEF last
      <4> QED
        BY <1>4, <4>1, <4>2
    <3>5. CASE i # n
      <4>1. i \in 1 .. n - 1
        BY <1>1, <3>5
      <4> QED
        BY <1>4, <3>2, <3>3, <4>1
    <3> QED
      BY <3>4, <3>5
  <2>4. (Len(chunks_) <= kMaxNumChunks)' /\ ~check_failed'
    <3>1. n <= kMaxNumChunks /\ kMaxNumChunks \in Nat
      BY <1>0, SecondaryAssumption DEF Indexed, n
    <3> QED
      BY <1>1, <1>3, <1>4, <3>1
  <2> QED
    BY <2>2, <2>3, <2>4 DEF Indexed
<1>14. Sound'
  BY <1>3, <1>8 DEF Sound
<1> QED
  BY <1>10, <1>12, <1>13, <1>14 DEF SInv

\* Deallocate, after the mutex: only the removed block's pages go.
LEMMA UnmapStep ==
  ASSUME SInv, NEW t \in Callers, Unmap(t)
  PROVE  SInv'
<1> DEFINE g == h[t]
<1>0. STypeOK /\ Apart
  BY DEF SInv
<1>1. /\ at[t] = "unmap"
      /\ mapped' = mapped \ Mapping(g)
      /\ header' = [p \in AddressSpace |-> IF p \in Mapping(g) THEN NoHeader ELSE header[p]]
      /\ at' = [at EXCEPT ![t] = "idle"]
      /\ h' = [h EXCEPT ![t] = 0]
      /\ UNCHANGED << array, locked, lookup, check_failed >>
  BY DEF Unmap
<1>2. g \in Live /\ g \notin owned
  BY <1>0, <1>1, Zenon DEF Live, Apart
<1>3. /\ at'[t] = "idle"
      /\ \A u \in Callers : u # t => at'[u] = at[u] /\ h'[u] = h[u]
  BY <1>0, <1>1 DEF STypeOK
<1>4. \A k \in Live' : k \in Live /\ k # g
  <2> TAKE k \in Live'
  <2>1. CASE k \in owned
    BY <1>2, <2>1 DEF Live
  <2>2. CASE k \notin owned
    <3>1. PICK u \in Callers : at'[u] # "idle" /\ k = h'[u]
      BY <1>1, <2>2 DEF Live, array
    <3>2. u # t /\ at[u] # "idle" /\ k = h[u]
      BY <1>3, <3>1
    <3>3. k # g
      BY <1>0, <1>1, <3>2, Zenon DEF Apart
    <3> QED
      BY <3>2, <3>3 DEF Live
  <2> QED
    BY <2>1, <2>2
<1>5. \A k \in Live : k # g => /\ k \in AddressSpace /\ k \in Mapping(k)
                               /\ Mapping(k) \cap Mapping(g) = {}
  BY <1>0, <1>2, Zenon DEF Apart
<1>6. \A k \in Live : k # g => header'[k] = header[k] /\ Mapping(k)' = Mapping(k)
  <2> SUFFICES ASSUME NEW k \in Live, k # g
               PROVE  header'[k] = header[k] /\ Mapping(k)' = Mapping(k)
    OBVIOUS
  <2>1. k \in AddressSpace /\ k \notin Mapping(g)
    BY <1>5
  <2>2. header'[k] = header[k]
    BY <1>1, <2>1
  <2> QED
    BY <2>2, MappingStays
<1>7. STypeOK'
  <2>1. NoHeader \in [map_beg : Nat, map_size : Nat, chunk_idx : Nat]
    BY DEF NoHeader
  <2>2. header' \in [AddressSpace -> [map_beg : Nat, map_size : Nat, chunk_idx : Nat]]
    BY <1>0, <1>1, <2>1 DEF STypeOK
  <2> QED
    BY <1>0, <1>1, <2>2 DEF STypeOK, array, lookup
<1>8. Apart'
  <2>1. \A k \in Live' : /\ k \in Live /\ Mapping(k)' = Mapping(k)
                         /\ Mapping(k) \subseteq mapped'
    <3> TAKE k \in Live'
    <3>1. k \in Live /\ k # g
      BY <1>4
    <3>2. Mapping(k)' = Mapping(k) /\ Mapping(k) \cap Mapping(g) = {}
      BY <1>5, <1>6, <3>1
    <3>3. Mapping(k) \subseteq mapped
      BY <1>0, <3>1, Zenon DEF Apart
    <3> QED
      BY <1>1, <3>1, <3>2, <3>3
  <2>2. owned' = owned
    BY <1>1 DEF array
  <2>3. (\A u \in Callers : at[u] # "idle" => h[u] \notin owned)'
    BY <1>0, <1>3, <2>2 DEF Apart
  <2>4. (\A u, v \in Callers : u # v /\ at[u] # "idle" /\ at[v] # "idle" => h[u] # h[v])'
    BY <1>0, <1>3 DEF Apart
  <2> QED
    BY <1>0, <2>1, <2>3, <2>4, FewerStayApart, Zenon DEF Apart
<1>9. \A k \in owned : header'[k] = header[k]
  BY <1>2, <1>6 DEF Live
<1>10. Indexed' /\ Sound'
  BY <1>1, <1>9, ArrayStays, LookupStays
<1> QED
  BY <1>7, <1>8, <1>10 DEF SInv

\* A step that leaves headers, mappings and the array alone keeps all but the
\* lookup.
LEMMA RestStays ==
  ASSUME SInv, UNCHANGED << mapped, header, array, at, h, check_failed >>
  PROVE  Apart' /\ Indexed'
<1>1. Live' = Live
  BY DEF Live, array
<1>2. \A g : Mapping(g)' = Mapping(g)
  BY DEF Mapping, MapRange
<1>3. Apart'
  BY <1>1, <1>2 DEF SInv, Apart, array
<1>4. Indexed'
  BY ArrayStays
<1> QED
  BY <1>3, <1>4

\* ForceLock and ForceUnlock.
LEMMA LockStep ==
  ASSUME SInv, NEW t \in Callers, ForceLock(t) \/ ForceUnlock(t)
  PROVE  SInv'
<1>1. CASE ForceLock(t)
  <2>1. ptr = 0 /\ beg = 0
    BY <1>1, NoLookup DEF ForceLock
  <2>2. STypeOK'
    BY <1>1 DEF ForceLock, SInv, STypeOK, array, lookup
  <2>3. Sound'
    BY <1>1, <2>1 DEF ForceLock, SInv, Sound, array, lookup
  <2>4. Apart' /\ Indexed'
    BY <1>1, RestStays DEF ForceLock
  <2> QED
    BY <2>2, <2>3, <2>4 DEF SInv
<1>2. CASE ForceUnlock(t)
  <2>1. STypeOK'
    BY <1>2 DEF ForceUnlock, SInv, STypeOK, array
  <2>2. Sound'
    BY <1>2 DEF ForceUnlock, SInv, Sound, array
  <2>3. Apart' /\ Indexed'
    BY <1>2, RestStays DEF ForceUnlock
  <2> QED
    BY <2>1, <2>2, <2>3 DEF SInv
<1> QED
  BY <1>1, <1>2

\* EnsureSortedChunks sorts the array and tells each header its new index.
LEMMA SortStep ==
  ASSUME SInv, NEW t \in Callers, EnsureSortedChunks(t)
  PROVE  SInv'
<1> DEFINE r == Sorted(chunks_)
           idx(p) == CHOOSE i \in DOMAIN chunks_ : r[i] = p
<1>0. STypeOK /\ Apart /\ Indexed /\ Sound
  BY DEF SInv
<1>1. /\ ~chunks_sorted_
      /\ chunks_' = r
      /\ header' = [p \in AddressSpace |-> IF p \in Range(chunks_)
                      THEN [header[p] EXCEPT !.chunk_idx = idx(p)] ELSE header[p]]
      /\ chunks_sorted_' = TRUE
      /\ UNCHANGED << mapped, owned, at, h, locked, lookup, check_failed >>
  BY DEF EnsureSortedChunks
<1>2. /\ chunks_ \in Seq(Nat)
      /\ \A i, j \in DOMAIN chunks_ : chunks_[i] = chunks_[j] => i = j
      /\ Range(chunks_) = owned
  BY <1>0, NoDuplicates
<1>3. /\ r \in Seq(owned) /\ Len(r) = Len(chunks_) /\ DOMAIN r = DOMAIN chunks_
      /\ \A x \in owned : \E i \in DOMAIN chunks_ : r[i] = x
      /\ \A i, j \in DOMAIN chunks_ : i < j => r[i] < r[j]
  BY <1>2, SortSorts
<1> HIDE DEF r
<1>4. \A x \in owned : idx(x) \in DOMAIN chunks_ /\ r[idx(x)] = x
  BY <1>3
<1>5. DOMAIN chunks_ \subseteq Nat /\ owned \subseteq AddressSpace
  BY <1>0 DEF STypeOK
<1>6. \A i \in DOMAIN chunks_ : r[i] \in owned /\ r[i] \in Nat /\ idx(r[i]) = i
  <2> TAKE i \in DOMAIN chunks_
  <2>1. r[i] \in owned
    BY <1>3
  <2>2. r[i] \in Nat
    BY <1>5, <2>1, SecondaryAssumption, Zenon
  <2>3. idx(r[i]) \in DOMAIN chunks_ /\ r[idx(r[i])] = r[i]
    BY <1>4, <2>1
  <2> HIDE DEF idx
  <2>4. ~(idx(r[i]) < i) /\ ~(i < idx(r[i]))
    BY <1>3, <2>2, <2>3
  <2>5. i \in Nat /\ idx(r[i]) \in Nat
    BY <1>5, <2>3
  <2>6. idx(r[i]) = i
    BY <2>4, <2>5
  <2> QED
    BY <2>1, <2>2, <2>6
<1> HIDE DEF idx
<1>7. \A p \in AddressSpace : header[p] \in [map_beg : Nat, map_size : Nat, chunk_idx : Nat]
  BY <1>0 DEF STypeOK
<1>8. \A p \in AddressSpace :
        /\ header'[p] \in [map_beg : Nat, map_size : Nat, chunk_idx : Nat]
        /\ header'[p].map_beg = header[p].map_beg
        /\ header'[p].map_size = header[p].map_size
        /\ p \in owned => header'[p].chunk_idx = idx(p)
  <2> TAKE p \in AddressSpace
  <2>1. CASE p \in owned
    <3>1. header'[p] = [header[p] EXCEPT !.chunk_idx = idx(p)]
      BY <1>1, <1>2, <2>1
    <3>2. idx(p) \in Nat
      BY <1>4, <1>5, <2>1
    <3> QED
      BY <1>7, <3>1, <3>2
  <2>2. CASE p \notin owned
    BY <1>1, <1>2, <1>7, <2>2
  <2> QED
    BY <2>1, <2>2
<1>9. STypeOK'
  <2>1. r \in Seq(AddressSpace)
    <3>1. r \in [1 .. Len(r) -> owned] /\ Len(r) \in Nat
      BY <1>3
    <3>2. r \in [1 .. Len(r) -> AddressSpace]
      BY <1>5, <3>1
    <3> QED
      BY <3>1, <3>2
  <2>2. header' \in [AddressSpace -> [map_beg : Nat, map_size : Nat, chunk_idx : Nat]]
    BY <1>1, <1>8
  <2> QED
    BY <1>0, <1>1, <2>1, <2>2 DEF STypeOK, lookup
<1>10. Apart'
  <2>1. Live' = Live
    BY <1>1 DEF Live
  <2>2. \A k \in Live : Mapping(k)' = Mapping(k)
    BY <1>0, <1>8, MappingStays DEF Apart
  <2> QED
    BY <1>0, <1>1, <2>1, <2>2 DEF Apart
<1>11. Indexed'
  <2>1. (\A i \in DOMAIN chunks_ : chunks_[i] \in owned /\ header[chunks_[i]].chunk_idx = i)'
    BY <1>1, <1>3, <1>5, <1>6, <1>8, Zenon
  <2>2. (\A k \in owned : \E i \in DOMAIN chunks_ : chunks_[i] = k)'
    BY <1>1, <1>3
  <2> QED
    BY <1>0, <1>1, <1>3, <2>1, <2>2, Zenon DEF Indexed
<1>12. Sound'
  <2>1. beg = 0 /\ UNCHANGED lookup /\ locked' = locked
    BY <1>0, <1>1 DEF Sound
  <2>2. BlockOf(ptr)' = BlockOf(ptr)
    BY <1>1, <1>5, <1>8, BlockStays DEF lookup
  <2>3. (\A i, j \in DOMAIN chunks_ : i < j => chunks_[i] < chunks_[j])'
    BY <1>1, <1>3
  <2> QED
    BY <1>0, <2>1, <2>2, <2>3 DEF Sound, lookup
<1> QED
  BY <1>9, <1>10, <1>11, <1>12 DEF SInv

\* In the sorted array, the header an address may belong to is the last one that
\* is not above it.
LEMMA NearestEntry ==
  ASSUME SInv, chunks_sorted_, NEW p \in Nat, NEW i \in DOMAIN chunks_,
         chunks_[i] <= p, i < Len(chunks_) => p < chunks_[i + 1]
  PROVE  BlockOf(p) = IF p \in Mapping(chunks_[i]) THEN GetUser(chunks_[i]) ELSE 0
<1>0. STypeOK /\ Apart /\ Indexed /\ Sound
  BY DEF SInv
<1>1. chunks_ \in Seq(Nat)
  BY <1>0, NoDuplicates
<1>2. \A j, k \in DOMAIN chunks_ : j < k => chunks_[j] < chunks_[k]
  BY <1>0 DEF Sound
<1>3. ASSUME NEW k \in owned, k <= p
      PROVE  k <= chunks_[i]
  <2>1. PICK j \in DOMAIN chunks_ : chunks_[j] = k
    BY <1>0 DEF Indexed
  <2>2. j <= i
    <3> SUFFICES ASSUME i < j
                 PROVE  FALSE
      BY <1>1
    <3>1. i + 1 \in DOMAIN chunks_ /\ i < Len(chunks_)
      BY <1>1
    <3>2. i + 1 = j \/ chunks_[i + 1] < chunks_[j]
      BY <1>1, <1>2, <3>1
    <3> QED
      BY <1>1, <1>3, <2>1, <3>1, <3>2
  <2> QED
    BY <1>1, <1>2, <2>1, <2>2
<1>4. chunks_[i] \in owned
  BY <1>0 DEF Indexed
<1> QED
  BY <1>0, <1>3, <1>4, Nearest

\* GetBlockBeginFastLocked begins: an address it answers at once belongs to no
\* block.
LEMMA BeginStep ==
  ASSUME SInv, NEW t \in Callers, NEW p \in AddressSpace, BeginLookup(t, p)
  PROVE  SInv'
<1> DEFINE n == Len(chunks_)
           outside == \/ n = 0
                      \/ p < chunks_[1]
                      \/ p >= chunks_[n] + header[chunks_[n]].map_size
<1>0. STypeOK /\ Apart /\ Indexed /\ Sound
  BY DEF SInv
<1>1. /\ locked = t /\ beg = 0
      /\ chunks_sorted_ \/ chunks_ = << >>
      /\ ptr' = p /\ block' = 0
      /\ beg' = IF outside THEN 0 ELSE 1
      /\ end' = IF outside THEN 0 ELSE n
      /\ UNCHANGED << mapped, header, array, at, h, locked, check_failed >>
  BY DEF BeginLookup
<1>2. p \in Nat /\ p # 0 /\ t # NoThread
  BY SecondaryAssumption
<1>3. chunks_ \in Seq(Nat) /\ n \in Nat /\ DOMAIN chunks_ = 1 .. n
  BY <1>0, NoDuplicates
<1>4. \A k \in owned : \E j \in DOMAIN chunks_ : chunks_[j] = k
  BY <1>0 DEF Indexed
<1>5. n # 0 => /\ chunks_sorted_ /\ 1 \in DOMAIN chunks_ /\ n \in DOMAIN chunks_
               /\ chunks_[1] \in Nat /\ chunks_[n] \in Nat
  BY <1>1, <1>3
<1>6. n # 0 => \A k \in owned : chunks_[1] <= k
  BY <1>0, <1>3, <1>4, <1>5 DEF Sound
<1>7. outside => BlockOf(p) = 0
  <2>1. CASE n = 0
    <3>1. \A k \in owned : ~(k <= p)
      BY <1>3, <1>4, <2>1
    <3> QED
      BY <1>0, <1>2, <3>1, BelowAll
  <2>2. CASE n # 0 /\ p < chunks_[1]
    <3>1. \A k \in owned : k \in Nat
      BY <1>3, <1>4
    <3>2. \A k \in owned : ~(k <= p)
      BY <1>2, <1>5, <1>6, <2>2, <3>1
    <3> QED
      BY <1>0, <1>2, <3>2, BelowAll
  <2>3. CASE n # 0 /\ p >= chunks_[n] + header[chunks_[n]].map_size
    <3> DEFINE g == chunks_[n]
    <3>1. g \in owned /\ g \in AddressSpace
      BY <1>0, <1>5, <2>3 DEF Indexed, STypeOK
    <3>2. g \in Mapping(g)
      BY <1>0, <3>1 DEF Apart, Live
    <3> HIDE DEF g
    <3>3. /\ g \in Nat /\ header[g].map_beg \in Nat /\ header[g].map_size \in Nat
          /\ \A q \in Nat : q \in Mapping(g) <=>
               header[g].map_beg <= q /\ q < header[g].map_beg + header[g].map_size
      BY <1>0, <3>1, MappingPages
    <3>4. p >= g + header[g].map_size
      BY <2>3 DEF g
    <3>5. g <= p /\ p \notin Mapping(g)
      BY <1>2, <3>2, <3>3, <3>4
    <3>6. chunks_[n] <= p /\ p \notin Mapping(chunks_[n]) /\ ~(n < n)
      BY <1>3, <3>5 DEF g
    <3> QED
      BY <1>2, <1>5, <2>3, <3>6, NearestEntry
  <2> QED
    BY <2>1, <2>2, <2>3
<1>8. BlockOf(ptr)' = BlockOf(p)
  <2>1. BlocksAt(ptr)' = BlocksAt(p)
    BY <1>1 DEF BlocksAt, array
  <2> QED
    BY <2>1 DEF BlockOf, GetUser
<1>9. STypeOK'
  <2>1. beg' \in Nat /\ end' \in Nat
    BY <1>1, <1>3, Zenon
  <2> QED
    BY <1>0, <1>1, <1>2, <2>1 DEF STypeOK, array
<1>10. Sound'
  <2>1. /\ (chunks_sorted_ => \A i, j \in DOMAIN chunks_ : i < j => chunks_[i] < chunks_[j])'
        /\ locked' # NoThread
    BY <1>0, <1>1, <1>2, Zenon DEF Sound, array
  <2>2. CASE outside
    BY <1>1, <1>2, <1>7, <1>8, <2>1, <2>2, Zenon DEF Sound
  <2>3. CASE ~outside
    <3>1. n # 0 /\ chunks_[1] <= p
      BY <1>2, <1>5, <2>3
    <3>2. /\ beg' = 1
          /\ end' = n
          /\ chunks_' = chunks_
          /\ chunks_sorted_' = chunks_sorted_
      BY <1>1, <2>3 DEF array
    <3>3. /\ ptr' = p /\ p # 0 /\ chunks_sorted_'
          /\ 1 <= beg' /\ beg' <= end' /\ end' <= n /\ ~(end' < n)
          /\ chunks_'[beg'] <= p
      BY <1>1, <1>2, <1>3, <3>1, <3>2
    <3>4. Len(chunks_') = n /\ beg' # 0
      BY <3>2
    <3> QED
      BY <2>1, <3>3, <3>4 DEF Sound
  <2> QED
    BY <2>2, <2>3
<1>11. Apart' /\ Indexed'
  BY <1>1, RestStays
<1> QED
  BY <1>9, <1>10, <1>11 DEF SInv

\* The loop: the middle is neither beg nor above end, and the half that is
\* dropped does not have the header.
LEMMA LoopStep ==
  ASSUME SInv, NEW t \in Callers, SearchLoop(t)
  PROVE  SInv'
<1> DEFINE mid == (beg + end) \div 2
<1>0. STypeOK /\ Apart /\ Indexed /\ Sound
  BY DEF SInv
<1>1. /\ beg # 0 /\ end - beg >= 2
      /\ IF ptr < chunks_[mid] THEN end' = mid - 1 /\ beg' = beg
                               ELSE beg' = mid /\ end' = end
      /\ UNCHANGED << mapped, header, array, at, h, locked, ptr, block, check_failed >>
  BY DEF SearchLoop
<1>2. /\ beg \in Nat /\ end \in Nat /\ ptr \in Nat
      /\ ptr # 0 /\ chunks_sorted_ /\ locked # NoThread
      /\ 1 <= beg /\ end <= Len(chunks_)
      /\ chunks_[beg] <= ptr
      /\ end < Len(chunks_) => ptr < chunks_[end + 1]
  BY <1>0, <1>1 DEF STypeOK, Sound
<1>3. mid \in Nat /\ beg + 1 <= mid /\ mid < end
  BY <1>1, <1>2
<1> HIDE DEF mid
<1>4. chunks_ \in Seq(Nat) /\ Len(chunks_) \in Nat /\ chunks_[mid] \in Nat
  <2>1. chunks_ \in Seq(Nat) /\ Len(chunks_) \in Nat
    BY <1>0, NoDuplicates
  <2>2. mid \in DOMAIN chunks_
    BY <1>2, <1>3, <2>1
  <2> QED
    BY <2>1, <2>2
<1>5. UNCHANGED << chunks_, chunks_sorted_, owned >>
  BY <1>1 DEF array
<1>6. STypeOK'
  <2>1. beg' \in Nat /\ end' \in Nat
    BY <1>1, <1>2, <1>3
  <2> QED
    BY <1>0, <1>1, <2>1 DEF STypeOK, array
<1>7. Sound'
  <2>1. /\ (chunks_sorted_ => \A i, j \in DOMAIN chunks_ : i < j => chunks_[i] < chunks_[j])'
        /\ locked' # NoThread /\ ptr' # 0 /\ chunks_sorted_'
    BY <1>0, <1>1, <1>2, <1>5 DEF Sound
  <2>2. CASE ptr < chunks_[mid]
    <3>1. end' = mid - 1 /\ beg' = beg /\ (mid - 1) + 1 = mid
      BY <1>1, <1>3, <2>2
    <3>2. beg' # 0 /\ 1 <= beg' /\ beg' <= end' /\ end' <= Len(chunks_)
      BY <1>2, <1>3, <1>4, <3>1
    <3>3. chunks_[beg'] <= ptr /\ ptr < chunks_[end' + 1]
      BY <1>2, <2>2, <3>1
    <3> QED
      BY <1>1, <1>5, <2>1, <3>2, <3>3 DEF Sound
  <2>3. CASE ~(ptr < chunks_[mid])
    <3>1. end' = end /\ beg' = mid
      BY <1>1, <2>3
    <3>2. beg' # 0 /\ 1 <= beg' /\ beg' <= end' /\ end' <= Len(chunks_)
      BY <1>2, <1>3, <1>4, <3>1
    <3>3. chunks_[beg'] <= ptr
      BY <1>2, <1>4, <2>3, <3>1
    <3> QED
      BY <1>1, <1>2, <1>5, <2>1, <3>1, <3>2, <3>3 DEF Sound
  <2> QED
    BY <2>2, <2>3
<1>8. Apart' /\ Indexed'
  BY <1>1, RestStays
<1> QED
  BY <1>6, <1>7, <1>8 DEF SInv

\* After the loop: the header that is chosen is the nearest one.
LEMMA EndStep ==
  ASSUME SInv, NEW t \in Callers, SearchEnd(t)
  PROVE  SInv'
<1>0. STypeOK /\ Apart /\ Indexed /\ Sound
  BY DEF SInv
<1>1. /\ beg # 0 /\ end - beg < 2
      /\ block' = IF ptr \in Mapping(Chosen) THEN GetUser(Chosen) ELSE 0
      /\ beg' = 0 /\ end' = 0
      /\ UNCHANGED << mapped, header, array, at, h, locked, ptr, check_failed >>
  BY DEF SearchEnd
<1>2. /\ beg \in Nat /\ end \in Nat /\ ptr \in Nat
      /\ ptr # 0 /\ chunks_sorted_ /\ locked # NoThread
      /\ 1 <= beg /\ beg <= end /\ end <= Len(chunks_)
      /\ chunks_[beg] <= ptr
      /\ end < Len(chunks_) => ptr < chunks_[end + 1]
  BY <1>0, <1>1 DEF STypeOK, Sound
<1>3. chunks_ \in Seq(Nat) /\ Len(chunks_) \in Nat
  BY <1>0, NoDuplicates
<1>4. /\ beg \in DOMAIN chunks_ /\ end \in DOMAIN chunks_
      /\ chunks_[beg] \in Nat /\ chunks_[end] \in Nat
  BY <1>2, <1>3
<1>5. BlockOf(ptr) = IF ptr \in Mapping(Chosen) THEN GetUser(Chosen) ELSE 0
  <2>1. CASE beg < end /\ ptr >= chunks_[end]
    <3>1. Chosen = chunks_[end]
      BY <2>1 DEF Chosen
    <3>2. chunks_[end] <= ptr
      BY <1>2, <1>4, <2>1
    <3>3. BlockOf(ptr) = IF ptr \in Mapping(chunks_[end]) THEN GetUser(chunks_[end]) ELSE 0
      BY <1>2, <1>4, <3>2, NearestEntry
    <3> QED
      BY <3>1, <3>3
  <2>2. CASE ~(beg < end /\ ptr >= chunks_[end])
    <3>1. Chosen = chunks_[beg]
      BY <2>2 DEF Chosen
    <3>2. ASSUME beg < Len(chunks_)
          PROVE  ptr < chunks_[beg + 1]
      <4>1. CASE beg = end
        BY <1>2, <3>2, <4>1
      <4>2. CASE beg # end
        <5>1. end = beg + 1
          BY <1>1, <1>2, <4>2
        <5> QED
          BY <1>2, <1>4, <2>2, <5>1
      <4> QED
        BY <4>1, <4>2
    <3>3. BlockOf(ptr) = IF ptr \in Mapping(chunks_[beg]) THEN GetUser(chunks_[beg]) ELSE 0
      BY <1>2, <1>4, <3>2, NearestEntry
    <3> QED
      BY <3>1, <3>3
  <2> QED
    BY <2>1, <2>2
<1>6. BlockOf(ptr)' = BlockOf(ptr)
  BY <1>1, BlockStays DEF array
<1>7. block' = BlockOf(ptr)'
  BY <1>1, <1>5, <1>6
<1>8. STypeOK'
  <2>1. Chosen \in Nat
    BY <1>4 DEF Chosen
  <2>2. block' \in Nat
    BY <1>1, <2>1 DEF GetUser
  <2> QED
    BY <1>0, <1>1, <2>2 DEF STypeOK, array
<1>9. Sound'
  BY <1>0, <1>1, <1>2, <1>7 DEF Sound, array
<1>10. Apart' /\ Indexed'
  BY <1>1, RestStays
<1> QED
  BY <1>8, <1>9, <1>10 DEF SInv

\* Nothing is mapped at first.
LEMMA SecondaryInitInv == SecondaryInit => SInv
<1> SUFFICES ASSUME SecondaryInit
             PROVE  SInv
  OBVIOUS
<1>1. STypeOK
  <2>1. NoHeader \in [map_beg : Nat, map_size : Nat, chunk_idx : Nat]
    BY DEF NoHeader
  <2>2. header \in [AddressSpace -> [map_beg : Nat, map_size : Nat, chunk_idx : Nat]]
    BY <2>1 DEF SecondaryInit
  <2>3. chunks_ \in Seq(AddressSpace)
    BY DEF SecondaryInit
  <2>4. /\ at \in [Callers -> {"idle", "insert", "unmap"}]
        /\ h \in [Callers -> Nat]
    BY DEF SecondaryInit
  <2> QED
    BY <2>2, <2>3, <2>4, Zenon DEF SecondaryInit, STypeOK
<1>2. Live = {}
  BY DEF SecondaryInit, Live
<1>3. Apart
  BY <1>2 DEF SecondaryInit, Apart
<1>4. Indexed
  BY SecondaryAssumption DEF SecondaryInit, Indexed
<1>5. Sound
  BY DEF SecondaryInit, Sound
<1> QED
  BY <1>1, <1>3, <1>4, <1>5 DEF SInv

\* Every step of Allocate, Deallocate, the lookup and the sort keeps the
\* invariant.
LEMMA SecondaryNextInv == SInv /\ [SecondaryNext]_svars => SInv'
<1> SUFFICES ASSUME SInv, [SecondaryNext]_svars
             PROVE  SInv'
  OBVIOUS
<1>1. CASE UNCHANGED svars
  <2>1. STypeOK'
    BY <1>1 DEF svars, SInv, STypeOK, array, lookup
  <2>2. Apart' /\ Indexed'
    BY <1>1, RestStays DEF svars
  <2>3. Sound'
    BY <1>1, LookupStays DEF svars
  <2> QED
    BY <2>1, <2>2, <2>3 DEF SInv
<1>2. CASE SecondaryNext
  <2>1. PICK t \in Callers :
          \/ \E size \in LargeSizes, a \in Alignments, map_beg \in AddressSpace :
               Mmap(t, size, a, map_beg)
          \/ InsertHeader(t)
          \/ \E g \in owned : RemoveHeader(t, g)
          \/ Unmap(t)
          \/ ForceLock(t)
          \/ EnsureSortedChunks(t)
          \/ \E p \in AddressSpace : BeginLookup(t, p)
          \/ SearchLoop(t)
          \/ SearchEnd(t)
          \/ ForceUnlock(t)
    BY <1>2 DEF SecondaryNext
  <2>2. ~check_failed
    BY <1>2 DEF SecondaryNext
  <2> QED
    BY <2>1, <2>2, MmapStep, InsertStep, RemoveStep, UnmapStep, LockStep, SortStep,
       BeginStep, LoopStep, EndStep
<1> QED
  BY <1>1, <1>2

-------------------------------------------------------------------------------
(* The two together.                                                         *)

\* A step of the combined allocator is a step of one of the two.
LEMMA StepOfEither == [Next]_vars => [PrimaryNext]_pvars /\ [SecondaryNext]_svars
BY DEF Next, vars

\* Whatever threads allocate, free, drain and release, and whatever memory the
\* kernel refuses, every chunk that PopulateFreeArray has cut is in exactly one
\* place, and lies in mapped memory: EachChunkOnce.
THEOREM ChunksAreNeitherLostNorDoubled == Spec => []EachChunkOnce
<1>1. Init => PrimaryInit
  BY DEF Init
<1>2. Spec => []PInv
  BY <1>1, PrimaryInitInv, PrimaryNextInv, StepOfEither, PTL DEF Spec
<1> QED
  BY <1>2, InvImpliesEachChunkOnce, PTL

\* Whatever the size of a chunk and of a page, the counters of
\* ReleaseFreeMemoryToOS, on its fast and on its slow path, find every page that
\* carries free chunks only and no other; and no chunk in use lies on a page
\* that was given back to the kernel: ReleaseIsExact.
THEOREM ReleaseFindsExactlyTheFreePages == Spec => []ReleaseIsExact
<1>1. Init => PrimaryInit
  BY DEF Init
<1>2. Spec => []PInv
  BY <1>1, PrimaryInitInv, PrimaryNextInv, StepOfEither, PTL DEF Spec
<1>3. PrimaryInit => UsedIsKept
  BY DEF PrimaryInit, UsedIsKept
<1>4. Spec => []UsedIsKept
  BY <1>1, <1>2, <1>3, KeptNext, StepOfEither, PTL DEF Spec
<1>5. PInv /\ UsedIsKept => ReleaseIsExact
  BY ReleaseFindsFreePages DEF ReleaseIsExact, UsedIsKept
<1> QED
  BY <1>2, <1>4, <1>5, PTL

\* The inductive invariant of the secondary allocator holds.
THEOREM SecondaryInvariant == Spec => []SInv
<1>1. Init => SecondaryInit
  BY DEF Init
<1> QED
  BY <1>1, SecondaryInitInv, SecondaryNextInv, StepOfEither, PTL DEF Spec

\* However threads allocate, free and sort, the array of the secondary
\* allocator has exactly the headers of the blocks in use, each at its index and
\* in a mapping that is there and overlaps no other: ArrayIsExact.  So the
\* CHECKs of Deallocate never fail.
THEOREM TheArrayIsExact == Spec => []ArrayIsExact
BY SecondaryInvariant, InvImpliesArrayIsExact, PTL

\* GetBlockBegin and GetBlockBeginFastLocked find the block of every address,
\* and the binary search stays inside the array: LookupsAgree.
THEOREM LookupsFindTheBlock == Spec => []LookupsAgree
BY SecondaryInvariant, InvImpliesLookupsAgree, PTL
=============================================================================
