--------------------------- MODULE PhysMemProofs ---------------------------
(***************************************************************************)
(* Proofs about PhysMem, for every memory map, page size and set of files. *)
(*                                                                         *)
(* The first part is about the map alone: where pmm_init puts the bitmap,  *)
(* which pages it frees (PageFacts), which bits they hold (BitsBelow) and  *)
(* that writing to an exposed page exposes no further one (WritesExposed). *)
(* The second part is the inductive invariant: free and held pages share   *)
(* out Managed, exposed pages apart, the locals of vmm_init and of the vmm *)
(* call name pages that are held, the page table's pages and the frames    *)
(* that the loader mapped are held and mapped once, and the image holds    *)
(* what was loaded so far.                                                 *)
(***************************************************************************)
EXTENDS PhysMem, FiniteSetTheorems, WellFoundedInduction, TLAPS

(* A set of numbers that is not empty has a least one. *)
LEMMA LeastNumber ==
  ASSUME NEW S \in SUBSET Nat, S # {}
  PROVE  \E x \in S : \A y \in S : x <= y
<1> DEFINE R == OpToRel(<, Nat)
<1>1. IsWellFoundedOn(R, Nat)
  BY NatLessThanWellFounded
<1>2. PICK x \in S : \A y \in S : ~ (<<y, x>> \in R)
  <2> HIDE DEF R
  <2> QED
    BY <1>1, WFMin
<1>3. \A y \in S : ~(y < x)
  BY <1>2 DEF OpToRel
<1> QED
  BY <1>3

LEMMA PageSize == PAGE_SIZE \in Nat /\ PAGE_SIZE > 0
BY MemmapAssumption

(* Rounding down to a page. *)
LEMMA Rounding ==
  ASSUME NEW a \in Nat
  PROVE  /\ a \div PAGE_SIZE \in Nat
         /\ (a \div PAGE_SIZE) * PAGE_SIZE <= a
         /\ a < (a \div PAGE_SIZE) * PAGE_SIZE + PAGE_SIZE
         /\ a % PAGE_SIZE = 0 => a = (a \div PAGE_SIZE) * PAGE_SIZE
BY PageSize

LEMMA PagesInOrder ==
  ASSUME NEW x \in Int, NEW y \in Int
  PROVE  /\ x * PAGE_SIZE \in Int
         /\ x * PAGE_SIZE < y * PAGE_SIZE => x < y
         /\ x < y => x * PAGE_SIZE + PAGE_SIZE <= y * PAGE_SIZE
         /\ x <= y => x * PAGE_SIZE <= y * PAGE_SIZE
         /\ (x + 1) * PAGE_SIZE = x * PAGE_SIZE + PAGE_SIZE
         /\ x >= 0 => x <= x * PAGE_SIZE
         /\ (x + y) * PAGE_SIZE = x * PAGE_SIZE + y * PAGE_SIZE
BY PageSize

-----------------------------------------------------------------------------
(* The memory map. *)

LEMMA MapEntries ==
  ASSUME NEW m \in Memmaps
  PROVE  /\ Len(m) \in Nat \ {0} /\ DOMAIN m = 1 .. Len(m)
         /\ \A i \in DOMAIN m : /\ m[i] \in Entries(m)
                                     /\ m[i].base \in Nat /\ m[i].length \in Nat \ {0}
                                     /\ End(m[i]) \in Nat
         /\ \A e \in Entries(m) : e.base \in Nat /\ e.length \in Nat \ {0} /\ End(e) \in Nat
<1>1. Len(m) \in Nat \ {0} /\ DOMAIN m = 1 .. Len(m)
  BY MemmapAssumption
<1>2. \A i \in DOMAIN m : m[i] \in [base : Nat, length : Nat \ {0}, usable : BOOLEAN]
  <2> DEFINE S == [base : Nat, length : Nat \ {0}, usable : BOOLEAN]
  <2>1. m \in Seq(S)
    BY MemmapAssumption
  <2> HIDE DEF S
  <2>2. \A i \in DOMAIN m : m[i] \in S
    BY <2>1
  <2> QED
    BY <2>2 DEF S
<1> QED
  BY <1>1, <1>2 DEF Entries, End

(* The loop of pmm_init finds the highest end of an entry. *)
LEMMA Highest ==
  ASSUME NEW m \in Memmaps
  PROVE  highest_addr(m) \in Nat /\ \A e \in Entries(m) : End(e) <= highest_addr(m)
<1> DEFINE L == Len(m)
           E(i) == End(m[i])
           Top(n) == \E k \in 1 .. n : \A i \in 1 .. n : E(i) <= E(k)
           T == {n \in 1 .. L : ~Top(n)}
<1>0. L \in Nat /\ L > 0 /\ \A i \in 1 .. L : E(i) \in Nat
  BY MapEntries
<1> HIDE DEF L, E
<1>1. T = {}
  <2> SUFFICES ASSUME T # {} PROVE FALSE
    OBVIOUS
  <2>1. PICK n \in T : \A y \in T : n <= y
    <3>1. T \in SUBSET Nat
      BY <1>0
    <3> QED
      BY <3>1, LeastNumber
  <2>2. CASE n = 1
    <3>1. Top(1)
      <4>1. 1 \in 1 .. 1 /\ \A i \in 1 .. 1 : i = 1
        OBVIOUS
      <4>2. E(1) <= E(1)
        BY <1>0
      <4> QED
        BY <4>1, <4>2
    <3> QED
      BY <2>2, <3>1
  <2>3. CASE n # 1
    <3>0. n \in 1 .. L /\ n - 1 \in 1 .. L /\ n \in Nat /\ \A i \in 1 .. n : i \in 1 .. n - 1 \/ i = n
      <4>1. n \in 1 .. L
        OBVIOUS
      <4> QED
        BY <1>0, <2>3, <4>1
    <3>1. n - 1 \notin T
      <4>1. ~(n <= n - 1)
        BY <3>0
      <4> QED
        BY <2>1, <4>1
    <3>2. PICK k \in 1 .. n - 1 : \A i \in 1 .. n - 1 : E(i) <= E(k)
      BY <3>0, <3>1
    <3>3. E(n) \in Nat /\ E(k) \in Nat /\ \A i \in 1 .. n - 1 : E(i) \in Nat
      BY <1>0, <3>0
    <3>4. CASE E(n) <= E(k)
      <4>1. \A i \in 1 .. n : E(i) <= E(k)
        BY <3>0, <3>2, <3>3, <3>4
      <4>2. k \in 1 .. n
        BY <3>2, <1>0
      <4> QED
        BY <4>1, <4>2
    <3>5. CASE E(k) < E(n)
      <4>1. \A i \in 1 .. n : E(i) <= E(n)
        <5> TAKE i \in 1 .. n
        <5>1. CASE i = n
          BY <3>3, <5>1
        <5>2. CASE i \in 1 .. n - 1
          <6>1. E(i) \in Nat /\ E(i) <= E(k)
            BY <3>2, <3>3, <5>2
          <6> QED
            BY <3>3, <3>5, <6>1
        <5> QED
          BY <3>0, <5>1, <5>2
      <4>2. n \in 1 .. n
        BY <1>0
      <4> QED
        BY <4>1, <4>2
    <3> QED
      BY <3>3, <3>4, <3>5
  <2> QED
    BY <2>2, <2>3
<1>2. PICK k \in 1 .. L : \A i \in 1 .. L : E(i) <= E(k)
  BY <1>0, <1>1
<1>3. \A e \in Entries(m) : End(e) <= End(m[k])
  BY <1>2, MapEntries DEF Entries, L, E
<1>4. m[k] \in Entries(m)
  BY MapEntries DEF L
<1>5. /\ highest_addr(m) \in {End(e) : e \in Entries(m)}
      /\ \A e \in Entries(m) : End(e) <= highest_addr(m)
  <2>1. \E a \in {End(e) : e \in Entries(m)} : \A e \in Entries(m) : End(e) <= a
    BY <1>3, <1>4
  <2> QED
    BY <2>1, Zenon DEF highest_addr
<1> QED
  BY <1>5, MapEntries

LEMMA Sizes ==
  ASSUME NEW m \in Memmaps
  PROVE  total_pages(m) \in Nat /\ bitmap_size(m) \in Nat /\ bitmap_size(m) > 0
BY Highest, Rounding DEF total_pages, bitmap_size

(* The bitmap lies at the start of a usable entry that has room for it. *)
LEMMA HomeFacts ==
  ASSUME NEW m \in Memmaps
  PROVE  /\ Home(m) \in UsableEntries(m)
         /\ Home(m).length >= bitmap_size(m)
<1> DEFINE Fits(i) == m[i].usable /\ m[i].length >= bitmap_size(m)
           T == {i \in DOMAIN m : Fits(i)}
<1>1. T \in SUBSET Nat /\ T # {}
  <2>1. PICK e \in UsableEntries(m) : e.length >= bitmap_size(m)
    BY RoomAssumption
  <2>2. PICK i \in DOMAIN m : m[i] = e /\ e.usable
    BY <2>1 DEF UsableEntries, Entries
  <2>3. i \in T
    BY <2>1, <2>2
  <2> QED
    BY <2>3, MapEntries
<1>2. PICK n \in T : \A y \in T : n <= y
  BY <1>1, LeastNumber
<1>3. \A j \in 1 .. n - 1 : ~Fits(j)
  <2> SUFFICES ASSUME NEW j \in 1 .. n - 1, Fits(j) PROVE FALSE
    OBVIOUS
  <2>1. n \in 1 .. Len(m) /\ Len(m) \in Nat
    BY MapEntries
  <2>2. j \in 1 .. Len(m) /\ ~(n <= j)
    BY <2>1
  <2> QED
    BY <1>2, <2>2, MapEntries
<1>4. \E i \in DOMAIN m :
        /\ m[i].usable /\ m[i].length >= bitmap_size(m)
        /\ \A j \in 1 .. i - 1 : ~(m[j].usable /\ m[j].length >= bitmap_size(m))
  BY <1>3
<1>5. \E i \in DOMAIN m : Home(m) = m[i] /\ Fits(i)
  BY <1>4, Zenon DEF Home
<1> QED
  BY <1>5 DEF UsableEntries, Entries

(* Usable entries begin and end on a page and do not overlap. *)
LEMMA UsableFacts ==
  ASSUME NEW m \in Memmaps
  PROVE  /\ \A e \in UsableEntries(m) :
              /\ e.base \in Nat /\ e.length \in Nat /\ End(e) \in Nat /\ End(e) = e.base + e.length
              /\ e.base > 0 /\ e.base % PAGE_SIZE = 0
              /\ End(e) <= highest_addr(m)
         /\ \A e, f \in UsableEntries(m) : e # f => End(e) <= f.base \/ End(f) <= e.base
<1>1. ASSUME NEW e \in UsableEntries(m)
      PROVE  \E i \in DOMAIN m : e = m[i] /\ m[i].usable
  BY DEF UsableEntries, Entries
<1>2. ASSUME NEW e \in UsableEntries(m)
      PROVE  /\ e.base \in Nat /\ e.length \in Nat /\ End(e) \in Nat /\ End(e) = e.base + e.length
             /\ e.base > 0 /\ e.base % PAGE_SIZE = 0
             /\ End(e) <= highest_addr(m)
  <2>1. PICK i \in DOMAIN m : e = m[i] /\ m[i].usable
    BY <1>1
  <2>2. e.base > 0 /\ e.base % PAGE_SIZE = 0
    BY <2>1, MemmapAssumption
  <2> QED
    BY <2>1, <2>2, MapEntries, Highest DEF End
<1>3. ASSUME NEW e \in UsableEntries(m), NEW f \in UsableEntries(m), e # f
      PROVE  End(e) <= f.base \/ End(f) <= e.base
  <2>1. PICK i \in DOMAIN m : e = m[i] /\ m[i].usable
    BY <1>1
  <2>2. PICK j \in DOMAIN m : f = m[j] /\ m[j].usable
    BY <1>1
  <2>3. j \in DOMAIN m \ {i}
    BY <1>3, <2>1, <2>2
  <2> QED
    BY <2>1, <2>2, <2>3, MemmapAssumption DEF End
<1> QED
  BY <1>2, <1>3

(* Where a page that pmm_init freed comes from. *)
LEMMA PageOrigin ==
  ASSUME NEW m \in Memmaps, NEW p \in Managed(m)
  PROVE  \E e \in UsableEntries(m), a \in Nat :
           /\ p = a \div PAGE_SIZE
           /\ e.base <= a /\ a + PAGE_SIZE <= End(e)
           /\ e = Home(m) => e.base + bitmap_size(m) <= a
<1>1. PICK e \in UsableEntries(m) : p \in PagesOf(Adjusted(m, e))
  BY DEF Managed
<1> DEFINE d == IF e = Home(m) THEN bitmap_size(m) ELSE 0
           l == e.length - d
<1>2. d \in Nat /\ l \in Nat /\ Adjusted(m, e).base = e.base + d /\ Adjusted(m, e).length = l
  BY HomeFacts, UsableFacts, Sizes DEF Adjusted
<1> HIDE DEF l, d
<1>3. PICK k \in 0 .. (l \div PAGE_SIZE) - 1 : p = (e.base + d + k * PAGE_SIZE) \div PAGE_SIZE
  BY <1>1, <1>2 DEF PagesOf
<1>4. l \div PAGE_SIZE \in Nat /\ (l \div PAGE_SIZE) * PAGE_SIZE <= l
  BY <1>2, Rounding
<1>5. k \in Nat /\ k * PAGE_SIZE \in Nat /\ k * PAGE_SIZE + PAGE_SIZE <= l
  <2>1. k \in Nat /\ k < l \div PAGE_SIZE
    BY <1>4
  <2>2. /\ k * PAGE_SIZE \in Int /\ (l \div PAGE_SIZE) * PAGE_SIZE \in Int
        /\ k * PAGE_SIZE + PAGE_SIZE <= (l \div PAGE_SIZE) * PAGE_SIZE
        /\ k <= k * PAGE_SIZE
    BY <1>4, <2>1, PagesInOrder
  <2> QED
    BY <1>2, <1>4, <2>1, <2>2, PageSize
<1> DEFINE a == e.base + d + k * PAGE_SIZE
<1>6. e.base \in Nat /\ End(e) = e.base + e.length /\ e.length = l + d
  BY <1>2, UsableFacts DEF l
<1>7. a \in Nat /\ e.base <= a /\ a + PAGE_SIZE <= End(e)
  BY <1>2, <1>5, <1>6, PageSize
<1>8. e = Home(m) => e.base + bitmap_size(m) <= a
  BY <1>2, <1>5, <1>6, Sizes DEF d
<1> QED
  BY <1>3, <1>7, <1>8

(* A page is the whole of it if a page's length from any of its addresses  *)
(* on is usable.                                                           *)
LEMMA OriginIsPage ==
  ASSUME NEW m \in Memmaps, NEW e \in UsableEntries(m), NEW a \in Nat, e.base <= a, a + PAGE_SIZE <= End(e)
  PROVE  LET p == a \div PAGE_SIZE
         IN  /\ p \in Nat /\ p > 0 /\ p <= highest_addr(m)
             /\ e.base <= p * PAGE_SIZE /\ (p + 1) * PAGE_SIZE <= End(e)
<1> DEFINE p == a \div PAGE_SIZE
           q == e.base \div PAGE_SIZE
<1>1. p \in Nat /\ p * PAGE_SIZE <= a /\ a < p * PAGE_SIZE + PAGE_SIZE
  BY Rounding
<1>2. q \in Nat /\ e.base = q * PAGE_SIZE /\ e.base > 0 /\ End(e) \in Nat /\ End(e) <= highest_addr(m)
  BY UsableFacts, Rounding
<1>3. q > 0
  BY <1>2, PageSize
<1> HIDE DEF q, p
<1>4. /\ p * PAGE_SIZE \in Int /\ (p + 1) * PAGE_SIZE = p * PAGE_SIZE + PAGE_SIZE
      /\ p <= p * PAGE_SIZE
  BY <1>1, PagesInOrder
<1>5. q <= p
  <2>1. q * PAGE_SIZE < (p + 1) * PAGE_SIZE
    BY <1>1, <1>2, <1>4, PageSize
  <2>2. p + 1 \in Int /\ q \in Int
    BY <1>1, <1>2
  <2>3. q < p + 1
    BY <2>1, <2>2, PagesInOrder
  <2> QED
    BY <1>1, <1>2, <2>3
<1>6. q * PAGE_SIZE <= p * PAGE_SIZE
  BY <1>1, <1>2, <1>5, PagesInOrder
<1>7. e.base <= p * PAGE_SIZE /\ (p + 1) * PAGE_SIZE <= End(e)
  BY <1>1, <1>2, <1>4, <1>6, PageSize
<1>8. p <= highest_addr(m)
  BY <1>1, <1>2, <1>4, <1>7, PageSize, Highest
<1>9. p > 0
  BY <1>1, <1>2, <1>3, <1>5
<1> QED
  BY <1>1, <1>7, <1>8, <1>9 DEF p

(* The pages pmm_init frees lie in usable memory, wholly. *)
LEMMA PageFacts ==
  ASSUME NEW m \in Memmaps, NEW p \in Managed(m)
  PROVE  /\ p \in Nat /\ p > 0 /\ p <= highest_addr(m)
         /\ \E e \in UsableEntries(m) : e.base <= p * PAGE_SIZE /\ (p + 1) * PAGE_SIZE <= End(e)
BY PageOrigin, OriginIsPage

LEMMA ManagedPages ==
  ASSUME NEW m \in Memmaps
  PROVE  /\ Managed(m) \subseteq AllPages(m) /\ AllPages(m) \subseteq Nat
         /\ IsFiniteSet(AllPages(m)) /\ 0 \notin Managed(m)
<1>1. total_pages(m) \in Nat /\ highest_addr(m) \in Nat
  BY Sizes, Highest
<1>2. ASSUME NEW p \in Managed(m) PROVE p \in AllPages(m)
  <2>1. PICK e \in UsableEntries(m) : (p + 1) * PAGE_SIZE <= End(e)
    BY PageFacts
  <2>2. p \in Nat /\ End(e) \in Nat /\ End(e) <= highest_addr(m)
    BY PageFacts, UsableFacts
  <2> DEFINE t == highest_addr(m) \div PAGE_SIZE
  <2>3. t \in Nat /\ highest_addr(m) < t * PAGE_SIZE + PAGE_SIZE
    BY <1>1, Rounding
  <2> HIDE DEF t
  <2>4. /\ (p + 1) * PAGE_SIZE \in Int /\ (t + 1) * PAGE_SIZE \in Int
        /\ (t + 1) * PAGE_SIZE = t * PAGE_SIZE + PAGE_SIZE
    BY <2>2, <2>3, PagesInOrder
  <2>5. (p + 1) * PAGE_SIZE < (t + 1) * PAGE_SIZE
    BY <1>1, <2>1, <2>2, <2>3, <2>4
  <2>6. p + 1 < t + 1
    <3>1. p + 1 \in Int /\ t + 1 \in Int
      BY <2>2, <2>3
    <3> QED
      BY <2>5, <3>1, PagesInOrder
  <2> QED
    BY <2>2, <2>3, <2>6 DEF AllPages, total_pages, t
<1>3. AllPages(m) \subseteq Nat /\ IsFiniteSet(AllPages(m))
  <2>1. 0 \in Int /\ total_pages(m) - 1 \in Int
    BY <1>1
  <2>2. IsFiniteSet(0 .. total_pages(m) - 1)
    BY <2>1, FS_Interval
  <2> QED
    BY <2>2 DEF AllPages
<1>4. 0 \notin Managed(m)
  <2> SUFFICES ASSUME 0 \in Managed(m) PROVE FALSE
    OBVIOUS
  <2>1. 0 > 0
    BY PageFacts
  <2> QED
    BY <2>1
<1> QED
  BY <1>2, <1>3, <1>4

(* A byte of the bitmap below its last page boundary lies below the pages  *)
(* that pmm_init frees in the same entry.                                  *)
LEMMA BitsBelow ==
  ASSUME NEW m \in Memmaps, NEW p \in Managed(m)
  PROVE  BitsIn(m, p, PAGE_SIZE) \subseteq LastBits(m)
<1> SUFFICES ASSUME NEW b \in AllPages(m),
                    bitmap(m) + b \div 8 \in p * PAGE_SIZE .. p * PAGE_SIZE + PAGE_SIZE - 1,
                    ~(b \div 8 >= (bitmap_size(m) \div PAGE_SIZE) * PAGE_SIZE)
             PROVE  FALSE
  BY DEF BitsIn, LastBits
<1> DEFINE M == bitmap_size(m) \div PAGE_SIZE
           t == M * PAGE_SIZE
           x == bitmap(m) + b \div 8
           q == bitmap(m) \div PAGE_SIZE
<1>1. M \in Nat /\ t \in Nat /\ t <= bitmap_size(m) /\ bitmap_size(m) \in Nat
  <2>1. bitmap_size(m) \in Nat
    BY Sizes
  <2>2. M \in Nat /\ t <= bitmap_size(m)
    BY <2>1, Rounding
  <2> HIDE DEF M
  <2>3. t \in Int /\ M <= t
    BY <2>2, PagesInOrder
  <2> QED
    BY <2>1, <2>2, <2>3
<1>2. b \in Nat /\ b \div 8 \in Nat /\ b \div 8 < t
  <2>1. b \in Nat
    BY ManagedPages
  <2>2. b \div 8 \in Nat
    BY <2>1
  <2> QED
    BY <1>1, <2>1, <2>2
<1>3. /\ bitmap(m) = Home(m).base /\ bitmap(m) \in Nat /\ q \in Nat
      /\ bitmap(m) = q * PAGE_SIZE
  BY HomeFacts, UsableFacts, Rounding DEF bitmap
<1> HIDE DEF M, t, q
<1>4. x \in Nat /\ bitmap(m) <= x /\ x < bitmap(m) + t
  BY <1>1, <1>2, <1>3
<1>5. /\ p \in Nat /\ p * PAGE_SIZE \in Int /\ (p + 1) * PAGE_SIZE \in Int
      /\ p * PAGE_SIZE <= x /\ x < (p + 1) * PAGE_SIZE
  <2>1. p \in Nat
    BY PageFacts
  <2> QED
    BY <1>4, <2>1, PagesInOrder, PageSize
<1> HIDE DEF x
<1>6. PICK e \in UsableEntries(m), a \in Nat :
        /\ p = a \div PAGE_SIZE /\ e.base <= a /\ a + PAGE_SIZE <= End(e)
        /\ e = Home(m) => e.base + bitmap_size(m) <= a
  BY PageOrigin
<1>7. CASE e = Home(m)
  <2>1. (q + M) * PAGE_SIZE = bitmap(m) + t
    BY <1>1, <1>3, PagesInOrder DEF t
  <2>2. a < (p + 1) * PAGE_SIZE
    BY <1>5, <1>6, Rounding, PagesInOrder
  <2>3. (q + M) * PAGE_SIZE < (p + 1) * PAGE_SIZE
    <3>1. bitmap(m) + bitmap_size(m) <= a
      BY <1>3, <1>6, <1>7
    <3> QED
      BY <1>1, <1>3, <1>5, <2>1, <2>2, <3>1
  <2>4. q + M < p + 1
    <3>1. q + M \in Int /\ p + 1 \in Int
      BY <1>1, <1>3, <1>5
    <3> QED
      BY <2>3, <3>1, PagesInOrder
  <2>5. q + M \in Int /\ p \in Int /\ q + M <= p
    BY <1>1, <1>3, <1>5, <2>4
  <2>6. (q + M) * PAGE_SIZE <= p * PAGE_SIZE
    BY <2>5, PagesInOrder
  <2> QED
    BY <1>1, <1>3, <1>4, <1>5, <2>1, <2>6
<1>8. CASE e # Home(m)
  <2>1. End(e) <= Home(m).base \/ End(Home(m)) <= e.base
    BY <1>8, HomeFacts, UsableFacts
  <2>2. e.base \in Nat /\ End(e) \in Nat /\ End(Home(m)) \in Nat /\ Home(m).base \in Nat
    BY HomeFacts, UsableFacts
  <2>3. x < End(Home(m)) /\ Home(m).base <= x
    <3>1. /\ Home(m).length \in Nat /\ Home(m).length >= bitmap_size(m)
          /\ End(Home(m)) = Home(m).base + Home(m).length
      BY HomeFacts, UsableFacts
    <3>2. \A h, l, k, y \in Nat : l >= k /\ y < h + k => y < h + l
      OBVIOUS
    <3>3. x < bitmap(m) + bitmap_size(m)
      BY <1>1, <1>3, <1>4
    <3>4. x < bitmap(m) + Home(m).length
      BY <1>1, <1>3, <1>4, <3>1, <3>2, <3>3
    <3> QED
      BY <1>3, <1>4, <3>1, <3>4
  <2>4. e.base <= p * PAGE_SIZE /\ (p + 1) * PAGE_SIZE <= End(e)
    BY <1>6, <1>5, OriginIsPage
  <2> QED
    BY <1>4, <1>5, <2>1, <2>2, <2>3, <2>4
<1> QED
  BY <1>7, <1>8

(* Page 0 holds no bit. *)
LEMMA NoBitsInNull ==
  ASSUME NEW m \in Memmaps
  PROVE  BitsIn(m, 0, PAGE_SIZE) = {}
<1> SUFFICES ASSUME NEW b \in AllPages(m),
                    bitmap(m) + b \div 8 \in 0 * PAGE_SIZE .. 0 * PAGE_SIZE + PAGE_SIZE - 1
             PROVE  FALSE
  BY DEF BitsIn
<1> DEFINE q == bitmap(m) \div PAGE_SIZE
<1>1. bitmap(m) \in Nat /\ bitmap(m) > 0 /\ q \in Nat /\ bitmap(m) = q * PAGE_SIZE
  BY HomeFacts, UsableFacts, Rounding DEF bitmap
<1> HIDE DEF q
<1>2. q > 0
  BY <1>1, PageSize
<1>3. PAGE_SIZE <= bitmap(m)
  <2>1. 0 * PAGE_SIZE + PAGE_SIZE <= q * PAGE_SIZE
    BY <1>1, <1>2, PagesInOrder
  <2> QED
    BY <1>1, <2>1, PageSize
<1>4. b \in Nat /\ b \div 8 \in Nat
  <2>1. b \in Nat
    BY ManagedPages
  <2> QED
    BY <2>1
<1> QED
  BY <1>1, <1>3, <1>4, PageSize

LEMMA ExposedPages ==
  ASSUME NEW m \in Memmaps
  PROVE  Exposed(m) \subseteq AllPages(m) /\ LastBits(m) \subseteq Exposed(m)
<1>1. LastBits(m) \subseteq AllPages(m)
  BY DEF LastBits
<1> QED
  BY <1>1 DEF Exposed

(* What is written to a page that was handed out, or to NULL, overwrites   *)
(* bits of exposed pages only.                                             *)
LEMMA WritesExposed ==
  ASSUME NEW m \in Memmaps, NEW p \in Managed(m) \cup Exposed(m) \cup {0}, NEW n \in 0 .. PAGE_SIZE
  PROVE  BitsIn(m, p, n) \subseteq Exposed(m)
<1>1. BitsIn(m, p, n) \subseteq BitsIn(m, p, PAGE_SIZE)
  <2>1. p \in Int
    BY ManagedPages, ExposedPages
  <2>2. p * PAGE_SIZE \in Int
    BY <2>1, PagesInOrder
  <2>3. p * PAGE_SIZE .. p * PAGE_SIZE + n - 1 \subseteq p * PAGE_SIZE .. p * PAGE_SIZE + PAGE_SIZE - 1
    BY <2>2, PageSize
  <2> QED
    BY <2>3 DEF BitsIn
<1>2. BitsIn(m, p, PAGE_SIZE) \subseteq AllPages(m)
  BY DEF BitsIn
<1>3. CASE p \in Managed(m)
  BY <1>1, <1>3, BitsBelow, ExposedPages
<1>4. CASE p = 0
  BY <1>1, <1>4, NoBitsInNull
<1>5. CASE p \in Exposed(m)
  BY <1>1, <1>2, <1>5 DEF Exposed
<1> QED
  BY <1>3, <1>4, <1>5

(* If the bits fill whole pages, no page is exposed. *)
LEMMA NoneExposed ==
  ASSUME NEW m \in Memmaps, total_pages(m) % (8 * PAGE_SIZE) = 0
  PROVE  Exposed(m) = {}
<1> DEFINE M == total_pages(m) \div (8 * PAGE_SIZE)
           t == M * PAGE_SIZE
<1>1. M \in Nat /\ total_pages(m) = 8 * t /\ t \in Nat
  <2>1. 8 * PAGE_SIZE \in Nat /\ 8 * PAGE_SIZE > 0
    BY PageSize
  <2>2. M \in Nat /\ total_pages(m) = M * (8 * PAGE_SIZE)
    <3>1. \A d, k \in Nat : d > 0 /\ k % d = 0 => k \div d \in Nat /\ k = (k \div d) * d
      OBVIOUS
    <3>2. total_pages(m) \in Nat
      BY Sizes
    <3> HIDE DEF M
    <3> QED
      BY <2>1, <3>1, <3>2 DEF M
  <2> QED
    BY <2>2, PageSize
<1> HIDE DEF M
<1>2. t <= (bitmap_size(m) \div PAGE_SIZE) * PAGE_SIZE /\ (bitmap_size(m) \div PAGE_SIZE) * PAGE_SIZE \in Int
  <2> DEFINE N == bitmap_size(m) \div PAGE_SIZE
  <2>1. bitmap_size(m) = t + 1
    BY <1>1 DEF bitmap_size
  <2>2. N \in Nat /\ t + 1 < N * PAGE_SIZE + PAGE_SIZE
    <3>1. t + 1 \in Nat /\ bitmap_size(m) \in Nat
      BY <1>1, Sizes
    <3> QED
      BY <2>1, <3>1, Rounding
  <2> HIDE DEF N
  <2>3. (N + 1) * PAGE_SIZE = N * PAGE_SIZE + PAGE_SIZE /\ N * PAGE_SIZE \in Int
    BY <2>2, PagesInOrder
  <2>4. M * PAGE_SIZE < (N + 1) * PAGE_SIZE
    BY <1>1, <2>2, <2>3, PageSize
  <2>5. M < N + 1
    <3>1. M \in Int /\ N + 1 \in Int
      BY <1>1, <2>2
    <3> QED
      BY <2>4, <3>1, PagesInOrder
  <2>6. M \in Int /\ N \in Int /\ M <= N
    BY <1>1, <2>2, <2>5
  <2>7. M * PAGE_SIZE <= N * PAGE_SIZE
    BY <2>6, PagesInOrder
  <2> QED
    BY <2>3, <2>7 DEF N
<1>3. ASSUME NEW b \in AllPages(m) PROVE ~(b \div 8 >= (bitmap_size(m) \div PAGE_SIZE) * PAGE_SIZE)
  <2>1. b \in Nat /\ b < 8 * t
    BY <1>1 DEF AllPages
  <2>2. b \div 8 \in Nat /\ b \div 8 < t
    BY <1>1, <2>1
  <2> QED
    BY <1>1, <1>2, <2>2
<1>4. LastBits(m) = {}
  BY <1>3 DEF LastBits
<1> QED
  BY <1>4 DEF Exposed

-----------------------------------------------------------------------------
(* The inductive invariant. *)

(* Free and held pages share out Managed, exposed pages apart. *)
Shared ==
  /\ memmap \in Memmaps
  /\ free \cup held \subseteq AllPages(memmap)
  /\ Accounted

(* The locals that name a page name one that is held. *)
PagesInv ==
  /\ Shared
  /\ pc = "test1" => free = Managed(memmap)
  /\ pc \in {"test2", "test3"} => page1 \in held
  /\ pc = "map" => page \in held

(* The page table's own pages are held, its frames too once it is made,    *)
(* and a vmm call under way has a page that is none of them.               *)
TableInv ==
  LET X == Exposed(memmap) IN
  /\ ptes \in [0 .. ENTRIES - 1 -> Int]
  /\ table \notin X \cup {0} => table \in held
  /\ entries \notin X \cup {0} => entries \in held
  /\ pc \in {"test1", "test2", "test3", "table"} => table = 0
  /\ pc \in {"test1", "test2", "test3", "table", "entries"} => entries = 0
  /\ MapHeld
  /\ pc = "map" /\ page \notin X =>
       /\ page \notin {table, entries}
       /\ table \notin X /\ entries \notin X =>
            \A v \in DOMAIN ptes : ptes[v] # v => ptes[v] # page

(* The loader has copied the byte at a from segment i. *)
Placed(i, a) ==
  /\ file[i].load /\ a \in file[i].vaddr .. file[i].vaddr + file[i].filesz - 1
  /\ i < seg \/ (i = seg /\ a < file[i].vaddr + off)

(* How far the loader is, and that image holds what it copied so far. *)
ProgressInv ==
  /\ file = <<>> \/ file \in Files
  /\ seg \in Nat /\ off \in Nat
  /\ pc = "load" => seg > 0
  /\ pc # "load" /\ file # <<>> => seg > Len(file)

ImageInv ==
  /\ image \in [0 .. VIRT_SIZE - 1 -> Int]
  /\ \A a \in DOMAIN image :
       /\ \A i \in DOMAIN file : Placed(i, a) => image[a] = file[i].offset + (a - file[i].vaddr)
       /\ (\A i \in DOMAIN file : ~Placed(i, a)) => image[a] = None

-----------------------------------------------------------------------------
(* What the calls of the allocator do to the pages. *)

LEMMA LowestFree ==
  ASSUME Shared
  PROVE  /\ free # {} => Lowest \in free
         /\ Lowest \in Nat
         /\ Lowest \in Managed(memmap) \cup Exposed(memmap) \cup {0}
         /\ Lowest # 0 => free # {}
<1>1. free \in SUBSET Nat
  BY ManagedPages DEF Shared
<1>2. CASE free # {}
  <2>1. \E p \in free : \A q \in free : p <= q
    BY <1>1, <1>2, LeastNumber
  <2>2. Lowest \in free
    BY <2>1, Zenon DEF Lowest
  <2> QED
    BY <1>1, <1>2, <2>2 DEF Shared, Accounted
<1>3. CASE free = {}
  BY <1>3 DEF Lowest
<1> QED
  BY <1>2, <1>3

(* Writing to a page: the free pages differ from before in exposed ones. *)
LEMMA WrittenOver ==
  ASSUME memmap \in Memmaps, NEW f \in SUBSET AllPages(memmap), NEW n \in 0 .. PAGE_SIZE,
         NEW p \in Managed(memmap) \cup Exposed(memmap) \cup {0},
         NEW g \in Overwritten(f, p, n)
  PROVE  /\ g \in SUBSET AllPages(memmap)
         /\ g \ Exposed(memmap) = f \ Exposed(memmap)
         /\ Exposed(memmap) = {} => g = f
<1>1. BitsIn(memmap, p, n) \subseteq Exposed(memmap)
  BY WritesExposed
<1>2. Exposed(memmap) \subseteq AllPages(memmap)
  BY ExposedPages
<1> DEFINE B == BitsIn(memmap, p, n)
<1>3. \E s \in SUBSET B : g = (f \ B) \cup s
  BY DEF Overwritten
<1> HIDE DEF B
<1> QED
  BY <1>1, <1>2, <1>3 DEF B

(* A page is taken; what is free afterwards differs from Rest in exposed   *)
(* pages only.                                                             *)
LEMMA AllocShared ==
  ASSUME Shared, Taken, memmap' = memmap,
         free' \in SUBSET AllPages(memmap),
         free' \ Exposed(memmap) = Rest \ Exposed(memmap),
         Exposed(memmap) = {} => free' = Rest
  PROVE  /\ Shared' /\ held \subseteq held'
         /\ Lowest # 0 => Lowest \in held'
         /\ Lowest # 0 /\ Lowest \notin Exposed(memmap) => Lowest \notin held
<1> DEFINE X == Exposed(memmap)
<1>0. IsFiniteSet(free)
  BY ManagedPages, FS_Subset DEF Shared
<1>a. /\ (free \cup held) \ X = Managed(memmap) \ X
      /\ free \cap held \subseteq X
      /\ X = {} => free_pages = Cardinality(free)
  BY DEF Shared, Accounted
<1>s. ASSUME (free' \cup held') \ X = Managed(memmap) \ X, free' \cap held' \subseteq X,
             X = {} => free_pages' = Cardinality(free'), held' \subseteq AllPages(memmap)
      PROVE  Shared'
  <2>1. Accounted'
    BY <1>s DEF Accounted
  <2> QED
    BY <1>s, <2>1 DEF Shared
<1> HIDE DEF X
<1>1. CASE free = {}
  <2>1. Rest = {} /\ held' = held /\ free_pages' = free_pages /\ Lowest = 0
    BY <1>1 DEF Rest, Taken, Lowest
  <2> QED
    BY <1>1, <1>a, <1>s, <2>1 DEF X, Shared
<1>2. CASE free # {}
  <2>1. Lowest \in free
    BY <1>2, LowestFree
  <2>2. free_pages' = free_pages - 1 /\ held' = held \cup {Lowest} /\ Rest = free \ {Lowest}
    BY <1>2 DEF Taken, Rest
  <2>3. Cardinality(Rest) = Cardinality(free) - 1
    BY <1>0, <2>1, <2>2, FS_RemoveElement
  <2>4. (free' \cup held') \ X = Managed(memmap) \ X
    BY <1>a, <2>1, <2>2 DEF X
  <2>5. free' \cap held' \subseteq X
    BY <1>a, <2>1, <2>2 DEF X
  <2>6. X = {} => free_pages' = Cardinality(free')
    BY <1>a, <2>2, <2>3 DEF X
  <2>7. held' \subseteq AllPages(memmap)
    BY <2>1, <2>2 DEF Shared
  <2>8. Shared'
    BY <1>s, <2>4, <2>5, <2>6, <2>7
  <2> QED
    BY <1>a, <2>1, <2>2, <2>8 DEF X
<1> QED
  BY <1>1, <1>2

LEMMA AllocIsShared ==
  ASSUME Shared, pmm_alloc_page, memmap' = memmap
  PROVE  /\ Shared' /\ held \subseteq held'
         /\ Lowest # 0 => Lowest \in held'
         /\ Lowest # 0 /\ Lowest \notin Exposed(memmap) => Lowest \notin held
<1>1. Taken /\ free' = Rest /\ Rest \in SUBSET AllPages(memmap)
  BY DEF pmm_alloc_page, Rest, Shared
<1> QED
  BY <1>1, AllocShared

LEMMA ZeroedShared ==
  ASSUME Shared, NEW n \in 0 .. PAGE_SIZE, AllocZeroed(n), memmap' = memmap
  PROVE  /\ Shared' /\ held \subseteq held'
         /\ Lowest # 0 => Lowest \in held'
         /\ Lowest # 0 /\ Lowest \notin Exposed(memmap) => Lowest \notin held
<1>1. Taken /\ free' = Rest \cup BitsIn(memmap, Lowest, n) /\ Rest \in SUBSET AllPages(memmap)
  BY DEF AllocZeroed, Rest, Shared
<1>2. Lowest \in Managed(memmap) \cup Exposed(memmap) \cup {0} /\ memmap \in Memmaps
  BY LowestFree DEF Shared
<1>3. /\ free' \in SUBSET AllPages(memmap)
      /\ free' \ Exposed(memmap) = Rest \ Exposed(memmap)
      /\ Exposed(memmap) = {} => free' = Rest
  <2>1. BitsIn(memmap, Lowest, n) \subseteq Exposed(memmap) /\ Exposed(memmap) \subseteq AllPages(memmap)
    BY <1>2, WritesExposed, ExposedPages
  <2> QED
    BY <1>1, <2>1
<1> QED
  BY <1>1, <1>3, AllocShared

LEMMA FreeShared ==
  ASSUME Shared, NEW p \in held \cup free, pmm_free_page(p), held' = held \ {p}, memmap' = memmap
  PROVE  Shared'
<1>0. IsFiniteSet(free)
  BY ManagedPages, FS_Subset DEF Shared
<1>1. CASE p \in free
  <2>1. free' = free /\ free_pages' = free_pages
    BY <1>1 DEF pmm_free_page
  <2> QED
    BY <1>1, <2>1 DEF Shared, Accounted
<1>2. CASE p \notin free
  <2>1. free' = free \cup {p} /\ free_pages' = free_pages + 1
    BY <1>2 DEF pmm_free_page
  <2>2. Cardinality(free') = Cardinality(free) + 1
    BY <1>0, <1>2, <2>1, FS_AddElement
  <2> DEFINE X == Exposed(memmap)
  <2>a. /\ (free \cup held) \ X = Managed(memmap) \ X
        /\ free \cap held \subseteq X
        /\ X = {} => free_pages = Cardinality(free)
    BY DEF Shared, Accounted
  <2> HIDE DEF X
  <2>3. /\ (free' \cup held') \ X = Managed(memmap) \ X
        /\ free' \cap held' \subseteq X
        /\ X = {} => free_pages' = Cardinality(free')
    BY <1>2, <2>1, <2>2, <2>a
  <2>4. Accounted'
    BY <2>3 DEF X, Accounted
  <2> QED
    BY <1>2, <2>1, <2>4 DEF Shared
<1> QED
  BY <1>1, <1>2

-----------------------------------------------------------------------------
LEMMA InitPages == Init => PagesInv /\ TableInv
<1> SUFFICES ASSUME Init PROVE PagesInv /\ TableInv
  OBVIOUS
<1>0. /\ memmap \in Memmaps /\ free = Managed(memmap) /\ free_pages = Cardinality(free)
      /\ held = {} /\ pc = "test1" /\ table = 0 /\ entries = 0
      /\ ptes = [v \in 0 .. ENTRIES - 1 |-> 0]
  BY DEF Init
<1>1. Shared
  BY <1>0, ManagedPages DEF Shared, Accounted
<1>2. TableInv
  BY <1>0 DEF TableInv, MapHeld
<1> QED
  BY <1>0, <1>1, <1>2 DEF PagesInv

(* The page table stays as it is; held grows, or loses a page that is none *)
(* of its own and mapped nowhere.                                          *)
LEMMA TableStays ==
  ASSUME TableInv, memmap' = memmap, table' = table, entries' = entries, ptes' = ptes,
         {pc, pc'} \subseteq {"run", "load", "map"},
         \A q \in held : q \notin Exposed(memmap) /\ (q \in {table, entries} \/
           (table \notin Exposed(memmap) /\ entries \notin Exposed(memmap)
             /\ \E v \in DOMAIN ptes : ptes[v] # v /\ ptes[v] = q)) => q \in held',
         pc' = "map" /\ page' \notin Exposed(memmap) =>
           /\ page' \notin {table, entries}
           /\ table \notin Exposed(memmap) /\ entries \notin Exposed(memmap) =>
                \A v \in DOMAIN ptes : ptes[v] # v => ptes[v] # page'
  PROVE  TableInv'
<1>1. MapHeld'
  <2> SUFFICES ASSUME table \notin Exposed(memmap), entries \notin Exposed(memmap),
                      NEW v \in DOMAIN ptes, ptes[v] # v, ptes[v] \notin Exposed(memmap)
               PROVE  /\ ptes[v] \in held'
                      /\ \A w \in DOMAIN ptes \ {v} : ptes[w] = ptes[v] => ptes[w] = w
    BY DEF MapHeld
  <2>1. /\ ptes[v] \in held
        /\ \A w \in DOMAIN ptes \ {v} : ptes[w] = ptes[v] => ptes[w] = w
    BY DEF TableInv, MapHeld
  <2> QED
    BY <2>1
<1>2. /\ table \notin Exposed(memmap) \cup {0} => table \in held'
      /\ entries \notin Exposed(memmap) \cup {0} => entries \in held'
  BY DEF TableInv
<1> QED
  BY <1>1, <1>2 DEF TableInv

(* Nothing of it changes before the table is made. *)
LEMMA NoTableYet ==
  ASSUME TableInv, memmap' = memmap, table' = table, entries' = entries, ptes' = ptes,
         pc' \in {"test1", "test2", "test3", "table", "entries"},
         table = 0, entries = 0
  PROVE  TableInv'
BY DEF TableInv, MapHeld

LEMMA NextPages ==
  ASSUME PagesInv, TableInv, [Next]_vars
  PROVE  PagesInv' /\ TableInv'
<1> DEFINE X == Exposed(memmap)
<1>a. Shared /\ memmap \in Memmaps /\ memmap' = memmap
  <2>1. memmap' = memmap
    BY DEF Next, vars
  <2> QED
    BY <2>1 DEF PagesInv, Shared
<1>c. TABLE_SIZE \in 0 .. PAGE_SIZE /\ PAGE_SIZE \in 0 .. PAGE_SIZE
  BY MemmapAssumption
<1>h. /\ table \notin X \cup {0} => table \in held
      /\ entries \notin X \cup {0} => entries \in held
  BY DEF TableInv
<1>w. {table, entries} \subseteq Managed(memmap) \cup X \cup {0}
  BY <1>a, <1>h DEF Shared, Accounted
<1>u. ASSUME UNCHANGED <<pmmVars, page, tableVars>>,
             pc \in {"run", "load"}, pc' \in {"run", "load"}
      PROVE  PagesInv' /\ TableInv'
  <2>1. /\ free' = free /\ held' = held /\ free_pages' = free_pages /\ page' = page
        /\ table' = table /\ entries' = entries /\ ptes' = ptes
    BY <1>u DEF pmmVars, tableVars
  <2>2. TableInv'
    BY <1>a, <1>u, <2>1, TableStays
  <2>3. Shared'
    BY <1>a, <2>1 DEF Shared, Accounted
  <2> QED
    BY <1>u, <2>2, <2>3 DEF PagesInv
<1>1. CASE TestAlloc1
  <2>1. Shared' /\ (Lowest # 0 => Lowest \in held')
    BY <1>1, <1>a, AllocIsShared DEF TestAlloc1
  <2>2. Lowest # 0
    <3>1. free = Managed(memmap) /\ free # {}
      BY <1>1, <1>a, RoomAssumption DEF TestAlloc1, PagesInv
    <3> QED
      BY <1>a, <3>1, LowestFree, ManagedPages
  <2>3. /\ pc = "test1" /\ pc' = "test2" /\ page1' = Lowest
        /\ table' = table /\ entries' = entries /\ ptes' = ptes
    BY <1>1 DEF TestAlloc1, tableVars
  <2>4. TableInv'
    BY <1>a, <2>3, NoTableYet DEF TableInv
  <2> QED
    BY <2>1, <2>2, <2>3, <2>4 DEF PagesInv
<1>2. CASE TestAlloc2
  <2>1. Shared' /\ held \subseteq held'
    BY <1>2, <1>a, AllocIsShared DEF TestAlloc2
  <2>2. /\ pc = "test2" /\ pc' = "test3" /\ page1' = page1
        /\ table' = table /\ entries' = entries /\ ptes' = ptes
    BY <1>2 DEF TestAlloc2, tableVars
  <2>3. TableInv'
    BY <1>a, <2>2, NoTableYet DEF TableInv
  <2> QED
    BY <2>1, <2>2, <2>3 DEF PagesInv
<1>3. CASE TestFree
  <2>1. page1 \in held
    BY <1>3 DEF TestFree, PagesInv
  <2>2. Shared'
    BY <1>3, <1>a, <2>1, FreeShared DEF TestFree
  <2>3. pc = "test3" /\ pc' = "table" /\ table' = table /\ entries' = entries /\ ptes' = ptes
    BY <1>3 DEF TestFree, tableVars
  <2>4. TableInv'
    BY <1>a, <2>3, NoTableYet DEF TableInv
  <2> QED
    BY <2>2, <2>3, <2>4 DEF PagesInv
<1>4. CASE MakeTable
  <2>1. Shared' /\ (Lowest # 0 => Lowest \in held')
    BY <1>4, <1>a, <1>c, ZeroedShared DEF MakeTable
  <2>2. /\ pc = "table" /\ pc' = "entries" /\ table' = Lowest
        /\ entries' = entries /\ ptes' = ptes
    BY <1>4 DEF MakeTable
  <2>3. entries = 0
    BY <2>2 DEF TableInv
  <2>4. TableInv'
    BY <1>a, <2>1, <2>2, <2>3 DEF TableInv, MapHeld
  <2> QED
    BY <2>1, <2>2, <2>4 DEF PagesInv
<1>5. CASE MakeEntries
  <2>1. /\ Taken /\ pc' = "run" /\ table' = table
        /\ entries' = IF Lowest = table THEN 0 ELSE Lowest
        /\ ptes' = [v \in 0 .. ENTRIES - 1 |-> v]
    BY <1>5 DEF MakeEntries
  <2>2. PICK f \in Overwritten(Rest, table, TABLE_SIZE) : free' \in Overwritten(f, Lowest, PAGE_SIZE)
    BY <1>5 DEF MakeEntries
  <2>3. Rest \in SUBSET AllPages(memmap)
    BY <1>a DEF Rest, Shared
  <2>4. f \in SUBSET AllPages(memmap) /\ f \ X = Rest \ X /\ (X = {} => f = Rest)
    BY <1>a, <1>c, <1>w, <2>3, WrittenOver
  <2>5. free' \in SUBSET AllPages(memmap) /\ free' \ X = f \ X /\ (X = {} => free' = f)
    BY <1>a, <1>c, <2>2, <2>4, LowestFree, WrittenOver
  <2>6. /\ Shared' /\ held \subseteq held'
        /\ Lowest # 0 => Lowest \in held'
    BY <1>a, <2>1, <2>4, <2>5, AllocShared
  <2>7. ENTRIES \in Nat
    BY MemmapAssumption
  <2>8. ptes' \in [0 .. ENTRIES - 1 -> Int] /\ MapHeld'
    BY <2>1, <2>7 DEF MapHeld
  <2>9. TableInv'
    BY <1>a, <1>h, <2>1, <2>6, <2>8 DEF TableInv
  <2> QED
    BY <2>1, <2>6, <2>9 DEF PagesInv
<1>6. CASE AllocPage
  <2>1. Shared' /\ held \subseteq held'
    BY <1>6, <1>a, AllocIsShared DEF AllocPage
  <2>2. /\ pc = "run" /\ pc' = "run" /\ table' = table /\ entries' = entries /\ ptes' = ptes
    BY <1>6 DEF AllocPage, tableVars
  <2>3. TableInv'
    BY <1>a, <2>1, <2>2, TableStays
  <2> QED
    BY <2>1, <2>2, <2>3 DEF PagesInv
<1>7. CASE VmmAlloc
  <2>1. /\ Shared' /\ held \subseteq held'
        /\ Lowest # 0 => Lowest \in held'
        /\ Lowest # 0 /\ Lowest \notin X => Lowest \notin held
    BY <1>7, <1>a, <1>c, ZeroedShared DEF VmmAlloc
  <2>2. /\ pc = "run" /\ pc' \in {"run", "map"} /\ (pc' = "map" => Lowest # 0)
        /\ page' = Lowest /\ table' = table
        /\ entries' = IF Lowest # 0 /\ Lowest = table THEN 0 ELSE entries
        /\ ptes' = IF Lowest # 0 /\ Lowest \in {table, entries}
                   THEN [v \in DOMAIN ptes |-> IF Lowest = table THEN None ELSE 0] ELSE ptes
    BY <1>7 DEF VmmAlloc
  <2>3. CASE Lowest # 0 /\ Lowest \in {table, entries}
    <3>1. Lowest \in X
      BY <1>h, <2>1, <2>3
    <3>2. table' \in X \/ entries' \in X
      BY <2>2, <2>3, <3>1
    <3>3. ptes' \in [0 .. ENTRIES - 1 -> Int]
      BY <2>2, <2>3 DEF TableInv, None
    <3>4. MapHeld'
      BY <1>a, <3>2 DEF MapHeld
    <3>5. TableInv'
      BY <1>a, <1>h, <2>1, <2>2, <3>1, <3>3, <3>4 DEF TableInv
    <3> QED
      BY <2>1, <2>2, <3>5 DEF PagesInv
  <2>4. CASE ~(Lowest # 0 /\ Lowest \in {table, entries})
    <3>1. table' = table /\ entries' = entries /\ ptes' = ptes
      BY <2>2, <2>4
    <3>2. table \notin X /\ entries \notin X =>
            \A v \in DOMAIN ptes : ptes[v] # v /\ ptes[v] \notin X => ptes[v] \in held
      BY <2>2 DEF TableInv, MapHeld
    <3>3. pc' = "map" /\ page' \notin X =>
            /\ page' \notin {table, entries}
            /\ table \notin X /\ entries \notin X =>
                 \A v \in DOMAIN ptes : ptes[v] # v => ptes[v] # page'
      BY <2>1, <2>2, <2>4, <3>2
    <3>4. TableInv'
      BY <1>a, <2>1, <2>2, <3>1, <3>3, TableStays
    <3> QED
      BY <2>1, <2>2, <3>4 DEF PagesInv
  <2> QED
    BY <2>3, <2>4
<1>8. CASE VmmMap
  <2>1. /\ page \in held /\ pc = "map" /\ pc' = "run" /\ held' = held \ {page}
        /\ table' = table /\ entries' = entries /\ ptes' = ptes
    BY <1>8 DEF VmmMap, PagesInv, tableVars
  <2>2. Shared'
    BY <1>8, <1>a, <2>1, FreeShared DEF VmmMap
  <2>3. page \notin X =>
          /\ page \notin {table, entries}
          /\ table \notin X /\ entries \notin X =>
               \A v \in DOMAIN ptes : ptes[v] # v => ptes[v] # page
    BY <2>1 DEF TableInv
  <2>4. TableInv'
    BY <1>a, <2>1, <2>3, TableStays
  <2> QED
    BY <2>1, <2>2, <2>4 DEF PagesInv
<1>9. ASSUME NEW p \in held \cup free, FreePage(p)
      PROVE  PagesInv' /\ TableInv'
  <2>1. /\ pc = "run" /\ pc' = "run" /\ held' = held \ {p} /\ p \notin {table, entries}
        /\ table' = table /\ entries' = entries /\ ptes' = ptes
        /\ \A v \in DOMAIN ptes : ptes[v] = p => p = v
    BY <1>9 DEF FreePage, tableVars
  <2>2. Shared'
    BY <1>9, <1>a, <2>1, FreeShared DEF FreePage
  <2>3. TableInv'
    BY <1>a, <2>1, TableStays
  <2> QED
    BY <2>1, <2>2, <2>3 DEF PagesInv
<1>10. ASSUME NEW f \in Files, LoadElf(f)
       PROVE  PagesInv' /\ TableInv'
  BY <1>10, <1>u DEF LoadElf
<1>11. CASE LoadPage
  <2> DEFINE v == (file[seg].vaddr + off) \div PAGE_SIZE
  <2>0. /\ pc = "load" /\ pc' = "load" /\ Taken /\ table' = table /\ entries' = entries
        /\ \/ /\ Maps(v, Lowest) /\ ptes' = [ptes EXCEPT ![v] = Lowest]
              /\ free' \in Overwritten(Rest, entries, PAGE_SIZE)
           \/ ~Maps(v, Lowest) /\ free' = Rest /\ ptes' = ptes
    BY <1>11 DEF LoadPage
  <2> HIDE DEF v
  <2>r. Rest \in SUBSET AllPages(memmap)
    BY <1>a DEF Rest, Shared
  <2>f. free' \in SUBSET AllPages(memmap) /\ free' \ X = Rest \ X /\ (X = {} => free' = Rest)
    <3>1. CASE free' = Rest
      BY <2>r, <3>1
    <3>2. CASE free' \in Overwritten(Rest, entries, PAGE_SIZE)
      BY <1>a, <1>c, <1>w, <2>r, <3>2, WrittenOver
    <3> QED
      BY <2>0, <3>1, <3>2
  <2>1. /\ Shared' /\ held \subseteq held'
        /\ Lowest # 0 => Lowest \in held'
        /\ Lowest # 0 /\ Lowest \notin X => Lowest \notin held
    BY <1>a, <2>0, <2>f, AllocShared
  <2>2. CASE ~Maps(v, Lowest)
    <3>1. TableInv'
      BY <1>a, <2>0, <2>1, <2>2, TableStays
    <3> QED
      BY <2>0, <2>1, <3>1 DEF PagesInv
  <2>3. CASE Maps(v, Lowest)
    <3>1. /\ Lowest \in held' /\ Lowest \in Nat
          /\ Lowest \notin X => Lowest \notin held
      BY <1>a, <2>1, <2>3, LowestFree DEF Maps
    <3>2. ptes' = [ptes EXCEPT ![v] = Lowest]
      BY <2>0, <2>3
    <3>3. ptes' \in [0 .. ENTRIES - 1 -> Int]
      <4>1. Lowest \in Int /\ ptes \in [0 .. ENTRIES - 1 -> Int]
        BY <3>1 DEF TableInv
      <4> HIDE DEF X
      <4> QED
        BY <3>2, <4>1
    <3>4. MapHeld'
      <4>2. DOMAIN ptes' = DOMAIN ptes
        BY <3>2
      <4> SUFFICES ASSUME table \notin X, entries \notin X,
                          NEW w \in DOMAIN ptes, ptes'[w] # w, ptes'[w] \notin X
                   PROVE  /\ ptes'[w] \in held'
                          /\ \A u \in DOMAIN ptes \ {w} : ptes'[u] = ptes'[w] => ptes'[u] = u
        BY <1>a, <2>0, <4>2 DEF MapHeld
      <4>1. \A x \in DOMAIN ptes : ptes[x] # x /\ ptes[x] \notin X =>
              /\ ptes[x] \in held
              /\ \A u \in DOMAIN ptes \ {x} : ptes[u] = ptes[x] => ptes[u] = u
        BY <2>0 DEF TableInv, MapHeld
      <4>3. CASE w = v
        <5>1. ptes'[w] = Lowest /\ \A u \in DOMAIN ptes \ {w} : ptes'[u] = ptes[u]
          BY <3>2, <4>3
        <5> QED
          BY <3>1, <4>1, <5>1
      <4>4. CASE w # v
        <5>1. ptes'[w] = ptes[w] /\ ptes[w] \in held
          BY <3>2, <4>1, <4>4
        <5>2. ASSUME NEW u \in DOMAIN ptes \ {w}, ptes'[u] = ptes'[w]
              PROVE  ptes'[u] = u
          <6>1. u # v
            BY <3>1, <3>2, <5>1, <5>2
          <6>2. ptes'[u] = ptes[u]
            BY <3>2, <6>1
          <6> QED
            BY <4>1, <5>1, <5>2, <6>2
        <5> QED
          BY <2>1, <5>1, <5>2
      <4> QED
        BY <4>3, <4>4
    <3> QED
      BY <1>a, <1>h, <2>0, <2>1, <3>3, <3>4 DEF PagesInv, TableInv
  <2> QED
    BY <2>2, <2>3
<1>12. CASE NextSegment
  BY <1>12, <1>u DEF NextSegment
<1>13. CASE LoadDone
  BY <1>13, <1>u DEF LoadDone
<1>14. CASE UNCHANGED vars
  <2>1. UNCHANGED <<free, held, free_pages, pc, page1, page, table, entries, ptes>>
    BY <1>14 DEF vars, pmmVars, tableVars
  <2>2. PagesInv'
    BY <1>a, <2>1 DEF PagesInv, Shared, Accounted
  <2>3. TableInv'
    BY <1>a, <2>1 DEF TableInv, MapHeld
  <2> QED
    BY <2>2, <2>3
<1> QED
  BY <1>1, <1>2, <1>3, <1>4, <1>5, <1>6, <1>7, <1>8, <1>9, <1>10, <1>11, <1>12, <1>13, <1>14
     DEF Next

-----------------------------------------------------------------------------
(* The loader. *)

(* A file's segments, in the numbers the proofs need. *)
LEMMA FileFacts ==
  ASSUME NEW f, f = <<>> \/ f \in Files
  PROVE  /\ Len(f) \in Nat /\ DOMAIN f = 1 .. Len(f)
         /\ \A i \in 1 .. Len(f) :
              /\ f[i].vaddr \in Nat /\ f[i].offset \in Nat
              /\ f[i].filesz \in Nat /\ f[i].memsz \in Nat
              /\ f[i].filesz <= f[i].memsz
         /\ \A i \in 1 .. Len(f), j \in 1 .. Len(f) :
              j < i => f[j].vaddr + f[j].memsz <= f[i].vaddr
<1>1. CASE f = <<>>
  BY <1>1
<1>2. CASE f \in Files
  <2> DEFINE S == [load : BOOLEAN, vaddr : Nat, offset : Nat, filesz : Nat, memsz : Nat]
  <2>1. f \in Seq(S)
    BY <1>2, FilesAssumption
  <2> HIDE DEF S
  <2>2. Len(f) \in Nat /\ DOMAIN f = 1 .. Len(f) /\ \A i \in 1 .. Len(f) : f[i] \in S
    BY <2>1
  <2>3. \A i \in 1 .. Len(f) :
              /\ f[i].vaddr \in Nat /\ f[i].offset \in Nat
              /\ f[i].filesz \in Nat /\ f[i].memsz \in Nat
    BY <2>2 DEF S
  <2>4. \A i \in 1 .. Len(f) :
          /\ f[i].filesz <= f[i].memsz
          /\ \A j \in 1 .. i - 1 : f[j].vaddr + f[j].memsz <= f[i].vaddr
    BY <1>2, <2>2, FilesAssumption
  <2>5. ASSUME NEW i \in 1 .. Len(f), NEW j \in 1 .. Len(f), j < i
        PROVE  f[j].vaddr + f[j].memsz <= f[i].vaddr
    <3>1. j \in 1 .. i - 1
      BY <2>2, <2>5
    <3> QED
      BY <2>4, <3>1
  <2> QED
    BY <2>2, <2>3, <2>4, <2>5
<1> QED
  BY <1>1, <1>2

LEMMA InitLoader == Init => ProgressInv /\ ImageInv
BY DEF Init, ProgressInv, ImageInv, Placed, None

(* The loader's state is not touched: nothing that it has placed changes. *)
LEMMA LoaderStays ==
  ASSUME ImageInv, UNCHANGED <<file, seg, off, image>>
  PROVE  ImageInv'
BY DEF ImageInv, Placed

LEMMA NextProgress ==
  ASSUME ProgressInv, [Next]_vars
  PROVE  ProgressInv'
<1>1. ASSUME NEW f \in Files, LoadElf(f) PROVE ProgressInv'
  BY <1>1 DEF LoadElf, ProgressInv
<1>2. CASE LoadPage
  <2>1. UNCHANGED <<pc, file, seg>> /\ off' = off + PAGE_SIZE
    BY <1>2 DEF LoadPage
  <2> QED
    BY <2>1, PageSize DEF ProgressInv
<1>3. CASE NextSegment
  BY <1>3 DEF NextSegment, ProgressInv
<1>4. CASE LoadDone
  BY <1>4 DEF LoadDone, loadVars, ProgressInv
<1>5. CASE UNCHANGED vars
  BY <1>5 DEF vars, loadVars, ProgressInv
<1>6. CASE TestAlloc1 \/ TestAlloc2 \/ TestFree \/ MakeTable \/ MakeEntries
  BY <1>6 DEF TestAlloc1, TestAlloc2, TestFree, MakeTable, MakeEntries, loadVars, ProgressInv
<1>7. CASE AllocPage \/ VmmAlloc \/ VmmMap
  BY <1>7 DEF AllocPage, VmmAlloc, VmmMap, loadVars, ProgressInv
<1>8. ASSUME NEW p \in held \cup free, FreePage(p) PROVE ProgressInv'
  BY <1>8 DEF FreePage, loadVars, ProgressInv
<1> QED
  BY <1>1, <1>2, <1>3, <1>4, <1>5, <1>6, <1>7, <1>8 DEF Next

(* The addresses to which a page at offset o of a segment is copied. *)
LEMMA CopiedBytes ==
  ASSUME NEW s, s.vaddr \in Nat, s.filesz \in Nat, NEW o \in Nat, NEW a \in Int
  PROVE  a \in s.vaddr + o .. s.vaddr + o + copy_size(s, o) - 1
           <=> s.vaddr + o <= a /\ a < s.vaddr + s.filesz /\ a < s.vaddr + (o + PAGE_SIZE)
<1> DEFINE b == s.vaddr
           z == s.filesz
<1>1. b \in Nat /\ z \in Nat
  OBVIOUS
<1>2. CASE o >= z
  BY <1>1, <1>2 DEF copy_size
<1>3. CASE o < z /\ o + PAGE_SIZE > z
  <2>1. copy_size(s, o) = z - o
    BY <1>1, <1>3, PageSize DEF copy_size
  <2> HIDE DEF b, z
  <2> QED
    BY <1>1, <1>3, <2>1, PageSize DEF b, z
<1>4. CASE o < z /\ ~(o + PAGE_SIZE > z)
  <2>1. copy_size(s, o) = PAGE_SIZE
    BY <1>1, <1>4, PageSize DEF copy_size
  <2> QED
    BY <1>1, <1>4, <2>1, PageSize
<1> QED
  BY <1>1, <1>2, <1>3, <1>4, PageSize

(* Arithmetic of addresses. *)
LEMMA SameByte ==
  ASSUME NEW o \in Nat, NEW k \in Nat, NEW b \in Nat, NEW a \in Int
  PROVE  o + k + (a - (b + k)) = o + (a - b) /\ o + k + (a - (b + k)) \in Int
OBVIOUS

LEMMA BelowSegment ==
  ASSUME NEW f \in Nat, NEW m \in Nat, NEW b \in Nat, NEW k \in Nat, NEW a \in Int
  PROVE  /\ f + m <= b /\ a < f + m => ~(b + k <= a)
         /\ b + k <= a => b <= a
OBVIOUS

(* A page is copied: the bytes it brings are those between off and off'    *)
(* of the segment that are in the file, and no other segment has them.     *)
LEMMA LoadPageImage ==
  ASSUME ProgressInv, ImageInv, LoadPage
  PROVE  ImageInv'
<1> DEFINE s == file[seg]
           v == s.vaddr + off
           n == copy_size(s, off)
<1>1. /\ seg <= Len(file) /\ s.load /\ file' = file /\ seg' = seg /\ off' = off + PAGE_SIZE
      /\ image' = [a \in DOMAIN image |->
                     IF a \in v .. v + n - 1 THEN s.offset + off + (a - v) ELSE image[a]]
      /\ pc = "load"
  BY DEF LoadPage
<1>2. file = <<>> \/ file \in Files
  BY DEF ProgressInv
<1>3. seg \in 1 .. Len(file) /\ off \in Nat /\ Len(file) \in Nat /\ DOMAIN file = 1 .. Len(file)
  BY <1>1, <1>2, FileFacts DEF ProgressInv
<1>4. /\ s.vaddr \in Nat /\ s.offset \in Nat /\ s.filesz \in Nat /\ v \in Nat
  BY <1>2, <1>3, FileFacts
<1>5. ASSUME NEW a \in Int
      PROVE  a \in v .. v + n - 1
               <=> s.vaddr + off <= a /\ a < s.vaddr + s.filesz /\ a < s.vaddr + (off + PAGE_SIZE)
  BY <1>3, <1>4, CopiedBytes
<1>6. /\ DOMAIN image' = DOMAIN image /\ DOMAIN image \subseteq Int
      /\ \A a \in DOMAIN image : image[a] \in Int
  BY <1>1 DEF ImageInv
<1>7. image' \in [0 .. VIRT_SIZE - 1 -> Int]
  <2>1. ASSUME NEW a \in DOMAIN image PROVE image'[a] \in Int
    <3>1. image[a] \in Int /\ s.offset + off + (a - v) \in Int
      BY <1>3, <1>4, <1>6, SameByte
    <3> HIDE DEF n, v
    <3> QED
      BY <1>1, <3>1
  <2> QED
    BY <1>1, <1>6, <2>1 DEF ImageInv
<1> HIDE DEF n
<1>8. ASSUME NEW a \in DOMAIN image, NEW i \in DOMAIN file, Placed(i, a)'
      PROVE  image'[a] = file[i].offset + (a - file[i].vaddr)
  <2>0. a \in Int /\ i \in 1 .. Len(file)
    BY <1>3, <1>6
  <2>1. /\ file[i].load /\ a \in file[i].vaddr .. file[i].vaddr + file[i].filesz - 1
        /\ i < seg \/ (i = seg /\ a < s.vaddr + (off + PAGE_SIZE))
    BY <1>1, <1>8 DEF Placed
  <2>2. /\ file[i].vaddr \in Nat /\ file[i].offset \in Nat /\ file[i].filesz \in Nat
        /\ file[i].memsz \in Nat /\ file[i].filesz <= file[i].memsz
    BY <1>2, <2>0, FileFacts
  <2>3. CASE i = seg
    <3>1. CASE a \in v .. v + n - 1
      <4>1. image'[a] = s.offset + off + (a - v)
        BY <1>1, <3>1
      <4>2. s.offset + off + (a - v) = s.offset + (a - s.vaddr)
        <5> HIDE DEF s
        <5> QED
          BY <1>3, <1>4, <2>0, SameByte
      <4> QED
        BY <2>3, <4>1, <4>2
    <3>2. CASE a \notin v .. v + n - 1
      <4>1. a < s.vaddr + off
        <5>1. ~(s.vaddr + off <= a /\ a < s.vaddr + s.filesz /\ a < s.vaddr + (off + PAGE_SIZE))
          BY <1>5, <2>0, <3>2
        <5>2. a < s.vaddr + s.filesz /\ a < s.vaddr + (off + PAGE_SIZE)
          BY <1>4, <2>0, <2>1, <2>3
        <5> QED
          BY <1>3, <1>4, <2>0, <5>1, <5>2
      <4>2. Placed(i, a)
        BY <2>1, <2>3, <4>1 DEF Placed
      <4> QED
        BY <1>1, <3>2, <4>2 DEF ImageInv
    <3> QED
      BY <3>1, <3>2
  <2>4. CASE i < seg
    <3>1. file[i].vaddr + file[i].memsz <= s.vaddr
      BY <1>2, <1>3, <2>0, <2>4, FileFacts
    <3>2. a \notin v .. v + n - 1
      <4>1. a < file[i].vaddr + file[i].memsz
        BY <2>0, <2>1, <2>2
      <4>2. ~(s.vaddr + off <= a)
        <5> HIDE DEF s, v
        <5> QED
          BY <1>3, <1>4, <2>0, <2>2, <3>1, <4>1, BelowSegment
      <4> QED
        BY <1>5, <2>0, <4>2
    <3>3. Placed(i, a)
      BY <2>1, <2>4 DEF Placed
    <3> QED
      BY <1>1, <3>2, <3>3 DEF ImageInv
  <2> QED
    BY <2>1, <2>3, <2>4
<1>9. ASSUME NEW a \in DOMAIN image, \A i \in DOMAIN file : ~Placed(i, a)'
      PROVE  image'[a] = None
  <2>0. a \in Int
    BY <1>6
  <2>1. a \notin v .. v + n - 1
    <3> SUFFICES ASSUME a \in v .. v + n - 1 PROVE FALSE
      OBVIOUS
    <3>1. a >= s.vaddr /\ a < s.vaddr + s.filesz /\ a < s.vaddr + (off + PAGE_SIZE)
      <4>1. s.vaddr + off <= a /\ a < s.vaddr + s.filesz /\ a < s.vaddr + (off + PAGE_SIZE)
        BY <1>5, <2>0
      <4> QED
        BY <1>3, <1>4, <2>0, <4>1, BelowSegment
    <3>2. a \in s.vaddr .. s.vaddr + s.filesz - 1
      BY <1>4, <2>0, <3>1
    <3>3. ASSUME NEW i \in DOMAIN file, i = seg PROVE Placed(i, a)'
      BY <1>1, <3>1, <3>2, <3>3 DEF Placed
    <3>4. seg \in DOMAIN file
      BY <1>3
    <3> QED
      BY <1>9, <3>3, <3>4
  <2>2. \A i \in DOMAIN file : ~Placed(i, a)
    <3> SUFFICES ASSUME NEW i \in DOMAIN file, Placed(i, a) PROVE FALSE
      OBVIOUS
    <3>1. Placed(i, a)'
      <4>1. /\ file[i].load /\ a \in file[i].vaddr .. file[i].vaddr + file[i].filesz - 1
            /\ i < seg \/ (i = seg /\ a < s.vaddr + off)
        BY DEF Placed
      <4>2. i < seg \/ (i = seg /\ a < s.vaddr + (off + PAGE_SIZE))
        BY <1>3, <1>4, <2>0, <4>1, PageSize
      <4> QED
        BY <1>1, <4>1, <4>2 DEF Placed
    <3> QED
      BY <1>9, <3>1
  <2> QED
    BY <1>1, <2>1, <2>2 DEF ImageInv
<1> QED
  BY <1>1, <1>6, <1>7, <1>8, <1>9 DEF ImageInv

(* A segment that is left was copied to its end, or has nothing to copy. *)
LEMMA NextSegmentImage ==
  ASSUME ProgressInv, ImageInv, NextSegment
  PROVE  ImageInv'
<1>1. /\ seg <= Len(file) /\ file' = file /\ seg' = seg + 1 /\ off' = 0 /\ image' = image
      /\ ~(file[seg].load /\ off < file[seg].memsz)
      /\ pc = "load"
  BY DEF NextSegment
<1>2. file = <<>> \/ file \in Files
  BY DEF ProgressInv
<1>3. seg \in 1 .. Len(file) /\ off \in Nat /\ Len(file) \in Nat /\ DOMAIN file = 1 .. Len(file)
  BY <1>1, <1>2, FileFacts DEF ProgressInv
<1>4. DOMAIN image \subseteq Int
  BY DEF ImageInv
<1>5. ASSUME NEW a \in DOMAIN image, NEW i \in DOMAIN file
      PROVE  Placed(i, a)' <=> Placed(i, a)
  <2>1. /\ file[i].vaddr \in Nat /\ file[i].filesz \in Nat /\ file[i].memsz \in Nat
        /\ file[i].filesz <= file[i].memsz /\ i \in 1 .. Len(file) /\ a \in Int
    BY <1>2, <1>3, <1>4, FileFacts
  <2>2. ASSUME file[i].load, a \in file[i].vaddr .. file[i].vaddr + file[i].filesz - 1
        PROVE  i < seg + 1 \/ (i = seg + 1 /\ a < file[i].vaddr + 0)
               <=> i < seg \/ (i = seg /\ a < file[i].vaddr + off)
    <3>1. i = seg => a < file[i].vaddr + off
      <4> SUFFICES ASSUME i = seg PROVE a < file[i].vaddr + off
        OBVIOUS
      <4>1. file[i].memsz <= off
        BY <1>1, <1>3, <2>1, <2>2
      <4>2. a < file[i].vaddr + file[i].filesz
        BY <2>1, <2>2
      <4> QED
        BY <1>3, <2>1, <4>1, <4>2
    <3>2. i = seg + 1 => ~(a < file[i].vaddr + 0)
      BY <2>1, <2>2
    <3>3. i < seg + 1 <=> i < seg \/ i = seg
      BY <1>3, <2>1
    <3> QED
      BY <3>1, <3>2, <3>3
  <2> QED
    BY <1>1, <2>2 DEF Placed
<1> QED
  BY <1>1, <1>5 DEF ImageInv

LEMMA NextImage ==
  ASSUME ProgressInv, ImageInv, [Next]_vars
  PROVE  ImageInv'
<1>1. ASSUME NEW f \in Files, LoadElf(f), file' = f, seg' = 1, off' = 0 PROVE ImageInv'
  <2>1. file = <<>> /\ file' = f /\ seg' = 1 /\ off' = 0 /\ image' = image
    BY <1>1 DEF LoadElf
  <2>2. \A a \in DOMAIN image : image[a] = None
    BY <2>1 DEF ImageInv
  <2>3. DOMAIN image \subseteq Int
    BY DEF ImageInv
  <2>4. ASSUME NEW a \in DOMAIN image, NEW i \in DOMAIN f PROVE ~Placed(i, a)'
    <3>1. f[i].vaddr \in Nat /\ i \in Nat /\ i > 0 /\ a \in Int /\ f[i].filesz \in Nat
      BY <2>3, FileFacts
    <3> QED
      BY <2>1, <3>1 DEF Placed
  <2> QED
    BY <2>1, <2>2, <2>4 DEF ImageInv
<1>2. CASE LoadPage
  BY <1>2, LoadPageImage
<1>3. CASE NextSegment
  BY <1>3, NextSegmentImage
<1>4. CASE LoadDone
  BY <1>4, LoaderStays DEF LoadDone, loadVars
<1>5. CASE UNCHANGED vars
  BY <1>5, LoaderStays DEF vars, loadVars
<1>6. CASE TestAlloc1 \/ TestAlloc2 \/ TestFree \/ MakeTable \/ MakeEntries
  BY <1>6, LoaderStays DEF TestAlloc1, TestAlloc2, TestFree, MakeTable, MakeEntries, loadVars
<1>7. CASE AllocPage \/ VmmAlloc \/ VmmMap
  BY <1>7, LoaderStays DEF AllocPage, VmmAlloc, VmmMap, loadVars
<1>8. ASSUME NEW p \in held \cup free, FreePage(p) PROVE ImageInv'
  BY <1>8, LoaderStays DEF FreePage, loadVars
<1>9. ASSUME NEW f \in Files, LoadElf(f) PROVE ImageInv'
  BY <1>1, <1>9, LoaderStays DEF LoadElf
<1> QED
  BY <1>2, <1>3, <1>4, <1>5, <1>6, <1>7, <1>8, <1>9 DEF Next

LEMMA ImageComplete ==
  ASSUME ProgressInv, ImageInv
  PROVE  SegmentsLoaded
<1> SUFFICES ASSUME pc = "run", file # <<>>
             PROVE  image = [a \in DOMAIN image |->
                      LET in == {i \in DOMAIN file :
                                  file[i].load /\ a \in file[i].vaddr .. file[i].vaddr + file[i].filesz - 1}
                      IN  IF in = {} THEN None
                          ELSE LET s == file[CHOOSE i \in in : TRUE] IN s.offset + (a - s.vaddr)]
  BY DEF SegmentsLoaded
<1>1. seg > Len(file) /\ seg \in Nat /\ DOMAIN file = 1 .. Len(file) /\ Len(file) \in Nat
  BY FileFacts DEF ProgressInv
<1> DEFINE In(a) == {i \in DOMAIN file :
                      file[i].load /\ a \in file[i].vaddr .. file[i].vaddr + file[i].filesz - 1}
           Byte(a) == IF In(a) = {} THEN None
                      ELSE LET s == file[CHOOSE i \in In(a) : TRUE] IN s.offset + (a - s.vaddr)
<1>2. ASSUME NEW a \in DOMAIN image PROVE image[a] = Byte(a)
  <2>1. \A i \in DOMAIN file : i \in In(a) <=> Placed(i, a)
    BY <1>1 DEF Placed
  <2>2. CASE In(a) = {}
    BY <2>1, <2>2 DEF ImageInv
  <2>3. CASE In(a) # {}
    <3> DEFINE i == CHOOSE i \in In(a) : TRUE
    <3>1. i \in In(a)
      <4> HIDE DEF In
      <4> QED
        BY <2>3
    <3>2. i \in DOMAIN file /\ Placed(i, a)
      BY <2>1, <3>1
    <3> HIDE DEF i
    <3>3. image[a] = file[i].offset + (a - file[i].vaddr)
      BY <3>2 DEF ImageInv
    <3> QED
      BY <2>3, <3>3, Zenon DEF i
  <2> QED
    BY <2>2, <2>3
<1> HIDE DEF Byte
<1>3. image = [a \in DOMAIN image |-> Byte(a)]
  BY <1>2 DEF ImageInv
<1> QED
  BY <1>3, Zenon DEF Byte

-----------------------------------------------------------------------------
(* On every memory map, every page that pmm_init freed is either free or   *)
(* held by one caller at all times: neither the test in vmm_init, a vmm    *)
(* call that fails, nor a page given back twice loses or invents one.      *)
(* What the callers write behind the end of the bitmap disturbs the pages  *)
(* of Exposed at most; where there are none, free_pages is the number of   *)
(* free ones.                                                              *)
THEOREM PagesAccountedFor == Spec => []Accounted
<1>1. Init => PagesInv /\ TableInv
  BY InitPages
<1>2. PagesInv /\ TableInv /\ [Next]_vars => PagesInv' /\ TableInv'
  BY NextPages
<1>3. PagesInv => Accounted
  BY DEF PagesInv, Shared
<1> QED
  BY <1>1, <1>2, <1>3, PTL DEF Spec

(* On every memory map, every page that is or can be handed out and is not *)
(* exposed lies wholly in usable memory and holds no bit of the bitmap but *)
(* those behind its last page boundary.                                    *)
THEOREM HandsOutUsableMemory == Spec => []OnlyUsable
<1>1. Init => PagesInv /\ TableInv
  BY InitPages
<1>2. PagesInv /\ TableInv /\ [Next]_vars => PagesInv' /\ TableInv'
  BY NextPages
<1>3. PagesInv => OnlyUsable
  <2> SUFFICES ASSUME PagesInv, NEW p \in (free \cup held) \ Exposed(memmap)
               PROVE  /\ \E e \in UsableEntries(memmap) :
                           e.base <= p * PAGE_SIZE /\ (p + 1) * PAGE_SIZE <= End(e)
                      /\ BitsIn(memmap, p, PAGE_SIZE) \subseteq LastBits(memmap)
    BY DEF OnlyUsable
  <2>1. memmap \in Memmaps /\ p \in Managed(memmap)
    BY DEF PagesInv, Shared, Accounted
  <2> QED
    BY <2>1, PageFacts, BitsBelow
<1> QED
  BY <1>1, <1>2, <1>3, PTL DEF Spec

(* If memory ends at a multiple of 8 * PAGE_SIZE pages, on every map, no   *)
(* page is exposed: then Accounted, OnlyUsable and MapHeld are about all   *)
(* of them, and pmm_get_free_memory tells the truth.                       *)
THEOREM WholePagesAreSafe ==
  ASSUME \A m \in Memmaps : total_pages(m) % (8 * PAGE_SIZE) = 0
  PROVE  Spec => [](/\ free \cup held = Managed(memmap) /\ free \cap held = {}
                    /\ free_pages = Cardinality(free))
<1>1. Init => PagesInv /\ TableInv
  BY InitPages
<1>2. PagesInv /\ TableInv /\ [Next]_vars => PagesInv' /\ TableInv'
  BY NextPages
<1>3. PagesInv => /\ free \cup held = Managed(memmap) /\ free \cap held = {}
                  /\ free_pages = Cardinality(free)
  <2> SUFFICES ASSUME PagesInv
               PROVE  /\ free \cup held = Managed(memmap) /\ free \cap held = {}
                      /\ free_pages = Cardinality(free)
    OBVIOUS
  <2>1. Exposed(memmap) = {}
    BY NoneExposed DEF PagesInv, Shared
  <2> QED
    BY <2>1 DEF PagesInv, Shared, Accounted
<1> QED
  BY <1>1, <1>2, <1>3, PTL DEF Spec

(* The frames that the loader mapped stay held and are mapped once, also   *)
(* when memory runs out while it loads, exposed ones apart.                *)
THEOREM FramesStayHeld == Spec => []MapHeld
<1>1. Init => PagesInv /\ TableInv
  BY InitPages
<1>2. PagesInv /\ TableInv /\ [Next]_vars => PagesInv' /\ TableInv'
  BY NextPages
<1>3. TableInv => MapHeld
  BY DEF TableInv
<1> QED
  BY <1>1, <1>2, <1>3, PTL DEF Spec

(* elf64_load_and_prepare puts every byte of every loadable segment at its *)
(* address and nothing anywhere else, for every file whose segments begin  *)
(* on a page and share none, whatever pmm_alloc_page returned.             *)
THEOREM LoaderPlacesSegments == Spec => []SegmentsLoaded
<1>1. Init => ProgressInv /\ ImageInv
  BY InitLoader
<1>2. ProgressInv /\ ImageInv /\ [Next]_vars => ProgressInv' /\ ImageInv'
  BY NextProgress, NextImage
<1>3. ProgressInv /\ ImageInv => SegmentsLoaded
  BY ImageComplete
<1> QED
  BY <1>1, <1>2, <1>3, PTL DEF Spec
=============================================================================
