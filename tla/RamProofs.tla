----------------------------- MODULE RamProofs -----------------------------
(***************************************************************************)
(* Memory that is handed out.                                              *)
(*                                                                         *)
(* First kmalloc and umalloc: their blocks, for every heap size, page      *)
(* size, header and sequence of requests.                                  *)
(*                                                                         *)
(* Then the RAM file system on top of kmalloc, for every set of names and  *)
(* paths.  Its invariant is about all nodes that are allocated, not only   *)
(* those that can be reached: each child of one is allocated and names it  *)
(* as its parent, so no node has two places.  Three things are shown by    *)
(* induction over the steps of a recursive function: that a lookup ends at *)
(* a child of a node that can be reached (LookupFound), that Reachable is  *)
(* closed and the least such set (ReachClosed, ReachLeast), and what a     *)
(* walk of ramfs_find_node that makes directories keeps (CreateWalk).      *)
(***************************************************************************)
EXTENDS KernelHeap, RamFs, FiniteSetTheorems, SequenceTheorems, WellFoundedInduction, TLAPS

-----------------------------------------------------------------------------
(* The kernel and user heap. *)

HeapInv == HeapTypeOK /\ BlocksLargeEnough /\ BlocksDisjoint /\ OverflowDrainsMemory

(* Both roundings give at least the size asked for. *)
LEMMA AlignGrows ==
  ASSUME NEW n \in Nat
  PROVE  align8(n) \in Nat /\ align8(n) >= n
<1> DEFINE m == n + 7
<1>1. m \in Nat /\ m >= 7 /\ m % 8 \in 0 .. 7 /\ m % 2 \in 0 .. 1 /\ m = n + 7
  OBVIOUS
<1>2. (m % 8) - (m % 2) <= 7 /\ (m % 8) - (m % 2) >= 0
  <2>1. m % 8 >= m % 2
    OBVIOUS
  <2> QED
    BY <1>1, <2>1
<1> HIDE DEF m
<1>3. /\ m - ((m % 8) - (m % 2)) \in Nat /\ m - ((m % 8) - (m % 2)) >= n
      /\ m - (m % 8) \in Nat /\ m - (m % 8) >= n
  BY <1>1, <1>2
<1> QED
  BY <1>3 DEF align8, m

(* What is left after the i-th block is unlinked from the free list. *)
LEMMA WithoutFacts ==
  ASSUME NEW S, NEW s \in Seq(S), NEW i \in 1 .. Len(s)
  PROVE  /\ Without(s, i) \in Seq(S)
         /\ Len(Without(s, i)) = Len(s) - 1
         /\ DOMAIN Without(s, i) = 1 .. Len(s) - 1
         /\ \A j \in 1 .. Len(s) - 1 :
              Without(s, i)[j] = IF j < i THEN s[j] ELSE s[j + 1]
BY DEF Without

LEMMA InitHeap == HeapInit => HeapInv
<1> SUFFICES ASSUME HeapInit PROVE HeapInv
  OBVIOUS
<1>1. free_list \in Seq(Blocks) /\ DOMAIN free_list = {}
  BY DEF HeapInit
<1> QED
  BY <1>1, HeapAssumption
     DEF HeapAssumption, HeapInit, HeapInv, HeapTypeOK, BlocksLargeEnough, BlocksDisjoint, OverflowDrainsMemory

(* A held block is a block, and lies below heap_end; so is a freed one.    *)
LEMMA BlockFacts ==
  ASSUME HeapInv
  PROVE  /\ heap_end \in Nat
         /\ \A h \in live : /\ h.block \in Blocks /\ h.req \in Nat
                            /\ h.block.size >= h.req /\ BlockEnd(h.block) <= heap_end
         /\ \A i \in DOMAIN free_list : /\ free_list[i] \in Blocks
                                        /\ BlockEnd(free_list[i]) <= heap_end
BY DEF HeapInv, HeapTypeOK, BlocksLargeEnough

(* A block at or above heap_end overlaps nothing that ends below it.       *)
LEMMA AboveIsApart ==
  ASSUME NEW b \in Blocks, NEW c \in Blocks, BlockEnd(b) <= c.addr
  PROVE  ~Overlap(b, c) /\ ~Overlap(c, b)
BY HeapAssumption DEF HeapAssumption, Blocks, Overlap, BlockEnd

LEMMA NextHeap ==
  ASSUME HeapInv, [HeapNext]_heapVars
  PROVE  HeapInv'
<1> USE HeapAssumption DEF HeapAssumption
<1>t. HeapTypeOK /\ BlocksLargeEnough /\ BlocksDisjoint /\ OverflowDrainsMemory
  BY DEF HeapInv
<1>1. ASSUME NEW n \in Requests, MallocFit(n) PROVE HeapInv'
  <2>0. n \in Nat
    OBVIOUS
  <2>1. PICK i \in DOMAIN free_list :
          /\ free_list[i].size >= align8(n)
          /\ live' = live \cup {[block |-> free_list[i], req |-> n]}
          /\ free_list' = Without(free_list, i)
    BY <1>1 DEF MallocFit
  <2>2. i \in 1 .. Len(free_list) /\ free_list \in Seq(Blocks) /\ free_list[i] \in Blocks
    BY <1>t DEF HeapTypeOK
  <2>3. /\ free_list' \in Seq(Blocks)
        /\ DOMAIN free_list' = 1 .. Len(free_list) - 1
        /\ \A j \in 1 .. Len(free_list) - 1 :
             free_list'[j] = IF j < i THEN free_list[j] ELSE free_list[j + 1]
    BY <2>1, <2>2, WithoutFacts
  <2>4. \A j \in DOMAIN free_list' : \E k \in DOMAIN free_list :
          k # i /\ free_list'[j] = free_list[k] /\ k = (IF j < i THEN j ELSE j + 1)
    BY <2>2, <2>3
  <2>5. UNCHANGED <<heap_end, frames, pc, req>> /\ pc = "idle"
    BY <1>1 DEF MallocFit
  <2>6. HeapTypeOK'
    BY <1>t, <2>0, <2>1, <2>2, <2>3, <2>5 DEF HeapTypeOK
  <2>7. BlocksLargeEnough'
    <3>1. free_list[i].size >= n /\ BlockEnd(free_list[i]) <= heap_end
      BY <1>t, <2>0, <2>1, <2>2, AlignGrows DEF BlocksLargeEnough, Blocks
    <3>2. \A h \in live' : h.block.size >= h.req /\ BlockEnd(h.block) <= heap_end
      BY <1>t, <2>1, <3>1 DEF BlocksLargeEnough
    <3> QED
      BY <1>t, <2>4, <2>5, <3>2 DEF BlocksLargeEnough, BlockEnd
  <2>8. BlocksDisjoint'
    <3>1. ASSUME NEW h \in live', NEW k \in live', h # k PROVE ~Overlap(h.block, k.block)
      BY <1>t, <2>1, <3>1 DEF BlocksDisjoint, Overlap
    <3>2. ASSUME NEW h \in live', NEW j \in DOMAIN free_list' PROVE ~Overlap(h.block, free_list'[j])
      BY <1>t, <2>1, <2>4, <3>2 DEF BlocksDisjoint
    <3>3. ASSUME NEW j \in DOMAIN free_list', NEW k \in DOMAIN free_list', j # k
          PROVE  ~Overlap(free_list'[j], free_list'[k])
      <4>1. PICK a \in DOMAIN free_list : free_list'[j] = free_list[a] /\ a = (IF j < i THEN j ELSE j + 1)
        BY <2>4
      <4>2. PICK b \in DOMAIN free_list : free_list'[k] = free_list[b] /\ b = (IF k < i THEN k ELSE k + 1)
        BY <2>4
      <4>3. a # b
        BY <2>2, <2>3, <3>3, <4>1, <4>2
      <4> QED
        BY <1>t, <4>1, <4>2, <4>3 DEF BlocksDisjoint
    <3> QED
      BY <3>1, <3>2, <3>3 DEF BlocksDisjoint, Overlap, BlockEnd
  <2> QED
    BY <1>t, <2>5, <2>6, <2>7, <2>8 DEF HeapInv, OverflowDrainsMemory
<1>2. ASSUME NEW n \in Requests, MallocExpand(n) PROVE HeapInv'
  BY <1>2, <1>t DEF MallocExpand, HeapInv, HeapTypeOK, BlocksLargeEnough, BlocksDisjoint,
                    OverflowDrainsMemory, Overlap, BlockEnd
<1>3. CASE ExpandHeap
  <2>1. heap_end' \in Nat /\ heap_end' >= heap_end /\ frames' \in 0 .. Frames
    BY <1>3, <1>t DEF ExpandHeap, HeapTypeOK
  <2>2. UNCHANGED <<free_list, live, pc, req>> /\ pc = "expand"
    BY <1>3 DEF ExpandHeap
  <2>3. HeapTypeOK' /\ OverflowDrainsMemory'
    BY <1>t, <2>1, <2>2 DEF HeapTypeOK, OverflowDrainsMemory
  <2>4. BlocksLargeEnough'
    BY <2>1, <2>2, BlockFacts DEF BlocksLargeEnough, BlockEnd, Blocks
  <2>5. BlocksDisjoint'
    BY <1>t, <2>2 DEF BlocksDisjoint, Overlap, BlockEnd
  <2> QED
    BY <2>3, <2>4, <2>5 DEF HeapInv
<1>4. CASE Carve
  <2> DEFINE b == Block(heap_end, align8(req))
  <2>1. /\ live' = live \cup {[block |-> b, req |-> req]}
        /\ heap_end' = heap_end + Need /\ pc' = "idle" /\ req' = 0
        /\ UNCHANGED <<free_list, frames>>
        /\ heap_end + Need <= HEAP_SIZE \/ frames = 0
    BY <1>4 DEF Carve
  <2>2. req \in Nat /\ align8(req) \in Nat /\ align8(req) >= req /\ heap_end \in Nat
    BY <1>t, AlignGrows DEF HeapTypeOK
  <2>3. b \in Blocks /\ b.size >= req /\ b.addr = heap_end
    BY <2>2 DEF Blocks, Block
  <2>4. heap_end' \in Nat /\ heap_end' >= heap_end /\ BlockEnd(b) = heap_end'
    BY <2>1, <2>2 DEF Need, BlockEnd, Block
  <2> HIDE DEF b
  <2>5. HeapTypeOK'
    BY <1>t, <2>1, <2>2, <2>3, <2>4 DEF HeapTypeOK
  <2>6. BlocksLargeEnough'
    <3>1. \A h \in live' : h.block.size >= h.req /\ BlockEnd(h.block) <= heap_end'
      BY <2>1, <2>3, <2>4, BlockFacts DEF BlockEnd, Blocks
    <3>2. \A i \in DOMAIN free_list : BlockEnd(free_list[i]) <= heap_end'
      BY <2>4, <2>2, BlockFacts DEF BlockEnd, Blocks
    <3> QED
      BY <2>1, <3>1, <3>2 DEF BlocksLargeEnough, BlockEnd
  <2>7. BlocksDisjoint'
    <3>1. \A h \in live : ~Overlap(h.block, b) /\ ~Overlap(b, h.block)
      BY <2>3, BlockFacts, AboveIsApart
    <3>2. \A i \in DOMAIN free_list : ~Overlap(b, free_list[i])
      BY <2>3, BlockFacts, AboveIsApart
    <3>3. \A h, k \in live' : h # k => ~Overlap(h.block, k.block)
      BY <1>t, <2>1, <3>1 DEF BlocksDisjoint
    <3>4. \A h \in live' : \A i \in DOMAIN free_list : ~Overlap(h.block, free_list[i])
      BY <1>t, <2>1, <3>2 DEF BlocksDisjoint
    <3> QED
      BY <1>t, <2>1, <3>3, <3>4 DEF BlocksDisjoint, Overlap, BlockEnd
  <2>8. OverflowDrainsMemory'
    BY <2>1, <2>4 DEF OverflowDrainsMemory
  <2> QED
    BY <2>5, <2>6, <2>7, <2>8 DEF HeapInv
<1>5. ASSUME NEW h \in live, Free(h) PROVE HeapInv'
  <2>1. /\ live' = live \ {h} /\ free_list' = <<h.block>> \o free_list
        /\ UNCHANGED <<heap_end, frames, pc, req>>
    BY <1>5 DEF Free
  <2>2. h.block \in Blocks /\ free_list \in Seq(Blocks)
    BY <1>t, BlockFacts DEF HeapTypeOK
  <2>3. /\ free_list' \in Seq(Blocks)
        /\ DOMAIN free_list' = 1 .. Len(free_list) + 1
        /\ free_list'[1] = h.block
        /\ \A i \in 2 .. Len(free_list) + 1 : free_list'[i] = free_list[i - 1]
    BY <2>1, <2>2
  <2>4. \A i \in DOMAIN free_list' :
          \/ i = 1 /\ free_list'[i] = h.block
          \/ i # 1 /\ i - 1 \in DOMAIN free_list /\ free_list'[i] = free_list[i - 1]
    BY <2>2, <2>3
  <2>5. HeapTypeOK' /\ OverflowDrainsMemory'
    BY <1>t, <2>1, <2>3 DEF HeapTypeOK, OverflowDrainsMemory
  <2>6. BlocksLargeEnough'
    BY <2>1, <2>4, BlockFacts DEF BlocksLargeEnough, BlockEnd
  <2>7. BlocksDisjoint'
    <3>1. \A k \in live' : k \in live /\ k # h
      BY <2>1
    <3>2. \A k \in live' : \A i \in DOMAIN free_list' : ~Overlap(k.block, free_list'[i])
      BY <1>t, <2>4, <3>1 DEF BlocksDisjoint
    <3>3. ASSUME NEW i \in DOMAIN free_list', NEW j \in DOMAIN free_list', i # j
          PROVE  ~Overlap(free_list'[i], free_list'[j])
      <4>1. CASE i # 1 /\ j # 1
        <5>1. i - 1 # j - 1
          BY <2>2, <2>3, <3>3
        <5> QED
          BY <1>t, <2>4, <4>1, <5>1 DEF BlocksDisjoint
      <4>2. CASE i = 1 \/ j = 1
        <5>1. \A k \in DOMAIN free_list : ~Overlap(h.block, free_list[k]) /\ ~Overlap(free_list[k], h.block)
          BY <1>t DEF BlocksDisjoint, Overlap
        <5> QED
          BY <2>4, <3>3, <4>2, <5>1
      <4> QED
        BY <4>1, <4>2
    <3> QED
      BY <1>t, <3>1, <3>2, <3>3 DEF BlocksDisjoint, Overlap, BlockEnd
  <2> QED
    BY <2>5, <2>6, <2>7 DEF HeapInv
<1>6. CASE UNCHANGED heapVars
  BY <1>6, <1>t DEF heapVars, HeapInv, HeapTypeOK, BlocksLargeEnough, BlocksDisjoint,
                    OverflowDrainsMemory, Overlap, BlockEnd
<1> QED
  BY <1>1, <1>2, <1>3, <1>4, <1>5, <1>6 DEF HeapNext

(* No two blocks of the heap ever overlap, and every caller has what it    *)
(* asked for: kmalloc, kfree, umalloc and ufree, for every heap.           *)
THEOREM HeapBlocks == HeapSpec => []BlocksSound
<1>1. HeapInv => BlocksSound
  BY DEF HeapInv, BlocksSound
<1>2. HeapInv /\ [HeapNext]_heapVars => HeapInv'
  BY NextHeap
<1> QED
  BY InitHeap, <1>1, <1>2, PTL DEF HeapSpec

(* The heap grows past heap_max only by taking every physical page there   *)
(* is (expand_heap).                                                       *)
THEOREM HeapDrains == HeapSpec => []OverflowDrainsMemory
<1>1. HeapInv => OverflowDrainsMemory
  BY DEF HeapInv
<1>2. HeapInv /\ [HeapNext]_heapVars => HeapInv'
  BY NextHeap
<1> QED
  BY InitHeap, <1>1, <1>2, PTL DEF HeapSpec

-----------------------------------------------------------------------------
(* The RAM file system. *)

(* A set of numbers that is not empty has a least one. *)
LEMMA LeastNumber ==
  ASSUME NEW S \in SUBSET Nat, S # {}
  PROVE  \E x \in S : \A y \in S : x <= y
<1> DEFINE R == OpToRel(<, Nat)
<1>1. IsWellFoundedOn(R, Nat)
  BY NatLessThanWellFounded
<1>2. PICK x \in S : \A y \in S : ~ (<<y, x>> \in R)
  <2> HIDE DEF R
  <2> QED
    BY <1>1, WFMin
<1>3. \A y \in S : ~(y < x)
  BY <1>2 DEF OpToRel
<1> QED
  BY <1>3

LEMMA MinFacts ==
  ASSUME NEW S \in SUBSET Nat, S # {}
  PROVE  Min(S) \in S /\ \A y \in S : Min(S) <= y
<1>1. \E x \in S : \A y \in S : x <= y
  BY LeastNumber
<1> QED
  BY <1>1 DEF Min

LEMMA NodeFacts ==
  /\ MaxNodes \in Nat /\ RAMFS_MAX_CHILDREN \in Nat /\ Nodes \subseteq Nat
  /\ Root \in Nodes /\ NULL \notin Nodes /\ Root # NULL /\ IsFiniteSet(Nodes)
BY RamFsAssumption, FS_Interval DEF Nodes, Root, NULL

-----------------------------------------------------------------------------
(* Arrays of children. *)

LEMMA AppendChild ==
  ASSUME NEW s \in Seq(Nodes), NEW n \in Nodes
  PROVE  /\ Append(s, n) \in Seq(Nodes)
         /\ Range(Append(s, n)) = Range(s) \cup {n}
         /\ IsInjective(s) /\ n \notin Range(s) => IsInjective(Append(s, n))
<1> DEFINE t == Append(s, n)
<1>1. /\ t \in Seq(Nodes) /\ Len(t) = Len(s) + 1 /\ Len(s) \in Nat
      /\ DOMAIN s = 1 .. Len(s) /\ DOMAIN t = 1 .. Len(s) + 1
      /\ \A i \in 1 .. Len(s) : t[i] = s[i]
      /\ t[Len(s) + 1] = n
  BY AppendProperties, LenProperties
<1> HIDE DEF t
<1>2. Range(t) = Range(s) \cup {n}
  BY <1>1 DEF Range
<1>3. ASSUME IsInjective(s), n \notin Range(s) PROVE IsInjective(t)
  <2> SUFFICES ASSUME NEW i \in DOMAIN t, NEW j \in DOMAIN t, t[i] = t[j] PROVE i = j
    BY DEF IsInjective
  <2>1. \A k \in 1 .. Len(s) : t[k] # n
    BY <1>1, <1>3 DEF Range
  <2>2. CASE i \in 1 .. Len(s) /\ j \in 1 .. Len(s)
    BY <1>1, <1>3, <2>2 DEF IsInjective
  <2> QED
    BY <1>1, <2>1, <2>2
<1> QED
  BY <1>1, <1>2, <1>3 DEF t

LEMMA UnlinkChild ==
  ASSUME NEW s \in Seq(Nodes), IsInjective(s), NEW n \in Range(s)
  PROVE  /\ Unlinked(s, n) \in Seq(Nodes)
         /\ Range(Unlinked(s, n)) = Range(s) \ {n}
         /\ IsInjective(Unlinked(s, n))
<1> DEFINE I == {i \in 1 .. Len(s) : s[i] = n}
           k == Min(I)
           t == SubSeq(s, 1, k - 1) \o SubSeq(s, k + 1, Len(s))
<1>0. Len(s) \in Nat /\ DOMAIN s = 1 .. Len(s)
  BY LenProperties
<1>1. I # {}
  BY <1>0 DEF Range
<1>2. k \in 1 .. Len(s) /\ s[k] = n
  <2>1. I \in SUBSET Nat
    BY <1>0
  <2>2. k \in I
    <3> HIDE DEF I
    <3> QED
      BY <1>1, <2>1, MinFacts
  <2> QED
    BY <2>2
<1>3. Unlinked(s, n) = t
  BY <1>0, <1>1 DEF Unlinked, RemoveFirst, RemoveAt, SelectInSeq
<1> HIDE DEF k
<1> DEFINE a == SubSeq(s, 1, k - 1)
           b == SubSeq(s, k + 1, Len(s))
<1>4. /\ a \in Seq(Nodes) /\ Len(a) = k - 1
      /\ \A i \in 1 .. k - 1 : a[i] = s[i]
  BY <1>0, <1>2
<1>5. /\ b \in Seq(Nodes) /\ Len(b) = Len(s) - k
      /\ \A i \in 1 .. Len(s) - k : b[i] = s[k + i]
  <2>1. k + 1 \in Int /\ Len(s) \in Int /\ \A i \in k + 1 .. Len(s) : s[i] \in Nodes
    BY <1>0, <1>2
  <2>2. /\ b \in Seq(Nodes)
        /\ Len(b) = IF k + 1 <= Len(s) THEN Len(s) - (k + 1) + 1 ELSE 0
        /\ \A i \in 1 .. Len(s) - (k + 1) + 1 : b[i] = s[(k + 1) + i - 1]
    BY <2>1, SubSeqProperties
  <2> HIDE DEF b
  <2>3. ASSUME NEW i \in 1 .. Len(s) - k PROVE b[i] = s[k + i]
    <3>1. i \in 1 .. Len(s) - (k + 1) + 1 /\ (k + 1) + i - 1 = k + i
      BY <1>0, <1>2
    <3> QED
      BY <2>2, <3>1
  <2>4. Len(b) = Len(s) - k
    <3> DEFINE L == Len(s)
    <3>1. L \in Nat /\ k \in Nat /\ k <= L
      BY <1>0, <1>2
    <3>2. Len(b) = IF k + 1 <= L THEN L - (k + 1) + 1 ELSE 0
      BY <2>2
    <3> HIDE DEF L
    <3>3. Len(b) = L - k
      BY <3>1, <3>2
    <3> QED
      BY <3>3 DEF L
  <2> QED
    BY <2>2, <2>3, <2>4
<1> HIDE DEF a, b
<1>6. /\ t \in Seq(Nodes) /\ Len(t) = Len(a) + Len(b)
      /\ \A i \in 1 .. Len(a) + Len(b) : t[i] = IF i <= Len(a) THEN a[i] ELSE b[i - Len(a)]
  <2>1. t = a \o b
    BY DEF a, b
  <2> HIDE DEF t
  <2>2. /\ a \o b \in Seq(Nodes) /\ Len(a \o b) = Len(a) + Len(b)
        /\ \A i \in 1 .. Len(a) + Len(b) :
             (a \o b)[i] = IF i <= Len(a) THEN a[i] ELSE b[i - Len(a)]
    BY <1>4, <1>5, ConcatProperties
  <2> QED
    BY <2>1, <2>2
<1> HIDE DEF t
<1>7. /\ DOMAIN t = 1 .. Len(s) - 1
      /\ \A i \in 1 .. Len(s) - 1 : t[i] = IF i < k THEN s[i] ELSE s[i + 1]
  <2>1. Len(t) = Len(s) - 1
    BY <1>0, <1>2, <1>4, <1>5, <1>6
  <2>2. ASSUME NEW i \in 1 .. Len(s) - 1 PROVE t[i] = IF i < k THEN s[i] ELSE s[i + 1]
    <3>0. i \in 1 .. Len(a) + Len(b)
      BY <1>0, <1>2, <1>4, <1>5
    <3>1. CASE i < k
      <4>1. i <= Len(a) /\ i \in 1 .. k - 1
        BY <1>2, <1>4, <3>1
      <4> QED
        BY <1>4, <1>6, <3>0, <3>1, <4>1
    <3>2. CASE ~(i < k)
      <4>1. ~(i <= Len(a)) /\ i - Len(a) \in 1 .. Len(s) - k /\ k + (i - Len(a)) = i + 1
        BY <1>0, <1>2, <1>4, <3>2
      <4> QED
        BY <1>5, <1>6, <3>0, <3>2, <4>1
    <3> QED
      BY <3>1, <3>2
  <2> QED
    BY <1>6, <2>1, <2>2, LenProperties
<1>8. IsInjective(t)
  <2> SUFFICES ASSUME NEW i \in 1 .. Len(s) - 1, NEW j \in 1 .. Len(s) - 1, t[i] = t[j] PROVE i = j
    BY <1>7 DEF IsInjective
  <2> DEFINE x == IF i < k THEN i ELSE i + 1
             y == IF j < k THEN j ELSE j + 1
  <2>1. x \in DOMAIN s /\ y \in DOMAIN s /\ t[i] = s[x] /\ t[j] = s[y]
    BY <1>0, <1>2, <1>7
  <2>2. x = y
    BY <2>1 DEF IsInjective
  <2> QED
    BY <1>0, <1>2, <2>2
<1>9. Range(t) = Range(s) \ {n}
  <2>1. ASSUME NEW i \in 1 .. Len(s) - 1 PROVE t[i] \in Range(s) \ {n}
    <3> DEFINE x == IF i < k THEN i ELSE i + 1
    <3>1. x \in DOMAIN s /\ t[i] = s[x] /\ x # k /\ k \in DOMAIN s
      BY <1>0, <1>2, <1>7
    <3> QED
      BY <1>2, <3>1 DEF IsInjective, Range
  <2>2. ASSUME NEW x \in DOMAIN s, s[x] # n PROVE s[x] \in Range(t)
    <3> DEFINE i == IF x < k THEN x ELSE x - 1
    <3>1. i \in DOMAIN t /\ t[i] = s[x]
      BY <1>0, <1>2, <1>7, <2>2
    <3> QED
      BY <3>1 DEF Range
  <2> QED
    BY <1>7, <2>1, <2>2 DEF Range
<1> QED
  BY <1>3, <1>6, <1>8, <1>9

-----------------------------------------------------------------------------
(* Functions that are defined step by step. *)

(* Induction up to n, over a set of numbers. *)
LEMMA UpTo ==
  ASSUME NEW n \in Nat, NEW S, 0 \in S, \A i \in 1 .. n : i - 1 \in S => i \in S
  PROVE  \A i \in 0 .. n : i \in S
<1> DEFINE T == {i \in 0 .. n : i \notin S}
<1> SUFFICES ASSUME T # {} PROVE FALSE
  OBVIOUS
<1>1. PICK k \in T : \A j \in T : k <= j
  <2>1. T \in SUBSET Nat
    OBVIOUS
  <2> HIDE DEF T
  <2> QED
    BY <2>1, LeastNumber
<1>2. k \in 1 .. n /\ k \notin S
  BY <1>1
<1>3. k - 1 \in 0 .. n /\ ~(k <= k - 1)
  BY <1>2
<1>4. k - 1 \in S
  BY <1>1, <1>3
<1> QED
  BY <1>2, <1>4

(* Lookup and Reachable of any tree. *)
LookupIn(nd, comps) ==
  LET child == [n \in Nodes \cup {NULL} |->
                  [c \in Components |-> IF n = NULL THEN NULL ELSE ChildOf(nd, n, <<c>>)]]
      at[i \in 0 .. Len(comps)] ==
        IF i = 0 THEN Root ELSE child[at[i - 1]][comps[i]]
  IN  at[Len(comps)]

ReachIn(nd) ==
  LET below == [S \in SUBSET Nodes |-> S \cup UNION {Range(nd[n].children) : n \in S}]
      within[k \in 0 .. MaxNodes] == IF k = 0 THEN {Root} ELSE below[within[k - 1]]
  IN  within[MaxNodes]

Child(nd) ==
  [n \in Nodes \cup {NULL} |->
     [c \in Components |-> IF n = NULL THEN NULL ELSE ChildOf(nd, n, <<c>>)]]

Below(nd) == [S \in SUBSET Nodes |-> S \cup UNION {Range(nd[n].children) : n \in S}]

LEMMA TheseAre ==
  /\ \A comps : Lookup(comps) = LookupIn(node, comps) /\ Lookup(comps)' = LookupIn(node', comps)
  /\ Reachable = ReachIn(node) /\ Reachable' = ReachIn(node')
BY DEF Lookup, LookupIn, Reachable, ReachIn, Children

(* The nodes that ramfs_find_node goes through. *)
LEMMA LookupSteps ==
  ASSUME NEW nd, NEW comps, Len(comps) \in Nat
  PROVE  \E g : /\ g[0] = Root
                /\ \A i \in 1 .. Len(comps) : g[i] = Child(nd)[g[i - 1]][comps[i]]
                /\ LookupIn(nd, comps) = g[Len(comps)]
<1> DEFINE child == Child(nd)
           Eq(g, k) == g = [i \in 0 .. k |-> IF i = 0 THEN Root ELSE child[g[i - 1]][comps[i]]]
           n == Len(comps)
           S == {k \in 0 .. n : \E g : Eq(g, k)}
           at == CHOOSE g : Eq(g, n)
<1>1. LookupIn(nd, comps) = at[n]
  BY DEF LookupIn, Child
<1> HIDE DEF child
<1>2. 0 \in S
  <2> DEFINE h == [i \in 0 .. 0 |-> Root]
  <2>1. \A i \in 0 .. 0 : i = 0
    OBVIOUS
  <2>2. h = [i \in 0 .. 0 |-> IF i = 0 THEN Root ELSE child[h[i - 1]][comps[i]]]
    BY <2>1
  <2>3. Eq(h, 0) /\ 0 \in 0 .. n
    BY <2>2
  <2> HIDE DEF h, Eq
  <2> QED
    BY <2>3
<1>3. ASSUME NEW k \in 1 .. n, k - 1 \in S PROVE k \in S
  <2>1. PICK g : Eq(g, k - 1)
    BY <1>3
  <2> DEFINE h == [i \in 0 .. k |-> IF i = k THEN child[g[k - 1]][comps[k]] ELSE g[i]]
  <2>2. ASSUME NEW i \in 0 .. k PROVE h[i] = IF i = 0 THEN Root ELSE child[h[i - 1]][comps[i]]
    <3>1. CASE i = k
      <4>1. k - 1 \in 0 .. k /\ k - 1 # k /\ k # 0
        OBVIOUS
      <4> QED
        BY <3>1, <4>1
    <3>2. CASE i # k
      <4>1. i \in 0 .. k - 1 /\ (i # 0 => i - 1 \in 0 .. k /\ i - 1 # k)
        BY <3>2
      <4>2. g[i] = IF i = 0 THEN Root ELSE child[g[i - 1]][comps[i]]
        BY <2>1, <4>1
      <4> QED
        BY <3>2, <4>1, <4>2
    <3> QED
      BY <3>1, <3>2
  <2>3. Eq(h, k)
    <3>1. h = [i \in 0 .. k |-> h[i]]
      OBVIOUS
    <3> HIDE DEF h
    <3> QED
      BY <2>2, <3>1
  <2> HIDE DEF h, Eq
  <2> QED
    BY <2>3
<1>4. n \in S
  <2>1. n \in Nat /\ n \in 0 .. n
    OBVIOUS
  <2> HIDE DEF S, n
  <2>2. \A i \in 0 .. n : i \in S
    BY <1>2, <1>3, <2>1, UpTo
  <2> QED
    BY <2>1, <2>2
<1>5. Eq(at, n)
  <2>1. \E g : Eq(g, n)
    BY <1>4
  <2> HIDE DEF Eq
  <2> QED
    BY <2>1
<1> HIDE DEF at
<1>6. at[0] = Root /\ \A i \in 1 .. n : at[i] = child[at[i - 1]][comps[i]]
  <2>1. at = [i \in 0 .. n |-> IF i = 0 THEN Root ELSE child[at[i - 1]][comps[i]]]
    BY <1>5
  <2>2. n \in Nat
    OBVIOUS
  <2> HIDE DEF n
  <2>3. ASSUME NEW i \in 0 .. n PROVE at[i] = IF i = 0 THEN Root ELSE child[at[i - 1]][comps[i]]
    BY <2>1, Zenon
  <2>4. 0 \in 0 .. n /\ \A i \in 1 .. n : i \in 0 .. n /\ i # 0
    BY <2>2
  <2> QED
    BY <2>3, <2>4
<1> QED
  BY <1>1, <1>6 DEF child

(* The walks that ramfs_find_node goes through when it makes directories. *)
LEMMA CreateSteps ==
  ASSUME NEW comps, Len(comps) \in Nat
  PROVE  \E g : /\ g[0] = Walk(node, heap, Root)
                /\ \A i \in 1 .. Len(comps) : g[i] = Enter(g[i - 1], comps[i])
                /\ find_node_create(comps) = g[Len(comps)]
<1> DEFINE base == Walk(node, heap, Root)
           Eq(g, k) == g = [i \in 0 .. k |-> IF i = 0 THEN base ELSE Enter(g[i - 1], comps[i])]
           n == Len(comps)
           S == {k \in 0 .. n : \E g : Eq(g, k)}
           at == CHOOSE g : Eq(g, n)
<1>1. find_node_create(comps) = at[n]
  BY DEF find_node_create
<1> HIDE DEF base
<1>2. 0 \in S
  <2> DEFINE h == [i \in 0 .. 0 |-> base]
  <2>1. \A i \in 0 .. 0 : i = 0
    OBVIOUS
  <2>2. h = [i \in 0 .. 0 |-> IF i = 0 THEN base ELSE Enter(h[i - 1], comps[i])]
    BY <2>1
  <2>3. Eq(h, 0) /\ 0 \in 0 .. n
    BY <2>2
  <2> HIDE DEF h, Eq
  <2> QED
    BY <2>3
<1>3. ASSUME NEW k \in 1 .. n, k - 1 \in S PROVE k \in S
  <2>1. PICK g : Eq(g, k - 1)
    BY <1>3
  <2> DEFINE h == [i \in 0 .. k |-> IF i = k THEN Enter(g[k - 1], comps[k]) ELSE g[i]]
  <2>2. ASSUME NEW i \in 0 .. k PROVE h[i] = IF i = 0 THEN base ELSE Enter(h[i - 1], comps[i])
    <3>1. CASE i = k
      <4>1. k - 1 \in 0 .. k /\ k - 1 # k /\ k # 0
        OBVIOUS
      <4> QED
        BY <3>1, <4>1
    <3>2. CASE i # k
      <4>1. i \in 0 .. k - 1 /\ (i # 0 => i - 1 \in 0 .. k /\ i - 1 # k)
        BY <3>2
      <4>2. g[i] = IF i = 0 THEN base ELSE Enter(g[i - 1], comps[i])
        BY <2>1, <4>1
      <4> QED
        BY <3>2, <4>1, <4>2
    <3> QED
      BY <3>1, <3>2
  <2>3. Eq(h, k)
    <3>1. h = [i \in 0 .. k |-> h[i]]
      OBVIOUS
    <3> HIDE DEF h
    <3> QED
      BY <2>2, <3>1
  <2> HIDE DEF h, Eq
  <2> QED
    BY <2>3
<1>4. n \in S
  <2>1. n \in Nat /\ n \in 0 .. n
    OBVIOUS
  <2> HIDE DEF S, n
  <2>2. \A i \in 0 .. n : i \in S
    BY <1>2, <1>3, <2>1, UpTo
  <2> QED
    BY <2>1, <2>2
<1>5. Eq(at, n)
  <2>1. \E g : Eq(g, n)
    BY <1>4
  <2> HIDE DEF Eq
  <2> QED
    BY <2>1
<1> HIDE DEF at
<1>6. at[0] = base /\ \A i \in 1 .. n : at[i] = Enter(at[i - 1], comps[i])
  <2>1. at = [i \in 0 .. n |-> IF i = 0 THEN base ELSE Enter(at[i - 1], comps[i])]
    BY <1>5
  <2>2. n \in Nat
    OBVIOUS
  <2> HIDE DEF n
  <2>3. ASSUME NEW i \in 0 .. n PROVE at[i] = IF i = 0 THEN base ELSE Enter(at[i - 1], comps[i])
    BY <2>1, Zenon
  <2>4. 0 \in 0 .. n /\ \A i \in 1 .. n : i \in 0 .. n /\ i # 0
    BY <2>2
  <2> QED
    BY <2>3, <2>4
<1> QED
  BY <1>1, <1>6 DEF base

(* The sets that Reachable grows through. *)
LEMMA ReachSteps ==
  ASSUME NEW nd, MaxNodes \in Nat
  PROVE  \E g : /\ g[0] = {Root}
                /\ \A i \in 1 .. MaxNodes : g[i] = Below(nd)[g[i - 1]]
                /\ ReachIn(nd) = g[MaxNodes]
<1> DEFINE below == Below(nd)
           Eq(g, k) == g = [i \in 0 .. k |-> IF i = 0 THEN {Root} ELSE below[g[i - 1]]]
           n == MaxNodes
           S == {k \in 0 .. n : \E g : Eq(g, k)}
           at == CHOOSE g : Eq(g, n)
<1>1. ReachIn(nd) = at[n]
  BY DEF ReachIn, Below
<1> HIDE DEF below
<1>2. 0 \in S
  <2> DEFINE h == [i \in 0 .. 0 |-> {Root}]
  <2>1. \A i \in 0 .. 0 : i = 0
    OBVIOUS
  <2>2. h = [i \in 0 .. 0 |-> IF i = 0 THEN {Root} ELSE below[h[i - 1]]]
    BY <2>1
  <2>3. Eq(h, 0) /\ 0 \in 0 .. n
    BY <2>2
  <2> HIDE DEF h, Eq
  <2> QED
    BY <2>3
<1>3. ASSUME NEW k \in 1 .. n, k - 1 \in S PROVE k \in S
  <2>1. PICK g : Eq(g, k - 1)
    BY <1>3
  <2> DEFINE h == [i \in 0 .. k |-> IF i = k THEN below[g[k - 1]] ELSE g[i]]
  <2>2. ASSUME NEW i \in 0 .. k PROVE h[i] = IF i = 0 THEN {Root} ELSE below[h[i - 1]]
    <3>1. CASE i = k
      <4>1. k - 1 \in 0 .. k /\ k - 1 # k /\ k # 0
        OBVIOUS
      <4> QED
        BY <3>1, <4>1
    <3>2. CASE i # k
      <4>1. i \in 0 .. k - 1 /\ (i # 0 => i - 1 \in 0 .. k /\ i - 1 # k)
        BY <3>2
      <4>2. g[i] = IF i = 0 THEN {Root} ELSE below[g[i - 1]]
        BY <2>1, <4>1
      <4> QED
        BY <3>2, <4>1, <4>2
    <3> QED
      BY <3>1, <3>2
  <2>3. Eq(h, k)
    <3>1. h = [i \in 0 .. k |-> h[i]]
      OBVIOUS
    <3> HIDE DEF h
    <3> QED
      BY <2>2, <3>1
  <2> HIDE DEF h, Eq
  <2> QED
    BY <2>3
<1>4. n \in S
  <2>1. n \in Nat /\ n \in 0 .. n
    OBVIOUS
  <2> HIDE DEF S, n
  <2>2. \A i \in 0 .. n : i \in S
    BY <1>2, <1>3, <2>1, UpTo
  <2> QED
    BY <2>1, <2>2
<1>5. Eq(at, n)
  <2>1. \E g : Eq(g, n)
    BY <1>4
  <2> HIDE DEF Eq
  <2> QED
    BY <2>1
<1> HIDE DEF at
<1>6. at[0] = {Root} /\ \A i \in 1 .. n : at[i] = below[at[i - 1]]
  <2>1. at = [i \in 0 .. n |-> IF i = 0 THEN {Root} ELSE below[at[i - 1]]]
    BY <1>5
  <2>2. n \in Nat
    OBVIOUS
  <2> HIDE DEF n
  <2>3. ASSUME NEW i \in 0 .. n PROVE at[i] = IF i = 0 THEN {Root} ELSE below[at[i - 1]]
    BY <2>1, Zenon
  <2>4. 0 \in 0 .. n /\ \A i \in 1 .. n : i \in 0 .. n /\ i # 0
    BY <2>2
  <2> QED
    BY <2>3, <2>4
<1> QED
  BY <1>1, <1>6 DEF below

-----------------------------------------------------------------------------
(* Trees. *)

NodeNames == {<<>>} \cup {Kept(name) : name \in GivenNames}

NodeRecs ==
  [name : NodeNames, type : {"DIR", "FILE"}, parent : Nodes \cup {NULL},
   data : Contents \cup {"none"}, children : Seq(Nodes)]

Kids(nd, n) == Range(nd[n].children)

(* What all that is allocated satisfies, whether it can be reached or not. *)
Tree(nd, hp) ==
  /\ nd \in [Nodes -> NodeRecs] /\ hp \in SUBSET Nodes
  /\ Root \in hp /\ nd[Root].type = "DIR"
  /\ \A n \in hp : /\ IsInjective(nd[n].children)
                   /\ \A m \in Kids(nd, n) : m \in hp /\ m # Root /\ m # n /\ nd[m].parent = n

(* Files are put into directories of the root. *)
FilesDeep(nd) == \A m \in Kids(nd, Root) : nd[m].type = "DIR"

LEMMA KidsFacts ==
  ASSUME NEW nd \in [Nodes -> NodeRecs], NEW n \in Nodes
  PROVE  nd[n] \in NodeRecs /\ nd[n].children \in Seq(Nodes) /\ Kids(nd, n) \in SUBSET Nodes
<1>1. nd[n].children \in Seq(Nodes)
  BY DEF NodeRecs
<1> QED
  BY <1>1, LenProperties DEF Kids, Range

(* ChildOf finds a child of that name where there is one.                  *)
LEMMA ChildFacts ==
  ASSUME NEW nd \in [Nodes -> NodeRecs], NEW n \in Nodes, NEW name
  PROVE  \/ ChildOf(nd, n, name) = NULL /\ \A m \in Kids(nd, n) : nd[m].name # name
         \/ /\ ChildOf(nd, n, name) \in Kids(nd, n) /\ ChildOf(nd, n, name) # NULL
            /\ nd[ChildOf(nd, n, name)].name = name
<1> DEFINE s == nd[n].children
           found == {i \in DOMAIN s : nd[s[i]].name = name}
<1>1. s \in Seq(Nodes) /\ DOMAIN s = 1 .. Len(s) /\ Len(s) \in Nat
  BY KidsFacts, LenProperties
<1> HIDE DEF s
<1>2. ChildOf(nd, n, name) = IF found = {} THEN NULL ELSE s[Min(found)]
  BY DEF ChildOf, s
<1>3. Kids(nd, n) = Range(s)
  BY DEF Kids, s
<1>4. CASE found = {}
  BY <1>2, <1>3, <1>4 DEF Range
<1>5. CASE found # {}
  <2>1. found \in SUBSET Nat
    BY <1>1
  <2>2. Min(found) \in found
    <3> HIDE DEF found
    <3> QED
      BY <1>5, <2>1, MinFacts
  <2>3. Min(found) \in DOMAIN s /\ nd[s[Min(found)]].name = name
    BY <2>2
  <2> DEFINE k == Min(found)
  <2>4. k \in DOMAIN s /\ nd[s[k]].name = name /\ ChildOf(nd, n, name) = s[k]
    BY <1>2, <1>5, <2>3
  <2> HIDE DEF k, found
  <2>5. s[k] \in Range(s)
    BY <2>4 DEF Range
  <2>6. s[k] \in Nodes
    BY <1>1, <2>4
  <2> QED
    BY <1>3, <2>4, <2>5, <2>6, NodeFacts
<1> QED
  BY <1>4, <1>5

(* What the operations do to the nodes: a node is written, it is put       *)
(* behind the children of a directory, it is taken out of its directory.   *)
Put(nd, n, r) == [nd EXCEPT ![n] = r]
Link(nd, k, n) == [nd EXCEPT ![k].children = Append(@, n)]
Cut(nd, n) == [nd EXCEPT ![nd[n].parent].children = Unlinked(@, n), ![n] = Blank]

(* A node that was not in use, written and then put behind the children of *)
(* the directory it names as its parent.                                   *)
Added(nd, hp, cur, n, r) ==
  LET put == Put(nd, n, r)
      link == Link(put, cur, n)
  IN  /\ Tree(put, hp \cup {n}) /\ Tree(link, hp \cup {n})
      /\ put[n] = r /\ \A m \in hp : put[m] = nd[m]
      /\ \A m \in hp : m # cur => link[m] = nd[m]
      /\ link[n] = r
      /\ link[cur].name = nd[cur].name /\ link[cur].type = nd[cur].type
      /\ link[cur].data = nd[cur].data /\ link[cur].parent = nd[cur].parent
      /\ Kids(link, cur) = Kids(nd, cur) \cup {n}
      /\ Kids(put, n) = {} /\ Kids(link, n) = {}

LEMMA AddNode ==
  ASSUME NEW nd, NEW hp, Tree(nd, hp), NEW cur \in hp, NEW n \in Nodes \ hp,
         NEW r \in NodeRecs, r.children = <<>>, r.parent = cur
  PROVE  Added(nd, hp, cur, n, r)
<1> DEFINE put == Put(nd, n, r)
           link == Link(put, cur, n)
<1>0. /\ nd \in [Nodes -> NodeRecs] /\ hp \in SUBSET Nodes
      /\ cur \in Nodes /\ n \in Nodes /\ n # cur /\ n # Root
  BY DEF Tree
<1>1. /\ put \in [Nodes -> NodeRecs] /\ put[n] = r
      /\ \A m \in Nodes : m # n => put[m] = nd[m]
  BY <1>0 DEF Put
<1> HIDE DEF put
<1> DEFINE s == nd[cur].children
<1>2. s \in Seq(Nodes) /\ put[cur] \in NodeRecs /\ put[cur].children = s
  BY <1>0, <1>1, KidsFacts
<1>3. IsInjective(s) /\ n \notin Range(s)
  BY <1>0 DEF Tree, Kids
<1>4. /\ Append(s, n) \in Seq(Nodes) /\ Range(Append(s, n)) = Range(s) \cup {n}
      /\ IsInjective(Append(s, n))
  BY <1>0, <1>2, <1>3, AppendChild
<1> HIDE DEF s
<1> DEFINE rc == [put[cur] EXCEPT !.children = Append(s, n)]
<1>5. /\ rc \in NodeRecs /\ rc.children = Append(s, n)
      /\ rc.name = put[cur].name /\ rc.type = put[cur].type
      /\ rc.data = put[cur].data /\ rc.parent = put[cur].parent
  BY <1>2, <1>4 DEF NodeRecs
<1>6. link = [put EXCEPT ![cur] = rc]
  BY <1>2 DEF Link
<1> HIDE DEF rc, link
<1>7. /\ link \in [Nodes -> NodeRecs] /\ link[cur] = rc
      /\ \A m \in Nodes : m # cur => link[m] = put[m]
  BY <1>0, <1>1, <1>5, <1>6
<1>8. /\ \A m \in hp : put[m] = nd[m]
      /\ \A m \in hp : m # cur => link[m] = nd[m]
      /\ link[n] = r
  BY <1>0, <1>1, <1>7
<1>9. /\ link[cur].name = nd[cur].name /\ link[cur].type = nd[cur].type
      /\ link[cur].data = nd[cur].data /\ link[cur].parent = nd[cur].parent
  BY <1>0, <1>1, <1>5, <1>7
<1>10. /\ Kids(link, cur) = Kids(nd, cur) \cup {n}
       /\ Kids(put, n) = {} /\ Kids(link, n) = {}
       /\ \A m \in hp : Kids(put, m) = Kids(nd, m)
       /\ \A m \in hp : m # cur => Kids(link, m) = Kids(nd, m)
       /\ IsInjective(put[n].children) /\ IsInjective(link[n].children)
  <2>1. Range(<<>>) = {} /\ IsInjective(<<>>)
    BY DEF Range, IsInjective
  <2>2. Kids(link, cur) = Kids(nd, cur) \cup {n}
    BY <1>4, <1>5, <1>7 DEF Kids, s
  <2> QED
    BY <1>1, <1>8, <2>1, <2>2 DEF Kids
<1>11. Root \in hp /\ nd[Root].type = "DIR" /\ link[Root].type = "DIR" /\ put[Root].type = "DIR"
  BY <1>8, <1>9 DEF Tree
<1>12. Tree(put, hp \cup {n})
  <2> SUFFICES ASSUME NEW k \in hp \cup {n}
               PROVE  /\ IsInjective(put[k].children)
                      /\ \A m \in Kids(put, k) : /\ m \in hp \cup {n} /\ m # Root /\ m # k
                                                 /\ put[m].parent = k
    BY <1>0, <1>1, <1>11 DEF Tree
  <2>1. CASE k = n
    BY <1>10, <2>1
  <2>2. CASE k \in hp
    <3>1. IsInjective(put[k].children)
      BY <1>8, <2>2 DEF Tree
    <3>2. ASSUME NEW m \in Kids(put, k)
          PROVE  m \in hp \cup {n} /\ m # Root /\ m # k /\ put[m].parent = k
      <4>1. m \in Kids(nd, k)
        BY <1>10, <2>2
      <4>2. m \in hp /\ m # Root /\ m # k /\ nd[m].parent = k
        BY <2>2, <4>1 DEF Tree
      <4> QED
        BY <1>8, <4>2
    <3> QED
      BY <3>1, <3>2
  <2> QED
    BY <2>1, <2>2
<1>13. Tree(link, hp \cup {n})
  <2> SUFFICES ASSUME NEW k \in hp \cup {n}
               PROVE  /\ IsInjective(link[k].children)
                      /\ \A m \in Kids(link, k) : /\ m \in hp \cup {n} /\ m # Root /\ m # k
                                                  /\ link[m].parent = k
    BY <1>0, <1>7, <1>11 DEF Tree
  <2>1. CASE k = n
    BY <1>10, <2>1
  <2>2. CASE k \in hp
    <3>1. IsInjective(link[k].children)
      <4>1. CASE k = cur
        BY <1>4, <1>5, <1>7, <4>1
      <4>2. CASE k # cur
        BY <1>8, <2>2, <4>2 DEF Tree
      <4> QED
        BY <4>1, <4>2
    <3>2. ASSUME NEW m \in Kids(link, k)
          PROVE  m \in hp \cup {n} /\ m # Root /\ m # k /\ link[m].parent = k
      <4>1. CASE m = n /\ k = cur
        BY <1>0, <1>8, <4>1
      <4>2. CASE m \in Kids(nd, k)
        <5>1. m \in hp /\ m # Root /\ m # k /\ nd[m].parent = k
          BY <2>2, <4>2 DEF Tree
        <5> QED
          BY <1>8, <1>9, <5>1
      <4> QED
        BY <1>10, <2>2, <4>1, <4>2
    <3> QED
      BY <3>1, <3>2
  <2> QED
    BY <2>1, <2>2
<1> QED
  BY <1>8, <1>9, <1>10, <1>12, <1>13, <1>1 DEF Added, put, link

(* A node that is taken out of the directory it was found in.              *)
Removed(nd, hp, k, n) ==
  LET cut == Cut(nd, n) IN
  /\ nd[n].parent = k /\ n \in hp /\ n # k /\ n # Root
  /\ Tree(cut, hp \ {n})
  /\ \A m \in hp : m # n /\ m # k => cut[m] = nd[m]
  /\ cut[k].name = nd[k].name /\ cut[k].type = nd[k].type
  /\ cut[k].data = nd[k].data /\ cut[k].parent = nd[k].parent
  /\ Kids(cut, k) = Kids(nd, k) \ {n}
  /\ \A m \in hp : m # k => n \notin Kids(nd, m)

LEMMA RemoveNode ==
  ASSUME NEW nd, NEW hp, Tree(nd, hp), NEW k \in hp, NEW n \in Kids(nd, k)
  PROVE  Removed(nd, hp, k, n)
<1> DEFINE cut == Cut(nd, n)
<1>0. /\ nd \in [Nodes -> NodeRecs] /\ hp \in SUBSET Nodes /\ k \in Nodes
      /\ Root \in hp /\ nd[Root].type = "DIR"
  BY DEF Tree
<1>1. n \in hp /\ n # Root /\ n # k /\ nd[n].parent = k /\ n \in Nodes
  BY <1>0 DEF Tree
<1> DEFINE s == nd[k].children
<1>2. s \in Seq(Nodes) /\ IsInjective(s) /\ n \in Range(s) /\ nd[k] \in NodeRecs
  <2>1. IsInjective(s)
    BY DEF Tree
  <2> QED
    BY <1>0, <2>1, KidsFacts DEF Kids
<1>3. /\ Unlinked(s, n) \in Seq(Nodes) /\ Range(Unlinked(s, n)) = Range(s) \ {n}
      /\ IsInjective(Unlinked(s, n))
  BY <1>2, UnlinkChild
<1> DEFINE rc == [nd[k] EXCEPT !.children = Unlinked(s, n)]
<1>4. cut = [[nd EXCEPT ![k] = rc] EXCEPT ![n] = Blank]
  BY <1>0, <1>1 DEF Cut
<1> HIDE DEF s, cut
<1>5. /\ rc \in NodeRecs /\ rc.children = Unlinked(s, n)
      /\ rc.name = nd[k].name /\ rc.type = nd[k].type
      /\ rc.data = nd[k].data /\ rc.parent = nd[k].parent
  BY <1>2, <1>3 DEF NodeRecs
<1>6. Blank \in NodeRecs
  <2>1. <<>> \in Seq(Nodes) /\ <<>> \in NodeNames
    BY DEF NodeNames
  <2> QED
    BY <2>1 DEF Blank, Node, NodeRecs
<1> HIDE DEF rc
<1>7. /\ cut \in [Nodes -> NodeRecs] /\ cut[k] = rc
      /\ \A m \in Nodes : m # n /\ m # k => cut[m] = nd[m]
  BY <1>0, <1>1, <1>4, <1>5, <1>6
<1>8. Kids(cut, k) = Kids(nd, k) \ {n}
  BY <1>3, <1>5, <1>7 DEF Kids, s
<1>9. /\ \A m \in hp : m # n /\ m # k => cut[m] = nd[m]
      /\ cut[k].name = nd[k].name /\ cut[k].type = nd[k].type
      /\ cut[k].data = nd[k].data /\ cut[k].parent = nd[k].parent
  BY <1>0, <1>5, <1>7
<1>10. \A m \in hp : m # k => n \notin Kids(nd, m)
  BY <1>1 DEF Tree
<1>11. \A m \in hp \ {n} : m # k => Kids(cut, m) = Kids(nd, m)
  BY <1>9 DEF Kids
<1>12. Tree(cut, hp \ {n})
  <2>1. ASSUME NEW j \in hp \ {n}
        PROVE  /\ IsInjective(cut[j].children)
               /\ \A m \in Kids(cut, j) : m \in hp \ {n} /\ m # Root /\ m # j /\ cut[m].parent = j
    <3>1. IsInjective(cut[j].children)
      <4>1. CASE j = k
        BY <1>3, <1>5, <1>7, <4>1
      <4>2. CASE j # k
        BY <1>9, <4>2 DEF Tree
      <4> QED
        BY <4>1, <4>2
    <3>2. ASSUME NEW m \in Kids(cut, j)
          PROVE  m \in hp \ {n} /\ m # Root /\ m # j /\ cut[m].parent = j
      <4>1. m \in Kids(nd, j) /\ m # n
        BY <1>8, <1>10, <1>11
      <4>2. m \in hp /\ m # Root /\ m # j /\ nd[m].parent = j
        BY <4>1 DEF Tree
      <4> QED
        BY <1>9, <4>1, <4>2
    <3> QED
      BY <3>1, <3>2
  <2>2. Root \in hp \ {n} /\ cut[Root].type = "DIR" /\ hp \ {n} \in SUBSET Nodes
    BY <1>0, <1>1, <1>9
  <2> QED
    BY <1>7, <2>1, <2>2 DEF Tree
<1> QED
  BY <1>1, <1>8, <1>9, <1>10, <1>12 DEF cut, Removed

-----------------------------------------------------------------------------
(* What can be reached: the least set with the root that is closed under   *)
(* children.  It is complete after MaxNodes steps, for a step that adds    *)
(* nothing ends the growth and every other adds one of the nodes.          *)

LEMMA ReachClosed ==
  ASSUME NEW nd \in [Nodes -> NodeRecs]
  PROVE  /\ ReachIn(nd) \in SUBSET Nodes /\ Root \in ReachIn(nd)
         /\ \A k \in ReachIn(nd) : Kids(nd, k) \subseteq ReachIn(nd)
<1> DEFINE below == Below(nd)
           Closed(S) == \A k \in S : Kids(nd, k) \subseteq S
<1>0. MaxNodes \in Nat
  BY NodeFacts
<1>1. PICK g : /\ g[0] = {Root}
               /\ \A i \in 1 .. MaxNodes : g[i] = below[g[i - 1]]
               /\ ReachIn(nd) = g[MaxNodes]
  BY <1>0, ReachSteps
<1>2. ASSUME NEW S \in SUBSET Nodes
      PROVE  /\ below[S] \in SUBSET Nodes /\ S \subseteq below[S]
             /\ \A k \in S : Kids(nd, k) \subseteq below[S]
             /\ Closed(S) => below[S] = S
  <2>1. below[S] = S \cup UNION {Kids(nd, n) : n \in S}
    BY DEF Kids, Below
  <2>2. \A k \in S : Kids(nd, k) \in SUBSET Nodes
    BY KidsFacts
  <2> HIDE DEF below
  <2> QED
    BY <2>1, <2>2
<1> HIDE DEF below
<1> DEFINE Fine(i) == /\ g[i] \in SUBSET Nodes /\ Root \in g[i]
                      /\ Closed(g[i]) \/ Cardinality(g[i]) >= i + 1
           Is == {i \in 0 .. MaxNodes : Fine(i)}
<1>3. 0 \in Is
  <2>1. Cardinality({Root}) = 1
    BY FS_Singleton
  <2> QED
    BY <1>0, <1>1, <2>1, NodeFacts
<1>4. ASSUME NEW i \in 1 .. MaxNodes, i - 1 \in Is PROVE i \in Is
  <2> DEFINE S == g[i - 1]
  <2>1. S \in SUBSET Nodes /\ Root \in S /\ (Closed(S) \/ Cardinality(S) >= (i - 1) + 1)
    BY <1>4
  <2>2. g[i] = below[S]
    BY <1>1
  <2> HIDE DEF S
  <2>3. g[i] \in SUBSET Nodes /\ S \subseteq g[i] /\ Root \in g[i]
    BY <1>2, <2>1, <2>2
  <2>4. CASE Closed(S)
    <3>1. g[i] = S
      BY <1>2, <2>1, <2>2, <2>4
    <3> QED
      BY <2>1, <2>4, <3>1
  <2>5. CASE ~Closed(S)
    <3>1. g[i] # S
      BY <1>2, <2>1, <2>2, <2>5
    <3>2. IsFiniteSet(g[i])
      BY <2>3, NodeFacts, FS_Subset
    <3>3. Cardinality(S) \in Nat /\ Cardinality(g[i]) \in Nat /\ Cardinality(S) < Cardinality(g[i])
      BY <2>3, <3>1, <3>2, FS_Subset, FS_CardinalityType
    <3>4. Cardinality(g[i]) >= i + 1
      BY <2>1, <2>5, <3>3
    <3> QED
      BY <2>3, <3>4
  <2> QED
    BY <2>4, <2>5
<1>5. MaxNodes \in Is
  <2>1. MaxNodes \in 0 .. MaxNodes
    BY <1>0
  <2> HIDE DEF Is
  <2> QED
    BY <1>0, <1>3, <1>4, <2>1, UpTo
<1> DEFINE R == g[MaxNodes]
<1>6. R \in SUBSET Nodes /\ Root \in R /\ (Closed(R) \/ Cardinality(R) >= MaxNodes + 1)
  BY <1>5
<1> HIDE DEF R
<1>7. Closed(R)
  <2> SUFFICES ASSUME Cardinality(R) >= MaxNodes + 1 PROVE Closed(R)
    BY <1>6
  <2>1. Cardinality(Nodes) = MaxNodes + 1
    BY <1>0, FS_Interval DEF Nodes
  <2>2. Cardinality(R) \in Nat /\ Cardinality(R) <= Cardinality(Nodes)
        /\ (Cardinality(R) = Cardinality(Nodes) => R = Nodes)
    <3>1. IsFiniteSet(R)
      BY <1>6, NodeFacts, FS_Subset
    <3> QED
      BY <1>6, <3>1, NodeFacts, FS_Subset, FS_CardinalityType
  <2>3. R = Nodes
    BY <1>0, <2>1, <2>2
  <2> QED
    BY <2>3, KidsFacts
<1> QED
  BY <1>1, <1>6, <1>7 DEF R

LEMMA ReachLeast ==
  ASSUME NEW nd \in [Nodes -> NodeRecs], NEW C \in SUBSET Nodes, Root \in C,
         \A k \in C : Kids(nd, k) \subseteq C
  PROVE  ReachIn(nd) \subseteq C
<1> DEFINE below == Below(nd)
<1>0. MaxNodes \in Nat
  BY NodeFacts
<1>1. PICK g : /\ g[0] = {Root}
               /\ \A i \in 1 .. MaxNodes : g[i] = below[g[i - 1]]
               /\ ReachIn(nd) = g[MaxNodes]
  BY <1>0, ReachSteps
<1>2. ASSUME NEW S \in SUBSET Nodes, S \subseteq C PROVE below[S] \subseteq C
  <2>1. below[S] = S \cup UNION {Kids(nd, n) : n \in S}
    BY DEF Kids, Below
  <2> HIDE DEF below
  <2> QED
    BY <1>2, <2>1
<1> HIDE DEF below
<1> DEFINE Is == {i \in 0 .. MaxNodes : g[i] \subseteq C}
<1>3. 0 \in Is
  BY <1>0, <1>1
<1>4. ASSUME NEW i \in 1 .. MaxNodes, i - 1 \in Is PROVE i \in Is
  <2>1. g[i - 1] \in SUBSET Nodes /\ g[i - 1] \subseteq C
    BY <1>4
  <2>2. g[i] = below[g[i - 1]]
    BY <1>1
  <2>3. g[i] \subseteq C
    BY <1>2, <2>1, <2>2
  <2> QED
    BY <2>3
<1>5. MaxNodes \in Is
  <2>1. MaxNodes \in 0 .. MaxNodes
    BY <1>0
  <2> HIDE DEF Is
  <2> QED
    BY <1>0, <1>3, <1>4, <2>1, UpTo
<1> QED
  BY <1>1, <1>5

LEMMA ReachAllocated ==
  ASSUME NEW nd, NEW hp, Tree(nd, hp)
  PROVE  ReachIn(nd) \subseteq hp
<1>1. nd \in [Nodes -> NodeRecs] /\ hp \in SUBSET Nodes /\ Root \in hp
      /\ \A k \in hp : Kids(nd, k) \subseteq hp
  BY DEF Tree
<1> QED
  BY <1>1, ReachLeast

(* A node that is linked under one that can be reached can be reached, and *)
(* nothing else changes.                                                   *)
LEMMA ReachAdd ==
  ASSUME NEW nd, NEW hp, Tree(nd, hp), NEW cur \in hp, NEW n \in Nodes \ hp,
         NEW link \in [Nodes -> NodeRecs],
         Kids(link, cur) = Kids(nd, cur) \cup {n}, Kids(link, n) = {},
         \A m \in hp : m # cur => Kids(link, m) = Kids(nd, m),
         cur \in ReachIn(nd)
  PROVE  ReachIn(link) = ReachIn(nd) \cup {n}
<1> DEFINE R == ReachIn(nd)
           Q == ReachIn(link)
<1>0. nd \in [Nodes -> NodeRecs] /\ hp \in SUBSET Nodes /\ Root \in hp
      /\ \A k \in hp : Kids(nd, k) \subseteq hp
  BY DEF Tree
<1>1. R \subseteq hp /\ Root \in R /\ \A k \in R : Kids(nd, k) \subseteq R
  BY <1>0, ReachAllocated, ReachClosed
<1>2. Q \in SUBSET Nodes /\ Root \in Q /\ \A k \in Q : Kids(link, k) \subseteq Q
  BY ReachClosed
<1> HIDE DEF R, Q
<1>3. Q \subseteq R \cup {n}
  <2>1. \A k \in R \cup {n} : Kids(link, k) \subseteq R \cup {n}
    BY <1>1
  <2>2. R \cup {n} \in SUBSET Nodes /\ Root \in R \cup {n}
    BY <1>0, <1>1
  <2> QED
    BY <2>1, <2>2, ReachLeast DEF Q
<1>4. R \subseteq Q \cap hp
  <2>1. \A k \in Q \cap hp : Kids(nd, k) \subseteq Kids(link, k)
    OBVIOUS
  <2>2. \A k \in Q \cap hp : Kids(nd, k) \subseteq Q \cap hp
    BY <1>0, <1>2, <2>1
  <2>3. Q \cap hp \in SUBSET Nodes /\ Root \in Q \cap hp
    BY <1>0, <1>2
  <2> QED
    BY <1>0, <2>2, <2>3, ReachLeast DEF R
<1>5. cur \in R
  BY DEF R
<1>6. n \in Q
  BY <1>2, <1>4, <1>5
<1> QED
  BY <1>3, <1>4, <1>6 DEF R, Q

(* A node that is unlinked can not be reached, nor can what stands below   *)
(* it; where nothing does, all else can.                                   *)
LEMMA ReachRemove ==
  ASSUME NEW nd, NEW hp, Tree(nd, hp), NEW k \in ReachIn(nd), NEW n \in Kids(nd, k)
  PROVE  LET cut == Cut(nd, n) IN
         /\ n \in ReachIn(nd) /\ ReachIn(cut) \subseteq ReachIn(nd) \ {n}
         /\ Kids(nd, n) = {} => ReachIn(cut) = ReachIn(nd) \ {n}
<1> DEFINE cut == Cut(nd, n)
           R == ReachIn(nd)
           Q == ReachIn(cut)
<1>0. nd \in [Nodes -> NodeRecs]
  BY DEF Tree
<1>1. R \subseteq hp /\ R \in SUBSET Nodes /\ Root \in R /\ \A j \in R : Kids(nd, j) \subseteq R
  BY <1>0, ReachAllocated, ReachClosed
<1>2. /\ n # k /\ n # Root /\ Tree(cut, hp \ {n})
      /\ \A m \in hp : m # n /\ m # k => cut[m] = nd[m]
      /\ Kids(cut, k) = Kids(nd, k) \ {n}
      /\ \A m \in hp : m # k => n \notin Kids(nd, m)
  <2>1. k \in hp
    BY <1>1
  <2>2. Removed(nd, hp, k, n)
    BY <2>1, RemoveNode
  <2> QED
    BY <2>2 DEF Removed
<1>3. cut \in [Nodes -> NodeRecs]
  BY <1>2 DEF Tree
<1>4. Q \in SUBSET Nodes /\ Root \in Q /\ \A j \in Q : Kids(cut, j) \subseteq Q
  BY <1>3, ReachClosed
<1>5. n \in R
  BY <1>1
<1> HIDE DEF Q, cut
<1>6. \A j \in R : j # n => Kids(cut, j) = Kids(nd, j) \ {n}
  <2> TAKE j \in R
  <2>1. CASE j = k
    BY <1>2, <2>1
  <2>2. CASE j # k /\ j # n
    BY <1>1, <1>2, <2>2 DEF Kids
  <2> QED
    BY <2>1, <2>2
<1> HIDE DEF R
<1>7. Q \subseteq R \ {n}
  <2>1. \A j \in R \ {n} : Kids(cut, j) \subseteq R \ {n}
    BY <1>1, <1>6
  <2>2. R \ {n} \in SUBSET Nodes /\ Root \in R \ {n}
    BY <1>1, <1>2
  <2> QED
    BY <1>3, <2>1, <2>2, ReachLeast DEF Q
<1>8. ASSUME Kids(nd, n) = {} PROVE R \subseteq Q \cup {n}
  <2>1. \A j \in Q \cup {n} : Kids(nd, j) \subseteq Q \cup {n}
    BY <1>4, <1>6, <1>7, <1>8
  <2>2. Q \cup {n} \in SUBSET Nodes /\ Root \in Q \cup {n}
    BY <1>1, <1>4, <1>5
  <2> QED
    BY <1>0, <2>1, <2>2, ReachLeast DEF R
<1> QED
  BY <1>5, <1>7, <1>8 DEF R, Q, cut

-----------------------------------------------------------------------------
(* Walks. *)

(* A walk to a node, with addresses left for k more.                       *)
GoodWalk(w, k) ==
  /\ w = Walk(w.node, w.heap, w.cur)
  /\ Tree(w.node, w.heap) /\ FilesDeep(w.node)
  /\ w.cur # NULL => w.cur \in w.heap
  /\ Cardinality(Nodes \ w.heap) >= k

LEMMA FreshFacts ==
  ASSUME NEW hp \in SUBSET Nodes, NEW k \in Nat, Cardinality(Nodes \ hp) >= k + 1
  PROVE  /\ Fresh(hp) \in Nodes \ hp
         /\ Cardinality(Nodes \ (hp \cup {Fresh(hp)})) >= k
<1> DEFINE F == Nodes \ hp
           n == Fresh(hp)
<1>1. F \in SUBSET Nat /\ IsFiniteSet(F) /\ Cardinality(F) \in Nat
  BY NodeFacts, FS_Subset, FS_CardinalityType
<1>2. F # {}
  BY <1>1, FS_EmptySet
<1>3. n \in F
  <2>1. n = Min(F)
    BY DEF Fresh
  <2> HIDE DEF F, n
  <2> QED
    BY <1>1, <1>2, <2>1, MinFacts
<1>4. Cardinality(F \ {n}) = Cardinality(F) - 1
  <2> HIDE DEF F, n
  <2> QED
    BY <1>1, <1>3, FS_RemoveElement
<1>5. Nodes \ (hp \cup {n}) = F \ {n}
  OBVIOUS
<1>6. Cardinality(F) >= k + 1
  OBVIOUS
<1> HIDE DEF F, n
<1>7. Cardinality(F \ {n}) >= k
  BY <1>1, <1>4, <1>6
<1> QED
  BY <1>3, <1>5, <1>7 DEF F, n

(* What a step of a walk with create_missing does: nothing, to a child, or *)
(* a new directory is written, and linked where there is room.             *)
EnteredNew(w, c, z) ==
  LET n == Fresh(w.heap)
      put == Put(w.node, n, Node(Kept(<<c>>), "DIR", w.cur, "none"))
      hp == w.heap \cup {n}
  IN  /\ ChildOf(w.node, w.cur, <<c>>) = NULL
      /\ z = Walk(put, hp, NULL) \/ z = Walk(Link(put, w.cur, n), hp, n)

LEMMA EnterCases ==
  ASSUME NEW w, NEW k \in Nat, GoodWalk(w, k + 1), NEW c \in Components
  PROVE  \/ w.cur = NULL /\ Enter(w, c) = w
         \/ /\ w.cur # NULL /\ ChildOf(w.node, w.cur, <<c>>) # NULL
            /\ Enter(w, c) = Walk(w.node, w.heap, ChildOf(w.node, w.cur, <<c>>))
         \/ w.cur # NULL /\ EnteredNew(w, c, Enter(w, c))
<1>1. CASE w.cur = NULL
  BY <1>1 DEF Enter
<1>2. CASE w.cur # NULL /\ ChildOf(w.node, w.cur, <<c>>) # NULL
  <2>1. Enter(w, c) = [w EXCEPT !.cur = ChildOf(w.node, w.cur, <<c>>)]
    BY <1>2 DEF Enter
  <2>2. w = Walk(w.node, w.heap, w.cur)
    BY DEF GoodWalk
  <2>3. \A nd, hp, x, y : [Walk(nd, hp, x) EXCEPT !.cur = y] = Walk(nd, hp, y)
    BY DEF Walk
  <2> QED
    BY <1>2, <2>1, <2>2, <2>3
<1>3. CASE w.cur # NULL /\ ChildOf(w.node, w.cur, <<c>>) = NULL
  <2>1. Enter(w, c) = AddDir(w, c)
    BY <1>3 DEF Enter
  <2> QED
    BY <1>3, <2>1 DEF AddDir, EnteredNew, Put, Link
<1> QED
  BY <1>1, <1>2, <1>3

LEMMA DirFacts ==
  ASSUME NEW c \in Components, NEW cur \in Nodes
  PROVE  LET r == Node(Kept(<<c>>), "DIR", cur, "none")
         IN  r \in NodeRecs /\ r.children = <<>> /\ r.parent = cur
<1>1. <<>> \in Seq(Nodes) /\ Kept(<<c>>) \in NodeNames
  BY DEF NodeNames, GivenNames
<1> QED
  BY <1>1 DEF Node, NodeRecs

LEMMA EnterGood ==
  ASSUME NEW w, NEW k \in Nat, GoodWalk(w, k + 1), NEW c \in Components
  PROVE  GoodWalk(Enter(w, c), k)
<1> DEFINE z == Enter(w, c)
<1>0. /\ w = Walk(w.node, w.heap, w.cur) /\ Tree(w.node, w.heap) /\ FilesDeep(w.node)
      /\ w.heap \in SUBSET Nodes /\ Cardinality(Nodes \ w.heap) >= k + 1
      /\ Cardinality(Nodes \ w.heap) \in Nat
  BY NodeFacts, FS_Subset, FS_CardinalityType DEF GoodWalk, Tree
<1>1. CASE w.cur = NULL /\ z = w
  BY <1>0, <1>1 DEF GoodWalk
<1>2. CASE /\ w.cur # NULL /\ ChildOf(w.node, w.cur, <<c>>) # NULL
           /\ z = Walk(w.node, w.heap, ChildOf(w.node, w.cur, <<c>>))
  <2>1. w.cur \in w.heap
    BY <1>2 DEF GoodWalk
  <2>2. ChildOf(w.node, w.cur, <<c>>) \in Kids(w.node, w.cur)
    BY <1>0, <1>2, <2>1, ChildFacts DEF Tree
  <2>3. ChildOf(w.node, w.cur, <<c>>) \in w.heap
    BY <1>0, <2>1, <2>2 DEF Tree
  <2> DEFINE m == ChildOf(w.node, w.cur, <<c>>)
  <2> HIDE DEF z, m
  <2>4. z.node = w.node /\ z.heap = w.heap /\ z.cur = m /\ z = Walk(z.node, z.heap, z.cur)
    BY <1>2 DEF Walk, m
  <2>5. z.cur \in z.heap
    BY <2>3, <2>4 DEF m
  <2>6. Cardinality(Nodes \ z.heap) >= k
    BY <1>0, <2>4
  <2>7. GoodWalk(z, k)
    BY <1>0, <2>4, <2>5, <2>6 DEF GoodWalk
  <2> QED
    BY <2>7 DEF z
<1>3. CASE w.cur # NULL /\ EnteredNew(w, c, z)
  <2> DEFINE nd == w.node
             old == w.heap
             cur == w.cur
             r == Node(Kept(<<c>>), "DIR", cur, "none")
             n == Fresh(old)
             put == Put(nd, n, r)
             link == Link(put, cur, n)
             hp == old \cup {n}
  <2>1. n \in Nodes \ old /\ Cardinality(Nodes \ hp) >= k
    BY <1>0, FreshFacts
  <2>2. cur \in old /\ cur \in Nodes /\ Tree(nd, old) /\ FilesDeep(nd)
    BY <1>0, <1>3 DEF GoodWalk
  <2>3. z = Walk(put, hp, NULL) \/ z = Walk(link, hp, n)
    BY <1>3 DEF EnteredNew
  <2> HIDE DEF z, nd, old, cur, n
  <2>4. r \in NodeRecs /\ r.children = <<>> /\ r.parent = cur /\ r.type = "DIR"
    BY <2>2, DirFacts DEF Node
  <2> HIDE DEF r
  <2>5. /\ Tree(put, hp) /\ Tree(link, hp) /\ put[n] = r /\ link[n] = r
        /\ \A m \in old : put[m] = nd[m]
        /\ \A m \in old : m # cur => link[m] = nd[m]
        /\ link[cur].type = nd[cur].type
        /\ Kids(link, cur) = Kids(nd, cur) \cup {n}
    <3>1. Added(nd, old, cur, n, r)
      BY <2>1, <2>2, <2>4, AddNode
    <3> QED
      BY <3>1 DEF Added
  <2>6. n \in hp
    OBVIOUS
  <2> HIDE DEF put, link, hp
  <2>7. Root \in old /\ Kids(nd, Root) \subseteq old
        /\ \A m \in Kids(nd, Root) : nd[m].type = "DIR"
    BY <2>2 DEF Tree, FilesDeep
  <2>8. FilesDeep(put)
    BY <2>5, <2>7 DEF FilesDeep, Kids
  <2>9. FilesDeep(link)
    <3> SUFFICES ASSUME NEW m \in Kids(link, Root) PROVE link[m].type = "DIR"
      BY DEF FilesDeep
    <3>1. m = n \/ m \in Kids(nd, Root)
      BY <2>5, <2>7 DEF Kids
    <3> QED
      BY <2>4, <2>5, <2>7, <3>1
  <2>10. ASSUME z = Walk(put, hp, NULL) PROVE GoodWalk(z, k)
    BY <2>1, <2>5, <2>8, <2>10 DEF GoodWalk, Walk
  <2>11. ASSUME z = Walk(link, hp, n) PROVE GoodWalk(z, k)
    BY <2>1, <2>5, <2>6, <2>9, <2>11 DEF GoodWalk, Walk
  <2> QED
    BY <2>3, <2>10, <2>11 DEF z
<1> QED
  BY <1>1, <1>2, <1>3, EnterCases

-----------------------------------------------------------------------------
(* Names and files. *)

Single == {<<e>> : e \in Components}

(* No two children of a node have the same name, if it is one that         *)
(* ramfs_find_node can look for.                                           *)
UniqueNames(nd, hp) ==
  \A k \in hp : \A a, b \in Kids(nd, k) :
    nd[a].name = nd[b].name /\ nd[a].name \in Single => a = b

(* The file m is called d and stands in the directory c of the root.       *)
FileAt(nd, c, d, m) ==
  \E x \in Kids(nd, Root) : /\ nd[x].name = <<c>> /\ m \in Kids(nd, x)
                            /\ nd[m].name = <<d>> /\ nd[m].type = "FILE"

SameFiles(nd, nd2) ==
  \A c, d \in Components, m \in Nodes :
    /\ FileAt(nd2, c, d, m) <=> FileAt(nd, c, d, m)
    /\ FileAt(nd, c, d, m) => nd2[m].data = nd[m].data

ContentsIn(nd, p) ==
  LET n == LookupIn(nd, p)
  IN  IF n # NULL /\ nd[n].type = "FILE" THEN nd[n].data ELSE "none"

(* The names are kept apart by a node that is added where there is no      *)
(* child of its name, unless its name is cut off to one that is in use.    *)
LEMMA UniqueAdd ==
  ASSUME NEW nd, NEW hp, Tree(nd, hp), NEW cur \in hp, NEW n \in Nodes \ hp,
         NEW r \in NodeRecs, r.children = <<>>, r.parent = cur,
         UniqueNames(nd, hp),
         \A m \in Kids(nd, cur) : nd[m].name = r.name => r.name \notin Single
  PROVE  /\ UniqueNames(Put(nd, n, r), hp \cup {n})
         /\ UniqueNames(Link(Put(nd, n, r), cur, n), hp \cup {n})
<1> DEFINE put == Put(nd, n, r)
           link == Link(put, cur, n)
<1>1. Added(nd, hp, cur, n, r)
  BY AddNode
<1>2. /\ put[n] = r /\ \A m \in hp : put[m] = nd[m]
      /\ \A m \in hp : m # cur => link[m] = nd[m]
      /\ link[n] = r /\ link[cur].name = nd[cur].name
      /\ Kids(link, cur) = Kids(nd, cur) \cup {n}
      /\ Kids(put, n) = {} /\ Kids(link, n) = {}
  BY <1>1 DEF Added
<1>3. \A k \in hp : Kids(nd, k) \subseteq hp
  BY DEF Tree
<1> HIDE DEF put, link
<1>4. /\ \A k \in hp : Kids(put, k) = Kids(nd, k)
      /\ \A k \in hp : k # cur => Kids(link, k) = Kids(nd, k)
      /\ \A m \in hp : put[m].name = nd[m].name /\ link[m].name = nd[m].name
      /\ link[n].name = r.name
  BY <1>2 DEF Kids
<1>5. UniqueNames(put, hp \cup {n})
  BY <1>2, <1>3, <1>4 DEF UniqueNames
<1>6. UniqueNames(link, hp \cup {n})
  <2> SUFFICES ASSUME NEW k \in hp \cup {n}, NEW a \in Kids(link, k), NEW b \in Kids(link, k),
                      link[a].name = link[b].name, link[a].name \in Single
               PROVE  a = b
    BY DEF UniqueNames
  <2>1. k \in hp
    BY <1>2
  <2>2. CASE a \in Kids(nd, k) /\ b \in Kids(nd, k)
    BY <1>3, <1>4, <2>1, <2>2 DEF UniqueNames
  <2>3. CASE a \notin Kids(nd, k) \/ b \notin Kids(nd, k)
    <3>1. k = cur /\ (a = n \/ b = n)
      BY <1>2, <1>4, <2>1, <2>3
    <3>2. \A m \in Kids(nd, cur) : ~(link[m].name = r.name /\ r.name \in Single)
      BY <1>3, <1>4
    <3> QED
      BY <1>2, <1>4, <3>1, <3>2
  <2> QED
    BY <2>2, <2>3
<1> QED
  BY <1>5, <1>6 DEF put, link

LEMMA UniqueRemove ==
  ASSUME NEW nd, NEW hp, Tree(nd, hp), NEW k \in hp, NEW n \in Kids(nd, k),
         UniqueNames(nd, hp)
  PROVE  UniqueNames(Cut(nd, n), hp \ {n})
<1> DEFINE cut == Cut(nd, n)
<1>1. /\ n \in hp /\ n # k
      /\ \A m \in hp : m # n /\ m # k => cut[m] = nd[m]
      /\ cut[k].name = nd[k].name /\ Kids(cut, k) = Kids(nd, k) \ {n}
      /\ \A m \in hp : m # k => n \notin Kids(nd, m)
  <2>1. Removed(nd, hp, k, n)
    BY RemoveNode
  <2> QED
    BY <2>1 DEF Removed
<1> HIDE DEF cut
<1>2. \A m \in hp : Kids(nd, m) \subseteq hp
  BY DEF Tree
<1>3. /\ \A m \in hp \ {n} : Kids(cut, m) = Kids(nd, m) \ {n}
      /\ \A m \in hp \ {n} : cut[m].name = nd[m].name
  BY <1>1 DEF Kids
<1> QED
  BY <1>2, <1>3 DEF UniqueNames, cut

(* A directory that is written, or linked too, is not a file and has none. *)
LEMMA FilesAddDir ==
  ASSUME NEW nd, NEW hp, Tree(nd, hp), NEW cur \in hp, NEW n \in Nodes \ hp,
         NEW r \in NodeRecs, r.children = <<>>, r.parent = cur, r.type = "DIR"
  PROVE  SameFiles(nd, Put(nd, n, r)) /\ SameFiles(nd, Link(Put(nd, n, r), cur, n))
<1> DEFINE put == Put(nd, n, r)
           link == Link(put, cur, n)
<1>1. Added(nd, hp, cur, n, r)
  BY AddNode
<1>2. /\ put[n] = r /\ \A m \in hp : put[m] = nd[m]
      /\ \A m \in hp : m # cur => link[m] = nd[m]
      /\ link[n] = r /\ link[cur].name = nd[cur].name /\ link[cur].type = nd[cur].type
      /\ link[cur].data = nd[cur].data
      /\ Kids(link, cur) = Kids(nd, cur) \cup {n}
      /\ Kids(put, n) = {} /\ Kids(link, n) = {}
  BY <1>1 DEF Added
<1>3. (\A k \in hp : Kids(nd, k) \subseteq hp) /\ Root \in hp
  BY DEF Tree
<1> HIDE DEF put, link
<1>4. /\ \A k \in hp : Kids(put, k) = Kids(nd, k)
      /\ \A k \in hp : k # cur => Kids(link, k) = Kids(nd, k)
      /\ \A m \in hp : /\ link[m].name = nd[m].name
                       /\ link[m].type = nd[m].type /\ link[m].data = nd[m].data
      /\ put[n].type # "FILE" /\ link[n].type # "FILE"
  BY <1>2 DEF Kids
<1>5. SameFiles(nd, put)
  BY <1>2, <1>3, <1>4 DEF SameFiles, FileAt
<1>6. SameFiles(nd, link)
  <2> SUFFICES ASSUME NEW c \in Components, NEW d \in Components, NEW m \in Nodes
               PROVE  /\ FileAt(link, c, d, m) <=> FileAt(nd, c, d, m)
                      /\ FileAt(nd, c, d, m) => link[m].data = nd[m].data
    BY DEF SameFiles
  <2>1. ASSUME FileAt(link, c, d, m) PROVE FileAt(nd, c, d, m) /\ link[m].data = nd[m].data
    <3>1. PICK x \in Kids(link, Root) : /\ link[x].name = <<c>> /\ m \in Kids(link, x)
                                        /\ link[m].name = <<d>> /\ link[m].type = "FILE"
      BY <2>1 DEF FileAt
    <3>2. x # n /\ m # n
      BY <1>2, <1>4, <3>1
    <3>3. x \in Kids(nd, Root) /\ x \in hp
      BY <1>2, <1>3, <1>4, <3>1, <3>2
    <3>4. m \in Kids(nd, x) /\ m \in hp
      BY <1>2, <1>3, <1>4, <3>1, <3>2, <3>3
    <3> QED
      BY <1>4, <3>1, <3>3, <3>4 DEF FileAt
  <2>2. ASSUME FileAt(nd, c, d, m) PROVE FileAt(link, c, d, m)
    <3>1. PICK x \in Kids(nd, Root) : /\ nd[x].name = <<c>> /\ m \in Kids(nd, x)
                                      /\ nd[m].name = <<d>> /\ nd[m].type = "FILE"
      BY <2>2 DEF FileAt
    <3>2. x \in hp /\ m \in hp
      BY <1>3, <3>1
    <3>3. x \in Kids(link, Root) /\ m \in Kids(link, x)
      BY <1>2, <1>3, <1>4, <3>1, <3>2
    <3> QED
      BY <1>4, <3>1, <3>2, <3>3 DEF FileAt
  <2> QED
    BY <2>1, <2>2
<1> QED
  BY <1>5, <1>6 DEF put, link

(* A file that is added to a directory of the root is a file there. *)
FileAdded(nd, hp, cur, n, r, c, d, m) ==
  LET link == Link(Put(nd, n, r), cur, n) IN
  /\ link[n] = r
  /\ FileAt(link, c, d, m) <=>
       \/ FileAt(nd, c, d, m)
       \/ m = n /\ nd[cur].name = <<c>> /\ r.name = <<d>>
  /\ m \in hp => link[m].data = nd[m].data

LEMMA FilesAddFile ==
  ASSUME NEW nd, NEW hp, Tree(nd, hp), NEW cur \in Kids(nd, Root), NEW n \in Nodes \ hp,
         NEW r \in NodeRecs, r.children = <<>>, r.parent = cur, r.type = "FILE",
         NEW c \in Components, NEW d \in Components, NEW m \in Nodes
  PROVE  FileAdded(nd, hp, cur, n, r, c, d, m)
<1> DEFINE link == Link(Put(nd, n, r), cur, n)
<1>0. cur \in hp /\ cur # Root
  BY DEF Tree
<1>1. Added(nd, hp, cur, n, r)
  BY <1>0, AddNode
<1>2. /\ \A j \in hp : j # cur => link[j] = nd[j]
      /\ link[n] = r /\ link[cur].name = nd[cur].name /\ link[cur].type = nd[cur].type
      /\ link[cur].data = nd[cur].data
      /\ Kids(link, cur) = Kids(nd, cur) \cup {n} /\ Kids(link, n) = {}
  BY <1>1 DEF Added
<1>3. (\A k \in hp : Kids(nd, k) \subseteq hp) /\ Root \in hp
  BY DEF Tree
<1> HIDE DEF link
<1>4. /\ \A k \in hp : k # cur => Kids(link, k) = Kids(nd, k)
      /\ \A j \in hp : /\ link[j].name = nd[j].name
                       /\ link[j].type = nd[j].type /\ link[j].data = nd[j].data
      /\ Kids(link, Root) = Kids(nd, Root)
  BY <1>0, <1>2, <1>3 DEF Kids
<1>5. ASSUME FileAt(link, c, d, m)
      PROVE  FileAt(nd, c, d, m) \/ (m = n /\ nd[cur].name = <<c>> /\ r.name = <<d>>)
  <2>1. PICK x \in Kids(nd, Root) : /\ link[x].name = <<c>> /\ m \in Kids(link, x)
                                    /\ link[m].name = <<d>> /\ link[m].type = "FILE"
    BY <1>4, <1>5 DEF FileAt
  <2>2. x \in hp
    BY <1>3
  <2>3. CASE m \in Kids(nd, x)
    <3>1. m \in hp
      BY <1>3, <2>2, <2>3
    <3> QED
      BY <1>4, <2>1, <2>2, <2>3, <3>1 DEF FileAt
  <2>4. CASE m \notin Kids(nd, x)
    <3>1. x = cur /\ m = n
      BY <1>2, <1>4, <2>1, <2>2, <2>4
    <3> QED
      BY <1>2, <2>1, <3>1
  <2> QED
    BY <2>3, <2>4
<1>6. ASSUME FileAt(nd, c, d, m) PROVE FileAt(link, c, d, m)
  <2>1. PICK x \in Kids(nd, Root) : /\ nd[x].name = <<c>> /\ m \in Kids(nd, x)
                                    /\ nd[m].name = <<d>> /\ nd[m].type = "FILE"
    BY <1>6 DEF FileAt
  <2>2. x \in hp /\ m \in hp
    BY <1>3, <2>1
  <2>3. m \in Kids(link, x)
    BY <1>2, <1>4, <2>1, <2>2
  <2> QED
    BY <1>4, <2>1, <2>2, <2>3 DEF FileAt
<1>7. ASSUME nd[cur].name = <<c>>, r.name = <<d>> PROVE FileAt(link, c, d, n)
  BY <1>2, <1>4, <1>7 DEF FileAt
<1> QED
  BY <1>2, <1>4, <1>5, <1>6, <1>7 DEF link, FileAdded

LEMMA FilesRemove ==
  ASSUME NEW nd, NEW hp, Tree(nd, hp), FilesDeep(nd),
         NEW k \in hp, NEW n \in Kids(nd, k), nd[n].type = "FILE",
         NEW c \in Components, NEW d \in Components, NEW m \in Nodes
  PROVE  LET cut == Cut(nd, n) IN
         /\ FileAt(cut, c, d, m) <=> FileAt(nd, c, d, m) /\ m # n
         /\ FileAt(cut, c, d, m) => cut[m].data = nd[m].data
<1> DEFINE cut == Cut(nd, n)
<1>1. /\ n \in hp /\ n # k /\ n # Root
      /\ \A j \in hp : j # n /\ j # k => cut[j] = nd[j]
      /\ cut[k].name = nd[k].name /\ cut[k].type = nd[k].type /\ cut[k].data = nd[k].data
      /\ Kids(cut, k) = Kids(nd, k) \ {n}
      /\ \A j \in hp : j # k => n \notin Kids(nd, j)
  <2>1. Removed(nd, hp, k, n)
    BY RemoveNode
  <2> QED
    BY <2>1 DEF Removed
<1> HIDE DEF cut
<1>2. (\A j \in hp : Kids(nd, j) \subseteq hp) /\ Root \in hp
  BY DEF Tree
<1>3. /\ \A j \in hp \ {n} : Kids(cut, j) = Kids(nd, j) \ {n}
      /\ \A j \in hp \ {n} : /\ cut[j].name = nd[j].name
                             /\ cut[j].type = nd[j].type /\ cut[j].data = nd[j].data
  BY <1>1 DEF Kids
<1>4. n \notin Kids(nd, Root)
  <2>1. \A j \in Kids(nd, Root) : nd[j].type = "DIR"
    BY DEF FilesDeep
  <2>2. nd[n].type # "DIR"
    OBVIOUS
  <2> QED
    BY <2>1, <2>2
<1>5. Kids(cut, Root) = Kids(nd, Root)
  <2>1. Kids(cut, Root) = Kids(nd, Root) \ {n}
    BY <1>1, <1>2, <1>3
  <2> QED
    BY <1>4, <2>1
<1>6. ASSUME FileAt(cut, c, d, m) PROVE FileAt(nd, c, d, m) /\ m # n /\ cut[m].data = nd[m].data
  <2>1. PICK x \in Kids(nd, Root) : /\ cut[x].name = <<c>> /\ m \in Kids(cut, x)
                                    /\ cut[m].name = <<d>> /\ cut[m].type = "FILE"
    BY <1>5, <1>6 DEF FileAt
  <2>2. x \in hp \ {n}
    BY <1>2, <1>4
  <2>3. m \in Kids(nd, x) /\ m \in hp \ {n}
    BY <1>2, <1>3, <2>1, <2>2
  <2> QED
    BY <1>3, <2>1, <2>2, <2>3 DEF FileAt
<1>7. ASSUME FileAt(nd, c, d, m), m # n PROVE FileAt(cut, c, d, m)
  <2>1. PICK x \in Kids(nd, Root) : /\ nd[x].name = <<c>> /\ m \in Kids(nd, x)
                                    /\ nd[m].name = <<d>> /\ nd[m].type = "FILE"
    BY <1>7 DEF FileAt
  <2>2. x \in hp \ {n} /\ m \in hp \ {n}
    BY <1>2, <1>4, <1>7, <2>1
  <2>3. m \in Kids(cut, x)
    BY <1>3, <1>7, <2>1, <2>2
  <2> QED
    BY <1>3, <1>5, <2>1, <2>2, <2>3 DEF FileAt
<1> QED
  BY <1>6, <1>7 DEF cut

-----------------------------------------------------------------------------
(* Looking a path up. *)

LEMMA ChildValue ==
  ASSUME NEW nd \in [Nodes -> NodeRecs], NEW n \in Nodes \cup {NULL}, NEW c \in Components
  PROVE  /\ Child(nd)[n][c] = IF n = NULL THEN NULL ELSE ChildOf(nd, n, <<c>>)
         /\ Child(nd)[n][c] \in Nodes \cup {NULL}
<1>1. Child(nd)[n][c] = IF n = NULL THEN NULL ELSE ChildOf(nd, n, <<c>>)
  BY DEF Child
<1>2. n # NULL => ChildOf(nd, n, <<c>>) \in Nodes \cup {NULL}
  <2> SUFFICES ASSUME n # NULL PROVE ChildOf(nd, n, <<c>>) \in Nodes \cup {NULL}
    OBVIOUS
  <2>1. n \in Nodes /\ Kids(nd, n) \in SUBSET Nodes
    BY KidsFacts
  <2> QED
    BY <2>1, ChildFacts
<1> QED
  BY <1>1, <1>2

LEMMA LookupTwo ==
  ASSUME NEW nd \in [Nodes -> NodeRecs], NEW c \in Components, NEW d \in Components
  PROVE  LET x == ChildOf(nd, Root, <<c>>)
         IN  LookupIn(nd, <<c, d>>) = IF x = NULL THEN NULL ELSE ChildOf(nd, x, <<d>>)
<1> DEFINE p == <<c, d>>
           x == ChildOf(nd, Root, <<c>>)
<1>1. Len(p) = 2 /\ p[1] = c /\ p[2] = d /\ Len(p) \in Nat
  OBVIOUS
<1> HIDE DEF p, x
<1>2. PICK g : /\ g[0] = Root
               /\ \A i \in 1 .. Len(p) : g[i] = Child(nd)[g[i - 1]][p[i]]
               /\ LookupIn(nd, p) = g[Len(p)]
  <2>1. Len(p) \in Nat
    BY <1>1
  <2> QED
    BY <2>1, LookupSteps
<1>3. g[1] = Child(nd)[Root][c] /\ g[2] = Child(nd)[g[1]][d] /\ LookupIn(nd, p) = g[2]
  <2>1. 1 \in 1 .. 2 /\ 2 \in 1 .. 2 /\ 1 - 1 = 0 /\ 2 - 1 = 1
    OBVIOUS
  <2> QED
    BY <1>1, <1>2, <2>1
<1>4. g[1] = x /\ x \in Nodes \cup {NULL}
  BY <1>3, ChildValue, NodeFacts DEF x
<1>5. g[2] = IF x = NULL THEN NULL ELSE ChildOf(nd, x, <<d>>)
  BY <1>3, <1>4, ChildValue
<1> QED
  BY <1>3, <1>5 DEF p, x

(* What is looked up, but for the root, is a child of a node that can be   *)
(* reached.                                                                *)
LEMMA LookupFound ==
  ASSUME NEW nd \in [Nodes -> NodeRecs], NEW comps \in Seq(Components),
         LookupIn(nd, comps) # NULL, LookupIn(nd, comps) # Root
  PROVE  \E k \in ReachIn(nd) : LookupIn(nd, comps) \in Kids(nd, k)
<1> DEFINE R == ReachIn(nd)
           Under(m) == \E k \in R : m \in Kids(nd, k)
<1>0. Len(comps) \in Nat /\ \A i \in 1 .. Len(comps) : comps[i] \in Components
  BY LenProperties
<1>1. PICK g : /\ g[0] = Root
               /\ \A i \in 1 .. Len(comps) : g[i] = Child(nd)[g[i - 1]][comps[i]]
               /\ LookupIn(nd, comps) = g[Len(comps)]
  BY <1>0, LookupSteps
<1>2. R \in SUBSET Nodes /\ Root \in R /\ \A k \in R : Kids(nd, k) \subseteq R
  BY ReachClosed
<1> HIDE DEF R
<1> DEFINE S == {i \in 0 .. Len(comps) : g[i] = NULL \/ g[i] = Root \/ Under(g[i])}
<1>3. 0 \in S
  BY <1>0, <1>1
<1>4. ASSUME NEW i \in 1 .. Len(comps), i - 1 \in S PROVE i \in S
  <2>1. g[i - 1] = NULL \/ g[i - 1] \in R
    BY <1>2, <1>4
  <2>2. comps[i] \in Components /\ g[i] = Child(nd)[g[i - 1]][comps[i]]
    BY <1>0, <1>1
  <2> DEFINE m == g[i - 1]
             c == comps[i]
  <2>3. m \in Nodes \cup {NULL} /\ c \in Components
    BY <1>2, <2>1, <2>2
  <2>4. g[i] = IF m = NULL THEN NULL ELSE ChildOf(nd, m, <<c>>)
    <3>1. g[i] = Child(nd)[m][c]
      BY <2>2
    <3> HIDE DEF m, c
    <3> QED
      BY <2>3, <3>1, ChildValue
  <2>5. m = NULL \/ m \in R
    BY <2>1
  <2> HIDE DEF m, c
  <2>6. g[i] = NULL \/ Under(g[i])
    <3>1. CASE m = NULL
      BY <2>4, <3>1
    <3>2. CASE m # NULL
      <4>1. m \in R /\ m \in Nodes /\ g[i] = ChildOf(nd, m, <<c>>)
        BY <1>2, <2>4, <2>5, <3>2
      <4>2. g[i] = NULL \/ g[i] \in Kids(nd, m)
        BY <4>1, ChildFacts
      <4> QED
        BY <4>1, <4>2
    <3> QED
      BY <3>1, <3>2
  <2> QED
    BY <2>6
<1>5. Len(comps) \in S
  <2>1. Len(comps) \in 0 .. Len(comps)
    BY <1>0
  <2> HIDE DEF S
  <2> QED
    BY <1>0, <1>3, <1>4, <2>1, UpTo
<1> QED
  BY <1>1, <1>5 DEF R

(* The contents of a path are those of its file, where names are unique.   *)
LEMMA ContentsFacts ==
  ASSUME NEW nd, NEW hp, Tree(nd, hp), UniqueNames(nd, hp),
         NEW c \in Components, NEW d \in Components
  PROVE  /\ \A m \in Nodes : FileAt(nd, c, d, m) => ContentsIn(nd, <<c, d>>) = nd[m].data
         /\ (\A m \in Nodes : ~FileAt(nd, c, d, m)) => ContentsIn(nd, <<c, d>>) = "none"
         /\ \A m, k \in Nodes : FileAt(nd, c, d, m) /\ FileAt(nd, c, d, k) => m = k
<1> DEFINE x == ChildOf(nd, Root, <<c>>)
           y == ChildOf(nd, x, <<d>>)
           n == LookupIn(nd, <<c, d>>)
<1>0. /\ nd \in [Nodes -> NodeRecs] /\ hp \in SUBSET Nodes /\ Root \in hp
      /\ \A k \in hp : Kids(nd, k) \subseteq hp
  BY DEF Tree
<1>1. n = IF x = NULL THEN NULL ELSE y
  BY <1>0, LookupTwo
<1>s. <<c>> \in Single /\ <<d>> \in Single
  BY DEF Single
<1>2. \/ x = NULL /\ \A m \in Kids(nd, Root) : nd[m].name # <<c>>
      \/ x \in Kids(nd, Root) /\ x # NULL /\ nd[x].name = <<c>>
  BY <1>0, ChildFacts
<1>3. x # NULL => \/ y = NULL /\ \A m \in Kids(nd, x) : nd[m].name # <<d>>
                  \/ y \in Kids(nd, x) /\ y # NULL /\ nd[y].name = <<d>>
  <2> SUFFICES ASSUME x # NULL
               PROVE  \/ y = NULL /\ \A m \in Kids(nd, x) : nd[m].name # <<d>>
                      \/ y \in Kids(nd, x) /\ y # NULL /\ nd[y].name = <<d>>
    OBVIOUS
  <2>1. x \in Nodes
    BY <1>0, <1>2
  <2> HIDE DEF x
  <2> QED
    BY <1>0, <2>1, ChildFacts
<1> DEFINE C == ContentsIn(nd, <<c, d>>)
<1>4. C = IF n # NULL /\ nd[n].type = "FILE" THEN nd[n].data ELSE "none"
  BY DEF ContentsIn
<1> HIDE DEF x, y, n, C
<1>5. ASSUME NEW m, FileAt(nd, c, d, m) PROVE n = m /\ n # NULL /\ nd[n].type = "FILE"
  <2>1. PICK z \in Kids(nd, Root) : /\ nd[z].name = <<c>> /\ m \in Kids(nd, z)
                                    /\ nd[m].name = <<d>> /\ nd[m].type = "FILE"
    BY <1>5 DEF FileAt
  <2>2. x = z /\ x # NULL
    BY <1>0, <1>2, <1>s, <2>1 DEF UniqueNames
  <2>3. y = m /\ y # NULL
    <3>1. z \in hp
      BY <1>0
    <3> QED
      BY <1>3, <1>s, <2>1, <2>2, <3>1 DEF UniqueNames
  <2> QED
    BY <1>1, <2>1, <2>2, <2>3
<1>6. ASSUME n # NULL, nd[n].type = "FILE" PROVE n \in Nodes /\ FileAt(nd, c, d, n)
  <2>1. x # NULL /\ n = y
    BY <1>1, <1>6
  <2>2. x \in Kids(nd, Root) /\ nd[x].name = <<c>> /\ y \in Kids(nd, x) /\ nd[y].name = <<d>>
    BY <1>2, <1>3, <1>6, <2>1
  <2>3. n \in Nodes
    BY <1>0, <2>1, <2>2
  <2> QED
    BY <1>6, <2>1, <2>2, <2>3 DEF FileAt
<1>7. ASSUME NEW m \in Nodes, FileAt(nd, c, d, m) PROVE C = nd[m].data
  BY <1>4, <1>5, <1>7
<1>8. ASSUME \A m \in Nodes : ~FileAt(nd, c, d, m) PROVE C = "none"
  BY <1>4, <1>6, <1>8
<1>9. ASSUME NEW m \in Nodes, NEW k \in Nodes, FileAt(nd, c, d, m), FileAt(nd, c, d, k) PROVE m = k
  BY <1>5, <1>9
<1> QED
  BY <1>7, <1>8, <1>9 DEF C

LEMMA ContentsSame ==
  ASSUME NEW nd, NEW hp, Tree(nd, hp), UniqueNames(nd, hp),
         NEW nd2, NEW hp2, Tree(nd2, hp2), UniqueNames(nd2, hp2),
         SameFiles(nd, nd2), NEW c \in Components, NEW d \in Components
  PROVE  ContentsIn(nd2, <<c, d>>) = ContentsIn(nd, <<c, d>>)
<1>1. CASE \E m \in Nodes : FileAt(nd, c, d, m)
  <2>1. PICK m \in Nodes : FileAt(nd, c, d, m)
    BY <1>1
  <2>2. FileAt(nd2, c, d, m) /\ nd2[m].data = nd[m].data
    BY <2>1 DEF SameFiles
  <2>3. ContentsIn(nd, <<c, d>>) = nd[m].data
    BY <2>1, ContentsFacts
  <2>4. ContentsIn(nd2, <<c, d>>) = nd2[m].data
    BY <2>2, ContentsFacts
  <2> QED
    BY <2>2, <2>3, <2>4
<1>2. CASE ~ \E m \in Nodes : FileAt(nd, c, d, m)
  <2>1. \A m \in Nodes : ~FileAt(nd, c, d, m) /\ ~FileAt(nd2, c, d, m)
    BY <1>2 DEF SameFiles
  <2>2. ContentsIn(nd, <<c, d>>) = "none"
    BY <2>1, ContentsFacts
  <2>3. ContentsIn(nd2, <<c, d>>) = "none"
    BY <2>1, ContentsFacts
  <2> QED
    BY <2>2, <2>3
<1> QED
  BY <1>1, <1>2

-----------------------------------------------------------------------------
(* The invariant, and what a walk keeps of it. *)

IInv ==
  /\ Tree(node, heap) /\ FilesDeep(node)
  /\ CutNamesUnused => UniqueNames(node, heap)

LEMMA InitIInv == Init => IInv
<1> SUFFICES ASSUME Init PROVE IInv
  OBVIOUS
<1>1. Blank \in NodeRecs /\ Blank.children = <<>> /\ Blank.type = "DIR"
  <2>1. <<>> \in Seq(Nodes) /\ <<>> \in NodeNames
    BY DEF NodeNames
  <2> QED
    BY <2>1 DEF Blank, Node, NodeRecs
<1>2. node \in [Nodes -> NodeRecs] /\ heap = {Root} /\ node[Root] = Blank /\ Root \in Nodes
  BY <1>1, NodeFacts DEF Init
<1>3. Kids(node, Root) = {} /\ IsInjective(node[Root].children)
  BY <1>1, <1>2 DEF Kids, Range, IsInjective
<1> QED
  BY <1>1, <1>2, <1>3 DEF IInv, Tree, FilesDeep, UniqueNames

(* What a walk may not change: what is allocated and can not be reached,   *)
(* unless it ends where a node was lost, and the files.                    *)
Whole(w) ==
  /\ w.cur # NULL => /\ w.cur \in ReachIn(w.node)
                     /\ w.heap \ ReachIn(w.node) = heap \ ReachIn(node)
  /\ CutNamesUnused => UniqueNames(w.node, w.heap) /\ SameFiles(node, w.node)

LEMMA SameFilesTrans ==
  ASSUME NEW a, NEW b, NEW c, SameFiles(a, b), SameFiles(b, c)
  PROVE  SameFiles(a, c)
BY DEF SameFiles

(* A name that is not found is not there once it is cut off either. *)
LEMMA NotThere ==
  ASSUME CutNamesUnused, NEW nd \in [Nodes -> NodeRecs], NEW cur \in Nodes,
         NEW name \in GivenNames, ChildOf(nd, cur, name) = NULL
  PROVE  \A m \in Kids(nd, cur) : nd[m].name = Kept(name) => Kept(name) \notin Single
<1>1. Kept(name) \in Single => Kept(name) = name
  BY DEF CutNamesUnused, Single
<1>2. \A m \in Kids(nd, cur) : nd[m].name # name
  BY ChildFacts
<1> QED
  BY <1>1, <1>2

LEMMA EnterWhole ==
  ASSUME NEW w, NEW k \in Nat, GoodWalk(w, k + 1), Whole(w), NEW c \in Components
  PROVE  Whole(Enter(w, c))
<1> DEFINE z == Enter(w, c)
           nd == w.node
           old == w.heap
           cur == w.cur
<1>0. /\ Tree(nd, old) /\ nd \in [Nodes -> NodeRecs] /\ old \in SUBSET Nodes
      /\ cur # NULL => cur \in old
      /\ Cardinality(Nodes \ old) >= k + 1
  BY DEF GoodWalk, Tree
<1>1. CASE w.cur = NULL /\ z = w
  BY <1>1
<1>2. CASE w.cur # NULL /\ ChildOf(w.node, w.cur, <<c>>) # NULL
           /\ z = Walk(w.node, w.heap, ChildOf(w.node, w.cur, <<c>>))
  <2> DEFINE m == ChildOf(w.node, w.cur, <<c>>)
  <2>1. m \in Kids(nd, cur)
    <3>1. cur \in Nodes
      BY <1>0, <1>2
    <3> HIDE DEF nd, cur
    <3>2. ChildOf(nd, cur, <<c>>) # NULL => ChildOf(nd, cur, <<c>>) \in Kids(nd, cur)
      BY <1>0, <3>1, ChildFacts
    <3> QED
      BY <1>2, <3>2 DEF nd, cur
  <2>2. z.node = nd /\ z.heap = old /\ z.cur = m
    BY <1>2 DEF Walk
  <2>3. cur \in ReachIn(nd) /\ old \ ReachIn(nd) = heap \ ReachIn(node)
    BY <1>2 DEF Whole
  <2>4. CutNamesUnused => UniqueNames(nd, old) /\ SameFiles(node, nd)
    BY DEF Whole
  <2> HIDE DEF z, nd, old, cur, m
  <2>5. m \in ReachIn(nd)
    BY <1>0, <2>1, <2>3, ReachClosed
  <2>6. Whole(z)
    BY <2>2, <2>3, <2>4, <2>5 DEF Whole
  <2> QED
    BY <2>6 DEF z
<1>3. CASE w.cur # NULL /\ EnteredNew(w, c, z)
  <2> DEFINE r == Node(Kept(<<c>>), "DIR", cur, "none")
             n == Fresh(old)
             put == Put(nd, n, r)
             link == Link(put, cur, n)
             hp == old \cup {n}
  <2>1. n \in Nodes \ old
    BY <1>0, FreshFacts
  <2>2. cur \in old /\ cur \in Nodes
    BY <1>0, <1>3
  <2>3. /\ z = Walk(put, hp, NULL) \/ z = Walk(link, hp, n)
        /\ ChildOf(nd, cur, <<c>>) = NULL
    BY <1>3 DEF EnteredNew
  <2>4. /\ cur \in ReachIn(nd) /\ old \ ReachIn(nd) = heap \ ReachIn(node)
        /\ CutNamesUnused => UniqueNames(nd, old) /\ SameFiles(node, nd)
    BY <1>3 DEF Whole
  <2> HIDE DEF z, nd, old, cur, n
  <2>5. /\ r \in NodeRecs /\ r.children = <<>> /\ r.parent = cur /\ r.type = "DIR"
        /\ r.name = Kept(<<c>>)
    BY <2>2, DirFacts DEF Node
  <2> HIDE DEF r
  <2>6. Added(nd, old, cur, n, r)
    BY <1>0, <2>1, <2>2, <2>5, AddNode
  <2>7. ASSUME CutNamesUnused
        PROVE  /\ UniqueNames(put, hp) /\ UniqueNames(link, hp)
               /\ SameFiles(node, put) /\ SameFiles(node, link)
    <3>1. <<c>> \in GivenNames
      BY DEF GivenNames
    <3>2. \A m \in Kids(nd, cur) : nd[m].name = r.name => r.name \notin Single
      BY <1>0, <2>2, <2>3, <2>5, <2>7, <3>1, NotThere
    <3>3. UniqueNames(put, hp) /\ UniqueNames(link, hp)
      BY <1>0, <2>1, <2>2, <2>4, <2>5, <2>7, <3>2, UniqueAdd
    <3>4. SameFiles(nd, put) /\ SameFiles(nd, link)
      BY <1>0, <2>1, <2>2, <2>5, FilesAddDir
    <3> QED
      BY <2>4, <2>7, <3>3, <3>4, SameFilesTrans
  <2>8. ReachIn(link) = ReachIn(nd) \cup {n}
    <3>1. /\ Tree(link, hp) /\ \A m \in old : m # cur => link[m] = nd[m]
          /\ Kids(link, cur) = Kids(nd, cur) \cup {n} /\ Kids(link, n) = {}
      BY <2>6 DEF Added
    <3>2. link \in [Nodes -> NodeRecs]
      BY <3>1 DEF Tree
    <3>3. \A m \in old : m # cur => Kids(link, m) = Kids(nd, m)
      BY <3>1 DEF Kids
    <3> HIDE DEF link
    <3> QED
      BY <1>0, <2>1, <2>2, <2>4, <3>1, <3>2, <3>3, ReachAdd
  <2>9. n \in hp /\ hp \ (ReachIn(nd) \cup {n}) = old \ ReachIn(nd)
    BY <2>1
  <2> HIDE DEF put, link, hp
  <2>10. ASSUME z = Walk(put, hp, NULL) PROVE Whole(z)
    BY <2>7, <2>10 DEF Whole, Walk
  <2>11. ASSUME z = Walk(link, hp, n) PROVE Whole(z)
    <3>1. z.node = link /\ z.heap = hp /\ z.cur = n
      BY <2>11 DEF Walk
    <3>2. n \in ReachIn(link) /\ hp \ ReachIn(link) = heap \ ReachIn(node)
      BY <2>4, <2>8, <2>9
    <3> QED
      BY <2>7, <3>1, <3>2 DEF Whole
  <2> QED
    BY <2>3, <2>10, <2>11 DEF z
<1> QED
  BY <1>1, <1>2, <1>3, EnterCases

(* find_node_create, with addresses for what it and k more may allocate.   *)
LEMMA CreateWalk ==
  ASSUME IInv, NEW comps \in Seq(Components), NEW k \in Nat,
         Cardinality(Nodes \ heap) >= Len(comps) + k
  PROVE  GoodWalk(find_node_create(comps), k) /\ Whole(find_node_create(comps))
<1>0. Len(comps) \in Nat /\ \A i \in 1 .. Len(comps) : comps[i] \in Components
  BY LenProperties
<1>1. PICK g : /\ g[0] = Walk(node, heap, Root)
               /\ \A i \in 1 .. Len(comps) : g[i] = Enter(g[i - 1], comps[i])
               /\ find_node_create(comps) = g[Len(comps)]
  BY <1>0, CreateSteps
<1> DEFINE n == Len(comps)
           Fine(i) == GoodWalk(g[i], (n - i) + k) /\ Whole(g[i])
           S == {i \in 0 .. n : Fine(i)}
<1>2. 0 \in S
  <2>1. /\ g[0].node = node /\ g[0].heap = heap /\ g[0].cur = Root
        /\ g[0] = Walk(g[0].node, g[0].heap, g[0].cur)
    BY <1>1 DEF Walk
  <2>2. Tree(node, heap) /\ node \in [Nodes -> NodeRecs] /\ Root \in heap
    BY DEF IInv, Tree
  <2>3. GoodWalk(g[0], n + k)
    BY <2>1, <2>2 DEF GoodWalk, IInv
  <2>4. Whole(g[0])
    <3>1. Root \in ReachIn(node)
      BY <2>2, ReachClosed
    <3>2. SameFiles(node, node)
      BY DEF SameFiles
    <3> QED
      BY <2>1, <3>1, <3>2 DEF Whole, IInv
  <2>5. (n - 0) + k = n + k /\ 0 \in 0 .. n
    BY <1>0
  <2> QED
    BY <2>3, <2>4, <2>5
<1>3. ASSUME NEW i \in 1 .. n, i - 1 \in S PROVE i \in S
  <2> DEFINE j == (n - i) + k
             w == g[i - 1]
             c == comps[i]
  <2>1. j \in Nat /\ (n - (i - 1)) + k = j + 1
    BY <1>0
  <2>2. GoodWalk(w, j + 1) /\ Whole(w)
    BY <1>3, <2>1
  <2>3. c \in Components /\ g[i] = Enter(w, c)
    BY <1>0, <1>1
  <2> HIDE DEF j, w, c
  <2>4. GoodWalk(g[i], j) /\ Whole(g[i])
    BY <2>1, <2>2, <2>3, EnterGood, EnterWhole
  <2> QED
    BY <2>4 DEF j
<1>4. n \in S
  <2>1. n \in 0 .. n /\ n \in Nat
    BY <1>0
  <2> HIDE DEF S, n
  <2> QED
    BY <1>2, <1>3, <2>1, UpTo
<1>5. (n - n) + k = k
  BY <1>0
<1> QED
  BY <1>1, <1>4, <1>5

(* A walk of one component ends at a child of the root. *)
LEMMA CreateOne ==
  ASSUME IInv, NEW c \in Components, NEW k \in Nat,
         Cardinality(Nodes \ heap) >= k + 1
  PROVE  LET w == find_node_create(<<c>>)
         IN  w.cur # NULL => w.cur \in Kids(w.node, Root)
<1> DEFINE comps == <<c>>
           base == Walk(node, heap, Root)
           w == Enter(base, c)
<1>0. Len(comps) = 1 /\ comps[1] = c /\ Len(comps) \in Nat
  OBVIOUS
<1> HIDE DEF comps
<1>1. PICK g : /\ g[0] = base
               /\ \A i \in 1 .. Len(comps) : g[i] = Enter(g[i - 1], comps[i])
               /\ find_node_create(comps) = g[Len(comps)]
  BY <1>0, CreateSteps
<1>2. find_node_create(comps) = w
  <2>1. 1 \in 1 .. 1 /\ 1 - 1 = 0
    OBVIOUS
  <2> QED
    BY <1>0, <1>1, <2>1
<1>3. /\ base.node = node /\ base.heap = heap /\ base.cur = Root
      /\ base = Walk(base.node, base.heap, base.cur)
  BY DEF Walk
<1>4. Tree(node, heap) /\ node \in [Nodes -> NodeRecs] /\ heap \in SUBSET Nodes /\ Root \in heap
  BY DEF IInv, Tree
<1>5. GoodWalk(base, k + 1)
  <2> HIDE DEF base
  <2> QED
    BY <1>3, <1>4 DEF GoodWalk, IInv
<1>6. ASSUME w.cur # NULL PROVE w.cur \in Kids(w.node, Root)
  <2> HIDE DEF base
  <2>0. base.cur # NULL
    BY <1>3, NodeFacts
  <2>1. CASE /\ ChildOf(node, Root, <<c>>) # NULL
             /\ w = Walk(node, heap, ChildOf(node, Root, <<c>>))
    <3>1. ChildOf(node, Root, <<c>>) \in Kids(node, Root)
      BY <1>4, <2>1, ChildFacts, NodeFacts
    <3>2. w.cur = ChildOf(node, Root, <<c>>) /\ w.node = node
      BY <2>1 DEF Walk
    <3> HIDE DEF w
    <3> QED
      BY <3>1, <3>2
  <2>2. CASE EnteredNew(base, c, w)
    <3> DEFINE n == Fresh(heap)
               r == Node(Kept(<<c>>), "DIR", Root, "none")
               put == Put(node, n, r)
               link == Link(put, Root, n)
               hp == heap \cup {n}
    <3>1. w = Walk(put, hp, NULL) \/ w = Walk(link, hp, n)
      BY <1>3, <2>2 DEF EnteredNew
    <3>2. n \in Nodes \ heap
      BY <1>4, FreshFacts
    <3>3. r \in NodeRecs /\ r.children = <<>> /\ r.parent = Root
      BY DirFacts, NodeFacts
    <3> HIDE DEF w, n, r
    <3>4. Added(node, heap, Root, n, r)
      BY <1>4, <3>2, <3>3, AddNode
    <3>5. n \in Kids(link, Root)
      BY <3>4 DEF Added
    <3> HIDE DEF put, link, hp
    <3>6. w # Walk(put, hp, NULL)
      BY <1>6 DEF Walk
    <3>7. w.cur = n /\ w.node = link
      BY <3>1, <3>6 DEF Walk
    <3> QED
      BY <3>5, <3>7
  <2> QED
    BY <1>3, <1>5, <2>0, <2>1, <2>2, EnterCases
<1> QED
  BY <1>2, <1>6 DEF comps

-----------------------------------------------------------------------------
(* The operations. *)

LEMMA MkdirWalk ==
  ASSUME IInv, NEW p \in Paths, Room(p)
  PROVE  GoodWalk(find_node_create(p.comps), 0) /\ Whole(find_node_create(p.comps))
<1>1. p.comps \in Seq(Components) /\ Len(p.comps) \in Nat
  BY RamFsAssumption
<1>2. Cardinality(Nodes \ heap) >= Len(p.comps) + 0
  BY <1>1 DEF Room
<1> QED
  BY <1>1, <1>2, CreateWalk

LEMMA CreateFileWalk ==
  ASSUME IInv, NEW p \in Paths, Room(p), Len(p.comps) >= 2
  PROVE  LET w == find_node_create(<<Head(p.comps)>>)
         IN  /\ GoodWalk(w, 1) /\ Whole(w)
             /\ w.cur # NULL => w.cur \in Kids(w.node, Root)
             /\ Tail(p.comps) \in GivenNames
<1> DEFINE c == Head(p.comps)
<1>1. p.comps \in Seq(Components) /\ Len(p.comps) \in Nat
  BY RamFsAssumption
<1>2. c \in Components
  BY <1>1
<1>3. Cardinality(Nodes \ heap) \in Nat
  BY NodeFacts, FS_Subset, FS_CardinalityType
<1>4. Cardinality(Nodes \ heap) >= 1 + 1
  BY <1>1, <1>3 DEF Room
<1>5. <<c>> \in Seq(Components) /\ Len(<<c>>) = 1
  BY <1>2
<1>6. Tail(p.comps) \in GivenNames
  BY DEF GivenNames
<1> DEFINE cs == <<c>>
<1> HIDE DEF c
<1>7. GoodWalk(find_node_create(cs), 1) /\ Whole(find_node_create(cs))
  <2> HIDE DEF cs
  <2> QED
    BY <1>4, <1>5, CreateWalk DEF cs
<1>8. LET w == find_node_create(<<c>>) IN w.cur # NULL => w.cur \in Kids(w.node, Root)
  BY <1>2, <1>4, CreateOne
<1> QED
  BY <1>6, <1>7, <1>8 DEF c

(* What ramfs_create_file adds. *)
NewFile(w, name, data) == Node(Kept(name), "FILE", w.cur, data)

LEMMA AddFileStep ==
  ASSUME NEW w, GoodWalk(w, 1), NEW name \in GivenNames, NEW data \in Contents,
         w.cur # NULL => w.cur \in Kids(w.node, Root),
         CanAdd(w, name), AddFile(w, name, data),
         NEW n, n = Fresh(w.heap), NEW r, r = NewFile(w, name, data)
  PROVE  /\ n \in Nodes \ w.heap
         /\ w.cur \in w.heap /\ w.cur \in Kids(w.node, Root) /\ w.cur # Root
         /\ r \in NodeRecs /\ r.children = <<>> /\ r.parent = w.cur /\ r.type = "FILE"
         /\ r.name = Kept(name) /\ r.data = data
         /\ node' = Link(Put(w.node, n, r), w.cur, n) /\ heap' = w.heap \cup {n}
         /\ Added(w.node, w.heap, w.cur, n, r)
         /\ ChildOf(w.node, w.cur, name) = NULL
<1>1. /\ Tree(w.node, w.heap) /\ w.heap \in SUBSET Nodes /\ Root \in w.heap
      /\ Cardinality(Nodes \ w.heap) >= 0 + 1
  BY DEF GoodWalk, Tree
<1>2. n \in Nodes \ w.heap
  BY <1>1, FreshFacts
<1>3. w.cur \in Kids(w.node, Root) /\ ChildOf(w.node, w.cur, name) = NULL
  BY DEF CanAdd
<1>4. w.cur \in w.heap /\ w.cur # Root /\ w.cur \in Nodes
  BY <1>1, <1>3 DEF Tree
<1>5. /\ r \in NodeRecs /\ r.children = <<>> /\ r.parent = w.cur /\ r.type = "FILE"
      /\ r.name = Kept(name) /\ r.data = data
  <2>1. <<>> \in Seq(Nodes) /\ Kept(name) \in NodeNames
    BY DEF NodeNames
  <2> QED
    BY <1>4, <2>1 DEF NewFile, Node, NodeRecs
<1>6. node' = Link(Put(w.node, n, r), w.cur, n) /\ heap' = w.heap \cup {n}
  BY DEF AddFile, NewFile, Link, Put
<1>7. Added(w.node, w.heap, w.cur, n, r)
  <2> DEFINE nd == w.node
             hp == w.heap
             cur == w.cur
  <2>1. Tree(nd, hp) /\ cur \in hp /\ n \in Nodes \ hp /\ r.parent = cur
    BY <1>1, <1>2, <1>4, <1>5
  <2> HIDE DEF nd, hp, cur
  <2>2. Added(nd, hp, cur, n, r)
    BY <1>5, <2>1, AddNode
  <2> QED
    BY <2>2 DEF nd, hp, cur
<1> QED
  BY <1>2, <1>3, <1>4, <1>5, <1>6, <1>7

LEMMA DeleteFileStep ==
  ASSUME IInv, NEW p \in Paths, DeleteFile(p)
  PROVE  LET n == Lookup(p.comps)
         IN  /\ \E k \in ReachIn(node) : n \in Kids(node, k)
             /\ node[n].type = "FILE"
             /\ node' = Cut(node, n) /\ heap' = heap \ {n}
<1> DEFINE n == Lookup(p.comps)
<1>1. node \in [Nodes -> NodeRecs] /\ node[Root].type = "DIR"
  BY DEF IInv, Tree
<1>2. /\ n # NULL /\ node[n].type = "FILE"
      /\ node' = Cut(node, n) /\ heap' = heap \ {n}
  BY DEF DeleteFile, IsFile, Cut
<1>3. n = LookupIn(node, p.comps) /\ p.comps \in Seq(Components)
  BY TheseAre, RamFsAssumption
<1>4. n # Root
  BY <1>1, <1>2
<1> HIDE DEF n
<1>5. \E k \in ReachIn(node) : n \in Kids(node, k)
  BY <1>1, <1>2, <1>3, <1>4, LookupFound
<1> QED
  BY <1>2, <1>5 DEF n

LEMMA NextIInv ==
  ASSUME IInv, [Next]_vars
  PROVE  IInv'
<1>1. ASSUME UNCHANGED <<node, heap>> PROVE IInv'
  BY <1>1 DEF IInv
<1>2. ASSUME NEW w, NEW k \in Nat, GoodWalk(w, k), Whole(w), node' = w.node, heap' = w.heap
      PROVE  IInv'
  BY <1>2 DEF IInv, GoodWalk, Whole
<1>3. ASSUME NEW p \in Paths, Mkdir(p) PROVE IInv'
  <2> DEFINE w == find_node_create(p.comps)
  <2>1. Room(p) /\ node' = w.node /\ heap' = w.heap
    BY <1>3 DEF Mkdir
  <2>2. GoodWalk(w, 0) /\ Whole(w)
    BY <2>1, MkdirWalk
  <2> HIDE DEF w
  <2> QED
    BY <1>2, <2>1, <2>2
<1>4. ASSUME NEW p \in Paths, NEW data \in Contents, CreateFile(p, data) PROVE IInv'
  <2> DEFINE w == find_node_create(<<Head(p.comps)>>)
             name == Tail(p.comps)
  <2>1. Room(p) /\ (UNCHANGED <<node, heap>> \/ Len(p.comps) >= 2)
    BY <1>4 DEF CreateFile
  <2>2. \/ UNCHANGED <<node, heap>>
        \/ CanAdd(w, name) /\ AddFile(w, name, data)
        \/ node' = w.node /\ heap' = w.heap
    BY <1>4 DEF CreateFile
  <2>3. CASE UNCHANGED <<node, heap>>
    BY <1>1, <2>3
  <2>4. CASE Len(p.comps) >= 2
    <3>1. /\ GoodWalk(w, 1) /\ Whole(w) /\ name \in GivenNames
          /\ w.cur # NULL => w.cur \in Kids(w.node, Root)
      BY <2>1, <2>4, CreateFileWalk
    <3> HIDE DEF w, name
    <3>2. ASSUME node' = w.node, heap' = w.heap PROVE IInv'
      BY <1>2, <3>1, <3>2
    <3>3. ASSUME CanAdd(w, name), AddFile(w, name, data) PROVE IInv'
      <4> DEFINE n == Fresh(w.heap)
                 r == NewFile(w, name, data)
                 nd == w.node
                 old == w.heap
                 cur == w.cur
      <4>1. /\ n \in Nodes \ old /\ cur \in old /\ cur \in Kids(nd, Root) /\ cur # Root
            /\ r \in NodeRecs /\ r.children = <<>> /\ r.parent = cur
            /\ r.name = Kept(name)
            /\ node' = Link(Put(nd, n, r), cur, n) /\ heap' = old \cup {n}
            /\ Added(nd, old, cur, n, r) /\ ChildOf(nd, cur, name) = NULL
        BY <3>1, <3>3, AddFileStep
      <4>2. Tree(nd, old) /\ FilesDeep(nd) /\ (CutNamesUnused => UniqueNames(nd, old))
        BY <3>1 DEF GoodWalk, Whole
      <4> HIDE DEF n, r, nd, old, cur
      <4> DEFINE link == Link(Put(nd, n, r), cur, n)
      <4>3. /\ Tree(link, old \cup {n})
            /\ \A m \in old : m # cur => link[m] = nd[m]
            /\ link[cur].type = nd[cur].type
        BY <4>1 DEF Added
      <4>4. CutNamesUnused => UniqueNames(link, old \cup {n})
        <5> SUFFICES ASSUME CutNamesUnused PROVE UniqueNames(link, old \cup {n})
          OBVIOUS
        <5>1. nd \in [Nodes -> NodeRecs] /\ cur \in Nodes
          BY <4>1, <4>2 DEF Tree
        <5>2. \A m \in Kids(nd, cur) : nd[m].name = r.name => r.name \notin Single
          BY <3>1, <4>1, <5>1, NotThere
        <5> QED
          BY <4>1, <4>2, <5>2, UniqueAdd
      <4> HIDE DEF link
      <4>5. FilesDeep(link)
        <5>1. Root \in old /\ Kids(nd, Root) \subseteq old
          BY <4>2 DEF Tree
        <5>2. Kids(link, Root) = Kids(nd, Root)
          BY <4>1, <4>3, <5>1 DEF Kids
        <5> QED
          BY <4>2, <4>3, <5>1, <5>2 DEF FilesDeep
      <4> QED
        BY <4>1, <4>3, <4>4, <4>5 DEF IInv, link
    <3> QED
      BY <2>2, <2>3, <3>2, <3>3 DEF w, name
  <2> QED
    BY <2>1, <2>3, <2>4
<1>5. ASSUME NEW p \in Paths, DeleteFile(p) PROVE IInv'
  <2> DEFINE n == Lookup(p.comps)
             cut == Cut(node, n)
  <2>1. /\ \E k \in ReachIn(node) : n \in Kids(node, k)
        /\ node[n].type = "FILE"
        /\ node' = cut /\ heap' = heap \ {n}
    BY <1>5, DeleteFileStep
  <2>2. Tree(node, heap) /\ FilesDeep(node) /\ (CutNamesUnused => UniqueNames(node, heap))
    BY DEF IInv
  <2>3. PICK k \in heap : n \in Kids(node, k)
    BY <2>1, <2>2, ReachAllocated
  <2> HIDE DEF n
  <2>4. Removed(node, heap, k, n)
    BY <2>2, <2>3, RemoveNode
  <2>5. CutNamesUnused => UniqueNames(cut, heap \ {n})
    BY <2>2, <2>3, UniqueRemove
  <2>6. /\ Tree(cut, heap \ {n}) /\ n # Root
        /\ \A m \in heap : m # n /\ m # k => cut[m] = node[m]
        /\ cut[k].type = node[k].type
        /\ Kids(cut, k) = Kids(node, k) \ {n}
    BY <2>4 DEF Removed
  <2> HIDE DEF cut
  <2>7. FilesDeep(cut)
    <3>1. \A m \in Kids(node, Root) : m \in heap /\ node[m].type = "DIR"
      BY <2>2 DEF Tree, FilesDeep
    <3>2. n \notin Kids(node, Root)
      BY <2>1, <3>1
    <3>3. Kids(cut, Root) \subseteq Kids(node, Root)
      <4>1. Root \in heap
        BY <2>2 DEF Tree
      <4> QED
        BY <2>6, <4>1 DEF Kids
    <3> QED
      BY <2>6, <3>1, <3>2, <3>3 DEF FilesDeep
  <2> QED
    BY <2>1, <2>5, <2>6, <2>7 DEF IInv
<1>6. ASSUME NEW p \in Paths, DeleteFileFails(p) \/ ReadFile(p) PROVE IInv'
  BY <1>1, <1>6 DEF DeleteFileFails, ReadFile
<1> QED
  BY <1>1, <1>3, <1>4, <1>5, <1>6 DEF Next, vars

(* The tree of nodes stays one, whatever paths are used. *)
THEOREM RamTreeSound == Spec => []TreeSound
<1>1. IInv => TreeSound
  <2> SUFFICES ASSUME IInv PROVE TreeSound
    OBVIOUS
  <2>1. Tree(node, heap) /\ Reachable = ReachIn(node)
    BY TheseAre DEF IInv
  <2>2. Reachable \subseteq heap
    BY <2>1, ReachAllocated
  <2>3. \A n : Children(n) = Kids(node, n)
    BY DEF Children, Kids
  <2> QED
    BY <2>1, <2>2, <2>3 DEF TreeSound, Tree
<1> QED
  BY <1>1, InitIInv, NextIInv, PTL DEF Spec

-----------------------------------------------------------------------------
(* No operation that succeeds loses a node. *)

LEMMA LostIs == /\ Lost = heap \ ReachIn(node) /\ Lost' = heap' \ ReachIn(node')
                /\ Reachable = ReachIn(node) /\ Reachable' = ReachIn(node')
BY TheseAre DEF Lost

LEMMA ReturnsOk == \A op, ok : Returns(op, ok) => ret'.op = op /\ ret'.ok = ok
BY DEF Returns

(* The memory that a file takes is one node, which can be reached. *)
LEMMA AddFileLost ==
  ASSUME NEW w, GoodWalk(w, 1), Whole(w), NEW name \in GivenNames, NEW data \in Contents,
         w.cur # NULL => w.cur \in Kids(w.node, Root),
         CanAdd(w, name), AddFile(w, name, data)
  PROVE  Lost' = Lost
<1> DEFINE n == Fresh(w.heap)
           r == NewFile(w, name, data)
           nd == w.node
           old == w.heap
           cur == w.cur
<1>1. /\ n \in Nodes \ old /\ cur \in old
      /\ node' = Link(Put(nd, n, r), cur, n) /\ heap' = old \cup {n}
      /\ Added(nd, old, cur, n, r)
  BY AddFileStep
<1>2. cur # NULL
  BY DEF CanAdd
<1>3. Tree(nd, old) /\ cur \in ReachIn(nd) /\ old \ ReachIn(nd) = heap \ ReachIn(node)
  BY <1>2 DEF GoodWalk, Whole
<1> HIDE DEF n, r, nd, old, cur
<1> DEFINE link == Link(Put(nd, n, r), cur, n)
<1>4. /\ Tree(link, old \cup {n}) /\ \A m \in old : m # cur => link[m] = nd[m]
      /\ Kids(link, cur) = Kids(nd, cur) \cup {n} /\ Kids(link, n) = {}
  BY <1>1 DEF Added
<1> HIDE DEF link
<1>5. link \in [Nodes -> NodeRecs]
  BY <1>4 DEF Tree
<1>6. \A m \in old : m # cur => Kids(link, m) = Kids(nd, m)
  BY <1>4 DEF Kids
<1>7. ReachIn(link) = ReachIn(nd) \cup {n}
  BY <1>1, <1>3, <1>4, <1>5, <1>6, ReachAdd
<1>8. Lost' = (old \cup {n}) \ ReachIn(link)
  BY <1>1, LostIs DEF link
<1>9. (old \cup {n}) \ (ReachIn(nd) \cup {n}) = old \ ReachIn(nd)
  BY <1>1
<1> QED
  BY <1>3, <1>7, <1>8, <1>9, LostIs

(* What deleting a file loses: the directories below it. *)
LEMMA DeleteLost ==
  ASSUME IInv, NEW p \in Paths, DeleteFile(p)
  PROVE  Lost' = Lost \/ \E n \in heap \ heap' : DroppedWith(n)
<1> DEFINE n == Lookup(p.comps)
           cut == Cut(node, n)
           R == ReachIn(node)
           Q == ReachIn(cut)
<1>1. /\ \E k \in R : n \in Kids(node, k)
      /\ node' = cut /\ heap' = heap \ {n}
  BY DeleteFileStep
<1>2. Tree(node, heap)
  BY DEF IInv
<1> HIDE DEF n
<1>3. PICK k \in ReachIn(node) : n \in Kids(node, k)
  BY <1>1
<1>4. n \in R /\ Q \subseteq R \ {n} /\ (Kids(node, n) = {} => Q = R \ {n})
  BY <1>2, <1>3, ReachRemove
<1>5. R \subseteq heap
  BY <1>2, ReachAllocated
<1>6. Lost = heap \ R /\ Lost' = (heap \ {n}) \ Q /\ Reachable = R /\ Reachable' = Q
  BY <1>1, LostIs
<1> HIDE DEF R, Q, cut
<1>7. CASE Kids(node, n) = {}
  BY <1>4, <1>6, <1>7
<1>8. CASE Kids(node, n) # {}
  <2>1. Children(n) # {}
    BY <1>8 DEF Children, Kids
  <2>2. Lost' = Lost \cup (Reachable \ (Reachable' \cup {n}))
    BY <1>4, <1>5, <1>6
  <2>3. n \in heap \ heap'
    BY <1>1, <1>4, <1>5
  <2> QED
    BY <2>1, <2>2, <2>3 DEF DroppedWith
<1> QED
  BY <1>7, <1>8

LEMMA SuccessStep ==
  ASSUME IInv, Next, ret'.ok
  PROVE  \/ Lost' = Lost
         \/ ret'.op = "delete" /\ \E n \in heap \ heap' : DroppedWith(n)
<1>1. ASSUME UNCHANGED <<node, heap>> PROVE Lost' = Lost
  BY <1>1, LostIs
<1>2. ASSUME NEW p \in Paths, Mkdir(p) PROVE Lost' = Lost
  <2> DEFINE w == find_node_create(p.comps)
  <2>1. Room(p) /\ node' = w.node /\ heap' = w.heap /\ w.cur # NULL
    BY <1>2, ReturnsOk DEF Mkdir
  <2>2. Whole(w)
    BY <2>1, MkdirWalk
  <2> HIDE DEF w
  <2>3. w.heap \ ReachIn(w.node) = heap \ ReachIn(node)
    BY <2>1, <2>2 DEF Whole
  <2> QED
    BY <2>1, <2>3, LostIs
<1>3. ASSUME NEW p \in Paths, NEW data \in Contents, CreateFile(p, data) PROVE Lost' = Lost
  <2> DEFINE w == find_node_create(<<Head(p.comps)>>)
             name == Tail(p.comps)
  <2>1. Room(p) /\ Len(p.comps) >= 2 /\ CanAdd(w, name) /\ AddFile(w, name, data)
    BY <1>3, ReturnsOk DEF CreateFile
  <2>2. /\ GoodWalk(w, 1) /\ Whole(w) /\ name \in GivenNames
        /\ w.cur # NULL => w.cur \in Kids(w.node, Root)
    BY <2>1, CreateFileWalk
  <2> HIDE DEF w, name
  <2> QED
    BY <2>1, <2>2, AddFileLost
<1>4. ASSUME NEW p \in Paths, DeleteFile(p)
      PROVE  \/ Lost' = Lost
             \/ ret'.op = "delete" /\ \E n \in heap \ heap' : DroppedWith(n)
  <2>1. ret'.op = "delete"
    BY <1>4, ReturnsOk DEF DeleteFile
  <2> QED
    BY <1>4, <2>1, DeleteLost
<1>5. ASSUME NEW p \in Paths, DeleteFileFails(p) \/ ReadFile(p) PROVE Lost' = Lost
  BY <1>1, <1>5 DEF DeleteFileFails, ReadFile
<1> QED
  BY <1>2, <1>3, <1>4, <1>5 DEF Next

(* A call of ramfs_mkdir, ramfs_create_file or ramfs_delete_file that      *)
(* reports success leaves every node reachable that was, but for the       *)
(* directories below a file it deletes.                                    *)
THEOREM RamLosesNothing == Spec => SuccessLosesNothing
<1>1. IInv /\ [Next]_vars => [ret'.ok =>
        \/ Lost' = Lost
        \/ ret'.op = "delete" /\ \E n \in heap \ heap' : DroppedWith(n)]_vars
  BY SuccessStep
<1> QED
  BY <1>1, InitIInv, NextIInv, PTL DEF Spec, SuccessLosesNothing

-----------------------------------------------------------------------------
(* The map from paths to contents. *)

Kept1 == {e \in Components : Kept(<<e>>) = <<e>>}

LEMMA ContentsAtIs ==
  /\ \A p : ContentsAt(p) = ContentsIn(node, p) /\ ContentsAt(p)' = ContentsIn(node', p)
  /\ \A p \in FilePaths : \E c, d \in Components : p = <<c, d>>
<1>1. \A p : ContentsAt(p) = ContentsIn(node, p) /\ ContentsAt(p)' = ContentsIn(node', p)
  BY TheseAre DEF ContentsAt, ContentsIn, IsFile
<1> QED
  BY <1>1 DEF FilePaths

Files == [p \in FilePaths |-> ContentsIn(node, p)]
FilesNext == [p \in FilePaths |-> ContentsIn(node', p)]

(* A step that leaves the files as they are is none of the map. *)
LEMMA SameMap ==
  ASSUME IInv, IInv', CutNamesUnused, SameFiles(node, node')
  PROVE  FilesNext = Files
<1>1. /\ Tree(node, heap) /\ UniqueNames(node, heap)
      /\ Tree(node', heap') /\ UniqueNames(node', heap')
  BY DEF IInv
<1>2. \A p \in FilePaths : ContentsIn(node', p) = ContentsIn(node, p)
  <2> TAKE p \in FilePaths
  <2>1. PICK c \in Components, d \in Components : p = <<c, d>>
    BY ContentsAtIs
  <2> QED
    BY <1>1, <2>1, ContentsSame
<1> QED
  BY <1>2 DEF Files, FilesNext

(* One path at most gets or loses a file.                                  *)
LEMMA CreateMaps ==
  ASSUME IInv, IInv', CutNamesUnused,
         NEW w, GoodWalk(w, 1), Whole(w), NEW name \in GivenNames, NEW data \in Contents,
         w.cur # NULL => w.cur \in Kids(w.node, Root),
         CanAdd(w, name), AddFile(w, name, data)
  PROVE  \/ FilesNext = Files
         \/ \E p \in FilePaths : /\ Files[p] = "none" /\ FilesNext[p] \in Contents
                                 /\ \A q \in FilePaths : q # p => FilesNext[q] = Files[q]
<1> DEFINE n == Fresh(w.heap)
           r == NewFile(w, name, data)
           nd == w.node
           old == w.heap
           cur == w.cur
<1>1. /\ n \in Nodes \ old /\ cur \in old /\ cur \in Kids(nd, Root)
      /\ r \in NodeRecs /\ r.children = <<>> /\ r.parent = cur /\ r.type = "FILE"
      /\ r.name = Kept(name) /\ r.data = data
      /\ node' = Link(Put(nd, n, r), cur, n) /\ heap' = old \cup {n}
      /\ ChildOf(nd, cur, name) = NULL
  BY AddFileStep
<1>2. Tree(nd, old) /\ UniqueNames(nd, old) /\ SameFiles(node, nd)
  BY DEF GoodWalk, Whole
<1> HIDE DEF n, r, nd, old, cur
<1>3. /\ Tree(node, heap) /\ UniqueNames(node, heap)
      /\ Tree(node', heap') /\ UniqueNames(node', heap')
  BY DEF IInv
<1> DEFINE New(c, d) == nd[cur].name = <<c>> /\ r.name = <<d>>
<1>4. ASSUME NEW c \in Components, NEW d \in Components, NEW m \in Nodes
      PROVE  /\ node'[n] = r
             /\ FileAt(node', c, d, m) <=> FileAt(node, c, d, m) \/ (m = n /\ New(c, d))
             /\ FileAt(node, c, d, m) => node'[m].data = node[m].data
  <2>1. /\ node'[n] = r
        /\ FileAt(node', c, d, m) <=> FileAt(nd, c, d, m) \/ (m = n /\ New(c, d))
        /\ m \in old => node'[m].data = nd[m].data
    <3> DEFINE link == Link(Put(nd, n, r), cur, n)
    <3>1. /\ link[n] = r
          /\ FileAt(link, c, d, m) <=> FileAt(nd, c, d, m) \/ (m = n /\ New(c, d))
          /\ m \in old => link[m].data = nd[m].data
      <4>1. FileAdded(nd, old, cur, n, r, c, d, m)
        BY <1>1, <1>2, FilesAddFile
      <4> QED
        BY <4>1 DEF FileAdded
    <3>2. node' = link
      BY <1>1
    <3> HIDE DEF link, New
    <3> QED
      BY <3>1, <3>2
  <2>2. FileAt(nd, c, d, m) => m \in old
    BY <1>2 DEF Tree, FileAt
  <2>3. /\ FileAt(nd, c, d, m) <=> FileAt(node, c, d, m)
        /\ FileAt(node, c, d, m) => nd[m].data = node[m].data
    BY <1>2 DEF SameFiles
  <2> QED
    BY <2>1, <2>2, <2>3
<1>5. ASSUME NEW c \in Components, NEW d \in Components, ~New(c, d)
      PROVE  ContentsIn(node', <<c, d>>) = ContentsIn(node, <<c, d>>)
  <2>1. \A m \in Nodes : FileAt(node', c, d, m) <=> FileAt(node, c, d, m)
    BY <1>4, <1>5
  <2>2. CASE \E m \in Nodes : FileAt(node, c, d, m)
    <3>1. PICK m \in Nodes : FileAt(node, c, d, m)
      BY <2>2
    <3>2. ContentsIn(node, <<c, d>>) = node[m].data
      BY <1>3, <3>1, ContentsFacts
    <3>3. ContentsIn(node', <<c, d>>) = node'[m].data
      BY <1>3, <2>1, <3>1, ContentsFacts
    <3> QED
      BY <1>4, <3>1, <3>2, <3>3
  <2>3. CASE ~ \E m \in Nodes : FileAt(node, c, d, m)
    <3>1. ContentsIn(node, <<c, d>>) = "none"
      BY <1>3, <2>3, ContentsFacts
    <3>2. ContentsIn(node', <<c, d>>) = "none"
      BY <1>3, <2>1, <2>3, ContentsFacts
    <3> QED
      BY <3>1, <3>2
  <2> QED
    BY <2>2, <2>3
<1>6. ASSUME NEW c \in Components, NEW d \in Components, New(c, d)
      PROVE  /\ ContentsIn(node, <<c, d>>) = "none"
             /\ ContentsIn(node', <<c, d>>) \in Contents
  <2>0. n \in Nodes
    BY <1>1
  <2>1. FileAt(node', c, d, n) /\ node'[n].data = data
    BY <1>1, <1>4, <1>6, <2>0
  <2>2. ContentsIn(node', <<c, d>>) = data
    BY <1>3, <2>0, <2>1, ContentsFacts
  <2>3. \A m \in Nodes : ~FileAt(node, c, d, m)
    <3> SUFFICES ASSUME NEW m \in Nodes, FileAt(node, c, d, m) PROVE FALSE
      OBVIOUS
    <3>1. FileAt(nd, c, d, m)
      BY <1>2 DEF SameFiles
    <3>2. PICK x \in Kids(nd, Root) : /\ nd[x].name = <<c>> /\ m \in Kids(nd, x)
                                      /\ nd[m].name = <<d>>
      BY <3>1 DEF FileAt
    <3>3. x = cur
      <4>1. <<c>> \in Single /\ Root \in old
        BY <1>2 DEF Single, Tree
      <4> QED
        BY <1>1, <1>2, <1>6, <3>2, <4>1 DEF UniqueNames
    <3>4. nd[m].name = Kept(name) => Kept(name) \notin Single
      <4>1. nd \in [Nodes -> NodeRecs] /\ cur \in Nodes
        BY <1>1, <1>2 DEF Tree
      <4> QED
        BY <1>1, <3>2, <3>3, <4>1, NotThere
    <3>5. Kept(name) = <<d>> /\ <<d>> \in Single
      BY <1>1, <1>6 DEF Single
    <3> QED
      BY <3>2, <3>4, <3>5
  <2>4. ContentsIn(node, <<c, d>>) = "none"
    BY <1>3, <2>3, ContentsFacts
  <2> QED
    BY <2>2, <2>4
<1>7. CASE \E c, d \in Components : <<c, d>> \in FilePaths /\ New(c, d)
  <2>1. PICK c \in Components, d \in Components : <<c, d>> \in FilePaths /\ New(c, d)
    BY <1>7
  <2> DEFINE p == <<c, d>>
  <2>2. Files[p] = "none" /\ FilesNext[p] \in Contents
    BY <1>6, <2>1 DEF Files, FilesNext
  <2>3. \A q \in FilePaths : q # p => FilesNext[q] = Files[q]
    <3> SUFFICES ASSUME NEW q \in FilePaths, q # p PROVE ContentsIn(node', q) = ContentsIn(node, q)
      BY DEF Files, FilesNext
    <3>1. PICK a \in Components, b \in Components : q = <<a, b>>
      BY ContentsAtIs
    <3>2. ~New(a, b)
      BY <2>1, <3>1
    <3> QED
      BY <1>5, <3>1, <3>2
  <2> QED
    BY <2>1, <2>2, <2>3
<1>8. CASE ~ \E c, d \in Components : <<c, d>> \in FilePaths /\ New(c, d)
  <2>1. \A q \in FilePaths : ContentsIn(node', q) = ContentsIn(node, q)
    <3> TAKE q \in FilePaths
    <3>1. PICK a \in Components, b \in Components : q = <<a, b>>
      BY ContentsAtIs
    <3> QED
      BY <1>5, <1>8, <3>1
  <2> QED
    BY <2>1 DEF Files, FilesNext
<1> QED
  BY <1>7, <1>8

LEMMA DeleteMaps ==
  ASSUME IInv, IInv', CutNamesUnused, NEW p \in Paths, DeleteFile(p)
  PROVE  \/ FilesNext = Files
         \/ \E q \in FilePaths : /\ Files[q] # "none" /\ FilesNext[q] = "none"
                                 /\ \A s \in FilePaths : s # q => FilesNext[s] = Files[s]
<1> DEFINE n == Lookup(p.comps)
<1>1. /\ \E k \in ReachIn(node) : n \in Kids(node, k)
      /\ node[n].type = "FILE" /\ node' = Cut(node, n)
  BY DeleteFileStep
<1> HIDE DEF n
<1>2. /\ Tree(node, heap) /\ UniqueNames(node, heap) /\ FilesDeep(node)
      /\ Tree(node', heap') /\ UniqueNames(node', heap')
  BY DEF IInv
<1>3. PICK k \in heap : n \in Kids(node, k)
  BY <1>1, <1>2, ReachAllocated
<1>4. ASSUME NEW c \in Components, NEW d \in Components, NEW m \in Nodes
      PROVE  /\ FileAt(node', c, d, m) <=> FileAt(node, c, d, m) /\ m # n
             /\ FileAt(node', c, d, m) => node'[m].data = node[m].data
  BY <1>1, <1>2, <1>3, FilesRemove
<1>5. n \in Nodes
  BY <1>2, <1>3 DEF Tree
<1>6. ASSUME NEW c \in Components, NEW d \in Components, ~FileAt(node, c, d, n)
      PROVE  ContentsIn(node', <<c, d>>) = ContentsIn(node, <<c, d>>)
  <2>1. \A m \in Nodes : FileAt(node', c, d, m) <=> FileAt(node, c, d, m)
    BY <1>4, <1>6
  <2>2. CASE \E m \in Nodes : FileAt(node, c, d, m)
    <3>1. PICK m \in Nodes : FileAt(node, c, d, m)
      BY <2>2
    <3>2. ContentsIn(node, <<c, d>>) = node[m].data
      BY <1>2, <3>1, ContentsFacts
    <3>3. ContentsIn(node', <<c, d>>) = node'[m].data
      BY <1>2, <2>1, <3>1, ContentsFacts
    <3> QED
      BY <1>4, <2>1, <3>1, <3>2, <3>3
  <2>3. CASE ~ \E m \in Nodes : FileAt(node, c, d, m)
    <3>1. ContentsIn(node, <<c, d>>) = "none"
      BY <1>2, <2>3, ContentsFacts
    <3>2. ContentsIn(node', <<c, d>>) = "none"
      BY <1>2, <2>1, <2>3, ContentsFacts
    <3> QED
      BY <3>1, <3>2
  <2> QED
    BY <2>2, <2>3
<1>7. ASSUME NEW c \in Components, NEW d \in Components, FileAt(node, c, d, n)
      PROVE  ContentsIn(node', <<c, d>>) = "none"
  <2>1. \A m \in Nodes : ~FileAt(node', c, d, m)
    <3> SUFFICES ASSUME NEW m \in Nodes, FileAt(node', c, d, m) PROVE FALSE
      OBVIOUS
    <3>1. FileAt(node, c, d, m) /\ m # n
      BY <1>4
    <3> QED
      BY <1>2, <1>5, <1>7, <3>1, ContentsFacts
  <2> QED
    BY <1>2, <2>1, ContentsFacts
<1>8. CASE \E c, d \in Components : /\ <<c, d>> \in FilePaths /\ FileAt(node, c, d, n)
                                    /\ ContentsIn(node, <<c, d>>) # "none"
  <2>1. PICK c \in Components, d \in Components :
          /\ <<c, d>> \in FilePaths /\ FileAt(node, c, d, n)
          /\ ContentsIn(node, <<c, d>>) # "none"
    BY <1>8
  <2> DEFINE q == <<c, d>>
  <2>2. Files[q] # "none" /\ FilesNext[q] = "none"
    BY <1>7, <2>1 DEF Files, FilesNext
  <2>3. \A s \in FilePaths : s # q => FilesNext[s] = Files[s]
    <3> SUFFICES ASSUME NEW s \in FilePaths, s # q PROVE ContentsIn(node', s) = ContentsIn(node, s)
      BY DEF Files, FilesNext
    <3>1. PICK a \in Components, b \in Components : s = <<a, b>>
      BY ContentsAtIs
    <3>2. ~FileAt(node, a, b, n)
      <4> SUFFICES ASSUME FileAt(node, a, b, n) PROVE FALSE
        OBVIOUS
      <4>1. \A e, f \in Components : FileAt(node, e, f, n) => \E x \in heap :
               node[x].name = <<e>> /\ node[n].name = <<f>> /\ node[n].parent = x
        BY <1>2 DEF FileAt, Tree
      <4>2. <<a>> = <<c>> /\ <<b>> = <<d>>
        BY <2>1, <4>1
      <4>3. a = c /\ b = d
        BY <4>2
      <4> QED
        BY <3>1, <4>3
    <3> QED
      BY <1>6, <3>1, <3>2
  <2> QED
    BY <2>1, <2>2, <2>3
<1>9. CASE ~ \E c, d \in Components : /\ <<c, d>> \in FilePaths /\ FileAt(node, c, d, n)
                                      /\ ContentsIn(node, <<c, d>>) # "none"
  <2>1. \A s \in FilePaths : ContentsIn(node', s) = ContentsIn(node, s)
    <3> TAKE s \in FilePaths
    <3>1. PICK a \in Components, b \in Components : s = <<a, b>>
      BY ContentsAtIs
    <3>2. CASE FileAt(node, a, b, n)
      <4>1. ContentsIn(node', <<a, b>>) = "none"
        BY <1>7, <3>2
      <4>2. ContentsIn(node, <<a, b>>) = "none"
        BY <1>9, <3>1, <3>2
      <4> QED
        BY <3>1, <4>1, <4>2
    <3>3. CASE ~FileAt(node, a, b, n)
      BY <1>6, <3>1, <3>3
    <3> QED
      BY <3>2, <3>3
  <2> QED
    BY <2>1 DEF Files, FilesNext
<1> QED
  BY <1>8, <1>9

LEMMA MapIs ==
  /\ [p \in FilePaths |-> ContentsAt(p)] = Files
  /\ [p \in FilePaths |-> ContentsAt(p)]' = FilesNext
<1>1. \A p : ContentsAt(p) = ContentsIn(node, p) /\ ContentsAt(p)' = ContentsIn(node', p)
  BY ContentsAtIs
<1>2. [p \in FilePaths |-> ContentsAt(p)] = Files
  BY <1>1 DEF Files
<1>3. [p \in FilePaths |-> ContentsAt(p)]' = [p \in FilePaths |-> ContentsAt(p)']
  OBVIOUS
<1>4. [p \in FilePaths |-> ContentsAt(p)'] = FilesNext
  BY <1>1 DEF FilesNext
<1> QED
  BY <1>2, <1>3, <1>4

LEMMA InitMap == Init => Map!Init
<1> SUFFICES ASSUME Init PROVE Map!Init
  OBVIOUS
<1>1. Kids(node, Root) = {} /\ node \in [Nodes -> NodeRecs]
  <2>1. node[Root].children = <<>>
    BY NodeFacts DEF Init, Blank, Node
  <2>2. IInv
    BY InitIInv
  <2> QED
    BY <2>1, <2>2 DEF Kids, Range, IInv, Tree
<1>2. ASSUME NEW p \in FilePaths PROVE ContentsIn(node, p) = "none"
  <2>1. PICK c \in Components, d \in Components : p = <<c, d>>
    BY ContentsAtIs
  <2>2. ChildOf(node, Root, <<c>>) = NULL
    BY <1>1, ChildFacts, NodeFacts
  <2>3. LookupIn(node, <<c, d>>) = NULL
    BY <1>1, <2>2, LookupTwo
  <2> QED
    BY <2>1, <2>3 DEF ContentsIn
<1>3. Files = [p \in FilePaths |-> "none"]
  BY <1>2 DEF Files
<1>4. ~ret.ok
  BY DEF Init
<1> QED
  BY <1>3, <1>4, MapIs DEF Map!Init

LEMMA StepOfMap ==
  ASSUME CutNamesUnused, IInv, IInv', [Next]_vars
  PROVE  [Map!Next]_<<[p \in FilePaths |-> ContentsAt(p)], ret>>
<1>1. SUFFICES \/ FilesNext = Files
               \/ \E p \in FilePaths :
                    /\ \/ /\ Files[p] = "none" /\ FilesNext[p] \in Contents
                          /\ ret' = [op |-> "create", ok |-> TRUE]
                       \/ /\ Files[p] # "none" /\ FilesNext[p] = "none"
                          /\ ret' = [op |-> "delete", ok |-> TRUE]
                    /\ \A q \in FilePaths : q # p => FilesNext[q] = Files[q]
  <2>1. ASSUME NEW p \in FilePaths, \A q \in FilePaths : q # p => FilesNext[q] = Files[q]
        PROVE  FilesNext = [Files EXCEPT ![p] = FilesNext[p]]
    <3>1. FilesNext = [q \in FilePaths |-> FilesNext[q]] /\ Files = [q \in FilePaths |-> Files[q]]
      BY DEF Files, FilesNext
    <3> QED
      BY <2>1, <3>1
  <2>2. CASE FilesNext = Files
    BY <2>2, MapIs DEF Map!Next, Map!Other
  <2>3. ASSUME NEW p \in FilePaths, Files[p] = "none" /\ FilesNext[p] \in Contents,
               ret' = [op |-> "create", ok |-> TRUE],
               FilesNext = [Files EXCEPT ![p] = FilesNext[p]]
        PROVE  Map!Next
    BY <2>3, MapIs DEF Map!Next, Map!Create, Map!OnlyAt
  <2>4. ASSUME NEW p \in FilePaths, Files[p] # "none" /\ FilesNext[p] = "none",
               ret' = [op |-> "delete", ok |-> TRUE],
               FilesNext = [Files EXCEPT ![p] = FilesNext[p]]
        PROVE  Map!Next
    BY <2>4, MapIs DEF Map!Next, Map!Delete, Map!OnlyAt
  <2> QED
    BY <2>1, <2>2, <2>3, <2>4
<1>2. ASSUME UNCHANGED node PROVE FilesNext = Files
  BY <1>2 DEF Files, FilesNext
<1>3. ASSUME NEW w, Whole(w), node' = w.node PROVE FilesNext = Files
  <2>1. SameFiles(node, node')
    BY <1>3 DEF Whole
  <2> QED
    BY <2>1, SameMap
<1>4. ASSUME NEW p \in Paths, Mkdir(p) PROVE FilesNext = Files
  <2> DEFINE w == find_node_create(p.comps)
  <2>1. Room(p) /\ node' = w.node
    BY <1>4 DEF Mkdir
  <2>2. Whole(w)
    BY <2>1, MkdirWalk
  <2> HIDE DEF w
  <2> QED
    BY <1>3, <2>1, <2>2
<1>5. ASSUME NEW p \in Paths, NEW data \in Contents, CreateFile(p, data)
      PROVE  \/ FilesNext = Files
             \/ \E q \in FilePaths : /\ Files[q] = "none" /\ FilesNext[q] \in Contents
                                     /\ ret' = [op |-> "create", ok |-> TRUE]
                                     /\ \A s \in FilePaths : s # q => FilesNext[s] = Files[s]
  <2> DEFINE w == find_node_create(<<Head(p.comps)>>)
             name == Tail(p.comps)
  <2>1. Room(p) /\ (UNCHANGED node \/ Len(p.comps) >= 2)
    BY <1>5 DEF CreateFile
  <2>2. \/ UNCHANGED node
        \/ CanAdd(w, name) /\ AddFile(w, name, data)
        \/ node' = w.node
    BY <1>5 DEF CreateFile
  <2>3. CASE UNCHANGED node
    BY <1>2, <2>3
  <2>4. CASE Len(p.comps) >= 2
    <3>1. /\ GoodWalk(w, 1) /\ Whole(w) /\ name \in GivenNames
          /\ w.cur # NULL => w.cur \in Kids(w.node, Root)
      BY <2>1, <2>4, CreateFileWalk
    <3> HIDE DEF w, name
    <3>2. CASE node' = w.node
      BY <1>3, <3>1, <3>2
    <3>3. CASE CanAdd(w, name) /\ AddFile(w, name, data)
      <4>1. ret' = [op |-> "create", ok |-> TRUE]
        BY <3>3 DEF AddFile, Returns
      <4> QED
        BY <3>1, <3>3, <4>1, CreateMaps
    <3> QED
      BY <2>2, <2>3, <3>2, <3>3 DEF w, name
  <2> QED
    BY <2>1, <2>3, <2>4
<1>6. ASSUME NEW p \in Paths, DeleteFile(p)
      PROVE  \/ FilesNext = Files
             \/ \E q \in FilePaths : /\ Files[q] # "none" /\ FilesNext[q] = "none"
                                     /\ ret' = [op |-> "delete", ok |-> TRUE]
                                     /\ \A s \in FilePaths : s # q => FilesNext[s] = Files[s]
  <2>1. ret' = [op |-> "delete", ok |-> TRUE]
    BY <1>6 DEF DeleteFile, Returns
  <2> QED
    BY <1>6, <2>1, DeleteMaps
<1>7. ASSUME NEW p \in Paths, DeleteFileFails(p) \/ ReadFile(p) PROVE FilesNext = Files
  BY <1>2, <1>7 DEF DeleteFileFails, ReadFile
<1>8. CASE Next
  BY <1>4, <1>5, <1>6, <1>7, <1>8 DEF Next
<1> QED
  BY <1>2, <1>8 DEF vars

(* The RAM file system is a map from paths to contents, which changes only *)
(* in calls that report success, if no caller uses what is left of a       *)
(* longer name.                                                            *)
THEOREM RamImplementsMap == CutNamesUnused => (Spec => RefinesMap)
<1> SUFFICES ASSUME CutNamesUnused PROVE Spec => RefinesMap
  OBVIOUS
<1>1. IInv /\ IInv' /\ [Next]_vars => [Map!Next]_<<[p \in FilePaths |-> ContentsAt(p)], ret>>
  BY StepOfMap
<1> QED
  BY <1>1, InitIInv, NextIInv, InitMap, PTL DEF Spec, RefinesMap, Map!Spec
=============================================================================
