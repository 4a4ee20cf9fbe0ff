--------------------------- MODULE FatFileProofs ---------------------------
(***************************************************************************)
(* File handles stay on the chain of their own file and implement files    *)
(* that are sequences of bytes, for every volume, set of files and handles *)
(* and whatever accesses fail.                                             *)
(*                                                                         *)
(* The argument has four layers.  The FAT: no cluster follows two others,  *)
(* a first cluster follows none, and no free cluster is in a chain, so     *)
(* chains do not meet (ChainsMeet) and are never cut off by the bound in   *)
(* their definition (ChainClosed).  Growth: no call undoes a link, so what *)
(* was in a chain stays there (GrowsChain, GrowsHandle) for every handle,  *)
(* not only the one that was called.  A call: each step, also the one that *)
(* fails, ends in a state that is Fine; the position a handle has reached  *)
(* is never behind its offset, which is why its size is covered.  Bytes:   *)
(* through the one handle of a file that is not spoilt, each offset is     *)
(* seen at a place of its own, which every call but a write leaves alone.  *)
(***************************************************************************)
EXTENDS FatFile, FiniteSetTheorems, SequenceTheorems, WellFoundedInduction, TLAPS

Byte == Bytes \cup {0}
Sector == [0 .. SECT - 1 -> Byte]
Entries == [clust : {0} \cup Clusters, size : Nat]
Vols ==
  [fat : [Clusters -> {FREE, EOC} \cup Clusters], hint : Clusters,
   data : [Sectors -> Sector], entry : [Files -> Entries], dentry : [Files -> Entries]]
HandleRecs ==
  [file : Files, sclust : Clusters, clust : Clusters, sect : Int, offset : Nat, size : Nat,
   mode : SUBSET {"READ", "WRITE"}, mod : BOOLEAN, dirty : BOOLEAN, buf : Sector]
Errs == {"NONE", "IO", "FULL", "BROKEN", "EOF", "DENIED"}
Met == Errs \ {"EOF", "DENIED"}      \* what may be met after the arguments were checked
Calls == [v : Vols, h : HandleRecs, err : Errs, data : Seq(Byte)]

Last == CLUST_CNT - 3

(* The FAT is a set of chains: no cluster follows two others, and none     *)
(* that is free follows one.                                               *)
FatSound(v) ==
  /\ \A c, d \in Clusters : v.fat[c] \in Clusters /\ v.fat[c] = v.fat[d] => c = d
  /\ \A c \in Clusters : v.fat[c] \in Clusters => v.fat[v.fat[c]] # FREE

Starts(v, c) == c \in Clusters /\ v.fat[c] # FREE /\ \A d \in Clusters : v.fat[d] # c

Covered(v, first, size) == size <= CLUST_SIZE * Cardinality(Chain(v, first))

EntryOK(v, e) == e = Absent \/ (Starts(v, e.clust) /\ Covered(v, e.clust, e.size))

VolOK(v) ==
  /\ v \in Vols
  /\ FatSound(v)
  /\ \A f \in Files : EntryOK(v, v.entry[f]) /\ EntryOK(v, v.dentry[f])
  /\ \A f \in Files : v.dentry[f].clust \in {0, v.entry[f].clust}
  /\ \A f, g \in Files :
       f # g /\ v.entry[f].clust # 0 => v.entry[f].clust # v.entry[g].clust

(* The handle's cluster is at position q of its chain or after it. *)
Reaches(v, h, q) == \E k \in 0 .. Last : ChainOf(v, h.sclust)[k] = h.clust /\ q <= k

HandleOK(v, h) ==
  /\ h \in HandleRecs
  /\ h.sclust = v.entry[h.file].clust
  /\ Reaches(v, h, h.offset \div CLUST_SIZE)
  /\ Covered(v, h.sclust, h.size)

Placed(v, h) == h.sect \in Nat /\ h.sect \div SPC + 2 \in Chain(v, h.sclust)

IInv ==
  /\ VolOK(vol)
  /\ file \in [Handles -> {Closed} \cup HandleRecs]
  /\ \A h \in Handles : IsOpen(h) => HandleOK(vol, file[h]) /\ Placed(vol, file[h])

(* What no call undoes: links and first clusters stay. *)
Grows(v, u) ==
  /\ \A c \in Clusters : v.fat[c] \in Clusters => u.fat[c] = v.fat[c]
  /\ \A c \in Clusters : v.fat[c] # FREE => u.fat[c] # FREE
  /\ \A f \in Files : v.entry[f].clust # 0 => u.entry[f].clust = v.entry[f].clust

-----------------------------------------------------------------------------
(* Numbers. *)

LEMMA Constants ==
  /\ SECT \in Nat /\ SECT > 0 /\ SPC \in Nat /\ SPC > 0 /\ CLUST_SIZE \in Nat /\ CLUST_SIZE > 0
  /\ CLUST_CNT \in Nat /\ CLUST_CNT > 2 /\ Last \in Nat
  /\ Clusters \subseteq Nat /\ 0 \notin Clusters /\ FREE \notin Clusters /\ EOC \notin Clusters
  /\ FREE = 0 /\ EOC # FREE
<1>1. SECT * SPC > 0 /\ SECT * SPC \in Nat
  BY FileAssumption
<1> QED
  BY <1>1, FileAssumption DEF CLUST_SIZE, Clusters, FREE, EOC, Last

(* A set of numbers that is not empty has a least one. *)
LEMMA LeastNumber ==
  ASSUME NEW S \in SUBSET Nat, S # {}
  PROVE  \E x \in S : \A y \in S : x <= y
<1> DEFINE R == OpToRel(<, Nat)
<1>1. IsWellFoundedOn(R, Nat)
  BY NatLessThanWellFounded
<1>2. PICK x \in S : \A y \in S : ~ (<<y, x>> \in R)
  <2> HIDE DEF R
  <2> QED
    BY <1>1, WFMin
<1>3. \A y \in S : ~(y < x)
  BY <1>2 DEF OpToRel
<1> QED
  BY <1>3

(* Induction up to n, over a set of numbers. *)
LEMMA UpTo ==
  ASSUME NEW n \in Nat, NEW S, 0 \in S, \A i \in 1 .. n : i - 1 \in S => i \in S
  PROVE  \A i \in 0 .. n : i \in S
<1> DEFINE T == {i \in 0 .. n : i \notin S}
<1> SUFFICES ASSUME T # {} PROVE FALSE
  OBVIOUS
<1>1. PICK k \in T : \A j \in T : k <= j
  <2>1. T \in SUBSET Nat
    OBVIOUS
  <2> HIDE DEF T
  <2> QED
    BY <2>1, LeastNumber
<1>2. k \in 1 .. n /\ k \notin S
  BY <1>1
<1>3. k - 1 \in 0 .. n /\ ~(k <= k - 1)
  BY <1>2
<1>4. k - 1 \in S
  BY <1>1, <1>3
<1> QED
  BY <1>2, <1>4

LEMMA Quotient ==
  ASSUME NEW a \in Nat, NEW b \in Nat, b > 0
  PROVE  /\ a \div b \in Nat /\ a % b \in 0 .. b - 1
         /\ b * (a \div b) <= a /\ a < b * (a \div b + 1)
OBVIOUS

LEMMA QuotientOf ==
  ASSUME NEW b \in Nat, b > 0, NEW q \in Nat, NEW r \in 0 .. b - 1
  PROVE  (q * b + r) \div b = q
OBVIOUS

-----------------------------------------------------------------------------
(* Chains. *)

LEMMA ChainSteps ==
  ASSUME NEW v, NEW first
  PROVE  /\ ChainOf(v, first)[0] = first
         /\ \A i \in 1 .. Last : ChainOf(v, first)[i] = Succ(v, ChainOf(v, first)[i - 1])
         /\ DOMAIN ChainOf(v, first) = 0 .. Last
<1> DEFINE Eq(g, k) == g = [i \in 0 .. k |-> IF i = 0 THEN first ELSE Succ(v, g[i - 1])]
           n == Last
           S == {k \in 0 .. n : \E g : Eq(g, k)}
           at == CHOOSE g : Eq(g, n)
<1>1. ChainOf(v, first) = at
  BY DEF ChainOf, Last
<1>0. n \in Nat
  BY Constants
<1>2. 0 \in S
  <2> DEFINE h == [i \in 0 .. 0 |-> first]
  <2>1. \A i \in 0 .. 0 : i = 0
    OBVIOUS
  <2>2. h = [i \in 0 .. 0 |-> IF i = 0 THEN first ELSE Succ(v, h[i - 1])]
    BY <2>1
  <2>3. Eq(h, 0) /\ 0 \in 0 .. n
    BY <2>2, <1>0
  <2> HIDE DEF h, Eq
  <2> QED
    BY <2>3
<1>3. ASSUME NEW k \in 1 .. n, k - 1 \in S PROVE k \in S
  <2>1. PICK g : Eq(g, k - 1)
    BY <1>3
  <2> DEFINE h == [i \in 0 .. k |-> IF i = k THEN Succ(v, g[k - 1]) ELSE g[i]]
  <2>2. ASSUME NEW i \in 0 .. k PROVE h[i] = IF i = 0 THEN first ELSE Succ(v, h[i - 1])
    <3>1. CASE i = k
      <4>1. k - 1 \in 0 .. k /\ k - 1 # k /\ k # 0
        BY <1>0
      <4> QED
        BY <3>1, <4>1
    <3>2. CASE i # k
      <4>1. i \in 0 .. k - 1 /\ (i # 0 => i - 1 \in 0 .. k /\ i - 1 # k)
        BY <3>2, <1>0
      <4>2. g[i] = IF i = 0 THEN first ELSE Succ(v, g[i - 1])
        BY <2>1, <4>1
      <4> QED
        BY <3>2, <4>1, <4>2
    <3> QED
      BY <3>1, <3>2
  <2>3. Eq(h, k)
    <3>1. h = [i \in 0 .. k |-> h[i]]
      OBVIOUS
    <3> HIDE DEF h
    <3> QED
      BY <2>2, <3>1
  <2> HIDE DEF h, Eq
  <2> QED
    BY <2>3
<1>4. n \in S
  <2>1. n \in Nat /\ n \in 0 .. n
    BY <1>0
  <2> HIDE DEF S, n
  <2>2. \A i \in 0 .. n : i \in S
    BY <1>2, <1>3, <2>1, UpTo
  <2> QED
    BY <2>1, <2>2
<1>5. Eq(at, n)
  <2>1. \E g : Eq(g, n)
    BY <1>4
  <2> HIDE DEF Eq
  <2> QED
    BY <2>1
<1> HIDE DEF at
<1>6. /\ at[0] = first /\ \A i \in 1 .. n : at[i] = Succ(v, at[i - 1])
      /\ DOMAIN at = 0 .. n
  <2>1. at = [i \in 0 .. n |-> IF i = 0 THEN first ELSE Succ(v, at[i - 1])]
    BY <1>5
  <2> HIDE DEF n
  <2>2. ASSUME NEW i \in 0 .. n PROVE at[i] = IF i = 0 THEN first ELSE Succ(v, at[i - 1])
    BY <2>1, Zenon
  <2>3. 0 \in 0 .. n /\ \A i \in 1 .. n : i \in 0 .. n /\ i # 0
    BY <1>0
  <2>4. DOMAIN at = 0 .. n
    BY <2>1
  <2> QED
    BY <2>2, <2>3, <2>4
<1> QED
  BY <1>1, <1>6

(* Every position of a chain holds a cluster or, beyond its end, 0. *)
LEMMA ChainTyped ==
  ASSUME NEW v, NEW first \in {0} \cup Clusters
  PROVE  \A i \in 0 .. Last : ChainOf(v, first)[i] \in {0} \cup Clusters
<1>1. \A i \in 0 .. Last : i = 0 \/ i \in 1 .. Last
  BY Constants
<1> QED
  BY <1>1, ChainSteps DEF Succ

LEMMA ChainMembers ==
  ASSUME NEW v, NEW first \in {0} \cup Clusters
  PROVE  /\ Chain(v, first) \in SUBSET Clusters
         /\ \A c \in Chain(v, first) : \E i \in 0 .. Last : ChainOf(v, first)[i] = c
         /\ \A i \in 0 .. Last : ChainOf(v, first)[i] # 0 => ChainOf(v, first)[i] \in Chain(v, first)
         /\ IsFiniteSet(Chain(v, first)) /\ Cardinality(Chain(v, first)) \in Nat
         /\ first # 0 => first \in Chain(v, first)
<1>1. \A c : c \in Chain(v, first) <=> c # 0 /\ \E i \in 0 .. Last : ChainOf(v, first)[i] = c
  <2> DEFINE at == ChainOf(v, first)
  <2>1. Chain(v, first) = {at[i] : i \in DOMAIN at} \ {0}
    BY DEF Chain, Range
  <2>2. DOMAIN at = 0 .. Last
    BY ChainSteps
  <2> HIDE DEF at
  <2>3. \A c : c \in Chain(v, first) <=> c # 0 /\ \E i \in 0 .. Last : at[i] = c
    BY <2>1, <2>2
  <2> QED
    BY <2>3 DEF at
<1>2. Chain(v, first) \in SUBSET Clusters
  BY <1>1, ChainTyped
<1>3. IsFiniteSet(Clusters)
  BY Constants, FS_Interval DEF Clusters
<1>4. IsFiniteSet(Chain(v, first)) /\ Cardinality(Chain(v, first)) \in Nat
  BY <1>2, <1>3, FS_Subset, FS_CardinalityType
<1>5. 0 \in 0 .. Last
  BY Constants
<1>6. first # 0 => first \in Chain(v, first)
  BY <1>1, <1>5, ChainSteps
<1> QED
  BY <1>1, <1>2, <1>4, <1>6

(* Before a cluster of the chain there is one that leads to it. *)
LEMMA ChainBack ==
  ASSUME NEW v, NEW first \in {0} \cup Clusters, NEW i \in 1 .. Last,
         ChainOf(v, first)[i] # 0
  PROVE  /\ i - 1 \in 0 .. Last
         /\ ChainOf(v, first)[i - 1] \in Clusters
         /\ v.fat[ChainOf(v, first)[i - 1]] = ChainOf(v, first)[i]
         /\ ChainOf(v, first)[i] \in Clusters
<1>1. i - 1 \in 0 .. Last
  BY Constants
<1> QED
  BY <1>1, ChainSteps, ChainTyped DEF Succ

(* Two chains that meet are the same, position by position. *)
LEMMA ChainsMeet ==
  ASSUME NEW v \in Vols, FatSound(v), NEW a, Starts(v, a), NEW b, Starts(v, b),
         NEW i \in 0 .. Last, NEW j \in 0 .. Last,
         ChainOf(v, a)[i] = ChainOf(v, b)[j], ChainOf(v, a)[i] # 0
  PROVE  a = b /\ i = j
<1> DEFINE p == ChainOf(v, a)
           q == ChainOf(v, b)
           T == {m \in 0 .. Last : \E n \in 0 .. Last : p[m] = q[n] /\ p[m] # 0 /\ i - j = m - n}
<1>0. Last \in Nat
  BY Constants
<1>1. PICK m \in T : \A n \in T : m <= n
  <2>1. i \in T /\ T \in SUBSET Nat
    BY <1>0
  <2> HIDE DEF T
  <2> QED
    BY <2>1, LeastNumber
<1>2. PICK n \in 0 .. Last : p[m] = q[n] /\ p[m] # 0 /\ i - j = m - n
  BY <1>1
<1>a. m \in 0 .. Last
  BY <1>1
<1>b. a \in Clusters /\ b \in Clusters
  BY DEF Starts
<1>c. p[0] = a /\ q[0] = b
  BY ChainSteps
<1>d. a \in {0} \cup Clusters /\ b \in {0} \cup Clusters
  BY <1>b
<1>e. ASSUME NEW k \in 1 .. Last, p[k] # 0
      PROVE  /\ k - 1 \in 0 .. Last /\ p[k - 1] \in Clusters
             /\ v.fat[p[k - 1]] = p[k] /\ p[k] \in Clusters
  BY <1>d, <1>e, ChainBack
<1>f. ASSUME NEW k \in 1 .. Last, q[k] # 0
      PROVE  /\ k - 1 \in 0 .. Last /\ q[k - 1] \in Clusters
             /\ v.fat[q[k - 1]] = q[k] /\ q[k] \in Clusters
  BY <1>d, <1>f, ChainBack
<1> HIDE DEF p, q
<1>3. CASE m = 0
  <2>1. n = 0
    <3> SUFFICES ASSUME n # 0 PROVE FALSE
      OBVIOUS
    <3>1. n \in 1 .. Last
      BY <1>0
    <3>2. q[n - 1] \in Clusters /\ v.fat[q[n - 1]] = q[n]
      BY <1>2, <1>f, <3>1
    <3> QED
      BY <1>2, <1>3, <1>c, <3>2 DEF Starts
  <2> QED
    BY <1>0, <1>2, <1>3, <1>c, <2>1
<1>4. CASE m # 0
  <2>1. m \in 1 .. Last
    BY <1>0, <1>a, <1>4
  <2>2. m - 1 \in 0 .. Last /\ p[m - 1] \in Clusters /\ v.fat[p[m - 1]] = p[m] /\ p[m] \in Clusters
    BY <1>2, <1>e, <2>1
  <2>3. n # 0
    BY <1>2, <1>c, <2>2 DEF Starts
  <2>4. n \in 1 .. Last
    BY <1>0, <2>3
  <2>5. n - 1 \in 0 .. Last /\ q[n - 1] \in Clusters /\ v.fat[q[n - 1]] = q[n]
    BY <1>2, <1>f, <2>4
  <2>6. p[m - 1] = q[n - 1]
    BY <1>2, <2>2, <2>5 DEF FatSound
  <2>7. p[m - 1] # 0
    BY <2>2, Constants
  <2>8. i - j = (m - 1) - (n - 1)
    BY <1>0, <1>2, <1>a
  <2>9. m - 1 \in T
    BY <2>2, <2>5, <2>6, <2>7, <2>8
  <2> QED
    BY <1>0, <1>1, <1>a, <2>9
<1> QED
  BY <1>3, <1>4

(* A chain of k + 1 positions has as many clusters. *)
LEMMA ChainLength ==
  ASSUME NEW v \in Vols, FatSound(v), NEW a, Starts(v, a), NEW k \in 0 .. Last,
         ChainOf(v, a)[k] # 0
  PROVE  /\ \A i \in 0 .. k : ChainOf(v, a)[i] \in Chain(v, a)
         /\ Cardinality(Chain(v, a)) >= k + 1
<1> DEFINE p == ChainOf(v, a)
           C == Chain(v, a)
           A(i) == {p[k - j] : j \in 0 .. i}
           T == {i \in 0 .. k : A(i) \subseteq C /\ Cardinality(A(i)) = i + 1}
<1>0. Last \in Nat /\ k \in Nat
  BY Constants
<1>b. a \in Clusters
  BY DEF Starts
<1>c. /\ \A i \in 0 .. Last : p[i] # 0 => p[i] \in C
      /\ 0 \notin C /\ IsFiniteSet(C) /\ Cardinality(C) \in Nat
  BY <1>b, ChainMembers, Constants
<1>d. ASSUME NEW i \in 0 .. Last, NEW j \in 0 .. Last, p[i] # 0, p[i] = p[j] PROVE i = j
  BY <1>d, ChainsMeet
<1>e. ASSUME NEW i \in 1 .. Last, p[i] # 0 PROVE p[i - 1] # 0
  BY <1>b, <1>e, ChainBack, Constants
<1> HIDE DEF p, C
<1>1. 0 \in T
  <2>1. A(0) = {p[k]}
    BY <1>0
  <2>2. Cardinality({p[k]}) = 1
    BY FS_Singleton
  <2>3. p[k] \in C
    BY <1>c DEF p
  <2>4. A(0) \subseteq C /\ Cardinality(A(0)) = 0 + 1 /\ 0 \in 0 .. k
    <3> HIDE DEF A
    <3> QED
      BY <1>0, <2>1, <2>2, <2>3
  <2> QED
    BY <2>4
<1>2. ASSUME NEW i \in 1 .. k, i - 1 \in T PROVE i \in T
  <2>1. A(i - 1) \subseteq C /\ Cardinality(A(i - 1)) = (i - 1) + 1
    BY <1>2
  <2>2. p[k - i] # 0 /\ k - i \in 0 .. Last
    <3>1. p[k - (i - 1)] \in A(i - 1)
      BY <1>0
    <3>2. p[k - (i - 1)] # 0
      BY <1>c, <2>1, <3>1
    <3>3. k - (i - 1) \in 1 .. Last /\ (k - (i - 1)) - 1 = k - i /\ k - i \in 0 .. Last
      BY <1>0
    <3> QED
      BY <1>e, <3>2, <3>3
  <2>3. p[k - i] \notin A(i - 1)
    <3> SUFFICES ASSUME NEW j \in 0 .. i - 1, p[k - i] = p[k - j] PROVE FALSE
      OBVIOUS
    <3>1. k - j \in 0 .. Last /\ k - i # k - j
      BY <1>0
    <3> QED
      BY <1>d, <2>2, <3>1
  <2>4. A(i) = A(i - 1) \cup {p[k - i]}
    <3>1. \A j : j \in 0 .. i <=> j \in 0 .. i - 1 \/ j = i
      BY <1>0
    <3> QED
      BY <3>1
  <2>5. IsFiniteSet(A(i - 1))
    BY <1>c, <2>1, FS_Subset
  <2> HIDE DEF A
  <2>6. Cardinality(A(i - 1) \cup {p[k - i]}) = Cardinality(A(i - 1)) + 1
    BY <2>3, <2>5, FS_AddElement
  <2>7. Cardinality(A(i)) = i + 1
    BY <1>0, <2>1, <2>4, <2>6
  <2>8. A(i) \subseteq C
    BY <1>c, <2>1, <2>2, <2>4
  <2> QED
    BY <2>7, <2>8
<1>3. k \in T
  <2> HIDE DEF T
  <2>1. \A i \in 0 .. k : i \in T
    BY <1>0, <1>1, <1>2, UpTo
  <2> QED
    BY <1>0, <2>1
<1>4. A(k) \subseteq C /\ Cardinality(A(k)) = k + 1
  BY <1>3
<1>5. \A i \in 0 .. k : p[i] \in A(k)
  <2> SUFFICES ASSUME NEW i \in 0 .. k PROVE p[i] \in A(k)
    OBVIOUS
  <2>1. k - i \in 0 .. k /\ k - (k - i) = i
    BY <1>0
  <2> QED
    BY <2>1
<1> HIDE DEF A
<1>6. Cardinality(A(k)) <= Cardinality(C)
  BY <1>4, <1>c, FS_Subset
<1> QED
  BY <1>0, <1>4, <1>5, <1>6, <1>c DEF p, C

(* A chain is never cut off: what follows one of its clusters is in it. *)
LEMMA ChainClosed ==
  ASSUME NEW v \in Vols, FatSound(v), NEW a, Starts(v, a), NEW k \in 0 .. Last,
         ChainOf(v, a)[k] \in Clusters, v.fat[ChainOf(v, a)[k]] \in Clusters
  PROVE  k < Last /\ ChainOf(v, a)[k + 1] = v.fat[ChainOf(v, a)[k]]
<1> DEFINE p == ChainOf(v, a)
<1>0. Last \in Nat /\ 0 \notin Clusters /\ a \in Clusters
  BY Constants DEF Starts
<1>1. CASE k < Last
  <2>1. k + 1 \in 1 .. Last /\ (k + 1) - 1 = k
    BY <1>0, <1>1
  <2>2. p[k + 1] = Succ(v, p[k])
    BY <2>1, ChainSteps
  <2> QED
    BY <1>0, <1>1, <2>2 DEF Succ
<1>b. a \in {0} \cup Clusters
  BY <1>0
<1> DEFINE C == Chain(v, a)
<1>f. \A c \in C : \E i \in 0 .. Last : p[i] = c
  BY <1>b, ChainMembers
<1>g. ASSUME NEW i \in 1 .. Last, p[i] # 0
      PROVE  i - 1 \in 0 .. Last /\ p[i - 1] \in Clusters /\ v.fat[p[i - 1]] = p[i]
  BY <1>b, <1>g, ChainBack
<1>2. CASE k = Last
  <2> DEFINE d == v.fat[p[k]]
  <2>1. Cardinality(C) >= Last + 1
    BY <1>0, <1>2, ChainLength
  <2>2. Cardinality(Clusters) = Last + 1 /\ IsFiniteSet(Clusters)
    BY Constants, FS_Interval DEF Clusters, Last
  <2>3. C \in SUBSET Clusters /\ IsFiniteSet(C) /\ Cardinality(C) \in Nat
    BY <1>0, ChainMembers
  <2>4. C = Clusters
    <3> HIDE DEF C
    <3>1. Cardinality(C) <= Cardinality(Clusters) /\ (Cardinality(C) = Cardinality(Clusters) => C = Clusters)
      BY <2>2, <2>3, FS_Subset
    <3> QED
      BY <1>0, <2>1, <2>2, <2>3, <3>1
  <2>5. PICK j \in 0 .. Last : p[j] = d
    <3>1. d \in C
      BY <2>4
    <3> HIDE DEF p, C, d
    <3> QED
      BY <1>f, <3>1
  <2>d. p[j] # 0
    BY <1>0, <2>5
  <2>6. j # 0
    BY <2>5, ChainSteps DEF Starts
  <2>7. j \in 1 .. Last
    BY <1>0, <2>6
  <2>8. p[j - 1] \in Clusters /\ v.fat[p[j - 1]] = d /\ j - 1 \in 0 .. Last
    <3> HIDE DEF p, d
    <3> QED
      BY <1>g, <2>5, <2>7, <2>d
  <2>9. p[j - 1] = p[k]
    BY <2>8 DEF FatSound
  <2>10. j - 1 = k
    BY <1>0, <2>8, <2>9, ChainsMeet
  <2> QED
    BY <1>0, <1>2, <2>7, <2>10
<1> QED
  BY <1>0, <1>1, <1>2

-----------------------------------------------------------------------------
(* Chains only grow. *)

LEMMA GrowsRefl == \A v : Grows(v, v)
  BY DEF Grows

LEMMA GrowsTrans ==
  ASSUME NEW v \in Vols, NEW u \in Vols, NEW x \in Vols, Grows(v, u), Grows(u, x)
  PROVE  Grows(v, x)
BY DEF Grows

LEMMA GrowsChain ==
  ASSUME NEW v \in Vols, NEW u \in Vols, Grows(v, u), NEW a \in {0} \cup Clusters
  PROVE  /\ \A k \in 0 .. Last : ChainOf(v, a)[k] # 0 => ChainOf(u, a)[k] = ChainOf(v, a)[k]
         /\ Chain(v, a) \subseteq Chain(u, a)
         /\ \A s \in Nat : Covered(v, a, s) => Covered(u, a, s)
<1> DEFINE p == ChainOf(v, a)
           q == ChainOf(u, a)
           T == {k \in 0 .. Last : p[k] # 0 => q[k] = p[k]}
<1>0. Last \in Nat
  BY Constants
<1>1. \A k \in 0 .. Last : k \in T
  <2>1. 0 \in T
    BY <1>0, ChainSteps
  <2>2. ASSUME NEW k \in 1 .. Last, k - 1 \in T PROVE k \in T
    <3> SUFFICES ASSUME p[k] # 0 PROVE q[k] = p[k]
      BY <1>0
    <3>1. /\ k - 1 \in 0 .. Last /\ p[k - 1] \in Clusters
          /\ v.fat[p[k - 1]] = p[k] /\ p[k] \in Clusters
      BY ChainBack
    <3>2. q[k - 1] = p[k - 1]
      BY <2>2, <3>1, Constants
    <3>3. u.fat[p[k - 1]] = p[k]
      BY <3>1 DEF Grows
    <3>4. q[k] = Succ(u, q[k - 1])
      BY ChainSteps
    <3> HIDE DEF p, q
    <3> QED
      BY <3>1, <3>2, <3>3, <3>4, Constants DEF Succ
  <2> HIDE DEF T
  <2> QED
    BY <1>0, <2>1, <2>2, UpTo
<1>2. \A k \in 0 .. Last : p[k] # 0 => q[k] = p[k]
  BY <1>1
<1>3. Chain(v, a) \subseteq Chain(u, a)
  <2> SUFFICES ASSUME NEW c \in Chain(v, a) PROVE c \in Chain(u, a)
    OBVIOUS
  <2>1. PICK i \in 0 .. Last : p[i] = c
    BY ChainMembers
  <2>2. c # 0
    BY ChainMembers, Constants
  <2>3. q[i] = c /\ q[i] # 0
    BY <1>2, <2>1, <2>2
  <2> QED
    BY <2>3, ChainMembers
<1>4. ASSUME NEW s \in Nat, Covered(v, a, s) PROVE Covered(u, a, s)
  <2> DEFINE m == Cardinality(Chain(v, a))
             n == Cardinality(Chain(u, a))
  <2>1. m \in Nat /\ n \in Nat /\ IsFiniteSet(Chain(u, a))
    BY ChainMembers
  <2>2. m <= n
    BY <1>3, <2>1, FS_Subset
  <2>3. s <= CLUST_SIZE * m /\ CLUST_SIZE \in Nat
    BY <1>4, Constants DEF Covered
  <2> HIDE DEF m, n
  <2>4. CLUST_SIZE * m <= CLUST_SIZE * n
    BY <2>1, <2>2, <2>3
  <2>5. s <= CLUST_SIZE * n
    BY <2>1, <2>3, <2>4
  <2> QED
    BY <2>5 DEF Covered, n
<1> QED
  BY <1>2, <1>3, <1>4

LEMMA GrowsReaches ==
  ASSUME NEW v \in Vols, NEW u \in Vols, Grows(v, u), NEW h \in HandleRecs, NEW q \in Int,
         Reaches(v, h, q)
  PROVE  Reaches(u, h, q)
<1>1. PICK k \in 0 .. Last : ChainOf(v, h.sclust)[k] = h.clust /\ q <= k
  BY DEF Reaches
<1>2. h.sclust \in {0} \cup Clusters /\ h.clust # 0
  BY Constants DEF HandleRecs
<1>3. ChainOf(u, h.sclust)[k] = h.clust
  BY <1>1, <1>2, GrowsChain
<1> QED
  BY <1>1, <1>3 DEF Reaches

LEMMA GrowsHandle ==
  ASSUME NEW v \in Vols, NEW u \in Vols, Grows(v, u), NEW h, HandleOK(v, h)
  PROVE  HandleOK(u, h) /\ (Placed(v, h) => Placed(u, h))
<1>0. h \in HandleRecs
  BY DEF HandleOK
<1>1. /\ h.sclust \in {0} \cup Clusters /\ h.sclust # 0 /\ h.size \in Nat
      /\ h.offset \div CLUST_SIZE \in Int /\ h.file \in Files
  BY <1>0, Constants, Quotient DEF HandleRecs
<1>2. Reaches(u, h, h.offset \div CLUST_SIZE)
  BY <1>0, <1>1, GrowsReaches DEF HandleOK
<1>3. Covered(u, h.sclust, h.size)
  BY <1>1, GrowsChain DEF HandleOK
<1>4. h.sclust = u.entry[h.file].clust
  BY <1>1 DEF HandleOK, Grows
<1>5. Placed(v, h) => Placed(u, h)
  <2>1. Chain(v, h.sclust) \subseteq Chain(u, h.sclust)
    BY <1>1, GrowsChain
  <2> QED
    BY <2>1 DEF Placed
<1> QED
  BY <1>0, <1>2, <1>3, <1>4, <1>5 DEF HandleOK

LEMMA GrowsEntry ==
  ASSUME NEW v \in Vols, NEW u \in Vols, Grows(v, u), NEW e \in Entries, EntryOK(v, e),
         e # Absent => Starts(u, e.clust)
  PROVE  EntryOK(u, e)
<1> DEFINE c == e.clust
           s == e.size
<1> SUFFICES ASSUME e # Absent PROVE Covered(u, c, s)
  BY DEF EntryOK
<1>1. Covered(v, c, s) /\ c \in {0} \cup Clusters /\ s \in Nat
  BY DEF EntryOK, Entries
<1> HIDE DEF c, s
<1> QED
  BY <1>1, GrowsChain

(* A step that keeps the directory, or copies it to the disk. *)
LEMMA GrowsVol ==
  ASSUME NEW v, VolOK(v), NEW u \in Vols, FatSound(u), Grows(v, u),
         u.entry = v.entry, u.dentry \in {v.dentry, v.entry},
         \A f \in Files : v.entry[f] # Absent => Starts(u, v.entry[f].clust)
  PROVE  VolOK(u)
<1>0. v \in Vols
  BY DEF VolOK
<1>1. ASSUME NEW f \in Files
      PROVE  EntryOK(u, v.entry[f]) /\ EntryOK(u, v.dentry[f])
  <2>1. v.entry[f] \in Entries /\ v.dentry[f] \in Entries
    BY <1>0 DEF Vols
  <2>2. EntryOK(u, v.entry[f])
    BY <1>0, <2>1, GrowsEntry DEF VolOK
  <2>3. v.dentry[f] # Absent => v.dentry[f].clust = v.entry[f].clust /\ v.entry[f] # Absent
    BY Constants DEF VolOK, EntryOK, Starts, Absent
  <2>4. EntryOK(u, v.dentry[f])
    BY <1>0, <2>1, <2>3, GrowsEntry DEF VolOK
  <2> QED
    BY <2>2, <2>4
<1>2. ASSUME NEW f \in Files PROVE EntryOK(u, u.entry[f]) /\ EntryOK(u, u.dentry[f])
  BY <1>1
<1>3. \A f \in Files : u.dentry[f].clust \in {0, u.entry[f].clust}
  BY DEF VolOK
<1>4. \A f, g \in Files :
        f # g /\ u.entry[f].clust # 0 => u.entry[f].clust # u.entry[g].clust
  BY DEF VolOK
<1> QED
  BY <1>2, <1>3, <1>4 DEF VolOK

-----------------------------------------------------------------------------
(* The cluster that stretch_chain adds. *)

(* Cluster c is a chain of its own that no file has. *)
Fresh(v, c) ==
  /\ Starts(v, c) /\ v.fat[c] = EOC
  /\ \A f \in Files : v.entry[f].clust # c /\ v.dentry[f].clust # c

LEMMA MarkVol ==
  ASSUME NEW v, VolOK(v), NEW c \in FreeClust(v)
  PROVE  VolOK(Marked(v, c)) /\ Grows(v, Marked(v, c)) /\ Fresh(Marked(v, c), c)
<1> DEFINE u == Marked(v, c)
<1>0. v \in Vols /\ c \in Clusters /\ v.fat[c] = FREE
  BY DEF VolOK, FreeClust
<1>1. /\ u \in Vols /\ u.fat = [v.fat EXCEPT ![c] = EOC]
      /\ u.entry = v.entry /\ u.dentry = v.dentry
  BY <1>0 DEF Marked, Vols
<1> HIDE DEF u
<1>2. v.fat \in [Clusters -> {FREE, EOC} \cup Clusters]
  BY <1>0 DEF Vols
<1>3. u.fat[c] = EOC /\ \A d \in Clusters : d # c => u.fat[d] = v.fat[d]
  BY <1>0, <1>1, <1>2
<1>4. \A d \in Clusters : v.fat[d] # c
  BY <1>0 DEF VolOK, FatSound
<1>5. Grows(v, u)
  BY <1>0, <1>1, <1>3, Constants DEF Grows
<1>6. FatSound(u)
  <2>1. ASSUME NEW d \in Clusters, u.fat[d] \in Clusters
        PROVE  d # c /\ u.fat[d] = v.fat[d] /\ v.fat[d] # c
    BY <1>3, <1>4, <2>1, Constants
  <2>2. ASSUME NEW d \in Clusters, NEW e \in Clusters, u.fat[d] \in Clusters, u.fat[d] = u.fat[e]
        PROVE  d = e
    BY <2>1, <2>2 DEF VolOK, FatSound
  <2>3. ASSUME NEW d \in Clusters, u.fat[d] \in Clusters
        PROVE  u.fat[u.fat[d]] # FREE
    BY <1>3, <2>1, <2>3 DEF VolOK, FatSound
  <2> QED
    BY <2>2, <2>3 DEF FatSound
<1>7. ASSUME NEW d \in Clusters, Starts(v, d) PROVE d # c /\ Starts(u, d)
  <2>1. d # c
    BY <1>0, <1>7 DEF Starts
  <2>2. u.fat[d] # FREE /\ \A e \in Clusters : u.fat[e] # d
    BY <1>3, <1>7, <2>1, Constants DEF Starts
  <2> QED
    BY <2>1, <2>2 DEF Starts
<1>8. ASSUME NEW f \in Files
      PROVE  /\ v.entry[f] # Absent => Starts(u, v.entry[f].clust)
             /\ v.entry[f].clust # c /\ v.dentry[f].clust # c
  <2>1. EntryOK(v, v.entry[f]) /\ EntryOK(v, v.dentry[f]) /\ Absent.clust # c
    BY <1>0, Constants DEF VolOK, Absent
  <2>2. ASSUME NEW e, EntryOK(v, e) PROVE (e # Absent => Starts(u, e.clust)) /\ e.clust # c
    <3>1. CASE e = Absent
      BY <2>1, <3>1
    <3>2. CASE e # Absent
      <4>1. Starts(v, e.clust) /\ e.clust \in Clusters
        BY <2>2, <3>2 DEF EntryOK, Starts
      <4> QED
        BY <1>7, <4>1
    <3> QED
      BY <3>1, <3>2
  <2> QED
    BY <2>1, <2>2
<1>9. VolOK(u)
  BY <1>1, <1>5, <1>6, <1>8, GrowsVol
<1>10. Starts(u, c)
  BY <1>0, <1>3, <1>4, Constants DEF Starts
<1> QED
  BY <1>1, <1>3, <1>5, <1>8, <1>9, <1>10 DEF Fresh, u

LEMMA LinkVol ==
  ASSUME NEW v, VolOK(v), NEW c, Fresh(v, c), NEW prev \in Clusters, v.fat[prev] = EOC, prev # c
  PROVE  LET u == Linked(v, prev, c)
         IN  VolOK(u) /\ Grows(v, u) /\ u.fat[prev] = c /\ u.entry = v.entry
<1> DEFINE u == Linked(v, prev, c)
<1>0. v \in Vols /\ c \in Clusters /\ v.fat[c] = EOC /\ prev # 0
  BY Constants DEF VolOK, Fresh, Starts
<1>1. /\ u \in Vols /\ u.fat = [v.fat EXCEPT ![prev] = c]
      /\ u.entry = v.entry /\ u.dentry = v.dentry
  BY <1>0 DEF Linked, Vols
<1> HIDE DEF u
<1>2. v.fat \in [Clusters -> {FREE, EOC} \cup Clusters]
  BY <1>0 DEF Vols
<1>3. u.fat[prev] = c /\ \A d \in Clusters : d # prev => u.fat[d] = v.fat[d]
  BY <1>0, <1>1, <1>2
<1>4. \A d \in Clusters : v.fat[d] # c
  BY DEF Fresh, Starts
<1>5. Grows(v, u)
  BY <1>0, <1>1, <1>3, Constants DEF Grows
<1>6. FatSound(u)
  <2>1. ASSUME NEW d \in Clusters, d # prev, u.fat[d] \in Clusters
        PROVE  u.fat[d] = v.fat[d] /\ v.fat[d] # c
    BY <1>3, <1>4, <2>1
  <2>2. ASSUME NEW d \in Clusters, NEW e \in Clusters, u.fat[d] \in Clusters, u.fat[d] = u.fat[e]
        PROVE  d = e
    BY <1>3, <2>1, <2>2 DEF VolOK, FatSound
  <2>3. ASSUME NEW d \in Clusters, u.fat[d] \in Clusters
        PROVE  u.fat[u.fat[d]] # FREE
    <3>1. CASE d = prev
      BY <1>0, <1>3, <3>1, Constants
    <3>2. CASE d # prev
      <4>1. v.fat[v.fat[d]] # FREE /\ u.fat[d] = v.fat[d]
        BY <2>1, <2>3, <3>2 DEF VolOK, FatSound
      <4> QED
        BY <1>0, <1>3, <2>3, <4>1, Constants
    <3> QED
      BY <3>1, <3>2
  <2> QED
    BY <2>2, <2>3 DEF FatSound
<1>8. ASSUME NEW f \in Files, v.entry[f] # Absent
      PROVE  Starts(u, v.entry[f].clust)
  <2> DEFINE d == v.entry[f].clust
  <2>1. Starts(v, d) /\ d # c
    BY <1>8 DEF VolOK, EntryOK, Fresh
  <2> HIDE DEF d
  <2>2. d \in Clusters /\ u.fat[d] # FREE /\ \A e \in Clusters : u.fat[e] # d
    BY <1>0, <1>3, <2>1, Constants DEF Starts
  <2> QED
    BY <2>2 DEF Starts, d
<1>9. VolOK(u)
  BY <1>1, <1>5, <1>6, <1>8, GrowsVol
<1> QED
  BY <1>1, <1>3, <1>5, <1>9 DEF u

(* The directory copied to the disk, another hint, other data. *)
LEMMA SameFat ==
  ASSUME NEW v, VolOK(v), NEW u \in Vols, u.fat = v.fat, u.entry = v.entry,
         u.dentry \in {v.dentry, v.entry}
  PROVE  VolOK(u) /\ Grows(v, u) /\ \A c : Fresh(v, c) => Fresh(u, c)
<1>1. Grows(v, u) /\ FatSound(u)
  BY DEF Grows, VolOK, FatSound
<1>2. \A f \in Files : v.entry[f] # Absent => Starts(u, v.entry[f].clust)
  BY DEF VolOK, EntryOK, Starts
<1>3. \A c : Fresh(v, c) => Fresh(u, c)
  BY DEF Fresh, Starts
<1>4. VolOK(u)
  BY <1>1, <1>2, GrowsVol
<1> QED
  BY <1>1, <1>3, <1>4

LEMMA TakenFree ==
  ASSUME NEW v, NEW prev
  PROVE  Taken(v, prev) \subseteq FreeClust(v)
BY DEF Taken

(* Nothing but the FAT and what is on the disk of the directory changed. *)
SameButFat(v, u) ==
  u.entry = v.entry /\ u.data = v.data /\ u.dentry \in {v.dentry, v.entry}

LEMMA SameTrans ==
  ASSUME NEW v, NEW u, NEW x, SameButFat(v, u), SameButFat(u, x)
  PROVE  SameButFat(v, x)
BY DEF SameButFat

(* What a call of stretch_chain leaves. *)
Stretched(w, prev, x) ==
  /\ VolOK(x.v) /\ Grows(w.v, x.v) /\ SameButFat(w.v, x.v)
  /\ x.data = w.data /\ x.err \in Met
  /\ x = [v |-> x.v, h |-> x.h, err |-> x.err, data |-> x.data]
  /\ \/ x.err # "NONE" /\ x.h = w.h
     \/ /\ x.err = "NONE"
        /\ \E c \in Clusters : /\ x.h = [w.h EXCEPT !.clust = c]
                               /\ IF prev = 0 THEN Fresh(x.v, c) ELSE x.v.fat[prev] = c

CallsOf(H) == [v : Vols, h : H, err : Errs, data : Seq(Byte)]

LEMMA Stretch ==
  ASSUME NEW H, NEW w \in CallsOf(H), VolOK(w.v), w.err = "NONE", NEW prev,
         prev = 0 \/ (prev \in Clusters /\ w.v.fat[prev] = EOC), NEW x \in stretch_chain(w, prev)
  PROVE  Stretched(w, prev, x)
<1>0. w.v \in Vols /\ w = [v |-> w.v, h |-> w.h, err |-> w.err, data |-> w.data]
  BY DEF CallsOf
<1>1. ASSUME NEW u, NEW e \in Met \ {"NONE"}, VolOK(u), Grows(w.v, u), SameButFat(w.v, u),
             x = [v |-> u, h |-> w.h, err |-> e, data |-> w.data]
      PROVE  Stretched(w, prev, x)
  BY <1>1 DEF Stretched
<1>e. "IO" \in Met \ {"NONE"} /\ "FULL" \in Met \ {"NONE"} /\ "NONE" \in Met
  BY DEF Errs, Met
<1>2. CASE Taken(w.v, prev) = {}
  <2>1. x = [w EXCEPT !.err = "FULL"]
    BY <1>2 DEF stretch_chain, Failed
  <2>2. x = [v |-> w.v, h |-> w.h, err |-> "FULL", data |-> w.data]
    BY <1>0, <2>1
  <2> QED
    BY <1>1, <1>e, <2>2, GrowsRefl DEF SameButFat
<1>3. CASE Taken(w.v, prev) # {}
  <2> DEFINE marked(c) == [w EXCEPT !.v = Marked(w.v, c)]
             linked(c) == [w EXCEPT !.v = [Linked(Marked(w.v, c), prev, c) EXCEPT !.hint = c]]
             ends(c) == UNION {IF y.err = "NONE" THEN {[y EXCEPT !.h.clust = c]} ELSE {y} : y \in sync_fs(linked(c))}
  <2>1. PICK c \in Taken(w.v, prev) : x \in Fault(w) \cup Fault(marked(c)) \cup ends(c)
    BY <1>3 DEF stretch_chain, Then
  <2> DEFINE m == Marked(w.v, c)
             l == Linked(m, prev, c)
             n == [l EXCEPT !.hint = c]
             s == [n EXCEPT !.dentry = n.entry]
  <2>2. c \in FreeClust(w.v) /\ c \in Clusters /\ w.v.fat[c] = FREE
    BY TakenFree DEF FreeClust
  <2>3. /\ VolOK(m) /\ Grows(w.v, m) /\ Fresh(m, c) /\ m \in Vols /\ SameButFat(w.v, m)
        /\ prev # 0 => m.fat[prev] = EOC /\ prev # c
    <3>1. SameButFat(w.v, m) /\ m.fat = [w.v.fat EXCEPT ![c] = EOC]
      BY <1>0 DEF Marked, Vols, SameButFat
    <3>2. prev # 0 => m.fat[prev] = EOC /\ prev # c
      BY <1>0, <2>2, <3>1, Constants DEF Vols
    <3>3. VolOK(m) /\ Grows(w.v, m) /\ Fresh(m, c)
      BY <2>2, MarkVol
    <3> QED
      BY <3>1, <3>2, <3>3 DEF VolOK
  <2> HIDE DEF m
  <2>4. /\ VolOK(l) /\ Grows(m, l) /\ SameButFat(m, l) /\ l \in Vols
        /\ IF prev = 0 THEN Fresh(l, c) ELSE l.fat[prev] = c
    <3>1. CASE prev = 0
      <4>1. l = m
        BY <3>1 DEF Linked
      <4> QED
        BY <2>3, <3>1, <4>1, GrowsRefl DEF SameButFat
    <3>2. CASE prev # 0
      <4>1. VolOK(l) /\ Grows(m, l) /\ l.fat[prev] = c /\ l.entry = m.entry
        BY <2>3, <3>2, LinkVol
      <4>2. l.data = m.data /\ l.dentry = m.dentry
        BY <2>3, <3>2 DEF Linked, Vols
      <4> QED
        BY <3>2, <4>1, <4>2 DEF VolOK, SameButFat
    <3> QED
      BY <3>1, <3>2
  <2> HIDE DEF l
  <2>5. /\ n \in Vols /\ n.fat = l.fat /\ n.entry = l.entry /\ n.dentry = l.dentry
        /\ s \in Vols /\ s.fat = l.fat /\ s.entry = l.entry /\ s.dentry = l.entry
        /\ SameButFat(l, n) /\ SameButFat(l, s)
    BY <2>2, <2>4 DEF Vols, SameButFat
  <2> HIDE DEF n, s
  <2>6. /\ VolOK(n) /\ Grows(l, n)
        /\ VolOK(s) /\ Grows(l, s)
        /\ IF prev = 0 THEN Fresh(s, c) ELSE s.fat[prev] = c
    BY <2>4, <2>5, SameFat
  <2>7. Grows(w.v, n) /\ Grows(w.v, s) /\ SameButFat(w.v, n) /\ SameButFat(w.v, s)
    BY <1>0, <2>3, <2>4, <2>5, <2>6, GrowsTrans, SameTrans
  <2>8. CASE x \in Fault(w)
    <3>1. x = [w EXCEPT !.err = "IO"]
      BY <2>8 DEF Fault, Failed
    <3>2. x = [v |-> w.v, h |-> w.h, err |-> "IO", data |-> w.data]
      BY <1>0, <3>1
    <3> QED
      BY <1>1, <1>e, <3>2, GrowsRefl DEF SameButFat
  <2>9. CASE x \in Fault(marked(c))
    <3>1. x = [marked(c) EXCEPT !.err = "IO"]
      BY <2>9 DEF Fault, Failed
    <3>2. x = [v |-> m, h |-> w.h, err |-> "IO", data |-> w.data]
      BY <1>0, <3>1 DEF m
    <3> QED
      BY <1>1, <1>e, <2>3, <3>2
  <2>10. CASE x \in ends(c)
    <3>1. linked(c) = [v |-> n, h |-> w.h, err |-> "NONE", data |-> w.data]
      BY <1>0 DEF n, l, m
    <3> DEFINE k == linked(c)
               t == [v |-> s, h |-> w.h, err |-> "NONE", data |-> w.data]
               b == [v |-> n, h |-> w.h, err |-> "IO", data |-> w.data]
    <3>a. k = [v |-> n, h |-> w.h, err |-> "NONE", data |-> w.data]
      BY <3>1
    <3>2. sync_fs(k) \subseteq {t, b}
      <4> HIDE DEF k
      <4>1. [k EXCEPT !.v.dentry = k.v.entry] = t /\ [k EXCEPT !.err = "IO"] = b
        BY <3>a DEF s
      <4> QED
        BY <4>1 DEF sync_fs, Fault, Failed
    <3> HIDE DEF k
    <3>3. PICK y \in sync_fs(k) : x \in IF y.err = "NONE" THEN {[y EXCEPT !.h.clust = c]} ELSE {y}
      BY <2>10 DEF k
    <3>4. CASE y = b
      <4>1. x = b
        BY <3>3, <3>4
      <4> QED
        BY <1>1, <1>e, <2>6, <2>7, <4>1
    <3>5. CASE y = t
      <4>1. x = [t EXCEPT !.h.clust = c]
        BY <3>3, <3>5
      <4>2. x = [v |-> s, h |-> [w.h EXCEPT !.clust = c], err |-> "NONE", data |-> w.data]
        BY <4>1
      <4>3. /\ x.v = s /\ x.h = [w.h EXCEPT !.clust = c] /\ x.err = "NONE" /\ x.data = w.data
            /\ x = [v |-> x.v, h |-> x.h, err |-> x.err, data |-> x.data]
        BY <4>2
      <4> QED
        BY <1>e, <2>2, <2>6, <2>7, <4>3 DEF Stretched
    <3> QED
      BY <3>2, <3>3, <3>4, <3>5
  <2> QED
    BY <2>1, <2>8, <2>9, <2>10
<1> QED
  BY <1>2, <1>3

-----------------------------------------------------------------------------
(* fat_file_seek. *)

LEMMA HandleStarts ==
  ASSUME NEW v, VolOK(v), NEW h, HandleOK(v, h)
  PROVE  Starts(v, h.sclust) /\ h.sclust \in Clusters /\ h.clust \in Clusters /\ h \in HandleRecs
<1>1. h \in HandleRecs /\ h.file \in Files /\ h.sclust \in Clusters /\ h.clust \in Clusters
  BY DEF HandleOK, HandleRecs
<1>2. v.entry[h.file].clust = h.sclust /\ EntryOK(v, v.entry[h.file])
  BY <1>1 DEF HandleOK, VolOK
<1>3. v.entry[h.file] # Absent
  BY <1>1, <1>2, Constants DEF Absent
<1> QED
  BY <1>1, <1>2, <1>3 DEF EntryOK

(* The handle's cluster is at position q of its chain. *)
Stands(v, h, q) == q \in 0 .. Last /\ ChainOf(v, h.sclust)[q] = h.clust

LEMMA GrowsStands ==
  ASSUME NEW v \in Vols, NEW u \in Vols, Grows(v, u), NEW h \in HandleRecs, NEW q,
         Stands(v, h, q)
  PROVE  Stands(u, h, q)
<1>1. h.sclust \in {0} \cup Clusters /\ h.clust # 0
  BY Constants DEF HandleRecs
<1> QED
  BY <1>1, GrowsChain DEF Stands

(* The next cluster of the chain. *)
LEMMA MoveOn ==
  ASSUME NEW v, VolOK(v), NEW h, HandleOK(v, h), NEW q \in Int, Reaches(v, h, q),
         NEW c \in Clusters, v.fat[h.clust] = c, NEW g, g = [h EXCEPT !.clust = c]
  PROVE  HandleOK(v, g) /\ Reaches(v, g, q + 1) /\ (Stands(v, h, q) => Stands(v, g, q + 1))
<1>0. /\ Starts(v, h.sclust) /\ h.sclust \in Clusters /\ h.clust \in Clusters /\ h \in HandleRecs
      /\ v \in Vols /\ FatSound(v)
  BY HandleStarts DEF VolOK
<1>1. /\ g \in HandleRecs /\ g.sclust = h.sclust /\ g.clust = c /\ g.offset = h.offset
      /\ g.file = h.file /\ g.size = h.size
  BY <1>0 DEF HandleRecs
<1>2. ASSUME NEW r \in Int, Reaches(v, h, r) PROVE Reaches(v, g, r + 1)
  <2> DEFINE p == ChainOf(v, h.sclust)
  <2>1. PICK k \in 0 .. Last : p[k] = h.clust /\ r <= k
    BY <1>2 DEF Reaches
  <2>2. k < Last /\ p[k + 1] = v.fat[p[k]]
    BY <1>0, <2>1, ChainClosed
  <2>3. k + 1 \in 0 .. Last /\ r + 1 <= k + 1
    BY <2>1, <2>2, Constants
  <2>4. p[k + 1] = g.clust
    BY <1>1, <2>1, <2>2
  <2> QED
    BY <1>1, <2>3, <2>4 DEF Reaches
<1>3. ASSUME NEW r \in Int, Reaches(v, g, r + 1) PROVE Reaches(v, g, r)
  BY <1>3, Constants DEF Reaches
<1>4. h.offset \div CLUST_SIZE \in Int
  BY <1>0, Constants, Quotient DEF HandleRecs
<1>5. Reaches(v, g, g.offset \div CLUST_SIZE)
  <2> DEFINE r == h.offset \div CLUST_SIZE
  <2>1. r \in Int /\ Reaches(v, h, r) /\ g.offset \div CLUST_SIZE = r
    BY <1>1, <1>4 DEF HandleOK
  <2> HIDE DEF r
  <2> QED
    BY <1>2, <1>3, <2>1
<1>6. ASSUME Stands(v, h, q) PROVE Stands(v, g, q + 1)
  <2>1. q < Last /\ ChainOf(v, h.sclust)[q + 1] = v.fat[ChainOf(v, h.sclust)[q]]
    BY <1>0, <1>6, ChainClosed DEF Stands
  <2>2. q + 1 \in 0 .. Last
    BY <1>6, <2>1, Constants DEF Stands
  <2> QED
    BY <1>1, <1>6, <2>1, <2>2 DEF Stands
<1> QED
  BY <1>1, <1>2, <1>5, <1>6 DEF HandleOK

(* Calls that went i clusters on from the call w, which was at q. *)
OnTheWay(w, q, i) ==
  {x \in Calls : /\ VolOK(x.v) /\ Grows(w.v, x.v) /\ HandleOK(x.v, x.h)
                 /\ x.h = [w.h EXCEPT !.clust = x.h.clust]
                 /\ SameButFat(w.v, x.v) /\ x.data = w.data /\ x.err \in Met
                 /\ x.err = "NONE" => Reaches(x.v, x.h, q + i)
                 /\ x.err = "NONE" /\ Stands(w.v, w.h, q) => Stands(x.v, x.h, q + i)}

LEMMA FollowStep ==
  ASSUME NEW w \in Calls, NEW q \in Int, NEW i \in Int,
         NEW y \in OnTheWay(w, q, i), y.err = "NONE", NEW x \in Follow(y)
  PROVE  x \in OnTheWay(w, q, i + 1)
<1> DEFINE next == y.v.fat[y.h.clust]
<1>0. /\ y \in Calls /\ VolOK(y.v) /\ Grows(w.v, y.v) /\ HandleOK(y.v, y.h)
      /\ y.h = [w.h EXCEPT !.clust = y.h.clust] /\ Reaches(y.v, y.h, q + i)
      /\ SameButFat(w.v, y.v) /\ y.data = w.data
      /\ Stands(w.v, w.h, q) => Stands(y.v, y.h, q + i)
  BY DEF OnTheWay
<1>1. /\ y.v \in Vols /\ y.h \in HandleRecs /\ w.v \in Vols /\ y.h.clust \in Clusters
      /\ w.h \in HandleRecs
      /\ y = [v |-> y.v, h |-> y.h, err |-> y.err, data |-> y.data] /\ y.data \in Seq(Byte)
  BY <1>0, HandleStarts DEF Calls
<1>2. ASSUME NEW e \in Met \ {"NONE"}, x = [y EXCEPT !.err = e] PROVE x \in OnTheWay(w, q, i + 1)
  <2>1. x \in Calls /\ x.v = y.v /\ x.h = y.h /\ x.err = e /\ x.data = y.data
    BY <1>0, <1>2 DEF Calls, Met
  <2> QED
    BY <1>0, <2>1 DEF OnTheWay
<1>e. "IO" \in Met \ {"NONE"} /\ "BROKEN" \in Met \ {"NONE"} /\ "NONE" \in Met
  BY DEF Errs, Met
<1>f. ASSUME NEW g, NEW c, g = [y.h EXCEPT !.clust = c] PROVE g = [w.h EXCEPT !.clust = g.clust]
  BY <1>0, <1>1, <1>f DEF HandleRecs
<1>g. (q + i) + 1 = q + (i + 1) /\ q + i \in Int
  OBVIOUS
<1>3. CASE x \in Fault(y)
  <2>1. x = [y EXCEPT !.err = "IO"]
    BY <1>3 DEF Fault, Failed
  <2> QED
    BY <1>2, <1>e, <2>1
<1>4. CASE next = FREE /\ x \notin Fault(y)
  <2>1. x = [y EXCEPT !.err = "BROKEN"]
    BY <1>4, Constants DEF Follow, Failed
  <2> QED
    BY <1>2, <1>e, <2>1
<1>5. CASE next = EOC /\ x \notin Fault(y)
  <2>1. x \in stretch_chain(y, y.h.clust)
    BY <1>5, Constants DEF Follow
  <2>2. Stretched(y, y.h.clust, x)
    <3>1. y \in CallsOf(HandleRecs)
      BY <1>0 DEF Calls, CallsOf
    <3> QED
      BY <1>0, <1>1, <1>5, <2>1, <3>1, Stretch
  <2>3. /\ VolOK(x.v) /\ Grows(y.v, x.v) /\ x.data = y.data /\ x.err \in Errs /\ x.err \in Met
        /\ SameButFat(y.v, x.v)
        /\ x = [v |-> x.v, h |-> x.h, err |-> x.err, data |-> x.data]
    BY <2>2 DEF Stretched, Met
  <2>4. x.v \in Vols
    BY <2>3 DEF VolOK
  <2>5. Grows(w.v, x.v) /\ HandleOK(x.v, y.h) /\ Reaches(x.v, y.h, q + i)
    BY <1>0, <1>1, <1>g, <2>3, <2>4, GrowsTrans, GrowsHandle, GrowsReaches
  <2>a. SameButFat(w.v, x.v) /\ x.data = w.data
    BY <1>0, <2>3, SameTrans
  <2>b. Stands(w.v, w.h, q) => Stands(x.v, y.h, q + i)
    BY <1>0, <1>1, <2>3, <2>4, GrowsStands
  <2>6. CASE x.err # "NONE"
    <3>1. x.h = y.h
      BY <2>2, <2>6 DEF Stretched
    <3>2. x \in Calls
      BY <1>1, <2>3, <2>4, <3>1 DEF Calls
    <3> QED
      BY <1>0, <2>3, <2>5, <2>6, <2>a, <3>1, <3>2 DEF OnTheWay
  <2>7. CASE x.err = "NONE"
    <3>1. PICK c \in Clusters : x.h = [y.h EXCEPT !.clust = c] /\ x.v.fat[y.h.clust] = c
      BY <1>1, <2>2, <2>7, Constants DEF Stretched
    <3>2. /\ HandleOK(x.v, x.h) /\ Reaches(x.v, x.h, q + (i + 1))
          /\ Stands(w.v, w.h, q) => Stands(x.v, x.h, q + (i + 1))
      BY <1>g, <2>3, <2>5, <2>b, <3>1, MoveOn
    <3>3. x \in Calls
      BY <1>1, <2>3, <2>4, <3>2 DEF Calls, HandleOK
    <3>4. x.h = [w.h EXCEPT !.clust = x.h.clust]
      BY <1>f, <3>1
    <3> QED
      BY <2>3, <2>5, <2>a, <3>2, <3>3, <3>4 DEF OnTheWay
  <2> QED
    BY <2>6, <2>7
<1>6. CASE next # FREE /\ next # EOC /\ x \notin Fault(y)
  <2>1. x = [y EXCEPT !.h.clust = next]
    BY <1>6 DEF Follow
  <2>2. next \in Clusters
    BY <1>1, <1>6 DEF Vols
  <2> HIDE DEF next
  <2>3. /\ x.v = y.v /\ x.h = [y.h EXCEPT !.clust = next] /\ x.err = y.err /\ x.data = y.data
        /\ x = [v |-> x.v, h |-> x.h, err |-> x.err, data |-> x.data]
    BY <1>1, <2>1
  <2>4. /\ HandleOK(x.v, x.h) /\ Reaches(x.v, x.h, q + (i + 1))
        /\ Stands(w.v, w.h, q) => Stands(x.v, x.h, q + (i + 1))
    BY <1>0, <1>g, <2>2, <2>3, MoveOn DEF next
  <2>5. x \in Calls
    BY <1>0, <1>1, <2>3, <2>4 DEF Calls, HandleOK
  <2>6. x.h = [w.h EXCEPT !.clust = x.h.clust]
    BY <1>f, <2>3
  <2> QED
    BY <1>0, <1>e, <2>3, <2>4, <2>5, <2>6 DEF OnTheWay
<1> QED
  BY <1>3, <1>4, <1>5, <1>6

(* Repeat, for each of the three steps that are repeated. *)
LEMMA RepeatFollow ==
  ASSUME NEW w, NEW n \in Nat, NEW W, w \in W[0],
         \A i \in 1 .. n : \A y \in W[i - 1] :
           IF y.err = "NONE" THEN Follow(y) \subseteq W[i] ELSE y \in W[i]
  PROVE  Repeat(w, n, Follow) \subseteq W[n]
<1> DEFINE F(S) == UNION {IF y.err = "NONE" THEN Follow(y) ELSE {y} : y \in S}
           Eq(g, k) == g = [i \in 0 .. k |-> IF i = 0 THEN {w} ELSE F(g[i - 1])]
           S == {k \in 0 .. n : \E g : Eq(g, k)}
           at == CHOOSE g : Eq(g, n)
<1>1. Repeat(w, n, Follow) = at[n]
  BY DEF Repeat, Then
<1> HIDE DEF F
<1>2. 0 \in S
  <2> DEFINE h == [i \in 0 .. 0 |-> {w}]
  <2>1. \A i \in 0 .. 0 : i = 0
    OBVIOUS
  <2>2. h = [i \in 0 .. 0 |-> IF i = 0 THEN {w} ELSE F(h[i - 1])]
    BY <2>1
  <2>3. Eq(h, 0) /\ 0 \in 0 .. n
    BY <2>2
  <2> HIDE DEF h, Eq
  <2> QED
    BY <2>3
<1>3. ASSUME NEW k \in 1 .. n, k - 1 \in S PROVE k \in S
  <2>1. PICK g : Eq(g, k - 1)
    BY <1>3
  <2> DEFINE h == [i \in 0 .. k |-> IF i = k THEN F(g[k - 1]) ELSE g[i]]
  <2>2. ASSUME NEW i \in 0 .. k PROVE h[i] = IF i = 0 THEN {w} ELSE F(h[i - 1])
    <3>1. CASE i = k
      <4>1. k - 1 \in 0 .. k /\ k - 1 # k /\ k # 0
        OBVIOUS
      <4> QED
        BY <3>1, <4>1
    <3>2. CASE i # k
      <4>1. i \in 0 .. k - 1 /\ (i # 0 => i - 1 \in 0 .. k /\ i - 1 # k)
        BY <3>2
      <4>2. g[i] = IF i = 0 THEN {w} ELSE F(g[i - 1])
        BY <2>1, <4>1
      <4> QED
        BY <3>2, <4>1, <4>2
    <3> QED
      BY <3>1, <3>2
  <2>3. Eq(h, k)
    <3>1. h = [i \in 0 .. k |-> h[i]]
      OBVIOUS
    <3> HIDE DEF h
    <3> QED
      BY <2>2, <3>1
  <2> HIDE DEF h, Eq
  <2> QED
    BY <2>3
<1>4. n \in S
  <2> HIDE DEF S
  <2>1. \A i \in 0 .. n : i \in S
    BY <1>2, <1>3, UpTo
  <2> QED
    BY <2>1
<1>5. Eq(at, n)
  <2>1. \E g : Eq(g, n)
    BY <1>4
  <2> HIDE DEF Eq
  <2> QED
    BY <2>1
<1> HIDE DEF at
<1>6. at[0] = {w} /\ \A i \in 1 .. n : at[i] = F(at[i - 1])
  <2>1. at = [i \in 0 .. n |-> IF i = 0 THEN {w} ELSE F(at[i - 1])]
    BY <1>5
  <2>2. ASSUME NEW i \in 0 .. n PROVE at[i] = IF i = 0 THEN {w} ELSE F(at[i - 1])
    BY <2>1, Zenon
  <2>3. 0 \in 0 .. n /\ \A i \in 1 .. n : i \in 0 .. n /\ i # 0
    OBVIOUS
  <2> QED
    BY <2>2, <2>3
<1>7. n \in {k \in 0 .. n : at[k] \subseteq W[k]}
  <2> DEFINE T == {k \in 0 .. n : at[k] \subseteq W[k]}
  <2>1. 0 \in T
    BY <1>6
  <2>2. ASSUME NEW k \in 1 .. n, k - 1 \in T PROVE k \in T
    <3>1. at[k - 1] \subseteq W[k - 1] /\ at[k] = F(at[k - 1])
      BY <1>6, <2>2
    <3>2. ASSUME NEW x \in at[k] PROVE x \in W[k]
      <4>1. PICK y \in at[k - 1] : x \in IF y.err = "NONE" THEN Follow(y) ELSE {y}
        BY <3>1, <3>2 DEF F
      <4>2. y \in W[k - 1]
        BY <3>1
      <4> QED
        BY <4>1, <4>2
    <3> QED
      BY <3>2
  <2> HIDE DEF T
  <2>3. \A k \in 0 .. n : k \in T
    BY <2>1, <2>2, UpTo
  <2> QED
    BY <2>3 DEF T
<1> QED
  BY <1>1, <1>7

LEMMA HandleSame ==
  ASSUME NEW v, NEW h, HandleOK(v, h), NEW g \in HandleRecs, g.file = h.file,
         g.sclust = h.sclust, g.clust = h.clust, g.offset = h.offset, g.size = h.size
  PROVE  HandleOK(v, g)
BY DEF HandleOK, Reaches

(* A call in a state that is sound. *)
Fine(w) == w \in Calls /\ VolOK(w.v) /\ HandleOK(w.v, w.h)

(* From one to the next: the chains grow, the handle keeps file and sector.*)
Still(w, x) ==
  Fine(x) /\ Grows(w.v, x.v) /\ x.h.sclust = w.h.sclust /\ x.h.sect = w.h.sect

LEMMA StillRefl ==
  ASSUME NEW w, Fine(w)
  PROVE  Still(w, w)
BY GrowsRefl DEF Still

LEMMA StillTrans ==
  ASSUME NEW w, Fine(w), NEW y, NEW x, Still(w, y), Still(y, x)
  PROVE  Still(w, x)
<1>1. w.v \in Vols /\ y.v \in Vols /\ x.v \in Vols
  BY DEF Fine, Still, Calls
<1> QED
  BY <1>1, GrowsTrans DEF Still

LEMMA StillErr ==
  ASSUME NEW w, Fine(w), NEW e \in Errs, NEW x, x = [w EXCEPT !.err = e]
  PROVE  Still(w, x) /\ x.err = e
<1>1. x \in Calls /\ x.v = w.v /\ x.h = w.h /\ x.err = e
  BY DEF Fine, Calls
<1> QED
  BY <1>1, GrowsRefl DEF Still, Fine

LEMMA StillFault ==
  ASSUME NEW w, Fine(w), NEW x \in Fault(w)
  PROVE  Still(w, x) /\ x.err = "IO"
<1>1. x = [w EXCEPT !.err = "IO"] /\ "IO" \in Errs
  BY DEF Fault, Failed, Errs
<1> QED
  BY <1>1, StillErr

(* Another buffer or flag, and other data. *)
SamePlace(g, h) ==
  /\ g \in HandleRecs /\ g.file = h.file /\ g.sclust = h.sclust /\ g.clust = h.clust
  /\ g.offset = h.offset /\ g.size = h.size /\ g.sect = h.sect

LEMMA StillData ==
  ASSUME NEW w, Fine(w), NEW x, NEW d \in [Sectors -> Sector], NEW g, SamePlace(g, w.h),
         x = [w EXCEPT !.v = [w.v EXCEPT !.data = d], !.h = g]
  PROVE  Still(w, x) /\ x.err = w.err
<1>1. w \in Calls /\ w.v \in Vols /\ g \in HandleRecs
  BY DEF Fine, Calls, SamePlace
<1> DEFINE u == [w.v EXCEPT !.data = d]
<1>2. u \in Vols /\ u.fat = w.v.fat /\ u.entry = w.v.entry /\ u.dentry = w.v.dentry
  BY <1>1 DEF Vols
<1> HIDE DEF u
<1>4. x = [w EXCEPT !.v = u, !.h = g]
  BY DEF u
<1>5. x \in Calls /\ x.v = u /\ x.h = g /\ x.err = w.err
  BY <1>1, <1>2, <1>4 DEF Calls
<1>6. VolOK(u) /\ Grows(w.v, u)
  BY <1>2, SameFat DEF Fine
<1>7. HandleOK(w.v, g)
  BY HandleSame DEF Fine, SamePlace
<1>8. HandleOK(u, g)
  BY <1>1, <1>2, <1>6, <1>7, GrowsHandle
<1> QED
  BY <1>5, <1>6, <1>8 DEF Still, Fine, SamePlace

LEMMA LoadStep ==
  ASSUME NEW w, Fine(w), w.h.sect \in Sectors, NEW x, x = [w EXCEPT !.h.buf = w.v.data[w.h.sect]]
  PROVE  Still(w, x) /\ x.err = w.err
<1> DEFINE d == w.v.data
           g == [w.h EXCEPT !.buf = w.v.data[w.h.sect]]
<1>1. d \in [Sectors -> Sector] /\ w.v.data[w.h.sect] \in Sector
  BY DEF Fine, Calls, Vols
<1>2. SamePlace(g, w.h)
  BY <1>1 DEF Fine, Calls, HandleRecs, SamePlace
<1>3. x = [w EXCEPT !.v = [w.v EXCEPT !.data = d], !.h = g]
  BY DEF Fine, Calls, Vols, HandleRecs
<1> HIDE DEF d, g
<1> QED
  BY <1>1, <1>2, <1>3, StillData

LEMMA SaveStep ==
  ASSUME NEW w, Fine(w), NEW s, NEW x,
         \/ x = [w EXCEPT !.v.data[s] = w.h.buf, !.h.dirty = FALSE]
         \/ x = [w EXCEPT !.v.data[s] = w.h.buf]
  PROVE  Still(w, x) /\ x.err = w.err
<1> DEFINE d == [w.v.data EXCEPT ![s] = w.h.buf]
<1>1. d \in [Sectors -> Sector]
  BY DEF Fine, Calls, Vols, HandleRecs
<1>2. SamePlace(w.h, w.h) /\ SamePlace([w.h EXCEPT !.dirty = FALSE], w.h)
  BY DEF Fine, Calls, HandleRecs, SamePlace
<1>3. \/ x = [w EXCEPT !.v = [w.v EXCEPT !.data = d], !.h = w.h]
      \/ x = [w EXCEPT !.v = [w.v EXCEPT !.data = d], !.h = [w.h EXCEPT !.dirty = FALSE]]
  <2>0. w = [v |-> w.v, h |-> w.h, err |-> w.err, data |-> w.data]
    BY DEF Fine, Calls
  <2>1. CASE x = [w EXCEPT !.v.data[s] = w.h.buf, !.h.dirty = FALSE]
    BY <2>0, <2>1
  <2>2. CASE x = [w EXCEPT !.v.data[s] = w.h.buf]
    BY <2>0, <2>2
  <2> QED
    BY <2>1, <2>2
<1>4. PICK g : SamePlace(g, w.h) /\ x = [w EXCEPT !.v = [w.v EXCEPT !.data = d], !.h = g]
  <2> HIDE DEF d
  <2> QED
    BY <1>2, <1>3
<1> HIDE DEF d
<1> QED
  BY <1>1, <1>4, StillData

LEMMA ReloadStep ==
  ASSUME NEW w, Fine(w), w.err = "NONE", w.h.sect \in Sectors, NEW ssect, NEW x \in Reload(w, ssect)
  PROVE  Still(w, x)
<1> DEFINE load(y) == {[y EXCEPT !.h.buf = y.v.data[y.h.sect]]} \cup Fault(y)
           save(y) == {[y EXCEPT !.v.data[ssect] = y.h.buf, !.h.dirty = FALSE]} \cup Fault(y)
<1>1. ASSUME NEW y, Fine(y), y.h.sect \in Sectors, NEW z \in load(y) PROVE Still(y, z)
  BY <1>1, StillFault, LoadStep
<1>2. ASSUME NEW z \in save(w) PROVE Still(w, z)
  BY <1>2, StillFault, SaveStep
<1>3. \/ x = w
      \/ x \in load(w)
      \/ \E y \in save(w) : x \in IF y.err = "NONE" THEN load(y) ELSE {y}
  BY DEF Reload, Then
<1> HIDE DEF load, save
<1>4. CASE x = w
  BY <1>4, StillRefl
<1>5. CASE x \in load(w)
  BY <1>1, <1>5
<1>6. ASSUME NEW y \in save(w), x \in IF y.err = "NONE" THEN load(y) ELSE {y} PROVE Still(w, x)
  <2>1. Still(w, y) /\ Fine(y) /\ y.h.sect \in Sectors
    BY <1>2 DEF Still
  <2>2. Still(y, x)
    BY <1>1, <1>6, <2>1, StillRefl
  <2> QED
    BY <2>1, <2>2, StillTrans
<1> QED
  BY <1>3, <1>4, <1>5, <1>6

LEMMA SectorOf ==
  ASSUME NEW c \in Clusters, NEW r \in 0 .. SPC - 1
  PROVE  /\ clust_to_sect(c) + r \in Nat /\ clust_to_sect(c) + r \in Sectors
         /\ (clust_to_sect(c) + r) \div SPC + 2 = c
<1> DEFINE q == c - 2
<1>1. q \in Nat /\ q + 1 <= CLUST_CNT - 2 /\ q + 2 = c /\ CLUST_CNT - 2 \in Nat
  BY FileAssumption DEF Clusters
<1>2. SPC \in Nat /\ SPC > 0
  BY FileAssumption
<1>3. clust_to_sect(c) = q * SPC /\ clust_to_sect(CLUST_CNT) = (CLUST_CNT - 2) * SPC
  BY DEF clust_to_sect
<1> HIDE DEF q
<1>4. (q * SPC + r) \div SPC = q
  BY <1>1, <1>2, QuotientOf
<1>5. q * SPC \in Nat /\ (q + 1) * SPC <= (CLUST_CNT - 2) * SPC /\ (q + 1) * SPC = q * SPC + SPC
  BY <1>1, <1>2
<1>6. q * SPC + r \in Nat /\ q * SPC + r <= (CLUST_CNT - 2) * SPC - 1
  BY <1>1, <1>2, <1>5
<1> QED
  BY <1>1, <1>3, <1>4, <1>6 DEF Sectors

LEMMA ReachesMember ==
  ASSUME NEW v, NEW h \in HandleRecs, NEW q, Reaches(v, h, q)
  PROVE  h.clust \in Chain(v, h.sclust)
<1>1. PICK k \in 0 .. Last : ChainOf(v, h.sclust)[k] = h.clust
  BY DEF Reaches
<1>2. h.sclust \in {0} \cup Clusters /\ h.clust # 0
  BY Constants DEF HandleRecs
<1> QED
  BY <1>1, <1>2, ChainMembers

(* What a call of fat_file_seek leaves. *)
Sought(w, x) ==
  /\ Fine(x) /\ Grows(w.v, x.v)
  /\ Placed(w.v, w.h) \/ x.err = "NONE" => Placed(x.v, x.h)

LEMMA StillPlaced ==
  ASSUME NEW w, Fine(w), NEW x, Still(w, x), Placed(w.v, w.h)
  PROVE  Placed(x.v, x.h)
<1>1. w.v \in Vols /\ x.v \in Vols /\ w.h.sclust \in {0} \cup Clusters
  BY DEF Fine, Still, Calls, HandleRecs
<1>2. Chain(w.v, w.h.sclust) \subseteq Chain(x.v, w.h.sclust)
  BY <1>1, GrowsChain DEF Still
<1> QED
  BY <1>2 DEF Placed, Still

IsMoved(g, h, c, s, o) ==
  /\ g \in HandleRecs /\ g.file = h.file /\ g.sclust = h.sclust /\ g.clust = c
  /\ g.size = h.size /\ g.offset = o /\ g.sect = s

LEMMA HandleAt ==
  ASSUME NEW h \in HandleRecs, NEW c \in Clusters, NEW s \in Nat, NEW o \in Nat
  PROVE  IsMoved([h EXCEPT !.clust = c, !.sect = s, !.offset = o], h, c, s, o)
<1> DEFINE g == [h EXCEPT !.clust = c, !.sect = s, !.offset = o]
<1>1. [h EXCEPT !.clust = c] \in HandleRecs
  BY DEF HandleRecs
<1> DEFINE a == [h EXCEPT !.clust = c]
           b == [a EXCEPT !.sect = s]
<1>2. a \in HandleRecs /\ a.file = h.file /\ a.sclust = h.sclust /\ a.clust = c /\ a.size = h.size
  BY DEF HandleRecs
<1>3. g = [b EXCEPT !.offset = o]
  BY DEF HandleRecs
<1> HIDE DEF a
<1>4. /\ b \in HandleRecs /\ b.file = h.file /\ b.sclust = h.sclust /\ b.clust = c
      /\ b.size = h.size /\ b.sect = s
  BY <1>2 DEF HandleRecs
<1> HIDE DEF b, g
<1> QED
  BY <1>3, <1>4 DEF HandleRecs, IsMoved, g

(* The handle at its first cluster again. *)
LEMMA SeekBack ==
  ASSUME NEW w, Fine(w), NEW b,
         b = [w EXCEPT !.h.clust = w.h.sclust, !.h.sect = clust_to_sect(w.h.sclust), !.h.offset = 0]
  PROVE  /\ Fine(b) /\ b.v = w.v /\ b.err = w.err
         /\ Placed(b.v, b.h) /\ Reaches(b.v, b.h, 0)
<1> DEFINE c == w.h.sclust
           g == [w.h EXCEPT !.clust = c, !.sect = clust_to_sect(c), !.offset = 0]
<1>1. w \in Calls /\ w.v \in Vols /\ w.h \in HandleRecs /\ c \in Clusters /\ c \in {0} \cup Clusters
  BY DEF Fine, Calls, HandleRecs
<1>2. 0 \in 0 .. SPC - 1
  BY Constants
<1>3. /\ clust_to_sect(c) \in Nat /\ clust_to_sect(c) \div SPC + 2 = c
  <2>1. clust_to_sect(c) \in Int /\ clust_to_sect(c) + 0 = clust_to_sect(c)
    BY <1>1, Constants DEF clust_to_sect
  <2> QED
    BY <1>1, <1>2, <2>1, SectorOf
<1>4. /\ g \in HandleRecs /\ g.file = w.h.file /\ g.sclust = c /\ g.clust = c /\ g.size = w.h.size
      /\ g.offset = 0 /\ g.sect = clust_to_sect(c)
  <2>1. 0 \in Nat
    OBVIOUS
  <2>2. IsMoved([w.h EXCEPT !.clust = c, !.sect = clust_to_sect(c), !.offset = 0], w.h, c, clust_to_sect(c), 0)
    <3> HIDE DEF c
    <3> QED
      BY <1>1, <1>3, <2>1, HandleAt, Zenon
  <2> QED
    BY <2>2 DEF IsMoved
<1>5. b.v = w.v /\ b.h = g /\ b.err = w.err /\ b \in Calls
  BY <1>1, <1>4 DEF Calls
<1>6. c \in Chain(w.v, c) /\ ChainOf(w.v, c)[0] = c
  BY <1>1, ChainMembers, ChainSteps, Constants
<1> HIDE DEF c, g
<1>7. Reaches(w.v, g, 0)
  BY <1>4, <1>6, Constants DEF Reaches
<1>8. 0 \div CLUST_SIZE = 0
  BY Constants
<1>9. HandleOK(w.v, g)
  BY <1>4, <1>7, <1>8 DEF HandleOK, Fine, c
<1>10. Placed(w.v, g)
  BY <1>3, <1>4, <1>6 DEF Placed
<1> QED
  BY <1>5, <1>7, <1>9, <1>10 DEF Fine

(* The handle at the sector of its cluster that holds the new offset. *)
LEMMA SeekArrives ==
  ASSUME NEW y, Fine(y), NEW off \in Nat, Reaches(y.v, y.h, off \div CLUST_SIZE), NEW z,
         z = [y EXCEPT !.h.sect = clust_to_sect(y.h.clust) + ((off \div SECT) % SPC), !.h.offset = off]
  PROVE  Fine(z) /\ z.v = y.v /\ z.err = y.err /\ Placed(z.v, z.h) /\ z.h.sect \in Sectors
<1> DEFINE c == y.h.clust
           r == (off \div SECT) % SPC
           s == clust_to_sect(c) + r
           g == [y.h EXCEPT !.sect = s, !.offset = off]
<1>1. y \in Calls /\ y.v \in Vols /\ y.h \in HandleRecs /\ c \in Clusters
  BY DEF Fine, Calls, HandleRecs
<1>2. r \in 0 .. SPC - 1
  <2>1. off \div SECT \in Nat
    BY Constants, Quotient
  <2> QED
    BY <2>1, Constants, Quotient
<1>3. s \in Nat /\ s \in Sectors /\ s \div SPC + 2 = c
  <2> HIDE DEF r, c
  <2> QED
    BY <1>1, <1>2, SectorOf
<1>a. z = [y EXCEPT !.h = g]
  BY <1>1 DEF Calls, HandleRecs
<1> HIDE DEF s
<1>4. /\ g \in HandleRecs /\ g.file = y.h.file /\ g.sclust = y.h.sclust /\ g.clust = c
      /\ g.size = y.h.size /\ g.offset = off /\ g.sect = s
  <2>1. g = [y.h EXCEPT !.clust = c, !.sect = s, !.offset = off]
    BY <1>1 DEF HandleRecs
  <2> HIDE DEF g, c
  <2>2. IsMoved([y.h EXCEPT !.clust = c, !.sect = s, !.offset = off], y.h, c, s, off)
    BY <1>1, <1>3, HandleAt, Zenon
  <2> QED
    BY <2>1, <2>2 DEF IsMoved
<1>5. z.v = y.v /\ z.h = g /\ z.err = y.err /\ z \in Calls
  BY <1>1, <1>4, <1>a DEF Calls
<1>6. c \in Chain(y.v, y.h.sclust)
  BY <1>1, ReachesMember
<1> HIDE DEF c, g
<1>7. Reaches(y.v, g, off \div CLUST_SIZE)
  BY <1>4 DEF Reaches, c
<1>9. HandleOK(y.v, g)
  BY <1>4, <1>7 DEF HandleOK, Fine
<1>10. Placed(y.v, g)
  BY <1>3, <1>4, <1>6 DEF Placed
<1> QED
  BY <1>3, <1>4, <1>5, <1>9, <1>10 DEF Fine

(* From a start at position q or later, n clusters on. *)
LEMMA SeekWalk ==
  ASSUME NEW z, Fine(z), z.err = "NONE", NEW q \in Nat, NEW n \in Nat, Reaches(z.v, z.h, q)
  PROVE  Repeat(z, n, Follow) \subseteq OnTheWay(z, q, n)
<1> DEFINE W == [i \in 0 .. n |-> OnTheWay(z, q, i)]
<1>1. z \in OnTheWay(z, q, 0)
  <2>1. z \in Calls /\ z.h \in HandleRecs /\ q + 0 = q
    BY DEF Fine, Calls
  <2>2. z.h = [z.h EXCEPT !.clust = z.h.clust]
    BY <2>1 DEF HandleRecs
  <2>3. z.err \in Met
    BY DEF Met, Errs
  <2> QED
    BY <2>1, <2>2, <2>3, GrowsRefl DEF OnTheWay, Fine, SameButFat
<1>2. z \in W[0] /\ W[n] = OnTheWay(z, q, n)
  BY <1>1
<1>3. ASSUME NEW i \in 1 .. n, NEW y \in W[i - 1]
      PROVE  IF y.err = "NONE" THEN Follow(y) \subseteq W[i] ELSE y \in W[i]
  <2>1. y \in OnTheWay(z, q, i - 1) /\ W[i] = OnTheWay(z, q, i) /\ i - 1 \in Int /\ (i - 1) + 1 = i
    BY <1>3
  <2>2. z \in Calls
    BY DEF Fine
  <2> HIDE DEF W
  <2>3. CASE y.err = "NONE"
    BY <2>1, <2>2, <2>3, FollowStep
  <2>4. CASE y.err # "NONE"
    BY <2>1, <2>4 DEF OnTheWay
  <2> QED
    BY <2>3, <2>4
<1> HIDE DEF W
<1>4. Repeat(z, n, Follow) \subseteq W[n]
  BY <1>2, <1>3, RepeatFollow
<1> QED
  BY <1>2, <1>4

LEMMA WayFine ==
  ASSUME NEW z, Fine(z), NEW q, NEW n, NEW y \in OnTheWay(z, q, n)
  PROVE  Still(z, y)
<1>1. y \in Calls /\ VolOK(y.v) /\ Grows(z.v, y.v) /\ HandleOK(y.v, y.h)
  BY DEF OnTheWay
<1>2. y.h.sclust = z.h.sclust /\ y.h.sect = z.h.sect
  <2> DEFINE c == y.h.clust
  <2>1. y.h = [z.h EXCEPT !.clust = c] /\ z.h \in HandleRecs
    BY DEF OnTheWay, Fine, Calls
  <2> HIDE DEF c
  <2> QED
    BY <2>1 DEF HandleRecs
<1> QED
  BY <1>1, <1>2 DEF Still, Fine

LEMMA SeekStep ==
  ASSUME NEW w, Fine(w), w.err = "NONE", NEW off \in Int, NEW x \in fat_file_seek(w, off)
  PROVE  Sought(w, x)
<1> DEFINE dst == off \div CLUST_SIZE
           src == w.h.offset \div CLUST_SIZE
           back == [w EXCEPT !.h.clust = w.h.sclust, !.h.sect = clust_to_sect(w.h.sclust), !.h.offset = 0]
           at(y) == [y EXCEPT !.h.sect = clust_to_sect(y.h.clust) + ((off \div SECT) % SPC),
                              !.h.offset = off]
<1>1. CASE off < 0 \/ off > MAX_OFFSET
  <2>1. x = [w EXCEPT !.err = "EOF"] /\ "EOF" \in Errs
    BY <1>1 DEF fat_file_seek, Failed, Errs
  <2>2. Still(w, x) /\ x.err = "EOF"
    BY <2>1, StillErr
  <2> QED
    BY <2>2, StillPlaced DEF Sought, Still
<1>2. CASE ~(off < 0 \/ off > MAX_OFFSET)
  <2>1. off \in Nat
    BY <1>2, FileAssumption
  <2>2. dst \in Nat /\ src \in Nat
    BY <2>1, Constants, Quotient DEF Fine, Calls, HandleRecs
  <2>3. Reaches(w.v, w.h, src)
    BY DEF Fine, HandleOK
  <2>4. /\ Fine(back) /\ back.v = w.v /\ back.err = "NONE"
        /\ Placed(back.v, back.h) /\ Reaches(back.v, back.h, 0)
    BY SeekBack
  <2>5. ASSUME NEW z, Fine(z), z.v = w.v, Placed(w.v, w.h) => Placed(z.v, z.h),
               NEW q \in Nat, NEW n \in Nat, q + n = dst,
               NEW y \in OnTheWay(z, q, n), x \in IF y.err = "NONE" THEN Reload(at(y), w.h.sect) ELSE {y}
        PROVE  Sought(w, x)
    <3>1. Still(z, y) /\ Fine(y) /\ Grows(w.v, y.v)
      BY <2>5, WayFine DEF Still
    <3>2. CASE y.err # "NONE"
      <4>1. x = y
        BY <2>5, <3>2
      <4> QED
        BY <2>5, <3>1, <3>2, <4>1, StillPlaced DEF Sought
    <3>3. CASE y.err = "NONE"
      <4> DEFINE a == at(y)
      <4>1. Reaches(y.v, y.h, dst)
        BY <2>5, <3>3 DEF OnTheWay
      <4>2. Fine(a) /\ a.v = y.v /\ a.err = y.err /\ Placed(a.v, a.h) /\ a.h.sect \in Sectors
        BY <2>1, <3>1, <4>1, SeekArrives
      <4>3. x \in Reload(a, w.h.sect)
        BY <2>5, <3>3
      <4> HIDE DEF a
      <4>4. Still(a, x)
        BY <3>3, <4>2, <4>3, ReloadStep
      <4>5. Placed(x.v, x.h)
        BY <4>2, <4>4, StillPlaced
      <4>6. Grows(w.v, x.v)
        <5>1. w.v \in Vols /\ y.v \in Vols /\ x.v \in Vols /\ Grows(y.v, x.v)
          BY <3>1, <4>2, <4>4 DEF Fine, Still, Calls
        <5> QED
          BY <3>1, <5>1, GrowsTrans
      <4> QED
        BY <4>4, <4>5, <4>6 DEF Sought, Still
    <3> QED
      BY <3>2, <3>3
  <2> DEFINE Goes(R) == UNION {IF y.err = "NONE" THEN Reload(at(y), w.h.sect) ELSE {y} : y \in R}
  <2>6. CASE dst < src
    <3>1. x \in Goes(Repeat(back, dst, Follow))
      BY <1>2, <2>6 DEF fat_file_seek, Then
    <3> HIDE DEF at, back
    <3>2. PICK y \in Repeat(back, dst, Follow) : x \in IF y.err = "NONE" THEN Reload(at(y), w.h.sect) ELSE {y}
      BY <3>1
    <3> HIDE DEF dst
    <3>3. y \in OnTheWay(back, 0, dst) /\ 0 + dst = dst /\ 0 \in Nat
      BY <2>2, <2>4, SeekWalk
    <3> QED
      BY <2>2, <2>4, <2>5, <3>2, <3>3
  <2>7. CASE ~(dst < src)
    <3>1. x \in Goes(Repeat(w, dst - src, Follow))
      BY <1>2, <2>7 DEF fat_file_seek, Then
    <3> HIDE DEF at
    <3>2. PICK y \in Repeat(w, dst - src, Follow) : x \in IF y.err = "NONE" THEN Reload(at(y), w.h.sect) ELSE {y}
      BY <3>1
    <3>3. dst - src \in Nat /\ src + (dst - src) = dst
      BY <2>2, <2>7
    <3> HIDE DEF dst, src
    <3>4. y \in OnTheWay(w, src, dst - src)
      BY <2>2, <2>3, <3>3, SeekWalk
    <3> QED
      BY <2>2, <2>5, <3>2, <3>3, <3>4
  <2> QED
    BY <2>6, <2>7
<1> QED
  BY <1>1, <1>2

-----------------------------------------------------------------------------
(* fat_file_read and fat_file_write. *)

Reading(w, m, n) == Repeat(w, n, LAMBDA x : ReadTurn(m, x))

LEMMA RepeatRead ==
  ASSUME NEW m, NEW w, NEW n \in Nat, NEW W, w \in W[0],
         \A i \in 1 .. n : \A y \in W[i - 1] :
           IF y.err = "NONE" THEN ReadTurn(m, y) \subseteq W[i] ELSE y \in W[i]
  PROVE  Reading(w, m, n) \subseteq W[n]
<1> DEFINE F(S) == UNION {IF y.err = "NONE" THEN ReadTurn(m, y) ELSE {y} : y \in S}
           Eq(g, k) == g = [i \in 0 .. k |-> IF i = 0 THEN {w} ELSE F(g[i - 1])]
           S == {k \in 0 .. n : \E g : Eq(g, k)}
           at == CHOOSE g : Eq(g, n)
<1>1. Reading(w, m, n) = at[n]
  BY DEF Reading, Repeat, Then
<1> HIDE DEF F
<1>2. 0 \in S
  <2> DEFINE h == [i \in 0 .. 0 |-> {w}]
  <2>1. \A i \in 0 .. 0 : i = 0
    OBVIOUS
  <2>2. h = [i \in 0 .. 0 |-> IF i = 0 THEN {w} ELSE F(h[i - 1])]
    BY <2>1
  <2>3. Eq(h, 0) /\ 0 \in 0 .. n
    BY <2>2
  <2> HIDE DEF h, Eq
  <2> QED
    BY <2>3
<1>3. ASSUME NEW k \in 1 .. n, k - 1 \in S PROVE k \in S
  <2>1. PICK g : Eq(g, k - 1)
    BY <1>3
  <2> DEFINE h == [i \in 0 .. k |-> IF i = k THEN F(g[k - 1]) ELSE g[i]]
  <2>2. ASSUME NEW i \in 0 .. k PROVE h[i] = IF i = 0 THEN {w} ELSE F(h[i - 1])
    <3>1. CASE i = k
      <4>1. k - 1 \in 0 .. k /\ k - 1 # k /\ k # 0
        OBVIOUS
      <4> QED
        BY <3>1, <4>1
    <3>2. CASE i # k
      <4>1. i \in 0 .. k - 1 /\ (i # 0 => i - 1 \in 0 .. k /\ i - 1 # k)
        BY <3>2
      <4>2. g[i] = IF i = 0 THEN {w} ELSE F(g[i - 1])
        BY <2>1, <4>1
      <4> QED
        BY <3>2, <4>1, <4>2
    <3> QED
      BY <3>1, <3>2
  <2>3. Eq(h, k)
    <3>1. h = [i \in 0 .. k |-> h[i]]
      OBVIOUS
    <3> HIDE DEF h
    <3> QED
      BY <2>2, <3>1
  <2> HIDE DEF h, Eq
  <2> QED
    BY <2>3
<1>4. n \in S
  <2> HIDE DEF S
  <2>1. \A i \in 0 .. n : i \in S
    BY <1>2, <1>3, UpTo
  <2> QED
    BY <2>1
<1>5. Eq(at, n)
  <2>1. \E g : Eq(g, n)
    BY <1>4
  <2> HIDE DEF Eq
  <2> QED
    BY <2>1
<1> HIDE DEF at
<1>6. at[0] = {w} /\ \A i \in 1 .. n : at[i] = F(at[i - 1])
  <2>1. at = [i \in 0 .. n |-> IF i = 0 THEN {w} ELSE F(at[i - 1])]
    BY <1>5
  <2>2. ASSUME NEW i \in 0 .. n PROVE at[i] = IF i = 0 THEN {w} ELSE F(at[i - 1])
    BY <2>1, Zenon
  <2>3. 0 \in 0 .. n /\ \A i \in 1 .. n : i \in 0 .. n /\ i # 0
    OBVIOUS
  <2> QED
    BY <2>2, <2>3
<1>7. n \in {k \in 0 .. n : at[k] \subseteq W[k]}
  <2> DEFINE T == {k \in 0 .. n : at[k] \subseteq W[k]}
  <2>1. 0 \in T
    BY <1>6
  <2>2. ASSUME NEW k \in 1 .. n, k - 1 \in T PROVE k \in T
    <3>1. at[k - 1] \subseteq W[k - 1] /\ at[k] = F(at[k - 1])
      BY <1>6, <2>2
    <3>2. ASSUME NEW x \in at[k] PROVE x \in W[k]
      <4>1. PICK y \in at[k - 1] : x \in IF y.err = "NONE" THEN ReadTurn(m, y) ELSE {y}
        BY <3>1, <3>2 DEF F
      <4>2. y \in W[k - 1]
        BY <3>1
      <4> QED
        BY <4>1, <4>2
    <3> QED
      BY <3>2
  <2> HIDE DEF T
  <2>3. \A k \in 0 .. n : k \in T
    BY <2>1, <2>2, UpTo
  <2> QED
    BY <2>3 DEF T
<1> QED
  BY <1>1, <1>7

LEMMA RepeatWrite ==
  ASSUME NEW w, NEW n \in Nat, NEW W, w \in W[0],
         \A i \in 1 .. n : \A y \in W[i - 1] :
           IF y.err = "NONE" THEN WriteTurn(y) \subseteq W[i] ELSE y \in W[i]
  PROVE  Repeat(w, n, WriteTurn) \subseteq W[n]
<1> DEFINE F(S) == UNION {IF y.err = "NONE" THEN WriteTurn(y) ELSE {y} : y \in S}
           Eq(g, k) == g = [i \in 0 .. k |-> IF i = 0 THEN {w} ELSE F(g[i - 1])]
           S == {k \in 0 .. n : \E g : Eq(g, k)}
           at == CHOOSE g : Eq(g, n)
<1>1. Repeat(w, n, WriteTurn) = at[n]
  BY DEF Repeat, Then
<1> HIDE DEF F
<1>2. 0 \in S
  <2> DEFINE h == [i \in 0 .. 0 |-> {w}]
  <2>1. \A i \in 0 .. 0 : i = 0
    OBVIOUS
  <2>2. h = [i \in 0 .. 0 |-> IF i = 0 THEN {w} ELSE F(h[i - 1])]
    BY <2>1
  <2>3. Eq(h, 0) /\ 0 \in 0 .. n
    BY <2>2
  <2> HIDE DEF h, Eq
  <2> QED
    BY <2>3
<1>3. ASSUME NEW k \in 1 .. n, k - 1 \in S PROVE k \in S
  <2>1. PICK g : Eq(g, k - 1)
    BY <1>3
  <2> DEFINE h == [i \in 0 .. k |-> IF i = k THEN F(g[k - 1]) ELSE g[i]]
  <2>2. ASSUME NEW i \in 0 .. k PROVE h[i] = IF i = 0 THEN {w} ELSE F(h[i - 1])
    <3>1. CASE i = k
      <4>1. k - 1 \in 0 .. k /\ k - 1 # k /\ k # 0
        OBVIOUS
      <4> QED
        BY <3>1, <4>1
    <3>2. CASE i # k
      <4>1. i \in 0 .. k - 1 /\ (i # 0 => i - 1 \in 0 .. k /\ i - 1 # k)
        BY <3>2
      <4>2. g[i] = IF i = 0 THEN {w} ELSE F(g[i - 1])
        BY <2>1, <4>1
      <4> QED
        BY <3>2, <4>1, <4>2
    <3> QED
      BY <3>1, <3>2
  <2>3. Eq(h, k)
    <3>1. h = [i \in 0 .. k |-> h[i]]
      OBVIOUS
    <3> HIDE DEF h
    <3> QED
      BY <2>2, <3>1
  <2> HIDE DEF h, Eq
  <2> QED
    BY <2>3
<1>4. n \in S
  <2> HIDE DEF S
  <2>1. \A i \in 0 .. n : i \in S
    BY <1>2, <1>3, UpTo
  <2> QED
    BY <2>1
<1>5. Eq(at, n)
  <2>1. \E g : Eq(g, n)
    BY <1>4
  <2> HIDE DEF Eq
  <2> QED
    BY <2>1
<1> HIDE DEF at
<1>6. at[0] = {w} /\ \A i \in 1 .. n : at[i] = F(at[i - 1])
  <2>1. at = [i \in 0 .. n |-> IF i = 0 THEN {w} ELSE F(at[i - 1])]
    BY <1>5
  <2>2. ASSUME NEW i \in 0 .. n PROVE at[i] = IF i = 0 THEN {w} ELSE F(at[i - 1])
    BY <2>1, Zenon
  <2>3. 0 \in 0 .. n /\ \A i \in 1 .. n : i \in 0 .. n /\ i # 0
    OBVIOUS
  <2> QED
    BY <2>2, <2>3
<1>7. n \in {k \in 0 .. n : at[k] \subseteq W[k]}
  <2> DEFINE T == {k \in 0 .. n : at[k] \subseteq W[k]}
  <2>1. 0 \in T
    BY <1>6
  <2>2. ASSUME NEW k \in 1 .. n, k - 1 \in T PROVE k \in T
    <3>1. at[k - 1] \subseteq W[k - 1] /\ at[k] = F(at[k - 1])
      BY <1>6, <2>2
    <3>2. ASSUME NEW x \in at[k] PROVE x \in W[k]
      <4>1. PICK y \in at[k - 1] : x \in IF y.err = "NONE" THEN WriteTurn(y) ELSE {y}
        BY <3>1, <3>2 DEF F
      <4>2. y \in W[k - 1]
        BY <3>1
      <4> QED
        BY <4>1, <4>2
    <3> QED
      BY <3>2
  <2> HIDE DEF T
  <2>3. \A k \in 0 .. n : k \in T
    BY <2>1, <2>2, UpTo
  <2> QED
    BY <2>3 DEF T
<1> QED
  BY <1>1, <1>7

LEMMA StillText ==
  ASSUME NEW w, Fine(w), NEW g, SamePlace(g, w.h), NEW s \in Seq(Byte)
  PROVE  Still(w, [w EXCEPT !.h = g, !.data = s])
<1> DEFINE x == [w EXCEPT !.h = g, !.data = s]
<1>1. w \in Calls /\ w.v \in Vols /\ g \in HandleRecs
  BY DEF Fine, Calls, SamePlace
<1>2. x \in Calls /\ x.v = w.v /\ x.h = g /\ x.err = w.err
  BY <1>1 DEF Calls
<1>3. HandleOK(w.v, g)
  BY HandleSame DEF Fine, SamePlace
<1> QED
  BY <1>2, <1>3, GrowsRefl DEF Still, Fine, SamePlace

(* The calls a loop of seeks stays in. *)
Safe(w) == {x \in Calls : Fine(x) /\ Grows(w.v, x.v) /\ Placed(x.v, x.h)}

LEMMA SafeSeek ==
  ASSUME NEW w, Fine(w), NEW y \in Safe(w), NEW z, Still(y, z), z.err = "NONE", NEW off \in Int,
         NEW x \in fat_file_seek(z, off)
  PROVE  x \in Safe(w)
<1>1. Fine(y) /\ Grows(w.v, y.v) /\ Placed(y.v, y.h) /\ Fine(z) /\ Grows(y.v, z.v)
  BY DEF Safe, Still
<1>2. Placed(z.v, z.h)
  BY <1>1, StillPlaced
<1>3. Sought(z, x)
  BY <1>1, SeekStep
<1>4. Fine(x) /\ Grows(z.v, x.v) /\ Placed(x.v, x.h)
  BY <1>2, <1>3 DEF Sought
<1>5. w.v \in Vols /\ y.v \in Vols /\ z.v \in Vols /\ x.v \in Vols
  BY <1>1, <1>4 DEF Fine, Calls
<1>6. Grows(w.v, z.v)
  BY <1>1, <1>5, GrowsTrans
<1>7. Grows(w.v, x.v)
  BY <1>4, <1>5, <1>6, GrowsTrans
<1> QED
  BY <1>4, <1>7 DEF Safe, Fine

LEMMA MinOfThree ==
  ASSUME NEW a \in Int, NEW b \in Int, NEW c \in Int
  PROVE  /\ Min({a, b, c}) \in Int
         /\ Min({a, b, c}) <= a /\ Min({a, b, c}) <= b /\ Min({a, b, c}) <= c
         /\ Min({a, b, c}) \in {a, b, c}
<1> DEFINE S == {a, b, c}
<1>1. \E x \in S : \A y \in S : x <= y
  OBVIOUS
<1>2. Min(S) \in S /\ \A y \in S : Min(S) <= y
  BY <1>1 DEF Min
<1> QED
  BY <1>2

LEMMA MinOfTwo ==
  ASSUME NEW a \in Int, NEW b \in Int
  PROVE  /\ Min({a, b}) \in {a, b}
         /\ Min({a, b}) <= a /\ Min({a, b}) <= b
<1> DEFINE S == {a, b}
<1>1. \E x \in S : \A y \in S : x <= y
  OBVIOUS
<1>2. Min(S) \in S /\ \A y \in S : Min(S) <= y
  BY <1>1 DEF Min
<1> QED
  BY <1>2

LEMMA ReadStep ==
  ASSUME NEW w, Fine(w), NEW n \in Nat, NEW y \in Safe(w), y.err = "NONE", NEW x \in ReadTurn(n, y)
  PROVE  x \in Safe(w)
<1> DEFINE h == y.h
           idx == h.offset % SECT
           cnt == Min({n - Len(y.data), SECT - idx, h.size - h.offset})
           bytes == [i \in 1 .. cnt |-> h.buf[idx + i - 1]]
           z == [y EXCEPT !.data = y.data \o bytes]
<1>1. CASE x = y
  BY <1>1
<1>2. CASE x \in fat_file_seek(z, h.offset + cnt)
  <2>1. /\ Fine(y) /\ y \in Calls /\ h \in HandleRecs /\ h.offset \in Nat /\ h.size \in Nat
        /\ h.buf \in Sector /\ y.data \in Seq(Byte) /\ Len(y.data) \in Nat
    BY DEF Safe, Fine, Calls, HandleRecs
  <2>2. idx \in 0 .. SECT - 1 /\ SECT \in Nat
    BY <2>1, Constants, Quotient
  <2>3. cnt \in Int /\ cnt <= SECT - idx
    <3> DEFINE a == n - Len(y.data)
               b == SECT - idx
               c == h.size - h.offset
    <3>1. a \in Int /\ b \in Int /\ c \in Int
      <4> HIDE DEF idx, h
      <4> QED
        BY <2>1, <2>2
    <3>2. cnt = Min({a, b, c})
      OBVIOUS
    <3> HIDE DEF cnt, a, b, c
    <3>3. cnt \in Int /\ cnt <= b
      BY <3>1, <3>2, MinOfThree
    <3> QED
      BY <3>3 DEF b
  <2> HIDE DEF idx, cnt
  <2>4. bytes \in Seq(Byte)
    <3>1. ASSUME NEW i \in 1 .. cnt PROVE h.buf[idx + i - 1] \in Byte
      <4>1. idx + i - 1 \in 0 .. SECT - 1
        BY <2>2, <2>3
      <4> QED
        BY <2>1, <4>1 DEF Sector
    <3>2. CASE cnt \in Nat
      BY <3>1, <3>2
    <3>3. CASE cnt \notin Nat
      <4>1. 1 .. cnt = 1 .. 0
        BY <2>3, <3>3
      <4>2. bytes \in [1 .. 0 -> Byte]
        BY <3>1, <4>1
      <4> HIDE DEF bytes
      <4> QED
        BY <4>2, SeqDef
    <3> QED
      BY <3>2, <3>3
  <2> HIDE DEF bytes
  <2>5. y.data \o bytes \in Seq(Byte)
    BY <2>1, <2>4
  <2>6. SamePlace(y.h, y.h) /\ Fine(y)
    BY <2>1 DEF SamePlace
  <2>7. Still(y, z) /\ z.err = "NONE"
    <3> DEFINE d == y.data \o bytes
               g == y.h
    <3>1. d \in Seq(Byte) /\ z = [y EXCEPT !.h = g, !.data = d] /\ SamePlace(g, y.h)
      BY <2>1, <2>5, <2>6 DEF Calls
    <3>2. z.err = "NONE"
      BY <2>1 DEF Calls
    <3> HIDE DEF d, z, g
    <3>3. Still(y, [y EXCEPT !.h = g, !.data = d])
      BY <2>6, <3>1, StillText, Zenon
    <3> QED
      BY <3>1, <3>2, <3>3, Zenon
  <2>8. h.offset + cnt \in Int
    BY <2>1, <2>3
  <2> QED
    BY <1>2, <2>7, <2>8, SafeSeek
<1> QED
  BY <1>1, <1>2 DEF ReadTurn

LEMMA PatchedSector ==
  ASSUME NEW b \in Sector, NEW idx \in Nat, NEW s \in Seq(Byte)
  PROVE  Patched(b, idx, s) \in Sector
<1>1. ASSUME NEW i \in 0 .. SECT - 1, i >= idx, i < idx + Len(s) PROVE s[i - idx + 1] \in Byte
  <2>1. i - idx + 1 \in 1 .. Len(s)
    BY <1>1, Constants
  <2> QED
    BY <2>1
<1>2. \A i \in 0 .. SECT - 1 : b[i] \in Byte
  BY DEF Sector
<1> QED
  BY <1>1, <1>2 DEF Patched, Sector

LEMMA WriteStep ==
  ASSUME NEW w, Fine(w), NEW y \in Safe(w), y.err = "NONE", NEW x \in WriteTurn(y)
  PROVE  x \in Safe(w)
<1> DEFINE h == y.h
           idx == h.offset % SECT
           cnt == Min({Len(y.data), SECT - idx})
           z == [y EXCEPT !.h.buf = Patched(y.h.buf, idx, SubSeq(y.data, 1, cnt)),
                          !.h.dirty = TRUE,
                          !.data = SubSeq(y.data, cnt + 1, Len(y.data))]
<1>1. CASE x = y
  BY <1>1
<1>2. CASE x \in fat_file_seek(z, h.offset + cnt)
  <2>1. /\ Fine(y) /\ y \in Calls /\ h \in HandleRecs /\ h.offset \in Nat
        /\ h.buf \in Sector /\ y.data \in Seq(Byte) /\ Len(y.data) \in Nat
    BY DEF Safe, Fine, Calls, HandleRecs
  <2>2. idx \in 0 .. SECT - 1 /\ SECT \in Nat
    BY <2>1, Constants, Quotient
  <2>3. cnt \in Int /\ 0 <= cnt /\ cnt <= Len(y.data)
    <3> DEFINE a == Len(y.data)
               b == SECT - idx
    <3>1. a \in Nat /\ b \in Nat
      <4> HIDE DEF idx, h
      <4> QED
        BY <2>1, <2>2
    <3>2. cnt = Min({a, b})
      OBVIOUS
    <3> HIDE DEF cnt, a, b
    <3>3. cnt \in {a, b} /\ cnt <= a
      BY <3>1, <3>2, MinOfTwo
    <3> QED
      BY <3>1, <3>3 DEF a
  <2> HIDE DEF idx, cnt
  <2> DEFINE s == SubSeq(y.data, 1, cnt)
             d == SubSeq(y.data, cnt + 1, Len(y.data))
             p == Patched(y.h.buf, idx, s)
             g == [y.h EXCEPT !.buf = p, !.dirty = TRUE]
  <2>4. s \in Seq(Byte) /\ d \in Seq(Byte)
    <3>1. \A i \in 1 .. cnt : i \in 1 .. Len(y.data)
      BY <2>1, <2>3
    <3>2. \A i \in cnt + 1 .. Len(y.data) : i \in 1 .. Len(y.data)
      BY <2>1, <2>3
    <3> QED
      BY <2>1, <2>3, <3>1, <3>2
  <2>5. p \in Sector
    <3> HIDE DEF s
    <3> QED
      BY <2>1, <2>2, <2>4, PatchedSector
  <2>6. z = [y EXCEPT !.h = g, !.data = d] /\ z.err = "NONE"
    <3> HIDE DEF p, d
    <3> QED
      BY <2>1 DEF Calls, p, d
  <2> HIDE DEF p, d
  <2>7. SamePlace(g, y.h)
    BY <2>1, <2>5 DEF SamePlace, HandleRecs
  <2>8. Still(y, z) /\ z.err = "NONE"
    <3> HIDE DEF z, g
    <3>1. Fine(y)
      BY <2>1
    <3>2. Still(y, [y EXCEPT !.h = g, !.data = d])
      BY <2>4, <2>7, <3>1, StillText, Zenon
    <3> QED
      BY <2>6, <3>2, Zenon
  <2>9. h.offset + cnt \in Int
    BY <2>1, <2>3
  <2> QED
    BY <1>2, <2>8, <2>9, SafeSeek
<1> QED
  BY <1>1, <1>2 DEF WriteTurn

(* An offset that the handle reaches is covered by the chain. *)
LEMMA ReachesCovers ==
  ASSUME NEW v, VolOK(v), NEW h, HandleOK(v, h)
  PROVE  Covered(v, h.sclust, h.offset)
<1> DEFINE o == h.offset
           q == o \div CLUST_SIZE
           n == Cardinality(Chain(v, h.sclust))
<1>1. /\ h \in HandleRecs /\ o \in Nat /\ Starts(v, h.sclust) /\ h.clust # 0
      /\ h.sclust \in {0} \cup Clusters /\ v \in Vols /\ FatSound(v)
  BY HandleStarts, Constants DEF HandleRecs, VolOK
<1>2. PICK k \in 0 .. Last : ChainOf(v, h.sclust)[k] = h.clust /\ q <= k
  BY DEF HandleOK, Reaches
<1>3. n >= k + 1 /\ n \in Nat
  BY <1>1, <1>2, ChainLength, ChainMembers
<1>4. q \in Nat /\ o < CLUST_SIZE * (q + 1) /\ CLUST_SIZE \in Nat
  BY <1>1, Constants, Quotient
<1>5. k \in Nat /\ q <= k
  BY <1>2, Constants
<1> HIDE DEF o, q, n
<1>6. CLUST_SIZE * (q + 1) <= CLUST_SIZE * n
  BY <1>3, <1>4, <1>5
<1>7. o <= CLUST_SIZE * n
  BY <1>1, <1>3, <1>4, <1>6
<1> QED
  BY <1>7 DEF Covered, o, n

LEMMA WriteEnds ==
  ASSUME NEW w, Fine(w), Placed(w.v, w.h), w.err = "NONE", NEW t \in Seq(Byte),
         NEW x \in fat_file_write(w, t)
  PROVE  Sought(w, x)
<1>1. CASE "WRITE" \notin w.h.mode
  <2>1. x = [w EXCEPT !.err = "DENIED"] /\ "DENIED" \in Errs
    BY <1>1 DEF fat_file_write, Failed, Errs
  <2>2. Still(w, x)
    BY <2>1, StillErr
  <2> QED
    BY <2>2, StillPlaced DEF Sought, Still
<1>2. CASE "WRITE" \in w.h.mode
  <2> DEFINE g == [w.h EXCEPT !.mod = TRUE]
             z == [w EXCEPT !.h.mod = TRUE, !.data = t]
             n == Len(t)
  <2>0. w \in Calls /\ w.h \in HandleRecs /\ n \in Nat
    BY DEF Fine, Calls
  <2>1. PICK y \in Repeat(z, n, WriteTurn) : x = Sized(y, w.h.offset + Len(t))
    BY <1>2 DEF fat_file_write
  <2>2. SamePlace(g, w.h) /\ z = [w EXCEPT !.h = g, !.data = t]
    BY <2>0 DEF SamePlace, HandleRecs, Calls
  <2>3. Still(w, z)
    <3> HIDE DEF z, g
    <3>1. Still(w, [w EXCEPT !.h = g, !.data = t])
      BY <2>2, StillText, Zenon
    <3> QED
      BY <2>2, <3>1, Zenon
  <2> HIDE DEF z, n
  <2>4. z \in Safe(w)
    BY <2>3, StillPlaced DEF Safe, Still, Fine
  <2> DEFINE W == [i \in 0 .. n |-> Safe(w)]
  <2>5. ASSUME NEW i \in 1 .. n, NEW b \in W[i - 1]
        PROVE  IF b.err = "NONE" THEN WriteTurn(b) \subseteq W[i] ELSE b \in W[i]
    <3>1. b \in Safe(w) /\ W[i] = Safe(w)
      BY <2>0, <2>5
    <3> HIDE DEF W
    <3> QED
      BY <3>1, WriteStep
  <2>a. z \in W[0] /\ W[n] = Safe(w)
    BY <2>0, <2>4
  <2> HIDE DEF W
  <2>6. y \in Safe(w)
    BY <2>0, <2>1, <2>5, <2>a, RepeatWrite
  <2>7. y \in Calls /\ Fine(y) /\ Grows(w.v, y.v) /\ Placed(y.v, y.h) /\ y.h \in HandleRecs
    BY <2>6 DEF Safe, Calls
  <2> DEFINE s == IF y.h.offset > y.h.size THEN y.h.offset ELSE y.h.size
             k == [y.h EXCEPT !.size = s]
  <2>8. s \in Nat /\ Covered(y.v, y.h.sclust, s)
    BY <2>7, ReachesCovers DEF HandleRecs, Fine, HandleOK
  <2> HIDE DEF s
  <2>9. /\ k \in HandleRecs /\ k.file = y.h.file /\ k.sclust = y.h.sclust /\ k.clust = y.h.clust
        /\ k.offset = y.h.offset /\ k.size = s /\ k.sect = y.h.sect
    BY <2>7, <2>8 DEF HandleRecs
  <2>10. x = [y EXCEPT !.h = k, !.data = <<>>]
    BY <2>1, <2>7 DEF Sized, s, Calls
  <2> HIDE DEF k
  <2>11. x \in Calls /\ x.v = y.v /\ x.h = k
    <3> DEFINE e == <<>>
    <3>1. e \in Seq(Byte) /\ x = [y EXCEPT !.h = k, !.data = e]
      BY <2>10
    <3> HIDE DEF e
    <3> QED
      BY <2>7, <2>9, <3>1 DEF Calls
  <2>12. HandleOK(y.v, k)
    BY <2>7, <2>8, <2>9 DEF HandleOK, Reaches, Fine
  <2>13. Placed(y.v, k)
    BY <2>7, <2>9 DEF Placed
  <2> QED
    BY <2>7, <2>11, <2>12, <2>13 DEF Sought, Fine
<1> QED
  BY <1>1, <1>2

LEMMA ReadEnds ==
  ASSUME NEW w, Fine(w), Placed(w.v, w.h), w.err = "NONE", NEW n \in Nat,
         NEW x \in fat_file_read(w, n)
  PROVE  Sought(w, x)
<1>1. CASE "READ" \notin w.h.mode
  <2>1. x = [w EXCEPT !.err = "DENIED"] /\ "DENIED" \in Errs
    BY <1>1 DEF fat_file_read, Failed, Errs
  <2>2. Still(w, x)
    BY <2>1, StillErr
  <2> QED
    BY <2>2, StillPlaced DEF Sought, Still
<1>2. CASE "READ" \in w.h.mode
  <2>1. x \in Reading(w, n, n)
    BY <1>2 DEF fat_file_read, Reading
  <2>2. w \in Safe(w)
    BY GrowsRefl DEF Safe, Fine
  <2> DEFINE W == [i \in 0 .. n |-> Safe(w)]
  <2>3. ASSUME NEW i \in 1 .. n, NEW b \in W[i - 1]
        PROVE  IF b.err = "NONE" THEN ReadTurn(n, b) \subseteq W[i] ELSE b \in W[i]
    <3>1. b \in Safe(w) /\ W[i] = Safe(w)
      BY <2>3
    <3> HIDE DEF W
    <3> QED
      BY <3>1, ReadStep
  <2>a. w \in W[0] /\ W[n] = Safe(w)
    BY <2>2
  <2> HIDE DEF W
  <2>4. x \in Safe(w)
    BY <2>1, <2>3, <2>a, RepeatRead
  <2> QED
    BY <2>4 DEF Safe, Sought
<1> QED
  BY <1>1, <1>2

-----------------------------------------------------------------------------
(* fat_file_sync. *)

(* Other sizes in the directory, or the directory on the disk. *)
LEMMA EntryVol ==
  ASSUME NEW w, Fine(w), NEW u, u = [w.v EXCEPT !.entry[w.h.file].size = w.h.size]
  PROVE  VolOK(u) /\ Grows(w.v, u)
<1> DEFINE v == w.v
           f == w.h.file
           n == w.h.size
           e == [v.entry[f] EXCEPT !.size = n]
<1>1. v \in Vols /\ f \in Files /\ n \in Nat /\ VolOK(v) /\ v.entry \in [Files -> Entries]
  BY DEF Fine, Calls, Vols, HandleRecs
<1>2. e \in Entries /\ e.clust = v.entry[f].clust /\ e.size = n
  BY <1>1 DEF Entries
<1>3. /\ Covered(v, e.clust, n) /\ Starts(v, e.clust)
  BY <1>2, HandleStarts DEF Fine, HandleOK
<1>4. u = [v EXCEPT !.entry = [v.entry EXCEPT ![f] = e]]
  BY <1>1 DEF Vols, Entries
<1> DEFINE d == [v.entry EXCEPT ![f] = e]
<1> HIDE DEF e, v, n, f
<1>a. d \in [Files -> Entries] /\ d[f] = e /\ \A g \in Files : g # f => d[g] = v.entry[g]
  BY <1>1, <1>2
<1>b. v \in Vols /\ u = [v EXCEPT !.entry = d]
  BY <1>1, <1>4
<1> HIDE DEF d
<1>5. u \in Vols /\ u.fat = v.fat /\ u.dentry = v.dentry /\ u.entry = d
  BY <1>a, <1>b DEF Vols
<1>6. u.entry[f] = e /\ \A g \in Files : g # f => u.entry[g] = v.entry[g]
  BY <1>a, <1>5
<1>7. \A g \in Files : u.entry[g].clust = v.entry[g].clust
  BY <1>2, <1>6
<1>8. Grows(v, u) /\ FatSound(u)
  <2>1. FatSound(v)
    BY <1>1 DEF VolOK
  <2>2. Grows(v, u)
    BY <1>5, <1>7 DEF Grows
  <2> QED
    BY <1>5, <2>1, <2>2 DEF FatSound
<1>9. ASSUME NEW a \in Entries, EntryOK(v, a) PROVE EntryOK(u, a)
  <2>1. a # Absent => Starts(u, a.clust)
    BY <1>5, <1>9 DEF EntryOK, Starts
  <2> QED
    BY <1>1, <1>5, <1>8, <1>9, <2>1, GrowsEntry
<1>10. EntryOK(u, e)
  <2>1. EntryOK(v, e)
    BY <1>2, <1>3 DEF EntryOK
  <2> QED
    BY <1>2, <1>9, <2>1
<1>11. ASSUME NEW g \in Files PROVE EntryOK(u, u.entry[g]) /\ EntryOK(u, u.dentry[g])
  <2>1. v.entry[g] \in Entries /\ v.dentry[g] \in Entries /\ EntryOK(v, v.entry[g]) /\ EntryOK(v, v.dentry[g])
    BY <1>1 DEF Vols, VolOK
  <2>2. EntryOK(u, v.entry[g]) /\ EntryOK(u, v.dentry[g])
    BY <1>9, <2>1
  <2> QED
    BY <1>5, <1>6, <1>10, <2>2
<1>12. \A g \in Files : u.dentry[g].clust \in {0, u.entry[g].clust}
  BY <1>1, <1>5, <1>7 DEF VolOK
<1>13. \A g, k \in Files :
         g # k /\ u.entry[g].clust # 0 => u.entry[g].clust # u.entry[k].clust
  <2>1. \A g, k \in Files :
          g # k /\ v.entry[g].clust # 0 => v.entry[g].clust # v.entry[k].clust
    BY <1>1 DEF VolOK
  <2>2. ASSUME NEW g \in Files, NEW k \in Files, g # k, u.entry[g].clust # 0
        PROVE  u.entry[g].clust # u.entry[k].clust
    <3>1. u.entry[g].clust = v.entry[g].clust /\ u.entry[k].clust = v.entry[k].clust
      BY <1>7
    <3> QED
      BY <2>1, <2>2, <3>1
  <2> QED
    BY <2>2
<1>14. VolOK(u)
  BY <1>5, <1>8, <1>11, <1>12, <1>13 DEF VolOK
<1> QED
  BY <1>8, <1>14 DEF v

(* A step that only changes the volume. *)
LEMMA StillVol ==
  ASSUME NEW w, Fine(w), NEW u, VolOK(u), Grows(w.v, u)
  PROVE  Still(w, [w EXCEPT !.v = u])
<1> DEFINE x == [w EXCEPT !.v = u]
<1>1. w \in Calls /\ w.v \in Vols /\ u \in Vols /\ w.h \in HandleRecs
  BY DEF Fine, Calls, VolOK
<1>2. x \in Calls /\ x.v = u /\ x.h = w.h
  BY <1>1 DEF Calls
<1>3. HandleOK(u, w.h)
  BY <1>1, GrowsHandle DEF Fine
<1> QED
  BY <1>2, <1>3 DEF Still, Fine

LEMMA SyncFsStep ==
  ASSUME NEW w, Fine(w), NEW x \in sync_fs(w)
  PROVE  Still(w, x)
<1> DEFINE u == [w.v EXCEPT !.dentry = w.v.entry]
<1>1. w.v \in Vols /\ w \in Calls /\ VolOK(w.v)
  BY DEF Fine, Calls
<1>2. u \in Vols /\ u.fat = w.v.fat /\ u.entry = w.v.entry /\ u.dentry = w.v.entry
  BY <1>1 DEF Vols
<1>3. x = [w EXCEPT !.v = u] \/ x \in Fault(w)
  BY <1>1 DEF sync_fs, Calls
<1> HIDE DEF u
<1>4. VolOK(u) /\ Grows(w.v, u)
  BY <1>1, <1>2, SameFat
<1>5. Still(w, [w EXCEPT !.v = u])
  BY <1>4, StillVol, Zenon
<1> QED
  BY <1>3, <1>5, StillFault

LEMMA SyncEnds ==
  ASSUME NEW w, Fine(w), w.err = "NONE", NEW x \in fat_file_sync(w)
  PROVE  Still(w, x)
<1> DEFINE write(y) == Fault(y) \cup {[y EXCEPT !.v.data[y.h.sect] = y.h.buf]}
           update(y) ==
             IF y.h.mod THEN Fault(y) \cup {[y EXCEPT !.v.entry[y.h.file].size = y.h.size]} ELSE {y}
           clear(y) == {[y EXCEPT !.h.mod = FALSE]}
           A == write(w)
           B == UNION {IF y.err = "NONE" THEN update(y) ELSE {y} : y \in A}
           C == UNION {IF y.err = "NONE" THEN sync_fs(y) ELSE {y} : y \in B}
           D == UNION {IF y.err = "NONE" THEN clear(y) ELSE {y} : y \in C}
<1>1. x \in D
  BY DEF fat_file_sync, Then
<1>2. ASSUME NEW y \in A PROVE Still(w, y)
  BY <1>2, StillFault, SaveStep
<1>3. ASSUME NEW y, Fine(y), NEW z \in update(y) PROVE Still(y, z)
  <2>1. CASE z = y
    BY <1>3, <2>1, StillRefl
  <2>2. CASE z \in Fault(y)
    BY <1>3, <2>2, StillFault
  <2>3. CASE z = [y EXCEPT !.v.entry[y.h.file].size = y.h.size]
    <3> DEFINE u == [y.v EXCEPT !.entry[y.h.file].size = y.h.size]
    <3>1. z = [y EXCEPT !.v = u]
      BY <1>3, <2>3 DEF Fine, Calls
    <3>2. VolOK(u) /\ Grows(y.v, u)
      BY <1>3, EntryVol
    <3> HIDE DEF u
    <3>3. Still(y, [y EXCEPT !.v = u])
      BY <1>3, <3>2, StillVol, Zenon
    <3> QED
      BY <3>1, <3>3, Zenon
  <2> QED
    BY <1>3, <2>1, <2>2, <2>3
<1>4. ASSUME NEW y, Fine(y), NEW z \in clear(y) PROVE Still(y, z)
  <2> DEFINE g == [y.h EXCEPT !.mod = FALSE]
             d == y.data
  <2>1. SamePlace(g, y.h) /\ d \in Seq(Byte) /\ z = [y EXCEPT !.h = g, !.data = d]
    BY <1>4 DEF SamePlace, Fine, Calls, HandleRecs
  <2> HIDE DEF g, d
  <2>2. Still(y, [y EXCEPT !.h = g, !.data = d])
    BY <1>4, <2>1, StillText, Zenon
  <2> QED
    BY <2>1, <2>2, Zenon
<1> HIDE DEF A, update, clear
<1>5. ASSUME NEW z \in B PROVE Still(w, z)
  <2>1. PICK y \in A : z \in IF y.err = "NONE" THEN update(y) ELSE {y}
    BY <1>5
  <2>2. Still(w, y) /\ Fine(y)
    BY <1>2, <2>1 DEF Still
  <2>3. Still(y, z)
    BY <1>3, <2>1, <2>2, StillRefl
  <2> QED
    BY <2>2, <2>3, StillTrans
<1> HIDE DEF B
<1>6. ASSUME NEW z \in C PROVE Still(w, z)
  <2>1. PICK y \in B : z \in IF y.err = "NONE" THEN sync_fs(y) ELSE {y}
    BY <1>6
  <2>2. Still(w, y) /\ Fine(y)
    BY <1>5, <2>1 DEF Still
  <2>3. Still(y, z)
    BY <2>1, <2>2, SyncFsStep, StillRefl
  <2> QED
    BY <2>2, <2>3, StillTrans
<1> HIDE DEF C
<1>7. PICK y \in C : x \in IF y.err = "NONE" THEN clear(y) ELSE {y}
  BY <1>1
<1>8. Still(w, y) /\ Fine(y)
  BY <1>6, <1>7 DEF Still
<1>9. Still(y, x)
  BY <1>4, <1>7, <1>8, StillRefl
<1> QED
  BY <1>8, <1>9, StillTrans

-----------------------------------------------------------------------------
(* fat_file_open. *)

LEMMA NewEntryVol ==
  ASSUME NEW v, VolOK(v), NEW c, Fresh(v, c), NEW f \in Files, v.entry[f] = Absent,
         NEW u, u = [v EXCEPT !.entry[f] = [clust |-> c, size |-> 0]]
  PROVE  VolOK(u) /\ Grows(v, u) /\ u.entry[f] # Absent
<1> DEFINE e == [clust |-> c, size |-> 0]
<1>1. v \in Vols /\ v.entry \in [Files -> Entries] /\ c \in Clusters /\ c # 0
  BY Constants DEF VolOK, Vols, Fresh, Starts
<1>2. e \in Entries /\ e.clust = c /\ e.size = 0 /\ e # Absent
  BY <1>1 DEF Entries, Absent
<1>4. u = [v EXCEPT !.entry = [v.entry EXCEPT ![f] = e]]
  BY <1>1 DEF Vols
<1> HIDE DEF e
<1>5. u \in Vols /\ u.fat = v.fat /\ u.dentry = v.dentry /\ u.entry = [v.entry EXCEPT ![f] = e]
  BY <1>1, <1>2, <1>4 DEF Vols
<1>6. u.entry[f] = e /\ \A g \in Files : g # f => u.entry[g] = v.entry[g]
  BY <1>1, <1>5
<1>7. v.entry[f].clust = 0
  BY DEF Absent
<1>8. Grows(v, u) /\ FatSound(u)
  <2>1. FatSound(v)
    BY DEF VolOK
  <2>2. Grows(v, u)
    BY <1>5, <1>6, <1>7 DEF Grows
  <2> QED
    BY <1>5, <2>1, <2>2 DEF FatSound
<1>9. ASSUME NEW a \in Entries, EntryOK(v, a) PROVE EntryOK(u, a)
  <2>1. a # Absent => Starts(u, a.clust)
    BY <1>5, <1>9 DEF EntryOK, Starts
  <2> QED
    BY <1>1, <1>5, <1>8, <1>9, <2>1, GrowsEntry
<1>10. EntryOK(u, e)
  <2>1. Cardinality(Chain(u, c)) \in Nat
    <3>1. c \in {0} \cup Clusters
      BY <1>1
    <3> QED
      BY <3>1, ChainMembers
  <2>2. Covered(u, c, 0)
    BY <2>1, Constants DEF Covered
  <2>3. Starts(u, c)
    BY <1>5 DEF Fresh, Starts
  <2> QED
    BY <1>2, <2>2, <2>3 DEF EntryOK
<1>11. ASSUME NEW g \in Files PROVE EntryOK(u, u.entry[g]) /\ EntryOK(u, u.dentry[g])
  <2>1. v.entry[g] \in Entries /\ v.dentry[g] \in Entries /\ EntryOK(v, v.entry[g]) /\ EntryOK(v, v.dentry[g])
    BY <1>1 DEF Vols, VolOK
  <2>2. EntryOK(u, v.entry[g]) /\ EntryOK(u, v.dentry[g])
    BY <1>9, <2>1
  <2> QED
    BY <1>5, <1>6, <1>10, <2>2
<1>12. \A g \in Files : u.dentry[g].clust \in {0, u.entry[g].clust}
  <2>1. \A g \in Files : v.dentry[g].clust \in {0, v.entry[g].clust}
    BY DEF VolOK
  <2> QED
    BY <1>5, <1>6, <1>7, <2>1
<1>13. \A g, k \in Files :
         g # k /\ u.entry[g].clust # 0 => u.entry[g].clust # u.entry[k].clust
  <2>1. \A g \in Files : v.entry[g].clust # c
    BY DEF Fresh
  <2>2. \A g, k \in Files :
          g # k /\ v.entry[g].clust # 0 => v.entry[g].clust # v.entry[k].clust
    BY DEF VolOK
  <2> QED
    BY <1>2, <1>6, <2>1, <2>2
<1>14. VolOK(u)
  BY <1>5, <1>8, <1>11, <1>12, <1>13 DEF VolOK
<1> QED
  BY <1>2, <1>6, <1>8, <1>14

(* What creating file f may have changed. *)
Made(v, u, f) ==
  /\ u.data = v.data
  /\ \A g \in Files : g # f => u.entry[g] = v.entry[g] /\ u.dentry[g] \in {v.dentry[g], v.entry[g]}
  /\ u.entry[f] = v.entry[f] \/ (v.entry[f] = Absent /\ u.entry[f].size = 0)

(* The call before the handle is filled in. *)
Begun(w, f) ==
  /\ VolOK(w.v) /\ Grows(vol, w.v) /\ Made(vol, w.v, f)
  /\ w.err = "NONE" =>
       w = [v |-> w.v, h |-> w.h, err |-> "NONE", data |-> <<>>] /\ w.v.entry[f] # Absent

LEMMA NewFileStep ==
  ASSUME VolOK(vol), NEW f \in Files, vol.entry[f] = Absent, NEW x \in NewFile(f)
  PROVE  Begun(x, f)
<1> DEFINE w == Call([clust |-> 0])
           H == {[clust |-> 0]}
           add(y) == Fault(y) \cup {[y EXCEPT !.v.entry[f] = [clust |-> y.h.clust, size |-> 0]]}
<1>1. w \in CallsOf(H) /\ w.v = vol /\ w.err = "NONE" /\ w.h = [clust |-> 0] /\ w.data = <<>>
  <2>1. w = [v |-> vol, h |-> [clust |-> 0], err |-> "NONE", data |-> <<>>] /\ vol \in Vols
    BY DEF Call, VolOK
  <2> DEFINE e == <<>>
             k == [clust |-> 0]
  <2>2. e \in Seq(Byte) /\ "NONE" \in Errs /\ k \in H
    BY DEF Errs
  <2>3. w = [v |-> vol, h |-> k, err |-> "NONE", data |-> e]
    BY <2>1
  <2> HIDE DEF e, k, H, w
  <2>4. w \in CallsOf(H) /\ w.v = vol /\ w.err = "NONE" /\ w.h = k /\ w.data = e
    BY <2>1, <2>2, <2>3 DEF CallsOf
  <2> QED
    BY <2>4 DEF e, k
<1>2. PICK y \in stretch_chain(w, 0) : x \in IF y.err = "NONE" THEN add(y) ELSE {y}
  BY DEF NewFile, Then
<1> HIDE DEF w
<1>3. Stretched(w, 0, y)
  BY <1>1, <1>2, Stretch
<1>4. VolOK(y.v) /\ Grows(vol, y.v) /\ y.v.entry = vol.entry /\ y.data = <<>>
      /\ y = [v |-> y.v, h |-> y.h, err |-> y.err, data |-> y.data] /\ y.v \in Vols /\ vol \in Vols
      /\ y.v.data = vol.data /\ y.v.dentry \in {vol.dentry, vol.entry}
  BY <1>1, <1>3 DEF Stretched, VolOK, SameButFat
<1>a. Made(vol, y.v, f)
  BY <1>4 DEF Made
<1>5. CASE y.err # "NONE"
  BY <1>2, <1>4, <1>5, <1>a DEF Begun
<1>6. CASE y.err = "NONE"
  <2>1. PICK c \in Clusters : y.h = [w.h EXCEPT !.clust = c] /\ Fresh(y.v, c)
    BY <1>3, <1>6 DEF Stretched
  <2>2. y.h.clust = c
    BY <1>1, <2>1
  <2>3. x \in Fault(y) \/ x = [y EXCEPT !.v.entry[f] = [clust |-> c, size |-> 0]]
    BY <1>2, <1>6, <2>2
  <2>4. CASE x \in Fault(y)
    <3>1. x = [y EXCEPT !.err = "IO"]
      BY <2>4 DEF Fault, Failed
    <3>2. x.v = y.v /\ x.err = "IO"
      BY <1>4, <3>1
    <3> QED
      BY <1>4, <1>a, <3>2 DEF Begun
  <2>5. CASE x = [y EXCEPT !.v.entry[f] = [clust |-> c, size |-> 0]]
    <3> DEFINE u == [y.v EXCEPT !.entry[f] = [clust |-> c, size |-> 0]]
    <3>1. x = [v |-> u, h |-> y.h, err |-> "NONE", data |-> <<>>]
      BY <1>4, <1>6, <2>5
    <3>2. VolOK(u) /\ Grows(y.v, u) /\ u.entry[f] # Absent
      <4>1. y.v.entry[f] = Absent
        BY <1>4
      <4> DEFINE v == y.v
      <4>2. VolOK(v) /\ Fresh(v, c) /\ v.entry[f] = Absent /\ u = [v EXCEPT !.entry[f] = [clust |-> c, size |-> 0]]
        BY <1>4, <2>1, <4>1
      <4> HIDE DEF v, u
      <4>3. VolOK(u) /\ Grows(v, u) /\ u.entry[f] # Absent
        BY <4>2, NewEntryVol
      <4> QED
        BY <4>3 DEF v
    <3>a. Made(vol, u, f)
      <4> DEFINE e == [clust |-> c, size |-> 0]
      <4>1. e.size = 0 /\ u = [y.v EXCEPT !.entry[f] = e]
        OBVIOUS
      <4> HIDE DEF e, u
      <4>2. u.data = y.v.data /\ u.dentry = y.v.dentry /\ u.entry = [y.v.entry EXCEPT ![f] = e]
        BY <1>4, <4>1 DEF Vols
      <4>3. u.entry[f] = e /\ \A g \in Files : g # f => u.entry[g] = vol.entry[g]
        BY <1>4, <4>2 DEF Vols
      <4> QED
        BY <1>4, <4>1, <4>2, <4>3 DEF Made
    <3> HIDE DEF u
    <3>3. Grows(vol, u)
      BY <1>4, <3>2, GrowsTrans DEF VolOK
    <3>4. x.v = u /\ x.h = y.h
      BY <3>1
    <3> QED
      BY <3>1, <3>2, <3>3, <3>4, <3>a DEF Begun
  <2> QED
    BY <2>3, <2>4, <2>5
<1> QED
  BY <1>5, <1>6

LEMMA HandleMade ==
  ASSUME NEW v, VolOK(v), NEW f \in Files, v.entry[f] # Absent, NEW mode
  PROVE  HandleOK(v, Handle(f, v.entry[f], mode))
<1> DEFINE e == v.entry[f]
           cut == e.size # 0 /\ "TRUNC" \in mode
           s == IF cut THEN 0 ELSE e.size
           b == [i \in 0 .. SECT - 1 |-> 0]
           h == Handle(f, e, mode)
<1>1. e \in Entries /\ Starts(v, e.clust) /\ Covered(v, e.clust, e.size)
  BY DEF VolOK, Vols, EntryOK
<1>2. e.clust \in Clusters /\ e.clust # 0 /\ e.size \in Nat /\ s \in Nat
  BY <1>1, Constants DEF Entries, Starts
<1>3. b \in Sector
  BY Constants DEF Sector, Byte
<1>4. h = [file |-> f, sclust |-> e.clust, clust |-> e.clust, sect |-> NOSECT,
           offset |-> 0, size |-> s,
           mode |-> mode \cap {"READ", "WRITE"}, mod |-> cut, dirty |-> FALSE, buf |-> b]
  BY DEF Handle
<1>5. Covered(v, e.clust, s)
  <2>1. CASE cut
    <3>1. Cardinality(Chain(v, e.clust)) \in Nat
      <4> DEFINE c == e.clust
      <4>1. c \in {0} \cup Clusters
        BY <1>2
      <4> HIDE DEF c
      <4>2. Cardinality(Chain(v, c)) \in Nat
        BY <4>1, ChainMembers
      <4> QED
        BY <4>2 DEF c
    <3> QED
      BY <2>1, <3>1, Constants DEF Covered
  <2>2. CASE ~cut
    BY <1>1, <2>2
  <2> QED
    BY <2>1, <2>2
<1> HIDE DEF e, b, s
<1>6. /\ h.file = f /\ h.sclust = e.clust /\ h.clust = e.clust /\ h.offset = 0 /\ h.size = s
  BY <1>4
<1>7. h \in HandleRecs
  <2> DEFINE k == mode \cap {"READ", "WRITE"}
             t == cut
             n == FALSE
  <2>1. k \in SUBSET {"READ", "WRITE"} /\ t \in BOOLEAN /\ n \in BOOLEAN /\ NOSECT \in Int /\ 0 \in Nat
    BY DEF NOSECT
  <2>2. h = [file |-> f, sclust |-> e.clust, clust |-> e.clust, sect |-> NOSECT,
             offset |-> 0, size |-> s, mode |-> k, mod |-> t, dirty |-> n, buf |-> b]
    BY <1>4
  <2> HIDE DEF h, k, t, n
  <2> QED
    BY <1>2, <1>3, <2>1, <2>2 DEF HandleRecs
<1> HIDE DEF h
<1>8. Reaches(v, h, 0)
  BY <1>6, ChainSteps, Constants DEF Reaches
<1>9. 0 \div CLUST_SIZE = 0
  BY Constants
<1>10. HandleOK(v, h)
  BY <1>5, <1>6, <1>7, <1>8, <1>9 DEF HandleOK, e
<1> QED
  BY <1>10 DEF h, e

LEMMA OpenParts ==
  ASSUME VolOK(vol), NEW f \in Files, NEW mode, NEW x \in fat_file_open(f, mode)
  PROVE  \E w : /\ Begun(w, f)
               /\ \/ w.err # "NONE" /\ x = w
                  \/ \E z : /\ w.err = "NONE" /\ Fine(z) /\ z.err = "NONE" /\ z.v = w.v
                           /\ z.h = Handle(f, w.v.entry[f], mode)
                           /\ x \in fat_file_seek(z, IF "APPEND" \in mode THEN z.h.size ELSE 0)
<1> DEFINE found(w) == [w EXCEPT !.h = Handle(f, w.v.entry[f], mode)]
           to(w) == IF "APPEND" \in mode THEN w.h.size ELSE 0
           start == IF vol.entry[f] # Absent THEN {Call(Closed)} \cup Fault(Call(Closed))
                    ELSE IF "CREATE" \in mode THEN NewFile(f)
                    ELSE Failed(Call(Closed), "DENIED")
           F == UNION {IF w.err = "NONE" THEN {found(w)} ELSE {w} : w \in start}
           G == UNION {IF w.err = "NONE" THEN fat_file_seek(w, to(w)) ELSE {w} : w \in F}
<1>1. x \in G
  BY DEF fat_file_open, Then
<1>2. ASSUME NEW w \in start PROVE Begun(w, f)
  <2>1. Call(Closed) = [v |-> vol, h |-> Closed, err |-> "NONE", data |-> <<>>]
    BY DEF Call
  <2>2. CASE vol.entry[f] # Absent
    <3>1. w = Call(Closed) \/ w = [Call(Closed) EXCEPT !.err = "IO"]
      BY <1>2, <2>2 DEF Fault, Failed
    <3>2. w.v = vol /\ (w.err = "NONE" => w = Call(Closed)) /\ Call(Closed).h = Closed
      BY <2>1, <3>1
    <3> QED
      BY <2>1, <2>2, <3>2, GrowsRefl DEF Begun, Made
  <2>3. CASE vol.entry[f] = Absent /\ "CREATE" \in mode
    BY <1>2, <2>3, NewFileStep
  <2>4. CASE vol.entry[f] = Absent /\ "CREATE" \notin mode
    <3>1. w = [Call(Closed) EXCEPT !.err = "DENIED"]
      BY <1>2, <2>4 DEF Failed
    <3>2. w.v = vol /\ w.err = "DENIED"
      BY <2>1, <3>1
    <3> QED
      BY <3>2, GrowsRefl DEF Begun, Made
  <2> QED
    BY <2>2, <2>3, <2>4
<1> HIDE DEF start
<1>3. PICK z \in F : x \in IF z.err = "NONE" THEN fat_file_seek(z, to(z)) ELSE {z}
  BY <1>1
<1>4. PICK w \in start : z \in IF w.err = "NONE" THEN {found(w)} ELSE {w}
  BY <1>3
<1> HIDE DEF F, G
<1>5. Begun(w, f)
  BY <1>2, <1>4
<1>6. CASE w.err # "NONE"
  BY <1>3, <1>4, <1>5, <1>6
<1>7. CASE w.err = "NONE"
  <2> DEFINE k == Handle(f, w.v.entry[f], mode)
             d == <<>>
  <2>1. z = [v |-> w.v, h |-> k, err |-> "NONE", data |-> d]
    BY <1>4, <1>5, <1>7 DEF Begun
  <2>2. HandleOK(w.v, k) /\ VolOK(w.v) /\ Grows(vol, w.v)
    BY <1>5, <1>7, HandleMade DEF Begun
  <2>a. d \in Seq(Byte) /\ "NONE" \in Errs
    BY DEF Errs
  <2> HIDE DEF k, d, found
  <2>3. w.v \in Vols /\ k \in HandleRecs /\ d \in Seq(Byte) /\ "NONE" \in Errs
    BY <2>2, <2>a DEF VolOK, HandleOK
  <2>4. z \in Calls /\ z.v = w.v /\ z.h = k /\ z.err = "NONE"
    BY <2>1, <2>3 DEF Calls
  <2>5. Fine(z)
    BY <2>2, <2>4 DEF Fine
  <2>6. x \in fat_file_seek(z, to(z))
    BY <1>3, <2>4
  <2> QED
    BY <1>5, <1>7, <2>4, <2>5, <2>6 DEF k
<1> QED
  BY <1>6, <1>7

LEMMA OpenEnds ==
  ASSUME VolOK(vol), NEW f \in Files, NEW mode, NEW x \in fat_file_open(f, mode)
  PROVE  /\ VolOK(x.v) /\ Grows(vol, x.v)
         /\ x.err = "NONE" => HandleOK(x.v, x.h) /\ Placed(x.v, x.h)
<1>1. PICK w : /\ Begun(w, f)
               /\ \/ w.err # "NONE" /\ x = w
                  \/ \E z : /\ w.err = "NONE" /\ Fine(z) /\ z.err = "NONE" /\ z.v = w.v
                           /\ z.h = Handle(f, w.v.entry[f], mode)
                           /\ x \in fat_file_seek(z, IF "APPEND" \in mode THEN z.h.size ELSE 0)
  BY OpenParts
<1>2. CASE w.err # "NONE" /\ x = w
  BY <1>1, <1>2 DEF Begun
<1>3. ASSUME NEW z, Fine(z), z.err = "NONE", z.v = w.v,
             x \in fat_file_seek(z, IF "APPEND" \in mode THEN z.h.size ELSE 0)
      PROVE  /\ VolOK(x.v) /\ Grows(vol, x.v) /\ HandleOK(x.v, x.h)
             /\ x.err = "NONE" => Placed(x.v, x.h)
  <2> DEFINE off == IF "APPEND" \in mode THEN z.h.size ELSE 0
  <2>1. off \in Int
    BY <1>3 DEF Fine, Calls, HandleRecs
  <2> HIDE DEF off
  <2>2. Sought(z, x)
    BY <1>3, <2>1, SeekStep DEF off
  <2>3. VolOK(x.v) /\ Grows(w.v, x.v) /\ x.v \in Vols /\ vol \in Vols /\ w.v \in Vols
        /\ Grows(vol, w.v)
    BY <1>1, <1>3, <2>2 DEF Sought, Fine, VolOK, Begun
  <2>4. Grows(vol, x.v)
    BY <2>3, GrowsTrans
  <2> QED
    BY <2>2, <2>3, <2>4 DEF Sought, Fine
<1> QED
  BY <1>1, <1>2, <1>3

-----------------------------------------------------------------------------
(* The invariant. *)

LEMMA InitOK == Init => IInv
<1> SUFFICES ASSUME Init PROVE IInv
  OBVIOUS
<1> DEFINE fat == [c \in Clusters |-> FREE]
           data == [s \in Sectors |-> [i \in 0 .. SECT - 1 |-> 0]]
           dir == [f \in Files |-> Absent]
<1>1. vol = [fat |-> fat, hint |-> 2, data |-> data, entry |-> dir, dentry |-> dir]
  BY DEF Init
<1>2. /\ fat \in [Clusters -> {FREE, EOC} \cup Clusters] /\ \A c \in Clusters : fat[c] = FREE
      /\ dir \in [Files -> Entries] /\ \A f \in Files : dir[f] = Absent
      /\ data \in [Sectors -> Sector] /\ 2 \in Clusters
  <2>1. Absent \in Entries
    BY DEF Absent, Entries
  <2>2. [i \in 0 .. SECT - 1 |-> 0] \in Sector
    BY DEF Sector, Byte
  <2>3. 2 \in Clusters
    BY Constants DEF Clusters
  <2> QED
    BY <2>1, <2>2, <2>3
<1> HIDE DEF fat, data, dir
<1>3. vol \in Vols /\ vol.fat = fat /\ vol.entry = dir /\ vol.dentry = dir
  BY <1>1, <1>2 DEF Vols
<1>4. FatSound(vol)
  BY <1>2, <1>3, Constants DEF FatSound
<1>5. VolOK(vol)
  <2>1. \A f \in Files : EntryOK(vol, vol.entry[f]) /\ EntryOK(vol, vol.dentry[f])
    BY <1>2, <1>3 DEF EntryOK
  <2>2. \A f \in Files : vol.entry[f].clust = 0 /\ vol.dentry[f].clust = 0
    BY <1>2, <1>3 DEF Absent
  <2> QED
    BY <1>3, <1>4, <2>1, <2>2 DEF VolOK
<1>6. file \in [Handles -> {Closed} \cup HandleRecs] /\ \A h \in Handles : ~IsOpen(h)
  BY DEF Init, IsOpen
<1> QED
  BY <1>5, <1>6 DEF IInv

(* After a call on handle h every other handle is as sound as before. *)
LEMMA EndsOK ==
  ASSUME IInv, NEW h \in Handles, NEW w, NEW k, NEW d, Ends(h, w, k, d),
         VolOK(w.v), Grows(vol, w.v), k = Closed \/ (HandleOK(w.v, k) /\ Placed(w.v, k))
  PROVE  IInv'
<1>1. vol' = w.v /\ file' = [file EXCEPT ![h] = k]
  BY DEF Ends
<1>2. k \in {Closed} \cup HandleRecs
  BY DEF HandleOK
<1>3. file' \in [Handles -> {Closed} \cup HandleRecs]
  BY <1>1, <1>2 DEF IInv
<1>4. ASSUME NEW g \in Handles, file'[g] # Closed
      PROVE  HandleOK(vol', file'[g]) /\ Placed(vol', file'[g])
  <2>1. CASE g = h
    <3>1. file'[g] = k
      BY <1>1, <2>1 DEF IInv
    <3> QED
      BY <1>1, <1>4, <3>1
  <2>2. CASE g # h
    <3>1. file'[g] = file[g]
      BY <1>1, <2>2 DEF IInv
    <3>2. HandleOK(vol, file[g]) /\ Placed(vol, file[g])
      BY <1>4, <3>1 DEF IInv, IsOpen
    <3>3. vol \in Vols /\ w.v \in Vols
      BY DEF IInv, VolOK
    <3>4. HandleOK(w.v, file[g]) /\ Placed(w.v, file[g])
      BY <3>2, <3>3, GrowsHandle
    <3> QED
      BY <1>1, <3>1, <3>4
  <2> QED
    BY <2>1, <2>2
<1>5. VolOK(vol')
  BY <1>1
<1> QED
  BY <1>3, <1>4, <1>5 DEF IInv, IsOpen

LEMMA CallFine ==
  ASSUME IInv, NEW h \in Handles, IsOpen(h)
  PROVE  LET w == Call(file[h])
         IN  Fine(w) /\ w.err = "NONE" /\ w.v = vol /\ w.h = file[h] /\ Placed(w.v, w.h)
<1> DEFINE k == file[h]
           d == <<>>
           w == Call(k)
<1>1. VolOK(vol) /\ HandleOK(vol, k) /\ Placed(vol, k)
  BY DEF IInv
<1>2. vol \in Vols /\ k \in HandleRecs /\ d \in Seq(Byte) /\ "NONE" \in Errs
  BY <1>1 DEF VolOK, HandleOK, Errs
<1>3. w = [v |-> vol, h |-> k, err |-> "NONE", data |-> d]
  BY DEF Call
<1> HIDE DEF k, d, w
<1>4. w \in Calls /\ w.v = vol /\ w.h = k /\ w.err = "NONE"
  BY <1>2, <1>3 DEF Calls
<1> QED
  BY <1>1, <1>4 DEF Fine, w, k

(* A chain is in the FAT only. *)
LEMMA ChainOfFat ==
  ASSUME NEW v, NEW u, u.fat = v.fat, NEW c \in {0} \cup Clusters
  PROVE  Chain(u, c) = Chain(v, c) /\ \A i \in 0 .. Last : ChainOf(u, c)[i] = ChainOf(v, c)[i]
<1>1. \A i : Succ(u, i) = Succ(v, i)
  BY DEF Succ
<1> DEFINE p == ChainOf(v, c)
           q == ChainOf(u, c)
           T == {i \in 0 .. Last : q[i] = p[i]}
<1>2. /\ p[0] = c /\ \A i \in 1 .. Last : p[i] = Succ(v, p[i - 1])
      /\ q[0] = c /\ \A i \in 1 .. Last : q[i] = Succ(u, q[i - 1])
  BY ChainSteps
<1>3. Last \in Nat
  BY Constants
<1>4. \A a \in Chain(v, c) : a # 0 /\ \E i \in 0 .. Last : p[i] = a
  BY ChainMembers, Constants
<1>5. \A a \in Chain(u, c) : a # 0 /\ \E i \in 0 .. Last : q[i] = a
  BY ChainMembers, Constants
<1>6. \A i \in 0 .. Last : p[i] # 0 => p[i] \in Chain(v, c)
  BY ChainMembers
<1>7. \A i \in 0 .. Last : q[i] # 0 => q[i] \in Chain(u, c)
  BY ChainMembers
<1> HIDE DEF p, q
<1>8. 0 \in T
  BY <1>2, <1>3
<1>9. ASSUME NEW i \in 1 .. Last, i - 1 \in T PROVE i \in T
  BY <1>1, <1>2, <1>3, <1>9
<1>10. \A i \in 0 .. Last : i \in T
  <2> HIDE DEF T
  <2> QED
    BY <1>3, <1>8, <1>9, UpTo
<1>11. \A i \in 0 .. Last : q[i] = p[i]
  BY <1>10
<1>12. Chain(u, c) = Chain(v, c)
  BY <1>4, <1>5, <1>6, <1>7, <1>11
<1> QED
  BY <1>11, <1>12 DEF p, q

(* The directory of the disk is as sound as the one that is read. *)
LEMMA PowerOK ==
  ASSUME IInv, PowerLoss
  PROVE  IInv'
<1>1. PICK e \in {vol.entry, vol.dentry} : vol' = [vol EXCEPT !.entry = e, !.dentry = e]
  BY DEF PowerLoss
<1> DEFINE u == [vol EXCEPT !.entry = e, !.dentry = e]
<1>2. VolOK(vol) /\ vol \in Vols
  BY DEF IInv, VolOK
<1>3. u \in Vols /\ u.fat = vol.fat /\ u.entry = e /\ u.dentry = e
  BY <1>2 DEF Vols
<1>4. vol' = u
  BY <1>1
<1> HIDE DEF u
<1>5. FatSound(u)
  <2>1. FatSound(vol)
    BY <1>2 DEF VolOK
  <2> QED
    BY <1>3, <2>1 DEF FatSound
<1>6. ASSUME NEW f \in Files PROVE EntryOK(u, e[f])
  <2>1. e[f] \in Entries /\ EntryOK(vol, e[f])
    BY <1>2 DEF VolOK, Vols
  <2>2. e[f] # Absent => Starts(vol, e[f].clust) /\ Covered(vol, e[f].clust, e[f].size)
    BY <2>1 DEF EntryOK
  <2> DEFINE c == e[f].clust
             n == e[f].size
  <2>3. c \in {0} \cup Clusters
    BY <2>1 DEF Entries
  <2>4. Starts(vol, c) => Starts(u, c)
    <3> HIDE DEF c
    <3> QED
      BY <1>3 DEF Starts
  <2>5. Chain(u, c) = Chain(vol, c)
    <3> HIDE DEF c
    <3> QED
      BY <1>3, <2>3, ChainOfFat
  <2>6. Covered(vol, c, n) => Covered(u, c, n)
    BY <2>5 DEF Covered
  <2> QED
    BY <2>2, <2>4, <2>6 DEF EntryOK
<1>7. \A f \in Files : e[f].clust \in {0, vol.entry[f].clust}
  BY <1>2 DEF VolOK
<1>8. \A f, g \in Files : f # g /\ e[f].clust # 0 => e[f].clust # e[g].clust
  <2>1. \A f, g \in Files :
          f # g /\ vol.entry[f].clust # 0 => vol.entry[f].clust # vol.entry[g].clust
    BY <1>2 DEF VolOK
  <2> QED
    BY <1>7, <2>1
<1>9. VolOK(u)
  BY <1>3, <1>5, <1>6, <1>8 DEF VolOK
<1>10. file' = [h \in Handles |-> Closed]
  BY DEF PowerLoss
<1>11. file' \in [Handles -> {Closed} \cup HandleRecs] /\ \A h \in Handles : file'[h] = Closed
  BY <1>10
<1> QED
  BY <1>4, <1>9, <1>11 DEF IInv, IsOpen

LEMMA NextOK ==
  ASSUME IInv, [Next]_vars
  PROVE  IInv'
<1>1. ASSUME NEW h \in Handles, NEW f \in Files, NEW mode, Open(h, f, mode) PROVE IInv'
  <2>1. VolOK(vol)
    BY DEF IInv
  <2>2. PICK w \in fat_file_open(f, mode) :
          \/ w.err = "NONE" /\ Ends(h, w, w.h, NoBytes)
          \/ w.err # "NONE" /\ Ends(h, w, Closed, NoBytes)
    BY <1>1 DEF Open
  <2>3. /\ VolOK(w.v) /\ Grows(vol, w.v)
        /\ w.err = "NONE" => HandleOK(w.v, w.h) /\ Placed(w.v, w.h)
    BY <2>1, OpenEnds
  <2>4. PICK k : Ends(h, w, k, NoBytes) /\ (k = Closed \/ (HandleOK(w.v, k) /\ Placed(w.v, k)))
    BY <2>2, <2>3
  <2> QED
    BY <2>3, <2>4, EndsOK
<1>2. ASSUME NEW h \in Handles, IsOpen(h), NEW x, Sought(Call(file[h]), x), NEW k, NEW d,
             Ends(h, x, k, d), k \in {Closed, x.h}
      PROVE  IInv'
  <2>1. LET w == Call(file[h])
        IN  Fine(w) /\ w.err = "NONE" /\ w.v = vol /\ w.h = file[h] /\ Placed(w.v, w.h)
    BY <1>2, CallFine
  <2>2. VolOK(x.v) /\ Grows(vol, x.v) /\ HandleOK(x.v, x.h) /\ Placed(x.v, x.h)
    BY <1>2, <2>1 DEF Sought, Fine
  <2> QED
    BY <1>2, <2>2, EndsOK
<1>3. ASSUME NEW h \in Handles, IsOpen(h)
      PROVE  LET w == Call(file[h])
             IN  Fine(w) /\ w.err = "NONE" /\ Placed(w.v, w.h)
  BY <1>3, CallFine
<1>4. ASSUME NEW h \in Handles, NEW n \in Nat, Read(h, n) PROVE IInv'
  <2>1. PICK x \in fat_file_read(Call(file[h]), n) :
          Ends(h, x, x.h, IF x.err = "NONE" THEN x.data ELSE NoBytes)
    BY <1>4 DEF Read
  <2>2. IsOpen(h)
    BY <1>4 DEF Read
  <2>3. Sought(Call(file[h]), x)
    BY <1>3, <2>1, <2>2, ReadEnds
  <2> QED
    BY <1>2, <2>1, <2>2, <2>3
<1>5. ASSUME NEW h \in Handles, NEW s \in Seq(Byte), Write(h, s) PROVE IInv'
  <2>1. PICK x \in fat_file_write(Call(file[h]), s) : Ends(h, x, x.h, NoBytes)
    BY <1>5 DEF Write
  <2>2. IsOpen(h)
    BY <1>5 DEF Write
  <2>3. Sought(Call(file[h]), x)
    BY <1>3, <2>1, <2>2, WriteEnds
  <2> QED
    BY <1>2, <2>1, <2>2, <2>3
<1>6. ASSUME NEW h \in Handles, NEW off \in Int, NEW whence \in {"START", "CURR", "END"},
             Seek(h, off, whence)
      PROVE  IInv'
  <2>1. PICK x \in fat_file_seek(Call(file[h]), Target(file[h], off, whence)) :
          Ends(h, x, x.h, NoBytes)
    BY <1>6 DEF Seek
  <2>2. IsOpen(h)
    BY <1>6 DEF Seek
  <2>3. Target(file[h], off, whence) \in Int
    <3>1. file[h] \in HandleRecs
      BY <2>2 DEF IInv, HandleOK
    <3>2. file[h].offset \in Nat /\ file[h].size \in Nat
      BY <3>1 DEF HandleRecs
    <3> QED
      BY <3>2 DEF Target
  <2>4. Sought(Call(file[h]), x)
    BY <1>3, <2>1, <2>2, <2>3, SeekStep
  <2> QED
    BY <1>2, <2>1, <2>2, <2>4
<1>7. ASSUME NEW h \in Handles, IsOpen(h), NEW x \in fat_file_sync(Call(file[h]))
      PROVE  Sought(Call(file[h]), x)
  <2>1. Still(Call(file[h]), x)
    BY <1>3, <1>7, SyncEnds
  <2> QED
    BY <1>3, <1>7, <2>1, StillPlaced DEF Sought, Still
<1>8. ASSUME NEW h \in Handles, Sync(h) PROVE IInv'
  <2>1. PICK x \in fat_file_sync(Call(file[h])) : Ends(h, x, x.h, NoBytes)
    BY <1>8 DEF Sync
  <2>2. IsOpen(h)
    BY <1>8 DEF Sync
  <2> QED
    BY <1>2, <1>7, <2>1, <2>2
<1>9. ASSUME NEW h \in Handles, Close(h) PROVE IInv'
  <2>1. PICK x \in fat_file_sync(Call(file[h])) :
          Ends(h, x, IF x.err = "NONE" THEN Closed ELSE x.h, NoBytes)
    BY <1>9 DEF Close
  <2>2. IsOpen(h)
    BY <1>9 DEF Close
  <2>3. (IF x.err = "NONE" THEN Closed ELSE x.h) \in {Closed, x.h}
    OBVIOUS
  <2> QED
    BY <1>2, <1>7, <2>1, <2>2, <2>3
<1>10. CASE PowerLoss
  BY <1>10, PowerOK
<1>11. CASE UNCHANGED vars
  <2>1. vol' = vol /\ file' = file
    BY <1>11 DEF vars
  <2> QED
    BY <2>1 DEF IInv, IsOpen
<1>12. \A t \in Texts : t \in Seq(Byte)
  <2> SUFFICES ASSUME NEW t \in Texts PROVE t \in Seq(Byte)
    OBVIOUS
  <2>1. t \in Seq(Bytes)
    BY FileAssumption
  <2> QED
    BY <2>1 DEF Byte
<1>13. ASSUME NEW h \in Handles, NEW u \in Uses, Open(h, u[2], u[3]) PROVE IInv'
  BY <1>1, <1>13, FileAssumption
<1>14. ASSUME NEW h \in Handles, NEW n \in Counts, Read(h, n) PROVE IInv'
  BY <1>4, <1>14, FileAssumption
<1>15. ASSUME NEW h \in Handles, NEW s \in Texts, Write(h, s) PROVE IInv'
  BY <1>5, <1>12, <1>15
<1>16. ASSUME NEW h \in Handles, NEW k \in Seeks, Seek(h, k[1], k[2]) PROVE IInv'
  BY <1>6, <1>16, FileAssumption
<1> QED
  BY <1>8, <1>9, <1>10, <1>11, <1>13, <1>14, <1>15, <1>16 DEF Next

(* No cluster is in the chains of two files. *)
LEMMA ChainsApart ==
  ASSUME NEW v, VolOK(v), NEW f \in Files, NEW g \in Files, f # g
  PROVE  Chain(v, v.entry[f].clust) \cap Chain(v, v.entry[g].clust) = {}
<1> DEFINE a == v.entry[f].clust
           b == v.entry[g].clust
<1>1. v \in Vols /\ FatSound(v) /\ (a # 0 => a # b)
  BY DEF VolOK
<1>2. a \in {0} \cup Clusters /\ b \in {0} \cup Clusters
  BY <1>1 DEF Vols, Entries
<1>3. (a # 0 => Starts(v, a)) /\ (b # 0 => Starts(v, b))
  BY DEF VolOK, EntryOK, Absent
<1> HIDE DEF a, b
<1>4. ASSUME Chain(v, 0) # {} PROVE FALSE
  <2>1. PICK d \in Chain(v, 0) : TRUE
    BY <1>4
  <2> DEFINE p == ChainOf(v, 0)
             T == {i \in 0 .. Last : p[i] = 0}
  <2>2. p[0] = 0 /\ \A i \in 1 .. Last : p[i] = Succ(v, p[i - 1])
    BY ChainSteps
  <2>3. 0 \in {0} \cup Clusters /\ Last \in Nat
    BY Constants
  <2>4. PICK k \in 0 .. Last : p[k] = d
    BY <2>1, <2>3, ChainMembers
  <2>5. d # 0
    BY <2>1, <2>3, ChainMembers, Constants
  <2> HIDE DEF p
  <2>6. 0 \in T
    BY <2>2, <2>3
  <2>7. ASSUME NEW i \in 1 .. Last, i - 1 \in T PROVE i \in T
    BY <2>2, <2>3, <2>7 DEF Succ
  <2>8. \A i \in 0 .. Last : i \in T
    <3> HIDE DEF T
    <3> QED
      BY <2>3, <2>6, <2>7, UpTo
  <2> QED
    BY <2>4, <2>5, <2>8
<1>5. ASSUME NEW c \in Chain(v, a), c \in Chain(v, b) PROVE FALSE
  <2>1. c \in Clusters /\ c # 0
    BY <1>2, <1>5, ChainMembers, Constants
  <2>2. a # 0 /\ b # 0
    BY <1>4, <1>5, <2>1
  <2>3. PICK i \in 0 .. Last : ChainOf(v, a)[i] = c
    BY <1>2, <1>5, ChainMembers
  <2>4. PICK j \in 0 .. Last : ChainOf(v, b)[j] = c
    BY <1>2, <1>5, ChainMembers
  <2>5. a = b
    BY <1>1, <1>3, <2>1, <2>2, <2>3, <2>4, ChainsMeet
  <2> QED
    BY <1>1, <2>2, <2>5
<1>6. Chain(v, a) \cap Chain(v, b) = {}
  BY <1>5
<1> QED
  BY <1>6 DEF a, b

LEMMA OwnFollows == IInv => OwnChain
<1> SUFFICES ASSUME IInv PROVE OwnChain
  OBVIOUS
<1>1. ASSUME NEW h \in Handles, IsOpen(h)
      PROVE  /\ file[h].clust \in Chain(vol, file[h].sclust)
             /\ file[h].sect \div SPC + 2 \in Chain(vol, file[h].sclust)
  <2>1. HandleOK(vol, file[h]) /\ Placed(vol, file[h])
    BY <1>1 DEF IInv
  <2>2. file[h].clust \in Chain(vol, file[h].sclust)
    BY <2>1, ReachesMember DEF HandleOK
  <2> QED
    BY <2>1, <2>2 DEF Placed
<1>2. ASSUME NEW f \in Files, NEW g \in Files, f # g
      PROVE  Chain(vol, vol.entry[f].clust) \cap Chain(vol, vol.entry[g].clust) = {}
  BY <1>2, ChainsApart DEF IInv
<1> QED
  BY <1>1, <1>2 DEF OwnChain

LEMMA SizesFollow == IInv => ChainCoversSize
<1> SUFFICES ASSUME IInv PROVE ChainCoversSize
  OBVIOUS
<1>1. ASSUME NEW h \in Handles, IsOpen(h)
      PROVE  file[h].size <= CLUST_SIZE * Cardinality(Chain(vol, file[h].sclust))
  BY <1>1 DEF IInv, HandleOK, Covered
<1>2. ASSUME NEW f \in Files
      PROVE  vol.entry[f].size <= CLUST_SIZE * Cardinality(Chain(vol, vol.entry[f].clust))
  <2>1. EntryOK(vol, vol.entry[f]) /\ vol \in Vols
    BY DEF IInv, VolOK
  <2>2. CASE vol.entry[f] # Absent
    BY <2>1, <2>2 DEF EntryOK, Covered
  <2>3. CASE vol.entry[f] = Absent
    <3>1. vol.entry[f].size = 0 /\ vol.entry[f].clust = 0
      BY <2>3 DEF Absent
    <3>2. 0 \in {0} \cup Clusters
      OBVIOUS
    <3>3. Cardinality(Chain(vol, 0)) \in Nat
      BY <3>2, ChainMembers
    <3>4. 0 <= CLUST_SIZE * Cardinality(Chain(vol, 0))
      BY <3>3, Constants
    <3> QED
      BY <3>1, <3>4
  <2> QED
    BY <2>2, <2>3
<1> QED
  BY <1>1, <1>2 DEF ChainCoversSize

(* OwnChain holds of every volume: whatever access fails inside open, seek,*)
(* read, write, sync or close, and whatever a power loss leaves, the       *)
(* cluster of a handle and the sector its buffer is written to are in the  *)
(* chain of its own file, and no cluster is in the chains of two files.    *)
THEOREM FileOwnChain == Spec => []OwnChain
<1>1. Spec => []IInv
  BY InitOK, NextOK, PTL DEF Spec
<1> QED
  BY <1>1, OwnFollows, PTL

(* ChainCoversSize holds of every volume: fat_file_write never makes a     *)
(* size, in the handle or by fat_file_sync in the directory, that the      *)
(* chain of the file cannot hold, also when the seek inside it fails.      *)
THEOREM FileSizesCovered == Spec => []ChainCoversSize
<1>1. Spec => []IInv
  BY InitOK, NextOK, PTL DEF Spec
<1> QED
  BY <1>1, SizesFollow, PTL

-----------------------------------------------------------------------------
(* RefinesFiles.  Byte k of a file is byte k % SECT of its sector k \div   *)
(* SECT, which is in cluster k \div CLUST_SIZE of its chain; it is in the  *)
(* buffer of the handle that holds the sector, or on the disk (Held).  A   *)
(* seek that succeeds moves the buffer and leaves every byte (SeekArrived).*)

LEMMA Unique ==
  ASSUME NEW b \in Nat, b > 0, NEW k \in Nat, NEW q \in Nat, b * q <= k, k < b * (q + 1)
  PROVE  k \div b = q
<1>1. b * (q + 1) = b * q + b
  OBVIOUS
<1> DEFINE r == k - b * q
<1>2. r \in 0 .. b - 1 /\ k = q * b + r
  BY <1>1
<1> HIDE DEF r
<1> QED
  BY <1>2, QuotientOf

LEMMA SectorCluster ==
  ASSUME NEW k \in Nat
  PROVE  /\ k \div SECT \in Nat /\ k % SECT \in 0 .. SECT - 1
         /\ (k \div SECT) \div SPC = k \div CLUST_SIZE
         /\ (k \div SECT) % SPC \in 0 .. SPC - 1 /\ k \div CLUST_SIZE \in Nat
<1> DEFINE a == k \div SECT
           q == a \div SPC
<1>0. SECT \in Nat /\ SECT > 0 /\ SPC \in Nat /\ SPC > 0 /\ CLUST_SIZE \in Nat /\ CLUST_SIZE > 0
  BY Constants
<1>1. a \in Nat /\ k % SECT \in 0 .. SECT - 1 /\ SECT * a <= k /\ k < SECT * (a + 1)
  BY <1>0, Quotient
<1> HIDE DEF a
<1>2. q \in Nat /\ a % SPC \in 0 .. SPC - 1 /\ SPC * q <= a /\ a < SPC * (q + 1)
  BY <1>0, <1>1, Quotient
<1> HIDE DEF q
<1> DEFINE m == SPC * q
           n == SPC * (q + 1)
<1>3. m \in Nat /\ n \in Nat /\ m <= a /\ a + 1 <= n
  BY <1>0, <1>1, <1>2
<1>4. CLUST_SIZE * q = SECT * m /\ CLUST_SIZE * (q + 1) = SECT * n
  BY <1>0, <1>2 DEF CLUST_SIZE
<1> HIDE DEF m, n
<1>5. SECT * m <= SECT * a /\ SECT * (a + 1) <= SECT * n
  BY <1>0, <1>1, <1>3
<1>6. SECT * m \in Nat /\ SECT * a \in Nat /\ SECT * (a + 1) \in Nat /\ SECT * n \in Nat
  BY <1>0, <1>1, <1>3
<1>7. CLUST_SIZE * q <= k /\ k < CLUST_SIZE * (q + 1)
  BY <1>1, <1>4, <1>5, <1>6
<1>8. k \div CLUST_SIZE = q
  BY <1>0, <1>2, <1>7, Unique
<1> QED
  BY <1>1, <1>2, <1>8 DEF a, q

(* The bytes that follow byte o in its sector. *)
LEMMA SameSector ==
  ASSUME NEW o \in Nat, NEW i \in Nat, i < SECT - (o % SECT)
  PROVE  (o + i) \div SECT = o \div SECT /\ (o + i) % SECT = (o % SECT) + i
<1> DEFINE a == o \div SECT
           r == o % SECT
<1>0. SECT \in Nat /\ SECT > 0
  BY Constants
<1>1. o = SECT * a + r /\ a \in Nat /\ r \in Nat /\ r < SECT
  BY <1>0
<1>2. i < SECT - r
  OBVIOUS
<1> HIDE DEF a, r
<1>3. SECT * a \in Nat /\ SECT * (a + 1) = SECT * a + SECT
  BY <1>0, <1>1
<1>4. SECT * a <= o + i /\ o + i < SECT * (a + 1) /\ o + i \in Nat
  BY <1>0, <1>1, <1>2, <1>3
<1>5. (o + i) \div SECT = a
  BY <1>0, <1>1, <1>4, Unique
<1>6. o + i = SECT * ((o + i) \div SECT) + ((o + i) % SECT) /\ (o + i) % SECT \in Nat
  BY <1>0, <1>4
<1>7. (o + i) % SECT = r + i
  BY <1>0, <1>1, <1>3, <1>5, <1>6
<1> QED
  BY <1>5, <1>7 DEF a, r

LEMMA SectorBytes ==
  ASSUME NEW o \in Nat, NEW k \in Nat, k \div SECT = o \div SECT
  PROVE  k - o = (k % SECT) - (o % SECT)
<1> DEFINE a == o \div SECT
<1>0. SECT \in Nat /\ SECT > 0
  BY Constants
<1>1. o = SECT * a + (o % SECT) /\ k = SECT * a + (k % SECT) /\ SECT * a \in Int
      /\ o % SECT \in Int /\ k % SECT \in Int
  BY <1>0
<1> HIDE DEF a
<1> QED
  BY <1>1

(* After its end a chain stays at its end. *)
LEMMA ChainEnds ==
  ASSUME NEW v, NEW a \in {0} \cup Clusters, NEW q \in 0 .. Last, ChainOf(v, a)[q] = 0
  PROVE  \A i \in q .. Last : ChainOf(v, a)[i] = 0
<1> DEFINE p == ChainOf(v, a)
           T == {j \in 0 .. Last - q : p[q + j] = 0}
<1>0. Last \in Nat /\ q \in Nat /\ Last - q \in Nat
  BY Constants
<1>1. \A i \in 1 .. Last : p[i] = Succ(v, p[i - 1])
  BY ChainSteps
<1> HIDE DEF p
<1>2. 0 \in T
  BY <1>0 DEF p
<1>3. ASSUME NEW j \in 1 .. Last - q, j - 1 \in T PROVE j \in T
  <2>1. q + j \in 1 .. Last /\ (q + j) - 1 = q + (j - 1)
    BY <1>0
  <2>2. p[q + (j - 1)] = 0
    BY <1>3
  <2>3. p[q + j] = Succ(v, p[q + (j - 1)])
    BY <1>1, <2>1
  <2> QED
    BY <1>0, <2>2, <2>3 DEF Succ
<1>4. \A j \in 0 .. Last - q : j \in T
  <2> HIDE DEF T
  <2> QED
    BY <1>0, <1>2, <1>3, UpTo
<1>5. ASSUME NEW i \in q .. Last PROVE p[i] = 0
  <2>1. i - q \in 0 .. Last - q /\ q + (i - q) = i
    BY <1>0
  <2>2. i - q \in T
    BY <1>4, <2>1
  <2>3. p[q + (i - q)] = 0
    BY <2>2
  <2> QED
    BY <2>1, <2>3
<1> QED
  BY <1>5 DEF p

(* A chain of which only q positions are taken has at most q clusters. *)
LEMMA ChainShort ==
  ASSUME NEW v, NEW a \in {0} \cup Clusters, NEW q \in Nat,
         \A i \in 0 .. Last : i >= q => ChainOf(v, a)[i] = 0
  PROVE  Cardinality(Chain(v, a)) <= q
<1> DEFINE p == ChainOf(v, a)
           D == 0 .. q - 1
           S == {p[i] : i \in D}
           g == [i \in D |-> p[i]]
<1>1. Chain(v, a) \subseteq S
  <2> SUFFICES ASSUME NEW c \in Chain(v, a) PROVE c \in S
    OBVIOUS
  <2>1. PICK i \in 0 .. Last : p[i] = c
    BY ChainMembers
  <2>2. c # 0
    BY ChainMembers, Constants
  <2>3. i \in D
    BY <2>1, <2>2, Constants
  <2> QED
    BY <2>1, <2>3
<1>2. IsFiniteSet(D) /\ Cardinality(D) = q
  <2>1. 0 \in Int /\ q - 1 \in Int
    OBVIOUS
  <2>2. IsFiniteSet(D) /\ Cardinality(D) = IF 0 > q - 1 THEN 0 ELSE (q - 1) - 0 + 1
    BY <2>1, FS_Interval
  <2> QED
    BY <2>2
<1> HIDE DEF D, p
<1>3. g \in Surjection(D, S)
  BY DEF Surjection
<1>4. IsFiniteSet(S) /\ Cardinality(S) <= Cardinality(D)
  <2> HIDE DEF g, S
  <2> QED
    BY <1>2, <1>3, FS_Surjection
<1> HIDE DEF S
<1>5. Cardinality(Chain(v, a)) <= Cardinality(S)
  BY <1>1, <1>4, FS_Subset
<1>6. Cardinality(Chain(v, a)) \in Nat /\ Cardinality(S) \in Nat
  BY <1>4, ChainMembers, FS_CardinalityType
<1> QED
  BY <1>2, <1>4, <1>5, <1>6

(* A byte below a size that is covered is in a cluster of the chain. *)
LEMMA CoveredAt ==
  ASSUME NEW v, NEW a \in {0} \cup Clusters, NEW n \in Nat, Covered(v, a, n),
         NEW k \in Nat, k < n
  PROVE  k \div CLUST_SIZE \in 0 .. Last /\ ChainOf(v, a)[k \div CLUST_SIZE] # 0
<1> DEFINE q == k \div CLUST_SIZE
           m == Cardinality(Chain(v, a))
<1>1. q \in Nat /\ CLUST_SIZE * q <= k /\ CLUST_SIZE \in Nat /\ CLUST_SIZE > 0
  BY Constants, Quotient
<1>2. m \in Nat /\ n <= CLUST_SIZE * m
  BY ChainMembers DEF Covered
<1> SUFFICES ASSUME ~(q \in 0 .. Last /\ ChainOf(v, a)[q] # 0) PROVE FALSE
  OBVIOUS
<1>3. \A i \in 0 .. Last : i >= q => ChainOf(v, a)[i] = 0
  <2>1. CASE q \in 0 .. Last
    <3>1. ChainOf(v, a)[q] = 0
      BY <2>1
    <3> HIDE DEF q
    <3>2. \A i \in q .. Last : ChainOf(v, a)[i] = 0
      BY <2>1, <3>1, ChainEnds
    <3> QED
      BY <1>1, <3>2, Constants
  <2>2. CASE q \notin 0 .. Last
    <3> HIDE DEF q
    <3> QED
      BY <1>1, <2>2, Constants
  <2> QED
    BY <2>1, <2>2
<1>4. m <= q
  <2> HIDE DEF q
  <2> QED
    BY <1>1, <1>3, ChainShort
<1> HIDE DEF q, m
<1>5. CLUST_SIZE * m <= CLUST_SIZE * q
  BY <1>1, <1>2, <1>4
<1>6. CLUST_SIZE * m \in Nat /\ CLUST_SIZE * q \in Nat
  BY <1>1, <1>2
<1> QED
  BY <1>1, <1>2, <1>5, <1>6

(* Sector n of the chain that begins with a. *)
SectOf(v, a, n) == clust_to_sect(ChainOf(v, a)[n \div SPC]) + (n % SPC)

(* Position n of the chain is taken. *)
InChain(v, a, n) == n \div SPC \in 0 .. Last /\ ChainOf(v, a)[n \div SPC] # 0

LEMMA SectIn ==
  ASSUME NEW v, NEW a \in {0} \cup Clusters, NEW n \in Nat, InChain(v, a, n)
  PROVE  /\ SectOf(v, a, n) \in Sectors
         /\ SectOf(v, a, n) \div SPC + 2 = ChainOf(v, a)[n \div SPC]
         /\ SectOf(v, a, n) \div SPC + 2 \in Chain(v, a)
<1> DEFINE c == ChainOf(v, a)[n \div SPC]
           r == n % SPC
<1>1. c \in Clusters /\ c \in Chain(v, a) /\ n \div SPC \in 0 .. Last
  BY ChainTyped, ChainMembers DEF InChain
<1>2. r \in 0 .. SPC - 1
  BY Constants, Quotient
<1> HIDE DEF c, r
<1>3. clust_to_sect(c) + r \in Sectors /\ (clust_to_sect(c) + r) \div SPC + 2 = c
  BY <1>1, <1>2, SectorOf
<1> QED
  BY <1>1, <1>3 DEF c, r, SectOf

(* Two sectors of a chain are not the same. *)
LEMMA SectInjective ==
  ASSUME NEW v \in Vols, FatSound(v), NEW a, Starts(v, a), NEW n \in Nat, NEW m \in Nat,
         InChain(v, a, n), InChain(v, a, m), SectOf(v, a, n) = SectOf(v, a, m)
  PROVE  n = m
<1> DEFINE i == n \div SPC
           j == m \div SPC
           c == ChainOf(v, a)[i]
           d == ChainOf(v, a)[j]
<1>0. a \in {0} \cup Clusters
  BY DEF Starts
<1>1. c = d /\ c # 0 /\ i \in 0 .. Last /\ j \in 0 .. Last
  <2>1. SectOf(v, a, n) \div SPC + 2 = c /\ SectOf(v, a, m) \div SPC + 2 = d
    BY <1>0, SectIn
  <2> QED
    BY <2>1 DEF InChain
<1>2. i = j
  <2> HIDE DEF i, j
  <2> QED
    BY <1>1, ChainsMeet
<1>3. c \in Clusters
  BY <1>0, <1>1, ChainTyped
<1>4. clust_to_sect(c) \in Int
  BY <1>3, Constants DEF clust_to_sect, Clusters
<1>5. n % SPC \in 0 .. SPC - 1 /\ m % SPC \in 0 .. SPC - 1 /\ SPC \in Nat /\ SPC > 0
  BY Constants, Quotient
<1>6. SectOf(v, a, n) = clust_to_sect(c) + (n % SPC) /\ SectOf(v, a, m) = clust_to_sect(c) + (m % SPC)
  BY <1>1 DEF SectOf
<1> HIDE DEF c
<1>7. n % SPC = m % SPC
  <2> DEFINE x == n % SPC
             y == m % SPC
             z == clust_to_sect(c)
  <2>1. x \in Int /\ y \in Int /\ z \in Int
    BY <1>4, <1>5
  <2>3. SectOf(v, a, n) = z + x /\ SectOf(v, a, m) = z + y
    BY <1>6
  <2> HIDE DEF x, y, z
  <2>4. z + x = z + y
    BY <2>3, Zenon
  <2>2. x = y
    BY <2>1, <2>4
  <2> QED
    BY <2>2 DEF x, y
<1>8. n = SPC * i + (n % SPC) /\ m = SPC * j + (m % SPC)
  BY <1>5
<1> QED
  BY <1>2, <1>7, <1>8

-----------------------------------------------------------------------------
(* A sector as the file's user sees it, and a byte of the file. *)
Held(v, h, s) == IF h.sect = s THEN h.buf ELSE v.data[s]
ByteAt(v, h, k) == Held(v, h, SectOf(v, h.sclust, k \div SECT))[k % SECT]

SameHeld(v, h, u, g) == \A s \in Sectors : Held(u, g, s) = Held(v, h, s)

(* The buffer is that of the disk, unless it was written to. *)
Saved(v, h) == ~h.dirty \/ ~h.mod => h.buf = v.data[h.sect]

(* A handle that is where it seems to be, and one that was just made. *)
Exact(v, h) ==
  /\ Stands(v, h, h.offset \div CLUST_SIZE)
  /\ h.sect = SectOf(v, h.sclust, h.offset \div SECT)
  /\ Saved(v, h)
Ready(v, h) ==
  /\ Stands(v, h, h.offset \div CLUST_SIZE)
  /\ \/ h.sect \in Sectors /\ Saved(v, h)
     \/ h.sect = NOSECT /\ ~h.dirty

(* What stays of handle and call while the buffer is moved. *)
SameFile(g, h) ==
  g.file = h.file /\ g.sclust = h.sclust /\ g.size = h.size /\ g.mode = h.mode /\ g.mod = h.mod
BufferOnly(w, x) ==
  /\ x.v.fat = w.v.fat /\ x.v.entry = w.v.entry /\ x.v.dentry = w.v.dentry /\ x.data = w.data
  /\ SameFile(x.h, w.h)
  /\ x.h.clust = w.h.clust /\ x.h.offset = w.h.offset /\ x.h.sect = w.h.sect

LEMMA BufferTrans ==
  ASSUME NEW w, NEW y, NEW x, BufferOnly(w, y), BufferOnly(y, x)
  PROVE  BufferOnly(w, x)
BY DEF BufferOnly, SameFile

LEMMA FaultMoves ==
  ASSUME NEW w \in Calls, NEW x \in Fault(w)
  PROVE  BufferOnly(w, x) /\ x.v = w.v /\ x.h = w.h /\ x.err = "IO"
<1>1. x = [w EXCEPT !.err = "IO"]
  BY DEF Fault, Failed
<1>2. x.v = w.v /\ x.h = w.h /\ x.data = w.data /\ x.err = "IO"
  BY <1>1 DEF Calls
<1> QED
  BY <1>2 DEF BufferOnly, SameFile

LEMMA LoadMoves ==
  ASSUME NEW w \in Calls, NEW x, x = [w EXCEPT !.h.buf = w.v.data[w.h.sect]]
  PROVE  /\ BufferOnly(w, x) /\ x.v = w.v /\ x.err = w.err
         /\ x.h.buf = w.v.data[w.h.sect] /\ x.h.dirty = w.h.dirty
<1> DEFINE b == w.v.data[w.h.sect]
           g == [w.h EXCEPT !.buf = b]
<1>1. x.v = w.v /\ x.h = g /\ x.data = w.data /\ x.err = w.err
  BY DEF Calls
<1> HIDE DEF b
<1>2. /\ SameFile(g, w.h) /\ g.clust = w.h.clust /\ g.offset = w.h.offset /\ g.sect = w.h.sect
      /\ g.buf = b /\ g.dirty = w.h.dirty
  BY DEF Calls, HandleRecs, SameFile
<1> QED
  BY <1>1, <1>2 DEF BufferOnly, b

LEMMA SaveMoves ==
  ASSUME NEW w \in Calls, NEW s, NEW x, x = [w EXCEPT !.v.data[s] = w.h.buf, !.h.dirty = FALSE]
  PROVE  /\ BufferOnly(w, x) /\ x.err = w.err /\ x.h.dirty = FALSE
         /\ x.v.data = [w.v.data EXCEPT ![s] = w.h.buf] /\ x \in Calls
<1> DEFINE d == [w.v.data EXCEPT ![s] = w.h.buf]
           u == [w.v EXCEPT !.data = d]
           g == [w.h EXCEPT !.dirty = FALSE]
<1>1. x.v = u /\ x.h = g /\ x.data = w.data /\ x.err = w.err /\ x = [w EXCEPT !.v = u, !.h = g]
  BY DEF Calls
<1>2. d \in [Sectors -> Sector]
  BY DEF Calls, Vols, HandleRecs
<1> HIDE DEF d
<1>3. u.fat = w.v.fat /\ u.entry = w.v.entry /\ u.dentry = w.v.dentry /\ u.data = d /\ u \in Vols
  BY <1>2 DEF Calls, Vols
<1>4. /\ SameFile(g, w.h) /\ g.clust = w.h.clust /\ g.offset = w.h.offset /\ g.sect = w.h.sect
      /\ g.dirty = FALSE /\ g \in HandleRecs
  BY DEF Calls, HandleRecs, SameFile
<1> HIDE DEF u, g
<1>5. x \in Calls
  BY <1>1, <1>3, <1>4 DEF Calls
<1> QED
  BY <1>1, <1>3, <1>4, <1>5 DEF BufferOnly, d

(* The buffer that moves to another sector. *)
Reloaded(w, ssect, x) ==
  \/ w.h.sect = ssect /\ x = w
  \/ /\ w.h.sect # ssect /\ w.h.dirty /\ x.v.data = [w.v.data EXCEPT ![ssect] = w.h.buf]
     /\ x.h.buf = x.v.data[w.h.sect]
  \/ /\ w.h.sect # ssect /\ ~w.h.dirty /\ x.v.data = w.v.data
     /\ x.h.buf = x.v.data[w.h.sect]

LEMMA ReloadMoves ==
  ASSUME NEW w \in Calls, w.err = "NONE", NEW ssect, NEW x \in Reload(w, ssect)
  PROVE  /\ BufferOnly(w, x)
         /\ x.v.data = w.v.data \/ x.v.data = [w.v.data EXCEPT ![ssect] = w.h.buf]
         /\ x.err = "NONE" => Reloaded(w, ssect, x)
<1> DEFINE load(y) == {[y EXCEPT !.h.buf = y.v.data[y.h.sect]]} \cup Fault(y)
           save(y) == {[y EXCEPT !.v.data[ssect] = y.h.buf, !.h.dirty = FALSE]} \cup Fault(y)
<1>1. ASSUME NEW y \in Calls, NEW z \in load(y)
      PROVE  /\ BufferOnly(y, z) /\ z.v = y.v
             /\ z.err = "NONE" => z.h.buf = y.v.data[y.h.sect]
  BY <1>1, FaultMoves, LoadMoves
<1>2. ASSUME NEW z \in save(w)
      PROVE  \/ BufferOnly(w, z) /\ z.v = w.v /\ z.err = "IO"
             \/ /\ BufferOnly(w, z) /\ z \in Calls /\ z.err = "NONE"
                /\ z.v.data = [w.v.data EXCEPT ![ssect] = w.h.buf]
  <2>1. CASE z \in Fault(w)
    BY <2>1, FaultMoves
  <2>2. CASE z = [w EXCEPT !.v.data[ssect] = w.h.buf, !.h.dirty = FALSE]
    <3> HIDE DEF save
    <3>1. /\ BufferOnly(w, z) /\ z.err = w.err /\ z \in Calls
          /\ z.v.data = [w.v.data EXCEPT ![ssect] = w.h.buf]
      BY <2>2, SaveMoves
    <3> QED
      BY <3>1
  <2> QED
    BY <1>2, <2>1, <2>2
<1>3. \/ w.h.sect = ssect /\ x = w
      \/ w.h.sect # ssect /\ ~w.h.dirty /\ x \in load(w)
      \/ /\ w.h.sect # ssect /\ w.h.dirty
         /\ \E y \in save(w) : x \in IF y.err = "NONE" THEN load(y) ELSE {y}
  BY DEF Reload, Then
<1> HIDE DEF load, save
<1>4. CASE w.h.sect = ssect /\ x = w
  BY <1>4 DEF BufferOnly, SameFile, Reloaded
<1>5. CASE w.h.sect # ssect /\ ~w.h.dirty /\ x \in load(w)
  BY <1>1, <1>5 DEF Reloaded
<1>6. ASSUME w.h.sect # ssect, w.h.dirty, NEW y \in save(w),
             x \in IF y.err = "NONE" THEN load(y) ELSE {y}
      PROVE  /\ BufferOnly(w, x)
             /\ x.v.data = w.v.data \/ x.v.data = [w.v.data EXCEPT ![ssect] = w.h.buf]
             /\ x.err = "NONE" => Reloaded(w, ssect, x)
  <2>1. CASE BufferOnly(w, y) /\ y.v = w.v /\ y.err = "IO"
    <3>1. x = y
      BY <1>6, <2>1
    <3> QED
      BY <2>1, <3>1
  <2>2. CASE /\ BufferOnly(w, y) /\ y \in Calls /\ y.err = "NONE"
             /\ y.v.data = [w.v.data EXCEPT ![ssect] = w.h.buf]
    <3>1. x \in load(y)
      BY <1>6, <2>2
    <3>2. BufferOnly(y, x) /\ x.v = y.v /\ (x.err = "NONE" => x.h.buf = y.v.data[y.h.sect])
      BY <1>1, <2>2, <3>1
    <3>3. y.h.sect = w.h.sect
      BY <2>2 DEF BufferOnly
    <3>4. BufferOnly(w, x)
      BY <2>2, <3>2, BufferTrans
    <3> QED
      BY <1>6, <2>2, <3>2, <3>3, <3>4 DEF Reloaded
  <2> QED
    BY <1>2, <1>6, <2>1, <2>2
<1> QED
  BY <1>3, <1>4, <1>5, <1>6

LEMMA ReloadErr ==
  ASSUME NEW w \in Calls, w.err = "NONE", NEW ssect, NEW x \in Reload(w, ssect)
  PROVE  x.err \in {"NONE", "IO"}
<1> DEFINE load(y) == {[y EXCEPT !.h.buf = y.v.data[y.h.sect]]} \cup Fault(y)
           save(y) == {[y EXCEPT !.v.data[ssect] = y.h.buf, !.h.dirty = FALSE]} \cup Fault(y)
<1>1. ASSUME NEW y \in Calls, NEW z \in load(y) PROVE z.err \in {y.err, "IO"}
  BY <1>1, FaultMoves, LoadMoves
<1>2. ASSUME NEW z \in save(w) PROVE z.err = "IO" \/ (z.err = "NONE" /\ z \in Calls)
  <2>1. CASE z \in Fault(w)
    BY <2>1, FaultMoves
  <2>2. CASE z = [w EXCEPT !.v.data[ssect] = w.h.buf, !.h.dirty = FALSE]
    <3> HIDE DEF save
    <3> QED
      BY <2>2, SaveMoves
  <2> QED
    BY <1>2, <2>1, <2>2
<1>3. x = w \/ x \in load(w) \/ \E y \in save(w) : x \in IF y.err = "NONE" THEN load(y) ELSE {y}
  BY DEF Reload, Then
<1> HIDE DEF load, save
<1> QED
  BY <1>1, <1>2, <1>3

(* The parts of a seek: back to the first cluster or not, along the chain, *)
(* and to the sector.                                                      *)
SoughtFrom(w, off, z) ==
  /\ Fine(z) /\ z.v = w.v /\ z.err = "NONE" /\ z.data = w.data /\ SameFile(z.h, w.h)
  /\ z.h.dirty = w.h.dirty /\ z.h.buf = w.h.buf

Landed(y, off) ==
  [y EXCEPT !.h.sect = clust_to_sect(y.h.clust) + ((off \div SECT) % SPC), !.h.offset = off]

LEMMA BackFields ==
  ASSUME NEW w \in Calls, NEW b,
         b = [w EXCEPT !.h.clust = w.h.sclust, !.h.sect = clust_to_sect(w.h.sclust), !.h.offset = 0]
  PROVE  /\ b.data = w.data /\ SameFile(b.h, w.h) /\ b.h.dirty = w.h.dirty /\ b.h.buf = w.h.buf
         /\ b.h.clust = w.h.sclust /\ b.h.sclust = w.h.sclust
<1> DEFINE c == w.h.sclust
           s == clust_to_sect(c)
           g == [w.h EXCEPT !.clust = c, !.sect = s, !.offset = 0]
<1>1. b.data = w.data /\ b.h = g
  BY DEF Calls
<1>a. w.h \in HandleRecs
  BY DEF Calls
<1> HIDE DEF s, c
<1>2. /\ g.file = w.h.file /\ g.sclust = w.h.sclust /\ g.size = w.h.size /\ g.mode = w.h.mode
      /\ g.mod = w.h.mod
  BY <1>a DEF HandleRecs
<1>3. g.dirty = w.h.dirty /\ g.buf = w.h.buf /\ g.clust = c
  BY <1>a DEF HandleRecs
<1> QED
  BY <1>1, <1>2, <1>3 DEF SameFile, c

LEMMA LandedFields ==
  ASSUME NEW y \in Calls, NEW off
  PROVE  LET x == Landed(y, off)
         IN  /\ x.v = y.v /\ x.err = y.err /\ x.data = y.data /\ SameFile(x.h, y.h)
             /\ x.h.dirty = y.h.dirty /\ x.h.buf = y.h.buf /\ x.h.clust = y.h.clust
             /\ x.h.offset = off /\ x.h.sect = clust_to_sect(y.h.clust) + ((off \div SECT) % SPC)
<1> DEFINE s == clust_to_sect(y.h.clust) + ((off \div SECT) % SPC)
           g == [y.h EXCEPT !.sect = s, !.offset = off]
           x == Landed(y, off)
<1>1. x.v = y.v /\ x.err = y.err /\ x.data = y.data /\ x.h = g
  BY DEF Calls, Landed
<1>a. y.h \in HandleRecs
  BY DEF Calls
<1> HIDE DEF s, x
<1>2. /\ g.file = y.h.file /\ g.sclust = y.h.sclust /\ g.size = y.h.size /\ g.mode = y.h.mode
      /\ g.mod = y.h.mod
  BY <1>a DEF HandleRecs
<1>3. g.dirty = y.h.dirty /\ g.buf = y.h.buf /\ g.clust = y.h.clust /\ g.offset = off /\ g.sect = s
  BY <1>a DEF HandleRecs
<1>4. /\ x.v = y.v /\ x.err = y.err /\ x.data = y.data /\ SameFile(x.h, y.h)
      /\ x.h.dirty = y.h.dirty /\ x.h.buf = y.h.buf /\ x.h.clust = y.h.clust
      /\ x.h.offset = off /\ x.h.sect = s
  BY <1>1, <1>2, <1>3 DEF SameFile
<1> QED
  BY <1>4 DEF x, s

LEMMA SeekParts ==
  ASSUME NEW w, Fine(w), w.err = "NONE", NEW off \in Int, NEW x \in fat_file_seek(w, off)
  PROVE  \/ x = [w EXCEPT !.err = "EOF"]
         \/ /\ off \in Nat
            /\ \E z, y : \E q, n \in Nat :
                 /\ SoughtFrom(w, off, z) /\ y \in OnTheWay(z, q, n) /\ q + n = off \div CLUST_SIZE
                 /\ Stands(w.v, w.h, w.h.offset \div CLUST_SIZE) => Stands(z.v, z.h, q)
                 /\ x \in IF y.err = "NONE" THEN Reload(Landed(y, off), w.h.sect) ELSE {y}
<1> DEFINE dst == off \div CLUST_SIZE
           src == w.h.offset \div CLUST_SIZE
           back == [w EXCEPT !.h.clust = w.h.sclust, !.h.sect = clust_to_sect(w.h.sclust), !.h.offset = 0]
           at(y) == [y EXCEPT !.h.sect = clust_to_sect(y.h.clust) + ((off \div SECT) % SPC),
                              !.h.offset = off]
           Goes(R) == UNION {IF y.err = "NONE" THEN Reload(at(y), w.h.sect) ELSE {y} : y \in R}
<1>1. CASE off < 0 \/ off > MAX_OFFSET
  BY <1>1 DEF fat_file_seek, Failed
<1>2. CASE ~(off < 0 \/ off > MAX_OFFSET)
  <2>1. off \in Nat
    BY <1>2, FileAssumption
  <2>2. dst \in Nat /\ src \in Nat
    BY <2>1, Constants, Quotient DEF Fine, Calls, HandleRecs
  <2>3. Reaches(w.v, w.h, src) /\ w \in Calls
    BY DEF Fine, HandleOK
  <2>4. /\ Fine(back) /\ back.v = w.v /\ back.err = "NONE" /\ Reaches(back.v, back.h, 0)
    BY SeekBack
  <2>a. \A y : at(y) = Landed(y, off)
    BY DEF Landed
  <2>5. CASE dst < src
    <3>1. x \in Goes(Repeat(back, dst, Follow))
      BY <1>2, <2>5 DEF fat_file_seek, Then
    <3>2. SoughtFrom(w, off, back)
      BY <2>3, <2>4, BackFields DEF SoughtFrom
    <3>3. Stands(back.v, back.h, 0)
      <4>1. back.h.clust = w.h.sclust /\ back.h.sclust = w.h.sclust
        BY <2>3, BackFields
      <4> HIDE DEF back
      <4> QED
        BY <4>1, ChainSteps, Constants DEF Stands
    <3> HIDE DEF at, back
    <3>4. PICK y \in Repeat(back, dst, Follow) : x \in IF y.err = "NONE" THEN Reload(at(y), w.h.sect) ELSE {y}
      BY <3>1
    <3>5. dst \in Nat /\ 0 + dst = dst /\ 0 \in Nat
      BY <2>2
    <3> HIDE DEF dst
    <3>6. y \in OnTheWay(back, 0, dst)
      BY <2>4, <3>4, <3>5, SeekWalk
    <3>7. x \in IF y.err = "NONE" THEN Reload(Landed(y, off), w.h.sect) ELSE {y}
      BY <2>a, <3>4
    <3> QED
      BY <2>1, <3>2, <3>3, <3>5, <3>6, <3>7 DEF dst
  <2>6. CASE ~(dst < src)
    <3>1. x \in Goes(Repeat(w, dst - src, Follow))
      BY <1>2, <2>6 DEF fat_file_seek, Then
    <3> HIDE DEF at
    <3>2. PICK y \in Repeat(w, dst - src, Follow) : x \in IF y.err = "NONE" THEN Reload(at(y), w.h.sect) ELSE {y}
      BY <3>1
    <3> DEFINE n == dst - src
    <3>3. n \in Nat /\ src + n = dst /\ src \in Nat
      BY <2>2, <2>6
    <3>4. y \in Repeat(w, n, Follow)
      BY <3>2
    <3> HIDE DEF dst, src, n
    <3>5. y \in OnTheWay(w, src, n)
      BY <2>3, <3>3, <3>4, SeekWalk
    <3>6. SoughtFrom(w, off, w)
      BY DEF SoughtFrom, SameFile
    <3>7. x \in IF y.err = "NONE" THEN Reload(Landed(y, off), w.h.sect) ELSE {y}
      BY <2>a, <3>2
    <3> QED
      BY <2>1, <3>3, <3>5, <3>6, <3>7 DEF dst, src
  <2> QED
    BY <2>5, <2>6
<1> QED
  BY <1>1, <1>2

(* What a call on one file does to the others: nothing. *)
Apart(w, x) ==
  /\ x.h.file = w.h.file /\ x.h.sclust = w.h.sclust
  /\ \A g \in Files : g # w.h.file => x.v.entry[g] = w.v.entry[g]
  /\ \A g \in Files : g # w.h.file => x.v.dentry[g] \in {w.v.dentry[g], w.v.entry[g]}
  /\ \A s \in Sectors : x.v.data[s] = w.v.data[s] \/ s \div SPC + 2 \in Chain(x.v, w.h.sclust)

LEMMA ApartTrans ==
  ASSUME NEW w, NEW y, NEW x, Apart(w, y), Apart(y, x), Fine(y), Fine(x), Grows(y.v, x.v)
  PROVE  Apart(w, x)
<1>1. y.v \in Vols /\ x.v \in Vols /\ y.h.sclust \in {0} \cup Clusters
  BY DEF Fine, Calls, HandleRecs
<1>2. Chain(y.v, y.h.sclust) \subseteq Chain(x.v, y.h.sclust)
  BY <1>1, GrowsChain
<1>3. x.h.file = w.h.file /\ x.h.sclust = w.h.sclust /\ y.h.file = w.h.file /\ y.h.sclust = w.h.sclust
  BY DEF Apart
<1>4. ASSUME NEW s \in Sectors PROVE x.v.data[s] = w.v.data[s] \/ s \div SPC + 2 \in Chain(x.v, w.h.sclust)
  BY <1>2, <1>3 DEF Apart
<1>5. ASSUME NEW g \in Files, g # w.h.file
      PROVE  x.v.entry[g] = w.v.entry[g] /\ x.v.dentry[g] \in {w.v.dentry[g], w.v.entry[g]}
  BY <1>3, <1>5 DEF Apart
<1> QED
  BY <1>3, <1>4, <1>5 DEF Apart

LEMMA WayFields ==
  ASSUME NEW z, Fine(z), NEW q, NEW n, NEW y \in OnTheWay(z, q, n)
  PROVE  /\ Fine(y) /\ SameButFat(z.v, y.v) /\ Grows(z.v, y.v) /\ y.data = z.data
         /\ SameFile(y.h, z.h) /\ y.h.dirty = z.h.dirty /\ y.h.buf = z.h.buf
<1>1. Fine(y) /\ SameButFat(z.v, y.v) /\ Grows(z.v, y.v) /\ y.data = z.data
  BY DEF OnTheWay, Fine
<1> DEFINE c == y.h.clust
<1>2. y.h = [z.h EXCEPT !.clust = c] /\ z.h \in HandleRecs
  BY DEF OnTheWay, Fine, Calls
<1> HIDE DEF c
<1>3. SameFile(y.h, z.h) /\ y.h.dirty = z.h.dirty /\ y.h.buf = z.h.buf
  BY <1>2 DEF HandleRecs, SameFile
<1> QED
  BY <1>1, <1>3

LEMMA SeekKeeps ==
  ASSUME NEW w, Fine(w), w.err = "NONE", Placed(w.v, w.h) \/ w.h.sect = NOSECT,
         NEW off \in Int, NEW x \in fat_file_seek(w, off)
  PROVE  /\ Apart(w, x) /\ x.v.entry = w.v.entry /\ x.v.dentry \in {w.v.dentry, w.v.entry}
         /\ SameFile(x.h, w.h) /\ x.data = w.data
         /\ w.h.sect = NOSECT => x.v.data = w.v.data
         /\ x.err \in Met \/ x = [w EXCEPT !.err = "EOF"]
<1>0. Fine(x) /\ Grows(w.v, x.v)
  BY SeekStep DEF Sought
<1>a. w \in Calls /\ w.v \in Vols /\ x.v \in Vols /\ w.h.sclust \in {0} \cup Clusters
  BY <1>0 DEF Fine, Calls, HandleRecs
<1>1. ASSUME x.v.entry = w.v.entry, x.v.dentry \in {w.v.dentry, w.v.entry}, SameFile(x.h, w.h),
             x.data = w.data, NEW b,
             x.v.data = w.v.data \/ x.v.data = [w.v.data EXCEPT ![w.h.sect] = b],
             x.err \in Met \/ x = [w EXCEPT !.err = "EOF"]
      PROVE  /\ Apart(w, x) /\ x.v.entry = w.v.entry /\ x.v.dentry \in {w.v.dentry, w.v.entry}
             /\ SameFile(x.h, w.h) /\ x.data = w.data
             /\ w.h.sect = NOSECT => x.v.data = w.v.data
             /\ x.err \in Met \/ x = [w EXCEPT !.err = "EOF"]
  <2>1. w.v.data \in [Sectors -> Sector]
    BY <1>a DEF Vols
  <2>2. Chain(w.v, w.h.sclust) \subseteq Chain(x.v, w.h.sclust)
    BY <1>0, <1>a, GrowsChain
  <2>3. NOSECT \notin Sectors
    BY Constants DEF NOSECT, Sectors
  <2>4. w.h.sect = NOSECT => x.v.data = w.v.data
    BY <1>1, <2>1, <2>3
  <2>5. ASSUME NEW s \in Sectors
        PROVE  x.v.data[s] = w.v.data[s] \/ s \div SPC + 2 \in Chain(x.v, w.h.sclust)
    <3>1. s # w.h.sect => x.v.data[s] = w.v.data[s]
      BY <1>1, <2>1
    <3>2. s = w.h.sect => s \div SPC + 2 \in Chain(x.v, w.h.sclust)
      BY <2>2, <2>3 DEF Placed
    <3> QED
      BY <3>1, <3>2
  <2>6. \A g \in Files : x.v.dentry[g] \in {w.v.dentry[g], w.v.entry[g]}
    BY <1>1
  <2>7. Apart(w, x)
    BY <1>1, <2>5, <2>6 DEF Apart, SameFile
  <2> QED
    BY <1>1, <2>4, <2>7
<1>2. CASE x = [w EXCEPT !.err = "EOF"]
  <2>1. x.v = w.v /\ x.h = w.h /\ x.data = w.data
    BY <1>2, <1>a DEF Calls
  <2> QED
    BY <1>1, <1>2, <2>1 DEF SameFile
<1>3. ASSUME off \in Nat, NEW z, NEW y, NEW q \in Nat, NEW n \in Nat, SoughtFrom(w, off, z),
             y \in OnTheWay(z, q, n), q + n = off \div CLUST_SIZE,
             x \in IF y.err = "NONE" THEN Reload(Landed(y, off), w.h.sect) ELSE {y}
      PROVE  /\ Apart(w, x) /\ x.v.entry = w.v.entry /\ x.v.dentry \in {w.v.dentry, w.v.entry}
             /\ SameFile(x.h, w.h) /\ x.data = w.data
             /\ w.h.sect = NOSECT => x.v.data = w.v.data
             /\ x.err \in Met \/ x = [w EXCEPT !.err = "EOF"]
  <2>1. Fine(z) /\ z.v = w.v /\ z.data = w.data /\ SameFile(z.h, w.h)
    BY <1>3 DEF SoughtFrom
  <2>2. Fine(y) /\ SameButFat(w.v, y.v) /\ y.data = w.data /\ SameFile(y.h, w.h) /\ y \in Calls
    BY <1>3, <2>1, WayFields DEF SameFile, Fine
  <2>a. y.err \in Met
    BY <1>3 DEF OnTheWay
  <2>3. CASE y.err # "NONE"
    <3>1. x = y
      BY <1>3, <2>3
    <3>2. /\ x.v.entry = w.v.entry /\ x.v.dentry \in {w.v.dentry, w.v.entry} /\ SameFile(x.h, w.h)
          /\ x.data = w.data /\ x.v.data = w.v.data /\ x.err \in Met
      BY <2>2, <2>a, <3>1 DEF SameButFat
    <3> QED
      BY <1>1, <3>2
  <2>4. CASE y.err = "NONE"
    <3> DEFINE a == Landed(y, off)
    <3>1. x \in Reload(a, w.h.sect)
      BY <1>3, <2>4
    <3>2. a.v = y.v /\ a.err = y.err /\ a.data = y.data /\ SameFile(a.h, y.h)
      BY <2>2, LandedFields
    <3>3. a \in Calls
      <4>1. Reaches(y.v, y.h, off \div CLUST_SIZE)
        BY <1>3, <2>4 DEF OnTheWay
      <4>2. Fine(a)
        BY <1>3, <2>2, <4>1, SeekArrives DEF Landed
      <4> QED
        BY <4>2 DEF Fine
    <3> HIDE DEF a
    <3>b. a.err = "NONE"
      BY <2>4, <3>2
    <3>4. /\ BufferOnly(a, x)
          /\ x.v.data = a.v.data \/ x.v.data = [a.v.data EXCEPT ![w.h.sect] = a.h.buf]
      BY <3>1, <3>3, <3>b, ReloadMoves
    <3>c. x.err \in {"NONE", "IO"}
      BY <3>1, <3>3, <3>b, ReloadErr
    <3>5. a.v.data = w.v.data /\ a.v.entry = w.v.entry /\ a.v.dentry \in {w.v.dentry, w.v.entry}
      BY <2>2, <3>2 DEF SameButFat
    <3>6. x.v.entry = w.v.entry /\ x.v.dentry \in {w.v.dentry, w.v.entry} /\ x.data = w.data
      BY <2>2, <3>2, <3>4, <3>5 DEF BufferOnly
    <3>7. SameFile(x.h, w.h)
      BY <2>2, <3>2, <3>4 DEF SameFile, BufferOnly
    <3>8. x.err \in Met
      BY <3>c DEF Met, Errs
    <3> QED
      BY <1>1, <3>4, <3>5, <3>6, <3>7, <3>8
  <2> QED
    BY <2>3, <2>4
<1> QED
  BY <1>2, <1>3, SeekParts

(* A seek that succeeds leaves the handle where it was sent, and every     *)
(* sector as it is seen.                                                   *)
LEMMA SeekArrived ==
  ASSUME NEW w, Fine(w), w.err = "NONE", Ready(w.v, w.h), NEW off \in Int,
         NEW x \in fat_file_seek(w, off), x.err = "NONE"
  PROVE  /\ off \in Nat /\ x.h.offset = off /\ Exact(x.v, x.h)
         /\ SameHeld(w.v, w.h, x.v, x.h)
<1>0. Fine(x) /\ Grows(w.v, x.v)
  BY SeekStep DEF Sought
<1>a. w \in Calls /\ w.v \in Vols /\ x.v \in Vols /\ x.h \in HandleRecs
  BY <1>0 DEF Fine, Calls
<1>b. NOSECT \notin Sectors
  BY Constants DEF NOSECT, Sectors
<1>1. x # [w EXCEPT !.err = "EOF"]
  BY <1>a DEF Calls
<1>2. PICK z, y : \E q, n \in Nat :
             /\ off \in Nat
             /\ SoughtFrom(w, off, z) /\ y \in OnTheWay(z, q, n) /\ q + n = off \div CLUST_SIZE
             /\ Stands(w.v, w.h, w.h.offset \div CLUST_SIZE) => Stands(z.v, z.h, q)
             /\ x \in IF y.err = "NONE" THEN Reload(Landed(y, off), w.h.sect) ELSE {y}
  BY <1>1, SeekParts
<1>3. PICK q \in Nat, n \in Nat :
             /\ off \in Nat
             /\ SoughtFrom(w, off, z) /\ y \in OnTheWay(z, q, n) /\ q + n = off \div CLUST_SIZE
             /\ Stands(w.v, w.h, w.h.offset \div CLUST_SIZE) => Stands(z.v, z.h, q)
             /\ x \in IF y.err = "NONE" THEN Reload(Landed(y, off), w.h.sect) ELSE {y}
  BY <1>2
<1>4. y.err = "NONE" /\ x \in Reload(Landed(y, off), w.h.sect)
  BY <1>3
<1>5. /\ Fine(z) /\ z.v = w.v /\ SameFile(z.h, w.h) /\ z.h.dirty = w.h.dirty /\ z.h.buf = w.h.buf
  BY <1>3 DEF SoughtFrom
<1>6. /\ Fine(y) /\ SameButFat(w.v, y.v) /\ SameFile(y.h, w.h) /\ y \in Calls
      /\ y.h.dirty = w.h.dirty /\ y.h.buf = w.h.buf
  BY <1>3, <1>5, WayFields DEF SameFile, Fine
<1> DEFINE a == Landed(y, off)
           dst == off \div CLUST_SIZE
<1>7. Stands(y.v, y.h, dst) /\ Reaches(y.v, y.h, dst)
  BY <1>3, <1>4 DEF OnTheWay, Ready
<1>8. /\ a.v = y.v /\ a.err = y.err /\ SameFile(a.h, y.h)
      /\ a.h.dirty = y.h.dirty /\ a.h.buf = y.h.buf /\ a.h.clust = y.h.clust
      /\ a.h.offset = off /\ a.h.sect = clust_to_sect(y.h.clust) + ((off \div SECT) % SPC)
  BY <1>6, LandedFields
<1>9. a \in Calls /\ a.h.sect \in Sectors
  BY <1>3, <1>6, <1>7, SeekArrives DEF Landed, Fine
<1> HIDE DEF a
<1>10. BufferOnly(a, x) /\ Reloaded(a, w.h.sect, x)
  <2>1. x \in Reload(a, w.h.sect)
    BY <1>4 DEF a
  <2> QED
    BY <1>4, <1>8, <1>9, <2>1, ReloadMoves
<1>11. /\ x.h.offset = off /\ x.h.sect = a.h.sect /\ x.h.clust = y.h.clust
       /\ SameFile(x.h, w.h) /\ x.h.sclust = y.h.sclust /\ x.v.fat = y.v.fat
       /\ x.v.entry = y.v.entry /\ a.v.data = w.v.data /\ a.h.buf = w.h.buf
       /\ a.h.dirty = w.h.dirty /\ x.h.mod = w.h.mod
  BY <1>6, <1>8, <1>10 DEF BufferOnly, SameFile, SameButFat
<1>12. Stands(x.v, x.h, dst)
  <2>1. y.v \in Vols /\ y.h \in HandleRecs
    BY <1>6 DEF Calls
  <2>2. Grows(y.v, x.v)
    BY <1>11 DEF Grows
  <2>3. Stands(x.v, y.h, dst)
    BY <1>7, <1>a, <2>1, <2>2, GrowsStands
  <2> QED
    BY <1>11, <2>3 DEF Stands
<1>13. x.h.sect = SectOf(x.v, x.h.sclust, off \div SECT)
  <2>1. (off \div SECT) \div SPC = dst
    BY <1>3, SectorCluster
  <2>2. ChainOf(x.v, x.h.sclust)[dst] = y.h.clust
    BY <1>11, <1>12 DEF Stands
  <2> QED
    BY <1>8, <1>11, <2>1, <2>2 DEF SectOf
<1>14. w.v.data \in [Sectors -> Sector]
  BY <1>a DEF Vols
<1>15. CASE a.h.sect = w.h.sect /\ x = a
  <2>1. Saved(w.v, w.h)
    BY <1>9, <1>15, <1>b DEF Ready
  <2>2. x.v.data = w.v.data /\ x.h.buf = w.h.buf /\ x.h.sect = w.h.sect /\ x.h.dirty = w.h.dirty
    BY <1>11, <1>15
  <2>3. Saved(x.v, x.h)
    BY <1>11, <2>1, <2>2 DEF Saved
  <2>4. SameHeld(w.v, w.h, x.v, x.h)
    BY <2>2 DEF SameHeld, Held
  <2> QED
    BY <1>3, <1>11, <1>12, <1>13, <2>3, <2>4 DEF Exact
<1>16. CASE /\ a.h.sect # w.h.sect /\ a.h.dirty
            /\ x.v.data = [a.v.data EXCEPT ![w.h.sect] = a.h.buf] /\ x.h.buf = x.v.data[a.h.sect]
  <2>1. w.h.sect \in Sectors
    BY <1>11, <1>16 DEF Ready
  <2>2. x.v.data = [w.v.data EXCEPT ![w.h.sect] = w.h.buf]
    BY <1>11, <1>16
  <2>3. Saved(x.v, x.h)
    BY <1>11, <1>16 DEF Saved
  <2>4. SameHeld(w.v, w.h, x.v, x.h)
    BY <1>11, <1>14, <1>16, <2>1, <2>2 DEF SameHeld, Held
  <2> QED
    BY <1>3, <1>11, <1>12, <1>13, <2>3, <2>4 DEF Exact
<1>17. CASE /\ a.h.sect # w.h.sect /\ ~a.h.dirty
            /\ x.v.data = a.v.data /\ x.h.buf = x.v.data[a.h.sect]
  <2>1. w.h.sect \in Sectors => w.h.buf = w.v.data[w.h.sect]
    BY <1>11, <1>17, <1>b DEF Ready, Saved
  <2>2. Saved(x.v, x.h)
    BY <1>11, <1>17 DEF Saved
  <2>3. SameHeld(w.v, w.h, x.v, x.h)
    BY <1>11, <1>17, <2>1 DEF SameHeld, Held
  <2> QED
    BY <1>3, <1>11, <1>12, <1>13, <2>2, <2>3 DEF Exact
<1> QED
  BY <1>10, <1>15, <1>16, <1>17 DEF Reloaded

-----------------------------------------------------------------------------
(* A file as it is seen through a handle: its bytes up to its size. *)
View(v, h) == [i \in 1 .. h.size |-> ByteAt(v, h, i - 1)]

(* Two ways to see the same bytes in the sectors of the chain of h. *)
SeenSame(v, h, u, g) ==
  \A s \in Sectors : s \div SPC + 2 \in Chain(v, h.sclust) => Held(u, g, s) = Held(v, h, s)

LEMMA ByteSame ==
  ASSUME NEW v \in Vols, NEW u \in Vols, Grows(v, u), NEW h, NEW g, g.sclust = h.sclust,
         h.sclust \in {0} \cup Clusters, SeenSame(v, h, u, g),
         NEW k \in Nat, InChain(v, h.sclust, k \div SECT)
  PROVE  ByteAt(u, g, k) = ByteAt(v, h, k) /\ InChain(u, h.sclust, k \div SECT)
<1> DEFINE n == k \div SECT
           a == h.sclust
<1>1. n \in Nat /\ InChain(v, a, n) /\ a \in {0} \cup Clusters
  BY SectorCluster
<1> HIDE DEF n, a
<1>2. ChainOf(u, a)[n \div SPC] = ChainOf(v, a)[n \div SPC] /\ InChain(u, a, n)
  BY <1>1, GrowsChain DEF InChain
<1>3. SectOf(u, a, n) = SectOf(v, a, n)
  BY <1>2 DEF SectOf
<1>4. SectOf(v, a, n) \in Sectors /\ SectOf(v, a, n) \div SPC + 2 \in Chain(v, a)
  BY <1>1, SectIn
<1>5. Held(u, g, SectOf(v, a, n)) = Held(v, h, SectOf(v, a, n))
  BY <1>4 DEF SeenSame, a
<1> QED
  BY <1>2, <1>3, <1>5 DEF ByteAt, n, a

(* The bytes below a covered size are in the chain. *)
LEMMA CoveredIn ==
  ASSUME NEW v, NEW a \in {0} \cup Clusters, NEW n \in Nat, Covered(v, a, n), NEW k \in Nat, k < n
  PROVE  InChain(v, a, k \div SECT)
BY CoveredAt, SectorCluster DEF InChain

LEMMA SameSeen ==
  ASSUME NEW v, NEW h, NEW u, NEW g, SameHeld(v, h, u, g)
  PROVE  SeenSame(v, h, u, g)
BY DEF SameHeld, SeenSame

LEMMA ViewSame ==
  ASSUME NEW v \in Vols, NEW u \in Vols, Grows(v, u), NEW h, NEW g, g.sclust = h.sclust,
         h.sclust \in {0} \cup Clusters, SeenSame(v, h, u, g), h.size \in Nat, g.size = h.size,
         Covered(v, h.sclust, h.size)
  PROVE  View(u, g) = View(v, h)
<1>1. ASSUME NEW i \in 1 .. h.size PROVE ByteAt(u, g, i - 1) = ByteAt(v, h, i - 1)
  <2>1. i - 1 \in Nat /\ i - 1 < h.size
    OBVIOUS
  <2>2. InChain(v, h.sclust, (i - 1) \div SECT)
    BY <2>1, CoveredIn
  <2> QED
    BY <2>1, <2>2, ByteSame
<1> QED
  BY <1>1 DEF View

(* A handle that is where it seems to be has a sector of its chain. *)
LEMMA ExactReady ==
  ASSUME NEW v, NEW h \in HandleRecs, Exact(v, h)
  PROVE  /\ Ready(v, h) /\ h.sect \in Sectors /\ InChain(v, h.sclust, h.offset \div SECT)
         /\ h.sect \div SPC + 2 \in Chain(v, h.sclust)
<1>1. /\ h.offset \in Nat /\ h.sclust \in {0} \cup Clusters /\ h.clust # 0
  BY Constants DEF HandleRecs
<1>2. h.offset \div SECT \in Nat /\ (h.offset \div SECT) \div SPC = h.offset \div CLUST_SIZE
  BY <1>1, SectorCluster
<1>3. InChain(v, h.sclust, h.offset \div SECT)
  BY <1>1, <1>2 DEF Exact, Stands, InChain
<1>4. h.sect \in Sectors /\ h.sect \div SPC + 2 \in Chain(v, h.sclust)
  BY <1>1, <1>2, <1>3, SectIn DEF Exact
<1> QED
  BY <1>3, <1>4 DEF Exact, Ready

-----------------------------------------------------------------------------
(* fat_file_read returns the bytes of the file. *)

(* The bytes from the offset to the end of its sector are in the buffer. *)
LEMMA BufferByte ==
  ASSUME NEW v, NEW h \in HandleRecs, Exact(v, h), NEW i \in Nat, i < SECT - (h.offset % SECT)
  PROVE  ByteAt(v, h, h.offset + i) = h.buf[(h.offset % SECT) + i]
<1> DEFINE o == h.offset
<1>1. o \in Nat /\ i < SECT - (o % SECT) /\ h.sect = SectOf(v, h.sclust, o \div SECT)
  BY DEF HandleRecs, Exact
<1> HIDE DEF o
<1>2. (o + i) \div SECT = o \div SECT /\ (o + i) % SECT = (o % SECT) + i
  BY <1>1, SameSector
<1>3. ByteAt(v, h, o + i) = h.buf[(o % SECT) + i]
  BY <1>1, <1>2 DEF ByteAt, Held
<1> QED
  BY <1>3 DEF o

(* A turn of the loop that moves on: cnt more bytes of the buffer. *)
ReadOn(y, n, cnt, z) ==
  /\ cnt \in Nat /\ cnt > 0 /\ cnt <= n - Len(y.data) /\ cnt <= SECT - (y.h.offset % SECT)
  /\ cnt <= y.h.size - y.h.offset
  /\ z \in Calls /\ z.v = y.v /\ z.h = y.h /\ z.err = y.err /\ Len(z.data) = Len(y.data) + cnt
  /\ \A j \in 1 .. Len(y.data) : z.data[j] = y.data[j]
  /\ \A j \in 1 .. cnt : z.data[Len(y.data) + j] = y.h.buf[(y.h.offset % SECT) + j - 1]

LEMMA ReadParts ==
  ASSUME NEW y, Fine(y), NEW n \in Nat, Len(y.data) <= n, NEW x \in ReadTurn(n, y)
  PROVE  \/ x = y /\ (Len(y.data) = n \/ y.h.offset >= y.h.size)
         \/ \E cnt, z : ReadOn(y, n, cnt, z) /\ x \in fat_file_seek(z, y.h.offset + cnt)
<1> DEFINE h == y.h
           idx == h.offset % SECT
           cnt == Min({n - Len(y.data), SECT - idx, h.size - h.offset})
           bytes == [i \in 1 .. cnt |-> h.buf[idx + i - 1]]
           z == [y EXCEPT !.data = y.data \o bytes]
<1>1. CASE Len(y.data) = n \/ h.offset >= h.size
  BY <1>1 DEF ReadTurn
<1>2. CASE ~(Len(y.data) = n \/ h.offset >= h.size)
  <2>0. x \in fat_file_seek(z, h.offset + cnt)
    BY <1>2 DEF ReadTurn
  <2>1. /\ y \in Calls /\ h \in HandleRecs /\ h.offset \in Nat /\ h.size \in Nat
        /\ h.buf \in Sector /\ y.data \in Seq(Byte) /\ Len(y.data) \in Nat
    BY DEF Fine, Calls, HandleRecs
  <2>2. idx \in 0 .. SECT - 1 /\ SECT \in Nat
    BY <2>1, Constants, Quotient
  <2>3. /\ cnt \in Nat /\ cnt > 0 /\ cnt <= n - Len(y.data) /\ cnt <= SECT - idx
        /\ cnt <= h.size - h.offset
    <3> DEFINE a == n - Len(y.data)
               b == SECT - idx
               c == h.size - h.offset
    <3>1. a \in Nat /\ b \in Nat /\ c \in Nat /\ a > 0 /\ b > 0 /\ c > 0
      <4> HIDE DEF idx, h
      <4> QED
        BY <1>2, <2>1, <2>2
    <3>2. cnt = Min({a, b, c})
      OBVIOUS
    <3> HIDE DEF cnt, a, b, c
    <3>a. a \in Int /\ b \in Int /\ c \in Int
      BY <3>1
    <3>3. cnt \in {a, b, c} /\ cnt <= a /\ cnt <= b /\ cnt <= c
      BY <3>2, <3>a, MinOfThree
    <3>4. cnt \in Nat /\ cnt > 0 /\ cnt <= a /\ cnt <= b /\ cnt <= c
      BY <3>1, <3>3
    <3> QED
      BY <3>4 DEF a, b, c
  <2> HIDE DEF idx, cnt
  <2>4. bytes \in Seq(Byte) /\ Len(bytes) = cnt /\ \A i \in 1 .. cnt : bytes[i] = h.buf[idx + i - 1]
    <3>1. ASSUME NEW i \in 1 .. cnt PROVE h.buf[idx + i - 1] \in Byte
      <4>1. idx + i - 1 \in 0 .. SECT - 1
        BY <2>2, <2>3
      <4> QED
        BY <2>1, <4>1 DEF Sector
    <3> QED
      BY <2>3, <3>1
  <2> HIDE DEF bytes
  <2> DEFINE d == y.data \o bytes
             l == Len(y.data)
  <2>5. /\ d \in Seq(Byte) /\ Len(d) = l + cnt /\ \A j \in 1 .. l : d[j] = y.data[j]
        /\ \A j \in 1 .. cnt : d[l + j] = bytes[j]
    <3>1. /\ d \in Seq(Byte) /\ Len(d) = l + cnt
          /\ \A j \in 1 .. l + cnt : d[j] = IF j <= l THEN y.data[j] ELSE bytes[j - l]
      BY <2>1, <2>4, ConcatProperties, ZenonT(30)
    <3>2. l \in Nat
      BY <2>1
    <3> HIDE DEF d, l
    <3>3. ASSUME NEW j \in 1 .. l PROVE d[j] = y.data[j]
      BY <2>3, <3>1, <3>2
    <3>4. ASSUME NEW j \in 1 .. cnt PROVE d[l + j] = bytes[j]
      <4>1. l + j \in 1 .. l + cnt /\ ~(l + j <= l) /\ (l + j) - l = j
        BY <2>3, <3>2
      <4> QED
        BY <3>1, <4>1
    <3> QED
      BY <3>1, <3>3, <3>4
  <2> HIDE DEF d
  <2>6. z \in Calls /\ z.v = y.v /\ z.h = y.h /\ z.err = y.err /\ z.data = d
    BY <2>1, <2>5 DEF Calls, d
  <2> HIDE DEF z
  <2>7. ReadOn(y, n, cnt, z)
    BY <2>3, <2>4, <2>5, <2>6 DEF ReadOn, idx
  <2> QED
    BY <2>0, <2>7
<1> QED
  BY <1>1, <1>2

(* The calls a loop of seeks on one file stays in. *)
Aside(w) ==
  {y \in Safe(w) : Apart(w, y) /\ y.v.entry = w.v.entry /\ SameFile(y.h, w.h) /\ y.err # "DENIED"}

LEMMA AsideSeek ==
  ASSUME NEW w, Fine(w), NEW y \in Aside(w), NEW z, Still(y, z), z.v = y.v, SameFile(z.h, y.h),
         z.err = "NONE", NEW off \in Int, NEW x \in fat_file_seek(z, off)
  PROVE  x \in Aside(w) /\ x.data = z.data
<1>1. y \in Safe(w) /\ Fine(y) /\ Fine(z) /\ Placed(y.v, y.h)
  BY DEF Aside, Safe, Still
<1>2. Placed(z.v, z.h)
  BY <1>1, StillPlaced
<1>3. /\ Apart(z, x) /\ x.v.entry = z.v.entry /\ SameFile(x.h, z.h) /\ x.data = z.data
      /\ x.err # "DENIED"
  <2>1. /\ Apart(z, x) /\ x.v.entry = z.v.entry /\ SameFile(x.h, z.h) /\ x.data = z.data
        /\ x.err \in Met \/ x = [z EXCEPT !.err = "EOF"]
    BY <1>1, <1>2, SeekKeeps
  <2>2. z \in Calls
    BY <1>1 DEF Fine
  <2>3. x = [z EXCEPT !.err = "EOF"] => x.err = "EOF"
    BY <2>2 DEF Calls
  <2> QED
    BY <2>1, <2>3 DEF Met
<1>4. x \in Safe(w)
  BY <1>1, SafeSeek
<1>5. Apart(y, x) /\ Grows(y.v, x.v) /\ Fine(x)
  <2>1. Fine(x) /\ Grows(z.v, x.v)
    BY <1>1, SeekStep DEF Sought
  <2> QED
    BY <1>3, <2>1 DEF Apart, SameFile
<1>6. Apart(w, x)
  BY <1>1, <1>5, ApartTrans DEF Aside
<1> QED
  BY <1>3, <1>4, <1>6 DEF Aside, SameFile

LEMMA HeldTrans ==
  ASSUME NEW v, NEW h, NEW u, NEW g, NEW t, NEW k, SameHeld(v, h, u, g), SameHeld(u, g, t, k)
  PROVE  SameHeld(v, h, t, k)
BY DEF SameHeld

(* After i turns of the loop at least i bytes are there, or all that can be*)
(* had.                                                                    *)
HasRead(w, n, i, y) ==
  LET p == w.h.offset
      l == Len(y.data)
  IN  /\ Exact(y.v, y.h) /\ SameHeld(w.v, w.h, y.v, y.h)
      /\ y.h.offset = p + l
      /\ \A j \in 1 .. l : y.data[j] = ByteAt(w.v, w.h, p + j - 1)
      /\ l > 0 => p + l <= w.h.size
      /\ i <= l \/ l = n \/ p + l >= w.h.size

ReadUpTo(w, n, i) ==
  {y \in Aside(w) : Len(y.data) <= n /\ (Exact(w.v, w.h) /\ y.err = "NONE" => HasRead(w, n, i, y))}

LEMMA ReadMore ==
  ASSUME NEW w, Fine(w), NEW n \in Nat, NEW i \in 1 .. n, NEW y \in ReadUpTo(w, n, i - 1),
         y.err = "NONE", NEW x \in ReadTurn(n, y)
  PROVE  x \in ReadUpTo(w, n, i)
<1>1. /\ Fine(y) /\ y \in Calls /\ y \in Aside(w) /\ Len(y.data) <= n /\ y.h \in HandleRecs
      /\ w \in Calls /\ w.h \in HandleRecs /\ Grows(w.v, y.v) /\ SameFile(y.h, w.h)
  BY DEF ReadUpTo, Aside, Safe, Fine, Calls
<1>2. /\ Len(y.data) \in Nat /\ y.h.offset \in Nat /\ w.h.offset \in Nat /\ w.h.size \in Nat
      /\ y.h.size = w.h.size /\ y.h.sclust = w.h.sclust /\ w.h.sclust \in {0} \cup Clusters
      /\ w.v \in Vols /\ y.v \in Vols
  BY <1>1 DEF Calls, HandleRecs, SameFile
<1>3. CASE x = y /\ (Len(y.data) = n \/ y.h.offset >= y.h.size)
  <2>1. ASSUME HasRead(w, n, i - 1, y) PROVE HasRead(w, n, i, y)
    BY <1>2, <1>3, <2>1 DEF HasRead
  <2> QED
    BY <1>3, <2>1 DEF ReadUpTo
<1>4. ASSUME NEW cnt, NEW z, ReadOn(y, n, cnt, z), x \in fat_file_seek(z, y.h.offset + cnt)
      PROVE  x \in ReadUpTo(w, n, i)
  <2>1. /\ cnt \in Nat /\ cnt > 0 /\ cnt <= n - Len(y.data) /\ cnt <= SECT - (y.h.offset % SECT)
        /\ cnt <= y.h.size - y.h.offset
        /\ z \in Calls /\ z.v = y.v /\ z.h = y.h /\ z.err = "NONE"
        /\ Len(z.data) = Len(y.data) + cnt
    BY <1>4 DEF ReadOn
  <2>2. Still(y, z) /\ SameFile(z.h, y.h) /\ Fine(z)
    BY <1>1, <2>1, GrowsRefl DEF Still, Fine, SameFile
  <2>3. y.h.offset + cnt \in Int
    BY <1>2, <2>1
  <2>4. x \in Aside(w) /\ x.data = z.data
    BY <1>1, <1>4, <2>1, <2>2, <2>3, AsideSeek
  <2>5. Len(x.data) <= n
    BY <1>2, <2>1, <2>4
  <2>6. ASSUME Exact(w.v, w.h), x.err = "NONE" PROVE HasRead(w, n, i, x)
    <3> DEFINE p == w.h.offset
               l == Len(y.data)
    <3>1. /\ Exact(y.v, y.h) /\ SameHeld(w.v, w.h, y.v, y.h) /\ y.h.offset = p + l
          /\ \A j \in 1 .. l : y.data[j] = ByteAt(w.v, w.h, p + j - 1)
          /\ i - 1 <= l \/ l = n \/ p + l >= w.h.size
      BY <2>6 DEF ReadUpTo, HasRead
    <3>2. Ready(z.v, z.h)
      BY <1>1, <2>1, <3>1, ExactReady
    <3>3. /\ x.h.offset = y.h.offset + cnt /\ Exact(x.v, x.h) /\ SameHeld(z.v, z.h, x.v, x.h)
      BY <1>4, <2>1, <2>2, <2>3, <2>6, <3>2, SeekArrived
    <3>4. SameHeld(w.v, w.h, x.v, x.h)
      BY <2>1, <3>1, <3>3, HeldTrans
    <3>5. ASSUME NEW j \in 1 .. l + cnt PROVE x.data[j] = ByteAt(w.v, w.h, p + j - 1)
      <4>1. CASE j <= l
        <5>1. j \in 1 .. l
          BY <1>2, <2>1, <4>1
        <5>2. z.data[j] = y.data[j]
          BY <1>4, <5>1 DEF ReadOn
        <5> QED
          BY <2>4, <3>1, <5>1, <5>2
      <4>2. CASE ~(j <= l)
        <5> DEFINE m == j - l
                   k == p + j - 1
        <5>1. /\ m \in 1 .. cnt /\ l + m = j /\ m - 1 \in Nat /\ m - 1 < SECT - (y.h.offset % SECT)
              /\ y.h.offset + (m - 1) = k /\ k \in Nat /\ k < w.h.size
              /\ y.h.offset % SECT \in Nat
              /\ (y.h.offset % SECT) + m - 1 = (y.h.offset % SECT) + (m - 1)
          <6> DEFINE o == y.h.offset
                     r == o % SECT
                     e == w.h.size
          <6>a. r \in Nat /\ SECT \in Nat
            BY <1>2, Constants, Quotient
          <6>1. /\ r \in Nat /\ SECT \in Nat /\ e \in Nat /\ p \in Nat /\ l \in Nat
                /\ cnt \in Nat /\ cnt <= SECT - r /\ cnt <= e - o /\ o = p + l
            BY <1>2, <2>1, <3>1, <6>a
          <6> HIDE DEF r, o, e, p, l
          <6>2. /\ m \in 1 .. cnt /\ l + m = j /\ m - 1 \in Nat /\ m - 1 < SECT - r
                /\ o + (m - 1) = k /\ k \in Nat /\ k < e /\ r + m - 1 = r + (m - 1)
            BY <4>2, <6>1
          <6> QED
            BY <6>1, <6>2 DEF r, o, e
        <5> HIDE DEF m, k
        <5>2. z.data[j] = y.h.buf[(y.h.offset % SECT) + (m - 1)]
          BY <1>4, <5>1 DEF ReadOn
        <5>3. ByteAt(y.v, y.h, k) = y.h.buf[(y.h.offset % SECT) + (m - 1)]
          <6>1. ByteAt(y.v, y.h, y.h.offset + (m - 1)) = y.h.buf[(y.h.offset % SECT) + (m - 1)]
            BY <1>1, <3>1, <5>1, BufferByte
          <6> QED
            BY <5>1, <6>1
        <5>4. InChain(w.v, w.h.sclust, k \div SECT)
          BY <1>2, <5>1, CoveredIn DEF Fine, HandleOK
        <5>5. ByteAt(y.v, y.h, k) = ByteAt(w.v, w.h, k)
          <6>1. SeenSame(w.v, w.h, y.v, y.h)
            BY <3>1, SameSeen
          <6> QED
            BY <1>1, <1>2, <5>1, <5>4, <6>1, ByteSame, SMTT(30)
        <5> QED
          BY <2>4, <5>2, <5>3, <5>5 DEF k
      <4> QED
        BY <4>1, <4>2
    <3>6. Len(x.data) = l + cnt
      BY <2>1, <2>4
    <3>7. x.h.offset = p + (l + cnt) /\ p + (l + cnt) <= w.h.size /\ (i <= l + cnt \/ l + cnt = n)
      <4> DEFINE e == w.h.size
                 o == y.h.offset
      <4>1. /\ p \in Nat /\ l \in Nat /\ e \in Nat /\ cnt \in Nat /\ cnt > 0 /\ cnt <= e - o /\ o = p + l
            /\ i - 1 <= l \/ l = n \/ p + l >= e
        BY <1>2, <2>1, <3>1
      <4>2. cnt <= n - l
        BY <2>1
      <4> HIDE DEF l, p, e, o
      <4>3. o + cnt = p + (l + cnt) /\ p + (l + cnt) <= e /\ (i <= l + cnt \/ l + cnt = n)
        BY <4>1, <4>2
      <4> QED
        BY <3>3, <4>3 DEF e, o
    <3> HIDE DEF l, p
    <3> QED
      BY <3>3, <3>4, <3>5, <3>6, <3>7 DEF HasRead, p
  <2> QED
    BY <2>4, <2>5, <2>6 DEF ReadUpTo
<1> QED
  BY <1>1, <1>3, <1>4, ReadParts

LEMMA AsideSelf ==
  ASSUME NEW w, Fine(w), Placed(w.v, w.h), w.err = "NONE"
  PROVE  w \in Aside(w)
<1>1. w \in Safe(w)
  BY GrowsRefl DEF Safe, Fine
<1> QED
  BY <1>1 DEF Aside, Apart, SameFile

LEMMA ReadGives ==
  ASSUME NEW w, Fine(w), Placed(w.v, w.h), w.err = "NONE", w.data = <<>>, NEW n \in Nat,
         NEW x \in fat_file_read(w, n)
  PROVE  x = [w EXCEPT !.err = "DENIED"] \/ x \in ReadUpTo(w, n, n)
<1>1. CASE "READ" \notin w.h.mode
  BY <1>1 DEF fat_file_read, Failed
<1>2. CASE "READ" \in w.h.mode
  <2>1. x \in Reading(w, n, n)
    BY <1>2 DEF fat_file_read, Reading
  <2> DEFINE W == [i \in 0 .. n |-> ReadUpTo(w, n, i)]
  <2>2. w \in ReadUpTo(w, n, 0)
    <3>1. Len(w.data) = 0 /\ w.h.offset \in Nat
      BY DEF Fine, Calls, HandleRecs
    <3>2. Exact(w.v, w.h) => HasRead(w, n, 0, w)
      BY <3>1 DEF HasRead, SameHeld
    <3> QED
      BY <3>1, <3>2, AsideSelf DEF ReadUpTo
  <2>3. ASSUME NEW i \in 1 .. n, NEW b \in W[i - 1]
        PROVE  IF b.err = "NONE" THEN ReadTurn(n, b) \subseteq W[i] ELSE b \in W[i]
    <3>1. b \in ReadUpTo(w, n, i - 1) /\ W[i] = ReadUpTo(w, n, i)
      BY <2>3
    <3> HIDE DEF W
    <3>2. CASE b.err = "NONE"
      BY <3>1, <3>2, ReadMore
    <3>3. CASE b.err # "NONE"
      BY <3>1, <3>3 DEF ReadUpTo
    <3> QED
      BY <3>2, <3>3
  <2>4. w \in W[0] /\ W[n] = ReadUpTo(w, n, n)
    BY <2>2
  <2> HIDE DEF W
  <2>5. x \in ReadUpTo(w, n, n)
    BY <2>1, <2>3, <2>4, RepeatRead
  <2> QED
    BY <2>5
<1> QED
  BY <1>1, <1>2

(* The bytes that were read are those from the offset on, up to the end.   *)
LEMMA ReadBytes ==
  ASSUME NEW w, Fine(w), Exact(w.v, w.h), NEW n \in Nat, NEW x \in ReadUpTo(w, n, n), x.err = "NONE"
  PROVE  LET p == w.h.offset
             e == IF p + n < w.h.size THEN p + n ELSE w.h.size
             there == SubSeq(View(w.v, w.h), p + 1, e)
         IN  x.data = there /\ x.h.offset = p + Len(there)
<1> DEFINE p == w.h.offset
           s == w.h.size
           e == IF p + n < s THEN p + n ELSE s
           l == Len(x.data)
           V == View(w.v, w.h)
<1>1. /\ p \in Nat /\ s \in Nat /\ x.data \in Seq(Byte) /\ l \in Nat /\ l <= n
      /\ HasRead(w, n, n, x)
  BY DEF Fine, Calls, HandleRecs, ReadUpTo, Aside, Safe
<1>2. /\ x.h.offset = p + l /\ \A j \in 1 .. l : x.data[j] = ByteAt(w.v, w.h, p + j - 1)
      /\ l > 0 => p + l <= s
      /\ n <= l \/ l = n \/ p + l >= s
  BY <1>1 DEF HasRead
<1>a. x.data \in [1 .. l -> Byte]
  BY <1>1, LenProperties
<1>b. V = [i \in 1 .. s |-> ByteAt(w.v, w.h, i - 1)]
  BY DEF View
<1> HIDE DEF p, s, V
<1>3. (s < p + 1 => l = 0) /\ (p + 1 <= s => e - p = l)
  <2>1. /\ p \in Nat /\ s \in Nat /\ l \in Nat /\ l <= n /\ (l > 0 => p + l <= s)
        /\ n <= l \/ l = n \/ p + l >= s
    BY <1>1, <1>2
  <2> HIDE DEF l
  <2> QED
    BY <2>1
<1>4. e \in Int /\ l = IF p + 1 <= e THEN e - (p + 1) + 1 ELSE 0
  BY <1>1, <1>3
<1> HIDE DEF e
<1>5. \A j \in 1 .. l : V[p + 1 + j - 1] = x.data[j]
  <2> SUFFICES ASSUME NEW j \in 1 .. l PROVE V[p + 1 + j - 1] = x.data[j]
    OBVIOUS
  <2>1. p + 1 + j - 1 \in 1 .. s /\ (p + 1 + j - 1) - 1 = p + j - 1
    BY <1>1, <1>2
  <2> QED
    BY <1>2, <1>b, <2>1
<1> DEFINE t == SubSeq(V, p + 1, e)
           S == Byte \cup {V[i] : i \in Int}
<1>6. /\ t \in Seq(S) /\ Len(t) = IF p + 1 <= e THEN e - (p + 1) + 1 ELSE 0
      /\ \A j \in 1 .. e - (p + 1) + 1 : t[j] = V[p + 1 + j - 1]
  <2>1. p + 1 \in Int /\ \A i \in p + 1 .. e : V[i] \in S
    BY <1>1, <1>4
  <2> HIDE DEF S
  <2> QED
    BY <1>4, <2>1, SubSeqProperties
<1>7. t = x.data
  <2>1. x.data \in Seq(S)
    BY <1>1
  <2>2. Len(t) = l
    BY <1>4, <1>6
  <2> HIDE DEF t, S
  <2>3. \A j \in 1 .. l : j \in 1 .. e - (p + 1) + 1
    BY <1>1, <1>4
  <2>4. \A j \in 1 .. l : t[j] = x.data[j]
    BY <1>5, <1>6, <2>3
  <2> QED
    BY <1>6, <2>1, <2>2, <2>4, SeqEqual
<1> QED
  BY <1>2, <1>7 DEF p, e, s, V

-----------------------------------------------------------------------------
(* fat_file_write puts its bytes at the offset and leaves the others. *)

(* The bytes of a file whose buffer was patched from the offset on. *)
LEMMA PatchByte ==
  ASSUME NEW v, VolOK(v), NEW h, HandleOK(v, h), Exact(v, h), NEW g, g.sclust = h.sclust,
         g.sect = h.sect, NEW s, Len(s) \in Nat, Len(s) <= SECT - (h.offset % SECT),
         g.buf = Patched(h.buf, h.offset % SECT, s),
         NEW k \in Nat, InChain(v, h.sclust, k \div SECT)
  PROVE  LET o == h.offset
         IN  ByteAt(v, g, k) = IF o <= k /\ k < o + Len(s) THEN s[k - o + 1] ELSE ByteAt(v, h, k)
<1> DEFINE o == h.offset
           a == h.sclust
           r == o % SECT
           i == k % SECT
<1>1. /\ o \in Nat /\ h \in HandleRecs /\ Starts(v, a) /\ v \in Vols /\ FatSound(v)
  BY HandleStarts DEF HandleRecs, VolOK
<1>2. /\ o \div SECT \in Nat /\ k \div SECT \in Nat /\ r \in 0 .. SECT - 1 /\ i \in 0 .. SECT - 1
      /\ SECT \in Nat
  BY <1>1, SectorCluster, Constants
<1>3. InChain(v, a, o \div SECT) /\ h.sect = SectOf(v, a, o \div SECT)
  BY <1>1, ExactReady DEF Exact
<1>4. CASE k \div SECT = o \div SECT
  <2>1. k - o = i - r
    BY <1>1, <1>4, SectorBytes
  <2>2. ByteAt(v, g, k) = g.buf[i] /\ ByteAt(v, h, k) = h.buf[i]
    BY <1>3, <1>4 DEF ByteAt, Held
  <2>3. g.buf[i] = IF i >= r /\ i < r + Len(s) THEN s[i - r + 1] ELSE h.buf[i]
    BY <1>2 DEF Patched
  <2> HIDE DEF o, i, r
  <2>4. (i >= r <=> o <= k) /\ (i < r + Len(s) <=> k < o + Len(s)) /\ i - r + 1 = k - o + 1
    BY <1>1, <1>2, <2>1
  <2>5. ByteAt(v, g, k) = IF o <= k /\ k < o + Len(s) THEN s[k - o + 1] ELSE ByteAt(v, h, k)
    BY <2>2, <2>3, <2>4
  <2> QED
    BY <2>5 DEF o
<1>5. CASE k \div SECT # o \div SECT
  <2>1. SectOf(v, a, k \div SECT) # h.sect
    <3> DEFINE m == k \div SECT
               n == o \div SECT
    <3>1. m \in Nat /\ n \in Nat /\ InChain(v, a, m) /\ InChain(v, a, n) /\ m # n
          /\ h.sect = SectOf(v, a, n)
      BY <1>2, <1>3, <1>5
    <3> HIDE DEF m, n
    <3>2. SectOf(v, a, m) # SectOf(v, a, n)
      BY <1>1, <3>1, SectInjective
    <3> QED
      BY <3>1, <3>2 DEF m
  <2>2. ByteAt(v, g, k) = ByteAt(v, h, k)
    BY <2>1 DEF ByteAt, Held
  <2>3. ~(o <= k /\ k < o + Len(s))
    <3> SUFFICES ASSUME o <= k, k < o + Len(s) PROVE FALSE
      OBVIOUS
    <3> DEFINE m == k - o
    <3>1. m \in Nat /\ o + m = k /\ m < SECT - r
      <4> HIDE DEF o, r
      <4>1. Len(s) <= SECT - r
        BY DEF r, o
      <4> QED
        BY <1>1, <1>2, <4>1
    <3> HIDE DEF m
    <3>2. (o + m) \div SECT = o \div SECT
      BY <1>1, <3>1, SameSector
    <3> QED
      BY <1>5, <3>1, <3>2
  <2> QED
    BY <2>2, <2>3
<1> QED
  BY <1>4, <1>5

(* A turn of the loop that moves on: cnt bytes to the buffer. *)
WriteOn(y, cnt, z) ==
  /\ cnt \in Nat /\ cnt > 0 /\ cnt <= Len(y.data) /\ cnt <= SECT - (y.h.offset % SECT)
  /\ z.v = y.v /\ z.err = y.err /\ Still(y, z) /\ SameFile(z.h, y.h)
  /\ z.h.clust = y.h.clust /\ z.h.offset = y.h.offset /\ z.h.dirty
  /\ z.h.buf = Patched(y.h.buf, y.h.offset % SECT, SubSeq(y.data, 1, cnt))
  /\ z.data = SubSeq(y.data, cnt + 1, Len(y.data))

LEMMA WriteParts ==
  ASSUME NEW y, Fine(y), NEW x \in WriteTurn(y)
  PROVE  \/ x = y /\ y.data = <<>>
         \/ \E cnt, z : WriteOn(y, cnt, z) /\ x \in fat_file_seek(z, y.h.offset + cnt)
<1> DEFINE h == y.h
           idx == h.offset % SECT
           cnt == Min({Len(y.data), SECT - idx})
           z == [y EXCEPT !.h.buf = Patched(y.h.buf, idx, SubSeq(y.data, 1, cnt)),
                          !.h.dirty = TRUE,
                          !.data = SubSeq(y.data, cnt + 1, Len(y.data))]
<1>1. CASE y.data = <<>>
  BY <1>1 DEF WriteTurn
<1>2. CASE y.data # <<>>
  <2>0. x \in fat_file_seek(z, h.offset + cnt)
    BY <1>2 DEF WriteTurn
  <2>1. /\ y \in Calls /\ h \in HandleRecs /\ h.offset \in Nat
        /\ h.buf \in Sector /\ y.data \in Seq(Byte) /\ Len(y.data) \in Nat /\ Len(y.data) # 0
    BY <1>2, EmptySeq DEF Fine, Calls, HandleRecs
  <2>2. idx \in 0 .. SECT - 1 /\ SECT \in Nat
    BY <2>1, Constants, Quotient
  <2>3. cnt \in Nat /\ cnt > 0 /\ cnt <= Len(y.data) /\ cnt <= SECT - idx
    <3> DEFINE a == Len(y.data)
               b == SECT - idx
    <3>1. a \in Nat /\ b \in Nat /\ a > 0 /\ b > 0
      <4> HIDE DEF idx, h
      <4> QED
        BY <2>1, <2>2
    <3>a. a \in Int /\ b \in Int
      BY <3>1
    <3>2. cnt = Min({a, b})
      OBVIOUS
    <3> HIDE DEF cnt, a, b
    <3>3. cnt \in {a, b} /\ cnt <= a /\ cnt <= b
      BY <3>2, <3>a, MinOfTwo
    <3>4. cnt \in Nat /\ cnt > 0 /\ cnt <= a /\ cnt <= b
      BY <3>1, <3>3
    <3> QED
      BY <3>4 DEF a, b
  <2> HIDE DEF idx, cnt
  <2> DEFINE s == SubSeq(y.data, 1, cnt)
             d == SubSeq(y.data, cnt + 1, Len(y.data))
             p == Patched(y.h.buf, idx, s)
             g == [y.h EXCEPT !.buf = p, !.dirty = TRUE]
  <2>4. s \in Seq(Byte) /\ d \in Seq(Byte)
    <3>1. \A i \in 1 .. cnt : i \in 1 .. Len(y.data)
      BY <2>1, <2>3
    <3>2. \A i \in cnt + 1 .. Len(y.data) : i \in 1 .. Len(y.data)
      BY <2>1, <2>3
    <3> QED
      BY <2>1, <2>3, <3>1, <3>2
  <2>5. p \in Sector
    <3> HIDE DEF s
    <3> QED
      BY <2>1, <2>2, <2>4, PatchedSector
  <2>6. z = [y EXCEPT !.h = g, !.data = d] /\ z.err = y.err /\ z.v = y.v /\ z.data = d /\ z.h = g
    <3> HIDE DEF p, d
    <3> QED
      BY <2>1 DEF Calls, p, d
  <2> HIDE DEF p, d
  <2>7. SamePlace(g, y.h) /\ g.mode = y.h.mode /\ g.mod = y.h.mod /\ g.dirty = TRUE /\ g.buf = p
    BY <2>1, <2>5 DEF SamePlace, HandleRecs
  <2>8. Still(y, z)
    <3> HIDE DEF z, g
    <3>1. Still(y, [y EXCEPT !.h = g, !.data = d])
      BY <2>4, <2>7, StillText, Zenon
    <3> QED
      BY <2>6, <3>1, Zenon
  <2> HIDE DEF z, g
  <2>9. WriteOn(y, cnt, z)
    BY <2>3, <2>6, <2>7, <2>8 DEF WriteOn, SamePlace, SameFile, p, d, idx
  <2> QED
    BY <2>0, <2>9
<1> QED
  BY <1>1, <1>2

(* After i turns at least i bytes of t are written, or all of them. *)
HasWritten(w, t, i, y) ==
  LET p == w.h.offset
      j == Len(t) - Len(y.data)
  IN  /\ j \in Nat /\ \A m \in 1 .. Len(y.data) : y.data[m] = t[j + m]
      /\ Exact(y.v, y.h) /\ y.h.offset = p + j
      /\ \A k \in Nat : p <= k /\ k < p + j =>
           InChain(y.v, w.h.sclust, k \div SECT) /\ ByteAt(y.v, y.h, k) = t[k - p + 1]
      /\ \A k \in Nat : k < w.h.size /\ ~(p <= k /\ k < p + j) =>
           ByteAt(y.v, y.h, k) = ByteAt(w.v, w.h, k)
      /\ i <= j \/ y.data = <<>>

WrittenUpTo(w, t, i) ==
  {y \in Aside(w) : Exact(w.v, w.h) /\ y.err = "NONE" => HasWritten(w, t, i, y)}

LEMMA WriteMore ==
  ASSUME NEW w, Fine(w), w.h.mod, NEW t \in Seq(Byte), NEW i \in 1 .. Len(t),
         NEW y \in WrittenUpTo(w, t, i - 1), y.err = "NONE", NEW x \in WriteTurn(y)
  PROVE  x \in WrittenUpTo(w, t, i)
<1>1. /\ Fine(y) /\ y \in Calls /\ y \in Aside(w) /\ y.h \in HandleRecs
      /\ w \in Calls /\ w.h \in HandleRecs /\ Grows(w.v, y.v) /\ SameFile(y.h, w.h)
      /\ VolOK(y.v) /\ HandleOK(y.v, y.h) /\ y.data \in Seq(Byte)
  BY DEF WrittenUpTo, Aside, Safe, Fine, Calls
<1>2. /\ Len(y.data) \in Nat /\ y.h.offset \in Nat /\ w.h.offset \in Nat /\ w.h.size \in Nat
      /\ y.h.size = w.h.size /\ y.h.sclust = w.h.sclust /\ w.h.sclust \in {0} \cup Clusters
      /\ w.v \in Vols /\ y.v \in Vols /\ Len(t) \in Nat /\ y.h.mod
  BY <1>1 DEF Calls, HandleRecs, SameFile
<1>3. CASE x = y /\ y.data = <<>>
  <2>1. ASSUME HasWritten(w, t, i - 1, y) PROVE HasWritten(w, t, i, y)
    BY <1>3, <2>1 DEF HasWritten
  <2> QED
    BY <1>3, <2>1 DEF WrittenUpTo
<1>4. ASSUME NEW cnt, NEW z, WriteOn(y, cnt, z), x \in fat_file_seek(z, y.h.offset + cnt)
      PROVE  x \in WrittenUpTo(w, t, i)
  <2>1. /\ cnt \in Nat /\ cnt > 0 /\ cnt <= Len(y.data) /\ cnt <= SECT - (y.h.offset % SECT)
        /\ z.v = y.v /\ z.err = "NONE" /\ Still(y, z) /\ SameFile(z.h, y.h)
        /\ z.h.clust = y.h.clust /\ z.h.offset = y.h.offset /\ z.h.dirty
        /\ z.h.buf = Patched(y.h.buf, y.h.offset % SECT, SubSeq(y.data, 1, cnt))
        /\ z.data = SubSeq(y.data, cnt + 1, Len(y.data))
    BY <1>4 DEF WriteOn
  <2>2. Fine(z) /\ z.h.sclust = y.h.sclust /\ z.h.sect = y.h.sect /\ z.h.mod /\ z.h \in HandleRecs
    BY <1>2, <2>1 DEF Still, SameFile, Fine, Calls
  <2>3. y.h.offset + cnt \in Int
    BY <1>2, <2>1
  <2>4. x \in Aside(w) /\ x.data = z.data
    BY <1>1, <1>4, <2>1, <2>3, AsideSeek
  <2>5. ASSUME Exact(w.v, w.h), x.err = "NONE" PROVE HasWritten(w, t, i, x)
    <3> DEFINE p == w.h.offset
               j == Len(t) - Len(y.data)
               o == y.h.offset
               l == Len(y.data)
               s == SubSeq(y.data, 1, cnt)
    <3>1. /\ j \in Nat /\ \A m \in 1 .. l : y.data[m] = t[j + m]
          /\ Exact(y.v, y.h) /\ o = p + j
          /\ \A k \in Nat : p <= k /\ k < p + j =>
               InChain(y.v, w.h.sclust, k \div SECT) /\ ByteAt(y.v, y.h, k) = t[k - p + 1]
          /\ \A k \in Nat : k < w.h.size /\ ~(p <= k /\ k < p + j) =>
               ByteAt(y.v, y.h, k) = ByteAt(w.v, w.h, k)
          /\ i - 1 <= j \/ y.data = <<>>
      BY <2>5 DEF WrittenUpTo, HasWritten
    <3>2. Ready(z.v, z.h)
      <4>1. Ready(y.v, y.h) /\ y.h.sect \in Sectors
        BY <1>1, <3>1, ExactReady
      <4> QED
        BY <2>1, <2>2, <4>1 DEF Ready, Stands, Saved
    <3>3. /\ x.h.offset = o + cnt /\ Exact(x.v, x.h) /\ SameHeld(z.v, z.h, x.v, x.h)
      BY <1>4, <2>1, <2>2, <2>3, <2>5, <3>2, SeekArrived
    <3>4. Fine(x) /\ Grows(y.v, x.v) /\ x.h.sclust = y.h.sclust /\ x.v \in Vols
      <4>1. Fine(x) /\ Grows(z.v, x.v)
        BY <1>4, <2>1, <2>2, <2>3, SeekStep DEF Sought
      <4>2. SameFile(x.h, w.h)
        BY <2>4 DEF Aside
      <4> QED
        BY <1>2, <2>1, <4>1, <4>2 DEF SameFile, Fine, Calls
    <3>5. /\ Len(s) = cnt /\ (\A m \in 1 .. cnt : s[m] = y.data[m])
          /\ Len(z.data) = l - cnt /\ \A m \in 1 .. l - cnt : z.data[m] = y.data[cnt + m]
      <4>1. y.data \in [1 .. l -> Byte]
        BY <1>1, LenProperties
      <4>2. cnt \in Nat /\ l \in Nat /\ cnt > 0 /\ cnt <= l /\ 1 \in Int /\ cnt \in Int
            /\ cnt + 1 \in Int /\ l \in Int
        BY <1>2, <2>1
      <4>3. (\A m \in 1 .. cnt : y.data[m] \in Byte) /\ \A m \in cnt + 1 .. l : y.data[m] \in Byte
        BY <4>1, <4>2
      <4> DEFINE u == SubSeq(y.data, cnt + 1, l)
      <4>4. z.data = u
        BY <2>1
      <4>5. Len(s) = (IF 1 <= cnt THEN cnt - 1 + 1 ELSE 0) /\ \A m \in 1 .. cnt - 1 + 1 : s[m] = y.data[1 + m - 1]
        BY <4>2, <4>3, SubSeqProperties
      <4>6. /\ Len(u) = (IF cnt + 1 <= l THEN l - (cnt + 1) + 1 ELSE 0)
            /\ \A m \in 1 .. l - (cnt + 1) + 1 : u[m] = y.data[cnt + 1 + m - 1]
        BY <4>2, <4>3, SubSeqProperties
      <4> HIDE DEF s, u, l
      <4>7. Len(s) = cnt /\ \A m \in 1 .. cnt : s[m] = y.data[m]
        BY <4>2, <4>5
      <4>8. Len(u) = l - cnt /\ \A m \in 1 .. l - cnt : u[m] = y.data[cnt + m]
        BY <4>2, <4>6
      <4> QED
        BY <4>4, <4>7, <4>8
    <3>6. ASSUME NEW k \in Nat, InChain(y.v, w.h.sclust, k \div SECT)
          PROVE  /\ InChain(x.v, w.h.sclust, k \div SECT)
                 /\ ByteAt(x.v, x.h, k) = IF o <= k /\ k < o + cnt THEN s[k - o + 1] ELSE ByteAt(y.v, y.h, k)
      <4>1. SeenSame(z.v, z.h, x.v, x.h)
        BY <3>3, SameSeen
      <4>2. ByteAt(x.v, x.h, k) = ByteAt(z.v, z.h, k) /\ InChain(x.v, w.h.sclust, k \div SECT)
        BY <1>2, <2>1, <2>2, <3>4, <3>6, <4>1, ByteSame
      <4>3. Len(s) \in Nat /\ Len(s) = cnt /\ Len(s) <= SECT - (y.h.offset % SECT)
        BY <2>1, <3>5
      <4>4. z.h.buf = Patched(y.h.buf, y.h.offset % SECT, s)
        BY <2>1
      <4> HIDE DEF s
      <4>5. ByteAt(y.v, z.h, k) = IF o <= k /\ k < o + Len(s) THEN s[k - o + 1] ELSE ByteAt(y.v, y.h, k)
        <5> DEFINE v == y.v
                   h == y.h
                   g == z.h
        <5>1. /\ VolOK(v) /\ HandleOK(v, h) /\ Exact(v, h) /\ g.sclust = h.sclust /\ g.sect = h.sect
              /\ InChain(v, h.sclust, k \div SECT)
          BY <1>1, <1>2, <2>2, <3>1, <3>6
        <5>2. Len(s) \in Nat /\ Len(s) <= SECT - (h.offset % SECT) /\ g.buf = Patched(h.buf, h.offset % SECT, s)
          BY <4>3, <4>4
        <5> HIDE DEF v, h, g
        <5>3. ByteAt(v, g, k) =
                IF h.offset <= k /\ k < h.offset + Len(s) THEN s[k - h.offset + 1] ELSE ByteAt(v, h, k)
          BY <5>1, <5>2, PatchByte
        <5> QED
          BY <5>3 DEF v, h, g
      <4> QED
        BY <2>1, <4>2, <4>3, <4>5
    <3>7. ASSUME NEW k \in Nat, o <= k, k < o + cnt PROVE InChain(y.v, w.h.sclust, k \div SECT)
      <4> DEFINE m == k - o
      <4>1. m \in Nat /\ o + m = k /\ m < SECT - (o % SECT)
        <5>1. o % SECT \in Nat /\ SECT \in Nat
          BY <1>2, Constants, Quotient
        <5>2. cnt <= SECT - (o % SECT)
          BY <2>1
        <5>3. o \in Nat /\ cnt \in Nat
          BY <1>2, <2>1
        <5> DEFINE r == o % SECT
        <5>4. r \in Nat /\ cnt <= SECT - r
          BY <5>1, <5>2
        <5> HIDE DEF r, o
        <5>5. m \in Nat /\ o + m = k /\ m < SECT - r
          BY <3>7, <5>1, <5>3, <5>4
        <5> QED
          BY <5>5 DEF r
      <4> HIDE DEF m
      <4>2. (o + m) \div SECT = o \div SECT
        BY <1>2, <4>1, SameSector
      <4>3. InChain(y.v, y.h.sclust, o \div SECT)
        BY <1>1, <3>1, ExactReady
      <4> QED
        BY <1>2, <4>1, <4>2, <4>3
    <3> DEFINE n == j + cnt
    <3>a. /\ p \in Nat /\ j \in Nat /\ l \in Nat /\ cnt \in Nat /\ cnt > 0 /\ cnt <= l
          /\ Len(t) \in Nat /\ j = Len(t) - l /\ o = p + j /\ w.h.size \in Nat
      BY <1>2, <2>1, <3>1
    <3>8. ASSUME NEW k \in Nat, p <= k, k < p + n
          PROVE  InChain(x.v, w.h.sclust, k \div SECT) /\ ByteAt(x.v, x.h, k) = t[k - p + 1]
      <4>1. CASE k < p + j
        <5>1. InChain(y.v, w.h.sclust, k \div SECT) /\ ByteAt(y.v, y.h, k) = t[k - p + 1]
          BY <3>1, <3>8, <4>1
        <5>2. ~(o <= k)
          <6> HIDE DEF o, p, j, l
          <6> QED
            BY <3>a, <4>1
        <5> QED
          BY <3>6, <5>1, <5>2
      <4>2. CASE ~(k < p + j)
        <5> DEFINE m == k - o + 1
        <5>1. o <= k /\ k < o + cnt /\ m \in 1 .. cnt /\ m \in 1 .. l /\ j + m = k - p + 1
          <6> HIDE DEF o, p, j, l
          <6> QED
            BY <3>8, <3>a, <4>2
        <5>2. InChain(y.v, w.h.sclust, k \div SECT)
          BY <3>7, <5>1
        <5>3. ByteAt(x.v, x.h, k) = s[m] /\ InChain(x.v, w.h.sclust, k \div SECT)
          BY <3>6, <5>1, <5>2
        <5> HIDE DEF m
        <5>4. s[m] = t[j + m]
          BY <3>1, <3>5, <5>1
        <5> QED
          BY <5>1, <5>3, <5>4
      <4> QED
        BY <4>1, <4>2
    <3>9. ASSUME NEW k \in Nat, k < w.h.size, ~(p <= k /\ k < p + n)
          PROVE  ByteAt(x.v, x.h, k) = ByteAt(w.v, w.h, k)
      <4>1. InChain(y.v, w.h.sclust, k \div SECT)
        <5>1. Covered(y.v, w.h.sclust, w.h.size)
          BY <1>1, <1>2 DEF HandleOK
        <5> QED
          BY <1>2, <3>9, <5>1, CoveredIn
      <4>2. ~(p <= k /\ k < p + j) /\ ~(o <= k /\ k < o + cnt)
        <5> HIDE DEF o, p, j, l
        <5> QED
          BY <3>9, <3>a
      <4>3. ByteAt(x.v, x.h, k) = ByteAt(y.v, y.h, k)
        BY <3>6, <4>1, <4>2
      <4>4. ByteAt(y.v, y.h, k) = ByteAt(w.v, w.h, k)
        BY <3>1, <3>9, <4>2
      <4> QED
        BY <4>3, <4>4
    <3>10. /\ Len(t) - Len(x.data) = n /\ n \in Nat /\ x.h.offset = p + n
           /\ (i <= n \/ x.data = <<>>)
           /\ \A m \in 1 .. Len(x.data) : x.data[m] = t[n + m]
      <4>1. Len(x.data) = l - cnt /\ \A m \in 1 .. l - cnt : x.data[m] = y.data[cnt + m]
        BY <2>4, <3>5
      <4>2. y.data # <<>>
        <5>1. Len(y.data) # 0
          BY <3>a
        <5> QED
          BY <5>1, EmptySeq
      <4>3. i - 1 <= j
        BY <3>1, <4>2
      <4>4. ASSUME NEW m \in 1 .. l - cnt PROVE x.data[m] = t[n + m]
        <5>1. cnt + m \in 1 .. l /\ j + (cnt + m) = n + m
          <6> HIDE DEF l, j
          <6> QED
            BY <3>a
        <5>2. y.data[cnt + m] = t[j + (cnt + m)]
          BY <3>1, <5>1
        <5> QED
          BY <4>1, <5>1, <5>2
      <4>5. Len(t) - (l - cnt) = n /\ n \in Nat /\ o + cnt = p + n /\ i <= n
        <5> HIDE DEF l, j, p, o
        <5> QED
          BY <3>a, <4>3
      <4> QED
        BY <3>3, <4>1, <4>4, <4>5
    <3> HIDE DEF n, p
    <3> QED
      BY <3>3, <3>8, <3>9, <3>10 DEF HasWritten, p
  <2> QED
    BY <2>4, <2>5 DEF WrittenUpTo
<1> QED
  BY <1>1, <1>3, <1>4, WriteParts

(* The bytes of a file are bytes. *)
LEMMA ByteTyped ==
  ASSUME NEW v, VolOK(v), NEW h, HandleOK(v, h), NEW k \in Nat, k < h.size
  PROVE  ByteAt(v, h, k) \in Bytes
<1> DEFINE s == SectOf(v, h.sclust, k \div SECT)
<1>1. /\ h.sclust \in {0} \cup Clusters /\ h.size \in Nat /\ h.buf \in Sector /\ v \in Vols
      /\ Covered(v, h.sclust, h.size)
  BY DEF HandleOK, HandleRecs, VolOK
<1>2. k \div SECT \in Nat /\ k % SECT \in 0 .. SECT - 1
  BY SectorCluster
<1>3. s \in Sectors
  BY <1>1, <1>2, CoveredIn, SectIn
<1> HIDE DEF s
<1>4. v.data[s] \in Sector
  BY <1>1, <1>3 DEF Vols
<1>5. Held(v, h, s) \in Sector
  BY <1>1, <1>4 DEF Held
<1>6. Held(v, h, s)[k % SECT] \in Byte
  BY <1>2, <1>5 DEF Sector
<1>7. Byte = Bytes
  BY FileAssumption DEF Byte
<1> QED
  BY <1>6, <1>7 DEF ByteAt, s

(* new is old with t at the offset, as ByteFile's Overwritten has it. *)
Replaced(old, new, p, t) ==
  /\ Len(new) = IF p + Len(t) < Len(old) THEN Len(old) ELSE p + Len(t)
  /\ \A i \in 1 .. Len(new) :
       CASE i > p /\ i <= p + Len(t) -> new[i] = t[i - p]
         [] ~(i > p /\ i <= p + Len(t)) /\ i <= Len(old) -> new[i] = old[i]
         [] OTHER -> new[i] \in Bytes

LEMMA ViewLength ==
  ASSUME NEW v, NEW h, h.size \in Nat
  PROVE  Len(View(v, h)) = h.size /\ \A i \in 1 .. h.size : View(v, h)[i] = ByteAt(v, h, i - 1)
BY DEF View

LEMMA WriteGives ==
  ASSUME NEW w, Fine(w), Placed(w.v, w.h), w.err = "NONE", NEW t \in Seq(Byte),
         NEW x \in fat_file_write(w, t)
  PROVE  \/ x = [w EXCEPT !.err = "DENIED"]
         \/ \E z, y :
              /\ Fine(z) /\ z.v = w.v /\ z.h = [w.h EXCEPT !.mod = TRUE]
              /\ y \in WrittenUpTo(z, t, Len(t))
              /\ x = Sized(y, w.h.offset + Len(t))
<1>1. CASE "WRITE" \notin w.h.mode
  BY <1>1 DEF fat_file_write, Failed
<1>2. CASE "WRITE" \in w.h.mode
  <2> DEFINE g == [w.h EXCEPT !.mod = TRUE]
             z == [w EXCEPT !.h.mod = TRUE, !.data = t]
             n == Len(t)
  <2>0. w \in Calls /\ w.h \in HandleRecs /\ n \in Nat
    BY DEF Fine, Calls
  <2>1. PICK y \in Repeat(z, n, WriteTurn) : x = Sized(y, w.h.offset + n)
    BY <1>2 DEF fat_file_write
  <2>2. /\ SamePlace(g, w.h) /\ g.mod /\ z = [w EXCEPT !.h = g, !.data = t]
        /\ z.v = w.v /\ z.h = g /\ z.data = t /\ z.err = "NONE"
    BY <2>0 DEF SamePlace, HandleRecs, Calls
  <2>3. Still(w, z)
    <3> HIDE DEF z, g
    <3>1. Still(w, [w EXCEPT !.h = g, !.data = t])
      BY <2>2, StillText, Zenon
    <3> QED
      BY <2>2, <3>1, Zenon
  <2> HIDE DEF z, n
  <2>4. Fine(z) /\ z.h.mod /\ Placed(z.v, z.h)
    BY <2>2, <2>3, StillPlaced, ZenonT(30) DEF Still
  <2> DEFINE W == [i \in 0 .. n |-> WrittenUpTo(z, t, i)]
  <2>5. z \in WrittenUpTo(z, t, 0)
    <3> DEFINE p == z.h.offset
               j == Len(t) - Len(z.data)
    <3>1. j = 0 /\ p \in Nat
      BY <2>0, <2>2, <2>4 DEF Fine, Calls, HandleRecs, n
    <3>2. \A m \in 1 .. Len(z.data) : z.data[m] = t[j + m]
      <4>1. \A m \in 1 .. n : j + m = m
        BY <2>0, <3>1
      <4> QED
        BY <2>2, <4>1 DEF n
    <3> HIDE DEF j, p
    <3>3. ASSUME Exact(z.v, z.h) PROVE HasWritten(z, t, 0, z)
      <4>1. \A k \in Nat : ~(p <= k /\ k < p + j)
        BY <3>1
      <4>2. j \in Nat /\ p = p + j /\ 0 <= j
        BY <3>1
      <4> QED
        BY <3>2, <3>3, <4>1, <4>2 DEF HasWritten, p, j
    <3> QED
      BY <2>2, <2>4, <3>3, AsideSelf DEF WrittenUpTo
  <2>6. ASSUME NEW i \in 1 .. n, NEW b \in W[i - 1]
        PROVE  IF b.err = "NONE" THEN WriteTurn(b) \subseteq W[i] ELSE b \in W[i]
    <3>1. b \in WrittenUpTo(z, t, i - 1) /\ W[i] = WrittenUpTo(z, t, i) /\ i \in 1 .. Len(t)
      BY <2>0, <2>6 DEF n
    <3> HIDE DEF W
    <3>2. CASE b.err = "NONE"
      BY <2>4, <3>1, <3>2, WriteMore
    <3>3. CASE b.err # "NONE"
      BY <3>1, <3>3 DEF WrittenUpTo
    <3> QED
      BY <3>2, <3>3
  <2>7. z \in W[0] /\ W[n] = WrittenUpTo(z, t, n)
    BY <2>0, <2>5
  <2> HIDE DEF W
  <2>8. y \in WrittenUpTo(z, t, n)
    BY <2>0, <2>1, <2>6, <2>7, RepeatWrite
  <2> QED
    BY <2>1, <2>2, <2>4, <2>8 DEF n
<1> QED
  BY <1>1, <1>2

LEMMA SizedFields ==
  ASSUME NEW y \in Calls, NEW e, NEW x, x = Sized(y, e)
  PROVE  /\ x.v = y.v /\ x.err = y.err /\ x.h.file = y.h.file /\ x.h.sclust = y.h.sclust
         /\ x.h.clust = y.h.clust /\ x.h.sect = y.h.sect /\ x.h.offset = y.h.offset
         /\ x.h.mod = y.h.mod /\ x.h.dirty = y.h.dirty /\ x.h.buf = y.h.buf
         /\ x.h.size = IF y.h.offset > y.h.size THEN y.h.offset ELSE y.h.size
<1> DEFINE n == IF y.h.offset > y.h.size THEN y.h.offset ELSE y.h.size
           g == [y.h EXCEPT !.size = n]
<1>1. x.v = y.v /\ x.err = y.err /\ x.h = g /\ y.h \in HandleRecs
  BY DEF Sized, Calls
<1> HIDE DEF n
<1>2. /\ g.file = y.h.file /\ g.sclust = y.h.sclust
      /\ g.clust = y.h.clust /\ g.sect = y.h.sect /\ g.offset = y.h.offset
  BY <1>1 DEF HandleRecs
<1>3. g.mod = y.h.mod /\ g.dirty = y.h.dirty /\ g.buf = y.h.buf /\ g.size = n
  BY <1>1 DEF HandleRecs
<1> QED
  BY <1>1, <1>2, <1>3 DEF n

LEMMA ByteOfHandle ==
  ASSUME NEW v, NEW h, NEW g, g.sclust = h.sclust, g.sect = h.sect, g.buf = h.buf
  PROVE  \A k : ByteAt(v, g, k) = ByteAt(v, h, k)
BY DEF ByteAt, Held

LEMMA WriteResult ==
  ASSUME NEW w, Fine(w), Placed(w.v, w.h), w.err = "NONE", NEW t \in Seq(Byte),
         NEW x \in fat_file_write(w, t), x.err # "DENIED"
  PROVE  /\ Apart(w, x) /\ x.v.entry = w.v.entry
         /\ Exact(w.v, w.h) /\ x.err = "NONE" =>
              /\ Exact(x.v, x.h) /\ x.h.mod /\ x.h.offset = w.h.offset + Len(t)
              /\ Replaced(View(w.v, w.h), View(x.v, x.h), w.h.offset, t)
<1> DEFINE p == w.h.offset
           n == Len(t)
           s == w.h.size
<1>1. Fine(x) /\ w \in Calls /\ w.h \in HandleRecs /\ n \in Nat /\ p \in Nat /\ s \in Nat
  BY WriteEnds DEF Sought, Fine, Calls, HandleRecs
<1>2. PICK z, y : /\ Fine(z) /\ z.v = w.v /\ z.h = [w.h EXCEPT !.mod = TRUE]
                  /\ y \in WrittenUpTo(z, t, Len(t)) /\ x = Sized(y, w.h.offset + Len(t))
  <2>1. x # [w EXCEPT !.err = "DENIED"]
    BY <1>1 DEF Calls
  <2> QED
    BY <2>1, WriteGives
<1>3. /\ z.h.file = w.h.file /\ z.h.sclust = w.h.sclust /\ z.h.clust = w.h.clust
      /\ z.h.sect = w.h.sect /\ z.h.offset = p /\ z.h.size = s /\ z.h.dirty = w.h.dirty
      /\ z.h.buf = w.h.buf /\ z.h.mod
  BY <1>1, <1>2 DEF HandleRecs
<1>4. /\ y \in Calls /\ Apart(z, y) /\ y.v.entry = w.v.entry /\ SameFile(y.h, z.h)
      /\ (Exact(z.v, z.h) /\ y.err = "NONE" => HasWritten(z, t, n, y))
  BY <1>2 DEF WrittenUpTo, Aside, Safe
<1>5. /\ x.v = y.v /\ x.err = y.err /\ x.h.file = y.h.file /\ x.h.sclust = y.h.sclust
      /\ x.h.clust = y.h.clust /\ x.h.sect = y.h.sect /\ x.h.offset = y.h.offset
      /\ x.h.mod = y.h.mod /\ x.h.dirty = y.h.dirty /\ x.h.buf = y.h.buf
      /\ x.h.size = IF y.h.offset > y.h.size THEN y.h.offset ELSE y.h.size
  BY <1>2, <1>4, SizedFields
<1>6. Apart(w, x)
  <2>1. /\ x.v = y.v /\ z.v = w.v /\ z.h.file = w.h.file /\ z.h.sclust = w.h.sclust
        /\ x.h.file = y.h.file /\ x.h.sclust = y.h.sclust /\ Apart(z, y)
    BY <1>2, <1>3, <1>4, <1>5
  <2> QED
    BY <2>1 DEF Apart
<1>7. ASSUME Exact(w.v, w.h), x.err = "NONE"
      PROVE  /\ Exact(x.v, x.h) /\ x.h.mod /\ x.h.offset = p + n
             /\ Replaced(View(w.v, w.h), View(x.v, x.h), p, t)
  <2>1. Exact(z.v, z.h)
    BY <1>2, <1>3, <1>7 DEF Exact, Stands, Saved
  <2>2. HasWritten(z, t, n, y)
    BY <1>4, <1>5, <1>7, <2>1
  <2> DEFINE j == n - Len(y.data)
  <2>3. /\ j \in Nat /\ Exact(y.v, y.h) /\ y.h.offset = p + j
        /\ \A k \in Nat : p <= k /\ k < p + j => ByteAt(y.v, y.h, k) = t[k - p + 1]
        /\ \A k \in Nat : k < s /\ ~(p <= k /\ k < p + j) =>
             ByteAt(y.v, y.h, k) = ByteAt(w.v, z.h, k)
        /\ n <= j \/ y.data = <<>>
    BY <1>2, <1>3, <2>2, ZenonT(30) DEF HasWritten
  <2>4. j = n
    <3>1. Len(y.data) \in Nat
      BY <1>4 DEF Calls
    <3> QED
      BY <1>1, <2>3, <3>1
  <2> HIDE DEF j, n
  <2>5. Exact(x.v, x.h) /\ x.h.mod
    BY <1>3, <1>4, <1>5, <2>3 DEF Exact, Stands, Saved, SameFile
  <2>6. x.h.offset = p + n /\ y.h.size = s
    BY <1>3, <1>4, <1>5, <2>3, <2>4 DEF SameFile
  <2>7. \A k : ByteAt(w.v, z.h, k) = ByteAt(w.v, w.h, k)
    BY <1>3, ByteOfHandle
  <2>8. \A k : ByteAt(x.v, x.h, k) = ByteAt(y.v, y.h, k)
    BY <1>5, ByteOfHandle
  <2> DEFINE m == x.h.size
             old == View(w.v, w.h)
             new == View(x.v, x.h)
             b(k) == ByteAt(x.v, x.h, k)
             c(k) == ByteAt(w.v, w.h, k)
  <2>9. m = (IF p + n < s THEN s ELSE p + n) /\ m \in Nat
    <3> DEFINE o == y.h.offset
               d == y.h.size
    <3>1. o = p + n /\ d = s /\ m = IF o > d THEN o ELSE d
      BY <1>5, <2>3, <2>4, <2>6
    <3> HIDE DEF o, d, p, s, m
    <3> QED
      BY <1>1, <3>1
  <2>10. /\ Len(old) = s /\ \A i \in 1 .. s : old[i] = c(i - 1)
         /\ Len(new) = m /\ \A i \in 1 .. m : new[i] = b(i - 1)
    BY <1>1, <2>9, ViewLength
  <2>11. \A k \in Nat : k < m => b(k) \in Bytes
    BY <1>1, ByteTyped DEF Fine
  <2>12. /\ \A k \in Nat : p <= k /\ k < p + n => b(k) = t[k - p + 1]
         /\ \A k \in Nat : k < s /\ ~(p <= k /\ k < p + n) => b(k) = c(k)
    BY <2>3, <2>4, <2>7, <2>8
  <2> HIDE DEF m, old, new, b, c, p, s
  <2>13. ASSUME NEW i \in 1 .. m
         PROVE  CASE i > p /\ i <= p + n -> new[i] = t[i - p]
                  [] ~(i > p /\ i <= p + n) /\ i <= s -> new[i] = old[i]
                  [] OTHER -> new[i] \in Bytes
    <3> DEFINE k == i - 1
    <3>1. /\ k \in Nat /\ k < m /\ k - p + 1 = i - p /\ new[i] = b(k)
          /\ (i > p /\ i <= p + n <=> p <= k /\ k < p + n)
          /\ (i <= s <=> k < s) /\ (i <= s => old[i] = c(k))
      BY <1>1, <2>9, <2>10
    <3> HIDE DEF k
    <3>2. /\ p <= k /\ k < p + n => b(k) = t[i - p]
          /\ k < s /\ ~(p <= k /\ k < p + n) => b(k) = c(k)
          /\ b(k) \in Bytes
      BY <2>11, <2>12, <3>1
    <3> QED
      BY <3>1, <3>2
  <2>14. Replaced(old, new, p, t)
    BY <2>9, <2>10, <2>13 DEF Replaced, n
  <2> QED
    BY <2>5, <2>6, <2>14 DEF old, new, p
<1> QED
  BY <1>4, <1>5, <1>6, <1>7

-----------------------------------------------------------------------------
(* fat_file_sync puts the buffer on the disk and the size into the entry.  *)
SyncData(w) == [w.v.data EXCEPT ![w.h.sect] = w.h.buf]
SyncEntry(w) == IF w.h.mod THEN [w.v.entry EXCEPT ![w.h.file].size = w.h.size] ELSE w.v.entry

(* What has been done of a sync, and by a step that did not fail all of    *)
(* the parts in done.                                                      *)
Syncing(w, y, done) ==
  /\ y \in Calls /\ y.err \in {"NONE", "IO"} /\ y.h = w.h /\ y.v.fat = w.v.fat
  /\ y.v.data \in {w.v.data, SyncData(w)} /\ y.v.entry \in {w.v.entry, SyncEntry(w)}
  /\ y.v.dentry \in {w.v.dentry, w.v.entry, SyncEntry(w)}
  /\ y.err = "NONE" =>
       /\ "data" \in done => y.v.data = SyncData(w)
       /\ "entry" \in done => y.v.entry = SyncEntry(w)
       /\ "disk" \in done => y.v.dentry = y.v.entry

LEMMA SyncFault ==
  ASSUME NEW w, NEW y, NEW done, Syncing(w, y, done), NEW z \in Fault(y), NEW all
  PROVE  Syncing(w, z, all)
<1>1. z = [y EXCEPT !.err = "IO"] /\ y \in Calls
  BY DEF Fault, Failed, Syncing
<1>2. z \in Calls /\ z.err = "IO" /\ z.v = y.v /\ z.h = y.h
  BY <1>1 DEF Calls, Errs
<1> QED
  BY <1>2 DEF Syncing

LEMMA SyncSkip ==
  ASSUME NEW w, NEW y, NEW done, Syncing(w, y, done), y.err # "NONE", NEW all
  PROVE  Syncing(w, y, all)
BY DEF Syncing

LEMMA SyncVol ==
  ASSUME NEW y \in Calls, NEW u \in Vols, NEW z, z = [y EXCEPT !.v = u]
  PROVE  z \in Calls /\ z.v = u /\ z.h = y.h /\ z.err = y.err
BY DEF Calls

LEMMA SyncParts ==
  ASSUME NEW w, Fine(w), w.err = "NONE", NEW x \in fat_file_sync(w)
  PROVE  \E y : /\ Syncing(w, y, {"data", "entry", "disk"})
                /\ IF y.err = "NONE" THEN x = [y EXCEPT !.h.mod = FALSE] ELSE x = y
<1> DEFINE write(y) == Fault(y) \cup {[y EXCEPT !.v.data[y.h.sect] = y.h.buf]}
           update(y) ==
             IF y.h.mod THEN Fault(y) \cup {[y EXCEPT !.v.entry[y.h.file].size = y.h.size]} ELSE {y}
           clear(y) == {[y EXCEPT !.h.mod = FALSE]}
           A == write(w)
           B == UNION {IF y.err = "NONE" THEN update(y) ELSE {y} : y \in A}
           C == UNION {IF y.err = "NONE" THEN sync_fs(y) ELSE {y} : y \in B}
           D == UNION {IF y.err = "NONE" THEN clear(y) ELSE {y} : y \in C}
<1>1. x \in D
  BY DEF fat_file_sync, Then
<1>2. /\ w \in Calls /\ w.v \in Vols /\ w.h \in HandleRecs /\ w.h.buf \in Sector
      /\ w.v.data \in [Sectors -> Sector] /\ w.v.entry \in [Files -> Entries]
      /\ w.h.file \in Files /\ w.h.size \in Nat
  BY DEF Fine, Calls, Vols, HandleRecs
<1>3. SyncData(w) \in [Sectors -> Sector] /\ SyncEntry(w) \in [Files -> Entries]
  BY <1>2 DEF SyncData, SyncEntry, Entries
<1>4. Syncing(w, w, {})
  BY <1>2 DEF Syncing
<1>5. ASSUME NEW y \in A PROVE Syncing(w, y, {"data"})
  <2>1. CASE y \in Fault(w)
    BY <1>4, <2>1, SyncFault
  <2>2. CASE y = [w EXCEPT !.v.data[w.h.sect] = w.h.buf]
    <3> DEFINE u == [w.v EXCEPT !.data = SyncData(w)]
    <3>1. y = [w EXCEPT !.v = u]
      BY <1>2, <2>2 DEF Calls, Vols, SyncData
    <3>2. u \in Vols /\ u.fat = w.v.fat /\ u.entry = w.v.entry /\ u.dentry = w.v.dentry
          /\ u.data = SyncData(w)
      BY <1>2, <1>3 DEF Vols
    <3> HIDE DEF u
    <3>3. y \in Calls /\ y.v = u /\ y.h = w.h /\ y.err = "NONE"
      BY <1>2, <3>1, <3>2, SyncVol
    <3> QED
      BY <3>2, <3>3 DEF Syncing
  <2> QED
    BY <1>5, <2>1, <2>2
<1> HIDE DEF A
<1>6. ASSUME NEW z \in B PROVE Syncing(w, z, {"data", "entry"})
  <2>1. PICK y \in A : z \in IF y.err = "NONE" THEN update(y) ELSE {y}
    BY <1>6
  <2>2. Syncing(w, y, {"data"})
    BY <1>5, <2>1
  <2>3. CASE y.err # "NONE"
    BY <2>1, <2>2, <2>3, SyncSkip
  <2>4. CASE y.err = "NONE" /\ ~y.h.mod
    <3>1. z = y
      BY <2>1, <2>4
    <3> QED
      BY <2>2, <2>4, <3>1 DEF Syncing, SyncEntry
  <2>5. CASE z \in Fault(y)
    BY <2>2, <2>5, SyncFault
  <2>6. CASE y.err = "NONE" /\ y.h.mod /\ z = [y EXCEPT !.v.entry[y.h.file].size = y.h.size]
    <3> DEFINE u == [y.v EXCEPT !.entry = SyncEntry(w)]
    <3>1. /\ y \in Calls /\ y.v \in Vols /\ y.h = w.h /\ y.v.fat = w.v.fat /\ y.v.data = SyncData(w)
          /\ y.v.entry \in {w.v.entry, SyncEntry(w)}
          /\ y.v.dentry \in {w.v.dentry, w.v.entry, SyncEntry(w)} /\ w.h.mod /\ y.err = "NONE"
      BY <2>2, <2>6 DEF Syncing, Calls
    <3>2. [y.v.entry EXCEPT ![w.h.file].size = w.h.size] = SyncEntry(w)
      BY <1>2, <3>1 DEF SyncEntry, Entries
    <3>3. z = [y EXCEPT !.v = u]
      BY <2>6, <3>1, <3>2 DEF Calls, Vols
    <3>4. u \in Vols /\ u.fat = w.v.fat /\ u.data = SyncData(w) /\ u.entry = SyncEntry(w)
          /\ u.dentry = y.v.dentry
      BY <1>3, <3>1 DEF Vols
    <3> HIDE DEF u
    <3>5. z \in Calls /\ z.v = u /\ z.h = w.h /\ z.err = "NONE"
      BY <3>1, <3>3, <3>4, SyncVol
    <3> QED
      BY <3>1, <3>4, <3>5 DEF Syncing
  <2> QED
    BY <2>1, <2>3, <2>4, <2>5, <2>6
<1> HIDE DEF B
<1> DEFINE all == {"data", "entry", "disk"}
<1>7. ASSUME NEW z \in C PROVE Syncing(w, z, all)
  <2>1. PICK y \in B : z \in IF y.err = "NONE" THEN sync_fs(y) ELSE {y}
    BY <1>7
  <2>2. Syncing(w, y, {"data", "entry"})
    BY <1>6, <2>1
  <2>3. CASE y.err # "NONE"
    BY <2>1, <2>2, <2>3, SyncSkip
  <2>4. CASE z \in Fault(y)
    BY <2>2, <2>4, SyncFault
  <2>5. CASE y.err = "NONE" /\ z = [y EXCEPT !.v.dentry = y.v.entry]
    <3> DEFINE u == [y.v EXCEPT !.dentry = y.v.entry]
    <3>1. /\ y \in Calls /\ y.v \in Vols /\ y.h = w.h /\ y.v.fat = w.v.fat /\ y.v.data = SyncData(w)
          /\ y.v.entry = SyncEntry(w) /\ y.err = "NONE"
      BY <2>2, <2>5 DEF Syncing, Calls
    <3>2. z = [y EXCEPT !.v = u]
      BY <2>5, <3>1 DEF Calls, Vols
    <3>3. u \in Vols /\ u.fat = w.v.fat /\ u.data = SyncData(w) /\ u.entry = SyncEntry(w)
          /\ u.dentry = u.entry
      BY <3>1 DEF Vols
    <3> HIDE DEF u
    <3>4. z \in Calls /\ z.v = u /\ z.h = w.h /\ z.err = "NONE"
      BY <3>1, <3>2, <3>3, SyncVol
    <3> QED
      BY <3>3, <3>4 DEF Syncing
  <2> QED
    BY <2>1, <2>3, <2>4, <2>5 DEF sync_fs
<1> HIDE DEF C, all
<1>8. PICK y \in C : x \in IF y.err = "NONE" THEN clear(y) ELSE {y}
  BY <1>1
<1>9. Syncing(w, y, all)
  BY <1>7, <1>8
<1> QED
  BY <1>8, <1>9 DEF all

LEMMA SyncResult ==
  ASSUME NEW w, Fine(w), Placed(w.v, w.h), w.err = "NONE", NEW x \in fat_file_sync(w)
  PROVE  /\ Apart(w, x) /\ x.v.fat = w.v.fat
         /\ x.err = "NONE" =>
              /\ x.v.data = SyncData(w) /\ x.v.entry = SyncEntry(w) /\ x.v.dentry = x.v.entry
              /\ x.h = [w.h EXCEPT !.mod = FALSE]
<1>1. PICK y : /\ Syncing(w, y, {"data", "entry", "disk"})
               /\ IF y.err = "NONE" THEN x = [y EXCEPT !.h.mod = FALSE] ELSE x = y
  BY SyncParts
<1>2. /\ y \in Calls /\ y.err \in {"NONE", "IO"} /\ y.h = w.h /\ y.v.fat = w.v.fat
      /\ y.v.data \in {w.v.data, SyncData(w)} /\ y.v.entry \in {w.v.entry, SyncEntry(w)}
      /\ y.v.dentry \in {w.v.dentry, w.v.entry, SyncEntry(w)}
      /\ y.err = "NONE" =>
           /\ y.v.data = SyncData(w) /\ y.v.entry = SyncEntry(w) /\ y.v.dentry = y.v.entry
  BY <1>1 DEF Syncing
<1>3. x.v = y.v /\ x.err = y.err /\ x.h = IF y.err = "NONE" THEN [w.h EXCEPT !.mod = FALSE] ELSE w.h
  BY <1>1, <1>2 DEF Calls
<1>4. /\ w.v \in Vols /\ w.h \in HandleRecs /\ w.v.data \in [Sectors -> Sector]
      /\ w.v.entry \in [Files -> Entries] /\ w.h.sclust \in {0} \cup Clusters
  BY DEF Fine, Calls, Vols, HandleRecs
<1>5. x.h.file = w.h.file /\ x.h.sclust = w.h.sclust
  BY <1>3, <1>4 DEF HandleRecs
<1>6. \A g \in Files : g # w.h.file => x.v.entry[g] = w.v.entry[g]
  BY <1>2, <1>3, <1>4, SMTT(30) DEF SyncEntry
<1>7. \A g \in Files : g # w.h.file => x.v.dentry[g] \in {w.v.dentry[g], w.v.entry[g]}
  BY <1>2, <1>3, <1>4, SMTT(30) DEF SyncEntry
<1>8. ASSUME NEW s \in Sectors
      PROVE  x.v.data[s] = w.v.data[s] \/ s \div SPC + 2 \in Chain(x.v, w.h.sclust)
  <2>1. CASE s = w.h.sect
    <3>1. Still(w, x) /\ x.v \in Vols
      BY <1>2, <1>3, SyncEnds DEF Calls
    <3>2. Chain(w.v, w.h.sclust) \subseteq Chain(x.v, w.h.sclust)
      BY <1>4, <3>1, GrowsChain DEF Still
    <3> QED
      BY <2>1, <3>2 DEF Placed
  <2>2. CASE s # w.h.sect
    BY <1>2, <1>3, <1>4, <2>2 DEF SyncData
  <2> QED
    BY <2>1, <2>2
<1>9. Apart(w, x)
  BY <1>5, <1>6, <1>7, <1>8 DEF Apart
<1> QED
  BY <1>2, <1>3, <1>9

LEMMA ExactGrows ==
  ASSUME NEW v \in Vols, NEW u \in Vols, Grows(v, u), NEW h \in HandleRecs, Exact(v, h),
         NEW g, g.sclust = h.sclust, g.clust = h.clust, g.offset = h.offset, g.sect = h.sect,
         Saved(u, g)
  PROVE  Exact(u, g)
<1> DEFINE a == h.sclust
           n == h.offset \div SECT
<1>1. /\ InChain(v, a, n) /\ h.sect = SectOf(v, a, n) /\ a \in {0} \cup Clusters
      /\ Stands(v, h, h.offset \div CLUST_SIZE)
  BY ExactReady DEF Exact, HandleRecs
<1>2. Stands(u, h, h.offset \div CLUST_SIZE)
  BY <1>1, GrowsStands
<1>3. ChainOf(u, a)[n \div SPC] = ChainOf(v, a)[n \div SPC]
  <2> HIDE DEF a, n
  <2> QED
    BY <1>1, GrowsChain DEF InChain
<1>4. SectOf(u, a, n) = SectOf(v, a, n)
  BY <1>3 DEF SectOf
<1> QED
  BY <1>1, <1>2, <1>4 DEF Exact, Stands

(* The file as a handle with nothing in its buffer sees it. *)
Shut(v, f) == [sclust |-> v.entry[f].clust, sect |-> NOSECT, size |-> v.entry[f].size,
               buf |-> NOSECT]

LEMMA SyncSees ==
  ASSUME NEW w, Fine(w), Placed(w.v, w.h), w.err = "NONE", NEW x \in fat_file_sync(w),
         x.err = "NONE", Exact(w.v, w.h)
  PROVE  /\ Exact(x.v, x.h) /\ View(x.v, x.h) = View(w.v, w.h)
         /\ x.v.entry[w.h.file].size = w.h.size =>
              View(x.v, Shut(x.v, w.h.file)) = View(w.v, w.h)
<1> DEFINE f == w.h.file
           h == w.h
           v == w.v
           u == x.v
           g == x.h
           k == Shut(u, f)
<1>1. /\ u.fat = v.fat /\ u.data = SyncData(w) /\ u.entry = SyncEntry(w)
      /\ g = [h EXCEPT !.mod = FALSE]
  BY SyncResult
<1>2. v \in Vols /\ u \in Vols /\ Grows(v, u) /\ h \in HandleRecs /\ HandleOK(v, h) /\ f \in Files
  BY SyncEnds DEF Still, Fine, Calls, HandleRecs
<1>3. /\ g.sclust = h.sclust /\ g.clust = h.clust /\ g.offset = h.offset /\ g.sect = h.sect
      /\ g.size = h.size /\ g.buf = h.buf
  BY <1>1, <1>2 DEF HandleRecs
<1>4. h.sect \in Sectors /\ h.size \in Nat /\ h.sclust \in {0} \cup Clusters
  BY <1>2, ExactReady DEF HandleRecs
<1>5. u.data[h.sect] = h.buf /\ \A s \in Sectors : s # h.sect => u.data[s] = v.data[s]
  BY <1>1, <1>2, <1>4 DEF SyncData, Vols
<1>6. Exact(u, g)
  <2>1. Saved(u, g)
    BY <1>3, <1>5 DEF Saved
  <2> HIDE DEF u, g, h, v
  <2> QED
    BY <1>2, <1>3, <2>1, ExactGrows DEF h, v
<1>7. Covered(v, h.sclust, h.size) /\ h.sclust = v.entry[f].clust
  BY <1>2 DEF HandleOK
<1>8. SeenSame(v, h, u, g)
  BY <1>3, <1>5 DEF SeenSame, Held
<1>9. View(u, g) = View(v, h)
  <2> HIDE DEF u, g, h, v
  <2> QED
    BY <1>2, <1>3, <1>4, <1>7, <1>8, ViewSame
<1>10. ASSUME u.entry[f].size = h.size PROVE View(u, k) = View(v, h)
  <2>1. u.entry[f].clust = v.entry[f].clust
    BY <1>1, <1>2 DEF SyncEntry, Vols, Entries
  <2>2. k.sclust = h.sclust /\ k.size = h.size /\ k.sect = NOSECT
    BY <1>7, <1>10, <2>1 DEF Shut
  <2>3. \A s \in Sectors : s # NOSECT
    BY DEF Sectors, NOSECT
  <2>4. SeenSame(v, h, u, k)
    BY <1>5, <2>2, <2>3 DEF SeenSame, Held
  <2> HIDE DEF u, k, h, v
  <2> QED
    BY <1>2, <1>4, <1>7, <2>2, <2>4, ViewSame
<1> QED
  BY <1>6, <1>9, <1>10

-----------------------------------------------------------------------------
(* fat_file_open changes no data, and gives a handle that sees what was    *)
(* there, or nothing of it when the file is truncated.                     *)
LEMMA HandleNew ==
  ASSUME NEW f, NEW e, e.size \in Nat, NEW mode
  PROVE  LET h == Handle(f, e, mode)
         IN  /\ h.file = f /\ h.sclust = e.clust /\ h.clust = e.clust /\ h.sect = NOSECT
             /\ h.offset = 0 /\ ~h.dirty
             /\ (h.size = e.size \/ (h.size = 0 /\ h.mod))
BY DEF Handle

Opened(v, x, f) ==
  /\ Exact(x.v, x.h) /\ x.h.file = f /\ x.h.offset \in {0, x.h.size}
  /\ x.h.size = x.v.entry[f].size \/ (x.h.size = 0 /\ x.h.mod)
  /\ \A s \in Sectors : Held(x.v, x.h, s) = v.data[s]

LEMMA OpenResult ==
  ASSUME VolOK(vol), NEW f \in Files, NEW mode, NEW x \in fat_file_open(f, mode)
  PROVE  Made(vol, x.v, f) /\ (x.err = "NONE" => Opened(vol, x, f))
<1>1. PICK w : /\ Begun(w, f)
               /\ \/ w.err # "NONE" /\ x = w
                  \/ \E z : /\ w.err = "NONE" /\ Fine(z) /\ z.err = "NONE" /\ z.v = w.v
                           /\ z.h = Handle(f, w.v.entry[f], mode)
                           /\ x \in fat_file_seek(z, IF "APPEND" \in mode THEN z.h.size ELSE 0)
  BY OpenParts
<1>2. CASE w.err # "NONE" /\ x = w
  BY <1>1, <1>2 DEF Begun
<1>3. ASSUME NEW z, Fine(z), z.err = "NONE", z.v = w.v, z.h = Handle(f, w.v.entry[f], mode),
             x \in fat_file_seek(z, IF "APPEND" \in mode THEN z.h.size ELSE 0)
      PROVE  Made(vol, x.v, f) /\ (x.err = "NONE" => Opened(vol, x, f))
  <2> DEFINE off == IF "APPEND" \in mode THEN z.h.size ELSE 0
             n == w.v.entry[f].size
  <2>1. off \in Int /\ off \in {0, z.h.size} /\ w.v \in Vols /\ z.h \in HandleRecs
    BY <1>1, <1>3 DEF Fine, Calls, HandleRecs
  <2>2. n \in Nat
    BY <2>1 DEF Vols, Entries
  <2>3. /\ z.h.file = f /\ z.h.sclust = w.v.entry[f].clust /\ z.h.clust = w.v.entry[f].clust
        /\ z.h.sect = NOSECT /\ z.h.offset = 0 /\ ~z.h.dirty
        /\ (z.h.size = n \/ (z.h.size = 0 /\ z.h.mod))
    BY <1>3, <2>2, HandleNew
  <2> HIDE DEF off
  <2>4. /\ x.v.entry = w.v.entry /\ x.v.dentry \in {w.v.dentry, w.v.entry}
        /\ SameFile(x.h, z.h) /\ x.v.data = w.v.data
    BY <1>3, <2>1, <2>3, SeekKeeps DEF off
  <2>5. Made(vol, x.v, f)
    BY <1>1, <2>4 DEF Begun, Made
  <2>6. ASSUME x.err = "NONE" PROVE Opened(vol, x, f)
    <3>1. Ready(z.v, z.h)
      <4>1. 0 \div CLUST_SIZE = 0 /\ Last \in Nat
        BY Constants
      <4>2. ChainOf(z.v, z.h.sclust)[0] = z.h.clust
        BY <2>3, ChainSteps
      <4> QED
        BY <2>3, <4>1, <4>2 DEF Ready, Stands
    <3>2. x.h.offset = off /\ Exact(x.v, x.h) /\ SameHeld(z.v, z.h, x.v, x.h)
      BY <1>3, <2>1, <2>6, <3>1, SeekArrived DEF off
    <3>3. ASSUME NEW s \in Sectors PROVE Held(x.v, x.h, s) = vol.data[s]
      <4>1. s # NOSECT
        BY DEF Sectors, NOSECT
      <4> QED
        BY <1>1, <1>3, <2>3, <3>2, <4>1, SMTT(30) DEF SameHeld, Held, Begun, Made
    <3> QED
      BY <2>1, <2>3, <2>4, <3>2, <3>3 DEF Opened, SameFile
  <2> QED
    BY <2>5, <2>6
<1> QED
  BY <1>1, <1>2, <1>3

-----------------------------------------------------------------------------
(* The content of a file that is not spoilt is what its one handle sees,   *)
(* or what a handle with an empty buffer would see.  The volume and the    *)
(* handles are parameters, to speak of the state after a step as well.     *)
HandlesIn(F, f) == {h \in Handles : F[h] # Closed /\ F[h].file = f}
SizeIn(v, F, f) ==
  IF HandlesIn(F, f) = {} THEN v.entry[f].size ELSE F[CHOOSE h \in HandlesIn(F, f) : TRUE].size
SectorIn(v, F, f, s) ==
  LET holders == {h \in HandlesIn(F, f) : F[h].sect = s}
  IN  IF holders = {} THEN v.data[s] ELSE F[CHOOSE h \in holders : TRUE].buf
ContentIn(v, F, f) ==
  [i \in 1 .. SizeIn(v, F, f) |->
     SectorIn(v, F, f, SectOf(v, v.entry[f].clust, (i - 1) \div SECT))[(i - 1) % SECT]]

LEMMA ContentIs ==
  ASSUME NEW f
  PROVE  /\ ContentOf(f) = ContentIn(vol, file, f) /\ ContentOf(f)' = ContentIn(vol', file', f)
         /\ HandlesOf(f) = HandlesIn(file, f)
<1>1. HandlesOf(f) = HandlesIn(file, f) /\ HandlesOf(f)' = HandlesIn(file', f)
  BY DEF HandlesOf, HandlesIn, IsOpen
<1>2. SizeOf(f) = SizeIn(vol, file, f) /\ SizeOf(f)' = SizeIn(vol', file', f)
  BY <1>1 DEF SizeOf, SizeIn
<1>3. \A a, i : SectorAt(f, ChainOf(vol, a), i) = SectorIn(vol, file, f, SectOf(vol, a, i))
  BY <1>1 DEF SectorAt, SectorIn, SectOf
<1>4. \A a, i : SectorAt(f, ChainOf(vol, a), i)' = SectorIn(vol', file', f, SectOf(vol', a, i))
  BY <1>1 DEF SectorAt, SectorIn, SectOf
<1>5. ContentOf(f) = ContentIn(vol, file, f)
  BY <1>2, <1>3 DEF ContentOf, ContentIn
<1>6. ContentOf(f)' = ContentIn(vol', file', f)
  BY <1>2, <1>4 DEF ContentOf, ContentIn
<1> QED
  BY <1>1, <1>5, <1>6

(* Through what the file is seen. *)
Eye(v, F, f) ==
  IF HandlesIn(F, f) = {} THEN Shut(v, f) ELSE F[CHOOSE h \in HandlesIn(F, f) : TRUE]

HandlesSound(v, F) == \A h \in Handles : F[h] # Closed => HandleOK(v, F[h])

LEMMA EyeSound ==
  ASSUME NEW v, VolOK(v), NEW F, HandlesSound(v, F), NEW f \in Files
  PROVE  LET e == Eye(v, F, f)
         IN  /\ e.sclust = v.entry[f].clust /\ e.sclust \in {0} \cup Clusters
             /\ e.size \in Nat /\ e.size = SizeIn(v, F, f) /\ Covered(v, e.sclust, e.size)
<1>1. /\ v \in Vols /\ v.entry[f].clust \in {0} \cup Clusters /\ v.entry[f].size \in Nat
      /\ EntryOK(v, v.entry[f])
  BY DEF VolOK, Vols, Entries
<1>2. CASE HandlesIn(F, f) = {}
  <2> DEFINE e == Shut(v, f)
             c == v.entry[f].clust
  <2>1. Eye(v, F, f) = e /\ e.sclust = c /\ e.size = v.entry[f].size
    BY <1>2 DEF Eye, Shut
  <2>2. Covered(v, c, v.entry[f].size)
    <3>1. CASE v.entry[f] = Absent
      <4>1. c = 0 /\ v.entry[f].size = 0 /\ c \in {0} \cup Clusters
        BY <1>1, <3>1 DEF Absent
      <4>2. Cardinality(Chain(v, c)) \in Nat
        <5> HIDE DEF c
        <5> QED
          BY <4>1, ChainMembers
      <4> QED
        BY <4>1, <4>2, Constants DEF Covered
    <3>2. CASE v.entry[f] # Absent
      BY <1>1, <3>2 DEF EntryOK
    <3> QED
      BY <3>1, <3>2
  <2> QED
    BY <1>1, <1>2, <2>1, <2>2 DEF SizeIn
<1>3. CASE HandlesIn(F, f) # {}
  <2> DEFINE h == CHOOSE g \in HandlesIn(F, f) : TRUE
  <2>1. h \in HandlesIn(F, f) /\ Eye(v, F, f) = F[h] /\ SizeIn(v, F, f) = F[h].size
    BY <1>3 DEF Eye, SizeIn
  <2> HIDE DEF h
  <2>2. HandleOK(v, F[h]) /\ F[h].file = f
    BY <2>1 DEF HandlesIn, HandlesSound
  <2> QED
    BY <1>1, <2>1, <2>2 DEF HandleOK, HandleRecs
<1> QED
  BY <1>2, <1>3

LEMMA ContentSeen ==
  ASSUME NEW v, VolOK(v), NEW F, HandlesSound(v, F), NEW f \in Files,
         \A g, h \in HandlesIn(F, f) : g = h
  PROVE  ContentIn(v, F, f) = View(v, Eye(v, F, f))
<1> DEFINE e == Eye(v, F, f)
           a == v.entry[f].clust
           n == e.size
<1>1. e.sclust = a /\ a \in {0} \cup Clusters /\ n \in Nat /\ n = SizeIn(v, F, f) /\ Covered(v, a, n)
  BY EyeSound
<1>2. ASSUME NEW s \in Sectors PROVE SectorIn(v, F, f, s) = Held(v, e, s)
  <2> DEFINE holders == {h \in HandlesIn(F, f) : F[h].sect = s}
  <2>1. CASE HandlesIn(F, f) = {}
    <3>1. e.sect = NOSECT /\ s # NOSECT /\ holders = {}
      BY <2>1 DEF Eye, Shut, Sectors, NOSECT
    <3> HIDE DEF e
    <3> QED
      BY <3>1 DEF SectorIn, Held
  <2>2. CASE HandlesIn(F, f) # {}
    <3> DEFINE h == CHOOSE g \in HandlesIn(F, f) : TRUE
    <3>1. h \in HandlesIn(F, f) /\ e = F[h]
      BY <2>2 DEF Eye
    <3> HIDE DEF h, e
    <3>2. \A g \in HandlesIn(F, f) : g = h
      BY <3>1
    <3>3. CASE F[h].sect = s
      <4>1. holders # {} /\ (CHOOSE g \in holders : TRUE) = h
        BY <3>1, <3>2, <3>3
      <4> QED
        BY <3>1, <3>3, <4>1 DEF SectorIn, Held
    <3>4. CASE F[h].sect # s
      <4>1. holders = {}
        BY <3>2, <3>4
      <4> QED
        BY <3>1, <3>4, <4>1 DEF SectorIn, Held
    <3> QED
      BY <3>3, <3>4
  <2> QED
    BY <2>1, <2>2
<1> HIDE DEF e, a, n
<1>3. ASSUME NEW i \in 1 .. n
      PROVE  SectorIn(v, F, f, SectOf(v, a, (i - 1) \div SECT))[(i - 1) % SECT] = ByteAt(v, e, i - 1)
  <2> DEFINE k == i - 1
             m == k \div SECT
             s == SectOf(v, a, m)
  <2>1. k \in Nat /\ k < n
    BY <1>1
  <2> HIDE DEF k
  <2>2. m \in Nat /\ InChain(v, a, m)
    BY <1>1, <2>1, CoveredIn, SectorCluster
  <2>3. s \in Sectors
    BY <1>1, <2>2, SectIn
  <2>4. SectorIn(v, F, f, s) = Held(v, e, s)
    BY <1>2, <2>3
  <2>5. SectorIn(v, F, f, s)[k % SECT] = ByteAt(v, e, k)
    BY <1>1, <2>4 DEF ByteAt
  <2> QED
    BY <2>5 DEF k
<1> QED
  BY <1>1, <1>3 DEF ContentIn, View, n, a, e

-----------------------------------------------------------------------------
(* A call on file f leaves the other files alone. *)
Leaves(v, u, f) ==
  /\ \A g \in Files : g # f => u.entry[g] = v.entry[g] /\ u.dentry[g] \in {v.dentry[g], v.entry[g]}
  /\ \A s \in Sectors : u.data[s] = v.data[s] \/ s \div SPC + 2 \in Chain(u, u.entry[f].clust)

LEMMA ApartLeaves ==
  ASSUME NEW w, NEW x, Fine(x), Apart(w, x)
  PROVE  Leaves(w.v, x.v, w.h.file)
<1>1. w.h.sclust = x.v.entry[w.h.file].clust
  BY DEF Fine, HandleOK, Apart
<1> QED
  BY <1>1 DEF Apart, Leaves

LEMMA MadeLeaves ==
  ASSUME NEW v, NEW u, NEW f, Made(v, u, f)
  PROVE  Leaves(v, u, f)
BY DEF Made, Leaves

(* Only handle h changes, which is closed or a handle of f. *)
Shifted(F, G, h, f) ==
  /\ \A k \in Handles : k # h => G[k] = F[k]
  /\ F[h] = Closed \/ F[h].file = f
  /\ G[h] = Closed \/ G[h].file = f

(* What is kept of a file that is not spoilt: it has one handle at most,   *)
(* whose buffer is the sector of its offset.                               *)
TameAt(v, F, f) ==
  /\ \A g, h \in HandlesIn(F, f) : g = h
  /\ \A h \in HandlesIn(F, f) : Exact(v, F[h]) /\ (~F[h].mod => F[h].size = v.entry[f].size)

LEMMA ElsewhereData ==
  ASSUME NEW v, VolOK(v), NEW u, VolOK(u), Grows(v, u), NEW f \in Files, NEW g \in Files, g # f,
         Leaves(v, u, f), NEW s \in Sectors, s \div SPC + 2 \in Chain(v, v.entry[g].clust)
  PROVE  u.data[s] = v.data[s]
<1> DEFINE a == v.entry[g].clust
<1>1. v \in Vols /\ u \in Vols /\ a \in {0} \cup Clusters
  BY DEF VolOK, Vols, Entries
<1>2. u.entry[g].clust = a
  BY DEF Leaves
<1> HIDE DEF a
<1>3. Chain(v, a) \subseteq Chain(u, a)
  BY <1>1, GrowsChain
<1>4. s \div SPC + 2 \in Chain(u, u.entry[g].clust)
  BY <1>2, <1>3 DEF a
<1>5. s \div SPC + 2 \notin Chain(u, u.entry[f].clust)
  BY <1>4, ChainsApart
<1> QED
  BY <1>5 DEF Leaves

LEMMA ElsewhereHandles ==
  ASSUME NEW F, NEW G, NEW h \in Handles, NEW f, NEW g, g # f, Shifted(F, G, h, f)
  PROVE  HandlesIn(G, g) = HandlesIn(F, g) /\ \A k \in HandlesIn(F, g) : G[k] = F[k]
BY DEF HandlesIn, Shifted

LEMMA Elsewhere ==
  ASSUME NEW v, VolOK(v), NEW u, VolOK(u), Grows(v, u), NEW f \in Files, NEW g \in Files, g # f,
         Leaves(v, u, f), NEW F, HandlesSound(v, F), NEW G, HandlesSound(u, G),
         NEW h \in Handles, Shifted(F, G, h, f), TameAt(v, F, g)
  PROVE  TameAt(u, G, g) /\ ContentIn(u, G, g) = ContentIn(v, F, g)
<1> DEFINE a == v.entry[g].clust
<1>1. v \in Vols /\ u \in Vols /\ u.entry[g] = v.entry[g]
  BY DEF VolOK, Leaves
<1>2. HandlesIn(G, g) = HandlesIn(F, g) /\ \A k \in HandlesIn(F, g) : G[k] = F[k]
  BY ElsewhereHandles
<1>3. ASSUME NEW s \in Sectors, s \div SPC + 2 \in Chain(v, a) PROVE u.data[s] = v.data[s]
  BY <1>3, ElsewhereData
<1>4. ASSUME NEW k \in HandlesIn(G, g)
      PROVE  Exact(u, G[k]) /\ (~G[k].mod => G[k].size = u.entry[g].size)
  <2> DEFINE e == F[k]
  <2>1. /\ G[k] = e /\ Exact(v, e) /\ (~e.mod => e.size = v.entry[g].size) /\ e.file = g
        /\ k \in Handles /\ e # Closed
    BY <1>2, <1>4 DEF TameAt, HandlesIn
  <2>2. HandleOK(v, e) /\ e \in HandleRecs
    BY <2>1 DEF HandlesSound, HandleOK
  <2>3. e.sclust = a
    BY <2>1, <2>2 DEF HandleOK
  <2> HIDE DEF e
  <2>4. e.sect \in Sectors /\ e.sect \div SPC + 2 \in Chain(v, e.sclust)
    BY <2>1, <2>2, ExactReady
  <2>5. u.data[e.sect] = v.data[e.sect]
    BY <1>3, <2>3, <2>4
  <2>6. Saved(u, e)
    BY <2>1, <2>5 DEF Exact, Saved
  <2>7. Exact(u, e)
    BY <1>1, <2>1, <2>2, <2>6, ExactGrows
  <2> QED
    BY <1>1, <2>1, <2>7
<1>5. TameAt(u, G, g)
  BY <1>2, <1>4 DEF TameAt
<1> DEFINE e == Eye(v, F, g)
<1>6. Eye(u, G, g) = e
  <2>1. CASE HandlesIn(F, g) = {}
    BY <1>1, <1>2, <2>1 DEF Eye, Shut
  <2>2. CASE HandlesIn(F, g) # {}
    BY <1>2, <2>2 DEF Eye
  <2> QED
    BY <2>1, <2>2
<1>7. e.sclust = a /\ e.sclust \in {0} \cup Clusters /\ e.size \in Nat /\ Covered(v, e.sclust, e.size)
  BY EyeSound
<1>8. ContentIn(v, F, g) = View(v, e)
  BY ContentSeen DEF TameAt
<1>9. ContentIn(u, G, g) = View(u, Eye(u, G, g))
  BY <1>5, ContentSeen DEF TameAt
<1> HIDE DEF e
<1>10. SeenSame(v, e, u, e)
  BY <1>3, <1>7 DEF SeenSame, Held
<1>11. View(u, e) = View(v, e)
  BY <1>1, <1>7, <1>10, ViewSame
<1> QED
  BY <1>5, <1>6, <1>8, <1>9, <1>11

UnsavedIn(v, F) ==
  {f \in Files : v.entry[f] # v.dentry[f] \/ \E h \in HandlesIn(F, f) : F[h].mod}

LEMMA UnsavedIs == Unsaved = UnsavedIn(vol, file) /\ Unsaved' = UnsavedIn(vol', file')
BY DEF Unsaved, UnsavedIn, HandlesIn, IsOpen

LEMMA ElsewhereUnsaved ==
  ASSUME NEW v, NEW u, NEW f, Leaves(v, u, f), NEW F, NEW G, NEW h \in Handles, Shifted(F, G, h, f)
  PROVE  UnsavedIn(u, G) \subseteq UnsavedIn(v, F) \cup {f}
<1> SUFFICES ASSUME NEW g \in UnsavedIn(u, G), g # f PROVE g \in UnsavedIn(v, F)
  OBVIOUS
<1>1. g \in Files /\ u.entry[g] = v.entry[g] /\ u.dentry[g] \in {v.dentry[g], v.entry[g]}
  BY DEF UnsavedIn, Leaves
<1>2. HandlesIn(G, g) = HandlesIn(F, g) /\ \A k \in HandlesIn(F, g) : G[k] = F[k]
  BY ElsewhereHandles
<1> QED
  BY <1>1, <1>2 DEF UnsavedIn

-----------------------------------------------------------------------------
(* The steps.  Tame is the second half of the inductive invariant. *)
Tame == \A f \in Files \ spoilt : TameAt(vol, file, f)

AtIn(F, h) ==
  IF F[h] # Closed THEN [file |-> F[h].file, pos |-> F[h].offset] ELSE [file |-> None, pos |-> 0]

LEMMA MappedState ==
  /\ \A f \in Files : Content[f] = IF f \in spoilt THEN <<>> ELSE ContentIn(vol, file, f)
  /\ \A f \in Files : Content'[f] = IF f \in spoilt' THEN <<>> ELSE ContentIn(vol', file', f)
  /\ \A h \in Handles : At[h] = AtIn(file, h) /\ At'[h] = AtIn(file', h)
  /\ DOMAIN Content = Files /\ DOMAIN Content' = Files
  /\ DOMAIN At = Handles /\ DOMAIN At' = Handles
  /\ Content = [f \in Files |-> Content[f]] /\ Content' = [f \in Files |-> Content'[f]]
  /\ At = [h \in Handles |-> At[h]] /\ At' = [h \in Handles |-> At'[h]]
<1>1. \A f \in Files : Content[f] = IF f \in spoilt THEN <<>> ELSE ContentIn(vol, file, f)
  BY ContentIs DEF Content
<1>2. \A f \in Files : Content'[f] = IF f \in spoilt' THEN <<>> ELSE ContentIn(vol', file', f)
  BY ContentIs DEF Content
<1>3. \A h \in Handles : At[h] = AtIn(file, h) /\ At'[h] = AtIn(file', h)
  BY DEF At, AtIn, IsOpen
<1>4. /\ DOMAIN Content = Files /\ DOMAIN Content' = Files
      /\ Content = [f \in Files |-> Content[f]] /\ Content' = [f \in Files |-> Content'[f]]
  BY DEF Content
<1>5. /\ DOMAIN At = Handles /\ DOMAIN At' = Handles
      /\ At = [h \in Handles |-> At[h]] /\ At' = [h \in Handles |-> At'[h]]
  BY DEF At
<1> QED
  BY <1>1, <1>2, <1>3, <1>4, <1>5

LEMMA InvSounds ==
  ASSUME IInv, IInv'
  PROVE  /\ VolOK(vol) /\ HandlesSound(vol, file)
         /\ VolOK(vol') /\ HandlesSound(vol', file')
BY DEF IInv, HandlesSound, IsOpen

(* A call on handle h of file f. *)
Calling(h, f) ==
  /\ h \in Handles /\ f \in Files
  /\ Grows(vol, vol') /\ Leaves(vol, vol', f) /\ Shifted(file, file', h, f)
  /\ \A g \in Files : g # f => (g \in spoilt' <=> g \in spoilt)

LEMMA CallFrame ==
  ASSUME IInv, IInv', Tame, NEW h, NEW f, Calling(h, f)
  PROVE  /\ \A g \in Files : g # f => Content'[g] = Content[g]
         /\ \A g \in Files \ spoilt' : g # f => TameAt(vol', file', g)
         /\ Unsaved' \subseteq Unsaved \cup {f}
         /\ \A k \in Handles : k # h => At'[k] = At[k]
<1>1. /\ VolOK(vol) /\ HandlesSound(vol, file)
      /\ VolOK(vol') /\ HandlesSound(vol', file')
  BY InvSounds
<1>2. /\ h \in Handles /\ f \in Files
      /\ Grows(vol, vol') /\ Leaves(vol, vol', f) /\ Shifted(file, file', h, f)
      /\ \A g \in Files : g # f => (g \in spoilt' <=> g \in spoilt)
  BY DEF Calling
<1>3. ASSUME NEW g \in Files, g # f, g \notin spoilt'
      PROVE  TameAt(vol', file', g) /\ ContentIn(vol', file', g) = ContentIn(vol, file, g)
  <2>1. TameAt(vol, file, g)
    BY <1>2, <1>3 DEF Tame
  <2> QED
    BY <1>1, <1>2, <1>3, <2>1, Elsewhere
<1>4. ASSUME NEW g \in Files, g # f PROVE Content'[g] = Content[g]
  BY <1>2, <1>3, <1>4, MappedState
<1>5. Unsaved' \subseteq Unsaved \cup {f}
  BY <1>2, UnsavedIs, ElsewhereUnsaved
<1>6. \A k \in Handles : k # h => At'[k] = At[k]
  BY <1>2, MappedState DEF Shifted, AtIn
<1> QED
  BY <1>3, <1>4, <1>5, <1>6

LEMMA OpenAt ==
  ASSUME NEW h \in Handles, NEW f, IsOpen(h), file[h].file = f
  PROVE  At[h] = [file |-> f, pos |-> file[h].offset] /\ At[h].file = f /\ At[h].pos = file[h].offset
BY MappedState DEF AtIn, IsOpen

(* A call on a spoilt file, or one that spoils it. *)
LEMMA SpoilStep ==
  ASSUME IInv, IInv', Tame, NEW h, NEW f, Calling(h, f), IsOpen(h), file[h].file = f,
         spoilt' = spoilt \cup {f}
  PROVE  Abstract!Next /\ Tame'
<1>1. /\ \A g \in Files : g # f => Content'[g] = Content[g]
      /\ \A g \in Files \ spoilt' : g # f => TameAt(vol', file', g)
      /\ Unsaved' \subseteq Unsaved \cup {f}
      /\ \A k \in Handles : k # h => At'[k] = At[k]
  BY CallFrame
<1>2. h \in Handles /\ f \in Files
  BY DEF Calling
<1>3. Tame'
  BY <1>1 DEF Tame
<1>4. Content'[f] = <<>>
  BY <1>2, MappedState
<1>5. Content' = [Content EXCEPT ![f] = <<>>]
  BY <1>1, <1>2, <1>4, MappedState
<1>6. Abstract!Spoil(h, f)
  BY <1>5 DEF Abstract!Spoil
<1>7. At[h].file = f
  BY <1>2, OpenAt
<1>8. Abstract!Call(h, f)
  BY <1>1, <1>6, <1>7 DEF Abstract!Call
<1> QED
  BY <1>2, <1>3, <1>8 DEF Abstract!Next

(* A call that is refused. *)
LEMMA RefuseStep ==
  ASSUME IInv, Tame, vol' = vol, file' = file, spoilt' = spoilt, got' = NoBytes, NEW f \in Files
  PROVE  Abstract!Next /\ Tame'
<1>1. Tame'
  BY DEF Tame
<1>2. Content' = Content /\ At' = At
  BY MappedState
<1>3. Unsaved' = Unsaved
  BY UnsavedIs
<1>4. Abstract!Refuse
  BY <1>2, <1>3 DEF Abstract!Refuse, NoBytes, Abstract!NoBytes
<1> QED
  BY <1>1, <1>4 DEF Abstract!Next

LEMMA CallBegins ==
  ASSUME IInv, NEW h \in Handles, IsOpen(h), NEW x, Fine(x), Grows(vol, x.v),
         Apart(Call(file[h]), x), NEW k \in {Closed, x.h}, NEW d, Ends(h, x, k, d),
         NEW bad, Spoils(file[h].file, bad)
  PROVE  /\ Calling(h, file[h].file) /\ x.h.file = file[h].file /\ file'[h] = k /\ vol' = x.v
         /\ file[h].file \in Files /\ x.h # Closed /\ got' = d
<1> DEFINE w == Call(file[h])
           f == file[h].file
<1>1. w.v = vol /\ w.h = file[h] /\ Fine(w)
  BY CallFine
<1>2. f \in Files /\ x.h.file = f
  BY <1>1 DEF Fine, HandleOK, HandleRecs, Apart
<1>3. vol' = x.v /\ file' = [file EXCEPT ![h] = k] /\ got' = d
  BY DEF Ends
<1>4. Leaves(vol, vol', f)
  <2>1. Leaves(w.v, x.v, w.h.file)
    <3> HIDE DEF w
    <3> QED
      BY ApartLeaves DEF w
  <2> QED
    BY <1>1, <1>3, <2>1
<1>5. DOMAIN file = Handles
  BY DEF IInv
<1>6. file'[h] = k /\ \A g \in Handles : g # h => file'[g] = file[g]
  BY <1>3, <1>5
<1>7. Shifted(file, file', h, f)
  BY <1>2, <1>6 DEF Shifted
<1>8. \A g \in Files : g # f => (g \in spoilt' <=> g \in spoilt)
  BY DEF Spoils
<1>9. x.h # Closed
  BY <1>2, FileAssumption DEF Closed
<1> QED
  BY <1>2, <1>3, <1>4, <1>6, <1>7, <1>8, <1>9 DEF Calling

LEMMA OneHandle ==
  ASSUME NEW v, VolOK(v), NEW F, HandlesSound(v, F), NEW f \in Files, NEW h, HandlesIn(F, f) = {h}
  PROVE  ContentIn(v, F, f) = View(v, F[h])
<1>1. Eye(v, F, f) = F[h]
  BY DEF Eye
<1> QED
  BY <1>1, ContentSeen

LEMMA NoHandle ==
  ASSUME NEW v, VolOK(v), NEW F, HandlesSound(v, F), NEW f \in Files, HandlesIn(F, f) = {}
  PROVE  ContentIn(v, F, f) = View(v, Shut(v, f))
<1>1. Eye(v, F, f) = Shut(v, f)
  BY DEF Eye
<1> QED
  BY <1>1, ContentSeen

(* The one handle of the file before and after a call that succeeds. *)
LEMMA CallKeeps ==
  ASSUME IInv, IInv', Tame, NEW h \in Handles, IsOpen(h), NEW f \in Files \ spoilt,
         file[h].file = f, Calling(h, f), spoilt' = spoilt
  PROVE  /\ Content[f] = View(vol, file[h]) /\ Exact(vol, file[h])
         /\ ~file[h].mod => file[h].size = vol.entry[f].size
         /\ file'[h] = Closed =>
              /\ Tame' /\ Content'[f] = View(vol', Shut(vol', f)) /\ HandlesIn(file', f) = {}
         /\ /\ file'[h] # Closed /\ file'[h].file = f /\ Exact(vol', file'[h])
            /\ ~file'[h].mod => file'[h].size = vol'.entry[f].size
            => Tame' /\ Content'[f] = View(vol', file'[h])
<1>1. /\ VolOK(vol) /\ HandlesSound(vol, file)
      /\ VolOK(vol') /\ HandlesSound(vol', file')
  BY InvSounds
<1>2. TameAt(vol, file, f)
  BY DEF Tame
<1>3. HandlesIn(file, f) = {h}
  BY <1>2 DEF TameAt, HandlesIn, IsOpen
<1>4. Content[f] = View(vol, file[h])
  BY <1>1, <1>3, OneHandle, MappedState
<1>5. Exact(vol, file[h]) /\ (~file[h].mod => file[h].size = vol.entry[f].size)
  BY <1>2, <1>3 DEF TameAt
<1>6. \A g \in Handles : g # h => file'[g] = file[g]
  BY DEF Calling, Shifted
<1>7. \A g \in Files \ spoilt' : g # f => TameAt(vol', file', g)
  BY CallFrame
<1>8. ASSUME file'[h] = Closed
      PROVE  Tame' /\ Content'[f] = View(vol', Shut(vol', f)) /\ HandlesIn(file', f) = {}
  <2>1. HandlesIn(file', f) = {}
    BY <1>3, <1>6, <1>8 DEF HandlesIn
  <2>2. TameAt(vol', file', f)
    BY <2>1 DEF TameAt
  <2>3. Tame'
    BY <1>7, <2>2 DEF Tame
  <2>4. Content'[f] = View(vol', Shut(vol', f))
    BY <1>1, <2>1, NoHandle, MappedState
  <2> QED
    BY <2>1, <2>3, <2>4
<1>9. ASSUME file'[h] # Closed, file'[h].file = f, Exact(vol', file'[h]),
             ~file'[h].mod => file'[h].size = vol'.entry[f].size
      PROVE  Tame' /\ Content'[f] = View(vol', file'[h])
  <2>1. HandlesIn(file', f) = {h}
    BY <1>3, <1>6, <1>9 DEF HandlesIn
  <2>2. TameAt(vol', file', f)
    BY <1>9, <2>1 DEF TameAt
  <2>3. Tame'
    BY <1>7, <2>2 DEF Tame
  <2>4. Content'[f] = View(vol', file'[h])
    BY <1>1, <2>1, OneHandle, MappedState
  <2> QED
    BY <2>3, <2>4
<1> QED
  BY <1>4, <1>5, <1>8, <1>9

LEMMA SameContent ==
  ASSUME NEW f \in Files, Content'[f] = Content[f],
         \A g \in Files : g # f => Content'[g] = Content[g]
  PROVE  Content' = Content
BY MappedState

LEMMA OpenAfter ==
  ASSUME NEW h \in Handles, NEW f, file'[h] # Closed, file'[h].file = f
  PROVE  At'[h] = [file |-> f, pos |-> file'[h].offset] /\ At'[h].file = f
BY MappedState DEF AtIn

(* A refusal leaves everything as it was. *)
LEMMA RefusalStep ==
  ASSUME IInv, Tame, NEW h \in Handles, IsOpen(h), NEW e, NEW x,
         x = [Call(file[h]) EXCEPT !.err = e], Ends(h, x, x.h, NoBytes), spoilt' = spoilt
  PROVE  Abstract!Next /\ Tame'
<1>1. x.v = vol /\ x.h = file[h]
  BY DEF Call
<1>2. vol' = x.v /\ file' = [file EXCEPT ![h] = x.h] /\ got' = NoBytes
  BY DEF Ends
<1>3. file' = file
  BY <1>1, <1>2 DEF IInv
<1>4. file[h].file \in Files
  BY DEF IInv, HandleOK, HandleRecs
<1> QED
  BY <1>1, <1>2, <1>3, <1>4, RefuseStep

LEMMA ReadRefines ==
  ASSUME IInv, IInv', Tame, NEW h \in Handles, NEW n \in Counts, Read(h, n)
  PROVE  Abstract!Next /\ Tame'
<1> DEFINE w == Call(file[h])
           f == file[h].file
<1>1. IsOpen(h) /\ n \in Nat
  BY FileAssumption DEF Read
<1>2. PICK x \in fat_file_read(w, n) :
        /\ Ends(h, x, x.h, IF x.err = "NONE" THEN x.data ELSE NoBytes)
        /\ Spoils(f, x.err \notin Refusal)
  BY DEF Read
<1>3. Fine(w) /\ w.err = "NONE" /\ w.v = vol /\ w.h = file[h] /\ Placed(w.v, w.h) /\ w.data = <<>>
  BY <1>1, CallFine DEF Call
<1>4. x = [w EXCEPT !.err = "DENIED"] \/ x \in ReadUpTo(w, n, n)
  <2> HIDE DEF w
  <2> QED
    BY <1>1, <1>2, <1>3, ReadGives
<1>5. CASE x = [w EXCEPT !.err = "DENIED"]
  <2>1. x.err = "DENIED"
    BY <1>5 DEF Call
  <2>2. Ends(h, x, x.h, NoBytes) /\ spoilt' = spoilt
    BY <1>2, <2>1 DEF Refusal, Spoils
  <2> QED
    BY <1>1, <1>5, <2>2, RefusalStep
<1>6. CASE x \in ReadUpTo(w, n, n)
  <2> DEFINE bad == x.err \notin Refusal
             d == IF x.err = "NONE" THEN x.data ELSE NoBytes
  <2>1. /\ Fine(x) /\ Grows(vol, x.v) /\ Apart(w, x) /\ x.v.entry = vol.entry
        /\ SameFile(x.h, file[h]) /\ x.err # "DENIED"
    BY <1>3, <1>6 DEF ReadUpTo, Aside, Safe
  <2>2. Ends(h, x, x.h, d) /\ Spoils(f, bad) /\ (bad <=> x.err # "NONE")
    BY <1>2, <2>1 DEF Refusal
  <2>3. d = IF x.err = "NONE" THEN x.data ELSE NoBytes
    OBVIOUS
  <2> HIDE DEF bad, d
  <2>4. /\ Calling(h, f) /\ x.h.file = f /\ file'[h] = x.h /\ vol' = x.v
        /\ f \in Files /\ x.h # Closed /\ got' = d
    BY <1>1, <2>1, <2>2, CallBegins, ZenonT(30)
  <2>5. CASE bad \/ f \in spoilt
    <3>1. spoilt' = spoilt \cup {f}
      BY <2>2, <2>5 DEF Spoils
    <3> QED
      BY <1>1, <2>4, <3>1, SpoilStep
  <2>6. CASE ~bad /\ f \notin spoilt
    <3>1. spoilt' = spoilt /\ x.err = "NONE" /\ d = x.data
      BY <2>2, <2>3, <2>6 DEF Spoils
    <3>2. /\ Content[f] = View(vol, file[h]) /\ Exact(vol, file[h])
          /\ ~file[h].mod => file[h].size = vol.entry[f].size
      BY <1>1, <2>4, <2>6, <3>1, CallKeeps
    <3>3. Exact(x.v, x.h) /\ SameHeld(vol, file[h], x.v, x.h)
      BY <1>3, <1>6, <3>1, <3>2 DEF ReadUpTo, HasRead
    <3>4. /\ x.h.sclust = file[h].sclust /\ x.h.size = file[h].size /\ x.h.mod = file[h].mod
      BY <2>1 DEF SameFile
    <3>5. Tame' /\ Content'[f] = View(x.v, x.h)
      BY <1>1, <2>1, <2>4, <2>6, <3>1, <3>2, <3>3, <3>4, CallKeeps
    <3>6. View(x.v, x.h) = View(vol, file[h])
      <4>1. /\ vol \in Vols /\ x.v \in Vols /\ file[h].size \in Nat
            /\ file[h].sclust \in {0} \cup Clusters /\ Covered(vol, file[h].sclust, file[h].size)
        BY <1>3, <2>1 DEF Fine, Calls, HandleRecs, HandleOK
      <4>2. SeenSame(vol, file[h], x.v, x.h)
        BY <3>3, SameSeen
      <4> QED
        BY <2>1, <3>4, <4>1, <4>2, ViewSame
    <3>7. /\ \A g \in Files : g # f => Content'[g] = Content[g]
          /\ Unsaved' \subseteq Unsaved \cup {f}
          /\ \A k \in Handles : k # h => At'[k] = At[k]
      BY <2>4, CallFrame
    <3>8. Content' = Content
      BY <2>4, <3>2, <3>5, <3>6, <3>7, SameContent
    <3> DEFINE p == file[h].offset
               s == file[h].size
               e == IF p + n < s THEN p + n ELSE s
               there == SubSeq(View(vol, file[h]), p + 1, e)
    <3>9. x.data = there /\ x.h.offset = p + Len(there)
      BY <1>1, <1>3, <1>6, <3>1, <3>2, ReadBytes
    <3>10. At[h].file = f /\ At[h].pos = p
      BY <1>1, OpenAt
    <3>11. At'[h] = [file |-> f, pos |-> p + Len(there)]
      <4> HIDE DEF there
      <4> QED
        BY <2>4, <3>9, OpenAfter
    <3>12. Len(Content[f]) = s
      <4>1. s \in Nat
        BY <1>3 DEF Fine, Calls, HandleRecs
      <4> QED
        BY <3>2, <4>1, ViewLength
    <3>13. there = SubSeq(Content[f], At[h].pos + 1, Abstract!Lesser(At[h].pos + n, Len(Content[f])))
      BY <3>2, <3>10, <3>12 DEF Abstract!Lesser
    <3>14. Abstract!Read(h, f)
      <4> HIDE DEF there
      <4> QED
        BY <2>4, <3>1, <3>8, <3>9, <3>10, <3>11, <3>13 DEF Abstract!Read
    <3>15. Abstract!Call(h, f)
      BY <2>6, <3>7, <3>10, <3>14 DEF Abstract!Call
    <3> QED
      BY <2>4, <3>5, <3>15 DEF Abstract!Next
  <2> QED
    BY <2>5, <2>6
<1> QED
  BY <1>4, <1>5, <1>6

LEMMA WriteRefines ==
  ASSUME IInv, IInv', Tame, NEW h \in Handles, NEW t \in Texts, Write(h, t)
  PROVE  Abstract!Next /\ Tame'
<1> DEFINE w == Call(file[h])
           f == file[h].file
           p == file[h].offset
<1>1. IsOpen(h) /\ t \in Seq(Byte)
  <2>1. t \in Seq(Bytes)
    BY FileAssumption
  <2> QED
    BY <2>1 DEF Write, Byte
<1>2. PICK x \in fat_file_write(w, t) :
        Ends(h, x, x.h, NoBytes) /\ Spoils(f, x.err \notin Refusal)
  BY DEF Write
<1>3. Fine(w) /\ w.err = "NONE" /\ w.v = vol /\ w.h = file[h] /\ Placed(w.v, w.h)
  BY <1>1, CallFine
<1>4. CASE x.err = "DENIED"
  <2>1. spoilt' = spoilt
    BY <1>2, <1>4 DEF Refusal, Spoils
  <2>2. x = [w EXCEPT !.err = "DENIED"]
    <3> HIDE DEF w
    <3>1. ASSUME NEW z, NEW y, y \in WrittenUpTo(z, t, Len(t)), x = Sized(y, w.h.offset + Len(t))
          PROVE  FALSE
      <4>1. y \in Calls /\ y.err # "DENIED"
        BY <3>1 DEF WrittenUpTo, Aside, Safe
      <4>2. x.err = y.err
        BY <3>1, <4>1, SizedFields
      <4> QED
        BY <1>4, <4>1, <4>2
    <3> QED
      BY <1>1, <1>2, <1>3, <3>1, WriteGives
  <2> QED
    BY <1>1, <1>2, <2>1, <2>2, RefusalStep
<1>5. CASE x.err # "DENIED"
  <2> DEFINE bad == x.err \notin Refusal
  <2>1. /\ Fine(x) /\ Grows(vol, x.v) /\ Apart(w, x)
        /\ Exact(vol, file[h]) /\ x.err = "NONE" =>
             /\ Exact(x.v, x.h) /\ x.h.mod /\ x.h.offset = p + Len(t)
             /\ Replaced(View(vol, file[h]), View(x.v, x.h), p, t)
    <3> HIDE DEF w
    <3>1. Sought(w, x)
      BY <1>1, <1>2, <1>3, WriteEnds
    <3>2. /\ Apart(w, x)
          /\ Exact(w.v, w.h) /\ x.err = "NONE" =>
               /\ Exact(x.v, x.h) /\ x.h.mod /\ x.h.offset = w.h.offset + Len(t)
               /\ Replaced(View(w.v, w.h), View(x.v, x.h), w.h.offset, t)
      BY <1>1, <1>2, <1>3, <1>5, WriteResult
    <3> QED
      BY <1>3, <3>1, <3>2 DEF Sought
  <2>2. Ends(h, x, x.h, NoBytes) /\ Spoils(f, bad) /\ (bad <=> x.err # "NONE")
    BY <1>2, <1>5 DEF Refusal
  <2> HIDE DEF bad
  <2>4. /\ Calling(h, f) /\ x.h.file = f /\ file'[h] = x.h /\ vol' = x.v
        /\ f \in Files /\ x.h # Closed /\ got' = NoBytes
    BY <1>1, <2>1, <2>2, CallBegins
  <2>5. CASE bad \/ f \in spoilt
    <3>1. spoilt' = spoilt \cup {f}
      BY <2>2, <2>5 DEF Spoils
    <3> QED
      BY <1>1, <2>4, <3>1, SpoilStep
  <2>6. CASE ~bad /\ f \notin spoilt
    <3>1. spoilt' = spoilt /\ x.err = "NONE"
      BY <2>2, <2>6 DEF Spoils
    <3>2. Content[f] = View(vol, file[h]) /\ Exact(vol, file[h])
      BY <1>1, <2>4, <2>6, <3>1, CallKeeps
    <3>3. /\ Exact(x.v, x.h) /\ x.h.mod /\ x.h.offset = p + Len(t)
          /\ Replaced(View(vol, file[h]), View(x.v, x.h), p, t)
      BY <2>1, <3>1, <3>2
    <3>4. Tame' /\ Content'[f] = View(x.v, x.h)
      BY <1>1, <2>4, <2>6, <3>1, <3>3, CallKeeps
    <3>5. /\ \A g \in Files : g # f => Content'[g] = Content[g]
          /\ Unsaved' \subseteq Unsaved \cup {f}
          /\ \A k \in Handles : k # h => At'[k] = At[k]
      BY <2>4, CallFrame
    <3>6. At[h].file = f /\ At[h].pos = p
      BY <1>1, OpenAt
    <3>7. At'[h] = [file |-> f, pos |-> p + Len(t)]
      BY <2>4, <3>3, OpenAfter
    <3>8. Abstract!Overwritten(Content[f], Content'[f], p, t)
      <4> DEFINE old == Content[f]
                 new == Content'[f]
      <4>1. Replaced(old, new, p, t)
        BY <3>2, <3>3, <3>4
      <4>2. Len(old) \in Nat /\ Len(t) \in Nat /\ p \in Nat
        <5>1. file[h].size \in Nat /\ p \in Nat
          BY <1>3 DEF Fine, Calls, HandleRecs
        <5>2. Len(old) = file[h].size
          BY <3>2, <5>1, ViewLength
        <5> QED
          BY <1>1, <5>1, <5>2
      <4> HIDE DEF old, new, p
      <4>3. Abstract!Greater(p + Len(t), Len(old))
              = IF p + Len(t) < Len(old) THEN Len(old) ELSE p + Len(t)
        BY <4>2 DEF Abstract!Greater
      <4>4. Abstract!Overwritten(old, new, p, t)
        BY <4>1, <4>3 DEF Replaced, Abstract!Overwritten
      <4> QED
        BY <4>4 DEF old, new
    <3>9. Abstract!Write(h, f)
      <4> HIDE DEF p
      <4> QED
        BY <2>4, <3>1, <3>6, <3>7, <3>8 DEF Abstract!Write, NoBytes, Abstract!NoBytes
    <3>10. Abstract!Call(h, f)
      BY <2>6, <3>5, <3>6, <3>9 DEF Abstract!Call
    <3> QED
      BY <2>4, <3>4, <3>10 DEF Abstract!Next
  <2> QED
    BY <2>5, <2>6
<1> QED
  BY <1>4, <1>5

(* A call that changes the position at most. *)
LEMMA QuietStep ==
  ASSUME IInv, IInv', Tame, NEW h \in Handles, IsOpen(h), NEW f \in Files \ spoilt,
         file[h].file = f, Calling(h, f), spoilt' = spoilt, got' = NoBytes,
         file'[h] # Closed, file'[h].file = f, Exact(vol', file'[h]),
         ~file'[h].mod => file'[h].size = vol'.entry[f].size,
         View(vol', file'[h]) = View(vol, file[h])
  PROVE  /\ Tame' /\ Content' = Content /\ Content[f] = View(vol, file[h])
         /\ At[h] = [file |-> f, pos |-> file[h].offset]
         /\ At'[h] = [file |-> f, pos |-> file'[h].offset]
         /\ Abstract!Seek(h, f) \/ Abstract!Sync(h, f) => Abstract!Next
<1>1. /\ Content[f] = View(vol, file[h])
      /\ Tame' /\ Content'[f] = View(vol', file'[h])
  BY CallKeeps
<1>2. /\ \A g \in Files : g # f => Content'[g] = Content[g]
      /\ Unsaved' \subseteq Unsaved \cup {f}
      /\ \A k \in Handles : k # h => At'[k] = At[k]
  BY CallFrame
<1>3. Content' = Content
  BY <1>1, <1>2, SameContent
<1>4. At[h] = [file |-> f, pos |-> file[h].offset] /\ At[h].file = f
  BY OpenAt
<1>5. At'[h] = [file |-> f, pos |-> file'[h].offset]
  BY OpenAfter
<1>6. ASSUME Abstract!Seek(h, f) \/ Abstract!Sync(h, f) PROVE Abstract!Next
  <2>1. Abstract!Call(h, f)
    BY <1>2, <1>4, <1>6 DEF Abstract!Call
  <2> QED
    BY <2>1 DEF Abstract!Next
<1> QED
  BY <1>1, <1>3, <1>4, <1>5, <1>6

LEMMA SeekRefines ==
  ASSUME IInv, IInv', Tame, NEW h \in Handles, NEW k \in Seeks, Seek(h, k[1], k[2])
  PROVE  Abstract!Next /\ Tame'
<1> DEFINE w == Call(file[h])
           f == file[h].file
           to == Target(file[h], k[1], k[2])
<1>1. IsOpen(h)
  BY DEF Seek
<1>2. PICK x \in fat_file_seek(w, to) :
        Ends(h, x, x.h, NoBytes) /\ Spoils(f, x.err \notin Refusal \cup {"EOF"})
  BY DEF Seek
<1>3. Fine(w) /\ w.err = "NONE" /\ w.v = vol /\ w.h = file[h] /\ Placed(w.v, w.h)
  BY <1>1, CallFine
<1>4. to \in Int
  <2>1. file[h].offset \in Nat /\ file[h].size \in Nat
    BY <1>3 DEF Fine, Calls, HandleRecs
  <2>2. k[1] \in Int /\ k[2] \in {"START", "CURR", "END"}
    BY FileAssumption
  <2> QED
    BY <2>1, <2>2 DEF Target
<1> HIDE DEF to
<1>5. /\ Apart(w, x) /\ x.v.entry = w.v.entry /\ SameFile(x.h, w.h)
      /\ x.err \in Met \/ x = [w EXCEPT !.err = "EOF"]
  <2> HIDE DEF w
  <2> QED
    BY <1>2, <1>3, <1>4, SeekKeeps
<1>6. CASE x = [w EXCEPT !.err = "EOF"]
  <2>1. x.err = "EOF"
    BY <1>6 DEF Call
  <2>2. spoilt' = spoilt
    BY <1>2, <2>1 DEF Refusal, Spoils
  <2> QED
    BY <1>1, <1>2, <1>6, <2>2, RefusalStep
<1>7. CASE x.err \in Met
  <2> DEFINE bad == x.err \notin Refusal \cup {"EOF"}
  <2>1. Fine(x) /\ Grows(vol, x.v)
    <3> HIDE DEF w
    <3>1. Sought(w, x)
      BY <1>2, <1>3, <1>4, SeekStep
    <3> QED
      BY <1>3, <3>1 DEF Sought
  <2>2. Ends(h, x, x.h, NoBytes) /\ Spoils(f, bad) /\ (bad <=> x.err # "NONE")
    BY <1>2, <1>7 DEF Refusal, Met
  <2> HIDE DEF bad
  <2>4. /\ Calling(h, f) /\ x.h.file = f /\ file'[h] = x.h /\ vol' = x.v
        /\ f \in Files /\ x.h # Closed /\ got' = NoBytes
    BY <1>1, <1>5, <2>1, <2>2, CallBegins, ZenonT(30)
  <2>5. CASE bad \/ f \in spoilt
    <3>1. spoilt' = spoilt \cup {f}
      BY <2>2, <2>5 DEF Spoils
    <3> QED
      BY <1>1, <2>4, <3>1, SpoilStep
  <2>6. CASE ~bad /\ f \notin spoilt
    <3>1. spoilt' = spoilt /\ x.err = "NONE"
      BY <2>2, <2>6 DEF Spoils
    <3>2. Exact(vol, file[h]) /\ (~file[h].mod => file[h].size = vol.entry[f].size)
      BY <1>1, <2>4, <2>6, <3>1, CallKeeps
    <3>3. Exact(x.v, x.h) /\ SameHeld(vol, file[h], x.v, x.h) /\ x.h.offset = to
      <4> HIDE DEF w
      <4>1. Ready(w.v, w.h)
        BY <1>3, <3>2, ExactReady DEF Fine, Calls
      <4>2. Exact(x.v, x.h) /\ SameHeld(w.v, w.h, x.v, x.h) /\ x.h.offset = to
        BY <1>2, <1>3, <1>4, <3>1, <4>1, SeekArrived
      <4> QED
        BY <1>3, <4>2
    <3>4. /\ x.h.sclust = file[h].sclust /\ x.h.size = file[h].size /\ x.h.mod = file[h].mod
          /\ x.v.entry = vol.entry
      BY <1>3, <1>5 DEF SameFile
    <3>5. View(x.v, x.h) = View(vol, file[h])
      <4>1. /\ vol \in Vols /\ x.v \in Vols /\ file[h].size \in Nat
            /\ file[h].sclust \in {0} \cup Clusters /\ Covered(vol, file[h].sclust, file[h].size)
        BY <1>3, <2>1 DEF Fine, Calls, HandleRecs, HandleOK
      <4>2. SeenSame(vol, file[h], x.v, x.h)
        BY <3>3, SameSeen
      <4> QED
        BY <2>1, <3>4, <4>1, <4>2, ViewSame
    <3>6. /\ Tame' /\ Content' = Content /\ Content[f] = View(vol, file[h])
          /\ At[h] = [file |-> f, pos |-> file[h].offset]
          /\ At'[h] = [file |-> f, pos |-> file'[h].offset]
          /\ Abstract!Seek(h, f) => Abstract!Next
      BY <1>1, <2>4, <2>6, <3>1, <3>2, <3>3, <3>4, <3>5, QuietStep
    <3>7. Len(Content[f]) = file[h].size
      <4>1. file[h].size \in Nat
        BY <1>3 DEF Fine, Calls, HandleRecs
      <4> QED
        BY <3>6, <4>1, ViewLength
    <3>8. to = k[1] + (CASE k[2] = "START" -> 0
                         [] k[2] = "CURR" -> At[h].pos
                         [] k[2] = "END" -> Len(Content[f]))
      BY <3>6, <3>7 DEF to, Target
    <3>9. At'[h] = [file |-> f, pos |-> to]
      BY <2>4, <3>3, <3>6
    <3>10. Abstract!Seek(h, f)
      BY <2>4, <3>1, <3>6, <3>8, <3>9 DEF Abstract!Seek, NoBytes, Abstract!NoBytes
    <3> QED
      BY <3>6, <3>10
  <2> QED
    BY <2>5, <2>6
<1> QED
  BY <1>5, <1>6, <1>7

(* What fat_file_sync and fat_file_close have in common. *)
LEMMA SyncCall ==
  ASSUME IInv, IInv', Tame, NEW h \in Handles, IsOpen(h), NEW x \in fat_file_sync(Call(file[h])),
         NEW k \in {Closed, x.h}, Ends(h, x, k, NoBytes), Spoils(file[h].file, x.err # "NONE")
  PROVE  LET f == file[h].file
         IN  /\ Calling(h, f) /\ f \in Files /\ x.h.file = f /\ file'[h] = k /\ vol' = x.v
             /\ x.h # Closed /\ got' = NoBytes
             /\ x.err # "NONE" \/ f \in spoilt => Abstract!Next /\ Tame'
             /\ x.err = "NONE" /\ f \notin spoilt =>
                  /\ spoilt' = spoilt /\ x.v.dentry = x.v.entry /\ x.h = [file[h] EXCEPT !.mod = FALSE]
                  /\ Exact(x.v, x.h) /\ x.h.size = x.v.entry[f].size
                  /\ View(x.v, x.h) = View(vol, file[h])
                  /\ View(x.v, Shut(x.v, f)) = View(vol, file[h])
<1> DEFINE w == Call(file[h])
           f == file[h].file
           bad == x.err # "NONE"
<1>1. Fine(w) /\ w.err = "NONE" /\ w.v = vol /\ w.h = file[h] /\ Placed(w.v, w.h)
  BY CallFine
<1>2. /\ Apart(w, x)
      /\ x.err = "NONE" =>
           /\ x.v.entry = SyncEntry(w) /\ x.v.dentry = x.v.entry
           /\ x.h = [w.h EXCEPT !.mod = FALSE]
  <2> HIDE DEF w
  <2> QED
    BY <1>1, SyncResult DEF w
<1>3. Fine(x) /\ Grows(vol, x.v)
  <2>1. Still(w, x)
    <3> HIDE DEF w
    <3> QED
      BY <1>1, SyncEnds DEF w
  <2> QED
    BY <1>1, <2>1 DEF Still
<1>4. Spoils(f, bad)
  OBVIOUS
<1> HIDE DEF bad
<1>5. /\ Calling(h, f) /\ x.h.file = f /\ file'[h] = k /\ vol' = x.v
      /\ f \in Files /\ x.h # Closed /\ got' = NoBytes
  BY <1>2, <1>3, <1>4, CallBegins, ZenonT(30)
<1>6. ASSUME bad \/ f \in spoilt PROVE Abstract!Next /\ Tame'
  <2>1. spoilt' = spoilt \cup {f}
    BY <1>4, <1>6 DEF Spoils
  <2> QED
    BY <1>5, <2>1, SpoilStep
<1>7. ASSUME ~bad, f \notin spoilt
      PROVE  /\ spoilt' = spoilt /\ x.v.dentry = x.v.entry /\ x.h = [file[h] EXCEPT !.mod = FALSE]
             /\ Exact(x.v, x.h) /\ x.h.size = x.v.entry[f].size
             /\ View(x.v, x.h) = View(vol, file[h])
             /\ View(x.v, Shut(x.v, f)) = View(vol, file[h])
  <2>1. spoilt' = spoilt /\ x.err = "NONE"
    BY <1>4, <1>7 DEF Spoils, bad
  <2>2. Exact(vol, file[h]) /\ (~file[h].mod => file[h].size = vol.entry[f].size)
    BY <1>5, <1>7, <2>1, CallKeeps
  <2>3. x.h.size = file[h].size
    BY <1>1, <1>2, <2>1 DEF Fine, Calls, HandleRecs
  <2>4. x.v.entry[f].size = file[h].size
    <3>1. vol.entry \in [Files -> Entries]
      BY <1>1 DEF Fine, Calls, Vols
    <3>2. SyncEntry(w) = IF file[h].mod THEN [vol.entry EXCEPT ![f].size = file[h].size] ELSE vol.entry
      BY <1>1 DEF SyncEntry
    <3> DEFINE n == file[h].size
    <3> HIDE DEF w, f, n
    <3>3. [vol.entry EXCEPT ![f].size = n][f].size = n
      BY <1>5, <3>1 DEF Entries
    <3> QED
      BY <1>2, <2>1, <2>2, <3>2, <3>3 DEF n, f
  <2>5. /\ Exact(x.v, x.h) /\ View(x.v, x.h) = View(vol, file[h])
        /\ View(x.v, Shut(x.v, f)) = View(vol, file[h])
    <3> HIDE DEF w
    <3>1. /\ Exact(x.v, x.h) /\ View(x.v, x.h) = View(w.v, w.h)
          /\ x.v.entry[w.h.file].size = w.h.size =>
               View(x.v, Shut(x.v, w.h.file)) = View(w.v, w.h)
      BY <1>1, <2>1, <2>2, SyncSees DEF w
    <3> QED
      BY <1>1, <2>4, <3>1
  <2> QED
    BY <1>1, <1>2, <2>1, <2>3, <2>4, <2>5
<1> QED
  BY <1>5, <1>6, <1>7 DEF bad

LEMMA SyncRefines ==
  ASSUME IInv, IInv', Tame, NEW h \in Handles, Sync(h)
  PROVE  Abstract!Next /\ Tame'
<1> DEFINE f == file[h].file
<1>1. IsOpen(h)
  BY DEF Sync
<1>2. PICK x \in fat_file_sync(Call(file[h])) :
        Ends(h, x, x.h, NoBytes) /\ Spoils(f, x.err # "NONE")
  BY DEF Sync
<1>3. /\ Calling(h, f) /\ f \in Files /\ x.h.file = f /\ file'[h] = x.h /\ vol' = x.v
      /\ x.h # Closed /\ got' = NoBytes
      /\ x.err # "NONE" \/ f \in spoilt => Abstract!Next /\ Tame'
      /\ x.err = "NONE" /\ f \notin spoilt =>
           /\ spoilt' = spoilt /\ x.v.dentry = x.v.entry /\ x.h = [file[h] EXCEPT !.mod = FALSE]
           /\ Exact(x.v, x.h) /\ x.h.size = x.v.entry[f].size
           /\ View(x.v, x.h) = View(vol, file[h])
  BY <1>1, <1>2, SyncCall
<1>4. CASE x.err = "NONE" /\ f \notin spoilt
  <2>1. /\ Tame' /\ Content' = Content
        /\ At[h] = [file |-> f, pos |-> file[h].offset]
        /\ At'[h] = [file |-> f, pos |-> file'[h].offset]
        /\ Abstract!Sync(h, f) => Abstract!Next
    BY <1>1, <1>3, <1>4, QuietStep
  <2>2. ~file'[h].mod /\ file'[h].offset = file[h].offset
    <3>1. file[h] \in HandleRecs
      BY <1>1 DEF IInv, HandleOK, IsOpen
    <3> QED
      BY <1>3, <1>4, <3>1 DEF HandleRecs
  <2>3. HandlesIn(file', f) = {h}
    BY <1>3, <1>4, <2>1 DEF Tame, TameAt, HandlesIn
  <2>4. f \notin Unsaved'
    BY <1>3, <1>4, <2>2, <2>3, UnsavedIs DEF UnsavedIn
  <2>5. Abstract!Sync(h, f)
    BY <1>3, <1>4, <2>1, <2>2, <2>4 DEF Abstract!Sync, NoBytes, Abstract!NoBytes
  <2> QED
    BY <2>1, <2>5
<1> QED
  BY <1>3, <1>4

LEMMA CloseRefines ==
  ASSUME IInv, IInv', Tame, NEW h \in Handles, Close(h)
  PROVE  Abstract!Next /\ Tame'
<1> DEFINE f == file[h].file
<1>1. IsOpen(h)
  BY DEF Close
<1>2. PICK x \in fat_file_sync(Call(file[h])) :
        /\ Ends(h, x, IF x.err = "NONE" THEN Closed ELSE x.h, NoBytes)
        /\ Spoils(f, x.err # "NONE")
  BY DEF Close
<1> DEFINE k == IF x.err = "NONE" THEN Closed ELSE x.h
<1>3. k \in {Closed, x.h} /\ Ends(h, x, k, NoBytes) /\ (x.err = "NONE" => k = Closed)
  BY <1>2
<1> HIDE DEF k
<1>4. /\ Calling(h, f) /\ f \in Files /\ file'[h] = k /\ vol' = x.v /\ got' = NoBytes
      /\ x.err # "NONE" \/ f \in spoilt => Abstract!Next /\ Tame'
      /\ x.err = "NONE" /\ f \notin spoilt =>
           /\ spoilt' = spoilt /\ x.v.dentry = x.v.entry
           /\ View(x.v, Shut(x.v, f)) = View(vol, file[h])
  BY <1>1, <1>2, <1>3, SyncCall
<1>5. CASE x.err = "NONE" /\ f \notin spoilt
  <2>1. /\ spoilt' = spoilt /\ vol'.dentry = vol'.entry /\ file'[h] = Closed
        /\ View(vol', Shut(vol', f)) = View(vol, file[h])
    BY <1>3, <1>4, <1>5
  <2>2. /\ Content[f] = View(vol, file[h])
        /\ Tame' /\ Content'[f] = View(vol', Shut(vol', f)) /\ HandlesIn(file', f) = {}
    BY <1>1, <1>4, <1>5, <2>1, CallKeeps
  <2>3. /\ \A g \in Files : g # f => Content'[g] = Content[g]
        /\ Unsaved' \subseteq Unsaved \cup {f}
        /\ \A g \in Handles : g # h => At'[g] = At[g]
    BY <1>4, CallFrame
  <2>4. Content' = Content
    BY <1>4, <2>1, <2>2, <2>3, SameContent
  <2>5. f \notin Unsaved'
    BY <2>1, <2>2, UnsavedIs DEF UnsavedIn
  <2>6. At'[h] = [file |-> None, pos |-> 0]
    BY <2>1, MappedState DEF AtIn
  <2>7. Abstract!Close(h, f)
    BY <1>4, <2>1, <2>4, <2>5, <2>6
       DEF Abstract!Close, NoBytes, Abstract!NoBytes, Abstract!NoPos, None, Abstract!None
  <2>8. At[h].file = f
    BY <1>1, OpenAt
  <2>9. Abstract!Call(h, f)
    BY <1>5, <2>3, <2>7, <2>8 DEF Abstract!Call
  <2> QED
    BY <1>4, <2>2, <2>9 DEF Abstract!Next
<1> QED
  BY <1>4, <1>5

(* An open that fails may have made the file. *)
LEMMA OpenFails ==
  ASSUME IInv, IInv', Tame, NEW h \in Handles, NEW f \in Files, Calling(h, f), Made(vol, vol', f),
         file' = file, spoilt' = spoilt, got' = NoBytes
  PROVE  Abstract!Next /\ Tame'
<1>1. /\ VolOK(vol) /\ HandlesSound(vol, file)
      /\ VolOK(vol') /\ HandlesSound(vol', file) /\ Grows(vol, vol')
  BY InvSounds DEF Calling
<1>2. /\ \A g \in Files : g # f => Content'[g] = Content[g]
      /\ \A g \in Files \ spoilt' : g # f => TameAt(vol', file', g)
      /\ Unsaved' \subseteq Unsaved \cup {f}
  BY CallFrame
<1>3. ASSUME f \notin spoilt
      PROVE  TameAt(vol', file, f) /\ ContentIn(vol', file, f) = ContentIn(vol, file, f)
  <2> DEFINE e == Eye(vol, file, f)
             u == vol'
  <2>1. TameAt(vol, file, f) /\ u.data = vol.data /\ vol \in Vols /\ u \in Vols
    BY <1>1, <1>3 DEF Tame, Made, VolOK
  <2>2. ASSUME NEW k \in HandlesIn(file, f) PROVE u.entry[f] = vol.entry[f]
    <3>1. HandleOK(vol, file[k]) /\ file[k].file = f
      BY <1>1, <2>2 DEF HandlesSound, HandlesIn
    <3>2. vol.entry[f].clust \in Clusters
      BY <3>1 DEF HandleOK, HandleRecs
    <3>3. vol.entry[f] # Absent
      BY <3>2, Constants DEF Absent
    <3> QED
      BY <3>3 DEF Made
  <2>3. ASSUME NEW k \in HandlesIn(file, f)
        PROVE  Exact(u, file[k]) /\ (~file[k].mod => file[k].size = u.entry[f].size)
    <3>1. HandleOK(vol, file[k]) /\ file[k] \in HandleRecs
      BY <1>1, <2>3 DEF HandlesSound, HandlesIn, HandleOK
    <3>2. Exact(vol, file[k]) /\ (~file[k].mod => file[k].size = vol.entry[f].size)
      BY <2>1, <2>3 DEF TameAt
    <3>3. Saved(u, file[k])
      BY <2>1, <3>2 DEF Exact, Saved
    <3> QED
      BY <1>1, <2>1, <2>2, <2>3, <3>1, <3>2, <3>3, ExactGrows
  <2>4. TameAt(u, file, f)
    BY <2>1, <2>3 DEF TameAt
  <2>5. ContentIn(vol, file, f) = View(vol, e) /\ ContentIn(u, file, f) = View(u, Eye(u, file, f))
    <3>1. ContentIn(vol, file, f) = View(vol, e)
      BY <1>1, <2>1, ContentSeen DEF TameAt
    <3>2. ContentIn(u, file, f) = View(u, Eye(u, file, f))
      BY <1>1, <2>4, ContentSeen DEF TameAt
    <3> QED
      BY <3>1, <3>2
  <2>6. CASE u.entry[f] = vol.entry[f]
    <3>1. Eye(u, file, f) = e
      BY <2>6 DEF Eye, Shut
    <3>2. e.sclust \in {0} \cup Clusters /\ e.size \in Nat /\ Covered(vol, e.sclust, e.size)
      BY <1>1, EyeSound
    <3>3. SeenSame(vol, e, u, e)
      BY <2>1 DEF SeenSame, Held
    <3> HIDE DEF e, u
    <3>4. View(u, e) = View(vol, e)
      BY <1>1, <2>1, <3>2, <3>3, ViewSame DEF u
    <3> QED
      BY <2>4, <2>5, <3>1, <3>4 DEF u
  <2>7. CASE vol.entry[f] = Absent /\ u.entry[f].size = 0 /\ HandlesIn(file, f) = {}
    <3>1. e.size = 0 /\ Eye(u, file, f).size = 0
      BY <2>7 DEF Eye, Shut, Absent
    <3>2. View(u, Eye(u, file, f)) = View(vol, e)
      BY <3>1 DEF View
    <3> QED
      BY <2>4, <2>5, <3>2
  <2> QED
    BY <2>2, <2>6, <2>7 DEF Made
<1>4. Tame'
  BY <1>2, <1>3 DEF Tame
<1>5. Content'[f] = Content[f]
  BY <1>3, MappedState
<1>6. Content' = Content /\ At' = At
  BY <1>2, <1>5, SameContent, MappedState
<1>7. Abstract!Refuse
  BY <1>2, <1>6 DEF Abstract!Refuse, NoBytes, Abstract!NoBytes
<1> QED
  BY <1>4, <1>7 DEF Abstract!Next

LEMMA OpenOnIs ==
  ASSUME NEW f \in Files
  PROVE  Abstract!OpenOn(f) = HandlesIn(file, f)
<1>1. f # None
  BY FileAssumption
<1>2. ASSUME NEW h \in Handles PROVE At[h].file = f <=> file[h] # Closed /\ file[h].file = f
  BY <1>1, MappedState DEF AtIn
<1> QED
  BY <1>2 DEF Abstract!OpenOn, HandlesIn

LEMMA EmptyView ==
  ASSUME NEW v, NEW h, h.size = 0
  PROVE  View(v, h) = <<>>
BY DEF View

LEMMA OpenedView ==
  ASSUME NEW v, VolOK(v), NEW x, VolOK(x.v), HandleOK(x.v, x.h), Grows(v, x.v), NEW f \in Files,
         Made(v, x.v, f), Opened(v, x, f)
  PROVE  View(x.v, x.h) \in {View(v, Shut(v, f)), <<>>}
<1> DEFINE k == Shut(v, f)
           u == x.v
           g == x.h
<1>1. CASE g.size = 0
  BY <1>1, EmptyView
<1>2. CASE g.size # 0
  <2>1. g.size = u.entry[f].size /\ u.entry[f] = v.entry[f]
    BY <1>2 DEF Opened, Made
  <2>2. k.sclust = v.entry[f].clust /\ k.size = v.entry[f].size /\ k.sect = NOSECT
    BY DEF Shut
  <2>3. g.sclust = v.entry[f].clust /\ g.size = v.entry[f].size
    BY <2>1 DEF HandleOK, Opened
  <2>4. v \in Vols /\ u \in Vols /\ EntryOK(v, v.entry[f]) /\ v.entry[f] \in Entries
    BY DEF VolOK, Vols
  <2>5. v.entry[f] # Absent
    BY <1>2, <2>3 DEF Absent
  <2>6. /\ k.sclust \in {0} \cup Clusters /\ k.size \in Nat /\ Covered(v, k.sclust, k.size)
    BY <2>2, <2>4, <2>5 DEF EntryOK, Entries
  <2>7. \A s \in Sectors : s # NOSECT
    BY DEF Sectors, NOSECT
  <2>8. SeenSame(v, k, u, g)
    BY <2>2, <2>7 DEF SeenSame, Held, Opened
  <2> HIDE DEF k, u, g
  <2>9. View(u, g) = View(v, k)
    BY <2>2, <2>3, <2>4, <2>6, <2>8, ViewSame DEF u
  <2> QED
    BY <2>9 DEF u, g, k
<1> QED
  BY <1>1, <1>2

LEMMA OpenRefines ==
  ASSUME IInv, IInv', Tame, NEW h \in Handles, NEW f \in Files, NEW mode, Open(h, f, mode)
  PROVE  Abstract!Next /\ Tame'
<1>1. file[h] = Closed /\ VolOK(vol) /\ file \in [Handles -> {Closed} \cup HandleRecs]
  BY DEF Open, IInv, IsOpen
<1>2. PICK x \in fat_file_open(f, mode) :
        \/ /\ x.err = "NONE" /\ Ends(h, x, x.h, NoBytes)
           /\ spoilt' = IF Others(h, f) = {} THEN spoilt \ {f} ELSE spoilt \cup {f}
        \/ x.err # "NONE" /\ Ends(h, x, Closed, NoBytes) /\ spoilt' = spoilt
  BY DEF Open
<1>3. /\ VolOK(x.v) /\ Grows(vol, x.v) /\ Made(vol, x.v, f)
      /\ x.err = "NONE" => HandleOK(x.v, x.h) /\ Opened(vol, x, f)
  BY <1>1, OpenEnds, OpenResult
<1>4. CASE x.err # "NONE"
  <2>1. vol' = x.v /\ file' = [file EXCEPT ![h] = Closed] /\ got' = NoBytes /\ spoilt' = spoilt
    BY <1>2, <1>4 DEF Ends
  <2>2. file' = file
    BY <1>1, <2>1
  <2>3. Calling(h, f)
    BY <1>1, <1>3, <2>1, <2>2, MadeLeaves DEF Calling, Shifted
  <2> QED
    BY <1>3, <2>1, <2>2, <2>3, OpenFails
<1>5. CASE x.err = "NONE"
  <2>1. /\ vol' = x.v /\ file' = [file EXCEPT ![h] = x.h] /\ got' = NoBytes
        /\ spoilt' = IF Others(h, f) = {} THEN spoilt \ {f} ELSE spoilt \cup {f}
    BY <1>2, <1>5 DEF Ends
  <2>2. file'[h] = x.h /\ \A g \in Handles : g # h => file'[g] = file[g]
    BY <1>1, <2>1
  <2>3. x.h.file = f /\ x.h # Closed /\ Exact(x.v, x.h) /\ HandleOK(x.v, x.h) /\ Opened(vol, x, f)
    BY <1>3, <1>5, FileAssumption DEF Opened, Closed
  <2>4. Calling(h, f)
    <3>1. Leaves(vol, vol', f)
      BY <1>3, <2>1, MadeLeaves
    <3>2. Shifted(file, file', h, f)
      BY <1>1, <2>2, <2>3 DEF Shifted
    <3> QED
      BY <1>3, <2>1, <3>1, <3>2 DEF Calling
  <2>5. /\ \A g \in Files : g # f => Content'[g] = Content[g]
        /\ \A g \in Files \ spoilt' : g # f => TameAt(vol', file', g)
        /\ Unsaved' \subseteq Unsaved \cup {f}
        /\ \A k \in Handles : k # h => At'[k] = At[k]
    BY <2>4, CallFrame
  <2>6. Others(h, f) = HandlesIn(file, f)
    BY <1>1 DEF Others, HandlesIn, IsOpen
  <2>7. Abstract!OpenOn(f) = HandlesIn(file, f)
    BY OpenOnIs
  <2>8. At[h] = [file |-> None, pos |-> 0]
    BY <1>1, MappedState DEF AtIn
  <2>9. At'[h] = [file |-> f, pos |-> x.h.offset] /\ At'[h].file = f
    BY <2>2, <2>3, OpenAfter
  <2>10. CASE HandlesIn(file, f) # {}
    <3>1. spoilt' = spoilt \cup {f}
      BY <2>1, <2>6, <2>10
    <3>2. Content'[f] = <<>>
      BY <3>1, MappedState
    <3>3. Content' = [Content EXCEPT ![f] = <<>>]
      BY <2>5, <3>2, MappedState
    <3>4. Abstract!Open(h, f)
      BY <2>1, <2>7, <2>8, <2>9, <2>10, <3>1, <3>3
         DEF Abstract!Open, NoBytes, Abstract!NoBytes, Abstract!NoPos, None, Abstract!None
    <3>5. Abstract!Call(h, f)
      BY <2>5, <3>4 DEF Abstract!Call
    <3>6. Tame'
      BY <2>5, <3>1 DEF Tame
    <3> QED
      BY <3>5, <3>6 DEF Abstract!Next
  <2>11. CASE HandlesIn(file, f) = {}
    <3>1. spoilt' = spoilt \ {f}
      BY <2>1, <2>6, <2>11
    <3>2. HandlesIn(file', f) = {h}
      BY <2>2, <2>3, <2>11 DEF HandlesIn
    <3>3. TameAt(vol', file', f)
      <4>1. ~x.h.mod => x.h.size = x.v.entry[f].size
        BY <2>3 DEF Opened
      <4> QED
        BY <2>1, <2>2, <2>3, <3>2, <4>1 DEF TameAt
    <3>4. Tame'
      BY <2>5, <3>3 DEF Tame
    <3>5. /\ VolOK(vol) /\ HandlesSound(vol, file)
          /\ VolOK(vol') /\ HandlesSound(vol', file')
      BY InvSounds
    <3>6. Content'[f] = View(x.v, x.h)
      <4>1. ContentIn(vol', file', f) = View(vol', file'[h])
        BY <3>2, <3>5, OneHandle
      <4> QED
        BY <2>1, <2>2, <3>1, <4>1, MappedState
    <3>7. f \in spoilt \/ Content[f] = View(vol, Shut(vol, f))
      <4>1. ContentIn(vol, file, f) = View(vol, Shut(vol, f))
        BY <2>11, <3>5, NoHandle
      <4> QED
        BY <4>1, MappedState
    <3>8. View(x.v, x.h) \in {View(vol, Shut(vol, f)), <<>>}
      BY <1>3, <2>3, <3>5, OpenedView
    <3>9. At'[h].pos \in {0, Len(Content'[f])}
      <4>1. x.h.size \in Nat /\ x.h.offset \in {0, x.h.size}
        BY <2>3 DEF HandleOK, HandleRecs, Opened
      <4>2. Len(View(x.v, x.h)) = x.h.size
        BY <4>1, ViewLength
      <4> QED
        BY <2>9, <3>6, <4>1, <4>2
    <3>10. f \in spoilt \/ Content'[f] \in {Content[f], <<>>}
      BY <3>6, <3>7, <3>8
    <3>11. Abstract!Open(h, f)
      BY <2>1, <2>7, <2>8, <2>9, <2>11, <3>1, <3>9, <3>10
         DEF Abstract!Open, NoBytes, Abstract!NoBytes, Abstract!NoPos, None, Abstract!None
    <3>12. Abstract!Call(h, f)
      BY <2>5, <3>11 DEF Abstract!Call
    <3> QED
      BY <3>4, <3>12 DEF Abstract!Next
  <2> QED
    BY <2>10, <2>11
<1> QED
  BY <1>4, <1>5

LEMMA ViewOfFat ==
  ASSUME NEW v, NEW u, u.fat = v.fat, NEW h, h.sclust \in {0} \cup Clusters, h.size \in Nat,
         NEW g, g.sclust = h.sclust, g.size = h.size, Covered(v, h.sclust, h.size),
         SeenSame(v, h, u, g)
  PROVE  View(u, g) = View(v, h)
<1>1. ASSUME NEW i \in 1 .. h.size PROVE ByteAt(u, g, i - 1) = ByteAt(v, h, i - 1)
  <2> DEFINE k == i - 1
             n == k \div SECT
             a == h.sclust
  <2>1. k \in Nat /\ k < h.size /\ a \in {0} \cup Clusters
    OBVIOUS
  <2> HIDE DEF k
  <2>2. n \in Nat /\ InChain(v, a, n)
    BY <2>1, CoveredIn, SectorCluster
  <2> HIDE DEF n, a
  <2>3. ChainOf(u, a)[n \div SPC] = ChainOf(v, a)[n \div SPC]
    BY <2>1, <2>2, ChainOfFat DEF InChain
  <2>4. SectOf(u, a, n) = SectOf(v, a, n)
    BY <2>3 DEF SectOf
  <2>5. SectOf(v, a, n) \in Sectors /\ SectOf(v, a, n) \div SPC + 2 \in Chain(v, a)
    BY <2>1, <2>2, SectIn
  <2>6. Held(u, g, SectOf(v, a, n)) = Held(v, h, SectOf(v, a, n))
    BY <2>5 DEF SeenSame, a
  <2>7. ByteAt(u, g, k) = ByteAt(v, h, k)
    BY <2>4, <2>6 DEF ByteAt, n, a
  <2> QED
    BY <2>7 DEF k
<1> QED
  BY <1>1 DEF View

(* A file without unsaved changes is on the disk as it was seen. *)
LEMMA PowerRefines ==
  ASSUME IInv, IInv', Tame, PowerLoss
  PROVE  Abstract!Next /\ Tame'
<1>1. PICK e \in {vol.entry, vol.dentry} : vol' = [vol EXCEPT !.entry = e, !.dentry = e]
  BY DEF PowerLoss
<1>2. file' = [h \in Handles |-> Closed] /\ spoilt' = spoilt \cup Unsaved /\ got' = NoBytes
  BY DEF PowerLoss
<1>3. /\ VolOK(vol) /\ HandlesSound(vol, file)
      /\ VolOK(vol') /\ HandlesSound(vol', file') /\ vol \in Vols
  BY InvSounds DEF VolOK
<1> DEFINE u == vol'
<1>4. u.fat = vol.fat /\ u.data = vol.data /\ u.entry = e /\ u.dentry = e
  BY <1>1, <1>3 DEF Vols
<1>5. \A f : HandlesIn(file', f) = {}
  BY <1>2 DEF HandlesIn
<1>6. Tame'
  BY <1>5 DEF Tame, TameAt
<1>7. Unsaved' = {}
  BY <1>4, <1>5, UnsavedIs DEF UnsavedIn
<1>8. ASSUME NEW f \in Files, f \notin spoilt' PROVE Content'[f] = Content[f]
  <2> DEFINE g == Eye(vol, file, f)
             k == Shut(u, f)
  <2>1. f \notin spoilt /\ f \notin UnsavedIn(vol, file)
    BY <1>2, <1>8, UnsavedIs
  <2>2. u.entry[f] = vol.entry[f] /\ \A h \in HandlesIn(file, f) : ~file[h].mod
    BY <1>4, <2>1 DEF UnsavedIn
  <2>3. TameAt(vol, file, f)
    BY <2>1 DEF Tame
  <2>4. Content[f] = View(vol, g)
    <3>1. ContentIn(vol, file, f) = View(vol, g)
      BY <1>3, <2>3, ContentSeen DEF TameAt
    <3> QED
      BY <2>1, <3>1, MappedState
  <2>5. Content'[f] = View(u, k)
    <3>1. ContentIn(vol', file', f) = View(vol', Shut(vol', f))
      BY <1>3, <1>5, NoHandle
    <3> QED
      BY <1>8, <3>1, MappedState
  <2>6. /\ g.sclust = vol.entry[f].clust /\ g.sclust \in {0} \cup Clusters /\ g.size \in Nat
        /\ Covered(vol, g.sclust, g.size)
    BY <1>3, EyeSound
  <2>7. k.sclust = vol.entry[f].clust /\ k.size = vol.entry[f].size /\ k.sect = NOSECT
    BY <2>2 DEF Shut
  <2>8. /\ g.size = vol.entry[f].size
        /\ \A s \in Sectors : Held(vol, g, s) = vol.data[s]
    <3>1. CASE HandlesIn(file, f) = {}
      <4>1. g = Shut(vol, f)
        BY <3>1 DEF Eye
      <4> QED
        BY <4>1 DEF Shut, Held, Sectors, NOSECT
    <3>2. CASE HandlesIn(file, f) # {}
      <4> DEFINE h == CHOOSE b \in HandlesIn(file, f) : TRUE
      <4>1. h \in HandlesIn(file, f) /\ g = file[h]
        BY <3>2 DEF Eye
      <4> HIDE DEF h, g
      <4>2. Exact(vol, g) /\ ~g.mod /\ g.size = vol.entry[f].size
        BY <2>2, <2>3, <4>1 DEF TameAt
      <4>3. g.buf = vol.data[g.sect]
        BY <4>2 DEF Exact, Saved
      <4> QED
        BY <4>2, <4>3 DEF Held
    <3> QED
      BY <3>1, <3>2
  <2>9. \A s \in Sectors : s # NOSECT
    BY DEF Sectors, NOSECT
  <2>10. SeenSame(vol, g, u, k)
    BY <1>4, <2>7, <2>8, <2>9 DEF SeenSame, Held
  <2> HIDE DEF g, k, u
  <2>11. View(u, k) = View(vol, g)
    BY <1>4, <2>6, <2>7, <2>8, <2>10, ViewOfFat
  <2> QED
    BY <2>4, <2>5, <2>11
<1>9. \A f \in Files : Content'[f] = IF f \in spoilt' THEN <<>> ELSE Content[f]
  BY <1>8, MappedState
<1>10. Content' = [f \in Files |-> IF f \in spoilt' THEN <<>> ELSE Content[f]]
  BY <1>9, MappedState
<1>11. At' = [h \in Handles |-> [file |-> None, pos |-> 0]]
  <2>1. \A h \in Handles : At'[h] = [file |-> None, pos |-> 0]
    BY <1>2, MappedState DEF AtIn
  <2> QED
    BY <2>1, MappedState
<1>12. Abstract!PowerLoss
  BY <1>2, <1>7, <1>10, <1>11
     DEF Abstract!PowerLoss, NoBytes, Abstract!NoBytes, Abstract!NoPos, None, Abstract!None
<1> QED
  BY <1>6, <1>12 DEF Abstract!Next

LEMMA StepRefines ==
  ASSUME IInv, IInv', Tame, [Next]_vars
  PROVE  /\ Abstract!Next \/ UNCHANGED <<Content, At, spoilt, Unsaved, got>>
         /\ Tame'
<1>1. CASE UNCHANGED vars
  <2>1. vol' = vol /\ file' = file /\ spoilt' = spoilt /\ got' = got
    BY <1>1 DEF vars
  <2>2. Content' = Content /\ At' = At
    BY <2>1, MappedState
  <2>3. Unsaved' = Unsaved
    BY <2>1, UnsavedIs
  <2>4. Tame'
    BY <2>1 DEF Tame
  <2> QED
    BY <2>1, <2>2, <2>3, <2>4
<1>2. ASSUME NEW h \in Handles, NEW a \in Uses, Open(h, a[2], a[3]) PROVE Abstract!Next /\ Tame'
  BY <1>2, FileAssumption, OpenRefines
<1>3. ASSUME NEW h \in Handles, NEW k \in Seeks, Seek(h, k[1], k[2]) PROVE Abstract!Next /\ Tame'
  BY <1>3, SeekRefines
<1>4. CASE Next
  BY <1>2, <1>3, <1>4, ReadRefines, WriteRefines, SyncRefines, CloseRefines, PowerRefines DEF Next
<1> QED
  BY <1>1, <1>4

LEMMA InitRefines == Init => Tame /\ Abstract!Init
<1> SUFFICES ASSUME Init PROVE Tame /\ Abstract!Init
  OBVIOUS
<1>1. /\ file = [h \in Handles |-> Closed] /\ spoilt = {} /\ got = NoBytes
      /\ \A f \in Files : vol.entry[f] = Absent /\ vol.dentry[f] = Absent
  BY DEF Init
<1>2. \A f : HandlesIn(file, f) = {}
  BY <1>1 DEF HandlesIn
<1>3. Tame
  BY <1>2 DEF Tame, TameAt
<1>4. Unsaved = {}
  BY <1>1, <1>2, UnsavedIs DEF UnsavedIn
<1>5. \A f \in Files : Content[f] = <<>>
  <2> SUFFICES ASSUME NEW f \in Files PROVE Content[f] = <<>>
    OBVIOUS
  <2>1. SizeIn(vol, file, f) = 0
    BY <1>1, <1>2 DEF SizeIn, Absent
  <2>2. ContentIn(vol, file, f) = <<>>
    BY <2>1 DEF ContentIn
  <2> QED
    BY <2>2, MappedState
<1>6. Content = [f \in Files |-> <<>>]
  BY <1>5, MappedState
<1>7. At = [h \in Handles |-> [file |-> None, pos |-> 0]]
  <2>1. \A h \in Handles : At[h] = [file |-> None, pos |-> 0]
    BY <1>1, MappedState DEF AtIn
  <2> QED
    BY <2>1, MappedState
<1>8. Abstract!Init
  BY <1>1, <1>4, <1>6, <1>7
     DEF Abstract!Init, NoBytes, Abstract!NoBytes, Abstract!NoPos, None, Abstract!None
<1> QED
  BY <1>3, <1>8

(* The File handles implement files that are sequences of bytes, with any  *)
(* number of files, handles, clusters and failing accesses: what           *)
(* fat_file_read returns is what was written before, across sector and     *)
(* cluster boundaries, seeks, growth and other handles; fat_file_seek      *)
(* arrives where it was sent; a call on one file never changes another,    *)
(* even when it fails half-way; and what a fat_file_close has saved        *)
(* survives a power loss.                                                  *)
THEOREM FilesImplementBytes == Spec => RefinesFiles
<1>1. IInv /\ IInv' /\ Tame /\ [Next]_vars =>
        [Abstract!Next]_<<Content, At, spoilt, Unsaved, got>> /\ Tame'
  BY StepRefines
<1>2. Spec => []IInv
  BY InitOK, NextOK, PTL DEF Spec
<1>3. Spec => []Tame
  BY <1>1, <1>2, InitRefines, PTL DEF Spec
<1> QED
  BY <1>1, <1>2, <1>3, InitRefines, PTL DEF Spec, RefinesFiles, Abstract!Spec

=============================================================================
