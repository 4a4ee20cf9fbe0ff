--------------------------- MODULE FatVolumeProofs ---------------------------
(***************************************************************************)
(* Proofs about FatVolume, for every number of clusters, every number of   *)
(* entries to a FAT sector, every set of directory slots, with or without a *)
(* mirror, and for any number of failed accesses and power losses.         *)
(*                                                                         *)
(* The first part is the layout of the volume and what one access to the   *)
(* buffer does to it; a lemma per action (...Facts) says what is left when *)
(* the access succeeds, fails, or power is lost.  Four invariants follow,  *)
(* each on top of the ones before it:                                      *)
(*                                                                         *)
(*   CallInv   what the buffer and the locals of a running call hold; that *)
(*             a cluster is free when it is marked needs to know which     *)
(*             clusters the scan has passed;                               *)
(*   CountInv  free_cnt, which is one ahead while a marked cluster waits   *)
(*             to be linked;                                               *)
(*   LagInv    the entries in which the two FATs differ, in memory and on  *)
(*             disk, of which one write of put_fat may be pending;         *)
(*   OwnInv    who owns which cluster while a call is under way, in memory *)
(*             and on disk, as long as nothing has failed.                 *)
(***************************************************************************)
EXTENDS FatVolume, FiniteSetTheorems, SequenceTheorems, TLAPS

-----------------------------------------------------------------------------
(* The volume behind the buffer. *)

Sectors == 0 .. DirSect
FatTable(t) == fat_sect(t) .. fat_sect(t) + FatSects - 1
Infos == [signed : BOOLEAN, last_used : 0 .. WIDTH - 1, free_cnt : 0 .. WIDTH - 1]
FatSectors == [0 .. ENTRIES - 1 -> Nat]
Dirs == [Slots -> Usable \cup {0}]

(* The entry of cluster 1 is reserved: a scan from the hint 0 passes it.   *)
FatKind(s) == {v \in FatSectors : s = FatSector(0, 1) => v[1 % ENTRIES] >= EOC}

(* What sector s holds; the boot sector is never looked at. *)
Kind(s) == IF s = InfoSect THEN Infos ELSE IF s = DirSect THEN Dirs ELSE FatKind(s)
Volume(d) == d = [s \in Sectors |-> d[s]] /\ \A s \in Sectors \ {BootSect} : d[s] \in Kind(s)

StoreInv ==
  /\ Volume(disk)
  /\ sect \in Sectors /\ bufDirty \in BOOLEAN
  /\ bufDirty => sect # BootSect
  /\ sect # BootSect => buf \in Kind(sect) /\ (~bufDirty => buf = disk[sect])

-----------------------------------------------------------------------------
(* The running call. *)

Put(t, c, v) == [table |-> t, clust |-> c, val |-> v]

(* The put_fat2 calls that stretch_chain has still to make while the       *)
(* active FAT does not have the end-of-chain mark yet, and after that.     *)
MarkPuts(prev, c) ==
  IF Mirror
  THEN IF prev = 0 THEN {<<Put(1, c, EOC), Put(0, c, EOC)>>, <<Put(0, c, EOC)>>}
       ELSE {<<Put(1, c, EOC), Put(0, c, EOC), Put(1, prev, c), Put(0, prev, c)>>,
             <<Put(0, c, EOC), Put(1, prev, c), Put(0, prev, c)>>}
  ELSE IF prev = 0 THEN {<<Put(0, c, EOC)>>} ELSE {<<Put(0, c, EOC), Put(0, prev, c)>>}
LinkPuts(prev, c) ==
  IF prev = 0 THEN {}
  ELSE {<<Put(0, prev, c)>>} \cup IF Mirror THEN {<<Put(1, prev, c), Put(0, prev, c)>>} ELSE {}
FreePuts(c) ==
  {<<Put(0, c, FREE)>>} \cup IF Mirror THEN {<<Put(1, c, FREE), Put(0, c, FREE)>>} ELSE {}

Marking == pc = "put" /\ frame.puts \in MarkPuts(frame.prev, frame.cur)
Linking == pc = "put" /\ frame.puts \in LinkPuts(frame.prev, frame.cur)

Puts == [table : {0, 1}, clust : Usable, val : Nat]

Frames ==
  [op : {"none", "create", "guess", "grow", "unlink", "sync", "umount"}, slot : Slots \cup {"none"},
   prev : Usable \cup {0}, cur : Usable \cup 0 .. WIDTH - 1, next : Nat, puts : Seq(Puts)]

(* Where the scan is: where it began, or at a cluster it has passed. *)
Scanned(l, x) == l \in 0 .. WIDTH - 1 /\ (x = l \/ x \in 1 .. CLUST_CNT - 1)

FrameInv ==
  /\ frame \in Frames
  /\ pc \in {"idle", "walk", "next", "scan", "put", "free", "unput", "sync", "info",
             "sync_end", "info_end", "dir_add", "rm_entry"}
  /\ frame.op \in {"create", "guess", "grow", "unlink"} => frame.slot \in Slots
  /\ pc = "idle" => frame = NoFrame
  /\ pc = "walk" => frame.op = "grow" /\ frame.cur \in Usable
  /\ pc = "next" => frame.op = "grow" /\ frame.cur \in Usable /\ frame.prev \in Usable
  /\ pc = "put" => frame.cur \in Usable
  /\ pc \in {"scan", "put"} =>
       /\ frame.op \in {"create", "grow"}
       /\ frame.op = "grow" => frame.prev \in Usable
       /\ frame.op = "create" => frame.prev = 0
  /\ pc = "put" => Marking \/ Linking
  /\ pc \in {"free", "unput"} => frame.op = "unlink" /\ frame.cur \in Usable
  /\ pc = "unput" => frame.puts \in FreePuts(frame.cur) /\ (frame.next \in Usable \/ frame.next >= EOC)
  /\ pc \in {"sync", "info"} => frame.op \in {"create", "grow", "unlink"}
  /\ pc \in {"sync", "info"} /\ frame.op = "create" => frame.cur \in Usable
  /\ pc \in {"sync_end", "info_end"} => frame.op \in {"unlink", "sync", "umount"}
  /\ pc = "dir_add" => frame.op \in {"create", "guess"} /\ frame.cur \in Usable
  /\ pc = "rm_entry" => frame.op = "unlink"

(* What FSInfo's copy in memory is worth. *)
InfoInv ==
  /\ mounted \in BOOLEAN /\ infoDirty \in BOOLEAN
  /\ mounted \/ infoDirty \/ pc # "idle" => info \in Infos
  /\ pc \in {"next", "scan", "put", "free", "unput", "info", "info_end"} => infoDirty
  /\ (mounted \/ pc # "idle") /\ ~infoDirty => info \in {View[InfoSect], ReadInfo(View[InfoSect])}
  /\ pc \in {"info", "info_end"} => sect = InfoSect /\ bufDirty /\ buf = info

(* The scan has passed cluster c on its way from l to x. *)
Passed(l, x, c) == IF l <= x THEN l < c /\ c <= x ELSE l < c \/ c <= x

TakeInv ==
  /\ pc = "scan" =>
       /\ Scanned(info.last_used, frame.cur)
       /\ \A c \in Usable : Passed(info.last_used, frame.cur, c) => ~IsFree(View, c)
  /\ Marking => IsFree(View, frame.cur)
  /\ pc \in {"sync", "info", "dir_add"} /\ frame.op = "create" => ~IsFree(View, frame.cur)

EntryInv ==
  pc \in {"sync_end", "info_end"} /\ frame.op = "unlink" => View[DirSect][frame.slot] = 0

CallInv == StoreInv /\ FrameInv /\ InfoInv /\ TakeInv /\ EntryInv /\ AnswersTrue

-----------------------------------------------------------------------------
(* Where things are on the volume. *)

LEMMA Division ==
  ASSUME NEW a \in Nat, NEW E \in Nat, E > 0
  PROVE  a \div E \in Nat /\ a % E \in 0 .. E - 1
OBVIOUS

LEMMA DivisionUnique ==
  ASSUME NEW a \in Nat, NEW b \in Nat, NEW E \in Nat, E > 0, a \div E = b \div E, a % E = b % E
  PROVE  a = b
OBVIOUS

LEMMA DivisionMonotone ==
  ASSUME NEW a \in Nat, NEW b \in Nat, a <= b, NEW E \in Nat, E > 0
  PROVE  a \div E <= b \div E
OBVIOUS

LEMMA Layout ==
  /\ CLUST_CNT \in Nat /\ CLUST_CNT > 3 /\ ENTRIES \in Nat /\ ENTRIES > 0
  /\ FatSects \in Nat /\ FatSects > 0
  /\ InfoSect = 1 /\ BootSect = 0
  /\ fat_sect(0) = 2 /\ fat_sect(1) = 2 + FatSects /\ DirSect = 2 + 2 * FatSects
<1>1. CLUST_CNT \in Nat /\ CLUST_CNT > 3 /\ ENTRIES \in Nat /\ ENTRIES > 0 /\ InfoSect = 1
  BY VolumeAssumption
<1>2. (CLUST_CNT + 1) \div ENTRIES \in Nat
  BY <1>1, Division
<1>3. FatSects \in Nat /\ FatSects > 0
  BY <1>2 DEF FatSects
<1> QED
  BY <1>1, <1>3 DEF BootSect, fat_sect, DirSect

(* Every cluster of the volume, and the two numbers before the first. *)
AllClusts == 0 .. CLUST_CNT + 1

LEMMA InTable ==
  ASSUME NEW c \in AllClusts, NEW t \in {0, 1}
  PROVE  /\ FatSector(t, c) \in FatTable(t)
         /\ FatSector(t, c) \in Sectors \ {BootSect, InfoSect, DirSect}
         /\ c % ENTRIES \in 0 .. ENTRIES - 1
<1>1. c \in Nat /\ c <= CLUST_CNT + 1 /\ CLUST_CNT + 1 \in Nat
  BY Layout DEF AllClusts
<1>2. c \div ENTRIES \in Nat /\ c % ENTRIES \in 0 .. ENTRIES - 1
  BY <1>1, Layout, Division
<1>3. c \div ENTRIES <= (CLUST_CNT + 1) \div ENTRIES /\ (CLUST_CNT + 1) \div ENTRIES \in Nat
  BY <1>1, Layout, Division, DivisionMonotone
<1> DEFINE q == c \div ENTRIES
           m == (CLUST_CNT + 1) \div ENTRIES
<1>4. q \in Nat /\ m \in Nat /\ q <= m /\ FatSects = m + 1 /\ FatSector(t, c) = fat_sect(t) + q
  BY <1>2, <1>3 DEF FatSects, FatSector
<1> HIDE DEF q, m
<1>5. CASE t = 0
  BY <1>2, <1>4, <1>5, Layout DEF FatTable, Sectors
<1>6. CASE t = 1
  BY <1>2, <1>4, <1>6, Layout DEF FatTable, Sectors
<1> QED
  BY <1>5, <1>6

LEMMA TablesApart == FatTable(0) \cap FatTable(1) = {}
BY Layout DEF FatTable

(* An entry belongs to one cluster. *)
LEMMA OneEntry ==
  ASSUME NEW c \in AllClusts, NEW b \in AllClusts, NEW t \in {0, 1}, NEW u \in {0, 1},
         FatSector(t, c) = FatSector(u, b), c % ENTRIES = b % ENTRIES
  PROVE  t = u /\ c = b
<1>1. t = u
  BY InTable, TablesApart
<1>2. c \in Nat /\ b \in Nat
  BY Layout DEF AllClusts
<1>3. c \div ENTRIES \in Nat /\ b \div ENTRIES \in Nat /\ fat_sect(t) \in Nat
  BY <1>2, Layout, Division
<1>4. c \div ENTRIES = b \div ENTRIES
  <2> DEFINE q == c \div ENTRIES
             r == b \div ENTRIES
  <2>1. q \in Nat /\ r \in Nat /\ fat_sect(t) + q = fat_sect(t) + r
    BY <1>1, <1>3 DEF FatSector
  <2> HIDE DEF q, r
  <2>2. q = r
    BY <1>3, <2>1
  <2> QED
    BY <2>2 DEF q, r
<1>5. c = b
  BY <1>2, <1>4, Layout, DivisionUnique
<1> QED
  BY <1>1, <1>5

LEMMA SpecialSectors ==
  /\ InfoSect \in Sectors \ {BootSect} /\ DirSect \in Sectors \ {BootSect} /\ InfoSect # DirSect
  /\ BootSect \in Sectors
BY Layout DEF Sectors

(* What a volume holds. *)
LEMMA VolumeFacts ==
  ASSUME NEW d, Volume(d)
  PROVE  /\ DOMAIN d = Sectors
         /\ d[InfoSect] \in Infos
         /\ d[DirSect] \in Dirs
         /\ ~IsFree(d, 1) /\ FatEntry(d, 0, 1) >= EOC
         /\ \A c \in AllClusts, t \in {0, 1} :
              d[FatSector(t, c)] \in FatSectors /\ FatEntry(d, t, c) \in Nat
<1>1. DOMAIN d = Sectors
  BY DEF Volume
<1>2. d[InfoSect] \in Infos /\ d[DirSect] \in Dirs
  BY SpecialSectors DEF Volume, Kind
<1>3. ASSUME NEW c \in AllClusts, NEW t \in {0, 1}
      PROVE  d[FatSector(t, c)] \in FatSectors /\ FatEntry(d, t, c) \in Nat
  <2>1. d[FatSector(t, c)] \in FatSectors
    BY InTable DEF Volume, Kind, FatKind
  <2> QED
    BY <2>1, InTable DEF FatEntry, FatSectors
<1>4. ~IsFree(d, 1) /\ FatEntry(d, 0, 1) >= EOC
  <2>1. 1 \in AllClusts
    BY Layout DEF AllClusts
  <2>2. d[FatSector(0, 1)] \in FatKind(FatSector(0, 1))
    BY <2>1, InTable DEF Volume, Kind
  <2> QED
    BY <1>3, <2>1, <2>2, Layout DEF FatKind, IsFree, FatEntry, EOC, FREE
<1> QED
  BY <1>1, <1>2, <1>3, <1>4

(* What a write to a sector changes. *)
LEMMA SectorWritten ==
  ASSUME NEW d, Volume(d), NEW s \in Sectors \ {BootSect}, NEW v \in Kind(s)
  PROVE  Volume([d EXCEPT ![s] = v])
BY DEF Volume

(* The sector of the entry of cluster c in table t, and the volume, once   *)
(* the entry is v.                                                         *)
SetEntry(d, t, c, v) == [d[FatSector(t, c)] EXCEPT ![c % ENTRIES] = v]
WithEntry(d, t, c, v) == [d EXCEPT ![FatSector(t, c)] = SetEntry(d, t, c, v)]

LEMMA EntryWritten ==
  ASSUME NEW d, Volume(d), NEW t \in {0, 1}, NEW c \in Usable, NEW v \in Nat
  PROVE  /\ SetEntry(d, t, c, v) \in Kind(FatSector(t, c)) /\ Volume(WithEntry(d, t, c, v))
         /\ WithEntry(d, t, c, v)[InfoSect] = d[InfoSect]
         /\ WithEntry(d, t, c, v)[DirSect] = d[DirSect]
         /\ \A u \in {0, 1}, b \in AllClusts :
              FatEntry(WithEntry(d, t, c, v), u, b) = IF u = t /\ b = c THEN v ELSE FatEntry(d, u, b)
<1> DEFINE s == FatSector(t, c)
           w == [d[s] EXCEPT ![c % ENTRIES] = v]
           e == [d EXCEPT ![s] = w]
<1>0. c \in AllClusts /\ 1 \in AllClusts /\ c # 1
  BY Layout DEF AllClusts, Usable
<1>1. s \in Sectors \ {BootSect, InfoSect, DirSect} /\ c % ENTRIES \in 0 .. ENTRIES - 1
  BY <1>0, InTable
<1>2. d[s] \in FatSectors /\ d[s] \in FatKind(s) /\ DOMAIN d = Sectors
  BY <1>0, <1>1, VolumeFacts DEF Volume, Kind
<1>3. w \in FatSectors
  BY <1>2 DEF FatSectors
<1>31. s = FatSector(0, 1) => w[1 % ENTRIES] >= EOC
  <2> SUFFICES ASSUME s = FatSector(0, 1) PROVE w[1 % ENTRIES] >= EOC
    OBVIOUS
  <2>1. 1 % ENTRIES # c % ENTRIES /\ 1 % ENTRIES \in 0 .. ENTRIES - 1
    BY <1>0, OneEntry, InTable
  <2>2. w[1 % ENTRIES] = d[s][1 % ENTRIES]
    BY <1>2, <2>1 DEF FatSectors
  <2> QED
    BY <1>2, <2>2 DEF FatKind
<1>4. w \in Kind(s)
  BY <1>1, <1>3, <1>31 DEF Kind, FatKind
<1>5. Volume(e)
  BY <1>1, <1>4, SectorWritten
<1>6. e[InfoSect] = d[InfoSect] /\ e[DirSect] = d[DirSect]
  BY <1>1, <1>2, SpecialSectors
<1>7. ASSUME NEW u \in {0, 1}, NEW b \in AllClusts
      PROVE  FatEntry(e, u, b) = IF u = t /\ b = c THEN v ELSE FatEntry(d, u, b)
  <2>0. FatSector(u, b) \in Sectors /\ b % ENTRIES \in 0 .. ENTRIES - 1
    BY InTable
  <2>1. CASE FatSector(u, b) # s
    BY <1>2, <2>0, <2>1 DEF FatEntry
  <2>2. CASE FatSector(u, b) = s
    <3>1. e[FatSector(u, b)] = w
      BY <1>1, <1>2, <2>2
    <3>2. CASE b % ENTRIES = c % ENTRIES
      <4>1. u = t /\ b = c
        BY <1>0, <2>2, <3>2, OneEntry
      <4>2. w[c % ENTRIES] = v
        BY <1>1, <1>2 DEF FatSectors
      <4> QED
        BY <3>1, <4>1, <4>2 DEF FatEntry
    <3>3. CASE b % ENTRIES # c % ENTRIES
      <4>1. b # c
        BY <3>3
      <4>2. w[b % ENTRIES] = d[s][b % ENTRIES]
        BY <1>2, <2>0, <3>3 DEF FatSectors
      <4> QED
        BY <2>2, <3>1, <4>1, <4>2 DEF FatEntry
    <3> QED
      BY <3>2, <3>3
  <2> QED
    BY <2>1, <2>2
<1>8. w = SetEntry(d, t, c, v) /\ e = WithEntry(d, t, c, v)
  BY DEF SetEntry, WithEntry
<1> HIDE DEF w, e
<1> QED
  BY <1>4, <1>5, <1>6, <1>7, <1>8

LEMMA OtherWritten ==
  ASSUME NEW d, Volume(d), NEW s \in {InfoSect, DirSect}, NEW v \in Kind(s)
  PROVE  LET e == [d EXCEPT ![s] = v]
         IN  /\ Volume(e) /\ e[s] = v
             /\ s = InfoSect => e[DirSect] = d[DirSect]
             /\ s = DirSect => e[InfoSect] = d[InfoSect]
             /\ \A u \in {0, 1}, b \in AllClusts : FatEntry(e, u, b) = FatEntry(d, u, b)
<1> DEFINE e == [d EXCEPT ![s] = v]
<1>1. Volume(e)
  BY SpecialSectors, SectorWritten
<1>2. DOMAIN d = Sectors
  BY VolumeFacts
<1>3. e[s] = v /\ \A r \in Sectors \ {s} : e[r] = d[r]
  BY <1>2, SpecialSectors
<1>4. ASSUME NEW u \in {0, 1}, NEW b \in AllClusts PROVE FatEntry(e, u, b) = FatEntry(d, u, b)
  <2>1. FatSector(u, b) \in Sectors \ {s}
    BY InTable
  <2> QED
    BY <1>3, <2>1 DEF FatEntry
<1> QED
  BY <1>1, <1>3, <1>4, SpecialSectors

-----------------------------------------------------------------------------
(* What the accesses do to the volume. *)

LEMMA ViewFacts ==
  ASSUME StoreInv
  PROVE  /\ Volume(View)
         /\ \A s \in Sectors \ {BootSect} : Loaded(s) = View[s]
         /\ \A s \in Sectors \ {sect} : View[s] = disk[s]
         /\ ~bufDirty => View = disk
<1>1. DOMAIN disk = Sectors /\ sect \in Sectors /\ Volume(disk)
  BY VolumeFacts DEF StoreInv
<1>2. CASE bufDirty
  <2>1. View = [disk EXCEPT ![sect] = buf] /\ sect \in Sectors \ {BootSect} /\ buf \in Kind(sect)
    BY <1>2 DEF StoreInv, View, Flushed
  <2>2. Volume(View)
    BY <1>1, <2>1, SectorWritten
  <2>3. View[sect] = buf
    BY <1>1, <2>1
  <2>4. \A s \in Sectors \ {BootSect} : Loaded(s) = View[s]
    BY <2>3 DEF Loaded, View
  <2>5. \A s \in Sectors \ {sect} : View[s] = disk[s]
    BY <1>1, <2>1
  <2> QED
    BY <1>2, <2>2, <2>4, <2>5
<1>3. CASE ~bufDirty
  BY <1>1, <1>3 DEF StoreInv, View, Flushed, Loaded
<1> QED
  BY <1>2, <1>3

(* update_buf(s), with nothing changed. *)
LEMMA ReadStep ==
  ASSUME StoreInv, NEW s \in Sectors \ {BootSect}, UpdateBufOk(s)
  PROVE  StoreInv' /\ View' = View /\ sect' = s /\ disk' \in {disk, View}
<1>0. Volume(disk) /\ Volume(View) /\ Loaded(s) = View[s] /\ View[s] \in Kind(s) /\ DOMAIN View = Sectors
  BY ViewFacts, VolumeFacts DEF StoreInv, Volume
<1>1. CASE s = sect
  <2>1. sect' = s /\ disk' = disk /\ buf' = buf
    BY <1>1 DEF UpdateBufOk, Loaded
  <2>2. bufDirty' = bufDirty
    <3>1. bufDirty' = (s = sect /\ bufDirty) /\ bufDirty \in BOOLEAN
      BY Zenon DEF UpdateBufOk, StoreInv
    <3> QED
      BY <1>1, <3>1, Zenon
  <2> QED
    BY <1>1, <2>1, <2>2 DEF StoreInv, View, Flushed
<1>2. CASE s # sect
  <2>1. sect' = s /\ disk' = View /\ buf' = View[s]
    BY <1>0, <1>2 DEF UpdateBufOk, View
  <2>2. bufDirty' = FALSE
    BY <1>2, Zenon DEF UpdateBufOk
  <2>3. View' = View
    BY <2>1, <2>2 DEF View, Flushed
  <2> QED
    BY <1>0, <2>1, <2>2, <2>3 DEF StoreInv
<1> QED
  BY <1>1, <1>2

(* sync_buf. *)
LEMMA SyncStep ==
  ASSUME StoreInv, SyncBufOk, UNCHANGED <<sect, buf>>
  PROVE  StoreInv' /\ View' = View /\ disk' = View
<1>1. disk' = View /\ bufDirty' = FALSE /\ sect' = sect /\ buf' = buf
  BY DEF SyncBufOk, View
<1>2. View' = View
  BY <1>1 DEF View, Flushed
<1>3. sect # BootSect => buf = View[sect]
  BY ViewFacts DEF Loaded, StoreInv
<1> QED
  BY <1>1, <1>2, <1>3, ViewFacts DEF StoreInv

LEMMA SyncFailStep ==
  ASSUME StoreInv, SyncBufFails, UNCHANGED <<sect, buf>>
  PROVE  StoreInv' /\ View' = View /\ disk' = disk
BY DEF StoreInv, SyncBufFails, View, Flushed

LEMMA FailStep ==
  ASSUME StoreInv, NEW s, UpdateBufFails(s)
  PROVE  StoreInv' /\ View' = View /\ disk' \in {disk, View}
BY SyncStep, SyncFailStep DEF UpdateBufFails

(* update_buf(s), and the sector replaced by v. *)
LEMMA WriteStep ==
  ASSUME StoreInv, NEW s \in Sectors \ {BootSect}, NEW v \in Kind(s), UpdateBufWrite(s, v)
  PROVE  /\ StoreInv' /\ View' = [View EXCEPT ![s] = v]
         /\ sect' = s /\ disk' = (IF s = sect THEN disk ELSE View)
<1>0. Volume(disk) /\ Volume(View) /\ DOMAIN disk = Sectors /\ DOMAIN View = Sectors
  BY ViewFacts, VolumeFacts DEF StoreInv
<1>1. sect' = s /\ bufDirty' = TRUE /\ buf' = v /\ disk' = (IF s = sect THEN disk ELSE View)
  BY DEF UpdateBufWrite, View
<1>2. View' = [disk' EXCEPT ![s] = v]
  BY <1>1 DEF View, Flushed
<1>3. StoreInv'
  BY <1>0, <1>1 DEF StoreInv
<1>4. CASE s = sect
  <2>1. View \in {disk, [disk EXCEPT ![sect] = buf]}
    BY DEF View, Flushed
  <2>2. [disk EXCEPT ![s] = v] = [[disk EXCEPT ![s] = buf] EXCEPT ![s] = v]
    BY <1>0
  <2> QED
    BY <1>1, <1>2, <1>3, <1>4, <2>1, <2>2
<1>5. CASE s # sect
  BY <1>1, <1>2, <1>3, <1>5
<1> QED
  BY <1>4, <1>5

(* sync_fs puts FSInfo in the buffer. *)
LEMMA LoadInfoStep ==
  ASSUME StoreInv, info \in Infos, SyncFsLoadInfo
  PROVE  /\ StoreInv' /\ View' = [View EXCEPT ![InfoSect] = info]
         /\ sect' = InfoSect /\ bufDirty' = TRUE /\ buf' = info /\ disk' = View
<1>1. sect' = InfoSect /\ disk' = View /\ bufDirty' = TRUE /\ buf' = info
  BY DEF SyncFsLoadInfo, View
<1>2. View' = [View EXCEPT ![InfoSect] = info]
  BY <1>1 DEF View, Flushed
<1>3. info \in Kind(InfoSect)
  BY DEF Kind
<1> QED
  BY <1>1, <1>2, <1>3, ViewFacts, SpecialSectors DEF StoreInv

(* A structure that is mounted anew, or lost. *)
LEMMA EmptyStep ==
  ASSUME StoreInv, sect' = BootSect, bufDirty' = FALSE, disk' = disk
  PROVE  StoreInv' /\ View' = disk
BY SpecialSectors DEF StoreInv, View, Flushed

-----------------------------------------------------------------------------
(* The put_fat2 calls of a call. *)

LEMMA OneAndOne ==
  ASSUME NEW S, NEW a \in S, NEW b \in S
  PROVE  <<a>> \o <<b>> = <<a, b>>
<1> DEFINE s == <<a>>
           t == <<b>>
           u == <<a, b>>
<1>1. /\ s \in Seq(S) /\ t \in Seq(S) /\ u \in Seq(S) /\ Len(s) = 1 /\ Len(t) = 1 /\ Len(u) = 2
      /\ s[1] = a /\ t[1] = b /\ u[1] = a /\ u[2] = b
  OBVIOUS
<1> HIDE DEF s, t, u
<1> DEFINE r == s \o t
<1>2. /\ r \in Seq(S) /\ Len(r) = Len(s) + Len(t)
      /\ \A i \in 1 .. Len(s) + Len(t) : r[i] = IF i <= Len(s) THEN s[i] ELSE t[i - Len(s)]
  BY <1>1, ConcatProperties
<1> HIDE DEF r
<1>3. Len(r) = 2 /\ r[1] = a /\ r[2] = b
  BY <1>1, <1>2
<1>4. \A i \in 1 .. 2 : r[i] = u[i]
  BY <1>1, <1>3
<1>5. r = u
  BY <1>1, <1>2, <1>3, <1>4, SeqEqual
<1> QED
  BY <1>5 DEF r, s, t, u

LEMMA TwoAndTwo ==
  ASSUME NEW S, NEW a \in S, NEW b \in S, NEW c \in S, NEW d \in S
  PROVE  <<a, b>> \o <<c, d>> = <<a, b, c, d>>
<1> DEFINE s == <<a, b>>
           t == <<c, d>>
           u == <<a, b, c, d>>
<1>1. /\ s \in Seq(S) /\ t \in Seq(S) /\ u \in Seq(S) /\ Len(s) = 2 /\ Len(t) = 2 /\ Len(u) = 4
      /\ s[1] = a /\ s[2] = b /\ t[1] = c /\ t[2] = d
      /\ u[1] = a /\ u[2] = b /\ u[3] = c /\ u[4] = d
  OBVIOUS
<1> HIDE DEF s, t, u
<1> DEFINE r == s \o t
<1>2. /\ r \in Seq(S) /\ Len(r) = Len(s) + Len(t)
      /\ \A i \in 1 .. Len(s) + Len(t) : r[i] = IF i <= Len(s) THEN s[i] ELSE t[i - Len(s)]
  BY <1>1, ConcatProperties
<1> HIDE DEF r
<1>3. Len(r) = 4 /\ r[1] = a /\ r[2] = b /\ r[3] = c /\ r[4] = d
  BY <1>1, <1>2
<1>4. \A i \in 1 .. 4 : r[i] = u[i]
  BY <1>1, <1>3
<1>5. r = u
  BY <1>1, <1>2, <1>3, <1>4, SeqEqual
<1> QED
  BY <1>5 DEF r, s, t, u

(* Short sequences, as the put_fat2 calls take them apart. *)
LEMMA Short ==
  ASSUME NEW S, NEW a \in S, NEW b \in S, NEW c \in S, NEW d \in S
  PROVE  /\ <<a>> \in Seq(S) /\ Len(<<a>>) = 1 /\ Head(<<a>>) = a
         /\ <<a, b>> \in Seq(S) /\ Len(<<a, b>>) = 2 /\ Head(<<a, b>>) = a /\ Tail(<<a, b>>) = <<b>>
         /\ <<a, b, c>> \in Seq(S) /\ Len(<<a, b, c>>) = 3 /\ Head(<<a, b, c>>) = a
         /\ Tail(<<a, b, c>>) = <<b, c>>
         /\ <<a, b, c, d>> \in Seq(S) /\ Len(<<a, b, c, d>>) = 4 /\ Head(<<a, b, c, d>>) = a
         /\ Tail(<<a, b, c, d>>) = <<b, c, d>>
OBVIOUS

LEMMA PutFatPuts ==
  ASSUME NEW c, NEW v
  PROVE  put_fat(c, v) = IF Mirror THEN <<Put(1, c, v), Put(0, c, v)>> ELSE <<Put(0, c, v)>>
<1> DEFINE a == Put(1, c, v)
           b == Put(0, c, v)
<1>1. put_fat(c, v) = (IF Mirror THEN <<a>> ELSE <<>>) \o <<b>>
  BY DEF put_fat, Put
<1>2. <<a>> \o <<b>> = <<a, b>>
  <2> HIDE DEF a, b
  <2>1. a \in {a, b} /\ b \in {a, b}
    OBVIOUS
  <2> QED
    BY <2>1, OneAndOne
<1>3. <<>> \o <<b>> = <<b>>
  <2> HIDE DEF b
  <2> QED
    OBVIOUS
<1> HIDE DEF a, b
<1>4. put_fat(c, v) = IF Mirror THEN <<a, b>> ELSE <<b>>
  BY <1>1, <1>2, <1>3
<1> QED
  BY <1>4 DEF a, b

LEMMA StretchFirst ==
  ASSUME NEW prev, NEW c
  PROVE  StretchPuts(prev, c) \in MarkPuts(prev, c)
<1> DEFINE m1 == Put(1, c, EOC)
           m0 == Put(0, c, EOC)
           l1 == Put(1, prev, c)
           l0 == Put(0, prev, c)
<1>1. /\ put_fat(c, EOC) = (IF Mirror THEN <<m1, m0>> ELSE <<m0>>)
      /\ put_fat(prev, c) = (IF Mirror THEN <<l1, l0>> ELSE <<l0>>)
  BY PutFatPuts
<1>2. MarkPuts(prev, c) =
        IF Mirror THEN IF prev = 0 THEN {<<m1, m0>>, <<m0>>} ELSE {<<m1, m0, l1, l0>>, <<m0, l1, l0>>}
        ELSE IF prev = 0 THEN {<<m0>>} ELSE {<<m0, l0>>}
  BY DEF MarkPuts
<1> HIDE DEF m1, m0, l1, l0
<1>3. <<m1, m0>> \o <<l1, l0>> = <<m1, m0, l1, l0>> /\ <<m0>> \o <<l0>> = <<m0, l0>>
  <2>1. m1 \in {m1, m0, l1, l0} /\ m0 \in {m1, m0, l1, l0} /\ l1 \in {m1, m0, l1, l0} /\ l0 \in {m1, m0, l1, l0}
    OBVIOUS
  <2>2. <<m1, m0>> \o <<l1, l0>> = <<m1, m0, l1, l0>>
    BY <2>1, TwoAndTwo, Zenon
  <2>3. <<m0>> \o <<l0>> = <<m0, l0>>
    BY <2>1, OneAndOne, Zenon
  <2> QED
    BY <2>2, <2>3
<1>4. <<m1, m0>> \o <<>> = <<m1, m0>> /\ <<m0>> \o <<>> = <<m0>>
  OBVIOUS
<1> QED
  BY <1>1, <1>2, <1>3, <1>4 DEF StretchPuts

LEMMA MarkStep ==
  ASSUME NEW prev \in Usable \cup {0}, NEW c \in Usable, NEW puts \in MarkPuts(prev, c)
  PROVE  /\ puts \in Seq(Puts) /\ Len(puts) \in Nat \ {0}
         /\ \/ /\ Head(puts) = Put(1, c, EOC) /\ Mirror
               /\ Len(puts) > 1 /\ Tail(puts) \in MarkPuts(prev, c)
               /\ Head(Tail(puts)) = Put(0, c, EOC)
            \/ /\ Head(puts) = Put(0, c, EOC)
               /\ Len(puts) > 1 => prev # 0 /\ Tail(puts) \in LinkPuts(prev, c)
               /\ Len(puts) > 1 /\ Mirror => Head(Tail(puts)) = Put(1, prev, c)
               /\ Len(puts) = 1 => prev = 0
<1> DEFINE m1 == Put(1, c, EOC)
           m0 == Put(0, c, EOC)
           l1 == Put(1, prev, c)
           l0 == Put(0, prev, c)
<1>0. EOC \in Nat /\ c \in Nat
  BY Layout DEF EOC, Usable
<1>1. m1 \in Puts /\ m0 \in Puts
  BY <1>0 DEF Put, Puts
<1>2. prev # 0 => l1 \in Puts /\ l0 \in Puts
  BY <1>0 DEF Put, Puts
<1>3. MarkPuts(prev, c) =
        IF Mirror THEN IF prev = 0 THEN {<<m1, m0>>, <<m0>>} ELSE {<<m1, m0, l1, l0>>, <<m0, l1, l0>>}
        ELSE IF prev = 0 THEN {<<m0>>} ELSE {<<m0, l0>>}
  BY DEF MarkPuts
<1>4. prev # 0 => LinkPuts(prev, c) = {<<l0>>} \cup IF Mirror THEN {<<l1, l0>>} ELSE {}
  BY DEF LinkPuts
<1> HIDE DEF m1, m0, l1, l0
<1>5. CASE prev = 0
  <2>1. /\ <<m0>> \in Seq(Puts) /\ Len(<<m0>>) = 1 /\ Head(<<m0>>) = m0
        /\ <<m1, m0>> \in Seq(Puts) /\ Len(<<m1, m0>>) = 2
        /\ Head(<<m1, m0>>) = m1 /\ Tail(<<m1, m0>>) = <<m0>>
    BY <1>1, Short
  <2>2. CASE puts = <<m0>>
    BY <1>5, <2>1, <2>2 DEF m0
  <2>3. CASE puts = <<m1, m0>> /\ Mirror
    BY <1>3, <1>5, <2>1, <2>3 DEF m1, m0
  <2> QED
    BY <1>3, <1>5, <2>2, <2>3
<1>6. CASE prev # 0
  <2>1. /\ <<m1, m0, l1, l0>> \in Seq(Puts) /\ Len(<<m1, m0, l1, l0>>) = 4
        /\ Head(<<m1, m0, l1, l0>>) = m1 /\ Tail(<<m1, m0, l1, l0>>) = <<m0, l1, l0>>
        /\ <<m0, l1, l0>> \in Seq(Puts) /\ Len(<<m0, l1, l0>>) = 3
        /\ Head(<<m0, l1, l0>>) = m0 /\ Tail(<<m0, l1, l0>>) = <<l1, l0>>
        /\ Head(<<l1, l0>>) = l1
        /\ <<m0, l0>> \in Seq(Puts) /\ Len(<<m0, l0>>) = 2
        /\ Head(<<m0, l0>>) = m0 /\ Tail(<<m0, l0>>) = <<l0>>
    BY <1>1, <1>2, <1>6, Short
  <2>2. CASE puts = <<m1, m0, l1, l0>> /\ Mirror
    BY <1>3, <1>6, <2>1, <2>2 DEF m1, m0
  <2>3. CASE puts = <<m0, l1, l0>> /\ Mirror
    BY <1>3, <1>4, <1>6, <2>1, <2>3 DEF m0, l1
  <2>4. CASE puts = <<m0, l0>> /\ ~Mirror
    BY <1>3, <1>4, <1>6, <2>1, <2>4 DEF m0
  <2> QED
    BY <1>3, <1>6, <2>2, <2>3, <2>4
<1> QED
  BY <1>5, <1>6

(* Two calls at most, for the link and for an entry that is freed. *)
LEMMA PairStep ==
  ASSUME NEW a \in Puts, NEW b \in Puts,
         NEW puts \in {<<b>>} \cup IF Mirror THEN {<<a, b>>} ELSE {}
  PROVE  /\ puts \in Seq(Puts) /\ Len(puts) \in Nat \ {0}
         /\ \/ /\ Head(puts) = a /\ Mirror /\ Len(puts) > 1 /\ Tail(puts) = <<b>> /\ Head(<<b>>) = b
            \/ Head(puts) = b /\ Len(puts) = 1
<1>1. /\ <<b>> \in Seq(Puts) /\ Len(<<b>>) = 1 /\ Head(<<b>>) = b
      /\ <<a, b>> \in Seq(Puts) /\ Len(<<a, b>>) = 2 /\ Head(<<a, b>>) = a /\ Tail(<<a, b>>) = <<b>>
  BY Short
<1>2. CASE puts = <<b>>
  BY <1>1, <1>2
<1>3. CASE puts = <<a, b>> /\ Mirror
  BY <1>1, <1>3
<1> QED
  BY <1>2, <1>3

LEMMA LinkStep ==
  ASSUME NEW prev \in Usable \cup {0}, NEW c \in Usable, NEW puts \in LinkPuts(prev, c)
  PROVE  /\ puts \in Seq(Puts) /\ Len(puts) \in Nat \ {0} /\ prev \in Usable
         /\ \/ /\ Head(puts) = Put(1, prev, c) /\ Mirror
               /\ Len(puts) > 1 /\ Tail(puts) \in LinkPuts(prev, c)
               /\ Head(Tail(puts)) = Put(0, prev, c)
            \/ Head(puts) = Put(0, prev, c) /\ Len(puts) = 1
<1>0. c \in Nat /\ prev \in Usable /\ prev # 0
  BY Layout DEF LinkPuts, Usable
<1> DEFINE a == Put(1, prev, c)
           b == Put(0, prev, c)
<1>1. a \in Puts /\ b \in Puts
  BY <1>0 DEF Put, Puts
<1>2. LinkPuts(prev, c) = {<<b>>} \cup IF Mirror THEN {<<a, b>>} ELSE {}
  BY <1>0 DEF LinkPuts
<1> HIDE DEF a, b
<1>3. <<b>> \in LinkPuts(prev, c)
  BY <1>2
<1> QED
  BY <1>0, <1>1, <1>2, <1>3, PairStep DEF a, b

LEMMA FreeFirst ==
  ASSUME NEW c
  PROVE  put_fat(c, FREE) \in FreePuts(c)
BY PutFatPuts DEF FreePuts

LEMMA FreeStep ==
  ASSUME NEW c \in Usable, NEW puts \in FreePuts(c)
  PROVE  /\ puts \in Seq(Puts) /\ Len(puts) \in Nat \ {0}
         /\ \/ /\ Head(puts) = Put(1, c, FREE) /\ Mirror
               /\ Len(puts) > 1 /\ Tail(puts) \in FreePuts(c)
               /\ Head(Tail(puts)) = Put(0, c, FREE)
            \/ Head(puts) = Put(0, c, FREE) /\ Len(puts) = 1
<1> DEFINE a == Put(1, c, FREE)
           b == Put(0, c, FREE)
<1>1. a \in Puts /\ b \in Puts
  BY DEF Put, Puts, FREE
<1>2. FreePuts(c) = {<<b>>} \cup IF Mirror THEN {<<a, b>>} ELSE {}
  BY DEF FreePuts
<1> HIDE DEF a, b
<1>3. <<b>> \in FreePuts(c)
  BY <1>2
<1> QED
  BY <1>1, <1>2, <1>3, PairStep DEF a, b

-----------------------------------------------------------------------------
(* Each action in terms of the volume: what it reads there, what it        *)
(* changes, and where the call goes.                                       *)

LEMMA UsableClusts ==
  /\ Usable \subseteq AllClusts /\ Usable \subseteq Nat /\ 0 \notin Usable
  /\ RootClust \in Usable
  /\ \A c \in Usable : NextClust(c) \in Usable
  /\ FREE = 0 /\ EOC \in Nat /\ EOC > 0 /\ EOC \notin Usable /\ \A c \in Usable : c < EOC
BY Layout DEF Usable, AllClusts, RootClust, NextClust, FREE, EOC

(* The scan never leaves the clusters before clust_cnt. *)
LEMMA ScanClusts ==
  ASSUME NEW x \in Nat
  PROVE  NextClust(x) \in 1 .. CLUST_CNT - 1 /\ NextClust(x) \in AllClusts
BY Layout DEF NextClust, AllClusts

(* An access that changes nothing on the volume. *)
Quiet == StoreInv' /\ View' = View /\ disk' \in {disk, View}

LEMMA QuietAccess ==
  ASSUME StoreInv, NEW s \in Sectors \ {BootSect}
  PROVE  /\ BufFails(s) => Quiet /\ Harmed
         /\ BufOk(s) => Quiet /\ UNCHANGED harm /\ sect' = s
<1>1. ASSUME BufFails(s) PROVE Quiet /\ Harmed
  BY <1>1, FailStep DEF BufFails, Quiet
<1>2. ASSUME BufOk(s) PROVE Quiet /\ UNCHANGED harm /\ sect' = s
  BY <1>2, ReadStep DEF BufOk, Quiet
<1> QED
  BY <1>1, <1>2

(* An entry that get_fat takes for a free, a used or a last cluster. *)
Legal(e) == e \in Usable \cup {FREE} \/ e >= EOC

(* What get_fat takes the entry of a cluster for. *)
LEMMA GetFat ==
  ASSUME StoreInv, NEW c \in AllClusts
  PROVE  LET e == FatEntry(View, 0, c)
         IN  /\ FatSector(0, c) \in Sectors \ {BootSect} /\ FatSector(0, c) \in FatTable(0)
             /\ Entry(c) = e /\ e \in Nat
             /\ get_fat(c) \in {"free", "bad", "last", "used", "BROKEN"}
             /\ get_fat(c) = "free" <=> e = FREE
             /\ get_fat(c) = "used" => e \in Usable
             /\ get_fat(c) = "last" => e >= EOC
             /\ get_fat(c) \in {"bad", "BROKEN"} => ~Legal(e)
<1>1. /\ FatSector(0, c) \in Sectors \ {BootSect} /\ FatSector(0, c) \in FatTable(0)
      /\ c \in AllClusts
  BY InTable
<1> DEFINE e == FatEntry(View, 0, c)
<1>2. Entry(c) = e
  BY <1>1, ViewFacts DEF Entry, FatEntry
<1>3. e \in Nat
  BY <1>1, ViewFacts, VolumeFacts
<1>4. get_fat(c) = CASE e = FREE -> "free"
        [] e = BAD -> "bad"
        [] e >= EOC -> "last"
        [] e >= 2 /\ e < CLUST_CNT -> "used"
        [] OTHER -> "BROKEN"
  BY <1>2 DEF get_fat
<1> HIDE DEF e
<1>5. /\ get_fat(c) \in {"free", "bad", "last", "used", "BROKEN"}
      /\ get_fat(c) = "free" <=> e = FREE
      /\ get_fat(c) = "used" => e \in Usable
      /\ get_fat(c) = "last" => e >= EOC
      /\ get_fat(c) \in {"bad", "BROKEN"} => ~Legal(e)
  <2>1. FREE = 0 /\ BAD = CLUST_CNT + 7 /\ EOC = CLUST_CNT + 8 /\ Usable = 2 .. CLUST_CNT - 1
        /\ CLUST_CNT \in Nat
    BY Layout DEF FREE, BAD, EOC, Usable
  <2>2. CASE e = FREE
    BY <1>4, <2>1, <2>2
  <2>3. CASE e = BAD
    BY <1>4, <2>1, <2>3 DEF Legal
  <2>4. CASE e # FREE /\ e # BAD /\ e >= EOC
    BY <1>3, <1>4, <2>1, <2>4
  <2>5. CASE e # FREE /\ e # BAD /\ ~(e >= EOC) /\ e >= 2 /\ e < CLUST_CNT
    BY <1>3, <1>4, <2>1, <2>5
  <2>6. CASE e # FREE /\ e # BAD /\ ~(e >= EOC) /\ ~(e >= 2 /\ e < CLUST_CNT)
    BY <1>3, <1>4, <2>1, <2>6 DEF Legal
  <2> QED
    BY <2>2, <2>3, <2>4, <2>5, <2>6
<1> QED
  BY <1>1, <1>2, <1>3, <1>5 DEF e

LEMMA DirRead ==
  ASSUME StoreInv
  PROVE  /\ DirSect \in Sectors \ {BootSect} /\ Loaded(DirSect) = View[DirSect]
         /\ View[DirSect] \in Dirs
         /\ \A n \in Slots : View[DirSect][n] \in Usable \cup {0}
<1>1. DirSect \in Sectors \ {BootSect} /\ Loaded(DirSect) = View[DirSect] /\ View[DirSect] \in Dirs
  BY SpecialSectors, ViewFacts, VolumeFacts
<1> QED
  BY <1>1 DEF Dirs

LEMMA CreateFacts ==
  ASSUME StoreInv, NEW n \in Slots, Create(n)
  PROVE  LET f == Frame("create", n, 0, info.last_used)
         IN  /\ Quiet /\ pc = "idle" /\ mounted /\ UNCHANGED <<info, mounted>>
             /\ \/ Harmed /\ Return(f, "IO") /\ UNCHANGED infoDirty
                \/ UNCHANGED harm /\ View[DirSect][n] = 0 /\ infoDirty' = TRUE /\ Goto("scan", f)
                \/ /\ UNCHANGED harm /\ View[DirSect][n] # 0 /\ UNCHANGED infoDirty
                   /\ Return([f EXCEPT !.op = "open"], "NONE")
<1> DEFINE f == Frame("create", n, 0, info.last_used)
<1>1. \/ BufFails(DirSect) /\ Return(f, "IO") /\ UNCHANGED infoDirty
      \/ BufOk(DirSect) /\ View[DirSect][n] = 0 /\ infoDirty' = TRUE /\ Goto("scan", f)
      \/ /\ BufOk(DirSect) /\ View[DirSect][n] # 0 /\ UNCHANGED infoDirty
         /\ Return([f EXCEPT !.op = "open"], "NONE")
  BY DirRead DEF Create
<1> HIDE DEF f
<1> QED
  BY <1>1, DirRead, QuietAccess DEF Create, f

LEMMA GrowFacts ==
  ASSUME StoreInv, NEW n \in Slots, Grow(n)
  PROVE  LET f == Frame("grow", n, 0, View[DirSect][n])
         IN  /\ Quiet /\ pc = "idle" /\ mounted /\ UNCHANGED <<infoDirty, info, mounted>>
             /\ \/ Harmed /\ Return(f, "IO")
                \/ UNCHANGED harm /\ Return(f, "DENIED")
                \/ UNCHANGED harm /\ View[DirSect][n] # 0 /\ Goto("walk", f)
<1> DEFINE f == Frame("grow", n, 0, View[DirSect][n])
<1>1. \/ BufFails(DirSect) /\ Return(f, "IO")
      \/ BufOk(DirSect) /\ Return(f, "DENIED")
      \/ BufOk(DirSect) /\ View[DirSect][n] # 0 /\ Goto("walk", f)
  BY DirRead DEF Grow
<1> HIDE DEF f
<1> QED
  BY <1>1, DirRead, QuietAccess DEF Grow, f

LEMMA UnlinkFacts ==
  ASSUME StoreInv, NEW n \in Slots, Unlink(n)
  PROVE  LET f == Frame("unlink", n, 0, View[DirSect][n])
         IN  /\ Quiet /\ pc = "idle" /\ mounted /\ UNCHANGED <<info, mounted>>
             /\ \/ Harmed /\ Return(f, "IO") /\ UNCHANGED infoDirty
                \/ UNCHANGED harm /\ (Return(f, "EOF") \/ Return(f, "DENIED")) /\ UNCHANGED infoDirty
                \/ UNCHANGED harm /\ View[DirSect][n] # 0 /\ infoDirty' = TRUE /\ Goto("free", f)
<1> DEFINE f == Frame("unlink", n, 0, View[DirSect][n])
<1>1. \/ BufFails(DirSect) /\ Return(f, "IO") /\ UNCHANGED infoDirty
      \/ BufOk(DirSect) /\ (Return(f, "EOF") \/ Return(f, "DENIED")) /\ UNCHANGED infoDirty
      \/ BufOk(DirSect) /\ View[DirSect][n] # 0 /\ infoDirty' = TRUE /\ Goto("free", f)
  BY DirRead DEF Unlink
<1> HIDE DEF f
<1> QED
  BY <1>1, DirRead, QuietAccess DEF Unlink, f

LEMMA WalkFacts ==
  ASSUME StoreInv, Walk, frame.cur \in Usable
  PROVE  LET e == FatEntry(View, 0, frame.cur)
         IN  /\ Quiet /\ pc = "walk" /\ UNCHANGED <<info, mounted>>
             /\ \/ Harmed /\ Return(frame, "IO") /\ UNCHANGED infoDirty
                \/ UNCHANGED harm /\ Return(frame, "BROKEN") /\ UNCHANGED infoDirty
                \/ /\ UNCHANGED harm /\ e \in Usable
                   /\ Goto("walk", [frame EXCEPT !.cur = e]) /\ UNCHANGED infoDirty
                \/ /\ UNCHANGED harm /\ e >= EOC /\ infoDirty' = TRUE
                   /\ Goto("next", [frame EXCEPT !.prev = frame.cur, !.cur = NextClust(frame.cur)])
<1> DEFINE c == frame.cur
           e == FatEntry(View, 0, c)
           s == FatSector(0, c)
<1>1. /\ s \in Sectors \ {BootSect} /\ Entry(c) = e
      /\ get_fat(c) = "used" => e \in Usable
      /\ get_fat(c) = "last" => e >= EOC
  BY UsableClusts, GetFat
<1>2. /\ UNCHANGED <<info, mounted>> /\ pc = "walk"
      /\ \/ BufFails(s) /\ Return(frame, "IO") /\ UNCHANGED infoDirty
         \/ BufOk(s) /\ Return(frame, "BROKEN") /\ UNCHANGED infoDirty
         \/ BufOk(s) /\ e \in Usable /\ Goto("walk", [frame EXCEPT !.cur = e]) /\ UNCHANGED infoDirty
         \/ /\ BufOk(s) /\ e >= EOC /\ infoDirty' = TRUE
            /\ Goto("next", [frame EXCEPT !.prev = c, !.cur = NextClust(c)])
  <2> HIDE DEF e
  <2> QED
    BY <1>1 DEF Walk, Fails
<1> HIDE DEF s, e
<1> QED
  BY <1>1, <1>2, QuietAccess DEF e

LEMMA CheckNextFacts ==
  ASSUME StoreInv, CheckNext, frame.cur \in Usable
  PROVE  /\ Quiet /\ pc = "next" /\ UNCHANGED <<info, infoDirty, mounted>>
         /\ \/ Harmed /\ Return(frame, "IO")
            \/ UNCHANGED harm /\ Return(frame, "BROKEN")
            \/ /\ UNCHANGED harm /\ IsFree(View, frame.cur) /\ TakeCluster(frame.cur)
               /\ sect' \in FatTable(0)
            \/ UNCHANGED harm /\ Goto("scan", [frame EXCEPT !.cur = info.last_used])
<1> DEFINE c == frame.cur
           s == FatSector(0, c)
<1>1. /\ s \in Sectors \ {BootSect} /\ s \in FatTable(0)
      /\ get_fat(c) = "free" => IsFree(View, c)
  BY UsableClusts, GetFat DEF IsFree
<1>2. /\ UNCHANGED <<info, infoDirty, mounted>> /\ pc = "next"
      /\ \/ BufFails(s) /\ Return(frame, "IO")
         \/ BufOk(s) /\ Return(frame, "BROKEN")
         \/ BufOk(s) /\ IsFree(View, c) /\ TakeCluster(c)
         \/ BufOk(s) /\ Goto("scan", [frame EXCEPT !.cur = info.last_used])
  BY <1>1 DEF CheckNext, Fails
<1> HIDE DEF s
<1> QED
  BY <1>1, <1>2, QuietAccess

LEMMA ScanFacts ==
  ASSUME StoreInv, Scan, frame.cur \in Nat
  PROVE  LET c == NextClust(frame.cur)
         IN  /\ Quiet /\ pc = "scan" /\ UNCHANGED <<info, infoDirty, mounted>>
             /\ \/ UNCHANGED harm /\ c = info.last_used /\ Return(frame, "FULL")
                \/ (Harmed \/ UNCHANGED harm) /\ Return(frame, "STALE")
                \/ /\ Harmed \/ (UNCHANGED harm /\ ~Legal(FatEntry(View, 0, c)))
                   /\ frame.prev = 0
                   /\ \E g \in Garbage : Goto("dir_add", Frame("guess", frame.slot, 0, g))
                \/ /\ UNCHANGED harm /\ IsFree(View, c) /\ TakeCluster(c)
                   /\ sect' \in FatTable(0)
                \/ /\ UNCHANGED harm /\ ~IsFree(View, c) /\ c # info.last_used
                   /\ Goto("scan", [frame EXCEPT !.cur = c])
<1> DEFINE c == NextClust(frame.cur)
           s == FatSector(0, c)
<1>1. /\ s \in Sectors \ {BootSect} /\ s \in FatTable(0)
      /\ get_fat(c) = "free" <=> IsFree(View, c)
      /\ get_fat(c) = "BROKEN" => ~Legal(FatEntry(View, 0, c))
  BY ScanClusts, GetFat DEF IsFree
<1> DEFINE Unlucky == \/ Return(frame, "STALE")
                      \/ /\ frame.prev = 0
                         /\ \E g \in Garbage : Goto("dir_add", Frame("guess", frame.slot, 0, g))
<1>2. ScanFails => Unlucky
  BY DEF ScanFails
<1>3. /\ UNCHANGED <<info, infoDirty, mounted>> /\ pc = "scan"
      /\ \/ UNCHANGED <<disk, buf, sect, bufDirty, harm>> /\ c = info.last_used /\ Return(frame, "FULL")
         \/ BufFails(s) /\ ScanFails
         \/ BufOk(s) /\ get_fat(c) = "BROKEN" /\ ScanFails
         \/ BufOk(s) /\ get_fat(c) = "free" /\ TakeCluster(c)
         \/ /\ BufOk(s) /\ get_fat(c) # "free" /\ c # info.last_used
            /\ Goto("scan", [frame EXCEPT !.cur = c])
  BY DEF Scan
<1>4. UNCHANGED <<disk, buf, sect, bufDirty, harm>> => Quiet
  BY DEF Quiet, StoreInv, View, Flushed
<1> HIDE DEF s, c, Unlucky
<1>5. /\ UNCHANGED <<info, infoDirty, mounted>> /\ pc = "scan" /\ Quiet
      /\ \/ UNCHANGED harm /\ c = info.last_used /\ Return(frame, "FULL")
         \/ Harmed /\ Unlucky
         \/ UNCHANGED harm /\ ~Legal(FatEntry(View, 0, c)) /\ Unlucky
         \/ UNCHANGED harm /\ IsFree(View, c) /\ TakeCluster(c) /\ sect' \in FatTable(0)
         \/ /\ UNCHANGED harm /\ ~IsFree(View, c) /\ c # info.last_used
            /\ Goto("scan", [frame EXCEPT !.cur = c])
  BY <1>1, <1>2, <1>3, <1>4, QuietAccess
<1> QED
  BY <1>5 DEF Unlucky, c

(* put_fat2 has set an entry. *)
PutDone(p) ==
  /\ StoreInv' /\ UNCHANGED harm
  /\ View'[InfoSect] = View[InfoSect] /\ View'[DirSect] = View[DirSect]
  /\ \A u \in {0, 1}, b \in AllClusts :
       FatEntry(View', u, b) = IF u = p.table /\ b = p.clust THEN p.val ELSE FatEntry(View, u, b)
  /\ sect' = FatSector(p.table, p.clust)
  /\ disk' = (IF sect' = sect THEN disk ELSE View)

LEMMA PutAccess ==
  ASSUME StoreInv, NEW p \in Puts
  PROVE  LET s == FatSector(p.table, p.clust)
         IN  /\ s \in Sectors \ {BootSect} /\ s \in FatTable(p.table)
             /\ BufWrite(s, [Loaded(s) EXCEPT ![p.clust % ENTRIES] = p.val]) => PutDone(p)
<1> DEFINE s == FatSector(p.table, p.clust)
           v == SetEntry(View, p.table, p.clust, p.val)
           e == WithEntry(View, p.table, p.clust, p.val)
<1>1. p.table \in {0, 1} /\ p.clust \in AllClusts /\ p.clust \in Usable /\ p.val \in Nat
  BY UsableClusts DEF Puts
<1>2. s \in Sectors \ {BootSect} /\ s \in FatTable(p.table)
  BY <1>1, InTable
<1>3. Loaded(s) = View[s] /\ Volume(View)
  BY <1>2, ViewFacts
<1>4. /\ v \in Kind(s)
      /\ e[InfoSect] = View[InfoSect] /\ e[DirSect] = View[DirSect]
      /\ \A u \in {0, 1}, b \in AllClusts :
           FatEntry(e, u, b) = IF u = p.table /\ b = p.clust THEN p.val ELSE FatEntry(View, u, b)
      /\ e = [View EXCEPT ![s] = v]
  <2>1. e = [View EXCEPT ![s] = v]
    BY DEF WithEntry
  <2> DEFINE t == p.table
             c == p.clust
             w == p.val
             d == View
  <2>2. t \in {0, 1} /\ c \in Usable /\ w \in Nat /\ Volume(d)
    BY <1>1, <1>3
  <2> HIDE DEF t, c, w, d
  <2>3. /\ SetEntry(d, t, c, w) \in Kind(FatSector(t, c))
        /\ WithEntry(d, t, c, w)[InfoSect] = d[InfoSect]
        /\ WithEntry(d, t, c, w)[DirSect] = d[DirSect]
        /\ \A u \in {0, 1}, b \in AllClusts :
             FatEntry(WithEntry(d, t, c, w), u, b) = IF u = t /\ b = c THEN w ELSE FatEntry(d, u, b)
    <3>1. SetEntry(d, t, c, w) \in Kind(FatSector(t, c))
      BY <2>2, EntryWritten
    <3>2. WithEntry(d, t, c, w)[InfoSect] = d[InfoSect]
      BY <2>2, EntryWritten
    <3>3. WithEntry(d, t, c, w)[DirSect] = d[DirSect]
      BY <2>2, EntryWritten
    <3>4. \A u \in {0, 1}, b \in AllClusts :
            FatEntry(WithEntry(d, t, c, w), u, b) = IF u = t /\ b = c THEN w ELSE FatEntry(d, u, b)
      BY <2>2, EntryWritten
    <3> QED
      BY <3>1, <3>2, <3>3, <3>4
  <2> QED
    BY <2>1, <2>3 DEF t, c, w, d
<1>5. ASSUME BufWrite(s, v) PROVE PutDone(p)
  <2>1. UpdateBufWrite(s, v) /\ UNCHANGED harm
    BY <1>5 DEF BufWrite
  <2> HIDE DEF s, v, e
  <2>2. StoreInv' /\ View' = [View EXCEPT ![s] = v] /\ sect' = s /\ disk' = (IF s = sect THEN disk ELSE View)
    BY <1>2, <1>4, <2>1, WriteStep
  <2>3. \A u \in {0, 1}, b \in AllClusts :
          FatEntry(View', u, b) = IF u = p.table /\ b = p.clust THEN p.val ELSE FatEntry(View, u, b)
    BY <1>4, <2>2
  <2>4. View'[InfoSect] = View[InfoSect] /\ View'[DirSect] = View[DirSect]
    BY <1>4, <2>2
  <2>5. sect' = FatSector(p.table, p.clust)
    BY <2>2 DEF s
  <2> QED
    BY <2>1, <2>2, <2>3, <2>4, <2>5 DEF PutDone
<1> QED
  BY <1>2, <1>3, <1>5 DEF SetEntry

LEMMA PutFat2Facts ==
  ASSUME StoreInv, frame.puts \in Seq(Puts), frame.puts # <<>>, NEW ACTION A, PutFat2(A)
  PROVE  \/ Quiet /\ Harmed /\ Return(frame, "IO") /\ UNCHANGED info
         \/ /\ PutDone(Head(frame.puts)) /\ Len(frame.puts) > 1
            /\ Goto(pc, [frame EXCEPT !.puts = Tail(frame.puts)]) /\ UNCHANGED info
         \/ PutDone(Head(frame.puts)) /\ Len(frame.puts) = 1 /\ A
<1> DEFINE p == Head(frame.puts)
           s == FatSector(p.table, p.clust)
<1>1. p \in Puts
  BY HeadTailProperties
<1>2. /\ s \in Sectors \ {BootSect}
      /\ BufWrite(s, [Loaded(s) EXCEPT ![p.clust % ENTRIES] = p.val]) => PutDone(p)
  BY <1>1, PutAccess
<1>3. Fails(s) => Quiet /\ Harmed /\ Return(frame, "IO") /\ UNCHANGED info
  <2> HIDE DEF s
  <2> QED
    BY <1>2, QuietAccess DEF Fails
<1> QED
  BY <1>2, <1>3 DEF PutFat2

LEMMA PutStretchFacts ==
  ASSUME StoreInv, PutStretch, frame.puts \in Seq(Puts), frame.puts # <<>>
  PROVE  /\ pc = "put" /\ UNCHANGED <<infoDirty, mounted>>
         /\ \/ Quiet /\ Harmed /\ Return(frame, "IO") /\ UNCHANGED info
            \/ /\ PutDone(Head(frame.puts)) /\ Len(frame.puts) > 1
               /\ Goto("put", [frame EXCEPT !.puts = Tail(frame.puts)]) /\ UNCHANGED info
            \/ /\ PutDone(Head(frame.puts)) /\ Len(frame.puts) = 1
               /\ info' = [signed |-> info.signed, last_used |-> frame.cur, free_cnt |-> (info.free_cnt + WIDTH - 1) % WIDTH]
               /\ Goto("sync", [frame EXCEPT !.puts = <<>>])
<1> DEFINE A == /\ info' = [signed |-> info.signed, last_used |-> frame.cur, free_cnt |-> (info.free_cnt + WIDTH - 1) % WIDTH]
                /\ Goto("sync", [frame EXCEPT !.puts = <<>>])
<1>1. PutFat2(A) /\ pc = "put" /\ UNCHANGED <<infoDirty, mounted>>
  BY DEF PutStretch
<1> HIDE DEF A
<1>2. \/ Quiet /\ Harmed /\ Return(frame, "IO") /\ UNCHANGED info
      \/ /\ PutDone(Head(frame.puts)) /\ Len(frame.puts) > 1
         /\ Goto(pc, [frame EXCEPT !.puts = Tail(frame.puts)]) /\ UNCHANGED info
      \/ PutDone(Head(frame.puts)) /\ Len(frame.puts) = 1 /\ A
  BY <1>1, PutFat2Facts
<1> QED
  BY <1>1, <1>2 DEF A

LEMMA PutFreeFacts ==
  ASSUME StoreInv, PutFree, frame.puts \in Seq(Puts), frame.puts # <<>>
  PROVE  /\ pc = "unput" /\ UNCHANGED <<infoDirty, mounted>>
         /\ \/ Quiet /\ Harmed /\ Return(frame, "IO") /\ UNCHANGED info
            \/ /\ PutDone(Head(frame.puts)) /\ Len(frame.puts) > 1
               /\ Goto("unput", [frame EXCEPT !.puts = Tail(frame.puts)]) /\ UNCHANGED info
            \/ /\ PutDone(Head(frame.puts)) /\ Len(frame.puts) = 1
               /\ info' = [info EXCEPT !.free_cnt = (info.free_cnt + 1) % WIDTH]
               /\ \/ /\ frame.next >= EOC
                     /\ Goto("sync", [frame EXCEPT !.cur = 0, !.next = 0, !.puts = <<>>])
                  \/ /\ ~(frame.next >= EOC)
                     /\ Goto("free", [frame EXCEPT !.cur = frame.next, !.next = 0, !.puts = <<>>])
<1> DEFINE A == /\ info' = [info EXCEPT !.free_cnt = (@ + 1) % WIDTH]
                /\ IF frame.next >= EOC
                   THEN Goto("sync", [frame EXCEPT !.cur = 0, !.next = 0, !.puts = <<>>])
                   ELSE Goto("free", [frame EXCEPT !.cur = frame.next, !.next = 0, !.puts = <<>>])
<1>1. PutFat2(A) /\ pc = "unput" /\ UNCHANGED <<infoDirty, mounted>>
  BY DEF PutFree
<1> HIDE DEF A
<1>2. \/ Quiet /\ Harmed /\ Return(frame, "IO") /\ UNCHANGED info
      \/ /\ PutDone(Head(frame.puts)) /\ Len(frame.puts) > 1
         /\ Goto(pc, [frame EXCEPT !.puts = Tail(frame.puts)]) /\ UNCHANGED info
      \/ PutDone(Head(frame.puts)) /\ Len(frame.puts) = 1 /\ A
  BY <1>1, PutFat2Facts
<1>3. A => /\ info' = [info EXCEPT !.free_cnt = (info.free_cnt + 1) % WIDTH]
           /\ \/ /\ frame.next >= EOC
                 /\ Goto("sync", [frame EXCEPT !.cur = 0, !.next = 0, !.puts = <<>>])
              \/ /\ ~(frame.next >= EOC)
                 /\ Goto("free", [frame EXCEPT !.cur = frame.next, !.next = 0, !.puts = <<>>])
  BY DEF A
<1>4. Goto(pc, [frame EXCEPT !.puts = Tail(frame.puts)])
        => Goto("unput", [frame EXCEPT !.puts = Tail(frame.puts)])
  BY <1>1
<1> QED
  BY <1>1, <1>2, <1>3, <1>4, Zenon

LEMMA FreeNextFacts ==
  ASSUME StoreInv, FreeNext, frame.cur \in Usable
  PROVE  LET e == FatEntry(View, 0, frame.cur)
         IN  /\ Quiet /\ pc = "free" /\ UNCHANGED <<info, infoDirty, mounted>>
             /\ \/ Harmed /\ Return(frame, "IO")
                \/ UNCHANGED harm /\ ~(Legal(e) /\ e # FREE) /\ Return(frame, "BROKEN")
                \/ /\ UNCHANGED harm /\ e \in Nat /\ (e \in Usable \/ e >= EOC)
                   /\ Goto("unput", [frame EXCEPT !.next = e, !.puts = put_fat(frame.cur, FREE)])
                   /\ sect' \in FatTable(0)
<1> DEFINE c == frame.cur
           e == FatEntry(View, 0, c)
           s == FatSector(0, c)
<1>1. /\ s \in Sectors \ {BootSect} /\ s \in FatTable(0) /\ Entry(c) = e /\ e \in Nat
      /\ get_fat(c) = "used" => e \in Usable
      /\ get_fat(c) = "last" => e >= EOC
      /\ get_fat(c) \in {"BROKEN", "bad", "free"} => ~(Legal(e) /\ e # FREE)
  BY UsableClusts, GetFat
<1>2. /\ UNCHANGED <<info, infoDirty, mounted>> /\ pc = "free"
      /\ \/ BufFails(s) /\ Return(frame, "IO")
         \/ BufOk(s) /\ ~(Legal(e) /\ e # FREE) /\ Return(frame, "BROKEN")
         \/ /\ BufOk(s) /\ get_fat(c) \in {"used", "last"}
            /\ Goto("unput", [frame EXCEPT !.next = e, !.puts = put_fat(frame.cur, FREE)])
  <2> HIDE DEF e
  <2> QED
    BY <1>1 DEF FreeNext, Fails
<1> HIDE DEF s, e
<1> QED
  BY <1>1, <1>2, QuietAccess DEF e

LEMMA SyncFsFacts ==
  ASSUME StoreInv, info \in Infos, SyncFs
  PROVE  /\ pc \in {"sync", "sync_end"} /\ UNCHANGED <<info, infoDirty, mounted>>
         /\ \/ Quiet /\ Harmed /\ Return(frame, "IO")
            \/ Quiet /\ disk' = View /\ ~infoDirty /\ UNCHANGED harm /\ Synced
            \/ /\ StoreInv' /\ View' = [View EXCEPT ![InfoSect] = info] /\ infoDirty
               /\ sect' = InfoSect /\ bufDirty' = TRUE /\ buf' = info /\ disk' = View
               /\ UNCHANGED harm
               /\ Goto(IF pc = "sync" THEN "info" ELSE "info_end", frame)
<1>1. SyncFsFails => Quiet
  BY SyncStep, SyncFailStep DEF SyncFsFails, Quiet
<1>2. SyncFsDone => Quiet /\ disk' = View /\ ~infoDirty
  BY SyncStep DEF SyncFsDone, Quiet
<1>3. SyncFsLoadInfo =>
        /\ StoreInv' /\ View' = [View EXCEPT ![InfoSect] = info] /\ infoDirty
        /\ sect' = InfoSect /\ bufDirty' = TRUE /\ buf' = info /\ disk' = View
  <2>1. SyncFsLoadInfo => infoDirty
    BY DEF SyncFsLoadInfo
  <2> QED
    BY <2>1, LoadInfoStep
<1> QED
  BY <1>1, <1>2, <1>3 DEF SyncFs

LEMMA WriteInfoFacts ==
  ASSUME StoreInv, WriteInfo
  PROVE  /\ pc \in {"info", "info_end"} /\ UNCHANGED <<info, mounted>> /\ Quiet
         /\ \/ Harmed /\ Return(frame, "IO") /\ UNCHANGED infoDirty
            \/ disk' = View /\ infoDirty' = FALSE /\ UNCHANGED harm /\ Synced
<1>1. SyncInfoFails => Quiet /\ UNCHANGED infoDirty
  BY SyncFailStep DEF SyncInfoFails, Quiet
<1>2. SyncInfoOk => Quiet /\ disk' = View /\ infoDirty' = FALSE
  BY SyncStep DEF SyncInfoOk, Quiet
<1> QED
  BY <1>1, <1>2 DEF WriteInfo

(* The directory entry of name n is set. *)
DirSet(n, c) ==
  /\ StoreInv' /\ UNCHANGED harm
  /\ View'[InfoSect] = View[InfoSect] /\ View'[DirSect] = [View[DirSect] EXCEPT ![n] = c]
  /\ \A u \in {0, 1}, b \in AllClusts : FatEntry(View', u, b) = FatEntry(View, u, b)
  /\ sect' = DirSect /\ disk' = (IF sect = DirSect THEN disk ELSE View)

LEMMA DirWrite ==
  ASSUME StoreInv, NEW n \in Slots, NEW c \in Usable \cup {0},
         BufWrite(DirSect, [Loaded(DirSect) EXCEPT ![n] = c])
  PROVE  DirSet(n, c)
<1> DEFINE v == [View[DirSect] EXCEPT ![n] = c]
<1>1. UpdateBufWrite(DirSect, v) /\ UNCHANGED harm
  BY DirRead DEF BufWrite
<1>2. v \in Kind(DirSect)
  BY DirRead, SpecialSectors DEF Dirs, Kind
<1> HIDE DEF v
<1>3. /\ StoreInv' /\ View' = [View EXCEPT ![DirSect] = v] /\ sect' = DirSect
      /\ disk' = (IF DirSect = sect THEN disk ELSE View)
  BY <1>1, <1>2, DirRead, WriteStep
<1>4. Volume(View)
  BY ViewFacts
<1>5. View'[DirSect] = v /\ View'[InfoSect] = View[InfoSect]
  BY <1>2, <1>3, <1>4, OtherWritten
<1>6. \A u \in {0, 1}, b \in AllClusts : FatEntry(View', u, b) = FatEntry(View, u, b)
  BY <1>2, <1>3, <1>4, OtherWritten
<1> QED
  BY <1>1, <1>3, <1>5, <1>6 DEF DirSet, v

LEMMA DirAddFacts ==
  ASSUME StoreInv, DirAdd, frame.slot \in Slots, frame.cur \in Usable \cup {0}
  PROVE  /\ pc = "dir_add" /\ UNCHANGED <<info, infoDirty, mounted>>
         /\ \/ Quiet /\ Harmed /\ Return(frame, "IO")
            \/ DirSet(frame.slot, frame.cur) /\ Return(frame, "NONE")
<1>1. Fails(DirSect) => Quiet /\ Harmed /\ Return(frame, "IO") /\ UNCHANGED info
  BY DirRead, QuietAccess DEF Fails
<1> QED
  BY <1>1, DirWrite DEF DirAdd

LEMMA RemoveEntriesFacts ==
  ASSUME StoreInv, RemoveEntries, frame.slot \in Slots
  PROVE  /\ pc = "rm_entry" /\ UNCHANGED <<info, infoDirty, mounted>>
         /\ \/ Quiet /\ Harmed /\ Return(frame, "IO")
            \/ DirSet(frame.slot, 0) /\ Goto("sync_end", frame)
<1>1. Fails(DirSect) => Quiet /\ Harmed /\ Return(frame, "IO") /\ UNCHANGED info
  BY DirRead, QuietAccess DEF Fails
<1> QED
  BY <1>1, DirWrite DEF RemoveEntries

(* What fat_mount takes from FSInfo. *)
LEMMA ReadInfoFacts ==
  ASSUME NEW i \in Infos
  PROVE  /\ ReadInfo(i) \in Infos
         /\ i.signed => ReadInfo(i).free_cnt = i.free_cnt
         /\ ~i.signed => ReadInfo(i).free_cnt = WIDTH - 1
<1>1. WIDTH \in Nat /\ WIDTH > 3 /\ 2 \in 0 .. WIDTH - 1 /\ WIDTH - 1 \in 0 .. WIDTH - 1
  BY VolumeAssumption
<1>2. CASE i.signed
  <2> DEFINE h == IF i.last_used = WIDTH - 1 THEN 2 ELSE i.last_used
  <2>1. h \in 0 .. WIDTH - 1
    BY <1>1 DEF Infos
  <2>2. ReadInfo(i) = [i EXCEPT !.last_used = h]
    BY <1>2 DEF ReadInfo
  <2> HIDE DEF h
  <2> QED
    BY <1>2, <2>1, <2>2 DEF Infos
<1>3. CASE ~i.signed
  <2>1. ReadInfo(i) = [i EXCEPT !.last_used = 2, !.free_cnt = WIDTH - 1]
    BY <1>3 DEF ReadInfo
  <2> QED
    BY <1>1, <1>3, <2>1 DEF Infos
<1> QED
  BY <1>2, <1>3

LEMMA MountFacts ==
  ASSUME StoreInv, Mount
  PROVE  LET f == Frame("mount", "none", 0, 0)
         IN  /\ pc = "idle" /\ ~mounted /\ UNCHANGED <<pc, frame>>
             /\ \/ Harmed /\ UNCHANGED <<bufVars, mounted, off>> /\ ret' = Result(f, "IO")
                \/ /\ StoreInv' /\ View' = disk /\ UNCHANGED <<disk, harm>>
                   /\ disk[InfoSect] \in Infos
                   /\ info' = ReadInfo(disk[InfoSect]) /\ info' \in Infos
                   /\ off' = (IF disk[InfoSect].signed THEN off ELSE WIDTH - 1 - FreeClusts(disk))
                   /\ infoDirty' = FALSE /\ mounted' = TRUE /\ ret' = Result(f, "NONE")
<1>1. disk[InfoSect] \in Infos /\ ReadInfo(disk[InfoSect]) \in Infos
  BY VolumeFacts, ReadInfoFacts DEF StoreInv
<1> DEFINE f == Frame("mount", "none", 0, 0)
<1>5. pc = "idle" /\ ~mounted /\ UNCHANGED <<pc, frame>>
  BY DEF Mount
<1>6. CASE Harmed /\ ret' = Result(f, "IO") /\ UNCHANGED <<bufVars, mounted, off>>
  BY <1>5, <1>6
<1>7. CASE /\ UNCHANGED harm
           /\ info' = ReadInfo(disk[InfoSect])
           /\ off' = (IF disk[InfoSect].signed THEN off ELSE WIDTH - 1 - FreeClusts(disk))
           /\ sect' = BootSect /\ buf' = Zeroed
           /\ bufDirty' = FALSE /\ infoDirty' = FALSE
           /\ mounted' = TRUE
           /\ ret' = Result(f, "NONE")
           /\ UNCHANGED disk
  <2>1. StoreInv' /\ View' = disk
    BY <1>7, EmptyStep
  <2> QED
    BY <1>1, <1>5, <1>7, <2>1
<1> QED
  BY <1>6, <1>7 DEF Mount

LEMMA CrashFacts ==
  ASSUME StoreInv, Crash
  PROVE  /\ StoreInv' /\ View' = disk /\ UNCHANGED disk /\ Harmed
         /\ infoDirty' = FALSE /\ mounted' = FALSE
         /\ pc' = "idle" /\ frame' = NoFrame /\ ret' = Result(NoFrame, "NONE")
<1>1. /\ sect' = BootSect /\ bufDirty' = FALSE /\ UNCHANGED disk /\ Harmed
      /\ infoDirty' = FALSE /\ mounted' = FALSE
      /\ pc' = "idle" /\ frame' = NoFrame /\ ret' = Result(NoFrame, "NONE")
  BY Zenon DEF Crash
<1>2. StoreInv' /\ View' = disk
  <2>1. sect' = BootSect /\ bufDirty' = FALSE /\ disk' = disk
    BY <1>1
  <2> QED
    BY <2>1, SpecialSectors DEF StoreInv, View, Flushed
<1> QED
  BY <1>1, <1>2

-----------------------------------------------------------------------------
(* The calls keep their invariant. *)

LEMMA NoFrameFacts ==
  /\ NoFrame \in Frames /\ NoFrame.op = "none" /\ 0 \in 0 .. WIDTH - 1
  /\ \A op \in {"create", "guess", "grow", "unlink"}, n \in Slots, prev \in Usable \cup {0},
        cur \in Usable \cup 0 .. WIDTH - 1 :
       Frame(op, n, prev, cur) \in Frames
  /\ \A op \in {"sync", "umount"} : Frame(op, "none", 0, 0) \in Frames
<1>1. <<>> \in Seq(Puts) /\ 0 \in Nat /\ 0 \in 0 .. WIDTH - 1
  BY VolumeAssumption
<1> QED
  BY <1>1 DEF NoFrame, Frame, Frames

(* A call ends with an error, and nothing on the volume has changed. *)
LEMMA Ended ==
  ASSUME InfoInv, StoreInv', mounted \/ pc # "idle",
         View'[InfoSect] = View[InfoSect], UNCHANGED <<info, infoDirty, mounted>>,
         NEW f, NEW err, Return(f, err), err \notin {"NONE", "FULL"}
  PROVE  CallInv'
<1>1. pc' = "idle" /\ frame' = NoFrame /\ ret'.err = err
  BY DEF Return, Result
<1>2. FrameInv'
  BY <1>1, NoFrameFacts DEF FrameInv
<1>3. InfoInv'
  BY <1>1 DEF InfoInv
<1>4. TakeInv' /\ EntryInv'
  BY <1>1 DEF TakeInv, EntryInv, Marking
<1>5. AnswersTrue'
  BY <1>1 DEF AnswersTrue
<1> QED
  BY <1>2, <1>3, <1>4, <1>5 DEF CallInv

(* The same after an access that only reads. *)
LEMMA EndedQuiet ==
  ASSUME CallInv, Quiet, mounted \/ pc # "idle", UNCHANGED <<info, infoDirty, mounted>>,
         NEW f, NEW err, Return(f, err), err \notin {"NONE", "FULL"}
  PROVE  CallInv'
BY Ended DEF Quiet, CallInv

(* A call goes on. *)
LEMMA GoesOn ==
  ASSUME StoreInv', FrameInv', InfoInv', TakeInv', EntryInv', pc' # "idle"
  PROVE  CallInv'
BY DEF CallInv, AnswersTrue

(* An access that only reads, while FSInfo is as it was or is marked dirty. *)
LEMMA InfoQuiet ==
  ASSUME InfoInv, Quiet, mounted \/ pc # "idle",
         UNCHANGED info, infoDirty' \in {infoDirty, TRUE}, mounted' \in {mounted, FALSE},
         pc' \notin {"info", "info_end"},
         pc' \in {"next", "scan", "put", "free", "unput"} => infoDirty'
  PROVE  InfoInv'
<1>1. info \in Infos /\ infoDirty' \in BOOLEAN /\ mounted' \in BOOLEAN
  BY DEF InfoInv
<1>2. ~infoDirty' => ~infoDirty
  BY DEF InfoInv
<1>3. ~infoDirty' => info' \in {View'[InfoSect], ReadInfo(View'[InfoSect])}
  BY <1>2 DEF InfoInv, Quiet
<1> QED
  BY <1>1, <1>3 DEF InfoInv

(* The end of the scan and its turns. *)
LEMMA ScanTurns ==
  ASSUME NEW l, NEW x, Scanned(l, x), NEW b \in Usable
  PROVE  /\ ~Passed(l, l, b)
         /\ NextClust(x) = l /\ b # l => Passed(l, x, b)
         /\ NextClust(x) # l /\ Passed(l, NextClust(x), b) => b = NextClust(x) \/ Passed(l, x, b)
<1>1. /\ l \in Nat /\ x \in Nat /\ b \in Nat /\ CLUST_CNT \in Nat /\ CLUST_CNT > 3
      /\ 2 <= b /\ b <= CLUST_CNT - 1 /\ (x = l \/ (1 <= x /\ x <= CLUST_CNT - 1))
  BY Layout, VolumeAssumption DEF Usable, Scanned
<1>2. CASE x + 1 >= CLUST_CNT
  BY <1>1, <1>2 DEF NextClust, Passed
<1>3. CASE ~(x + 1 >= CLUST_CNT)
  BY <1>1, <1>3 DEF NextClust, Passed
<1> QED
  BY <1>2, <1>3

LEMMA CreateCall ==
  ASSUME CallInv, NEW n \in Slots, Create(n)
  PROVE  CallInv'
<1> DEFINE f == Frame("create", n, 0, info.last_used)
<1>0. StoreInv /\ InfoInv
  BY DEF CallInv
<1>1. /\ Quiet /\ pc = "idle" /\ mounted /\ UNCHANGED <<info, mounted>>
      /\ \/ Harmed /\ Return(f, "IO") /\ UNCHANGED infoDirty
         \/ UNCHANGED harm /\ View[DirSect][n] = 0 /\ infoDirty' = TRUE /\ Goto("scan", f)
         \/ /\ UNCHANGED harm /\ View[DirSect][n] # 0 /\ UNCHANGED infoDirty
            /\ Return([f EXCEPT !.op = "open"], "NONE")
  BY <1>0, CreateFacts
<1>2. info \in Infos /\ info.last_used \in 0 .. WIDTH - 1
  BY <1>0, <1>1 DEF InfoInv, Infos
<1>3. f \in Frames /\ f.op = "create" /\ f.slot = n /\ f.cur = info.last_used /\ f.prev = 0
  BY <1>2, NoFrameFacts DEF Frame
<1> HIDE DEF f
<1>4. CASE Return(f, "IO") /\ UNCHANGED infoDirty
  BY <1>1, <1>4, EndedQuiet
<1>5. CASE infoDirty' = TRUE /\ Goto("scan", f)
  <2>1. pc' = "scan" /\ frame' = f
    BY <1>5 DEF Goto
  <2>2. FrameInv'
    BY <1>2, <1>3, <2>1 DEF FrameInv
  <2>3. InfoInv'
    BY <1>0, <1>1, <1>5, <2>1, InfoQuiet
  <2>4. TakeInv' /\ EntryInv'
    <3>1. Scanned(info.last_used, info.last_used)
      BY <1>2 DEF Scanned
    <3> QED
      BY <1>1, <1>2, <1>3, <2>1, <3>1, ScanTurns DEF TakeInv, EntryInv, Marking
  <2> QED
    BY <1>1, <2>1, <2>2, <2>3, <2>4, GoesOn DEF Quiet
<1>6. CASE View[DirSect][n] # 0 /\ UNCHANGED infoDirty /\ Return([f EXCEPT !.op = "open"], "NONE")
  <2>1. pc' = "idle" /\ frame' = NoFrame /\ ret'.err = "NONE" /\ ret'.op = "open" /\ ret'.slot = n
    BY <1>3, <1>6 DEF Return, Result, Frames
  <2>2. FrameInv'
    BY <2>1, NoFrameFacts DEF FrameInv
  <2>3. InfoInv'
    BY <1>0, <1>1, <1>6, <2>1, InfoQuiet
  <2>4. TakeInv' /\ EntryInv'
    BY <2>1 DEF TakeInv, EntryInv, Marking
  <2>5. AnswersTrue'
    BY <1>1, <1>6, <2>1 DEF AnswersTrue, Quiet
  <2> QED
    BY <1>1, <2>2, <2>3, <2>4, <2>5 DEF CallInv, Quiet
<1> QED
  BY <1>1, <1>4, <1>5, <1>6

LEMMA GrowCall ==
  ASSUME CallInv, NEW n \in Slots, Grow(n)
  PROVE  CallInv'
<1> DEFINE f == Frame("grow", n, 0, View[DirSect][n])
<1>0. StoreInv /\ InfoInv
  BY DEF CallInv
<1>1. /\ Quiet /\ pc = "idle" /\ mounted /\ UNCHANGED <<infoDirty, info, mounted>>
      /\ \/ Harmed /\ Return(f, "IO")
         \/ UNCHANGED harm /\ Return(f, "DENIED")
         \/ UNCHANGED harm /\ View[DirSect][n] # 0 /\ Goto("walk", f)
  BY <1>0, GrowFacts
<1>2. View[DirSect][n] \in Usable \cup {0}
  BY <1>0, DirRead
<1>3. f \in Frames /\ f.op = "grow" /\ f.slot = n /\ f.cur = View[DirSect][n]
  <2>1. View[DirSect][n] \in Usable \cup 0 .. WIDTH - 1
    BY <1>2, NoFrameFacts
  <2> QED
    BY <2>1, NoFrameFacts DEF Frame
<1> HIDE DEF f
<1>4. CASE Return(f, "IO") \/ Return(f, "DENIED")
  BY <1>1, <1>4, EndedQuiet
<1>5. CASE View[DirSect][n] # 0 /\ Goto("walk", f)
  <2>1. pc' = "walk" /\ frame' = f
    BY <1>5 DEF Goto
  <2>2. FrameInv'
    BY <1>2, <1>3, <1>5, <2>1 DEF FrameInv
  <2>3. InfoInv'
    BY <1>0, <1>1, <2>1, InfoQuiet
  <2>4. TakeInv' /\ EntryInv'
    BY <2>1 DEF TakeInv, EntryInv, Marking
  <2> QED
    BY <1>1, <2>1, <2>2, <2>3, <2>4, GoesOn DEF Quiet
<1> QED
  BY <1>1, <1>4, <1>5

LEMMA UnlinkCall ==
  ASSUME CallInv, NEW n \in Slots, Unlink(n)
  PROVE  CallInv'
<1> DEFINE f == Frame("unlink", n, 0, View[DirSect][n])
<1>0. StoreInv /\ InfoInv
  BY DEF CallInv
<1>1. /\ Quiet /\ pc = "idle" /\ mounted /\ UNCHANGED <<info, mounted>>
      /\ \/ Harmed /\ Return(f, "IO") /\ UNCHANGED infoDirty
         \/ UNCHANGED harm /\ (Return(f, "EOF") \/ Return(f, "DENIED")) /\ UNCHANGED infoDirty
         \/ UNCHANGED harm /\ View[DirSect][n] # 0 /\ infoDirty' = TRUE /\ Goto("free", f)
  BY <1>0, UnlinkFacts
<1>2. View[DirSect][n] \in Usable \cup {0}
  BY <1>0, DirRead
<1>3. f \in Frames /\ f.op = "unlink" /\ f.slot = n /\ f.cur = View[DirSect][n]
  <2>1. View[DirSect][n] \in Usable \cup 0 .. WIDTH - 1
    BY <1>2, NoFrameFacts
  <2> QED
    BY <2>1, NoFrameFacts DEF Frame
<1> HIDE DEF f
<1>4. CASE (Return(f, "IO") \/ Return(f, "EOF") \/ Return(f, "DENIED")) /\ UNCHANGED infoDirty
  BY <1>1, <1>4, EndedQuiet
<1>5. CASE View[DirSect][n] # 0 /\ infoDirty' = TRUE /\ Goto("free", f)
  <2>1. pc' = "free" /\ frame' = f
    BY <1>5 DEF Goto
  <2>2. FrameInv'
    BY <1>2, <1>3, <1>5, <2>1 DEF FrameInv
  <2>3. InfoInv'
    BY <1>0, <1>1, <1>5, <2>1, InfoQuiet
  <2>4. TakeInv' /\ EntryInv'
    BY <2>1 DEF TakeInv, EntryInv, Marking
  <2> QED
    BY <1>1, <2>1, <2>2, <2>3, <2>4, GoesOn DEF Quiet
<1> QED
  BY <1>1, <1>4, <1>5

LEMMA WalkCall ==
  ASSUME CallInv, Walk
  PROVE  CallInv'
<1> DEFINE c == frame.cur
           e == FatEntry(View, 0, c)
<1>0. StoreInv /\ InfoInv /\ FrameInv
  BY DEF CallInv
<1>1. pc = "walk" /\ c \in Usable /\ frame \in Frames /\ frame.op = "grow" /\ frame.slot \in Slots
  BY <1>0 DEF Walk, FrameInv
<1>2. /\ Quiet /\ UNCHANGED <<info, mounted>>
      /\ \/ Harmed /\ Return(frame, "IO") /\ UNCHANGED infoDirty
         \/ UNCHANGED harm /\ Return(frame, "BROKEN") /\ UNCHANGED infoDirty
         \/ /\ UNCHANGED harm /\ e \in Usable
            /\ Goto("walk", [frame EXCEPT !.cur = e]) /\ UNCHANGED infoDirty
         \/ /\ UNCHANGED harm /\ e >= EOC /\ infoDirty' = TRUE
            /\ Goto("next", [frame EXCEPT !.prev = c, !.cur = NextClust(c)])
  BY <1>0, <1>1, WalkFacts
<1> HIDE DEF e
<1>3. CASE (Return(frame, "IO") \/ Return(frame, "BROKEN")) /\ UNCHANGED infoDirty
  BY <1>1, <1>2, <1>3, EndedQuiet
<1>4. CASE e \in Usable /\ Goto("walk", [frame EXCEPT !.cur = e]) /\ UNCHANGED infoDirty
  <2>1. pc' = "walk" /\ frame' = [frame EXCEPT !.cur = e]
    BY <1>4 DEF Goto
  <2>2. frame' \in Frames /\ frame'.op = "grow" /\ frame'.slot \in Slots /\ frame'.cur \in Usable
    BY <1>1, <1>4, <2>1 DEF Frames
  <2>3. FrameInv'
    BY <2>1, <2>2 DEF FrameInv
  <2>4. InfoInv'
    BY <1>0, <1>1, <1>2, <1>4, <2>1, InfoQuiet
  <2>5. TakeInv' /\ EntryInv'
    BY <2>1 DEF TakeInv, EntryInv, Marking
  <2> QED
    BY <1>2, <2>1, <2>3, <2>4, <2>5, GoesOn DEF Quiet
<1>5. CASE infoDirty' = TRUE /\ Goto("next", [frame EXCEPT !.prev = c, !.cur = NextClust(c)])
  <2>1. pc' = "next" /\ frame' = [frame EXCEPT !.prev = c, !.cur = NextClust(c)]
    BY <1>5 DEF Goto
  <2>2. /\ frame' \in Frames /\ frame'.op = "grow" /\ frame'.slot \in Slots
        /\ frame'.cur \in Usable /\ frame'.prev \in Usable
    BY <1>1, <2>1, UsableClusts DEF Frames
  <2>3. FrameInv'
    BY <2>1, <2>2 DEF FrameInv
  <2>4. InfoInv'
    BY <1>0, <1>1, <1>2, <1>5, <2>1, InfoQuiet
  <2>5. TakeInv' /\ EntryInv'
    BY <2>1 DEF TakeInv, EntryInv, Marking
  <2> QED
    BY <1>2, <2>1, <2>3, <2>4, <2>5, GoesOn DEF Quiet
<1> QED
  BY <1>2, <1>3, <1>4, <1>5

(* stretch_chain has found a free cluster. *)
LEMMA Taken ==
  ASSUME FrameInv, InfoInv, Quiet, pc \in {"next", "scan"}, UNCHANGED <<info, infoDirty, mounted>>,
         NEW c \in Usable, IsFree(View, c), TakeCluster(c)
  PROVE  CallInv' /\ Marking'
<1>1. /\ frame \in Frames /\ frame.slot \in Slots /\ frame.op \in {"create", "grow"}
      /\ frame.op = "grow" => frame.prev \in Usable
      /\ frame.op = "create" => frame.prev = 0
      /\ frame.prev \in Usable \cup {0}
  BY DEF FrameInv, Frames
<1>2. pc' = "put" /\ frame' = [frame EXCEPT !.cur = c, !.puts = StretchPuts(frame.prev, c)]
  BY DEF TakeCluster, Goto
<1>3. StretchPuts(frame.prev, c) \in MarkPuts(frame.prev, c)
  BY StretchFirst
<1>4. StretchPuts(frame.prev, c) \in Seq(Puts)
  BY <1>1, <1>3, MarkStep
<1>5. /\ frame' \in Frames /\ frame'.op = frame.op /\ frame'.slot = frame.slot
      /\ frame'.prev = frame.prev /\ frame'.cur = c /\ frame'.puts = StretchPuts(frame.prev, c)
  BY <1>1, <1>2, <1>4 DEF Frames
<1>6. Marking'
  BY <1>2, <1>3, <1>5 DEF Marking
<1>7. FrameInv'
  BY <1>1, <1>2, <1>5, <1>6 DEF FrameInv
<1>8. InfoInv'
  BY <1>2, InfoQuiet DEF InfoInv
<1>9. TakeInv' /\ EntryInv'
  BY <1>2, <1>5 DEF TakeInv, EntryInv, Quiet, Marking
<1> QED
  BY <1>2, <1>6, <1>7, <1>8, <1>9, GoesOn DEF Quiet

LEMMA CheckNextCall ==
  ASSUME CallInv, CheckNext
  PROVE  CallInv'
<1>0. StoreInv /\ InfoInv /\ FrameInv
  BY DEF CallInv
<1>1. /\ pc = "next" /\ frame.cur \in Usable /\ frame \in Frames /\ frame.op = "grow"
      /\ frame.slot \in Slots /\ frame.prev \in Usable
  BY <1>0 DEF CheckNext, FrameInv
<1>2. /\ Quiet /\ UNCHANGED <<info, infoDirty, mounted>>
      /\ \/ Return(frame, "IO") \/ Return(frame, "BROKEN")
         \/ IsFree(View, frame.cur) /\ TakeCluster(frame.cur)
         \/ Goto("scan", [frame EXCEPT !.cur = info.last_used])
  BY <1>0, <1>1, CheckNextFacts
<1>3. CASE Return(frame, "IO") \/ Return(frame, "BROKEN")
  BY <1>1, <1>2, <1>3, EndedQuiet
<1>4. CASE IsFree(View, frame.cur) /\ TakeCluster(frame.cur)
  BY <1>0, <1>1, <1>2, <1>4, Taken
<1>5. CASE Goto("scan", [frame EXCEPT !.cur = info.last_used])
  <2>1. pc' = "scan" /\ frame' = [frame EXCEPT !.cur = info.last_used] /\ info.last_used \in 0 .. WIDTH - 1
    BY <1>0, <1>1, <1>5 DEF Goto, InfoInv, Infos
  <2>2. /\ frame' \in Frames /\ frame'.op = "grow" /\ frame'.slot \in Slots
        /\ frame'.cur = info.last_used /\ frame'.prev \in Usable
    BY <1>1, <2>1 DEF Frames
  <2>3. FrameInv'
    BY <2>1, <2>2 DEF FrameInv
  <2>4. InfoInv'
    BY <1>0, <1>1, <1>2, <2>1, InfoQuiet DEF InfoInv
  <2>5. TakeInv' /\ EntryInv'
    <3>1. Scanned(info.last_used, info.last_used)
      BY <2>1 DEF Scanned
    <3> QED
      BY <1>2, <2>1, <2>2, <3>1, ScanTurns DEF TakeInv, EntryInv, Marking
  <2> QED
    BY <1>2, <2>1, <2>3, <2>4, <2>5, GoesOn DEF Quiet
<1> QED
  BY <1>2, <1>3, <1>4, <1>5

LEMMA ScanCall ==
  ASSUME CallInv, Scan
  PROVE  CallInv'
<1> DEFINE c == NextClust(frame.cur)
           l == info.last_used
<1>0. StoreInv /\ InfoInv /\ FrameInv /\ TakeInv
  BY DEF CallInv
<1>1. /\ pc = "scan" /\ frame \in Frames /\ frame.slot \in Slots
      /\ frame.op \in {"create", "grow"}
      /\ frame.op = "grow" => frame.prev \in Usable
      /\ frame.op = "create" => frame.prev = 0
  BY <1>0 DEF Scan, FrameInv
<1>11. Scanned(l, frame.cur) /\ frame.cur \in Nat
  <2>1. Scanned(l, frame.cur)
    BY <1>0, <1>1 DEF TakeInv
  <2> QED
    BY <2>1, VolumeAssumption DEF Scanned
<1>2. /\ Quiet /\ UNCHANGED <<info, infoDirty, mounted>>
      /\ \/ c = l /\ Return(frame, "FULL")
         \/ Return(frame, "STALE")
         \/ frame.prev = 0 /\ \E g \in Garbage : Goto("dir_add", Frame("guess", frame.slot, 0, g))
         \/ IsFree(View, c) /\ TakeCluster(c)
         \/ ~IsFree(View, c) /\ c # l /\ Goto("scan", [frame EXCEPT !.cur = c])
  BY <1>0, <1>1, <1>11, ScanFacts
<1>3. /\ c \in 1 .. CLUST_CNT - 1 /\ c \in 0 .. WIDTH - 1
      /\ IsFree(View, c) => c \in Usable
  <2>1. c \in 1 .. CLUST_CNT - 1
    BY <1>11, ScanClusts
  <2>2. ~IsFree(View, 1)
    BY <1>0, ViewFacts, VolumeFacts
  <2>3. c \in Usable \/ c = 1
    BY <2>1, Layout DEF Usable
  <2>4. c \in 0 .. WIDTH - 1
    BY <2>1, VolumeAssumption
  <2> HIDE DEF c
  <2> QED
    BY <2>1, <2>2, <2>3, <2>4
<1>4. \A b \in Usable : Passed(l, frame.cur, b) => ~IsFree(View, b)
  BY <1>0, <1>1 DEF TakeInv
<1>5. CASE c = l /\ Return(frame, "FULL")
  <2>1. pc' = "idle" /\ frame' = NoFrame /\ ret'.err = "FULL"
    BY <1>5 DEF Return, Result
  <2>2. FrameInv'
    BY <2>1, NoFrameFacts DEF FrameInv
  <2>3. InfoInv'
    BY <1>0, <1>1, <1>2, <2>1, InfoQuiet
  <2>4. TakeInv' /\ EntryInv'
    BY <2>1 DEF TakeInv, EntryInv, Marking
  <2>5. \A b \in Usable : IsFree(View, b) => b = l
    BY <1>4, <1>5, <1>11, ScanTurns
  <2>6. AnswersTrue'
    BY <1>2, <2>1, <2>5 DEF AnswersTrue, Quiet
  <2> QED
    BY <1>2, <2>2, <2>3, <2>4, <2>6 DEF CallInv, Quiet
<1>6. CASE Return(frame, "STALE")
  BY <1>1, <1>2, <1>6, EndedQuiet
<1>7. CASE frame.prev = 0 /\ \E g \in Garbage : Goto("dir_add", Frame("guess", frame.slot, 0, g))
  <2>1. PICK g \in Garbage : Goto("dir_add", Frame("guess", frame.slot, 0, g))
    BY <1>7
  <2>2. pc' = "dir_add" /\ frame' = Frame("guess", frame.slot, 0, g) /\ g \in Usable
    BY <2>1, VolumeAssumption DEF Goto
  <2>4. frame' \in Frames /\ frame'.op = "guess" /\ frame'.slot \in Slots /\ frame'.cur \in Usable
    BY <1>1, <2>2, NoFrameFacts DEF Frame
  <2>5. FrameInv'
    BY <2>2, <2>4 DEF FrameInv
  <2>6. InfoInv'
    BY <1>0, <1>1, <1>2, <2>2, InfoQuiet
  <2>7. TakeInv' /\ EntryInv'
    BY <2>2, <2>4 DEF TakeInv, EntryInv, Marking
  <2> QED
    BY <1>2, <2>2, <2>5, <2>6, <2>7, GoesOn DEF Quiet
<1>8. CASE IsFree(View, c) /\ TakeCluster(c)
  BY <1>0, <1>1, <1>2, <1>3, <1>8, Taken
<1>9. CASE ~IsFree(View, c) /\ c # l /\ Goto("scan", [frame EXCEPT !.cur = c])
  <2>1. pc' = "scan" /\ frame' = [frame EXCEPT !.cur = c]
    BY <1>9 DEF Goto
  <2>2. /\ frame' \in Frames /\ frame'.op = frame.op /\ frame'.slot = frame.slot
        /\ frame'.cur = c /\ frame'.prev = frame.prev
    BY <1>1, <1>3, <2>1 DEF Frames
  <2>3. FrameInv'
    BY <1>1, <1>3, <2>1, <2>2 DEF FrameInv
  <2>4. InfoInv'
    BY <1>0, <1>1, <1>2, <2>1, InfoQuiet DEF InfoInv
  <2>5. \A b \in Usable : Passed(l, c, b) => ~IsFree(View, b)
    BY <1>4, <1>9, <1>11, ScanTurns
  <2>51. Scanned(l, c)
    BY <1>3, <1>11 DEF Scanned
  <2>6. TakeInv' /\ EntryInv'
    BY <1>2, <2>1, <2>2, <2>5, <2>51 DEF TakeInv, EntryInv, Marking, Quiet
  <2> QED
    BY <1>2, <2>1, <2>3, <2>4, <2>6, GoesOn DEF Quiet
<1> QED
  BY <1>2, <1>5, <1>6, <1>7, <1>8, <1>9

(* The link is not mistaken for the mark. *)
LEMMA LinkIsNoMark ==
  ASSUME NEW prev \in Usable \cup {0}, NEW c \in Usable, NEW puts
  PROVE  ~(puts \in LinkPuts(prev, c) /\ puts \in MarkPuts(prev, c))
<1> SUFFICES ASSUME puts \in LinkPuts(prev, c), puts \in MarkPuts(prev, c)
             PROVE  FALSE
  OBVIOUS
<1>1. Head(puts).val = c
  BY LinkStep DEF Put
<1>2. Head(puts).val = EOC
  BY MarkStep DEF Put
<1> QED
  BY <1>1, <1>2, UsableClusts

(* What FSInfo's copy holds after a cluster is taken or given back. *)
LEMMA InfoCount ==
  ASSUME info \in Infos, NEW c \in Usable
  PROVE  /\ [signed |-> info.signed, last_used |-> c, free_cnt |-> (info.free_cnt + WIDTH - 1) % WIDTH] \in Infos
         /\ [info EXCEPT !.free_cnt = (info.free_cnt + 1) % WIDTH] \in Infos
<1> DEFINE x == info.free_cnt
           y == (x + WIDTH - 1) % WIDTH
           z == (x + 1) % WIDTH
<1>1. /\ WIDTH \in Nat /\ WIDTH > 0 /\ x \in 0 .. WIDTH - 1
      /\ info.signed \in BOOLEAN /\ c \in 0 .. WIDTH - 1
  BY VolumeAssumption DEF Infos, Usable
<1>2. x + WIDTH - 1 \in Nat /\ x + 1 \in Nat
  BY <1>1
<1>3. y \in 0 .. WIDTH - 1 /\ z \in 0 .. WIDTH - 1
  BY <1>1, <1>2, Division
<1> HIDE DEF x, y, z
<1>4. [signed |-> info.signed, last_used |-> c, free_cnt |-> y] \in Infos
  BY <1>1, <1>3 DEF Infos
<1>5. [info EXCEPT !.free_cnt = z] \in Infos
  BY <1>3 DEF Infos
<1> QED
  BY <1>4, <1>5 DEF x, y, z

(* FSInfo's copy is worth as much after an entry of the FAT is set. *)
LEMMA InfoPut ==
  ASSUME InfoInv, NEW p, PutDone(p), pc \in {"put", "unput"}, info' \in Infos,
         UNCHANGED <<infoDirty, mounted>>, pc' \notin {"info", "info_end"}
  PROVE  InfoInv'
BY DEF InfoInv, PutDone

LEMMA PutStretchCall ==
  ASSUME CallInv, PutStretch
  PROVE  CallInv'
<1> DEFINE c == frame.cur
           prev == frame.prev
           puts == frame.puts
           p == Head(frame.puts)
<1>0. StoreInv /\ InfoInv /\ FrameInv /\ TakeInv
  BY DEF CallInv
<1>1. /\ pc = "put" /\ c \in Usable /\ frame \in Frames /\ frame.slot \in Slots
      /\ frame.op \in {"create", "grow"} /\ prev \in Usable \cup {0}
      /\ frame.op = "grow" => prev \in Usable
      /\ frame.op = "create" => prev = 0
      /\ puts \in MarkPuts(prev, c) \/ puts \in LinkPuts(prev, c)
  BY <1>0 DEF PutStretch, FrameInv, Frames, Marking, Linking
<1>2. puts \in Seq(Puts) /\ puts # <<>>
  <2>1. puts \in Seq(Puts) /\ Len(puts) # 0
    <3>1. CASE puts \in MarkPuts(prev, c)
      BY <1>1, <3>1, MarkStep
    <3>2. CASE puts \in LinkPuts(prev, c)
      BY <1>1, <3>2, LinkStep
    <3> QED
      BY <1>1, <3>1, <3>2
  <2> QED
    BY <2>1
<1>3. info \in Infos /\ infoDirty
  BY <1>0, <1>1 DEF InfoInv
<1>4. /\ UNCHANGED <<infoDirty, mounted>>
      /\ \/ Quiet /\ Return(frame, "IO") /\ UNCHANGED info
         \/ /\ PutDone(p) /\ Len(puts) > 1
            /\ Goto("put", [frame EXCEPT !.puts = Tail(puts)]) /\ UNCHANGED info
         \/ /\ PutDone(p) /\ Len(puts) = 1
            /\ info' = [signed |-> info.signed, last_used |-> c, free_cnt |-> (info.free_cnt + WIDTH - 1) % WIDTH]
            /\ Goto("sync", [frame EXCEPT !.puts = <<>>])
  BY <1>0, <1>2, PutStretchFacts
<1>5. CASE Quiet /\ Return(frame, "IO") /\ UNCHANGED info
  BY <1>1, <1>4, <1>5, EndedQuiet
<1>6. CASE /\ PutDone(p) /\ Len(puts) > 1
           /\ Goto("put", [frame EXCEPT !.puts = Tail(puts)]) /\ UNCHANGED info
  <2>1. pc' = "put" /\ frame' = [frame EXCEPT !.puts = Tail(puts)]
    BY <1>6 DEF Goto
  <2>2. Tail(puts) \in Seq(Puts)
    BY <1>2, HeadTailProperties
  <2>3. /\ frame' \in Frames /\ frame'.op = frame.op /\ frame'.slot = frame.slot
        /\ frame'.cur = c /\ frame'.prev = prev /\ frame'.puts = Tail(puts)
    BY <1>1, <2>1, <2>2 DEF Frames
  <2>4. \/ /\ p = Put(1, c, EOC) /\ puts \in MarkPuts(prev, c) /\ Tail(puts) \in MarkPuts(prev, c)
        \/ Tail(puts) \in LinkPuts(prev, c)
    <3>1. CASE puts \in MarkPuts(prev, c)
      BY <1>1, <1>6, <3>1, MarkStep
    <3>2. CASE puts \in LinkPuts(prev, c)
      <4>1. c \in Usable /\ prev \in Usable \cup {0} /\ Len(puts) > 1
        BY <1>1, <1>6
      <4> HIDE DEF c, prev, puts, p
      <4> QED
        BY <3>2, <4>1, LinkStep
    <3> QED
      BY <1>1, <3>1, <3>2
  <2>5. Marking' \/ Linking'
    BY <2>1, <2>3, <2>4 DEF Marking, Linking
  <2>6. FrameInv'
    BY <1>1, <2>1, <2>3, <2>5 DEF FrameInv
  <2>7. InfoInv'
    BY <1>0, <1>1, <1>3, <1>4, <1>6, <2>1, InfoPut
  <2>8. Marking' => IsFree(View', c)
    <3>1. SUFFICES ASSUME Marking' PROVE FatEntry(View', 0, c) = FREE
      BY DEF IsFree
    <3>2. Tail(puts) \in MarkPuts(prev, c)
      BY <2>3, <3>1 DEF Marking
    <3>3. p = Put(1, c, EOC) /\ puts \in MarkPuts(prev, c)
      BY <1>1, <2>4, <3>2, LinkIsNoMark
    <3>4. IsFree(View, c)
      BY <1>0, <1>1, <3>3 DEF TakeInv, Marking
    <3>5. p.table = 1
      BY <3>3 DEF Put
    <3>6. FatEntry(View', 0, c) = FatEntry(View, 0, c)
      BY <1>1, <1>6, <3>5, UsableClusts DEF PutDone
    <3> QED
      BY <3>4, <3>6 DEF IsFree
  <2>9. TakeInv' /\ EntryInv'
    BY <2>1, <2>3, <2>8 DEF TakeInv, EntryInv
  <2> QED
    BY <1>6, <2>1, <2>6, <2>7, <2>9, GoesOn DEF PutDone
<1>7. CASE /\ PutDone(p) /\ Len(puts) = 1
           /\ info' = [signed |-> info.signed, last_used |-> c, free_cnt |-> (info.free_cnt + WIDTH - 1) % WIDTH]
           /\ Goto("sync", [frame EXCEPT !.puts = <<>>])
  <2>1. pc' = "sync" /\ frame' = [frame EXCEPT !.puts = <<>>]
    BY <1>7 DEF Goto
  <2>2. <<>> \in Seq(Puts)
    OBVIOUS
  <2>3. /\ frame' \in Frames /\ frame'.op = frame.op /\ frame'.slot = frame.slot /\ frame'.cur = c
    BY <1>1, <2>1, <2>2 DEF Frames
  <2>4. FrameInv'
    BY <1>1, <2>1, <2>3 DEF FrameInv
  <2>5. info' \in Infos
    BY <1>1, <1>3, <1>7, InfoCount
  <2>6. InfoInv'
    BY <1>0, <1>1, <1>4, <1>7, <2>1, <2>5, InfoPut
  <2>61. frame.op = "create" => ~IsFree(View', c)
    <3> SUFFICES ASSUME prev = 0 PROVE FatEntry(View', 0, c) # FREE
      BY <1>1 DEF IsFree
    <3>1. puts \in MarkPuts(prev, c)
      BY <1>1, LinkStep, UsableClusts
    <3>2. p = Put(0, c, EOC)
      <4>1. c \in Usable /\ prev \in Usable \cup {0} /\ Len(puts) = 1 /\ p = Head(puts)
        BY <1>1, <1>7
      <4> HIDE DEF c, prev, puts, p
      <4> QED
        BY <3>1, <4>1, MarkStep
    <3>3. FatEntry(View', 0, c) = EOC
      BY <1>1, <1>7, <3>2, UsableClusts DEF PutDone, Put
    <3> QED
      BY <3>3, UsableClusts
  <2>7. TakeInv' /\ EntryInv'
    BY <2>1, <2>3, <2>61 DEF TakeInv, EntryInv, Marking
  <2> QED
    BY <1>7, <2>1, <2>4, <2>6, <2>7, GoesOn DEF PutDone
<1> QED
  BY <1>4, <1>5, <1>6, <1>7

LEMMA FreeNextCall ==
  ASSUME CallInv, FreeNext
  PROVE  CallInv'
<1> DEFINE c == frame.cur
           e == FatEntry(View, 0, c)
<1>0. StoreInv /\ InfoInv /\ FrameInv
  BY DEF CallInv
<1>1. pc = "free" /\ c \in Usable /\ frame \in Frames /\ frame.op = "unlink" /\ frame.slot \in Slots
  BY <1>0 DEF FreeNext, FrameInv
<1>2. /\ Quiet /\ UNCHANGED <<info, infoDirty, mounted>>
      /\ \/ Return(frame, "IO") \/ Return(frame, "BROKEN")
         \/ /\ e \in Nat /\ (e \in Usable \/ e >= EOC)
            /\ Goto("unput", [frame EXCEPT !.next = e, !.puts = put_fat(c, FREE)])
  BY <1>0, <1>1, FreeNextFacts
<1> HIDE DEF e
<1>3. CASE Return(frame, "IO") \/ Return(frame, "BROKEN")
  BY <1>1, <1>2, <1>3, EndedQuiet
<1>4. CASE /\ e \in Nat /\ (e \in Usable \/ e >= EOC)
           /\ Goto("unput", [frame EXCEPT !.next = e, !.puts = put_fat(c, FREE)])
  <2>1. pc' = "unput" /\ frame' = [frame EXCEPT !.next = e, !.puts = put_fat(c, FREE)]
    BY <1>4 DEF Goto
  <2>2. put_fat(c, FREE) \in FreePuts(c) /\ put_fat(c, FREE) \in Seq(Puts)
    BY <1>1, FreeFirst, FreeStep
  <2>3. /\ frame' \in Frames /\ frame'.op = "unlink" /\ frame'.slot \in Slots /\ frame'.cur = c
        /\ frame'.next = e /\ frame'.puts = put_fat(c, FREE)
    BY <1>1, <1>4, <2>1, <2>2 DEF Frames
  <2>4. FrameInv'
    BY <1>1, <1>4, <2>1, <2>2, <2>3 DEF FrameInv
  <2>5. InfoInv'
    BY <1>0, <1>1, <1>2, <2>1, InfoQuiet DEF InfoInv
  <2>6. TakeInv' /\ EntryInv'
    BY <2>1 DEF TakeInv, EntryInv, Marking
  <2> QED
    BY <1>2, <2>1, <2>4, <2>5, <2>6, GoesOn DEF Quiet
<1> QED
  BY <1>2, <1>3, <1>4

LEMMA PutFreeCall ==
  ASSUME CallInv, PutFree
  PROVE  CallInv'
<1> DEFINE c == frame.cur
           puts == frame.puts
           p == Head(frame.puts)
<1>0. StoreInv /\ InfoInv /\ FrameInv
  BY DEF CallInv
<1>1. /\ pc = "unput" /\ c \in Usable /\ frame \in Frames /\ frame.slot \in Slots
      /\ frame.op = "unlink" /\ puts \in FreePuts(c)
      /\ frame.next \in Usable \/ frame.next >= EOC
  BY <1>0 DEF PutFree, FrameInv
<1>2. puts \in Seq(Puts) /\ puts # <<>>
  BY <1>1, FreeStep
<1>3. info \in Infos /\ infoDirty
  BY <1>0, <1>1 DEF InfoInv
<1>4. /\ UNCHANGED <<infoDirty, mounted>>
      /\ \/ Quiet /\ Return(frame, "IO") /\ UNCHANGED info
         \/ /\ PutDone(p) /\ Len(puts) > 1
            /\ Goto("unput", [frame EXCEPT !.puts = Tail(puts)]) /\ UNCHANGED info
         \/ /\ PutDone(p)
            /\ info' = [info EXCEPT !.free_cnt = (info.free_cnt + 1) % WIDTH]
            /\ \/ Goto("sync", [frame EXCEPT !.cur = 0, !.next = 0, !.puts = <<>>])
               \/ /\ ~(frame.next >= EOC)
                  /\ Goto("free", [frame EXCEPT !.cur = frame.next, !.next = 0, !.puts = <<>>])
  BY <1>0, <1>2, PutFreeFacts
<1>5. CASE Quiet /\ Return(frame, "IO") /\ UNCHANGED info
  BY <1>1, <1>4, <1>5, EndedQuiet
<1>6. CASE /\ PutDone(p) /\ Len(puts) > 1
           /\ Goto("unput", [frame EXCEPT !.puts = Tail(puts)]) /\ UNCHANGED info
  <2>1. pc' = "unput" /\ frame' = [frame EXCEPT !.puts = Tail(puts)]
    BY <1>6 DEF Goto
  <2>2. Tail(puts) \in Seq(Puts) /\ Tail(puts) \in FreePuts(c)
    <3>1. Tail(puts) \in Seq(Puts)
      BY <1>2, HeadTailProperties
    <3>2. c \in Usable /\ puts \in FreePuts(c) /\ Len(puts) # 1
      <4> DEFINE n == Len(puts)
      <4>1. n > 1 /\ n \in Nat
        BY <1>2, <1>6
      <4> HIDE DEF n
      <4>2. n # 1
        BY <4>1
      <4>3. c \in Usable /\ puts \in FreePuts(c)
        BY <1>1
      <4> QED
        BY <4>2, <4>3 DEF n
    <3>3. Tail(puts) \in FreePuts(c)
      <4> HIDE DEF c, puts
      <4> QED
        BY <3>2, FreeStep
    <3> QED
      BY <3>1, <3>3
  <2>3. /\ frame' \in Frames /\ frame'.op = "unlink" /\ frame'.slot = frame.slot
        /\ frame'.cur = c /\ frame'.next = frame.next /\ frame'.puts = Tail(puts)
    BY <1>1, <2>1, <2>2 DEF Frames
  <2>4. FrameInv'
    BY <1>1, <2>1, <2>2, <2>3 DEF FrameInv
  <2>5. InfoInv'
    BY <1>0, <1>1, <1>3, <1>4, <1>6, <2>1, InfoPut
  <2>6. TakeInv' /\ EntryInv'
    BY <2>1 DEF TakeInv, EntryInv, Marking
  <2> QED
    BY <1>6, <2>1, <2>4, <2>5, <2>6, GoesOn DEF PutDone
<1>7. CASE /\ PutDone(p)
           /\ info' = [info EXCEPT !.free_cnt = (info.free_cnt + 1) % WIDTH]
           /\ Goto("sync", [frame EXCEPT !.cur = 0, !.next = 0, !.puts = <<>>])
  <2>1. pc' = "sync" /\ frame' = [frame EXCEPT !.cur = 0, !.next = 0, !.puts = <<>>]
    BY <1>7 DEF Goto
  <2>2. <<>> \in Seq(Puts) /\ 0 \in Nat /\ 0 \in 0 .. WIDTH - 1
    BY NoFrameFacts
  <2>3. frame' \in Frames /\ frame'.op = "unlink" /\ frame'.slot \in Slots
    BY <1>1, <2>1, <2>2 DEF Frames
  <2>4. FrameInv'
    BY <2>1, <2>3 DEF FrameInv
  <2>5. info' \in Infos
    BY <1>1, <1>3, <1>7, InfoCount
  <2>6. InfoInv'
    BY <1>0, <1>1, <1>4, <1>7, <2>1, <2>5, InfoPut
  <2>7. TakeInv' /\ EntryInv'
    BY <2>1, <2>3 DEF TakeInv, EntryInv, Marking
  <2> QED
    BY <1>7, <2>1, <2>4, <2>6, <2>7, GoesOn DEF PutDone
<1>8. CASE /\ PutDone(p)
           /\ info' = [info EXCEPT !.free_cnt = (info.free_cnt + 1) % WIDTH]
           /\ ~(frame.next >= EOC)
           /\ Goto("free", [frame EXCEPT !.cur = frame.next, !.next = 0, !.puts = <<>>])
  <2>1. pc' = "free" /\ frame' = [frame EXCEPT !.cur = frame.next, !.next = 0, !.puts = <<>>]
    BY <1>8 DEF Goto
  <2>2. <<>> \in Seq(Puts) /\ 0 \in Nat /\ frame.next \in Usable
    BY <1>1, <1>8
  <2>3. frame' \in Frames /\ frame'.op = "unlink" /\ frame'.slot \in Slots /\ frame'.cur \in Usable
    BY <1>1, <2>1, <2>2 DEF Frames
  <2>4. FrameInv'
    BY <2>1, <2>3 DEF FrameInv
  <2>5. info' \in Infos
    BY <1>1, <1>3, <1>8, InfoCount
  <2>6. InfoInv'
    BY <1>0, <1>1, <1>4, <1>8, <2>1, <2>5, InfoPut
  <2>7. TakeInv' /\ EntryInv'
    BY <2>1 DEF TakeInv, EntryInv, Marking
  <2> QED
    BY <1>8, <2>1, <2>4, <2>6, <2>7, GoesOn DEF PutDone
<1> QED
  BY <1>4, <1>5, <1>6, <1>7, <1>8

(* sync_fs is done: the volume is on disk. *)
LEMMA SyncedCall ==
  ASSUME CallInv, pc \in {"sync", "sync_end", "info", "info_end"},
         Quiet, disk' = View, info \in {View[InfoSect], ReadInfo(View[InfoSect])},
         infoDirty' \in BOOLEAN,
         UNCHANGED <<info, mounted>>, Synced
  PROVE  CallInv'
<1>0. StoreInv /\ InfoInv /\ FrameInv /\ EntryInv /\ TakeInv
  BY DEF CallInv
<1>1. /\ frame \in Frames /\ info \in Infos /\ mounted \in BOOLEAN
      /\ frame.op \in {"create", "grow", "unlink"} => frame.slot \in Slots
      /\ pc \in {"sync_end", "info_end"} => frame.op \in {"unlink", "sync", "umount"}
  BY <1>0 DEF FrameInv, InfoInv
<1>2. StoreInv' /\ View' = View
  BY DEF Quiet
<1>3. ASSUME pc' \in {"idle", "dir_add", "rm_entry"} PROVE InfoInv'
  BY <1>1, <1>2, <1>3 DEF InfoInv
<1>4. ASSUME pc' \in {"idle", "rm_entry"} PROVE TakeInv' /\ EntryInv'
  BY <1>4 DEF TakeInv, EntryInv, Marking
<1>5. CASE pc \in {"sync", "info"} /\ frame.op = "create" /\ Goto("dir_add", frame)
  <2>1. pc' = "dir_add" /\ frame' = frame
    BY <1>5 DEF Goto
  <2>2. frame.cur \in Usable
    BY <1>0, <1>5 DEF FrameInv
  <2>3. FrameInv'
    BY <1>1, <1>5, <2>1, <2>2 DEF FrameInv
  <2>4. TakeInv' /\ EntryInv'
    BY <1>0, <1>2, <1>5, <2>1 DEF TakeInv, EntryInv, Marking
  <2> QED
    BY <1>2, <1>3, <2>1, <2>3, <2>4, GoesOn
<1>6. CASE pc \in {"sync", "info"} /\ frame.op = "unlink" /\ Goto("rm_entry", frame)
  <2>1. pc' = "rm_entry" /\ frame' = frame
    BY <1>6 DEF Goto
  <2>2. FrameInv'
    BY <1>1, <1>6, <2>1 DEF FrameInv
  <2> QED
    BY <1>2, <1>3, <1>4, <2>1, <2>2, GoesOn
<1>7. CASE /\ \/ pc \in {"sync", "info"} /\ frame.op = "grow"
              \/ pc \in {"sync_end", "info_end"}
           /\ Return(frame, "NONE")
  <2>1. pc' = "idle" /\ frame' = NoFrame /\ ret' = Result(frame, "NONE")
    BY <1>7 DEF Return
  <2>2. ret'.err = "NONE" /\ ret'.op = frame.op /\ ret'.slot = frame.slot
    BY <2>1 DEF Result
  <2>3. FrameInv'
    BY <2>1, NoFrameFacts DEF FrameInv
  <2>4. frame.op = "unlink" => disk'[DirSect][frame.slot] = 0
    BY <1>0, <1>7 DEF EntryInv
  <2>5. frame.op \notin {"create", "open"}
    BY <1>1, <1>7
  <2>6. AnswersTrue'
    <3>1. disk' = View' /\ info' \in {disk'[InfoSect], ReadInfo(disk'[InfoSect])}
      BY <1>2
    <3> QED
      BY <2>1, <2>2, <2>4, <2>5, <3>1 DEF AnswersTrue
  <2> QED
    BY <1>2, <1>3, <1>4, <2>1, <2>3, <2>6 DEF CallInv
<1> QED
  BY <1>5, <1>6, <1>7 DEF Synced

LEMMA SyncFsCall ==
  ASSUME CallInv, SyncFs
  PROVE  CallInv'
<1>0. StoreInv /\ InfoInv /\ FrameInv /\ EntryInv /\ TakeInv
  BY DEF CallInv
<1>1. /\ pc \in {"sync", "sync_end"} /\ info \in Infos /\ frame \in Frames
      /\ frame.op \in {"create", "grow", "unlink"} => frame.slot \in Slots
      /\ infoDirty \in BOOLEAN /\ mounted \in BOOLEAN
  BY <1>0 DEF SyncFs, FrameInv, InfoInv
<1>2. /\ UNCHANGED <<info, infoDirty, mounted>>
      /\ \/ Quiet /\ Return(frame, "IO")
         \/ Quiet /\ disk' = View /\ ~infoDirty /\ Synced
         \/ /\ StoreInv' /\ View' = [View EXCEPT ![InfoSect] = info] /\ infoDirty
            /\ sect' = InfoSect /\ bufDirty' = TRUE /\ buf' = info
            /\ Goto(IF pc = "sync" THEN "info" ELSE "info_end", frame)
  BY <1>0, <1>1, SyncFsFacts
<1>3. CASE Quiet /\ Return(frame, "IO")
  BY <1>1, <1>2, <1>3, EndedQuiet
<1>4. CASE Quiet /\ disk' = View /\ ~infoDirty /\ Synced
  <2>1. info \in {View[InfoSect], ReadInfo(View[InfoSect])}
    BY <1>0, <1>1, <1>4 DEF InfoInv
  <2> QED
    BY <1>1, <1>2, <1>4, <2>1, SyncedCall
<1>5. CASE /\ StoreInv' /\ View' = [View EXCEPT ![InfoSect] = info] /\ infoDirty
           /\ sect' = InfoSect /\ bufDirty' = TRUE /\ buf' = info
           /\ Goto(IF pc = "sync" THEN "info" ELSE "info_end", frame)
  <2>1. frame' = frame /\ pc' \in {"info", "info_end"} /\ (pc' = "info" <=> pc = "sync")
    BY <1>5 DEF Goto
  <2>2. FrameInv'
    BY <1>0, <1>1, <2>1 DEF FrameInv
  <2>3. InfoInv'
    BY <1>1, <1>2, <1>5, <2>1 DEF InfoInv
  <2>4. View'[DirSect] = View[DirSect]
    BY <1>0, <1>5, ViewFacts, VolumeFacts, SpecialSectors
  <2>41. frame.op = "create" /\ pc = "sync" => ~IsFree(View', frame.cur)
    <3> SUFFICES ASSUME frame.op = "create", pc = "sync" PROVE ~IsFree(View', frame.cur)
      OBVIOUS
    <3>1. frame.cur \in AllClusts /\ ~IsFree(View, frame.cur)
      BY <1>0, UsableClusts DEF FrameInv, TakeInv
    <3>2. Volume(View) /\ info \in Kind(InfoSect)
      BY <1>0, <1>1, ViewFacts DEF Kind
    <3>3. FatEntry(View', 0, frame.cur) = FatEntry(View, 0, frame.cur)
      BY <1>5, <3>1, <3>2, OtherWritten
    <3> QED
      BY <3>1, <3>3 DEF IsFree
  <2>5. TakeInv' /\ EntryInv'
    BY <1>0, <1>1, <2>1, <2>4, <2>41 DEF TakeInv, EntryInv, Marking
  <2> QED
    BY <1>5, <2>1, <2>2, <2>3, <2>5, GoesOn
<1> QED
  BY <1>2, <1>3, <1>4, <1>5

LEMMA WriteInfoCall ==
  ASSUME CallInv, WriteInfo
  PROVE  CallInv'
<1>0. StoreInv /\ InfoInv
  BY DEF CallInv
<1>1. /\ pc \in {"info", "info_end"} /\ UNCHANGED <<info, mounted>> /\ Quiet
      /\ \/ Return(frame, "IO") /\ UNCHANGED infoDirty
         \/ disk' = View /\ infoDirty' = FALSE /\ Synced
  BY <1>0, WriteInfoFacts, Zenon
<1>2. CASE Return(frame, "IO") /\ UNCHANGED infoDirty
  BY <1>1, <1>2, EndedQuiet
<1>3. CASE disk' = View /\ infoDirty' = FALSE /\ Synced
  <2>1. sect = InfoSect /\ buf = info
    BY <1>0, <1>1 DEF InfoInv
  <2>2. Loaded(InfoSect) = View[InfoSect]
    BY <1>0, ViewFacts, SpecialSectors
  <2>3. View[InfoSect] = info
    BY <2>1, <2>2 DEF Loaded
  <2> QED
    BY <1>1, <1>3, <2>3, SyncedCall
<1> QED
  BY <1>1, <1>2, <1>3, Zenon

LEMMA DirAddCall ==
  ASSUME CallInv, DirAdd
  PROVE  CallInv'
<1>0. StoreInv /\ InfoInv /\ FrameInv /\ TakeInv
  BY DEF CallInv
<1>1. pc = "dir_add" /\ frame.op \in {"create", "guess"} /\ frame.slot \in Slots /\ frame.cur \in Usable
  BY <1>0 DEF DirAdd, FrameInv
<1>2. /\ UNCHANGED <<info, infoDirty, mounted>>
      /\ \/ Quiet /\ Return(frame, "IO")
         \/ DirSet(frame.slot, frame.cur) /\ Return(frame, "NONE")
  BY <1>0, <1>1, DirAddFacts
<1>3. CASE Quiet /\ Return(frame, "IO")
  BY <1>1, <1>2, <1>3, EndedQuiet
<1>4. CASE DirSet(frame.slot, frame.cur) /\ Return(frame, "NONE")
  <2>1. pc' = "idle" /\ frame' = NoFrame /\ ret' = Result(frame, "NONE")
    BY <1>4 DEF Return
  <2>2. ret'.err = "NONE" /\ ret'.op = frame.op /\ ret'.slot = frame.slot
    BY <1>1, <2>1 DEF Result
  <2>3. FrameInv'
    BY <2>1, NoFrameFacts DEF FrameInv
  <2>4. InfoInv'
    BY <1>0, <1>1, <1>2, <1>4, <2>1 DEF InfoInv, DirSet
  <2>5. TakeInv' /\ EntryInv'
    BY <2>1 DEF TakeInv, EntryInv, Marking
  <2>6. View'[DirSect][frame.slot] = frame.cur
    BY <1>0, <1>1, <1>4, DirRead DEF DirSet, Dirs
  <2>61. frame.op = "create" => ~IsFree(View', frame.cur)
    BY <1>0, <1>1, <1>4, UsableClusts DEF TakeInv, DirSet, IsFree
  <2>7. AnswersTrue'
    BY <1>1, <2>1, <2>2, <2>6, <2>61, UsableClusts DEF AnswersTrue
  <2> QED
    BY <1>4, <2>3, <2>4, <2>5, <2>7 DEF CallInv, DirSet
<1> QED
  BY <1>2, <1>3, <1>4

LEMMA RemoveEntriesCall ==
  ASSUME CallInv, RemoveEntries
  PROVE  CallInv'
<1>0. StoreInv /\ InfoInv /\ FrameInv
  BY DEF CallInv
<1>1. pc = "rm_entry" /\ frame.op = "unlink" /\ frame.slot \in Slots /\ frame \in Frames
  BY <1>0 DEF RemoveEntries, FrameInv
<1>2. /\ UNCHANGED <<info, infoDirty, mounted>>
      /\ \/ Quiet /\ Return(frame, "IO")
         \/ DirSet(frame.slot, 0) /\ Goto("sync_end", frame)
  BY <1>0, <1>1, RemoveEntriesFacts
<1>3. CASE Quiet /\ Return(frame, "IO")
  BY <1>1, <1>2, <1>3, EndedQuiet
<1>4. CASE DirSet(frame.slot, 0) /\ Goto("sync_end", frame)
  <2>1. pc' = "sync_end" /\ frame' = frame
    BY <1>4 DEF Goto
  <2>2. FrameInv'
    BY <1>1, <2>1 DEF FrameInv
  <2>3. InfoInv'
    BY <1>0, <1>1, <1>2, <1>4, <2>1 DEF InfoInv, DirSet
  <2>4. View'[DirSect][frame.slot] = 0
    BY <1>0, <1>1, <1>4, DirRead DEF DirSet, Dirs
  <2>5. TakeInv' /\ EntryInv'
    BY <2>1, <2>4 DEF TakeInv, EntryInv, Marking
  <2> QED
    BY <1>4, <2>1, <2>2, <2>3, <2>5, GoesOn DEF DirSet
<1> QED
  BY <1>2, <1>3, <1>4

LEMMA SyncBegins ==
  ASSUME CallInv, FatSync \/ FatUmount
  PROVE  CallInv'
<1>0. StoreInv /\ InfoInv
  BY DEF CallInv
<1>1. PICK op \in {"sync", "umount"} : Goto("sync_end", Frame(op, "none", 0, 0))
  BY DEF FatSync, FatUmount
<1>2. /\ mounted /\ mounted' \in {mounted, FALSE} /\ UNCHANGED bufVars
  BY DEF FatSync, FatUmount
<1>3. pc' = "sync_end" /\ frame' = Frame(op, "none", 0, 0)
  BY <1>1 DEF Goto
<1>4. Quiet
  BY <1>0, <1>2 DEF Quiet, StoreInv, View, Flushed, bufVars
<1>5. frame' \in Frames /\ frame'.op = op
  BY <1>3, NoFrameFacts DEF Frame
<1>6. FrameInv'
  BY <1>3, <1>5 DEF FrameInv
<1>7. InfoInv'
  BY <1>0, <1>2, <1>3, <1>4, InfoQuiet DEF bufVars
<1>8. TakeInv' /\ EntryInv'
  BY <1>3, <1>5 DEF TakeInv, EntryInv, Marking
<1> QED
  BY <1>3, <1>4, <1>6, <1>7, <1>8, GoesOn DEF Quiet

LEMMA MountCall ==
  ASSUME CallInv, Mount
  PROVE  CallInv'
<1> DEFINE f == Frame("mount", "none", 0, 0)
<1>0. StoreInv /\ InfoInv /\ FrameInv
  BY DEF CallInv
<1>1. /\ pc = "idle" /\ ~mounted /\ UNCHANGED <<pc, frame>>
      /\ \/ UNCHANGED <<bufVars, mounted>> /\ ret' = Result(f, "IO")
         \/ /\ StoreInv' /\ View' = disk
            /\ info' = ReadInfo(disk[InfoSect]) /\ info' \in Infos
            /\ infoDirty' = FALSE /\ mounted' = TRUE /\ ret' = Result(f, "NONE")
  BY <1>0, MountFacts
<1>2. FrameInv'
  BY <1>0, <1>1 DEF FrameInv
<1>3. TakeInv' /\ EntryInv'
  BY <1>1 DEF TakeInv, EntryInv, Marking
<1>4. /\ Result(f, "IO").err = "IO"
      /\ Result(f, "NONE").err = "NONE" /\ Result(f, "NONE").op = "mount"
  BY DEF Frame, Result
<1> HIDE DEF f
<1>5. AnswersTrue'
  BY <1>1, <1>4 DEF AnswersTrue
<1>6. CASE UNCHANGED <<bufVars, mounted>>
  <2>1. StoreInv' /\ View' = View
    BY <1>0, <1>6 DEF StoreInv, View, Flushed, bufVars
  <2>2. InfoInv'
    BY <1>0, <1>1, <1>6, <2>1 DEF InfoInv, bufVars
  <2> QED
    BY <1>2, <1>3, <1>5, <2>1, <2>2 DEF CallInv
<1>7. CASE /\ StoreInv' /\ View' = disk /\ info' = ReadInfo(disk[InfoSect]) /\ info' \in Infos
           /\ infoDirty' = FALSE /\ mounted' = TRUE
  <2>1. InfoInv'
    BY <1>1, <1>7 DEF InfoInv
  <2> QED
    BY <1>2, <1>3, <1>5, <1>7, <2>1 DEF CallInv
<1> QED
  BY <1>1, <1>6, <1>7

LEMMA CrashCall ==
  ASSUME CallInv, Crash
  PROVE  CallInv'
<1>1. /\ StoreInv' /\ infoDirty' = FALSE /\ mounted' = FALSE
      /\ pc' = "idle" /\ frame' = NoFrame /\ ret' = Result(NoFrame, "NONE")
  BY CrashFacts DEF CallInv
<1>2. FrameInv'
  BY <1>1, NoFrameFacts DEF FrameInv
<1>3. InfoInv' /\ TakeInv' /\ EntryInv'
  BY <1>1 DEF InfoInv, TakeInv, EntryInv, Marking
<1>4. ret'.op = "none" /\ ret'.err = "NONE"
  BY <1>1, NoFrameFacts DEF Result
<1>5. AnswersTrue'
  BY <1>1, <1>4 DEF AnswersTrue
<1> QED
  BY <1>1, <1>2, <1>3, <1>5 DEF CallInv

LEMMA NextCall == CallInv /\ [Next]_vars => CallInv'
<1> SUFFICES ASSUME CallInv, [Next]_vars PROVE CallInv'
  OBVIOUS
<1>1. ASSUME NEW n \in Slots, Create(n) \/ Grow(n) \/ Unlink(n) PROVE CallInv'
  BY <1>1, CreateCall, GrowCall, UnlinkCall
<1>2. CASE Step
  BY <1>2, WalkCall, CheckNextCall, ScanCall, PutStretchCall, FreeNextCall, PutFreeCall,
     SyncFsCall, WriteInfoCall, DirAddCall, RemoveEntriesCall DEF Step
<1>3. CASE FatSync \/ FatUmount \/ Mount \/ Crash
  BY <1>3, SyncBegins, MountCall, CrashCall
<1>4. CASE UNCHANGED vars
  <2>1. StoreInv' /\ View' = View
    BY <1>4 DEF CallInv, StoreInv, View, Flushed, vars, bufVars
  <2>2. FrameInv' /\ InfoInv' /\ TakeInv' /\ EntryInv' /\ AnswersTrue'
    BY <1>4, <2>1 DEF CallInv, FrameInv, InfoInv, TakeInv, EntryInv, AnswersTrue, Marking, Linking, vars, bufVars
  <2> QED
    BY <2>1, <2>2 DEF CallInv
<1> QED
  BY <1>1, <1>2, <1>3, <1>4 DEF Next

(* The volume as it comes. *)
LEMMA InitVolume ==
  ASSUME Init
  PROVE  /\ StoreInv /\ View = disk /\ ~mounted /\ ~infoDirty /\ pc = "idle" /\ frame = NoFrame
         /\ off \in 0 .. WIDTH - 1
         /\ \A n \in Slots : disk[DirSect][n] = 0
         /\ \E root \in Usable :
              /\ disk[InfoSect].free_cnt = (CLUST_CNT + 1 - root + off) % WIDTH
              /\ \A t \in {0, 1}, c \in AllClusts : FatEntry(disk, t, c) = FirstEntry(root, c)
<1> DEFINE First(f) == [signed |-> f.signed, last_used |-> f.hint,
                        free_cnt |-> (CLUST_CNT + 1 - f.root + f.off) % WIDTH]
           Format(f, s) ==
             CASE s = BootSect -> "boot"
               [] s = InfoSect -> First(f)
               [] s \in fat_sect(0) .. fat_sect(1) - 1 -> FirstFat(f.root)[s - fat_sect(0)]
               [] s \in fat_sect(1) .. DirSect - 1 -> FirstFat(f.root)[s - fat_sect(1)]
               [] s = DirSect -> [n \in Slots |-> 0]
<1>0. PICK f \in Formats : off = f.off /\ disk = [s \in Sectors |-> Format(f, s)]
  BY DEF Init, Sectors
<1>01. /\ f.root \in Usable /\ f.signed \in BOOLEAN /\ f.hint \in 0 .. WIDTH - 1
       /\ f.off \in 0 .. WIDTH - 1
  BY VolumeAssumption
<1>1. \A s \in Sectors : disk[s] = Format(f, s)
  <2> HIDE DEF Format
  <2> QED
    BY <1>0
<1>2. disk[InfoSect] = First(f)
  <2>1. InfoSect # BootSect /\ InfoSect # DirSect /\ InfoSect \notin fat_sect(0) .. fat_sect(1) - 1
        /\ InfoSect \notin fat_sect(1) .. DirSect - 1
    BY Layout
  <2>2. Format(f, InfoSect) = First(f)
    BY <2>1
  <2> QED
    BY <1>1, <2>2, SpecialSectors
<1>3. disk[DirSect] = [n \in Slots |-> 0]
  <2>1. DirSect # BootSect /\ DirSect # InfoSect /\ DirSect \notin fat_sect(0) .. fat_sect(1) - 1
        /\ DirSect \notin fat_sect(1) .. DirSect - 1
    BY Layout
  <2>2. Format(f, DirSect) = [n \in Slots |-> 0]
    BY <2>1
  <2> QED
    BY <1>1, <2>2, SpecialSectors
<1>4. ASSUME NEW t \in {0, 1}, NEW q \in 0 .. FatSects - 1
      PROVE  disk[fat_sect(t) + q] =
               [i \in 0 .. ENTRIES - 1 |-> FirstEntry(f.root, q * ENTRIES + i)]
  <2>1. disk[fat_sect(t) + q] = FirstFat(f.root)[q]
    <3>1. CASE t = 0
      <4>1. fat_sect(0) + q \in fat_sect(0) .. fat_sect(1) - 1 /\ (fat_sect(0) + q) - fat_sect(0) = q
        BY Layout
      <4>2. /\ fat_sect(0) + q \in Sectors /\ fat_sect(0) + q # BootSect /\ fat_sect(0) + q # InfoSect
            /\ fat_sect(0) + q # DirSect /\ fat_sect(0) + q \notin fat_sect(1) .. DirSect - 1
        BY Layout DEF Sectors
      <4>3. Format(f, fat_sect(0) + q) = FirstFat(f.root)[q]
        <5> DEFINE x == fat_sect(0) + q
        <5> HIDE DEF x
        <5>1. Format(f, x) = FirstFat(f.root)[x - fat_sect(0)]
          BY <4>1, <4>2, Zenon DEF x
        <5>2. x - fat_sect(0) = q
          BY <4>1, Zenon DEF x
        <5> QED
          BY <5>1, <5>2, Zenon DEF x
      <4> QED
        BY <1>1, <3>1, <4>2, <4>3
    <3>2. CASE t = 1
      <4>1. fat_sect(1) + q \in fat_sect(1) .. DirSect - 1 /\ (fat_sect(1) + q) - fat_sect(1) = q
        BY Layout
      <4>2. /\ fat_sect(1) + q \in Sectors /\ fat_sect(1) + q # BootSect /\ fat_sect(1) + q # InfoSect
            /\ fat_sect(1) + q # DirSect /\ fat_sect(1) + q \notin fat_sect(0) .. fat_sect(1) - 1
        BY Layout DEF Sectors
      <4>3. Format(f, fat_sect(1) + q) = FirstFat(f.root)[q]
        <5> DEFINE x == fat_sect(1) + q
        <5> HIDE DEF x
        <5>1. Format(f, x) = FirstFat(f.root)[x - fat_sect(1)]
          BY <4>1, <4>2, Zenon DEF x
        <5>2. x - fat_sect(1) = q
          BY <4>1, Zenon DEF x
        <5> QED
          BY <5>1, <5>2, Zenon DEF x
      <4> QED
        BY <1>1, <3>2, <4>2, <4>3
    <3> QED
      BY <3>1, <3>2
  <2> QED
    BY <2>1 DEF FirstFat
<1> DEFINE Sector(q) == [i \in 0 .. ENTRIES - 1 |-> FirstEntry(f.root, q * ENTRIES + i)]
<1>50. \A x \in Nat : FirstEntry(f.root, x) \in Nat
  BY <1>01, UsableClusts DEF FirstEntry, RootClust
<1>5. \A q \in Nat : Sector(q) \in FatSectors
  <2> HIDE DEF First, Format
  <2> SUFFICES ASSUME NEW q \in Nat, NEW i \in 0 .. ENTRIES - 1 PROVE FirstEntry(f.root, q * ENTRIES + i) \in Nat
    BY DEF FatSectors
  <2>1. q * ENTRIES \in Nat
    BY Layout
  <2> QED
    BY <1>50, <2>1, Layout
<1>9. ASSUME NEW t \in {0, 1}, NEW c \in AllClusts
      PROVE  FatEntry(disk, t, c) = FirstEntry(f.root, c)
  <2> DEFINE q == c \div ENTRIES
             r == c % ENTRIES
  <2>1. q \in 0 .. FatSects - 1 /\ r \in 0 .. ENTRIES - 1
    <3>1. FatSector(t, c) \in FatTable(t) /\ r \in 0 .. ENTRIES - 1
      BY InTable
    <3>2. FatSector(t, c) = fat_sect(t) + q /\ q \in Nat
      BY Layout, Division DEF FatSector, AllClusts
    <3> HIDE DEF q, r
    <3> QED
      BY <3>1, <3>2, Layout DEF FatTable
  <2>2. r = c - q * ENTRIES
    BY Layout DEF AllClusts
  <2>3. FatSector(t, c) = fat_sect(t) + q
    BY DEF FatSector
  <2> HIDE DEF q, r
  <2>4. disk[FatSector(t, c)][r] = FirstEntry(f.root, q * ENTRIES + r)
    <3>1. disk[FatSector(t, c)] = Sector(q)
      BY <1>4, <2>1, <2>3
    <3>2. Sector(q)[r] = FirstEntry(f.root, q * ENTRIES + r)
      BY <2>1
    <3> HIDE DEF Sector
    <3> QED
      BY <3>1, <3>2
  <2>5. q * ENTRIES \in Nat
    BY <2>1, Layout
  <2>6. q * ENTRIES + r = c
    <3> DEFINE m == q * ENTRIES
    <3>1. m \in Nat /\ r = c - m /\ c \in Nat
      BY <2>2, <2>5, Layout DEF AllClusts
    <3> HIDE DEF m
    <3>2. m + r = c
      BY <3>1
    <3> QED
      BY <3>2 DEF m
  <2>7. FatEntry(disk, t, c) = disk[FatSector(t, c)][r]
    BY DEF FatEntry, r
  <2> QED
    BY <2>4, <2>6, <2>7
<1>6. Volume(disk)
  <2>1. disk[InfoSect] \in Infos
    <3> DEFINE x == CLUST_CNT + 1 - f.root + f.off
    <3>1. x \in Nat /\ WIDTH \in Nat /\ WIDTH > 0
      BY <1>01, Layout, VolumeAssumption DEF Usable
    <3> HIDE DEF x
    <3>2. x % WIDTH \in 0 .. WIDTH - 1
      BY <3>1, Division
    <3> QED
      BY <1>01, <1>2, <3>2 DEF Infos, x
  <2>2. disk[DirSect] \in Dirs
    BY <1>3 DEF Dirs
  <2>3. ASSUME NEW s \in Sectors \ {BootSect, InfoSect, DirSect} PROVE disk[s] \in FatSectors
    <3>1. PICK t \in {0, 1} : s \in fat_sect(t) .. fat_sect(t) + FatSects - 1
      BY Layout DEF Sectors
    <3>2. s - fat_sect(t) \in 0 .. FatSects - 1 /\ s = fat_sect(t) + (s - fat_sect(t))
      BY <3>1, Layout DEF Sectors
    <3>3. disk[s] = Sector(s - fat_sect(t))
      BY <1>4, <3>2
    <3> HIDE DEF Sector
    <3> QED
      BY <1>5, <3>2, <3>3
  <2>4. disk = [s \in Sectors |-> disk[s]]
    <3> HIDE DEF Format
    <3> QED
      BY <1>0, <1>1
  <2>41. disk[FatSector(0, 1)][1 % ENTRIES] >= EOC
    <3>1. 1 \in AllClusts /\ FirstEntry(f.root, 1) = EOC /\ EOC >= EOC
      BY <1>01, Layout, UsableClusts DEF AllClusts, FirstEntry, RootClust, Usable
    <3> QED
      BY <1>9, <3>1 DEF FatEntry
  <2>5. ASSUME NEW s \in Sectors \ {BootSect} PROVE disk[s] \in Kind(s)
    BY <2>1, <2>2, <2>3, <2>41 DEF Kind, FatKind
  <2> QED
    BY <2>4, <2>5 DEF Volume
<1>7. StoreInv
  BY <1>6, SpecialSectors DEF Init, StoreInv
<1>8. View = disk /\ ~mounted /\ ~infoDirty /\ pc = "idle" /\ frame = NoFrame
  <2>1. ~bufDirty /\ ~mounted /\ ~infoDirty /\ pc = "idle" /\ frame = NoFrame
    BY DEF Init
  <2> QED
    BY <2>1 DEF View, Flushed
<1>10. disk[InfoSect].free_cnt = (CLUST_CNT + 1 - f.root + off) % WIDTH
  <2> HIDE DEF Format
  <2>1. off = f.off
    BY <1>0
  <2>2. First(f).free_cnt = (CLUST_CNT + 1 - f.root + f.off) % WIDTH
    OBVIOUS
  <2> HIDE DEF First
  <2> QED
    BY <1>2, <2>1, <2>2
<1> HIDE DEF First, Format, Sector
<1> QED
  BY <1>0, <1>01, <1>3, <1>7, <1>8, <1>9, <1>10

LEMMA InitCall == Init => CallInv
<1> SUFFICES ASSUME Init PROVE CallInv
  OBVIOUS
<1>1. StoreInv /\ ~mounted /\ ~infoDirty /\ pc = "idle" /\ frame = NoFrame
  BY InitVolume
<1>2. FrameInv
  BY <1>1, NoFrameFacts DEF FrameInv
<1>3. InfoInv /\ TakeInv /\ EntryInv
  BY <1>1 DEF InfoInv, TakeInv, EntryInv, Marking, Init
<1>4. ret.op = "none" /\ ret.err = "NONE"
  BY NoFrameFacts DEF Init, Result
<1>5. AnswersTrue
  BY <1>1, <1>4 DEF AnswersTrue
<1> QED
  BY <1>1, <1>2, <1>3, <1>5 DEF CallInv

LEMMA CallInvariant == Spec => []CallInv
BY InitCall, NextCall, PTL DEF Spec

(* What a call of the FAT driver answers is true of the directory entry it *)
(* came upon, whichever that is, whatever failed before and wherever power *)
(* was lost, on a volume with any FSInfo: FAT_ERR_FULL only when           *)
(* stretch_chain's scan has seen every cluster but last_used in use; a new *)
(* entry names a cluster in use, unless create_chain went on with a number *)
(* it never got; FAT_ERR_NONE from fat_sync, fat_umount and fat_unlink     *)
(* only when the volume is on disk.                                        *)
THEOREM CallsAnswerTrue == Spec => []AnswersTrue
<1>1. CallInv => AnswersTrue
  BY DEF CallInv
<1> QED
  BY <1>1, CallInvariant, PTL

(* stretch_chain marks only a cluster that the active FAT shows free at    *)
(* the moment of the write, whatever failed before.                        *)
THEOREM TakesOnlyFree == Spec => []OnlyFreeTaken
<1>1. CallInv => OnlyFreeTaken
  <2> SUFFICES ASSUME CallInv, pc = "put", Head(frame.puts).table = 0, Head(frame.puts).val = EOC
               PROVE  IsFree(View, Head(frame.puts).clust)
    BY DEF OnlyFreeTaken
  <2> DEFINE c == frame.cur
             prev == frame.prev
             puts == frame.puts
  <2>1. c \in Usable /\ prev \in Usable \cup {0} /\ (Marking \/ Linking)
    BY DEF CallInv, FrameInv, Frames
  <2>2. ~Linking
    <3> SUFFICES ASSUME puts \in LinkPuts(prev, c) PROVE FALSE
      BY DEF Linking
    <3>1. Head(puts) = Put(1, prev, c) \/ Head(puts) = Put(0, prev, c)
      <4> HIDE DEF c, prev, puts
      <4> QED
        BY <2>1, LinkStep
    <3>2. Head(puts).val = c
      BY <3>1 DEF Put
    <3> QED
      BY <2>1, <3>2, UsableClusts
  <2>3. Marking /\ puts \in MarkPuts(prev, c)
    BY <2>1, <2>2 DEF Marking
  <2>4. Head(puts).clust = c
    BY <2>1, <2>3, MarkStep DEF Put
  <2> QED
    BY <2>3, <2>4 DEF CallInv, TakeInv
<1> QED
  BY <1>1, CallInvariant, PTL

(* The put_fat2 calls of stretch_chain and remove_chain, case by case.     *)
SameCall == frame'.op = frame.op /\ frame'.slot = frame.slot
SameStretch == SameCall /\ frame'.prev = frame.prev /\ frame'.cur = frame.cur
CountTaken ==
  info' = [signed |-> info.signed, last_used |-> frame.cur, free_cnt |-> (info.free_cnt + WIDTH - 1) % WIDTH]
CountFreed == info' = [info EXCEPT !.free_cnt = (info.free_cnt + 1) % WIDTH]

LEMMA StretchCases ==
  ASSUME CallInv, PutStretch
  PROVE  LET c == frame.cur
             prev == frame.prev
         IN  /\ pc = "put" /\ c \in Usable /\ UNCHANGED <<infoDirty, mounted>>
             /\ frame.slot \in Slots /\ info \in Infos
             /\ \/ frame.op = "grow" /\ prev \in Usable
                \/ frame.op = "create" /\ prev = 0
             /\ \/ Quiet /\ Harmed /\ Return(frame, "IO") /\ UNCHANGED info
                \/ /\ Marking /\ Mirror /\ PutDone(Put(1, c, EOC)) /\ UNCHANGED info
                   /\ Head(frame.puts) = Put(1, c, EOC)
                   /\ SameStretch /\ Marking' /\ Head(frame'.puts) = Put(0, c, EOC)
                \/ /\ Marking /\ PutDone(Put(0, c, EOC)) /\ UNCHANGED info
                   /\ Head(frame.puts) = Put(0, c, EOC) /\ prev \in Usable
                   /\ SameStretch /\ Linking' /\ (Mirror => Head(frame'.puts) = Put(1, prev, c))
                \/ /\ Marking /\ PutDone(Put(0, c, EOC)) /\ CountTaken
                   /\ Head(frame.puts) = Put(0, c, EOC) /\ prev = 0
                   /\ SameStretch /\ pc' = "sync"
                \/ /\ Linking /\ Mirror /\ PutDone(Put(1, prev, c)) /\ UNCHANGED info
                   /\ Head(frame.puts) = Put(1, prev, c) /\ prev \in Usable
                   /\ SameStretch /\ Linking' /\ Head(frame'.puts) = Put(0, prev, c)
                \/ /\ Linking /\ PutDone(Put(0, prev, c)) /\ CountTaken
                   /\ Head(frame.puts) = Put(0, prev, c) /\ prev \in Usable
                   /\ SameStretch /\ pc' = "sync"
<1> DEFINE c == frame.cur
           prev == frame.prev
           puts == frame.puts
           p == Head(frame.puts)
<1>0. StoreInv /\ InfoInv /\ FrameInv
  BY DEF CallInv
<1>1. /\ pc = "put" /\ c \in Usable /\ frame \in Frames /\ frame.slot \in Slots
      /\ prev \in Usable \cup {0} /\ (Marking \/ Linking)
  BY <1>0 DEF PutStretch, FrameInv, Frames
<1>2. (frame.op = "grow" /\ prev \in Usable) \/ (frame.op = "create" /\ prev = 0)
  BY <1>0, <1>1 DEF FrameInv
<1>3. puts \in Seq(Puts) /\ puts # <<>> /\ Len(puts) \in Nat
  <2>1. puts \in Seq(Puts) /\ Len(puts) \in Nat \ {0}
    BY <1>1, MarkStep, LinkStep DEF Marking, Linking
  <2> QED
    BY <2>1
<1>4. info \in Infos
  BY <1>0, <1>1 DEF InfoInv
<1>5. /\ UNCHANGED <<infoDirty, mounted>>
      /\ \/ Quiet /\ Harmed /\ Return(frame, "IO") /\ UNCHANGED info
         \/ /\ PutDone(p) /\ Len(puts) > 1
            /\ Goto("put", [frame EXCEPT !.puts = Tail(puts)]) /\ UNCHANGED info
         \/ PutDone(p) /\ Len(puts) = 1 /\ CountTaken /\ Goto("sync", [frame EXCEPT !.puts = <<>>])
  BY <1>0, <1>3, PutStretchFacts DEF CountTaken
<1>6. CASE /\ PutDone(p) /\ Len(puts) > 1
           /\ Goto("put", [frame EXCEPT !.puts = Tail(puts)]) /\ UNCHANGED info
  <2>1. pc' = "put" /\ SameStretch /\ frame'.puts = Tail(puts)
    BY <1>1, <1>6 DEF Goto, SameStretch, SameCall, Frames
  <2>2. CASE Marking
    <3>1. puts \in MarkPuts(prev, c)
      BY <2>2 DEF Marking
    <3>2. \/ /\ p = Put(1, c, EOC) /\ Mirror /\ Tail(puts) \in MarkPuts(prev, c)
             /\ Head(Tail(puts)) = Put(0, c, EOC)
          \/ /\ p = Put(0, c, EOC) /\ prev # 0 /\ Tail(puts) \in LinkPuts(prev, c)
             /\ Mirror => Head(Tail(puts)) = Put(1, prev, c)
      <4>1. Len(puts) > 1 /\ c \in Usable /\ prev \in Usable \cup {0}
        BY <1>1, <1>6
      <4> HIDE DEF c, prev, puts
      <4> QED
        BY <3>1, <4>1, MarkStep DEF puts
    <3>3. Tail(puts) \in MarkPuts(prev, c) => Marking'
      BY <2>1 DEF Marking, SameStretch
    <3>4. Tail(puts) \in LinkPuts(prev, c) => Linking'
      BY <2>1 DEF Linking, SameStretch
    <3> QED
      BY <1>1, <1>2, <1>4, <1>5, <1>6, <2>1, <2>2, <3>2, <3>3, <3>4
  <2>3. CASE Linking
    <3>1. puts \in LinkPuts(prev, c)
      BY <2>3 DEF Linking
    <3>2. /\ p = Put(1, prev, c) /\ Mirror /\ Tail(puts) \in LinkPuts(prev, c) /\ prev \in Usable
          /\ Head(Tail(puts)) = Put(0, prev, c)
      BY <1>1, <1>6, <3>1, LinkStep
    <3>3. Linking'
      BY <2>1, <3>2 DEF Linking, SameStretch
    <3> QED
      BY <1>1, <1>2, <1>4, <1>5, <1>6, <2>1, <2>3, <3>2, <3>3
  <2> QED
    BY <1>1, <2>2, <2>3
<1>7. CASE PutDone(p) /\ Len(puts) = 1 /\ CountTaken /\ Goto("sync", [frame EXCEPT !.puts = <<>>])
  <2>1. pc' = "sync" /\ SameStretch
    BY <1>1, <1>7 DEF Goto, SameStretch, SameCall, Frames
  <2>2. CASE Marking
    <3>1. puts \in MarkPuts(prev, c)
      BY <2>2 DEF Marking
    <3>2. p = Put(0, c, EOC) /\ prev = 0
      <4>1. Len(puts) = 1 /\ c \in Usable /\ prev \in Usable \cup {0}
        BY <1>1, <1>7
      <4> HIDE DEF c, prev, puts
      <4>2. ~(Len(puts) > 1)
        BY <4>1
      <4> QED
        BY <3>1, <4>1, <4>2, MarkStep DEF puts
    <3> QED
      BY <1>1, <1>2, <1>4, <1>5, <1>7, <2>1, <2>2, <3>2
  <2>3. CASE Linking
    <3>1. puts \in LinkPuts(prev, c)
      BY <2>3 DEF Linking
    <3>2. p = Put(0, prev, c) /\ prev \in Usable
      <4>1. Len(puts) = 1 /\ c \in Usable /\ prev \in Usable \cup {0}
        BY <1>1, <1>7
      <4> HIDE DEF c, prev, puts
      <4>2. ~(Len(puts) > 1)
        BY <4>1
      <4> QED
        BY <3>1, <4>1, <4>2, LinkStep DEF puts
    <3> QED
      BY <1>1, <1>2, <1>4, <1>5, <1>7, <2>1, <2>3, <3>2
  <2> QED
    BY <1>1, <2>2, <2>3
<1> QED
  BY <1>1, <1>2, <1>4, <1>5, <1>6, <1>7

LEMMA FreeCases ==
  ASSUME CallInv, PutFree
  PROVE  LET c == frame.cur
         IN  /\ pc = "unput" /\ c \in Usable /\ UNCHANGED <<infoDirty, mounted>>
             /\ frame.slot \in Slots /\ info \in Infos /\ frame.op = "unlink"
             /\ \/ Quiet /\ Harmed /\ Return(frame, "IO") /\ UNCHANGED info
                \/ /\ Mirror /\ PutDone(Put(1, c, FREE)) /\ UNCHANGED info
                   /\ Head(frame.puts) = Put(1, c, FREE)
                   /\ SameCall /\ pc' = "unput" /\ frame'.cur = c /\ frame'.next = frame.next
                   /\ Head(frame'.puts) = Put(0, c, FREE)
                \/ /\ PutDone(Put(0, c, FREE)) /\ CountFreed /\ SameCall
                   /\ Head(frame.puts) = Put(0, c, FREE)
                   /\ \/ frame.next >= EOC /\ pc' = "sync"
                      \/ frame.next \in Usable /\ pc' = "free" /\ frame'.cur = frame.next
<1> DEFINE c == frame.cur
           puts == frame.puts
           p == Head(frame.puts)
<1>0. StoreInv /\ InfoInv /\ FrameInv
  BY DEF CallInv
<1>1. /\ pc = "unput" /\ c \in Usable /\ frame \in Frames /\ frame.slot \in Slots
      /\ frame.op = "unlink" /\ puts \in FreePuts(c)
  BY <1>0 DEF PutFree, FrameInv
<1>2. frame.next \in Usable \/ frame.next >= EOC
  BY <1>0, <1>1 DEF FrameInv
<1>3. puts \in Seq(Puts) /\ puts # <<>> /\ Len(puts) \in Nat
  BY <1>1, FreeStep
<1>4. info \in Infos
  BY <1>0, <1>1 DEF InfoInv
<1>5. /\ UNCHANGED <<infoDirty, mounted>>
      /\ \/ Quiet /\ Harmed /\ Return(frame, "IO") /\ UNCHANGED info
         \/ /\ PutDone(p) /\ Len(puts) > 1
            /\ Goto("unput", [frame EXCEPT !.puts = Tail(puts)]) /\ UNCHANGED info
         \/ /\ PutDone(p) /\ Len(puts) = 1 /\ CountFreed
            /\ \/ /\ frame.next >= EOC
                  /\ Goto("sync", [frame EXCEPT !.cur = 0, !.next = 0, !.puts = <<>>])
               \/ /\ ~(frame.next >= EOC)
                  /\ Goto("free", [frame EXCEPT !.cur = frame.next, !.next = 0, !.puts = <<>>])
  BY <1>0, <1>3, PutFreeFacts DEF CountFreed
<1>6. CASE /\ PutDone(p) /\ Len(puts) > 1
           /\ Goto("unput", [frame EXCEPT !.puts = Tail(puts)]) /\ UNCHANGED info
  <2>1. /\ pc' = "unput" /\ SameCall /\ frame'.cur = c /\ frame'.next = frame.next
        /\ frame'.puts = Tail(puts)
    BY <1>1, <1>6 DEF Goto, SameCall, Frames
  <2>2. p = Put(1, c, FREE) /\ Mirror /\ Head(Tail(puts)) = Put(0, c, FREE)
    BY <1>1, <1>6, FreeStep
  <2> QED
    BY <1>1, <1>4, <1>5, <1>6, <2>1, <2>2
<1>7. CASE /\ PutDone(p) /\ Len(puts) = 1 /\ CountFreed
           /\ \/ /\ frame.next >= EOC
                 /\ Goto("sync", [frame EXCEPT !.cur = 0, !.next = 0, !.puts = <<>>])
              \/ /\ ~(frame.next >= EOC)
                 /\ Goto("free", [frame EXCEPT !.cur = frame.next, !.next = 0, !.puts = <<>>])
  <2>1. SameCall /\ \/ frame.next >= EOC /\ pc' = "sync"
                    \/ ~(frame.next >= EOC) /\ pc' = "free" /\ frame'.cur = frame.next
    BY <1>1, <1>7 DEF Goto, SameCall, Frames
  <2>2. p = Put(0, c, FREE)
    BY <1>1, <1>7, FreeStep
  <2> QED
    BY <1>1, <1>2, <1>4, <1>5, <1>7, <2>1, <2>2
<1> QED
  BY <1>1, <1>2, <1>4, <1>5, <1>6, <1>7

-----------------------------------------------------------------------------
(* The free clusters are counted.  Until something fails, fat->free_cnt    *)
(* follows their number, at the distance it had when it was mounted, but   *)
(* for the cluster that is marked and not yet linked; prev and the cluster *)
(* that remove_chain clears are in use, or clearing and linking would      *)
(* change the number in another way.                                       *)

FreeSet(d) == {c \in 2 .. CLUST_CNT + 1 : IsFree(d, c)}

(* The count that a volume with n free clusters has. *)
Counted(n, o) == (n + o) % WIDTH

CountInv ==
  /\ harm \in Nat /\ off \in 0 .. WIDTH - 1
  /\ pc \in {"next", "scan", "put"} /\ frame.op = "grow" => ~IsFree(View, frame.prev)
  /\ pc = "unput" => ~IsFree(View, frame.cur)
  /\ pc # "idle" /\ ~mounted => frame.op = "umount"
  /\ harm = 0 /\ (mounted \/ pc # "idle") =>
       info.free_cnt = Counted(Cardinality(FreeSet(View)) + (IF Linking THEN 1 ELSE 0), off)
  /\ harm = 0 /\ ~mounted /\ pc = "idle" =>
       /\ View = disk
       /\ disk[InfoSect].signed =>
            disk[InfoSect].free_cnt = Counted(Cardinality(FreeSet(disk)), off)

(* The active FAT is as it was. *)
SameFat == \A b \in AllClusts : FatEntry(View', 0, b) = FatEntry(View, 0, b)

LEMMA FreeSetFacts ==
  ASSUME NEW d
  PROVE  /\ IsFiniteSet(FreeSet(d)) /\ Cardinality(FreeSet(d)) \in Nat
         /\ Cardinality(FreeSet(d)) <= CLUST_CNT
         /\ 2 .. CLUST_CNT + 1 \subseteq AllClusts /\ Usable \subseteq 2 .. CLUST_CNT + 1
<1>1. CLUST_CNT \in Nat /\ CLUST_CNT > 3 /\ CLUST_CNT + 1 \in Int
  BY Layout
<1>2. IsFiniteSet(2 .. CLUST_CNT + 1) /\ Cardinality(2 .. CLUST_CNT + 1) = CLUST_CNT
  <2>1. /\ IsFiniteSet(2 .. CLUST_CNT + 1)
        /\ Cardinality(2 .. CLUST_CNT + 1) = IF 2 > CLUST_CNT + 1 THEN 0 ELSE CLUST_CNT + 1 - 2 + 1
    BY <1>1, FS_Interval
  <2> QED
    BY <1>1, <2>1
<1>3. FreeSet(d) \subseteq 2 .. CLUST_CNT + 1
  BY DEF FreeSet
<1>4. IsFiniteSet(FreeSet(d)) /\ Cardinality(FreeSet(d)) <= CLUST_CNT
  BY <1>2, <1>3, FS_Subset
<1>5. Cardinality(FreeSet(d)) \in Nat
  BY <1>4, FS_CardinalityType
<1>6. 2 .. CLUST_CNT + 1 \subseteq AllClusts /\ Usable \subseteq 2 .. CLUST_CNT + 1
  BY <1>1 DEF AllClusts, Usable
<1> QED
  BY <1>4, <1>5, <1>6

LEMMA SameFree ==
  ASSUME SameFat
  PROVE  FreeSet(View') = FreeSet(View) /\ \A c \in Usable : IsFree(View', c) <=> IsFree(View, c)
<1>1. \A c \in AllClusts : IsFree(View', c) <=> IsFree(View, c)
  BY DEF SameFat, IsFree
<1>2. 2 .. CLUST_CNT + 1 \subseteq AllClusts /\ Usable \subseteq AllClusts
  BY FreeSetFacts, UsableClusts
<1> HIDE DEF SameFat
<1> QED
  BY <1>1, <1>2 DEF FreeSet

(* A step that fails ends the call. *)
LEMMA CountHarmed ==
  ASSUME CountInv, Harmed, pc' = "idle", UNCHANGED off
  PROVE  CountInv'
<1>1. harm' \in Nat /\ harm' # 0
  BY DEF CountInv, Harmed
<1> QED
  BY <1>1 DEF CountInv

(* A step that does not change the active FAT. *)
LEMMA CountCalm ==
  ASSUME CountInv, SameFat, UNCHANGED off, UNCHANGED <<harm, info>>, ~Linking, ~Linking',
         mounted \/ pc # "idle", mounted' \/ pc' # "idle",
         pc' \in {"next", "scan", "put"} /\ frame'.op = "grow" => ~IsFree(View', frame'.prev),
         pc' = "unput" => ~IsFree(View', frame'.cur),
         pc' # "idle" /\ ~mounted' => frame'.op = "umount"
  PROVE  CountInv'
<1>1. FreeSet(View') = FreeSet(View)
  BY SameFree
<1>2. harm = 0 => info.free_cnt = Counted(Cardinality(FreeSet(View)) + 0, off)
  BY DEF CountInv
<1>3. harm' = 0 => info'.free_cnt = Counted(Cardinality(FreeSet(View')) + (IF Linking' THEN 1 ELSE 0), off')
  BY <1>1, <1>2
<1> QED
  BY <1>3 DEF CountInv

LEMMA QuietFat ==
  ASSUME Quiet
  PROVE  SameFat
BY DEF Quiet, SameFat

LEMMA StillMounted ==
  ASSUME CountInv, pc # "idle", frame.op # "umount"
  PROVE  mounted
BY DEF CountInv

(* A put_fat2 call adds or removes at most one free cluster. *)
LEMMA FreeSetPut ==
  ASSUME NEW c \in Usable, NEW v \in Nat, PutDone(Put(0, c, v))
  PROVE  /\ v # FREE => FreeSet(View') = FreeSet(View) \ {c}
         /\ v = FREE => FreeSet(View') = FreeSet(View) \cup {c}
         /\ \A b \in Usable \ {c} : IsFree(View', b) <=> IsFree(View, b)
<1>1. \A b \in AllClusts : FatEntry(View', 0, b) = IF b = c THEN v ELSE FatEntry(View, 0, b)
  BY DEF PutDone, Put
<1>2. \A b \in AllClusts : IsFree(View', b) <=> IF b = c THEN v = FREE ELSE IsFree(View, b)
  BY <1>1 DEF IsFree
<1>3. 2 .. CLUST_CNT + 1 \subseteq AllClusts /\ c \in 2 .. CLUST_CNT + 1 /\ Usable \subseteq AllClusts
  BY FreeSetFacts, UsableClusts
<1>4. \A b \in 2 .. CLUST_CNT + 1 : IsFree(View', b) <=> IF b = c THEN v = FREE ELSE IsFree(View, b)
  BY <1>2, <1>3
<1>5. v # FREE => FreeSet(View') = FreeSet(View) \ {c}
  BY <1>4 DEF FreeSet
<1>6. v = FREE => FreeSet(View') = FreeSet(View) \cup {c}
  BY <1>3, <1>4 DEF FreeSet
<1> QED
  BY <1>2, <1>3, <1>5, <1>6

LEMMA MirrorPut ==
  ASSUME NEW c, NEW v, PutDone(Put(1, c, v))
  PROVE  SameFat /\ UNCHANGED harm
BY DEF PutDone, Put, SameFat

(* free_cnt is counted up and down modulo WIDTH. *)
LEMMA Wraps ==
  ASSUME NEW W \in Nat, W > 0, NEW x \in 0 .. 2 * W - 1
  PROVE  x % W = IF x < W THEN x ELSE x - W
<1>1. CASE x < W
  BY <1>1
<1>2. CASE ~(x < W)
  <2> DEFINE y == x - W
  <2>1. y \in 0 .. W - 1 /\ x = y + W
    BY <1>2
  <2> HIDE DEF y
  <2>2. (y + W) % W = y
    BY <2>1
  <2> QED
    BY <1>2, <2>1, <2>2
<1> QED
  BY <1>1, <1>2

LEMMA CountsDown ==
  ASSUME NEW n \in Nat, n <= CLUST_CNT, off \in 0 .. WIDTH - 1, info.free_cnt = Counted(n + 1, off)
  PROVE  (info.free_cnt + WIDTH - 1) % WIDTH = Counted(n, off)
<1> DEFINE x == info.free_cnt
<1>1. WIDTH \in Nat /\ WIDTH > 0 /\ n <= WIDTH - 1
  BY VolumeAssumption
<1>2. n + 1 + off \in 0 .. 2 * WIDTH - 1 /\ n + off \in 0 .. 2 * WIDTH - 1
  BY <1>1
<1>3. x = IF n + 1 + off < WIDTH THEN n + 1 + off ELSE n + 1 + off - WIDTH
  BY <1>1, <1>2, Wraps DEF Counted
<1>4. Counted(n, off) = IF n + off < WIDTH THEN n + off ELSE n + off - WIDTH
  BY <1>1, <1>2, Wraps DEF Counted
<1> HIDE DEF x
<1>5. ASSUME NEW y, y = x + WIDTH - 1 PROVE y % WIDTH = Counted(n, off)
  <2>1. x \in Int /\ y \in 0 .. 2 * WIDTH - 1
    BY <1>1, <1>2, <1>3, <1>5
  <2>2. y % WIDTH = IF y < WIDTH THEN y ELSE y - WIDTH
    BY <1>1, <2>1, Wraps
  <2> DEFINE r == y % WIDTH
             z == Counted(n, off)
  <2>3. /\ r = IF y < WIDTH THEN y ELSE y - WIDTH
        /\ z = IF n + off < WIDTH THEN n + off ELSE n + off - WIDTH
    BY <1>4, <2>2
  <2> HIDE DEF r, z
  <2>4. r = z
    BY <1>1, <1>2, <1>3, <1>5, <2>1, <2>3
  <2> QED
    BY <2>4 DEF r, z
<1> QED
  BY <1>5 DEF x

LEMMA CountsUp ==
  ASSUME NEW n \in Nat, n <= CLUST_CNT, off \in 0 .. WIDTH - 1, info.free_cnt = Counted(n, off)
  PROVE  (info.free_cnt + 1) % WIDTH = Counted(n + 1, off)
<1> DEFINE x == info.free_cnt
<1>1. WIDTH \in Nat /\ WIDTH > 0 /\ n <= WIDTH - 1
  BY VolumeAssumption
<1>2. n + 1 + off \in 0 .. 2 * WIDTH - 1 /\ n + off \in 0 .. 2 * WIDTH - 1
  BY <1>1
<1>3. x = IF n + off < WIDTH THEN n + off ELSE n + off - WIDTH
  BY <1>1, <1>2, Wraps DEF Counted
<1>4. Counted(n + 1, off) = IF n + 1 + off < WIDTH THEN n + 1 + off ELSE n + 1 + off - WIDTH
  BY <1>1, <1>2, Wraps DEF Counted
<1> HIDE DEF x
<1>5. ASSUME NEW y, y = x + 1 PROVE y % WIDTH = Counted(n + 1, off)
  <2>1. x \in Int /\ y \in 0 .. 2 * WIDTH - 1
    BY <1>1, <1>2, <1>3, <1>5
  <2>2. y % WIDTH = IF y < WIDTH THEN y ELSE y - WIDTH
    BY <1>1, <2>1, Wraps
  <2> DEFINE r == y % WIDTH
             z == Counted(n + 1, off)
  <2>3. /\ r = IF y < WIDTH THEN y ELSE y - WIDTH
        /\ z = IF n + 1 + off < WIDTH THEN n + 1 + off ELSE n + 1 + off - WIDTH
    BY <1>4, <2>2
  <2> HIDE DEF r, z
  <2>4. r = z
    BY <1>1, <1>2, <1>3, <1>5, <2>1, <2>3
  <2> QED
    BY <2>4 DEF r, z
<1> QED
  BY <1>5 DEF x

LEMMA BeginFacts ==
  ASSUME StoreInv, NEW n \in Slots, Create(n) \/ Grow(n) \/ Unlink(n)
  PROVE  /\ Quiet /\ pc = "idle" /\ mounted /\ UNCHANGED <<info, mounted>>
         /\ \/ Harmed /\ pc' = "idle"
            \/ UNCHANGED harm /\ pc' \in {"idle", "walk", "free"}
            \/ UNCHANGED harm /\ pc' = "scan" /\ frame'.op = "create"
<1>1. CASE Create(n)
  <2> DEFINE f == Frame("create", n, 0, info.last_used)
  <2>1. f.op = "create"
    BY DEF Frame
  <2>2. /\ Quiet /\ pc = "idle" /\ mounted /\ UNCHANGED <<info, mounted>>
        /\ \/ Harmed /\ Return(f, "IO")
           \/ UNCHANGED harm /\ Goto("scan", f)
           \/ UNCHANGED harm /\ Return([f EXCEPT !.op = "open"], "NONE")
    BY <1>1, CreateFacts
  <2> HIDE DEF f
  <2> QED
    BY <2>1, <2>2 DEF Return, Goto
<1>2. CASE Grow(n)
  BY <1>2, GrowFacts DEF Return, Goto
<1>3. CASE Unlink(n)
  BY <1>3, UnlinkFacts DEF Return, Goto
<1> QED
  BY <1>1, <1>2, <1>3

(* The scan only goes where there are clusters, and what it takes for free *)
(* is a cluster of the volume.                                             *)
LEMMA ScanReaches ==
  ASSUME CallInv, Scan
  PROVE  /\ Scanned(info.last_used, frame.cur) /\ frame.cur \in Nat
         /\ NextClust(frame.cur) \in 1 .. CLUST_CNT - 1
         /\ IsFree(View, NextClust(frame.cur)) => NextClust(frame.cur) \in Usable
<1> DEFINE c == NextClust(frame.cur)
<1>0. StoreInv /\ TakeInv /\ pc = "scan"
  BY DEF CallInv, Scan
<1>1. Scanned(info.last_used, frame.cur)
  BY <1>0 DEF TakeInv
<1>2. frame.cur \in Nat
  BY <1>1, VolumeAssumption DEF Scanned
<1>3. c \in 1 .. CLUST_CNT - 1
  BY <1>1, <1>2, ScanClusts
<1>4. ~IsFree(View, 1)
  BY <1>0, ViewFacts, VolumeFacts
<1>5. c \in Usable \/ c = 1
  BY <1>3, Layout DEF Usable
<1> HIDE DEF c
<1>6. IsFree(View, c) => c \in Usable
  BY <1>4, <1>5
<1> QED
  BY <1>1, <1>2, <1>3, <1>6 DEF c

LEMMA BeginCount ==
  ASSUME CallInv, CountInv, NEW n \in Slots, Create(n) \/ Grow(n) \/ Unlink(n), UNCHANGED off
  PROVE  CountInv'
<1>0. StoreInv
  BY DEF CallInv
<1>1. /\ Quiet /\ pc = "idle" /\ mounted /\ UNCHANGED <<info, mounted>>
      /\ \/ Harmed /\ pc' = "idle"
         \/ UNCHANGED harm /\ pc' \in {"idle", "walk", "free"}
         \/ UNCHANGED harm /\ pc' = "scan" /\ frame'.op = "create"
  BY <1>0, BeginFacts
<1>2. CASE Harmed /\ pc' = "idle"
  BY <1>2, CountHarmed
<1>3. CASE UNCHANGED harm /\ (pc' \in {"idle", "walk", "free"} \/ (pc' = "scan" /\ frame'.op = "create"))
  <2>1. SameFat /\ ~Linking /\ ~Linking'
    BY <1>1, <1>3, QuietFat DEF Linking
  <2>2. mounted' /\ UNCHANGED <<harm, info>>
    BY <1>1, <1>3
  <2> QED
    BY <1>1, <1>3, <2>1, <2>2, CountCalm
<1> QED
  BY <1>1, <1>2, <1>3

LEMMA WalkCount ==
  ASSUME CallInv, CountInv, Walk, UNCHANGED off
  PROVE  CountInv'
<1> DEFINE c == frame.cur
           e == FatEntry(View, 0, c)
<1>0. StoreInv /\ pc = "walk" /\ c \in Usable /\ frame.op = "grow" /\ frame \in Frames
  BY DEF CallInv, FrameInv, Walk
<1>1. /\ Quiet /\ UNCHANGED <<info, mounted>>
      /\ \/ Harmed /\ Return(frame, "IO")
         \/ UNCHANGED harm /\ Return(frame, "BROKEN")
         \/ UNCHANGED harm /\ Goto("walk", [frame EXCEPT !.cur = e])
         \/ /\ UNCHANGED harm /\ e >= EOC
            /\ Goto("next", [frame EXCEPT !.prev = c, !.cur = NextClust(c)])
  BY <1>0, WalkFacts
<1>2. e \in Nat
  BY <1>0, ViewFacts, VolumeFacts, UsableClusts
<1>3. SameFat /\ ~Linking /\ mounted /\ mounted'
  BY <1>0, <1>1, QuietFat, StillMounted DEF Linking
<1>4. CASE Harmed /\ Return(frame, "IO")
  BY <1>4, CountHarmed DEF Return
<1>5. CASE UNCHANGED harm /\ Return(frame, "BROKEN")
  <2>1. pc' = "idle" /\ ~Linking'
    BY <1>5 DEF Return, Linking
  <2> QED
    BY <1>1, <1>3, <1>5, <2>1, CountCalm
<1>6. CASE UNCHANGED harm /\ Goto("walk", [frame EXCEPT !.cur = e])
  <2>1. pc' = "walk" /\ ~Linking'
    BY <1>6 DEF Goto, Linking
  <2> QED
    BY <1>1, <1>3, <1>6, <2>1, CountCalm
<1>7. CASE UNCHANGED harm /\ e >= EOC /\ Goto("next", [frame EXCEPT !.prev = c, !.cur = NextClust(c)])
  <2>1. pc' = "next" /\ ~Linking' /\ frame'.prev = c
    BY <1>0, <1>7 DEF Goto, Linking, Frames
  <2>2. e # FREE
    BY <1>2, <1>7, UsableClusts
  <2>3. ~IsFree(View', c)
    BY <1>1, <2>2 DEF Quiet, IsFree
  <2> QED
    BY <1>1, <1>3, <1>7, <2>1, <2>3, CountCalm
<1> QED
  BY <1>1, <1>4, <1>5, <1>6, <1>7

(* The turns of stretch_chain that do not take a cluster, and the one that *)
(* does.                                                                   *)
LEMMA SeekCount ==
  ASSUME CallInv, CallInv', CountInv, CheckNext \/ Scan, UNCHANGED off
  PROVE  CountInv'
<1>0. /\ StoreInv /\ FrameInv /\ InfoInv /\ pc \in {"next", "scan"}
      /\ frame.op \in {"create", "grow"} /\ frame \in Frames /\ frame.prev \in Usable \cup {0}
  BY DEF CallInv, FrameInv, CheckNext, Scan, Frames
<1>1. /\ Quiet /\ UNCHANGED <<info, infoDirty, mounted>>
      /\ \/ Harmed /\ pc' = "idle"
         \/ UNCHANGED harm /\ pc' = "idle"
         \/ Harmed /\ \E g : Goto("dir_add", Frame("guess", frame.slot, 0, g))
         \/ UNCHANGED harm /\ \E g : Goto("dir_add", Frame("guess", frame.slot, 0, g))
         \/ UNCHANGED harm /\ \E c \in Usable : IsFree(View, c) /\ TakeCluster(c)
         \/ UNCHANGED harm /\ \E c : Goto("scan", [frame EXCEPT !.cur = c])
  <2>1. CASE CheckNext
    <3>1. frame.cur \in Usable
      BY <1>0, <2>1 DEF FrameInv, CheckNext
    <3> QED
      BY <1>0, <2>1, <3>1, CheckNextFacts DEF Return
  <2>2. CASE Scan
    <3>1. frame.cur \in Nat /\ (IsFree(View, NextClust(frame.cur)) => NextClust(frame.cur) \in Usable)
      BY <2>2, ScanReaches
    <3> QED
      BY <1>0, <2>2, <3>1, ScanFacts DEF Return
  <2> QED
    BY <2>1, <2>2
<1>2. SameFat /\ ~Linking /\ mounted /\ mounted'
  BY <1>0, <1>1, QuietFat, StillMounted DEF Linking
<1>3. frame.op = "grow" => ~IsFree(View', frame.prev)
  BY <1>0, <1>1 DEF CountInv, Quiet
<1>4. CASE Harmed /\ pc' = "idle"
  BY <1>4, CountHarmed
<1>5. CASE UNCHANGED harm /\ pc' = "idle"
  BY <1>1, <1>2, <1>5, CountCalm DEF Linking
<1>6. ASSUME NEW g, Goto("dir_add", Frame("guess", frame.slot, 0, g)), Harmed \/ UNCHANGED harm
      PROVE  CountInv'
  <2>1. pc' = "dir_add" /\ ~Linking'
    BY <1>6 DEF Goto, Linking
  <2>2. CASE UNCHANGED harm
    BY <1>1, <1>2, <2>1, <2>2, CountCalm
  <2>3. CASE Harmed
    <3>1. harm' \in Nat /\ harm' # 0
      BY <2>3 DEF CountInv, Harmed
    <3> QED
      BY <1>2, <2>1, <3>1 DEF CountInv
  <2> QED
    BY <1>6, <2>2, <2>3
<1>7. ASSUME NEW c \in Usable, UNCHANGED harm, IsFree(View, c), TakeCluster(c)
      PROVE  CountInv'
  <2>1. pc' = "put" /\ frame'.op = frame.op /\ frame'.prev = frame.prev /\ frame'.cur = c
    BY <1>0, <1>7 DEF TakeCluster, Goto, Frames
  <2>2. Marking'
    BY <1>0, <1>1, <1>7, Taken
  <2>3. ~Linking'
    BY <1>0, <1>7, <2>1, <2>2, LinkIsNoMark DEF Marking, Linking
  <2> QED
    BY <1>1, <1>2, <1>3, <1>7, <2>1, <2>3, CountCalm
<1>8. ASSUME NEW c, UNCHANGED harm, Goto("scan", [frame EXCEPT !.cur = c])
      PROVE  CountInv'
  <2>1. pc' = "scan" /\ frame'.op = frame.op /\ frame'.prev = frame.prev /\ ~Linking'
    BY <1>0, <1>8 DEF Goto, Frames, Linking
  <2> QED
    BY <1>1, <1>2, <1>3, <1>8, <2>1, CountCalm
<1> QED
  BY <1>1, <1>4, <1>5, <1>6, <1>7, <1>8

LEMMA StretchCount ==
  ASSUME CallInv, CountInv, PutStretch, UNCHANGED off
  PROVE  CountInv'
<1> DEFINE c == frame.cur
           prev == frame.prev
           N == Cardinality(FreeSet(View))
           M == Cardinality(FreeSet(View'))
<1>0. /\ pc = "put" /\ c \in Usable /\ UNCHANGED mounted /\ info \in Infos
      /\ frame.op = "grow" \/ frame.op = "create"
      /\ prev \in Usable \cup {0}
      /\ frame.op = "grow" => prev \in Usable
  BY StretchCases
<1>1. mounted /\ mounted'
  BY <1>0, StillMounted
<1>2. /\ N \in Nat /\ N <= CLUST_CNT /\ IsFiniteSet(FreeSet(View)) /\ CLUST_CNT \in Nat
      /\ M \in Nat /\ M <= CLUST_CNT
  BY FreeSetFacts, Layout
<1>3. /\ harm \in Nat /\ off \in 0 .. WIDTH - 1
      /\ harm = 0 => info.free_cnt = Counted(N + (IF Linking THEN 1 ELSE 0), off)
  BY <1>1 DEF CountInv
<1>4. frame.op = "grow" => ~IsFree(View, prev)
  BY <1>0 DEF CountInv
<1>5. Marking => ~Linking /\ IsFree(View, c) /\ c \in FreeSet(View)
  <2>1. Marking => IsFree(View, c)
    BY DEF CallInv, TakeInv
  <2>2. c \in 2 .. CLUST_CNT + 1
    BY <1>0, FreeSetFacts
  <2>3. Marking => ~Linking
    BY <1>0, LinkIsNoMark DEF Marking, Linking
  <2> QED
    BY <2>1, <2>2, <2>3 DEF FreeSet
<1>6. EOC \in Nat /\ EOC # FREE /\ c \in Nat /\ c # FREE
  <2>1. EOC \in Nat /\ EOC # FREE
    BY UsableClusts
  <2>2. c \in Nat /\ c # FREE
    BY <1>0, UsableClusts
  <2> QED
    BY <2>1, <2>2
<1>7. CASE Quiet /\ Harmed /\ Return(frame, "IO")
  BY <1>7, CountHarmed DEF Return
<1>8. CASE /\ Marking /\ PutDone(Put(1, c, EOC)) /\ UNCHANGED info
           /\ SameStretch /\ Marking'
  <2>1. SameFat /\ UNCHANGED harm
    BY <1>8, MirrorPut
  <2>2. pc' = "put" /\ ~Linking'
    BY <1>0, <1>8, LinkIsNoMark DEF Marking, Linking, SameStretch
  <2>3. frame'.op = "grow" => ~IsFree(View', frame'.prev)
    BY <1>0, <1>4, <1>8, <2>1, SameFree DEF SameStretch, SameCall
  <2> QED
    BY <1>1, <1>5, <1>8, <2>1, <2>2, <2>3, CountCalm
<1>9. ASSUME Marking, PutDone(Put(0, c, EOC))
      PROVE  /\ harm' = harm /\ (harm = 0 => info.free_cnt = Counted(M + 1, off))
             /\ \A b \in Usable \ {c} : IsFree(View', b) <=> IsFree(View, b)
  <2>1. FreeSet(View') = FreeSet(View) \ {c} /\ harm' = harm
        /\ \A b \in Usable \ {c} : IsFree(View', b) <=> IsFree(View, b)
    BY <1>0, <1>6, <1>9, FreeSetPut DEF PutDone
  <2>2. M = N - 1
    BY <1>2, <1>5, <1>9, <2>1, FS_RemoveElement
  <2>3. harm = 0 => info.free_cnt = Counted(M + 1, off)
    <3>1. N + (IF Linking THEN 1 ELSE 0) = M + 1
      BY <1>2, <1>5, <1>9, <2>2
    <3> QED
      BY <1>3, <3>1
  <2> QED
    BY <2>1, <2>3
<1>10. CASE /\ Marking /\ PutDone(Put(0, c, EOC)) /\ UNCHANGED info
            /\ SameStretch /\ Linking' /\ prev \in Usable
  <2>1. harm' = 0 => info'.free_cnt = Counted(M + (IF Linking' THEN 1 ELSE 0), off')
    BY <1>9, <1>10
  <2>2. pc' = "put" /\ frame'.prev = prev /\ frame'.op = frame.op
    BY <1>10 DEF Linking, SameStretch, SameCall
  <2>3. frame.op = "grow" => prev # c /\ ~IsFree(View, prev)
    BY <1>4, <1>5, <1>10
  <2>4. frame'.op = "grow" => ~IsFree(View', frame'.prev)
    BY <1>9, <1>10, <2>2, <2>3
  <2> QED
    BY <1>1, <1>3, <1>9, <1>10, <2>1, <2>2, <2>4 DEF CountInv
<1>11. CASE Marking /\ PutDone(Put(0, c, EOC)) /\ CountTaken /\ pc' = "sync"
  <2>1. harm = 0 => info'.free_cnt = Counted(M, off)
    <3> HIDE DEF M, N
    <3> SUFFICES ASSUME harm = 0 PROVE info'.free_cnt = Counted(M, off)
      OBVIOUS
    <3>1. (info.free_cnt + WIDTH - 1) % WIDTH = Counted(M, off)
      BY <1>2, <1>3, <1>9, <1>11, CountsDown
    <3> QED
      BY <1>11, <3>1 DEF CountTaken
  <2>2. ~Linking'
    BY <1>11 DEF Linking
  <2>3. harm' = 0 => info'.free_cnt = Counted(M + (IF Linking' THEN 1 ELSE 0), off')
    <3>1. M + (IF Linking' THEN 1 ELSE 0) = M
      BY <1>2, <2>2
    <3> QED
      BY <1>9, <1>11, <2>1, <3>1
  <2> QED
    BY <1>1, <1>3, <1>9, <1>11, <2>3 DEF CountInv
<1>12. CASE /\ Linking /\ PutDone(Put(1, prev, c)) /\ UNCHANGED info
            /\ SameStretch /\ Linking'
  <2>1. SameFat /\ UNCHANGED harm
    BY <1>12, MirrorPut
  <2>2. pc' = "put" /\ frame'.prev = prev /\ frame'.op = frame.op
    BY <1>12 DEF Linking, SameStretch, SameCall
  <2>3. frame'.op = "grow" => ~IsFree(View', frame'.prev)
    BY <1>0, <1>4, <2>1, <2>2, SameFree
  <2>4. M = N
    BY <2>1, SameFree
  <2>5. harm' = 0 => info'.free_cnt = Counted(M + (IF Linking' THEN 1 ELSE 0), off')
    BY <1>3, <1>12, <2>1, <2>4
  <2> QED
    BY <1>1, <1>3, <2>1, <2>2, <2>3, <2>5 DEF CountInv
<1>13. CASE /\ Linking /\ PutDone(Put(0, prev, c)) /\ CountTaken /\ prev \in Usable /\ pc' = "sync"
  <2>1. frame.op = "grow"
    BY <1>13, StretchCases, UsableClusts
  <2>2. FreeSet(View') = FreeSet(View) \ {prev} /\ harm' = harm
    BY <1>6, <1>13, FreeSetPut DEF PutDone
  <2>3. M = N
    <3>1. prev \notin FreeSet(View)
      BY <1>4, <2>1 DEF FreeSet
    <3> QED
      BY <1>2, <2>2, <3>1, FS_RemoveElement
  <2>4. harm = 0 => info.free_cnt = Counted(M + 1, off)
    BY <1>3, <1>13, <2>3
  <2>5. harm = 0 => info'.free_cnt = Counted(M, off)
    <3> HIDE DEF M, N
    <3> SUFFICES ASSUME harm = 0 PROVE info'.free_cnt = Counted(M, off)
      OBVIOUS
    <3>1. (info.free_cnt + WIDTH - 1) % WIDTH = Counted(M, off)
      BY <1>2, <1>3, <2>4, CountsDown
    <3> QED
      BY <1>13, <3>1 DEF CountTaken
  <2>6. ~Linking'
    BY <1>13 DEF Linking
  <2>7. harm' = 0 => info'.free_cnt = Counted(M + (IF Linking' THEN 1 ELSE 0), off')
    <3>1. M + (IF Linking' THEN 1 ELSE 0) = M
      BY <1>2, <2>6
    <3> QED
      BY <2>2, <2>5, <3>1
  <2> QED
    BY <1>1, <1>3, <1>13, <2>2, <2>7 DEF CountInv
<1> QED
  BY <1>7, <1>8, <1>10, <1>11, <1>12, <1>13, StretchCases

LEMMA FreeNextCount ==
  ASSUME CallInv, CountInv, FreeNext, UNCHANGED off
  PROVE  CountInv'
<1> DEFINE c == frame.cur
           e == FatEntry(View, 0, c)
<1>0. StoreInv /\ pc = "free" /\ c \in Usable /\ frame.op = "unlink" /\ frame \in Frames
  BY DEF CallInv, FrameInv, FreeNext
<1>1. /\ Quiet /\ UNCHANGED <<info, mounted>>
      /\ \/ Harmed /\ Return(frame, "IO")
         \/ UNCHANGED harm /\ Return(frame, "BROKEN")
         \/ /\ UNCHANGED harm /\ e \in Nat /\ (e \in Usable \/ e >= EOC)
            /\ Goto("unput", [frame EXCEPT !.next = e, !.puts = put_fat(c, FREE)])
  BY <1>0, FreeNextFacts
<1>2. SameFat /\ ~Linking /\ mounted /\ mounted'
  BY <1>0, <1>1, QuietFat, StillMounted DEF Linking
<1>3. CASE Harmed /\ Return(frame, "IO")
  BY <1>3, CountHarmed DEF Return
<1>4. CASE UNCHANGED harm /\ Return(frame, "BROKEN")
  <2>1. pc' = "idle" /\ ~Linking'
    BY <1>4 DEF Return, Linking
  <2> QED
    BY <1>1, <1>2, <1>4, <2>1, CountCalm
<1>5. CASE /\ UNCHANGED harm /\ e \in Nat /\ (e \in Usable \/ e >= EOC)
           /\ Goto("unput", [frame EXCEPT !.next = e, !.puts = put_fat(c, FREE)])
  <2>1. pc' = "unput" /\ ~Linking' /\ frame'.cur = c
    BY <1>0, <1>5 DEF Goto, Linking, Frames
  <2>2. e # FREE
    BY <1>5, UsableClusts
  <2>3. ~IsFree(View', c)
    BY <1>1, <2>2 DEF Quiet, IsFree
  <2> QED
    BY <1>1, <1>2, <1>5, <2>1, <2>3, CountCalm
<1> QED
  BY <1>1, <1>3, <1>4, <1>5

LEMMA FreeCount ==
  ASSUME CallInv, CountInv, PutFree, UNCHANGED off
  PROVE  CountInv'
<1> DEFINE c == frame.cur
           N == Cardinality(FreeSet(View))
           M == Cardinality(FreeSet(View'))
<1>0. pc = "unput" /\ c \in Usable /\ UNCHANGED mounted /\ info \in Infos /\ frame.op = "unlink"
  BY FreeCases
<1>1. mounted /\ mounted' /\ ~Linking
  BY <1>0, StillMounted DEF Linking
<1>2. /\ N \in Nat /\ N <= CLUST_CNT /\ IsFiniteSet(FreeSet(View)) /\ M \in Nat /\ CLUST_CNT \in Nat
  BY FreeSetFacts, Layout
<1>3. /\ harm \in Nat /\ off \in 0 .. WIDTH - 1 /\ ~IsFree(View, c)
      /\ harm = 0 => info.free_cnt = Counted(N, off)
  <2>1. N + 0 = N
    BY <1>2
  <2>2. harm = 0 => info.free_cnt = Counted(N + 0, off)
    BY <1>1 DEF CountInv
  <2> QED
    BY <1>0, <2>1, <2>2 DEF CountInv
<1>4. CASE Quiet /\ Harmed /\ Return(frame, "IO")
  BY <1>4, CountHarmed DEF Return
<1>5. CASE PutDone(Put(1, c, FREE)) /\ UNCHANGED info /\ pc' = "unput" /\ frame'.cur = c
  <2>1. SameFat /\ UNCHANGED harm /\ ~Linking'
    BY <1>5, MirrorPut DEF Linking
  <2>2. ~IsFree(View', frame'.cur)
    BY <1>0, <1>3, <1>5, <2>1, SameFree
  <2> QED
    BY <1>1, <1>5, <2>1, <2>2, CountCalm
<1>6. CASE PutDone(Put(0, c, FREE)) /\ CountFreed /\ pc' \in {"sync", "free"}
  <2>1. FreeSet(View') = FreeSet(View) \cup {c} /\ harm' = harm
    <3>1. FREE \in Nat
      BY DEF FREE
    <3> QED
      BY <1>0, <1>6, <3>1, FreeSetPut DEF PutDone
  <2>2. M = N + 1
    <3>1. c \notin FreeSet(View)
      BY <1>3 DEF FreeSet
    <3> QED
      BY <1>2, <2>1, <3>1, FS_AddElement
  <2>3. harm = 0 => info'.free_cnt = Counted(M, off)
    <3> HIDE DEF M, N
    <3> SUFFICES ASSUME harm = 0 PROVE info'.free_cnt = Counted(M, off)
      OBVIOUS
    <3>1. (info.free_cnt + 1) % WIDTH = Counted(N + 1, off)
      BY <1>2, <1>3, <2>2, CountsUp
    <3> QED
      BY <1>0, <1>6, <2>2, <3>1 DEF CountFreed, Infos
  <2>4. ~Linking'
    BY <1>6 DEF Linking
  <2>5. harm' = 0 => info'.free_cnt = Counted(M + (IF Linking' THEN 1 ELSE 0), off')
    <3>1. M + (IF Linking' THEN 1 ELSE 0) = M
      BY <1>2, <2>4
    <3> QED
      BY <2>1, <2>3, <3>1
  <2> QED
    BY <1>1, <1>3, <1>6, <2>1, <2>5 DEF CountInv
<1> QED
  BY <1>4, <1>5, <1>6, FreeCases

(* sync_fs at its end: a volume that is unmounted is on disk, FSInfo too. *)
LEMMA SyncedCount ==
  ASSUME CallInv, CountInv, pc \in {"sync", "sync_end", "info", "info_end"},
         Quiet, disk' = View, info \in {View[InfoSect], ReadInfo(View[InfoSect])},
         UNCHANGED off, UNCHANGED <<info, mounted, harm>>, Synced
  PROVE  CountInv'
<1>1. SameFat /\ ~Linking
  BY QuietFat DEF Linking
<1>2. /\ pc' \in {"idle", "dir_add", "rm_entry"} /\ ~Linking'
      /\ pc' # "idle" => frame.op \in {"create", "unlink"} /\ frame' = frame
  BY DEF Synced, Return, Goto, Linking
<1>3. CASE mounted
  BY <1>1, <1>2, <1>3, CountCalm
<1>4. CASE ~mounted
  <2>1. pc' = "idle" /\ ~mounted'
    BY <1>2, <1>4, StillMounted
  <2>2. FreeSet(View') = FreeSet(View) /\ View' = View /\ View' = disk'
    BY <1>1, SameFree DEF Quiet
  <2>3. harm = 0 => info.free_cnt = Counted(Cardinality(FreeSet(View)) + 0, off)
    BY <1>1 DEF CountInv
  <2>4. Cardinality(FreeSet(View)) + 0 = Cardinality(FreeSet(View))
    BY FreeSetFacts
  <2>41. View[InfoSect].signed => View[InfoSect].free_cnt = info.free_cnt
    <3>1. View[InfoSect] \in Infos
      BY ViewFacts, VolumeFacts DEF CallInv
    <3> QED
      BY <3>1, ReadInfoFacts
  <2>5. harm' = 0 /\ disk'[InfoSect].signed => disk'[InfoSect].free_cnt = Counted(Cardinality(FreeSet(disk')), off')
    BY <2>2, <2>3, <2>4, <2>41
  <2> QED
    BY <2>1, <2>2, <2>5 DEF CountInv
<1> QED
  BY <1>3, <1>4

LEMMA SyncCount ==
  ASSUME CallInv, CountInv, SyncFs \/ WriteInfo, UNCHANGED off
  PROVE  CountInv'
<1>0. StoreInv /\ InfoInv /\ pc \in {"sync", "sync_end", "info", "info_end"} /\ info \in Infos
  BY DEF CallInv, InfoInv, SyncFs, WriteInfo
<1>1. CASE Harmed /\ Return(frame, "IO")
  BY <1>1, CountHarmed DEF Return
<1>2. CASE /\ Quiet /\ disk' = View /\ info \in {View[InfoSect], ReadInfo(View[InfoSect])} /\ Synced
           /\ UNCHANGED <<info, mounted, harm>>
  BY <1>0, <1>2, SyncedCount
<1>3. CASE SyncFs
  <2>1. /\ pc \in {"sync", "sync_end"} /\ UNCHANGED <<info, infoDirty, mounted>>
        /\ \/ Quiet /\ Harmed /\ Return(frame, "IO")
           \/ Quiet /\ disk' = View /\ ~infoDirty /\ UNCHANGED harm /\ Synced
           \/ /\ StoreInv' /\ View' = [View EXCEPT ![InfoSect] = info] /\ UNCHANGED harm
              /\ Goto(IF pc = "sync" THEN "info" ELSE "info_end", frame)
    BY <1>0, <1>3, SyncFsFacts
  <2>2. ~infoDirty => info \in {View[InfoSect], ReadInfo(View[InfoSect])}
    BY <1>0 DEF InfoInv
  <2>3. CASE /\ StoreInv' /\ View' = [View EXCEPT ![InfoSect] = info] /\ UNCHANGED harm
             /\ Goto(IF pc = "sync" THEN "info" ELSE "info_end", frame)
    <3>1. SameFat
      <4>1. Volume(View) /\ info \in Kind(InfoSect)
        BY <1>0, ViewFacts DEF Kind
      <4> QED
        BY <2>3, <4>1, OtherWritten DEF SameFat
    <3>2. pc' \in {"info", "info_end"} /\ frame' = frame
      BY <2>3 DEF Goto
    <3>3. ~Linking /\ ~Linking'
      BY <1>0, <3>2 DEF Linking
    <3>4. ~mounted' => frame'.op = "umount"
      BY <1>0, <2>1, <3>2 DEF CountInv
    <3> QED
      BY <1>0, <2>1, <2>3, <3>1, <3>2, <3>3, <3>4, CountCalm
  <2> QED
    BY <1>1, <1>2, <2>1, <2>2, <2>3
<1>4. CASE WriteInfo
  <2>1. /\ pc \in {"info", "info_end"} /\ UNCHANGED <<info, mounted>> /\ Quiet
        /\ \/ Harmed /\ Return(frame, "IO")
           \/ disk' = View /\ UNCHANGED harm /\ Synced
    BY <1>0, <1>4, WriteInfoFacts
  <2>2. sect = InfoSect /\ buf = info
    BY <1>0, <2>1 DEF InfoInv
  <2>3. Loaded(InfoSect) = View[InfoSect]
    BY <1>0, ViewFacts, SpecialSectors
  <2>4. View[InfoSect] = info
    BY <2>2, <2>3 DEF Loaded
  <2> QED
    BY <1>1, <1>2, <2>1, <2>4
<1> QED
  BY <1>3, <1>4

LEMMA DirCount ==
  ASSUME CallInv, CountInv, DirAdd \/ RemoveEntries, UNCHANGED off
  PROVE  CountInv'
<1>0. /\ StoreInv /\ pc \in {"dir_add", "rm_entry"} /\ frame.slot \in Slots
      /\ frame.op \in {"create", "guess", "unlink"}
      /\ pc = "dir_add" => frame.cur \in Usable
  BY DEF CallInv, FrameInv, DirAdd, RemoveEntries
<1>1. /\ UNCHANGED <<info, infoDirty, mounted>>
      /\ \/ Quiet /\ Harmed /\ Return(frame, "IO")
         \/ \E v : DirSet(frame.slot, v) /\ pc' \in {"idle", "sync_end"}
  <2>1. CASE DirAdd
    <3>1. frame.cur \in Usable
      BY <1>0, <2>1 DEF DirAdd
    <3> QED
      BY <1>0, <2>1, <3>1, DirAddFacts DEF Return
  <2>2. CASE RemoveEntries
    BY <1>0, <2>2, RemoveEntriesFacts DEF Goto
  <2> QED
    BY <2>1, <2>2
<1>2. mounted /\ mounted' /\ ~Linking
  BY <1>0, <1>1, StillMounted DEF Linking
<1>3. CASE Harmed /\ Return(frame, "IO")
  BY <1>3, CountHarmed DEF Return
<1>4. ASSUME NEW v, DirSet(frame.slot, v), pc' \in {"idle", "sync_end"}
      PROVE  CountInv'
  <2>1. SameFat /\ UNCHANGED harm
    BY <1>4 DEF DirSet, SameFat
  <2>2. ~Linking'
    BY <1>4 DEF Linking
  <2> QED
    BY <1>1, <1>2, <1>4, <2>1, <2>2, CountCalm
<1> QED
  BY <1>1, <1>3, <1>4

LEMMA MountCount ==
  ASSUME CallInv, CountInv, (UNCHANGED off /\ (FatSync \/ FatUmount \/ Crash)) \/ Mount
  PROVE  CountInv'
<1>0. StoreInv /\ InfoInv
  BY DEF CallInv
<1>1. CASE UNCHANGED off /\ (FatSync \/ FatUmount)
  <2>1. /\ pc = "idle" /\ mounted /\ UNCHANGED bufVars /\ UNCHANGED harm
        /\ pc' = "sync_end" /\ (~mounted' => frame' = Frame("umount", "none", 0, 0))
    BY <1>1 DEF FatSync, FatUmount, Goto
  <2>2. SameFat /\ UNCHANGED info
    BY <2>1 DEF SameFat, View, Flushed, bufVars
  <2>3. ~mounted' => frame'.op = "umount"
    BY <2>1 DEF Frame
  <2>4. ~Linking /\ ~Linking'
    BY <2>1 DEF Linking
  <2> QED
    BY <1>1, <2>1, <2>2, <2>3, <2>4, CountCalm
<1>2. CASE Mount
  <2>1. /\ pc = "idle" /\ ~mounted /\ UNCHANGED <<pc, frame>>
        /\ \/ Harmed /\ UNCHANGED off
           \/ /\ View' = disk /\ UNCHANGED <<disk, harm>> /\ mounted' = TRUE
              /\ disk[InfoSect] \in Infos /\ info' = ReadInfo(disk[InfoSect])
              /\ off' = (IF disk[InfoSect].signed THEN off ELSE WIDTH - 1 - FreeClusts(disk))
    BY <1>0, <1>2, MountFacts
  <2>2. ~Linking' /\ pc' = "idle"
    BY <2>1 DEF Linking
  <2>3. CASE Harmed /\ UNCHANGED off
    BY <2>2, <2>3, CountHarmed
  <2>4. CASE /\ View' = disk /\ UNCHANGED <<disk, harm>> /\ mounted' = TRUE
             /\ disk[InfoSect] \in Infos /\ info' = ReadInfo(disk[InfoSect])
             /\ off' = (IF disk[InfoSect].signed THEN off ELSE WIDTH - 1 - FreeClusts(disk))
    <3> DEFINE M == Cardinality(FreeSet(disk))
    <3>1. M \in Nat /\ M <= CLUST_CNT /\ M = FreeClusts(disk)
      BY FreeSetFacts DEF FreeSet, FreeClusts
    <3>2. WIDTH \in Nat /\ WIDTH > 0 /\ M <= WIDTH - 1
      BY <3>1, VolumeAssumption
    <3> HIDE DEF M
    <3>3. off' \in 0 .. WIDTH - 1 /\ (harm = 0 => info'.free_cnt = Counted(M, off'))
      <4>1. CASE disk[InfoSect].signed
        BY <2>1, <2>4, <4>1, ReadInfoFacts DEF CountInv, M
      <4>2. CASE ~disk[InfoSect].signed
        <5>1. off' = WIDTH - 1 - M /\ info'.free_cnt = WIDTH - 1
          BY <2>4, <3>1, <4>2, ReadInfoFacts
        <5>2. M + off' = WIDTH - 1 /\ off' \in 0 .. WIDTH - 1
          BY <3>1, <3>2, <5>1
        <5>3. (WIDTH - 1) % WIDTH = WIDTH - 1
          BY <3>2
        <5> QED
          BY <5>1, <5>2, <5>3 DEF Counted
      <4> QED
        BY <4>1, <4>2
    <3>4. harm' = 0 => info'.free_cnt = Counted(Cardinality(FreeSet(View')) + (IF Linking' THEN 1 ELSE 0), off')
      <4>1. Cardinality(FreeSet(View')) + (IF Linking' THEN 1 ELSE 0) = M
        BY <2>2, <2>4, <3>1 DEF M
      <4> QED
        BY <2>4, <3>3, <4>1
    <3> QED
      BY <2>2, <2>4, <3>3, <3>4 DEF CountInv
  <2> QED
    BY <2>1, <2>3, <2>4
<1>3. CASE UNCHANGED off /\ Crash
  BY <1>0, <1>3, CrashFacts, CountHarmed
<1> QED
  BY <1>1, <1>2, <1>3

LEMMA NextCount == CallInv /\ CallInv' /\ CountInv /\ [Next]_vars => CountInv'
<1> SUFFICES ASSUME CallInv, CallInv', CountInv, [Next]_vars PROVE CountInv'
  OBVIOUS
<1>1. ASSUME NEW n \in Slots, Create(n) \/ Grow(n) \/ Unlink(n), UNCHANGED off PROVE CountInv'
  BY <1>1, BeginCount
<1>2. CASE Step
  BY <1>2, WalkCount, SeekCount, StretchCount, FreeNextCount, FreeCount, SyncCount, DirCount DEF Step
<1>3. CASE (UNCHANGED off /\ (FatSync \/ FatUmount \/ Crash)) \/ Mount
  BY <1>3, MountCount
<1>4. CASE UNCHANGED vars
  <2>1. View' = View
    BY <1>4 DEF View, Flushed, vars, bufVars
  <2> QED
    BY <1>4, <2>1 DEF CountInv, Linking, vars, bufVars
<1> QED
  BY <1>1, <1>2, <1>3, <1>4 DEF Next

(* The volume as it comes has all clusters free but the root directory's. *)
LEMMA InitCount == Init => CountInv
<1> SUFFICES ASSUME Init PROVE CountInv
  OBVIOUS
<1>1. View = disk /\ ~mounted /\ pc = "idle" /\ off \in 0 .. WIDTH - 1
  BY InitVolume
<1>11. harm = 0
  BY DEF Init
<1>2. PICK root \in Usable :
        /\ disk[InfoSect].free_cnt = (CLUST_CNT + 1 - root + off) % WIDTH
        /\ \A t \in {0, 1}, c \in AllClusts : FatEntry(disk, t, c) = FirstEntry(root, c)
  BY InitVolume
<1>3. FreeSet(disk) = root + 1 .. CLUST_CNT + 1
  <2>1. \A c \in 2 .. CLUST_CNT + 1 : IsFree(disk, c) <=> c > root
    <3> SUFFICES ASSUME NEW c \in 2 .. CLUST_CNT + 1 PROVE IsFree(disk, c) <=> c > root
      OBVIOUS
    <3>1. FatEntry(disk, 0, c) = FirstEntry(root, c)
      BY <1>2, FreeSetFacts
    <3>2. EOC # FREE /\ c + 1 # FREE /\ root \in Nat /\ c \in Nat
      BY UsableClusts, Layout DEF FREE
    <3>3. FirstEntry(root, c) = FREE <=> c > root
      BY <3>2 DEF FirstEntry
    <3> QED
      BY <3>1, <3>3 DEF IsFree
  <2>2. FreeSet(disk) = {c \in 2 .. CLUST_CNT + 1 : c > root}
    BY <2>1 DEF FreeSet
  <2>3. {c \in 2 .. CLUST_CNT + 1 : c > root} = root + 1 .. CLUST_CNT + 1
    BY Layout DEF Usable
  <2> QED
    BY <2>2, <2>3
<1>4. Cardinality(root + 1 .. CLUST_CNT + 1) = CLUST_CNT + 1 - root
  <2>1. /\ CLUST_CNT + 1 \in Int /\ root + 1 \in Int /\ CLUST_CNT \in Nat /\ root \in Nat
        /\ root + 1 <= CLUST_CNT + 1
    BY Layout DEF Usable
  <2>2. Cardinality(root + 1 .. CLUST_CNT + 1) =
          IF root + 1 > CLUST_CNT + 1 THEN 0 ELSE (CLUST_CNT + 1) - (root + 1) + 1
    BY <2>1, FS_Interval
  <2> QED
    BY <2>1, <2>2
<1>5. disk[InfoSect].free_cnt = Counted(Cardinality(FreeSet(disk)), off)
  BY <1>2, <1>3, <1>4 DEF Counted
<1> QED
  BY <1>1, <1>11, <1>5 DEF CountInv

LEMMA CountInvariant == Spec => [](CallInv /\ CountInv)
<1>1. Init => CallInv /\ CountInv
  BY InitCall, InitCount
<1>2. CallInv /\ CountInv /\ [Next]_vars => CallInv' /\ CountInv'
  BY NextCall, NextCount
<1> QED
  BY <1>1, <1>2, PTL DEF Spec

(* Between calls fat->free_cnt follows the number of free entries of the   *)
(* FAT, through create_chain, stretch_chain, remove_chain and any number   *)
(* of unmounts and mounts, as long as nothing has failed: whatever FSInfo  *)
(* said when the volume came, or fat_mount made up for want of signatures, *)
(* the difference never grows.                                             *)
THEOREM FreeCountIsExact == Spec => []FreeCountExact
<1>1. CallInv /\ CountInv => FreeCountExact
  <2> SUFFICES ASSUME CallInv, CountInv, pc = "idle", mounted, harm = 0
               PROVE  info.free_cnt = (FreeClusts(View) + off) % WIDTH
    BY DEF FreeCountExact
  <2>1. ~Linking
    BY DEF Linking
  <2>2. info.free_cnt = Counted(Cardinality(FreeSet(View)) + 0, off)
    BY <2>1 DEF CountInv
  <2>3. Cardinality(FreeSet(View)) + 0 = FreeClusts(View)
    <3>1. FreeClusts(View) = Cardinality(FreeSet(View))
      BY DEF FreeSet, FreeClusts
    <3>2. Cardinality(FreeSet(View)) \in Nat
      BY FreeSetFacts
    <3> QED
      BY <3>1, <3>2
  <2> QED
    BY <2>2, <2>3 DEF Counted
<1> QED
  BY <1>1, CountInvariant, PTL

-----------------------------------------------------------------------------
(* The two copies of the FAT.  On the volume as the code reads it they     *)
(* differ in one entry for each failure so far, besides the one entry      *)
(* whose mirror is set and whose active copy is not yet.  A put_fat2 call  *)
(* finds the other table in the buffer, so it writes what the call before  *)
(* it has changed, and the disk lags behind by one entry at most.          *)

Differ(d) == {c \in Usable : FatEntry(d, 1, c) # FatEntry(d, 0, c)}
Pending ==
  IF pc \in {"put", "unput"} /\ Head(frame.puts).table = 0 THEN {Head(frame.puts).clust} ELSE {}

LagInv ==
  /\ Cardinality(Differ(View) \ Pending) <= harm
  /\ ~mounted /\ pc = "idle" => Cardinality(Differ(disk)) <= harm
  /\ \E x \in Usable :
       /\ Pending \in {{}, {x}}
       /\ \A t \in {0, 1}, b \in Usable : b # x => FatEntry(disk, t, b) = FatEntry(View, t, b)
  /\ pc \in {"put", "unput"} =>
       /\ Head(frame.puts).table = 1 => sect \in FatTable(0)
       /\ Head(frame.puts).table = 0 =>
            /\ sect \in FatTable(1)
            /\ FatEntry(View, 1, Head(frame.puts).clust) = Head(frame.puts).val

LEMMA UsableFinite == IsFiniteSet(Usable)
<1>1. 2 \in Int /\ CLUST_CNT - 1 \in Int
  BY Layout
<1> QED
  BY <1>1, FS_Interval DEF Usable

LEMMA DifferFacts ==
  ASSUME NEW d, NEW S \in SUBSET Differ(d)
  PROVE  IsFiniteSet(S) /\ Cardinality(S) \in Nat
<1>1. S \subseteq Usable
  BY DEF Differ
<1>2. IsFiniteSet(S)
  BY <1>1, UsableFinite, FS_Subset
<1> QED
  BY <1>2, FS_CardinalityType

(* A set of clusters is at most one larger without one of them. *)
LEMMA OneMore ==
  ASSUME NEW S, NEW T, IsFiniteSet(T), NEW x, S \subseteq T \cup {x}, NEW n \in Nat, Cardinality(T) <= n
  PROVE  Cardinality(S) <= n + 1
<1>1. IsFiniteSet(T \cup {x}) /\ Cardinality(T \cup {x}) \in {Cardinality(T), Cardinality(T) + 1}
  BY FS_AddElement
<1>2. IsFiniteSet(S) /\ Cardinality(S) <= Cardinality(T \cup {x})
  BY <1>1, FS_Subset
<1>3. Cardinality(T) \in Nat /\ Cardinality(S) \in Nat /\ Cardinality(T \cup {x}) \in Nat
  BY <1>1, <1>2, FS_CardinalityType
<1> QED
  BY <1>1, <1>2, <1>3

LEMMA NoMore ==
  ASSUME NEW S, NEW T, IsFiniteSet(T), S \subseteq T, NEW n \in Nat, Cardinality(T) <= n
  PROVE  Cardinality(S) <= n
<1>1. IsFiniteSet(S) /\ Cardinality(S) <= Cardinality(T)
  BY FS_Subset
<1>2. Cardinality(T) \in Nat /\ Cardinality(S) \in Nat
  BY <1>1, FS_CardinalityType
<1> QED
  BY <1>1, <1>2

(* What the failures so far allow, for the volume and for the disk. *)
LEMMA LagBound ==
  ASSUME LagInv, harm \in Nat
  PROVE  /\ Cardinality(Differ(View)) <= harm + 1
         /\ Pending = {} => Cardinality(Differ(View)) <= harm
         /\ Cardinality(Differ(disk)) <= harm + 1
<1> DEFINE T == Differ(View) \ Pending
<1>1. PICK x \in Usable :
        /\ Pending \in {{}, {x}}
        /\ \A t \in {0, 1}, b \in Usable : b # x => FatEntry(disk, t, b) = FatEntry(View, t, b)
  BY DEF LagInv
<1>2. Cardinality(T) <= harm /\ IsFiniteSet(T)
  <2>1. T \in SUBSET Differ(View)
    OBVIOUS
  <2> QED
    BY <2>1, DifferFacts DEF LagInv
<1>3. Differ(View) \subseteq T \cup {x}
  BY <1>1
<1>4. Differ(disk) \subseteq T \cup {x}
  <2> SUFFICES ASSUME NEW c \in Usable, FatEntry(disk, 1, c) # FatEntry(disk, 0, c), c # x
               PROVE  c \in T
    BY DEF Differ
  <2>1. FatEntry(View, 1, c) # FatEntry(View, 0, c)
    BY <1>1
  <2>2. c \notin Pending
    BY <1>1
  <2> QED
    BY <2>1, <2>2 DEF Differ
<1>5. Pending = {} => Cardinality(Differ(View)) <= harm
  BY <1>2
<1> HIDE DEF T
<1> QED
  BY <1>2, <1>3, <1>4, <1>5, OneMore

(* A step that leaves both tables alone. *)
LEMMA LagCalm ==
  ASSUME LagInv, harm \in Nat,
         \A t \in {0, 1}, b \in AllClusts : FatEntry(View', t, b) = FatEntry(View, t, b),
         disk' \in {disk, View},
         Harmed \/ (UNCHANGED harm /\ Pending = {} /\ (mounted' \/ pc' # "idle" \/ disk' = View)),
         pc' \in {"put", "unput"} => sect' \in FatTable(0) /\ Head(frame'.puts).table = 1
  PROVE  LagInv'
<1>1. Pending' = {}
  BY DEF Pending
<1>2. \A t \in {0, 1}, b \in Usable : FatEntry(View', t, b) = FatEntry(View, t, b)
  BY UsableClusts
<1>3. Differ(View') = Differ(View)
  BY <1>2 DEF Differ
<1>4. Cardinality(Differ(View)) \in Nat /\ Cardinality(Differ(disk)) \in Nat
  BY DifferFacts
<1>5. Cardinality(Differ(View)) <= harm'
  BY <1>4, LagBound DEF Harmed
<1>6. Cardinality(Differ(View') \ Pending') <= harm'
  BY <1>1, <1>3, <1>5
<1>7. ~mounted' /\ pc' = "idle" => Cardinality(Differ(disk')) <= harm'
  <2>1. CASE disk' = View
    BY <1>5, <2>1
  <2>2. CASE disk' # View
    BY <2>2, LagBound DEF Harmed
  <2> QED
    BY <2>1, <2>2
<1>8. \E x \in Usable :
        /\ Pending' \in {{}, {x}}
        /\ \A t \in {0, 1}, b \in Usable : b # x => FatEntry(disk', t, b) = FatEntry(View', t, b)
  <2>1. CASE disk' = View
    BY <1>1, <1>2, <2>1, UsableClusts
  <2>2. CASE disk' = disk
    BY <1>1, <1>2, <2>2 DEF LagInv
  <2> QED
    BY <2>1, <2>2
<1> QED
  BY <1>6, <1>7, <1>8 DEF LagInv

(* put_fat2 on the mirror. *)
LEMMA LagMirror ==
  ASSUME LagInv, harm \in Nat, NEW c \in Usable, NEW v \in Nat, PutDone(Put(1, c, v)),
         pc \in {"put", "unput"}, Head(frame.puts) = Put(1, c, v),
         pc' \in {"put", "unput"}, Head(frame'.puts) = Put(0, c, v)
  PROVE  LagInv'
<1>1. Pending = {} /\ sect \in FatTable(0)
  BY DEF Pending, LagInv, Put
<1>2. Pending' = {c} /\ Head(frame'.puts).table = 0 /\ Head(frame'.puts).clust = c /\ Head(frame'.puts).val = v
  BY DEF Pending, Put
<1>3. \A u \in {0, 1}, b \in AllClusts :
        FatEntry(View', u, b) = IF u = 1 /\ b = c THEN v ELSE FatEntry(View, u, b)
  BY DEF PutDone, Put
<1>4. /\ \A u \in {0, 1}, b \in Usable : b # c => FatEntry(View', u, b) = FatEntry(View, u, b)
      /\ FatEntry(View', 1, c) = v
  BY <1>3, UsableClusts
<1>5. sect' \in FatTable(1)
  BY InTable, UsableClusts DEF PutDone, Put
<1>6. disk' = View /\ harm' = harm
  BY <1>1, <1>5, TablesApart DEF PutDone
<1>7. Differ(View') \ Pending' \subseteq Differ(View)
  BY <1>2, <1>4 DEF Differ
<1>8. Cardinality(Differ(View)) <= harm /\ IsFiniteSet(Differ(View))
  BY <1>1, LagBound, DifferFacts
<1>9. Cardinality(Differ(View') \ Pending') <= harm'
  BY <1>6, <1>7, <1>8, NoMore
<1>10. \E x \in Usable :
        /\ Pending' \in {{}, {x}}
        /\ \A t \in {0, 1}, b \in Usable : b # x => FatEntry(disk', t, b) = FatEntry(View', t, b)
  BY <1>2, <1>4, <1>6
<1>11. pc' \in {"put", "unput"} =>
         /\ Head(frame'.puts).table = 1 => sect' \in FatTable(0)
         /\ Head(frame'.puts).table = 0 =>
              /\ sect' \in FatTable(1)
              /\ FatEntry(View', 1, Head(frame'.puts).clust) = Head(frame'.puts).val
  BY <1>2, <1>4, <1>5
<1> QED
  BY <1>9, <1>10, <1>11 DEF LagInv

(* put_fat2 on the active FAT. *)
LEMMA LagActive ==
  ASSUME LagInv, harm \in Nat, NEW c \in Usable, NEW v \in Nat, PutDone(Put(0, c, v)),
         pc \in {"put", "unput"}, Head(frame.puts) = Put(0, c, v),
         pc' # "idle", pc' \in {"put", "unput"} => Head(frame'.puts).table = 1
  PROVE  LagInv'
<1>1. Pending = {c} /\ sect \in FatTable(1) /\ FatEntry(View, 1, c) = v
  BY DEF Pending, LagInv, Put
<1>2. Pending' = {}
  BY DEF Pending
<1>3. \A u \in {0, 1}, b \in AllClusts :
        FatEntry(View', u, b) = IF u = 0 /\ b = c THEN v ELSE FatEntry(View, u, b)
  BY DEF PutDone, Put
<1>4. /\ \A u \in {0, 1}, b \in Usable : b # c => FatEntry(View', u, b) = FatEntry(View, u, b)
      /\ FatEntry(View', 0, c) = v /\ FatEntry(View', 1, c) = v
  BY <1>1, <1>3, UsableClusts
<1>5. sect' \in FatTable(0)
  BY InTable, UsableClusts DEF PutDone, Put
<1>6. disk' = View /\ harm' = harm
  BY <1>1, <1>5, TablesApart DEF PutDone
<1>7. Differ(View') \ Pending' \subseteq Differ(View) \ Pending
  BY <1>1, <1>2, <1>4 DEF Differ
<1>8. Cardinality(Differ(View) \ Pending) <= harm /\ IsFiniteSet(Differ(View) \ Pending)
  <2>1. Differ(View) \ Pending \in SUBSET Differ(View)
    OBVIOUS
  <2> QED
    BY <2>1, DifferFacts DEF LagInv
<1>9. Cardinality(Differ(View') \ Pending') <= harm'
  BY <1>6, <1>7, <1>8, NoMore
<1>10. \E x \in Usable :
        /\ Pending' \in {{}, {x}}
        /\ \A t \in {0, 1}, b \in Usable : b # x => FatEntry(disk', t, b) = FatEntry(View', t, b)
  BY <1>2, <1>4, <1>6
<1> QED
  BY <1>5, <1>9, <1>10 DEF LagInv

(* put_fat starts with the mirror. *)
LEMMA MirrorFirst ==
  ASSUME Mirror, NEW prev \in Usable \cup {0}, NEW c \in Usable
  PROVE  /\ Head(StretchPuts(prev, c)).table = 1
         /\ Head(put_fat(c, FREE)).table = 1
<1> DEFINE m1 == Put(1, c, EOC)
           m0 == Put(0, c, EOC)
           l == IF prev # 0 THEN put_fat(prev, c) ELSE <<>>
<1>0. EOC \in Nat /\ FREE \in Nat /\ c \in Nat
  BY UsableClusts DEF FREE
<1>1. StretchPuts(prev, c) = <<m1, m0>> \o l
  BY PutFatPuts DEF StretchPuts
<1>2. m1 \in Puts /\ m0 \in Puts
  BY <1>0 DEF Put, Puts
<1>3. l \in Seq(Puts)
  <2>1. CASE prev = 0
    BY <2>1
  <2>2. CASE prev # 0
    <3>1. l = <<Put(1, prev, c), Put(0, prev, c)>>
      BY <2>2, PutFatPuts
    <3>2. Put(1, prev, c) \in Puts /\ Put(0, prev, c) \in Puts
      BY <1>0, <2>2 DEF Put, Puts
    <3>3. <<Put(1, prev, c), Put(0, prev, c)>> \in Seq(Puts)
      BY <3>2
    <3> QED
      BY <3>1, <3>3
  <2> QED
    BY <2>1, <2>2
<1>4. Head(StretchPuts(prev, c)) = m1
  <2> HIDE DEF m1, m0, l
  <2> DEFINE a == <<m1, m0>>
  <2>1. a \in Seq(Puts) /\ Len(a) = 2 /\ a[1] = m1
    BY <1>2
  <2> HIDE DEF a
  <2>2. /\ a \o l \in Seq(Puts) /\ Len(a \o l) = Len(a) + Len(l)
        /\ \A i \in 1 .. Len(a) + Len(l) : (a \o l)[i] = IF i <= Len(a) THEN a[i] ELSE l[i - Len(a)]
    BY <1>3, <2>1, ConcatProperties
  <2>5. Len(l) \in Nat
    BY <1>3, LenProperties
  <2>3. (a \o l)[1] = m1
    BY <2>1, <2>2, <2>5
  <2>4. Head(a \o l) = (a \o l)[1]
    BY <2>1, <2>2, <2>5
  <2> QED
    BY <1>1, <2>3, <2>4 DEF a
<1>5. put_fat(c, FREE) = <<Put(1, c, FREE), Put(0, c, FREE)>>
  BY PutFatPuts
<1>6. Head(put_fat(c, FREE)) = Put(1, c, FREE)
  <2>1. Put(1, c, FREE) \in Puts /\ Put(0, c, FREE) \in Puts
    BY <1>0 DEF Put, Puts
  <2> QED
    BY <1>5, <2>1, Short
<1> QED
  BY <1>4, <1>6 DEF Put

LEMMA LagQuiet ==
  ASSUME LagInv, harm \in Nat, Quiet,
         Harmed \/ (UNCHANGED harm /\ pc \notin {"put", "unput"} /\ (mounted' \/ pc' # "idle" \/ disk' = View)),
         pc' \in {"put", "unput"} => sect' \in FatTable(0) /\ Head(frame'.puts).table = 1
  PROVE  LagInv'
BY LagCalm DEF Quiet, Pending

LEMMA BeginLag ==
  ASSUME CallInv, CountInv, LagInv, NEW n \in Slots, Create(n) \/ Grow(n) \/ Unlink(n)
  PROVE  LagInv'
<1>0. StoreInv /\ harm \in Nat
  BY DEF CallInv, CountInv
<1>1. /\ Quiet /\ pc = "idle" /\ mounted /\ mounted'
      /\ Harmed \/ UNCHANGED harm
      /\ pc' \in {"idle", "walk", "free", "scan"}
  BY <1>0, BeginFacts
<1> QED
  BY <1>0, <1>1, LagQuiet

LEMMA SeekLag ==
  ASSUME CallInv, CountInv, Mirror, LagInv, Walk \/ CheckNext \/ Scan \/ FreeNext
  PROVE  LagInv'
<1>0. /\ StoreInv /\ harm \in Nat /\ pc \in {"walk", "next", "scan", "free"}
      /\ pc # "scan" => frame.cur \in Usable
      /\ frame.op # "umount" /\ frame \in Frames /\ frame.prev \in Usable \cup {0}
  BY DEF CallInv, CountInv, FrameInv, Walk, CheckNext, Scan, FreeNext, Frames
<1>1. mounted
  BY <1>0, StillMounted
<1>2. /\ Quiet /\ UNCHANGED mounted
      /\ Harmed \/ UNCHANGED harm
      /\ \/ pc' \notin {"put", "unput"}
         \/ \E c \in Usable : TakeCluster(c) /\ sect' \in FatTable(0)
         \/ /\ pc' = "unput" /\ sect' \in FatTable(0) /\ frame.cur \in Usable
            /\ frame' = [frame EXCEPT !.next = FatEntry(View, 0, frame.cur), !.puts = put_fat(frame.cur, FREE)]
  <2>1. CASE Walk
    <3>1. frame.cur \in Usable
      BY <1>0, <2>1 DEF Walk
    <3> QED
      BY <1>0, <2>1, <3>1, WalkFacts DEF Return, Goto
  <2>2. CASE CheckNext
    <3>1. frame.cur \in Usable
      BY <1>0, <2>2 DEF CheckNext
    <3> QED
      BY <1>0, <2>2, <3>1, CheckNextFacts DEF Return, Goto
  <2>3. CASE Scan
    <3>1. frame.cur \in Nat /\ (IsFree(View, NextClust(frame.cur)) => NextClust(frame.cur) \in Usable)
      BY <2>3, ScanReaches
    <3> QED
      BY <1>0, <2>3, <3>1, ScanFacts DEF Return, Goto
  <2>4. CASE FreeNext
    <3>1. frame.cur \in Usable
      BY <1>0, <2>4 DEF FreeNext
    <3> QED
      BY <1>0, <2>4, <3>1, FreeNextFacts DEF Return, Goto
  <2> QED
    BY <2>1, <2>2, <2>3, <2>4
<1>3. CASE pc' \notin {"put", "unput"}
  BY <1>0, <1>1, <1>2, <1>3, LagQuiet
<1>4. ASSUME NEW c \in Usable, TakeCluster(c), sect' \in FatTable(0) PROVE LagInv'
  <2>1. frame'.puts = StretchPuts(frame.prev, c) /\ pc' = "put"
    BY <1>0, <1>4 DEF TakeCluster, Goto, Frames
  <2>2. Head(frame'.puts).table = 1
    BY <1>0, <1>4, <2>1, MirrorFirst
  <2> QED
    BY <1>0, <1>1, <1>2, <1>4, <2>1, <2>2, LagQuiet
<1>5. CASE /\ pc' = "unput" /\ sect' \in FatTable(0) /\ frame.cur \in Usable
           /\ frame' = [frame EXCEPT !.next = FatEntry(View, 0, frame.cur), !.puts = put_fat(frame.cur, FREE)]
  <2>1. frame'.puts = put_fat(frame.cur, FREE)
    BY <1>0, <1>5 DEF Frames
  <2>2. Head(frame'.puts).table = 1
    BY <1>0, <1>5, <2>1, MirrorFirst
  <2> QED
    BY <1>0, <1>1, <1>2, <1>5, <2>2, LagQuiet
<1> QED
  BY <1>2, <1>3, <1>4, <1>5

LEMMA StretchLag ==
  ASSUME CallInv, CountInv, Mirror, LagInv, PutStretch
  PROVE  LagInv'
<1> DEFINE c == frame.cur
           prev == frame.prev
<1>0. harm \in Nat /\ pc = "put" /\ c \in Usable /\ EOC \in Nat /\ c \in Nat
  BY StretchCases, UsableClusts DEF CountInv
<1>1. CASE Quiet /\ Harmed /\ Return(frame, "IO")
  BY <1>0, <1>1, LagQuiet DEF Return
<1>2. CASE /\ PutDone(Put(1, c, EOC)) /\ Head(frame.puts) = Put(1, c, EOC)
           /\ Marking' /\ Head(frame'.puts) = Put(0, c, EOC)
  BY <1>0, <1>2, LagMirror DEF Marking
<1>3. CASE /\ PutDone(Put(0, c, EOC)) /\ Head(frame.puts) = Put(0, c, EOC)
           /\ Linking' /\ Head(frame'.puts) = Put(1, prev, c)
  <2>1. pc' = "put" /\ Head(frame'.puts).table = 1
    BY <1>3 DEF Linking, Put
  <2> QED
    BY <1>0, <1>3, <2>1, LagActive
<1>4. CASE PutDone(Put(0, c, EOC)) /\ Head(frame.puts) = Put(0, c, EOC) /\ pc' = "sync"
  BY <1>0, <1>4, LagActive
<1>5. CASE /\ PutDone(Put(1, prev, c)) /\ Head(frame.puts) = Put(1, prev, c) /\ prev \in Usable
           /\ Linking' /\ Head(frame'.puts) = Put(0, prev, c)
  BY <1>0, <1>5, LagMirror DEF Linking
<1>6. CASE /\ PutDone(Put(0, prev, c)) /\ Head(frame.puts) = Put(0, prev, c) /\ prev \in Usable
           /\ pc' = "sync"
  BY <1>0, <1>6, LagActive
<1> QED
  BY <1>1, <1>2, <1>3, <1>4, <1>5, <1>6, StretchCases

LEMMA FreeLag ==
  ASSUME CallInv, CountInv, Mirror, LagInv, PutFree
  PROVE  LagInv'
<1> DEFINE c == frame.cur
<1>0. harm \in Nat /\ pc = "unput" /\ c \in Usable /\ FREE \in Nat
  BY FreeCases, UsableClusts DEF CountInv
<1>1. CASE Quiet /\ Harmed /\ Return(frame, "IO")
  BY <1>0, <1>1, LagQuiet DEF Return
<1>2. CASE /\ PutDone(Put(1, c, FREE)) /\ Head(frame.puts) = Put(1, c, FREE)
           /\ pc' = "unput" /\ Head(frame'.puts) = Put(0, c, FREE)
  BY <1>0, <1>2, LagMirror
<1>3. CASE /\ PutDone(Put(0, c, FREE)) /\ Head(frame.puts) = Put(0, c, FREE) /\ pc' \in {"sync", "free"}
  BY <1>0, <1>3, LagActive
<1> QED
  BY <1>1, <1>2, <1>3, FreeCases

LEMMA SyncLag ==
  ASSUME CallInv, CountInv, LagInv, SyncFs \/ WriteInfo \/ DirAdd \/ RemoveEntries
  PROVE  LagInv'
<1>0. /\ StoreInv /\ harm \in Nat /\ info \in Infos
      /\ pc \in {"sync", "sync_end", "info", "info_end", "dir_add", "rm_entry"}
      /\ pc \in {"dir_add", "rm_entry"} => frame.slot \in Slots /\ frame.op # "umount"
      /\ pc = "dir_add" => frame.cur \in Usable
  BY DEF CallInv, CountInv, FrameInv, InfoInv, Frames, SyncFs, WriteInfo, DirAdd, RemoveEntries
<1>1. Synced => pc' \notin {"put", "unput"}
  BY DEF Synced, Return, Goto
<1>2. CASE SyncFs
  <2>1. \/ Quiet /\ Harmed /\ pc' = "idle"
        \/ Quiet /\ disk' = View /\ UNCHANGED harm /\ Synced
        \/ /\ View' = [View EXCEPT ![InfoSect] = info] /\ disk' = View /\ UNCHANGED harm
           /\ pc' \in {"info", "info_end"}
    BY <1>0, <1>2, SyncFsFacts DEF Return, Goto
  <2>2. CASE /\ View' = [View EXCEPT ![InfoSect] = info] /\ disk' = View /\ UNCHANGED harm
             /\ pc' \in {"info", "info_end"}
    <3>1. Volume(View) /\ info \in Kind(InfoSect)
      BY <1>0, ViewFacts DEF Kind
    <3>2. \A t \in {0, 1}, b \in AllClusts : FatEntry(View', t, b) = FatEntry(View, t, b)
      BY <2>2, <3>1, OtherWritten
    <3>3. Pending = {}
      BY <1>0 DEF Pending
    <3> QED
      BY <1>0, <2>2, <3>2, <3>3, LagCalm
  <2> QED
    BY <1>0, <1>1, <2>1, <2>2, LagQuiet
<1>3. CASE WriteInfo
  <2>1. Quiet /\ \/ Harmed /\ pc' = "idle"
                 \/ disk' = View /\ UNCHANGED harm /\ Synced
    BY <1>0, <1>3, WriteInfoFacts DEF Return
  <2> QED
    BY <1>0, <1>1, <2>1, LagQuiet
<1>4. CASE DirAdd \/ RemoveEntries
  <2>1. pc \in {"dir_add", "rm_entry"} /\ mounted
    BY <1>0, <1>4, StillMounted DEF DirAdd, RemoveEntries
  <2>2. /\ UNCHANGED mounted
        /\ \/ Quiet /\ Harmed /\ pc' = "idle"
           \/ \E v : DirSet(frame.slot, v) /\ pc' \in {"idle", "sync_end"}
    <3>1. CASE DirAdd
      <4>1. frame.cur \in Usable \cup {0} /\ frame.slot \in Slots
        BY <1>0, <3>1 DEF DirAdd
      <4> QED
        BY <1>0, <3>1, <4>1, DirAddFacts DEF Return
    <3>2. CASE RemoveEntries
      BY <1>0, <2>1, <3>2, RemoveEntriesFacts DEF Return, Goto
    <3> QED
      BY <1>4, <3>1, <3>2
  <2>3. CASE Quiet /\ Harmed /\ pc' = "idle"
    BY <1>0, <2>3, LagQuiet
  <2>4. ASSUME NEW v, DirSet(frame.slot, v), pc' \in {"idle", "sync_end"} PROVE LagInv'
    <3>1. /\ \A t \in {0, 1}, b \in AllClusts : FatEntry(View', t, b) = FatEntry(View, t, b)
          /\ disk' \in {disk, View} /\ UNCHANGED harm
      BY <2>4 DEF DirSet
    <3>2. Pending = {}
      BY <1>0 DEF Pending
    <3> QED
      BY <1>0, <2>1, <2>2, <2>4, <3>1, <3>2, LagCalm
  <2> QED
    BY <2>2, <2>3, <2>4
<1> QED
  BY <1>2, <1>3, <1>4

LEMMA MountLag ==
  ASSUME CallInv, CountInv, LagInv, FatSync \/ FatUmount \/ Mount \/ Crash
  PROVE  LagInv'
<1>0. StoreInv /\ harm \in Nat
  BY DEF CallInv, CountInv
<1>1. CASE FatSync \/ FatUmount
  <2>1. pc = "idle" /\ UNCHANGED bufVars /\ UNCHANGED harm /\ pc' = "sync_end"
    BY <1>1 DEF FatSync, FatUmount, Goto
  <2>2. View' = View /\ disk' = disk
    BY <2>1 DEF View, Flushed, bufVars
  <2>3. Pending = {}
    BY <2>1 DEF Pending
  <2> QED
    BY <1>0, <2>1, <2>2, <2>3, LagCalm
<1>2. ASSUME View' = disk, disk' = disk, pc' = "idle", harm' \in Nat, Cardinality(Differ(disk)) <= harm'
      PROVE  LagInv'
  <2>1. Pending' = {}
    BY <1>2 DEF Pending
  <2>2. Cardinality(Differ(View') \ Pending') <= harm' /\ Cardinality(Differ(disk')) <= harm'
    BY <1>2, <2>1
  <2> QED
    BY <1>2, <2>1, <2>2, UsableClusts DEF LagInv
<1>3. CASE Mount
  <2>1. /\ pc = "idle" /\ ~mounted /\ pc' = "idle"
        /\ \/ Harmed /\ UNCHANGED bufVars
           \/ View' = disk /\ UNCHANGED <<disk, harm>>
    BY <1>0, <1>3, MountFacts
  <2>2. CASE Harmed /\ UNCHANGED bufVars
    <3>1. View' = View /\ disk' = disk
      BY <2>2 DEF View, Flushed, bufVars
    <3> QED
      BY <1>0, <2>1, <2>2, <3>1, LagCalm
  <2>3. CASE View' = disk /\ UNCHANGED <<disk, harm>>
    <3>1. Cardinality(Differ(disk)) <= harm
      BY <2>1 DEF LagInv
    <3> QED
      BY <1>0, <1>2, <2>1, <2>3, <3>1
  <2> QED
    BY <2>1, <2>2, <2>3
<1>4. CASE Crash
  <2>1. View' = disk /\ disk' = disk /\ pc' = "idle" /\ harm' = harm + 1
    BY <1>0, <1>4, CrashFacts DEF Harmed
  <2>2. Cardinality(Differ(disk)) <= harm'
    BY <1>0, <2>1, LagBound
  <2> QED
    BY <1>0, <1>2, <2>1, <2>2
<1> QED
  BY <1>1, <1>3, <1>4

LEMMA NextLag == Mirror /\ CallInv /\ CountInv /\ LagInv /\ [Next]_vars => LagInv'
<1> SUFFICES ASSUME Mirror, CallInv, CountInv, LagInv, [Next]_vars PROVE LagInv'
  OBVIOUS
<1>1. ASSUME NEW n \in Slots, Create(n) \/ Grow(n) \/ Unlink(n) PROVE LagInv'
  BY <1>1, BeginLag
<1>2. CASE Step
  BY <1>2, SeekLag, StretchLag, FreeLag, SyncLag DEF Step
<1>3. CASE FatSync \/ FatUmount \/ Mount \/ Crash
  BY <1>3, MountLag
<1>4. CASE UNCHANGED vars
  <2>1. View' = View /\ Pending' = Pending
    BY <1>4 DEF View, Flushed, Pending, vars, bufVars
  <2> QED
    BY <1>4, <2>1 DEF LagInv, vars, bufVars
<1> QED
  BY <1>1, <1>2, <1>3, <1>4 DEF Next

LEMMA InitLag == Init => LagInv
<1> SUFFICES ASSUME Init PROVE LagInv
  OBVIOUS
<1>0. harm = 0
  BY DEF Init
<1>1. View = disk /\ pc = "idle" /\ harm = 0
  BY <1>0, InitVolume
<1>11. PICK root \in Usable :
         \A t \in {0, 1}, c \in AllClusts : FatEntry(disk, t, c) = FirstEntry(root, c)
  BY InitVolume
<1>2. Differ(disk) = {} /\ Pending = {}
  BY <1>1, <1>11, UsableClusts DEF Differ, Pending
<1>3. Cardinality({}) = 0
  BY FS_EmptySet
<1>4. Cardinality(Differ(View) \ Pending) <= harm /\ Cardinality(Differ(disk)) <= harm
  BY <1>1, <1>2, <1>3
<1> QED
  BY <1>1, <1>2, <1>4, UsableClusts DEF LagInv

(* The two copies of the FAT agree between calls as long as nothing has    *)
(* failed, and on disk they differ in at most one entry more than accesses *)
(* have failed and power was lost: put_fat never leaves more behind.       *)
THEOREM MirrorFollows == Spec => []MirrorLag
<1>1. CASE Mirror
  <2>1. Init => CallInv /\ CountInv /\ LagInv
    BY InitCall, InitCount, InitLag
  <2>2. CallInv /\ CountInv /\ LagInv /\ [Next]_vars => CallInv' /\ CountInv' /\ LagInv'
    BY <1>1, NextCall, NextCount, NextLag
  <2>3. CallInv /\ CountInv /\ LagInv => MirrorLag
    <3> SUFFICES ASSUME CallInv, CountInv, LagInv PROVE MirrorLag
      OBVIOUS
    <3>1. harm \in Nat
      BY DEF CountInv
    <3>2. Cardinality(Differ(disk)) <= harm + 1
      BY <3>1, LagBound
    <3>3. ASSUME pc = "idle", harm = 0, NEW c \in Usable
          PROVE  FatEntry(View, 1, c) = FatEntry(View, 0, c)
      <4>1. Pending = {}
        BY <3>3 DEF Pending
      <4>2. Cardinality(Differ(View)) <= 0 /\ Cardinality(Differ(View)) \in Nat /\ IsFiniteSet(Differ(View))
        BY <3>1, <3>3, <4>1, LagBound, DifferFacts
      <4>3. Cardinality(Differ(View)) = 0
        BY <4>2
      <4>4. Differ(View) = {}
        BY <4>2, <4>3, FS_EmptySet
      <4> QED
        BY <4>4 DEF Differ
    <3>4. Cardinality(Differ(disk)) <= 1 + harm
      <4> DEFINE k == Cardinality(Differ(disk))
      <4>1. k <= harm + 1
        BY <3>2
      <4> HIDE DEF k
      <4>2. k <= 1 + harm
        BY <3>1, <4>1
      <4> QED
        BY <4>2 DEF k
    <3> QED
      BY <3>3, <3>4 DEF MirrorLag, Differ
  <2> QED
    BY <2>1, <2>2, <2>3, PTL DEF Spec
<1>2. CASE ~Mirror
  <2>1. MirrorLag
    BY <1>2 DEF MirrorLag
  <2> QED
    BY <2>1, PTL
<1> QED
  BY <1>1, <1>2
-----------------------------------------------------------------------------
(* Who owns which cluster.  No cluster is claimed twice (Single), every    *)
(* cluster in use is claimed but those of O, whose claim is still to be    *)
(* made or was just given up, and no free one is but those of D, whose     *)
(* directory entry is still to go.                                         *)

Claimed(d, c) ==
  \/ \E b \in Usable : FatEntry(d, 0, b) = c
  \/ \E n \in Slots : d[DirSect][n] = c
  \/ c = RootClust

Single(d) ==
  /\ \A a, b \in Usable : FatEntry(d, 0, a) = FatEntry(d, 0, b) /\ FatEntry(d, 0, a) \in Usable => a = b
  /\ \A m, n \in Slots : d[DirSect][m] = d[DirSect][n] /\ d[DirSect][n] \in Usable => m = n
  /\ \A b \in Usable, n \in Slots : FatEntry(d, 0, b) \in Usable => FatEntry(d, 0, b) # d[DirSect][n]
  /\ \A b \in Usable : FatEntry(d, 0, b) # RootClust
  /\ \A n \in Slots : d[DirSect][n] # RootClust

Owned(d, O, D) ==
  /\ Single(d)
  /\ O \subseteq Usable /\ D \subseteq Usable
  /\ \A c \in Usable : Legal(FatEntry(d, 0, c))
  /\ \A c \in Usable : IsFree(d, c) => (Claimed(d, c) <=> c \in D) /\ c \notin O
  /\ \A c \in Usable : ~IsFree(d, c) => (Claimed(d, c) <=> c \notin O) /\ c \notin D

(* Volume e has the entries of volume d, but for v as the entry of c. *)
Changed(d, e, c, v) ==
  /\ e[DirSect] = d[DirSect]
  /\ \A b \in Usable : FatEntry(e, 0, b) = IF b = c THEN v ELSE FatEntry(d, 0, b)

LEMMA OwnedSame ==
  ASSUME NEW d, NEW e, NEW O, NEW D, Owned(d, O, D), e[DirSect] = d[DirSect],
         \A b \in Usable : FatEntry(e, 0, b) = FatEntry(d, 0, b)
  PROVE  Owned(e, O, D)
<1>1. Single(e)
  BY DEF Owned, Single
<1>2. \A c \in Usable : (IsFree(e, c) <=> IsFree(d, c)) /\ (Claimed(e, c) <=> Claimed(d, c))
  BY DEF IsFree, Claimed
<1> QED
  BY <1>1, <1>2 DEF Owned

(* stretch_chain marks a free cluster: nobody claims it yet. *)
LEMMA OwnedMark ==
  ASSUME NEW d, NEW e, NEW c \in Usable, Owned(d, {}, {}), IsFree(d, c), Changed(d, e, c, EOC)
  PROVE  Owned(e, {c}, {})
<1>0. FREE \notin Usable /\ EOC \notin Usable /\ EOC # FREE /\ RootClust \in Usable /\ FREE = 0
      /\ EOC \in Nat
  BY UsableClusts
<1>1. FatEntry(d, 0, c) \notin Usable /\ FatEntry(e, 0, c) \notin Usable
  BY <1>0 DEF IsFree, Changed
<1>2. \A a \in Usable : \A x \in Usable : FatEntry(e, 0, a) = x <=> FatEntry(d, 0, a) = x
  BY <1>1 DEF Changed
<1>3. Single(e)
  BY <1>0, <1>2 DEF Owned, Single, Changed
<1>4. \A x \in Usable : Claimed(e, x) <=> Claimed(d, x)
  BY <1>2 DEF Claimed, Changed
<1>5. \A x \in Usable : IsFree(e, x) <=> IsFree(d, x) /\ x # c
  BY <1>0 DEF IsFree, Changed
<1>6. \A x \in Usable : Legal(FatEntry(e, 0, x))
  BY <1>0 DEF Owned, Changed, Legal
<1> QED
  BY <1>3, <1>4, <1>5, <1>6 DEF Owned

(* ... and links it to the end of a chain. *)
LEMMA OwnedLink ==
  ASSUME NEW d, NEW e, NEW c \in Usable, NEW prev \in Usable, Owned(d, {c}, {}),
         FatEntry(d, 0, prev) >= EOC, Changed(d, e, prev, c)
  PROVE  Owned(e, {}, {})
<1>0. FREE \notin Usable /\ EOC # FREE /\ RootClust \in Usable /\ FREE = 0 /\ EOC \in Nat /\ EOC > 0
      /\ \A x \in Usable : x \in Nat /\ x < EOC
  BY UsableClusts
<1>1. FatEntry(d, 0, prev) \notin Usable /\ FatEntry(e, 0, prev) = c /\ ~IsFree(d, prev)
  BY <1>0 DEF IsFree, Changed
<1>2. ~Claimed(d, c) /\ ~IsFree(d, c)
  BY DEF Owned
<1>3. \A a \in Usable : \A x \in Usable :
        FatEntry(e, 0, a) = x <=> FatEntry(d, 0, a) = x \/ (a = prev /\ x = c)
  BY <1>1 DEF Changed
<1>4. \A x \in Usable : Claimed(e, x) <=> Claimed(d, x) \/ x = c
  BY <1>3 DEF Claimed, Changed
<1>5. \A x \in Usable : IsFree(e, x) <=> IsFree(d, x)
  BY <1>0, <1>1 DEF IsFree, Changed
<1>6. \A x \in Usable : Legal(FatEntry(e, 0, x))
  BY <1>0 DEF Owned, Changed, Legal
<1>7. Single(e)
  <2>1. c # RootClust /\ (\A a \in Usable : FatEntry(d, 0, a) # c) /\ (\A n \in Slots : d[DirSect][n] # c)
    BY <1>2 DEF Claimed
  <2>2. \A a, b \in Usable : FatEntry(e, 0, a) = FatEntry(e, 0, b) /\ FatEntry(e, 0, a) \in Usable => a = b
    BY <2>1 DEF Owned, Single, Changed
  <2>3. \A b \in Usable, n \in Slots : FatEntry(e, 0, b) \in Usable => FatEntry(e, 0, b) # e[DirSect][n]
    BY <2>1 DEF Owned, Single, Changed
  <2>4. \A b \in Usable : FatEntry(e, 0, b) # RootClust
    BY <2>1 DEF Owned, Single, Changed
  <2> QED
    BY <2>2, <2>3, <2>4 DEF Owned, Single, Changed
<1> QED
  BY <1>2, <1>4, <1>5, <1>6, <1>7 DEF Owned

(* Volume e has the entries of volume d, and c as the cluster of file n. *)
Entering(d, e, n, c) ==
  /\ \A b \in Usable : FatEntry(e, 0, b) = FatEntry(d, 0, b)
  /\ \A m \in Slots : e[DirSect][m] = IF m = n THEN c ELSE d[DirSect][m]

(* dir_add gives the new cluster to the new file. *)
LEMMA OwnedEnter ==
  ASSUME NEW d, NEW e, NEW c \in Usable, NEW n \in Slots, Owned(d, {c}, {}), d[DirSect][n] = 0,
         Entering(d, e, n, c)
  PROVE  Owned(e, {}, {})
<1>0. 0 \notin Usable /\ RootClust \in Usable
  BY UsableClusts
<1>1. ~Claimed(d, c) /\ ~IsFree(d, c)
  BY DEF Owned
<1>2. c # RootClust /\ (\A a \in Usable : FatEntry(d, 0, a) # c) /\ (\A m \in Slots : d[DirSect][m] # c)
  BY <1>1 DEF Claimed
<1>3. \A x \in Usable : Claimed(e, x) <=> Claimed(d, x) \/ x = c
  <2> SUFFICES ASSUME NEW x \in Usable PROVE Claimed(e, x) <=> Claimed(d, x) \/ x = c
    OBVIOUS
  <2>1. \A m \in Slots : e[DirSect][m] = x <=> d[DirSect][m] = x \/ (m = n /\ x = c)
    BY <1>0 DEF Entering
  <2> QED
    BY <2>1 DEF Claimed, Entering
<1>4. \A x \in Usable : IsFree(e, x) <=> IsFree(d, x)
  BY DEF IsFree, Entering
<1>5. Single(e)
  BY <1>2 DEF Owned, Single, Entering
<1> QED
  BY <1>1, <1>3, <1>4, <1>5 DEF Owned, Entering

(* remove_entries takes the name of a file whose chain is gone. *)
LEMMA OwnedForget ==
  ASSUME NEW d, NEW e, NEW n \in Slots, d[DirSect][n] \in Usable, Owned(d, {}, {d[DirSect][n]}),
         Entering(d, e, n, 0)
  PROVE  Owned(e, {}, {})
<1> DEFINE w == d[DirSect][n]
<1>0. 0 \notin Usable /\ RootClust \in Usable
  BY UsableClusts
<1>1. IsFree(d, w)
  BY DEF Owned
<1>2. \A x \in Usable : Claimed(e, x) <=> Claimed(d, x) /\ x # w
  <2> SUFFICES ASSUME NEW x \in Usable PROVE Claimed(e, x) <=> Claimed(d, x) /\ x # w
    OBVIOUS
  <2>1. \A m \in Slots : e[DirSect][m] = x <=> d[DirSect][m] = x /\ x # w
    BY <1>0 DEF Entering, Owned, Single
  <2>2. \A b \in Usable : FatEntry(e, 0, b) = x <=> FatEntry(d, 0, b) = x /\ x # w
    BY DEF Entering, Owned, Single
  <2>3. x = RootClust => x # w
    BY DEF Owned, Single
  <2> QED
    BY <2>1, <2>2, <2>3 DEF Claimed
<1>3. \A x \in Usable : IsFree(e, x) <=> IsFree(d, x)
  BY DEF IsFree, Entering
<1>4. Single(e)
  BY <1>0 DEF Owned, Single, Entering
<1> QED
  BY <1>1, <1>2, <1>3, <1>4 DEF Owned, Entering

(* remove_chain clears the first cluster w of a file, which the file's     *)
(* entry still names, or one further on, which nothing names any more; the *)
(* cluster after it, if there is one, is the next that nothing names.      *)
LEMMA OwnedClear ==
  ASSUME NEW d, NEW e, NEW n \in Slots, NEW c \in Usable, ~IsFree(d, c), d[DirSect][n] \in Usable,
         \/ d[DirSect][n] = c /\ Owned(d, {}, {})
         \/ d[DirSect][n] # c /\ Owned(d, {c}, {d[DirSect][n]}),
         Changed(d, e, c, FREE)
  PROVE  LET x == FatEntry(d, 0, c)
             w == d[DirSect][n]
         IN  /\ x \in Usable => Owned(e, {x}, {w}) /\ x # w /\ ~IsFree(e, x)
             /\ x \notin Usable => Owned(e, {}, {w})
<1> DEFINE x == FatEntry(d, 0, c)
           w == d[DirSect][n]
<1>0. FREE \notin Usable /\ RootClust \in Usable /\ FREE = 0
  BY UsableClusts
<1>1. Single(d) /\ (\A b \in Usable : Legal(FatEntry(d, 0, b)))
  BY DEF Owned
<1>2. x \in Usable => x # w /\ x # RootClust
  BY <1>1 DEF Single
<1>3. x # c
  <2>1. CASE w = c
    BY <1>2, <2>1
  <2>2. CASE w # c /\ Owned(d, {c}, {w})
    <3>1. ~Claimed(d, c)
      BY <2>2 DEF Owned
    <3> QED
      BY <3>1 DEF Claimed
  <2> QED
    BY <2>1, <2>2
<1>4. \A b \in Usable : \A y \in Usable : FatEntry(e, 0, b) = y <=> FatEntry(d, 0, b) = y /\ b # c
  BY <1>0 DEF Changed
<1>5. \A y \in Usable : FatEntry(d, 0, c) = y => (\A b \in Usable : FatEntry(d, 0, b) = y => b = c)
  BY <1>1 DEF Single
<1>6. \A y \in Usable : Claimed(e, y) <=> Claimed(d, y) /\ y # x
  <2> SUFFICES ASSUME NEW y \in Usable PROVE Claimed(e, y) <=> Claimed(d, y) /\ y # x
    OBVIOUS
  <2>1. (\E b \in Usable : FatEntry(e, 0, b) = y) <=> (\E b \in Usable : FatEntry(d, 0, b) = y) /\ y # x
    BY <1>4, <1>5
  <2>2. (\E m \in Slots : e[DirSect][m] = y) <=> (\E m \in Slots : d[DirSect][m] = y)
    BY DEF Changed
  <2>3. y = x => y # RootClust /\ ~(\E m \in Slots : d[DirSect][m] = y)
    BY <1>1 DEF Single
  <2> QED
    BY <2>1, <2>2, <2>3 DEF Claimed
<1>7. \A y \in Usable : IsFree(e, y) <=> IsFree(d, y) \/ y = c
  BY DEF IsFree, Changed
<1>8. \A y \in Usable : Legal(FatEntry(e, 0, y))
  BY <1>1 DEF Changed, Legal
<1>9. Single(e)
  <2>1. \A a, b \in Usable : FatEntry(e, 0, a) = FatEntry(e, 0, b) /\ FatEntry(e, 0, a) \in Usable => a = b
    BY <1>1, <1>4 DEF Single
  <2>2. \A b \in Usable, m \in Slots : FatEntry(e, 0, b) \in Usable => FatEntry(e, 0, b) # e[DirSect][m]
    BY <1>1, <1>4 DEF Single, Changed
  <2>3. \A b \in Usable : FatEntry(e, 0, b) # RootClust
    BY <1>0, <1>1 DEF Single, Changed
  <2> QED
    BY <1>1, <2>1, <2>2, <2>3 DEF Single, Changed
<1>10. Claimed(d, w) /\ (x \in Usable => Claimed(d, x))
  BY DEF Claimed
<1> HIDE DEF x, w
<1>11. /\ x \in Usable => ~IsFree(d, x)
       /\ \A y \in Usable : (IsFree(d, y) \/ y = c) => (Claimed(d, y) <=> y = w)
       /\ \A y \in Usable : ~(IsFree(d, y) \/ y = c) => Claimed(d, y) /\ y # w
  <2>1. CASE w = c /\ Owned(d, {}, {})
    BY <1>10, <2>1 DEF Owned
  <2>2. CASE w # c /\ Owned(d, {c}, {w})
    BY <1>2, <1>10, <2>2 DEF Owned
  <2> QED
    BY <2>1, <2>2 DEF w
<1>12. w \in Usable /\ w # x
  <2>1. w \in Usable
    BY DEF w
  <2> QED
    BY <1>2, <2>1
<1>13. ASSUME x \in Usable PROVE Owned(e, {x}, {w}) /\ x # w /\ ~IsFree(e, x)
  BY <1>3, <1>6, <1>7, <1>8, <1>9, <1>11, <1>12, <1>13 DEF Owned
<1>14. ASSUME x \notin Usable PROVE Owned(e, {}, {w})
  BY <1>6, <1>7, <1>8, <1>9, <1>11, <1>12, <1>14 DEF Owned
<1> QED
  BY <1>13, <1>14 DEF x, w


-----------------------------------------------------------------------------
(* The running call and the clusters nobody or nothing claims. *)

Entered == View[DirSect][frame.slot]

(* The cluster whose claim is still to come: marked and not linked yet,    *)
(* taken by create_chain and not in the directory yet, or the rest of a    *)
(* chain whose head is gone.                                               *)
Orphan ==
  \/ Linking
  \/ pc \in {"sync", "info", "dir_add"} /\ frame.op = "create"
  \/ pc \in {"free", "unput"} /\ Entered # frame.cur
Orphans == IF Orphan THEN {frame.cur} ELSE {}

(* The freed cluster that the entry of the file being unlinked names. *)
Dangles ==
  \/ pc \in {"free", "unput"} /\ Entered # frame.cur
  \/ pc \in {"sync", "info", "rm_entry"} /\ frame.op = "unlink"
Dangling == IF Dangles THEN {Entered} ELSE {}

(* What power loss may find on the disk. *)
Damage(d, f) ==
  /\ Single(d)
  /\ \A c \in Usable : IsFree(d, c) =>
       /\ \A b \in Usable : FatEntry(d, 0, b) # c
       /\ \A n \in Slots : d[DirSect][n] = c => f.op = "unlink" /\ f.slot = n

(* What the running call knows of the clusters it works on. *)
ChainInv ==
  /\ pc \in {"next", "scan", "put"} /\ frame.op = "grow" => FatEntry(View, 0, frame.prev) >= EOC
  /\ pc \in {"free", "unput"} => ~IsFree(View, frame.cur)
  /\ pc = "unput" => frame.next = FatEntry(View, 0, frame.cur)
  /\ pc \in {"scan", "put", "sync", "info", "dir_add"} /\ frame.op = "create" => Entered = 0
  /\ pc \in {"free", "unput", "sync", "info", "rm_entry"} /\ frame.op = "unlink" => Entered # 0
  /\ pc = "dir_add" => frame.op = "create"

OwnInv ==
  harm = 0 => Owned(View, Orphans, Dangling) /\ Damage(disk, frame) /\ ChainInv

(* A volume that is sound but for the running call does no more damage     *)
(* than a crash may.                                                       *)
LEMMA OwnedDamage ==
  ASSUME NEW d, NEW f, NEW O, NEW D, Owned(d, O, D),
         D = {} \/ (f.op = "unlink" /\ f.slot \in Slots /\ D = {d[DirSect][f.slot]})
  PROVE  Damage(d, f)
<1>1. Single(d)
  BY DEF Owned
<1>2. ASSUME NEW c \in Usable, IsFree(d, c)
      PROVE  /\ \A b \in Usable : FatEntry(d, 0, b) # c
             /\ \A n \in Slots : d[DirSect][n] = c => f.op = "unlink" /\ f.slot = n
  <2>1. Claimed(d, c) => c \in D
    BY <1>2 DEF Owned
  <2>2. CASE D = {}
    BY <2>1, <2>2 DEF Claimed
  <2>3. CASE f.op = "unlink" /\ f.slot \in Slots /\ D = {d[DirSect][f.slot]}
    <3>1. \A b \in Usable : FatEntry(d, 0, b) # c
      <4> SUFFICES ASSUME NEW b \in Usable, FatEntry(d, 0, b) = c PROVE FALSE
        OBVIOUS
      <4>1. c = d[DirSect][f.slot]
        BY <2>1, <2>3 DEF Claimed
      <4> QED
        BY <1>1, <2>3, <4>1 DEF Single
    <3>2. \A n \in Slots : d[DirSect][n] = c => f.slot = n
      <4> SUFFICES ASSUME NEW n \in Slots, d[DirSect][n] = c PROVE f.slot = n
        OBVIOUS
      <4>1. c = d[DirSect][f.slot]
        BY <2>1, <2>3 DEF Claimed
      <4> QED
        BY <1>1, <2>3, <4>1 DEF Single
    <3> QED
      BY <2>3, <3>1, <3>2
  <2> QED
    BY <2>2, <2>3
<1> QED
  BY <1>1, <1>2 DEF Damage

LEMMA DamageKept ==
  ASSUME NEW d, NEW f, NEW g, Damage(d, f), f.op # "unlink" \/ (g.op = f.op /\ g.slot = f.slot)
  PROVE  Damage(d, g)
BY DEF Damage

(* The volume as the code reads it has at most that damage too. *)
LEMMA ViewDamage ==
  ASSUME FrameInv, Owned(View, Orphans, Dangling)
  PROVE  Damage(View, frame)
<1>1. Dangles => frame.op = "unlink" /\ frame.slot \in Slots
  BY DEF Dangles, FrameInv
<1>2. Dangling = {} \/ (frame.op = "unlink" /\ frame.slot \in Slots /\ Dangling = {View[DirSect][frame.slot]})
  BY <1>1 DEF Dangling, Entered
<1> QED
  BY <1>2, OwnedDamage

(* A failure ends the claim of the invariant. *)
LEMMA OwnHarmed ==
  ASSUME harm \in Nat, Harmed
  PROVE  OwnInv'
<1>1. harm' # 0
  BY DEF Harmed
<1> QED
  BY <1>1 DEF OwnInv

(* What a step that does not fail has to keep. *)
LEMMA OwnStep ==
  ASSUME OwnInv, FrameInv, UNCHANGED harm, disk' \in {disk, View},
         frame.op # "unlink" \/ SameCall \/ disk' = View',
         FrameInv',
         harm = 0 => Owned(View', Orphans', Dangling') /\ ChainInv'
  PROVE  OwnInv'
<1> SUFFICES ASSUME harm = 0 PROVE OwnInv'
  BY DEF OwnInv
<1>1. Damage(disk, frame) /\ Damage(View, frame)
  BY ViewDamage DEF OwnInv
<1>2. Damage(disk', frame')
  <2>1. CASE frame.op # "unlink" \/ SameCall
    <3>1. Damage(disk', frame)
      BY <1>1
    <3> DEFINE d == disk'
               f == frame
               g == frame'
    <3>2. Damage(d, f) /\ (f.op # "unlink" \/ (g.op = f.op /\ g.slot = f.slot))
      BY <2>1, <3>1 DEF SameCall
    <3> HIDE DEF d, f, g
    <3>3. Damage(d, g)
      BY <3>2, DamageKept
    <3> QED
      BY <3>3 DEF d, g
  <2>2. CASE disk' = View'
    <3> DEFINE d == disk'
               f == frame'
               O == Orphans'
               D == Dangling'
    <3>1. Owned(d, O, D)
      BY <2>2
    <3>2. D = {} \/ (f.op = "unlink" /\ f.slot \in Slots /\ D = {d[DirSect][f.slot]})
      <4>1. Dangles' => frame'.op = "unlink" /\ frame'.slot \in Slots
        BY DEF Dangles, FrameInv
      <4> QED
        BY <2>2, <4>1 DEF Dangling, Entered
    <3> HIDE DEF d, f, O, D
    <3>3. Damage(d, f)
      BY <3>1, <3>2, OwnedDamage
    <3> QED
      BY <3>3 DEF d, f
  <2> QED
    BY <2>1, <2>2
<1> QED
  BY <1>2 DEF OwnInv

(* An access that leaves the volume as it is. *)
LEMMA OwnQuiet ==
  ASSUME OwnInv, FrameInv, FrameInv', Quiet, UNCHANGED harm,
         frame.op # "unlink" \/ SameCall \/ disk' = View,
         harm = 0 => ChainInv' /\ Orphans' = Orphans /\ Dangling' = Dangling
  PROVE  OwnInv'
<1>1. harm = 0 => Owned(View', Orphans', Dangling')
  BY DEF OwnInv, Quiet
<1> QED
  BY <1>1, OwnStep DEF Quiet

LEMMA NoOrphans ==
  /\ pc \in {"idle", "walk", "next", "scan", "sync_end", "info_end"} => Orphans = {} /\ Dangling = {}
  /\ pc' \in {"idle", "walk", "next", "scan", "sync_end", "info_end"} => Orphans' = {} /\ Dangling' = {}
  /\ Marking /\ FrameInv => Orphans = {} /\ Dangling = {}
  /\ Marking' /\ FrameInv' => Orphans' = {} /\ Dangling' = {}
<1>1. pc \in {"idle", "walk", "next", "scan", "sync_end", "info_end"} => Orphans = {} /\ Dangling = {}
  BY DEF Orphans, Orphan, Dangling, Dangles, Linking
<1>2. pc' \in {"idle", "walk", "next", "scan", "sync_end", "info_end"} => Orphans' = {} /\ Dangling' = {}
  BY DEF Orphans, Orphan, Dangling, Dangles, Linking
<1>3. ASSUME Marking, FrameInv PROVE Orphans = {} /\ Dangling = {}
  <2>1. pc = "put" /\ frame.prev \in Usable \cup {0} /\ frame.cur \in Usable
    BY <1>3 DEF Marking, FrameInv, Frames
  <2>2. ~Linking
    BY <1>3, <2>1, LinkIsNoMark DEF Marking, Linking
  <2> QED
    BY <2>1, <2>2 DEF Orphans, Orphan, Dangling, Dangles
<1>4. ASSUME Marking', FrameInv' PROVE Orphans' = {} /\ Dangling' = {}
  <2>1. pc' = "put" /\ frame'.prev \in Usable \cup {0} /\ frame'.cur \in Usable
    BY <1>4 DEF Marking, FrameInv, Frames
  <2>2. ~Linking'
    BY <1>4, <2>1, LinkIsNoMark DEF Marking, Linking
  <2> QED
    BY <2>1, <2>2 DEF Orphans, Orphan, Dangling, Dangles
<1> QED
  BY <1>1, <1>2, <1>3, <1>4

(* A call ends, or fails, with nothing left to claim. *)
LEMMA OwnEnds ==
  ASSUME OwnInv, FrameInv, FrameInv', Quiet, UNCHANGED harm,
         pc \in {"idle", "walk", "next", "scan", "sync_end", "info_end"}, pc' = "idle",
         frame.op # "unlink" \/ disk' = View
  PROVE  OwnInv'
<1>1. ChainInv'
  BY DEF ChainInv
<1> QED
  BY <1>1, NoOrphans, OwnQuiet

LEMMA BeginOwn ==
  ASSUME CallInv, CallInv', harm \in Nat, OwnInv, NEW n \in Slots, Create(n) \/ Grow(n) \/ Unlink(n)
  PROVE  OwnInv'
<1>0. StoreInv /\ FrameInv /\ FrameInv' /\ Quiet /\ pc = "idle"
  BY BeginFacts DEF CallInv
<1>1. frame.op = "none"
  BY <1>0, NoFrameFacts DEF FrameInv
<1>2. Orphans = {} /\ Dangling = {}
  BY <1>0, NoOrphans
<1>3. CASE Harmed
  BY <1>3, OwnHarmed
<1>4. CASE UNCHANGED harm /\ pc' = "idle"
  BY <1>0, <1>1, <1>4, OwnEnds
<1>5. CASE Create(n)
  <2> DEFINE f == Frame("create", n, 0, info.last_used)
  <2>1. f.op = "create" /\ f.slot = n
    BY DEF Frame
  <2>2. \/ Harmed
        \/ UNCHANGED harm /\ View[DirSect][n] = 0 /\ Goto("scan", f)
        \/ UNCHANGED harm /\ pc' = "idle"
    BY <1>0, <1>5, CreateFacts DEF Return
  <2> HIDE DEF f
  <2>3. CASE UNCHANGED harm /\ View[DirSect][n] = 0 /\ Goto("scan", f)
    <3>1. pc' = "scan" /\ frame'.op = "create" /\ frame'.slot = n
      BY <2>1, <2>3 DEF Goto
    <3>2. Entered' = 0
      BY <1>0, <2>3, <3>1 DEF Entered, Quiet
    <3>3. ChainInv'
      BY <3>1, <3>2 DEF ChainInv
    <3> QED
      BY <1>0, <1>1, <1>2, <2>3, <3>1, <3>3, NoOrphans, OwnQuiet
  <2> QED
    BY <1>3, <1>4, <2>2, <2>3 DEF Return
<1>6. CASE Grow(n)
  <2> DEFINE f == Frame("grow", n, 0, View[DirSect][n])
  <2>1. \/ Harmed
        \/ UNCHANGED harm /\ Goto("walk", f)
        \/ UNCHANGED harm /\ Return(f, "DENIED")
    BY <1>0, <1>6, GrowFacts
  <2> HIDE DEF f
  <2>2. CASE UNCHANGED harm /\ Goto("walk", f)
    <3>1. pc' = "walk"
      BY <2>2 DEF Goto
    <3>2. ChainInv'
      BY <3>1 DEF ChainInv
    <3> QED
      BY <1>0, <1>1, <1>2, <2>2, <3>1, <3>2, NoOrphans, OwnQuiet
  <2> QED
    BY <1>3, <1>4, <2>1, <2>2 DEF Return
<1>7. CASE Unlink(n)
  <2> DEFINE f == Frame("unlink", n, 0, View[DirSect][n])
  <2>1. f.op = "unlink" /\ f.slot = n /\ f.cur = View[DirSect][n]
    BY DEF Frame
  <2>2. \/ Harmed
        \/ UNCHANGED harm /\ View[DirSect][n] # 0 /\ Goto("free", f)
        \/ UNCHANGED harm /\ pc' = "idle"
    BY <1>0, <1>7, UnlinkFacts DEF Return
  <2> HIDE DEF f
  <2>3. CASE UNCHANGED harm /\ View[DirSect][n] # 0 /\ Goto("free", f)
    <3>1. pc' = "free" /\ frame'.op = "unlink" /\ frame'.cur = View[DirSect][n] /\ frame'.slot = n
      BY <2>1, <2>3 DEF Goto
    <3>2. Entered' = View[DirSect][n] /\ View' = View
      BY <1>0, <3>1 DEF Entered, Quiet
    <3>3. View[DirSect][n] \in Usable
      BY <1>0, <2>3, DirRead
    <3>4. harm = 0 => ~IsFree(View, View[DirSect][n])
      <4>1. Claimed(View, View[DirSect][n])
        BY DEF Claimed
      <4> QED
        BY <1>2, <3>3, <4>1 DEF OwnInv, Owned
    <3>5. harm = 0 => ChainInv'
      BY <2>3, <3>1, <3>2, <3>4 DEF ChainInv
    <3>6. Orphans' = {} /\ Dangling' = {}
      BY <3>1, <3>2 DEF Orphans, Orphan, Dangling, Dangles, Linking
    <3> QED
      BY <1>0, <1>1, <1>2, <2>3, <3>5, <3>6, OwnQuiet
  <2> QED
    BY <1>3, <1>4, <2>2, <2>3 DEF Return
<1> QED
  BY <1>5, <1>6, <1>7

LEMMA WalkOwn ==
  ASSUME CallInv, CallInv', harm \in Nat, OwnInv, Walk
  PROVE  OwnInv'
<1> DEFINE c == frame.cur
           e == FatEntry(View, 0, c)
<1>0. StoreInv /\ FrameInv /\ FrameInv' /\ pc = "walk" /\ frame.op = "grow" /\ c \in Usable /\ frame \in Frames
  BY DEF CallInv, Walk, FrameInv
<1>1. /\ Quiet
      /\ \/ Harmed
         \/ UNCHANGED harm /\ Return(frame, "BROKEN")
         \/ UNCHANGED harm /\ Goto("walk", [frame EXCEPT !.cur = e])
         \/ UNCHANGED harm /\ e >= EOC /\ Goto("next", [frame EXCEPT !.prev = c, !.cur = NextClust(c)])
  BY <1>0, WalkFacts
<1>2. CASE Harmed
  BY <1>2, OwnHarmed
<1>3. CASE UNCHANGED harm /\ Return(frame, "BROKEN")
  BY <1>0, <1>1, <1>3, OwnEnds DEF Return
<1>4. CASE UNCHANGED harm /\ Goto("walk", [frame EXCEPT !.cur = e])
  <2>1. pc' = "walk"
    BY <1>4 DEF Goto
  <2>2. ChainInv'
    BY <2>1 DEF ChainInv
  <2> QED
    BY <1>0, <1>1, <1>4, <2>1, <2>2, NoOrphans, OwnQuiet
<1>5. CASE UNCHANGED harm /\ e >= EOC /\ Goto("next", [frame EXCEPT !.prev = c, !.cur = NextClust(c)])
  <2>1. pc' = "next" /\ frame'.prev = c
    BY <1>0, <1>5 DEF Goto, Frames
  <2>2. View' = View
    BY <1>1 DEF Quiet
  <2>3. ChainInv'
    BY <1>5, <2>1, <2>2 DEF ChainInv
  <2> QED
    BY <1>0, <1>1, <1>5, <2>1, <2>3, NoOrphans, OwnQuiet
<1> QED
  BY <1>1, <1>2, <1>3, <1>4, <1>5

LEMMA SeekOwn ==
  ASSUME CallInv, CallInv', harm \in Nat, OwnInv, CheckNext \/ Scan
  PROVE  OwnInv'
<1>0. /\ StoreInv /\ FrameInv /\ FrameInv' /\ InfoInv /\ pc \in {"next", "scan"}
      /\ frame.op \in {"create", "grow"} /\ frame \in Frames
  BY DEF CallInv, CheckNext, Scan, FrameInv
<1>1. /\ Quiet /\ UNCHANGED <<info, infoDirty, mounted>>
      /\ \/ Harmed
         \/ UNCHANGED harm /\ pc' = "idle"
         \/ /\ UNCHANGED harm /\ NextClust(frame.cur) \in 1 .. CLUST_CNT - 1
            /\ ~Legal(FatEntry(View, 0, NextClust(frame.cur)))
         \/ UNCHANGED harm /\ \E c \in Usable : IsFree(View, c) /\ TakeCluster(c)
         \/ UNCHANGED harm /\ \E c : Goto("scan", [frame EXCEPT !.cur = c])
  <2>1. CASE CheckNext
    <3>1. frame.cur \in Usable
      BY <1>0, <2>1 DEF FrameInv, CheckNext
    <3> QED
      BY <1>0, <2>1, <3>1, CheckNextFacts DEF Return
  <2>2. CASE Scan
    BY <1>0, <2>2, ScanFacts, ScanReaches DEF Return
  <2> QED
    BY <2>1, <2>2
<1>2. View' = View /\ Orphans = {} /\ Dangling = {}
  BY <1>0, <1>1, NoOrphans DEF Quiet
<1>3. CASE Harmed
  BY <1>3, OwnHarmed
<1>4. CASE UNCHANGED harm /\ pc' = "idle"
  BY <1>0, <1>1, <1>4, OwnEnds
<1>5. CASE /\ UNCHANGED harm /\ NextClust(frame.cur) \in 1 .. CLUST_CNT - 1
           /\ ~Legal(FatEntry(View, 0, NextClust(frame.cur)))
  <2>1. NextClust(frame.cur) \in Usable
    <3>1. FatEntry(View, 0, 1) >= EOC
      BY <1>0, ViewFacts, VolumeFacts
    <3>2. NextClust(frame.cur) # 1
      BY <1>5, <3>1 DEF Legal
    <3> QED
      BY <1>5, <3>2, Layout DEF Usable
  <2>2. harm # 0
    BY <1>5, <2>1 DEF OwnInv, Owned
  <2> QED
    BY <1>5, <2>2 DEF OwnInv
<1>6. ASSUME UNCHANGED harm, NEW c \in Usable, IsFree(View, c), TakeCluster(c) PROVE OwnInv'
  <2>1. pc' = "put" /\ SameCall /\ frame'.prev = frame.prev
    BY <1>0, <1>6 DEF TakeCluster, Goto, Frames, SameCall
  <2>2. Marking'
    BY <1>0, <1>1, <1>6, Taken
  <2>3. Orphans' = {} /\ Dangling' = {}
    BY <1>0, <2>2, NoOrphans
  <2>4. harm = 0 => ChainInv'
    <3>1. pc = "next" => frame.op = "grow"
      BY <1>0 DEF FrameInv
    <3> QED
      BY <1>0, <1>2, <2>1, <3>1 DEF OwnInv, ChainInv, Entered, SameCall
  <2> QED
    BY <1>0, <1>1, <1>2, <1>6, <2>3, <2>4, OwnQuiet
<1>7. ASSUME UNCHANGED harm, NEW c, Goto("scan", [frame EXCEPT !.cur = c]) PROVE OwnInv'
  <2>1. pc' = "scan" /\ SameCall /\ frame'.prev = frame.prev
    BY <1>0, <1>7 DEF Goto, Frames, SameCall
  <2>2. harm = 0 => ChainInv'
    <3>1. pc = "next" => frame.op = "grow"
      BY <1>0 DEF FrameInv
    <3> QED
      BY <1>0, <1>2, <2>1, <3>1 DEF OwnInv, ChainInv, Entered, SameCall
  <2> QED
    BY <1>0, <1>1, <1>2, <1>7, <2>1, <2>2, NoOrphans, OwnQuiet
<1> QED
  BY <1>1, <1>3, <1>4, <1>5, <1>6, <1>7

(* A put_fat2 call changes one entry of the active FAT, or none. *)
LEMMA PutChanged ==
  ASSUME NEW t \in {0, 1}, NEW c \in Usable, NEW v, PutDone(Put(t, c, v))
  PROVE  /\ UNCHANGED harm /\ disk' \in {disk, View} /\ View'[DirSect] = View[DirSect]
         /\ t = 0 => Changed(View, View', c, v)
         /\ t = 1 => \A b \in Usable : FatEntry(View', 0, b) = FatEntry(View, 0, b)
<1>1. UNCHANGED harm /\ disk' \in {disk, View} /\ View'[DirSect] = View[DirSect]
  BY DEF PutDone
<1>2. \A b \in Usable : FatEntry(View', 0, b) = IF t = 0 /\ b = c THEN v ELSE FatEntry(View, 0, b)
  BY UsableClusts DEF PutDone, Put
<1> QED
  BY <1>1, <1>2 DEF Changed

LEMMA StretchOwn ==
  ASSUME CallInv, CallInv', harm \in Nat, OwnInv, PutStretch
  PROVE  OwnInv'
<1> DEFINE c == frame.cur
           prev == frame.prev
<1>0. /\ pc = "put" /\ c \in Usable /\ prev \in Usable \cup {0} /\ FrameInv /\ FrameInv'
      /\ (frame.op = "grow" /\ prev \in Usable) \/ (frame.op = "create" /\ prev = 0)
  BY StretchCases DEF CallInv
<1>1. harm = 0 =>
        /\ Owned(View, Orphans, Dangling)
        /\ frame.op = "grow" => FatEntry(View, 0, prev) >= EOC
        /\ frame.op = "create" => Entered = 0
  BY <1>0 DEF OwnInv, ChainInv
<1>2. CASE Harmed
  BY <1>2, OwnHarmed
<1>3. Linking => Orphans = {c} /\ Dangling = {}
  BY <1>0 DEF Orphans, Orphan, Dangling, Dangles
<1>4. Linking' => pc' = "put" /\ Orphans' = {frame'.cur} /\ Dangling' = {}
  <2>1. Linking' => pc' = "put"
    BY DEF Linking
  <2> QED
    BY <2>1 DEF Orphans, Orphan, Dangling, Dangles
<1>5. CASE Marking /\ PutDone(Put(1, c, EOC)) /\ SameStretch /\ Marking'
  <2>1. /\ UNCHANGED harm /\ disk' \in {disk, View} /\ View'[DirSect] = View[DirSect]
        /\ \A b \in Usable : FatEntry(View', 0, b) = FatEntry(View, 0, b)
    BY <1>0, <1>5, PutChanged
  <2>2. Orphans = {} /\ Dangling = {} /\ Orphans' = {} /\ Dangling' = {} /\ pc' = "put"
    BY <1>0, <1>5, NoOrphans DEF Marking
  <2>3. harm = 0 => Owned(View', {}, {})
    BY <1>1, <2>1, <2>2, OwnedSame
  <2>4. harm = 0 => ChainInv'
    BY <1>0, <1>1, <1>5, <2>1, <2>2 DEF ChainInv, SameStretch, SameCall, Entered
  <2> QED
    BY <1>0, <1>5, <2>1, <2>2, <2>3, <2>4, OwnStep DEF SameStretch
<1>6. CASE /\ Marking /\ PutDone(Put(0, c, EOC)) /\ SameStretch
           /\ (Linking' /\ prev \in Usable) \/ (pc' = "sync" /\ prev = 0)
  <2>1. /\ UNCHANGED harm /\ disk' \in {disk, View} /\ View'[DirSect] = View[DirSect]
        /\ Changed(View, View', c, EOC)
    BY <1>0, <1>6, PutChanged
  <2>2. Orphans = {} /\ Dangling = {}
    BY <1>0, <1>6, NoOrphans
  <2>3. IsFree(View, c)
    BY <1>6 DEF CallInv, TakeInv
  <2>4. harm = 0 => Owned(View', {c}, {})
    BY <1>0, <1>1, <2>1, <2>2, <2>3, OwnedMark
  <2>5. Orphans' = {c} /\ Dangling' = {}
    <3>1. CASE Linking'
      BY <1>4, <1>6, <3>1 DEF SameStretch
    <3>2. CASE pc' = "sync" /\ prev = 0
      <4>1. frame'.op = "create" /\ frame'.cur = c
        BY <1>0, <1>6, <3>2, UsableClusts DEF SameStretch, SameCall
      <4> QED
        BY <3>2, <4>1 DEF Orphans, Orphan, Dangling, Dangles
    <3> QED
      BY <1>6, <3>1, <3>2
  <2>6. harm = 0 => ChainInv'
    <3>1. harm = 0 /\ frame.op = "grow" => FatEntry(View', 0, prev) >= EOC
      <4> SUFFICES ASSUME harm = 0, frame.op = "grow" PROVE FatEntry(View', 0, prev) >= EOC
        OBVIOUS
      <4>1. prev \in Usable /\ FatEntry(View, 0, prev) >= EOC
        BY <1>0, <1>1
      <4>2. FatEntry(View', 0, prev) \in {EOC, FatEntry(View, 0, prev)}
        BY <2>1, <4>1 DEF Changed
      <4>3. EOC >= EOC
        BY UsableClusts
      <4> QED
        BY <4>1, <4>2, <4>3
    <3>2. pc' \in {"put", "sync"}
      BY <1>4, <1>6
    <3> QED
      BY <1>0, <1>1, <1>6, <2>1, <3>1, <3>2 DEF ChainInv, SameStretch, SameCall, Entered
  <2> QED
    BY <1>0, <1>6, <2>1, <2>4, <2>5, <2>6, OwnStep DEF SameStretch
<1>7. CASE Linking /\ PutDone(Put(1, prev, c)) /\ prev \in Usable /\ SameStretch /\ Linking'
  <2>1. /\ UNCHANGED harm /\ disk' \in {disk, View} /\ View'[DirSect] = View[DirSect]
        /\ \A b \in Usable : FatEntry(View', 0, b) = FatEntry(View, 0, b)
    BY <1>7, PutChanged
  <2>2. Orphans = {c} /\ Dangling = {} /\ Orphans' = {c} /\ Dangling' = {} /\ pc' = "put"
    BY <1>3, <1>4, <1>7 DEF SameStretch
  <2>3. harm = 0 => Owned(View', {c}, {})
    BY <1>1, <2>1, <2>2, OwnedSame
  <2>4. harm = 0 => ChainInv'
    BY <1>0, <1>1, <1>7, <2>1, <2>2 DEF ChainInv, SameStretch, SameCall, Entered
  <2> QED
    BY <1>0, <1>7, <2>1, <2>2, <2>3, <2>4, OwnStep DEF SameStretch
<1>8. CASE Linking /\ PutDone(Put(0, prev, c)) /\ prev \in Usable /\ SameStretch /\ pc' = "sync"
  <2>1. /\ UNCHANGED harm /\ disk' \in {disk, View}
        /\ Changed(View, View', prev, c)
    BY <1>8, PutChanged
  <2>2. frame.op = "grow"
    BY <1>0, <1>8, UsableClusts
  <2>3. harm = 0 => Owned(View', {}, {})
    BY <1>0, <1>1, <1>3, <1>8, <2>1, <2>2, OwnedLink
  <2>4. Orphans' = {} /\ Dangling' = {} /\ ChainInv'
    BY <1>8, <2>2 DEF Orphans, Orphan, Dangling, Dangles, Linking, ChainInv, SameStretch, SameCall
  <2> QED
    BY <1>0, <2>1, <2>2, <2>3, <2>4, OwnStep
<1> QED
  BY <1>2, <1>5, <1>6, <1>7, <1>8, StretchCases

LEMMA FreeNextOwn ==
  ASSUME CallInv, CallInv', harm \in Nat, OwnInv, FreeNext
  PROVE  OwnInv'
<1> DEFINE c == frame.cur
           e == FatEntry(View, 0, c)
<1>0. /\ StoreInv /\ FrameInv /\ FrameInv' /\ pc = "free" /\ frame.op = "unlink" /\ c \in Usable
      /\ frame \in Frames
  BY DEF CallInv, FreeNext, FrameInv
<1>1. /\ Quiet
      /\ \/ Harmed
         \/ UNCHANGED harm /\ ~(Legal(e) /\ e # FREE)
         \/ /\ UNCHANGED harm
            /\ Goto("unput", [frame EXCEPT !.next = e, !.puts = put_fat(c, FREE)])
  BY <1>0, FreeNextFacts
<1>2. CASE Harmed
  BY <1>2, OwnHarmed
<1>3. CASE UNCHANGED harm /\ ~(Legal(e) /\ e # FREE)
  <2>1. harm # 0
    BY <1>0, <1>3 DEF OwnInv, Owned, ChainInv, IsFree
  <2> QED
    BY <1>3, <2>1 DEF OwnInv
<1>4. CASE UNCHANGED harm /\ Goto("unput", [frame EXCEPT !.next = e, !.puts = put_fat(c, FREE)])
  <2>1. pc' = "unput" /\ SameCall /\ frame'.cur = c /\ frame'.next = e
    BY <1>0, <1>4 DEF Goto, SameCall, Frames
  <2>2. View' = View
    BY <1>1 DEF Quiet
  <2>3. Entered' = Entered
    BY <2>1, <2>2 DEF Entered, SameCall
  <2>4. Orphans' = Orphans /\ Dangling' = Dangling
    BY <1>0, <2>1, <2>3 DEF Orphans, Orphan, Dangling, Dangles, Linking
  <2>5. harm = 0 => ChainInv'
    BY <1>0, <2>1, <2>2, <2>3 DEF OwnInv, ChainInv, SameCall
  <2> QED
    BY <1>0, <1>1, <1>4, <2>1, <2>4, <2>5, OwnQuiet
<1> QED
  BY <1>1, <1>2, <1>3, <1>4

LEMMA FreeOwn ==
  ASSUME CallInv, CallInv', harm \in Nat, OwnInv, PutFree
  PROVE  OwnInv'
<1> DEFINE c == frame.cur
           w == Entered
<1>0. /\ StoreInv /\ FrameInv /\ FrameInv' /\ pc = "unput" /\ frame.op = "unlink" /\ c \in Usable
      /\ frame.slot \in Slots
  BY FreeCases DEF CallInv
<1>1. harm = 0 =>
        /\ Owned(View, Orphans, Dangling) /\ ~IsFree(View, c) /\ w # 0
        /\ frame.next = FatEntry(View, 0, c)
  BY <1>0 DEF OwnInv, ChainInv
<1>2. IF w = c THEN Orphans = {} /\ Dangling = {} ELSE Orphans = {c} /\ Dangling = {w}
  BY <1>0 DEF Orphans, Orphan, Dangling, Dangles, Linking
<1>3. w \in Usable \cup {0}
  BY <1>0, DirRead DEF Entered
<1>4. CASE Harmed
  BY <1>4, OwnHarmed
<1>5. CASE /\ PutDone(Put(1, c, FREE)) /\ SameCall /\ pc' = "unput" /\ frame'.cur = c
           /\ frame'.next = frame.next
  <2>1. /\ UNCHANGED harm /\ disk' \in {disk, View} /\ View'[DirSect] = View[DirSect]
        /\ \A b \in Usable : FatEntry(View', 0, b) = FatEntry(View, 0, b)
    BY <1>0, <1>5, PutChanged
  <2>2. Entered' = Entered
    BY <1>5, <2>1 DEF Entered, SameCall
  <2>3. Orphans' = Orphans /\ Dangling' = Dangling
    BY <1>0, <1>5, <2>2 DEF Orphans, Orphan, Dangling, Dangles, Linking
  <2>4. harm = 0 => Owned(View', Orphans', Dangling')
    BY <1>1, <2>1, <2>3, OwnedSame
  <2>5. harm = 0 => ChainInv'
    BY <1>0, <1>1, <1>5, <2>1, <2>2 DEF ChainInv, SameCall, IsFree
  <2> QED
    BY <1>0, <1>5, <2>1, <2>4, <2>5, OwnStep
<1>6. CASE /\ PutDone(Put(0, c, FREE)) /\ SameCall
           /\ \/ frame.next >= EOC /\ pc' = "sync"
              \/ frame.next \in Usable /\ pc' = "free" /\ frame'.cur = frame.next
  <2>1. /\ UNCHANGED harm /\ disk' \in {disk, View} /\ View'[DirSect] = View[DirSect]
        /\ Changed(View, View', c, FREE)
    BY <1>0, <1>6, PutChanged
  <2>2. Entered' = w
    BY <1>6, <2>1 DEF Entered, SameCall
  <2>3. ASSUME harm = 0 PROVE Owned(View', Orphans', Dangling') /\ ChainInv'
    <3> DEFINE x == FatEntry(View, 0, c)
    <3>1. /\ x \in Usable => Owned(View', {x}, {w}) /\ x # w /\ ~IsFree(View', x)
          /\ x \notin Usable => Owned(View', {}, {w})
      <4> DEFINE d == View
                 e == View'
                 n == frame.slot
      <4>1. /\ n \in Slots /\ ~IsFree(d, c) /\ d[DirSect][n] \in Usable
            /\ \/ d[DirSect][n] = c /\ Owned(d, {}, {})
               \/ d[DirSect][n] # c /\ Owned(d, {c}, {d[DirSect][n]})
            /\ Changed(d, e, c, FREE)
        BY <1>0, <1>1, <1>2, <1>3, <2>1, <2>3 DEF Entered
      <4> HIDE DEF d, e, n
      <4>2. /\ FatEntry(d, 0, c) \in Usable =>
                 /\ Owned(e, {FatEntry(d, 0, c)}, {d[DirSect][n]})
                 /\ FatEntry(d, 0, c) # d[DirSect][n] /\ ~IsFree(e, FatEntry(d, 0, c))
            /\ FatEntry(d, 0, c) \notin Usable => Owned(e, {}, {d[DirSect][n]})
        BY <1>0, <4>1, OwnedClear
      <4> QED
        BY <4>2 DEF d, e, n, Entered
    <3>2. frame.next = x
      BY <1>1, <2>3
    <3>3. CASE x >= EOC /\ pc' = "sync"
      <4>1. x \notin Usable
        <5> HIDE DEF x
        <5>1. \A y \in Usable : y \in Nat /\ y < EOC /\ EOC \in Nat
          BY UsableClusts
        <5> QED
          BY <3>3, <5>1
      <4>2. Orphans' = {} /\ Dangling' = {w}
        BY <1>0, <1>6, <2>2, <3>3 DEF Orphans, Orphan, Dangling, Dangles, Linking, SameCall
      <4>3. ChainInv'
        BY <1>0, <1>1, <1>6, <2>2, <2>3, <3>3 DEF ChainInv, SameCall
      <4> QED
        BY <3>1, <4>1, <4>2, <4>3
    <3>4. CASE x \in Usable /\ pc' = "free" /\ frame'.cur = x
      <4>1. Orphans' = {x} /\ Dangling' = {w}
        BY <2>2, <3>1, <3>4 DEF Orphans, Orphan, Dangling, Dangles
      <4>2. ChainInv'
        BY <1>0, <1>1, <1>6, <2>2, <2>3, <3>1, <3>4 DEF ChainInv, SameCall
      <4> QED
        BY <3>1, <3>4, <4>1, <4>2
    <3> QED
      BY <1>6, <3>2, <3>3, <3>4
  <2> QED
    BY <1>0, <1>6, <2>1, <2>3, OwnStep
<1> QED
  BY <1>4, <1>5, <1>6, FreeCases

LEMMA SyncedOwn ==
  ASSUME CallInv, CallInv', OwnInv, pc \in {"sync", "sync_end", "info", "info_end"},
         Quiet, disk' = View, UNCHANGED harm, Synced
  PROVE  OwnInv'
<1>0. FrameInv /\ FrameInv' /\ View' = View
  BY DEF CallInv, Quiet
<1>1. CASE pc \in {"sync_end", "info_end"}
  <2>1. pc' = "idle"
    BY <1>1 DEF Synced, Return
  <2> QED
    BY <1>0, <1>1, <2>1, OwnEnds
<1>2. CASE pc \in {"sync", "info"} /\ frame.op = "grow"
  <2>1. pc' = "idle"
    BY <1>2 DEF Synced, Return
  <2>2. Orphans = {} /\ Dangling = {}
    BY <1>2 DEF Orphans, Orphan, Dangling, Dangles, Linking
  <2>3. ChainInv'
    BY <2>1 DEF ChainInv
  <2> QED
    BY <1>0, <1>2, <2>1, <2>2, <2>3, NoOrphans, OwnQuiet
<1>3. CASE pc \in {"sync", "info"} /\ frame.op \in {"create", "unlink"}
  <2>1. frame' = frame /\ pc' = (IF frame.op = "create" THEN "dir_add" ELSE "rm_entry")
    BY <1>3 DEF Synced, Goto
  <2>2. Orphans' = Orphans /\ Dangling' = Dangling
    BY <1>0, <1>3, <2>1 DEF Orphans, Orphan, Dangling, Dangles, Linking, Entered
  <2>3. harm = 0 => ChainInv'
    BY <1>0, <1>3, <2>1 DEF OwnInv, ChainInv, Entered
  <2> QED
    BY <1>0, <2>1, <2>2, <2>3, OwnQuiet
<1> QED
  BY <1>0, <1>1, <1>2, <1>3 DEF FrameInv

LEMMA SyncOwn ==
  ASSUME CallInv, CallInv', harm \in Nat, OwnInv, SyncFs \/ WriteInfo
  PROVE  OwnInv'
<1>0. /\ StoreInv /\ InfoInv /\ FrameInv /\ FrameInv' /\ pc \in {"sync", "sync_end", "info", "info_end"}
      /\ info \in Infos
  BY DEF CallInv, InfoInv, SyncFs, WriteInfo
<1>1. CASE Harmed
  BY <1>1, OwnHarmed
<1>2. CASE Quiet /\ disk' = View /\ Synced /\ UNCHANGED harm
  BY <1>0, <1>2, SyncedOwn
<1>3. CASE /\ pc \in {"sync", "sync_end"} /\ View' = [View EXCEPT ![InfoSect] = info] /\ disk' = View
           /\ UNCHANGED harm /\ Goto(IF pc = "sync" THEN "info" ELSE "info_end", frame)
  <2>1. Volume(View) /\ info \in Kind(InfoSect)
    BY <1>0, ViewFacts DEF Kind
  <2>2. View'[DirSect] = View[DirSect] /\ \A b \in Usable : FatEntry(View', 0, b) = FatEntry(View, 0, b)
    BY <1>3, <2>1, OtherWritten, UsableClusts
  <2>3. pc' = (IF pc = "sync" THEN "info" ELSE "info_end") /\ frame' = frame
    BY <1>3 DEF Goto
  <2>4. Entered' = Entered
    BY <2>2, <2>3 DEF Entered
  <2>5. Orphans' = Orphans /\ Dangling' = Dangling
    BY <1>3, <2>3, <2>4 DEF Orphans, Orphan, Dangling, Dangles, Linking
  <2>6. harm = 0 => Owned(View', Orphans', Dangling')
    BY <2>2, <2>5, OwnedSame DEF OwnInv
  <2>7. harm = 0 => ChainInv'
    BY <1>3, <2>3, <2>4 DEF OwnInv, ChainInv
  <2> QED
    BY <1>0, <1>3, <2>3, <2>6, <2>7, OwnStep DEF SameCall
<1>4. CASE SyncFs
  BY <1>0, <1>1, <1>2, <1>3, <1>4, SyncFsFacts
<1>5. CASE WriteInfo
  BY <1>0, <1>1, <1>2, <1>5, WriteInfoFacts
<1> QED
  BY <1>4, <1>5

LEMMA DirOwn ==
  ASSUME CallInv, CallInv', harm \in Nat, OwnInv, DirAdd \/ RemoveEntries
  PROVE  OwnInv'
<1> DEFINE n == frame.slot
<1>0. /\ StoreInv /\ FrameInv /\ FrameInv' /\ pc \in {"dir_add", "rm_entry"} /\ n \in Slots
      /\ pc = "dir_add" => frame.cur \in Usable
  BY DEF CallInv, FrameInv, DirAdd, RemoveEntries
<1>1. ASSUME NEW v \in Usable \cup {0}, DirSet(n, v)
      PROVE  UNCHANGED harm /\ disk' \in {disk, View} /\ Entering(View, View', n, v)
  <2>1. View[DirSect] \in Dirs
    BY <1>0, SpecialSectors, ViewFacts, VolumeFacts
  <2>2. \A m \in Slots : View'[DirSect][m] = IF m = n THEN v ELSE View[DirSect][m]
    BY <1>0, <1>1, <2>1 DEF DirSet, Dirs
  <2> QED
    BY <1>1, <2>2, UsableClusts DEF DirSet, Entering
<1>2. CASE Harmed
  BY <1>2, OwnHarmed
<1>3. CASE DirAdd
  <2>0. frame.cur \in Usable
    BY <1>0, <1>3 DEF DirAdd
  <2>1. pc = "dir_add" /\ (Harmed \/ (DirSet(n, frame.cur) /\ Return(frame, "NONE")))
    BY <1>0, <1>3, <2>0, DirAddFacts
  <2>2. frame.op \in {"create", "guess"} /\ (harm = 0 => frame.op = "create")
    BY <1>0, <2>1 DEF FrameInv, OwnInv, ChainInv
  <2>3. CASE DirSet(n, frame.cur) /\ Return(frame, "NONE")
    <3>1. pc' = "idle"
      BY <2>3 DEF Return
    <3>3. harm = 0 => Owned(View', {}, {})
      <4> SUFFICES ASSUME harm = 0 PROVE Owned(View', {}, {})
        OBVIOUS
      <4>0. Orphans = {frame.cur} /\ Dangling = {}
        BY <2>1, <2>2 DEF Orphans, Orphan, Dangling, Dangles
      <4>1. Owned(View, {frame.cur}, {}) /\ View[DirSect][n] = 0
        BY <2>1, <2>2, <4>0 DEF OwnInv, ChainInv, Entered
      <4> QED
        BY <1>0, <1>1, <2>0, <2>3, <4>1, OwnedEnter
    <3>4. Orphans' = {} /\ Dangling' = {} /\ ChainInv'
      BY <3>1, NoOrphans DEF ChainInv
    <3> QED
      BY <1>0, <1>1, <2>0, <2>2, <2>3, <3>3, <3>4, OwnStep
  <2> QED
    BY <1>2, <2>1, <2>3
<1>4. CASE RemoveEntries
  <2>1. pc = "rm_entry" /\ (Harmed \/ (DirSet(n, 0) /\ Goto("sync_end", frame)))
    BY <1>0, <1>4, RemoveEntriesFacts
  <2>2. frame.op = "unlink"
    BY <1>0, <2>1 DEF FrameInv
  <2>3. CASE DirSet(n, 0) /\ Goto("sync_end", frame)
    <3>1. pc' = "sync_end" /\ frame' = frame
      BY <2>3 DEF Goto
    <3>2. Orphans = {} /\ Dangling = {Entered}
      BY <2>1, <2>2 DEF Orphans, Orphan, Dangling, Dangles, Linking
    <3>3. harm = 0 => Owned(View', {}, {})
      <4> SUFFICES ASSUME harm = 0 PROVE Owned(View', {}, {})
        OBVIOUS
      <4>1. Owned(View, {}, {View[DirSect][n]}) /\ View[DirSect][n] # 0
        BY <2>1, <2>2, <3>2 DEF OwnInv, ChainInv, Entered
      <4>2. View[DirSect][n] \in Usable
        BY <1>0, <4>1, DirRead
      <4> QED
        BY <1>0, <1>1, <2>3, <4>1, <4>2, OwnedForget
    <3>4. Orphans' = {} /\ Dangling' = {} /\ ChainInv'
      BY <3>1, NoOrphans DEF ChainInv
    <3> QED
      BY <1>0, <1>1, <2>3, <3>1, <3>3, <3>4, OwnStep DEF SameCall
  <2> QED
    BY <1>2, <2>1, <2>3
<1> QED
  BY <1>3, <1>4

LEMMA MountOwn ==
  ASSUME CallInv, CallInv', CountInv, OwnInv, FatSync \/ FatUmount \/ Mount \/ Crash
  PROVE  OwnInv'
<1>0. StoreInv /\ FrameInv /\ FrameInv' /\ harm \in Nat
  BY DEF CallInv, CountInv
<1>1. CASE FatSync \/ FatUmount
  <2>1. pc = "idle" /\ UNCHANGED bufVars /\ UNCHANGED harm /\ pc' = "sync_end"
    BY <1>1 DEF FatSync, FatUmount, Goto
  <2>2. StoreInv' /\ View' = View /\ disk' = disk
    BY <1>0, <2>1 DEF View, Flushed, bufVars, StoreInv
  <2>3. frame.op = "none" /\ ChainInv'
    BY <1>0, <2>1, NoFrameFacts DEF FrameInv, ChainInv
  <2> QED
    BY <1>0, <2>1, <2>2, <2>3, NoOrphans, OwnQuiet DEF Quiet
<1>2. CASE Mount
  <2>1. /\ pc = "idle" /\ ~mounted /\ UNCHANGED <<pc, frame>>
        /\ Harmed \/ (StoreInv' /\ View' = disk /\ UNCHANGED <<disk, harm>>)
    BY <1>0, <1>2, MountFacts
  <2>2. CASE Harmed
    BY <1>0, <2>2, OwnHarmed
  <2>3. CASE View' = disk /\ UNCHANGED <<disk, harm>>
    <3>1. harm = 0 => View = disk
      BY <2>1 DEF CountInv
    <3>2. Orphans = {} /\ Dangling = {} /\ Orphans' = {} /\ Dangling' = {}
      BY <2>1, NoOrphans
    <3>3. ChainInv'
      BY <2>1 DEF ChainInv
    <3>4. harm = 0 => Owned(View', Orphans', Dangling')
      BY <2>3, <3>1, <3>2 DEF OwnInv
    <3> QED
      BY <1>0, <2>1, <2>3, <3>3, <3>4, OwnStep DEF SameCall
  <2> QED
    BY <2>1, <2>2, <2>3
<1>3. CASE Crash
  BY <1>0, <1>3, CrashFacts, OwnHarmed
<1> QED
  BY <1>1, <1>2, <1>3

LEMMA NextOwn == CallInv /\ CallInv' /\ CountInv /\ OwnInv /\ [Next]_vars => OwnInv'
<1> SUFFICES ASSUME CallInv, CallInv', CountInv, OwnInv, [Next]_vars PROVE OwnInv'
  OBVIOUS
<1>0. harm \in Nat
  BY DEF CountInv
<1>1. ASSUME NEW n \in Slots, Create(n) \/ Grow(n) \/ Unlink(n) PROVE OwnInv'
  BY <1>0, <1>1, BeginOwn
<1>2. CASE Step
  BY <1>0, <1>2, WalkOwn, SeekOwn, StretchOwn, FreeNextOwn, FreeOwn, SyncOwn, DirOwn DEF Step
<1>3. CASE FatSync \/ FatUmount \/ Mount \/ Crash
  BY <1>3, MountOwn
<1>4. CASE UNCHANGED vars
  <2>1. View' = View /\ pc' = pc /\ frame' = frame /\ disk' = disk /\ harm' = harm
    BY <1>4 DEF View, Flushed, vars, bufVars
  <2>2. Entered' = Entered
    BY <2>1 DEF Entered
  <2>3. Orphans' = Orphans /\ Dangling' = Dangling
    BY <2>1, <2>2 DEF Orphans, Orphan, Dangling, Dangles, Linking
  <2>4. ChainInv => ChainInv'
    BY <2>1, <2>2 DEF ChainInv
  <2> QED
    BY <2>1, <2>3, <2>4 DEF OwnInv
<1> QED
  BY <1>1, <1>2, <1>3, <1>4 DEF Next

(* On a volume as it comes the root directory owns the clusters in use. *)
LEMMA InitOwn == Init => OwnInv
<1> SUFFICES ASSUME Init PROVE OwnInv
  OBVIOUS
<1> DEFINE E(c) == FatEntry(disk, 0, c)
<1>1. View = disk /\ pc = "idle" /\ \A n \in Slots : disk[DirSect][n] = 0
  BY InitVolume
<1>2. FREE = 0 /\ 0 \notin Usable /\ EOC \notin Usable /\ EOC \in Nat /\ EOC # 0 /\ RootClust \in Usable
  BY UsableClusts
<1>21. PICK root \in Usable : \A c \in Usable : E(c) = FirstEntry(root, c)
  BY InitVolume, UsableClusts
<1>22. \A c \in Usable :
         /\ c > root => E(c) = 0
         /\ c = root => E(c) = EOC
         /\ c < root => E(c) = c + 1 /\ c + 1 \in Usable /\ c + 1 # RootClust
  BY <1>2, <1>21, Layout DEF FirstEntry, Usable, RootClust
<1>23. Usable \subseteq Nat /\ \A c \in Usable : c # RootClust => c - 1 \in Usable
  BY UsableClusts, Layout DEF Usable, RootClust
<1>24. RootClust <= root
  BY Layout DEF Usable, RootClust
<1> HIDE DEF E
<1>3. \A c \in Usable : Legal(E(c)) /\ (E(c) \in Usable => c < root /\ E(c) = c + 1)
  BY <1>2, <1>22, <1>23 DEF Legal
<1>4. \A c \in Usable : IsFree(disk, c) <=> c > root
  BY <1>2, <1>22, <1>23 DEF IsFree, E
<1>5. Single(disk)
  <2>1. \A a, b \in Usable : E(a) = E(b) /\ E(a) \in Usable => a = b
    BY <1>3, <1>23
  <2>2. \A b \in Usable : E(b) # RootClust
    BY <1>2, <1>3, <1>22, <1>23
  <2> QED
    BY <1>1, <1>2, <2>1, <2>2 DEF Single, E
<1>6. \A c \in Usable : Claimed(disk, c) <=> c <= root
  <2> TAKE c \in Usable
  <2>1. CASE c = RootClust
    BY <1>24, <2>1 DEF Claimed
  <2>2. CASE c # RootClust /\ c <= root
    <3>1. c - 1 \in Usable /\ E(c - 1) = c
      BY <1>22, <1>23, <2>2
    <3> QED
      BY <2>2, <3>1 DEF Claimed, E
  <2>3. CASE c # RootClust /\ c > root
    <3>1. \A b \in Usable : E(b) # c
      BY <1>3, <1>23, <2>3
    <3> QED
      BY <1>1, <1>2, <1>23, <2>3, <3>1 DEF Claimed, E
  <2> QED
    BY <1>23, <2>1, <2>2, <2>3
<1>7. Owned(disk, {}, {})
  BY <1>3, <1>4, <1>5, <1>6, <1>23 DEF Owned, E
<1>8. Damage(disk, frame)
  BY <1>7, OwnedDamage
<1>9. ChainInv
  BY <1>1 DEF ChainInv
<1> QED
  BY <1>1, <1>7, <1>8, <1>9, NoOrphans DEF OwnInv

LEMMA OwnInvariant == Spec => [](CallInv /\ OwnInv)
<1>1. Init => CallInv /\ CountInv /\ OwnInv
  BY InitCall, InitCount, InitOwn
<1>2. CallInv /\ CountInv /\ OwnInv /\ [Next]_vars => CallInv' /\ CountInv' /\ OwnInv'
  BY NextCall, NextCount, NextOwn
<1> QED
  BY <1>1, <1>2, PTL DEF Spec

(* A volume where no cluster is claimed twice, counted. *)
LEMMA ClaimsCount ==
  ASSUME NEW d, Single(d), NEW c \in Usable
  PROVE  Claims(d, c) = IF Claimed(d, c) THEN 1 ELSE 0
<1> DEFINE L == {b \in Usable : FatEntry(d, 0, b) = c}
           E == {n \in Slots : d[DirSect][n] = c}
<1>0. Cardinality({}) = 0
  BY FS_EmptySet
<1>1. CASE \E b \in Usable : FatEntry(d, 0, b) = c
  <2>1. PICK b \in Usable : FatEntry(d, 0, b) = c
    BY <1>1
  <2>2. L = {b} /\ E = {} /\ c # RootClust
    BY <2>1 DEF Single
  <2>3. Cardinality({b}) = 1
    BY FS_Singleton
  <2>4. Claims(d, c) = 1 + 0 + 0
    BY <1>0, <2>2, <2>3 DEF Claims
  <2> QED
    BY <1>1, <2>4 DEF Claimed
<1>2. CASE \E n \in Slots : d[DirSect][n] = c
  <2>1. PICK n \in Slots : d[DirSect][n] = c
    BY <1>2
  <2>2. L = {} /\ E = {n} /\ c # RootClust
    BY <2>1 DEF Single
  <2>3. Cardinality({n}) = 1
    BY FS_Singleton
  <2>4. Claims(d, c) = 0 + 1 + 0
    BY <1>0, <2>2, <2>3 DEF Claims
  <2> QED
    BY <1>2, <2>4 DEF Claimed
<1>3. CASE c = RootClust
  <2>1. L = {} /\ E = {}
    BY <1>3 DEF Single
  <2>2. Claims(d, c) = 0 + 0 + 1
    BY <1>0, <1>3, <2>1 DEF Claims
  <2> QED
    BY <1>3, <2>2 DEF Claimed
<1>4. CASE ~Claimed(d, c)
  <2>1. L = {} /\ E = {} /\ c # RootClust
    BY <1>4 DEF Claimed
  <2>2. Claims(d, c) = 0 + 0 + 0
    BY <1>0, <2>1 DEF Claims
  <2> QED
    BY <1>4, <2>2
<1> QED
  BY <1>1, <1>2, <1>3, <1>4 DEF Claimed

(* Between two calls every cluster in use belongs to exactly one file or   *)
(* directory and no free one is claimed, through every create, grow and    *)
(* unlink, sync, unmount and mount that nothing failed in: stretch_chain   *)
(* and remove_chain with dir_add and remove_entries leave no cross-links   *)
(* and lose no cluster.                                                    *)
THEOREM ClustersOwnedOnce == Spec => []OwnedOnce
<1>1. CallInv /\ OwnInv => OwnedOnce
  <2> SUFFICES ASSUME OwnInv, pc = "idle", harm = 0, NEW c \in Usable
               PROVE  Claims(View, c) = IF IsFree(View, c) THEN 0 ELSE 1
    BY DEF OwnedOnce
  <2>1. Owned(View, {}, {})
    BY NoOrphans DEF OwnInv
  <2>2. Claimed(View, c) <=> ~IsFree(View, c)
    BY <2>1 DEF Owned
  <2>3. Claims(View, c) = IF Claimed(View, c) THEN 1 ELSE 0
    BY <2>1, ClaimsCount DEF Owned
  <2> QED
    BY <2>2, <2>3
<1> QED
  BY <1>1, OwnInvariant, PTL

(* Power may be lost at any moment: the disk then has no cluster claimed   *)
(* twice, no link to a free cluster, and at most the entry of the file     *)
(* that fat_unlink was removing names a chain that is gone, because        *)
(* stretch_chain marks before it links and remove_chain frees from the     *)
(* head.                                                                   *)
THEOREM CrashDoesLittle == Spec => []CrashDamage
<1>1. CallInv /\ OwnInv => CrashDamage
  <2> SUFFICES ASSUME OwnInv, harm = 0, NEW c \in Usable
               PROVE  /\ Claims(disk, c) <= 1
                      /\ IsFree(disk, c) =>
                           /\ \A b \in Usable : FatEntry(disk, 0, b) # c
                           /\ \A n \in Slots :
                                disk[DirSect][n] = c => frame.op = "unlink" /\ frame.slot = n
    BY DEF CrashDamage
  <2>1. Damage(disk, frame)
    BY DEF OwnInv
  <2>2. Claims(disk, c) \in {0, 1}
    BY <2>1, ClaimsCount DEF Damage
  <2>3. Claims(disk, c) <= 1
    <3> DEFINE k == Claims(disk, c)
    <3>1. k \in {0, 1}
      BY <2>2
    <3> HIDE DEF k
    <3>2. k <= 1
      BY <3>1
    <3> QED
      BY <3>2 DEF k
  <2> QED
    BY <2>1, <2>3 DEF Damage
<1> QED
  BY <1>1, OwnInvariant, PTL
=============================================================================
