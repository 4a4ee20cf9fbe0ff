------------------------------ MODULE FatVolume ------------------------------
(***************************************************************************)
(* The allocation table of a FAT volume and the calls that change it:      *)
(* creating a file, growing one by a cluster, unlinking one, fat_sync,     *)
(* fat_umount and fat_mount, over the one-sector buffer of FatBuffer.      *)
(*                                                                         *)
(* fat32.c runs to completion in one thread, so a call is a sequence of    *)
(* steps, one per access to the buffer (update_buf with what the caller    *)
(* does to the sector).  Any access may fail; power may be lost between    *)
(* any two.  The disk is the volume's real layout: FSInfo, the two copies  *)
(* of the FAT, and the first cluster of the root directory.  A cluster is  *)
(* one sector.                                                             *)
(*                                                                         *)
(* The directory is a set of slots, each with room for the records of one  *)
(* file; FatDir has how records are laid out and how runs of them are      *)
(* searched.  A slot is the identity of an entry, never a name: which      *)
(* entry dir_search settles on for a path is left open here, because with  *)
(* the memcmp of string.c:50 it is not the one of that name.  A call may   *)
(* come upon any entry, or upon none although there are some.              *)
(***************************************************************************)
EXTENDS FatBuffer, Integers, Sequences, FiniteSets

CONSTANTS
  CLUST_CNT,   \* fat->clust_cnt
  ENTRIES,     \* FAT entries in a sector, 128 in the code
  Mirror,      \* is fat->fat_sect[1] set?
  Slots,       \* the slots of the root directory
  WIDTH,       \* free_cnt is a uint32_t: arithmetic is modulo WIDTH
  MaxHarm,     \* bound on failing disk accesses and power losses together
  Garbage,     \* bound: the clusters an uninitialised number may name
  Formats      \* how the volume may come: the last cluster of its root
               \* directory; whether FSInfo is signed, its hint next_free,
               \* and how far off its free_cnt is

(* FAT entry values.  The volume has the clusters 2 .. CLUST_CNT + 1, but  *)
(* the code compares cluster numbers with clust_cnt and never hands out    *)
(* the last two.                                                           *)
FREE == 0
BAD == CLUST_CNT + 7
EOC == CLUST_CNT + 8

RootClust == 2
Usable == 2 .. CLUST_CNT - 1
FatSects == (CLUST_CNT + 1) \div ENTRIES + 1

ASSUME VolumeAssumption ==
  /\ CLUST_CNT \in Nat /\ CLUST_CNT > 3
  /\ ENTRIES \in Nat \ {0}
  /\ Mirror \in BOOLEAN /\ MaxHarm \in Nat
  /\ WIDTH \in Nat /\ WIDTH > CLUST_CNT
  /\ Garbage \subseteq Usable
  /\ Formats \subseteq [root : Usable, signed : BOOLEAN, hint : 0 .. WIDTH - 1, off : 0 .. WIDTH - 1]
  /\ InfoSect = 1

fat_sect(t) == 2 + t * FatSects                \* fat->fat_sect[t]
FatSector(t, c) == fat_sect(t) + c \div ENTRIES
DirSect == 2 + 2 * FatSects                    \* clust_to_sect(root_clust)

VARIABLES
  mounted,  \* is the structure in g_fat_list?
  pc,       \* what the running call does next
  frame,    \* the running call and its locals
  ret,      \* the last call and what it returned
  harm,     \* failing accesses and power losses so far
  off       \* history: how far free_cnt was off when it was last mounted

bufVars == <<sect, disk, buf, bufDirty, infoDirty, info>>
vars == <<harm, bufVars, mounted, pc, frame, ret, off>>

(* The locals of the call chain: stretch_chain's prev and clust, or        *)
(* remove_chain's clust and next, and the put_fat2 calls still to make.    *)
Frame(op, slot, prev, cur) ==
  [op |-> op, slot |-> slot, prev |-> prev, cur |-> cur, next |-> 0, puts |-> <<>>]
NoFrame == Frame("none", "none", 0, 0)

(* A call that fails answers with its error code alone. *)
Result(f, err) ==
  IF err = "NONE" THEN [op |-> f.op, slot |-> f.slot, err |-> err]
  ELSE [op |-> "none", slot |-> "none", err |-> err]
Return(f, err) == pc' = "idle" /\ frame' = NoFrame /\ ret' = Result(f, err)
Goto(l, f) == pc' = l /\ frame' = f /\ UNCHANGED ret

-----------------------------------------------------------------------------
(* A volume as it comes: the root directory owns the clusters from the     *)
(* first up to root, and all others are free.  Its FSInfo is what the      *)
(* system that wrote it last left there: next_free may name any cluster,   *)
(* one past those this code hands out, or none (WIDTH - 1), free_cnt may   *)
(* be wrong or unknown, and the signatures may be missing.  sync_fs loads  *)
(* the sector and sets its two numbers, so the signatures stay as they     *)
(* are: info carries them.                                                 *)
FirstEntry(root, c) ==
  IF c > root THEN FREE ELSE IF c < RootClust \/ c = root THEN EOC ELSE c + 1
FirstFat(root) ==
  [s \in 0 .. FatSects - 1 |->
    [i \in 0 .. ENTRIES - 1 |-> FirstEntry(root, s * ENTRIES + i)]]

(* The buffer of a Fat structure that was never used. *)
Zeroed == [i \in 0 .. ENTRIES - 1 |-> FREE]

NoInfo == [signed |-> FALSE, last_used |-> 0, free_cnt |-> 0]

(* What fat_mount takes from an FSInfo sector.  A hint that is not known   *)
(* is replaced by cluster 2, any other is taken as it is; without its      *)
(* signatures the sector tells nothing.                                    *)
ReadInfo(i) ==
  IF i.signed
  THEN [i EXCEPT !.last_used = IF @ = WIDTH - 1 THEN 2 ELSE @]
  ELSE [i EXCEPT !.last_used = 2, !.free_cnt = WIDTH - 1]

Init ==
  /\ \E f \in Formats :
       /\ off = f.off
       /\ disk = [s \in 0 .. DirSect |->
         CASE s = BootSect -> "boot"
           [] s = InfoSect -> [signed |-> f.signed, last_used |-> f.hint,
                               free_cnt |-> (CLUST_CNT + 1 - f.root + f.off) % WIDTH]
           [] s \in fat_sect(0) .. fat_sect(1) - 1 -> FirstFat(f.root)[s - fat_sect(0)]
           [] s \in fat_sect(1) .. DirSect - 1 -> FirstFat(f.root)[s - fat_sect(1)]
           [] s = DirSect -> [n \in Slots |-> 0]]
  /\ buf = Zeroed /\ sect = BootSect
  /\ bufDirty = FALSE /\ infoDirty = FALSE
  /\ info = NoInfo
  /\ mounted = FALSE
  /\ pc = "idle" /\ frame = NoFrame /\ ret = Result(NoFrame, "NONE")
  /\ harm = 0

-----------------------------------------------------------------------------
(* The accesses, each followed by what the call does with the sector.      *)

Harmed == harm < MaxHarm /\ harm' = harm + 1

BufFails(s) == UpdateBufFails(s) /\ Harmed
BufOk(s) == UpdateBufOk(s) /\ UNCHANGED harm
BufWrite(s, v) == UpdateBufWrite(s, v) /\ UNCHANGED harm

Fails(s) == BufFails(s) /\ Return(frame, "IO") /\ UNCHANGED info

(* get_fat: the entry of cluster c once its sector is loaded, and what the *)
(* code takes it for.                                                      *)
Entry(c) == Loaded(FatSector(0, c))[c % ENTRIES]
get_fat(c) ==
  LET val == Entry(c)
  IN  CASE val = FREE -> "free"
        [] val = BAD -> "bad"
        [] val >= EOC -> "last"
        [] val >= 2 /\ val < CLUST_CNT -> "used"
        [] OTHER -> "BROKEN"

(* Mutant: only the active FAT is written.                                 *)
put_fat_no_mirror(c, val) == <<[table |-> 0, clust |-> c, val |-> val]>>

(* put_fat: the mirror first, then the active FAT. *)
put_fat(c, val) ==
  (IF Mirror THEN <<[table |-> 1, clust |-> c, val |-> val]>> ELSE <<>>)
    \o <<[table |-> 0, clust |-> c, val |-> val]>>

(* The cluster after c, round the end of the volume. *)
NextClust(c) == IF c + 1 >= CLUST_CNT THEN 2 ELSE c + 1

-----------------------------------------------------------------------------
(* The calls.  Each searches the root directory first, and n is the slot   *)
(* of the entry it finds there.                                            *)

(* fat_file_open with FAT_CREATE.  If nothing is found, create_chain and   *)
(* dir_add make a new file in a slot that is free; an entry that is found  *)
(* is only opened.                                                         *)
Create(n) ==
  /\ pc = "idle" /\ mounted
  /\ LET f == Frame("create", n, 0, info.last_used) IN
     \/ BufFails(DirSect) /\ Return(f, "IO") /\ UNCHANGED infoDirty
     \/ /\ BufOk(DirSect)
        /\ \/ /\ Loaded(DirSect)[n] = 0
              /\ infoDirty' = TRUE
              /\ Goto("scan", f)
           \/ /\ Loaded(DirSect)[n] # 0
              /\ Return([f EXCEPT !.op = "open"], "NONE")
              /\ UNCHANGED infoDirty
  /\ UNCHANGED <<info, mounted>>

(* fat_file_open of an existing file, then fat_file_seek past its last     *)
(* cluster, as fat_file_write does when the file is full.                  *)
Grow(n) ==
  /\ pc = "idle" /\ mounted
  /\ LET f == Frame("grow", n, 0, Loaded(DirSect)[n]) IN
     \/ BufFails(DirSect) /\ Return(f, "IO")
     \/ /\ BufOk(DirSect)
        /\ \/ Return(f, "DENIED")
           \/ Loaded(DirSect)[n] # 0 /\ Goto("walk", f)
  /\ UNCHANGED <<infoDirty, info, mounted>>

(* fat_unlink: the clusters of a file are freed first, its entry after.    *)
(* An entry is denied for its attributes, or as a directory that is not    *)
(* empty (whose records FatDir reads; no slot here is a directory).        *)
Unlink(n) ==
  /\ pc = "idle" /\ mounted
  /\ LET f == Frame("unlink", n, 0, Loaded(DirSect)[n]) IN
     \/ BufFails(DirSect) /\ Return(f, "IO") /\ UNCHANGED infoDirty
     \/ /\ BufOk(DirSect)
        /\ \/ /\ Return(f, "EOF")
              /\ UNCHANGED infoDirty
           \/ /\ Loaded(DirSect)[n] # 0
              /\ Return(f, "DENIED")
              /\ UNCHANGED infoDirty
           \/ /\ Loaded(DirSect)[n] # 0
              /\ infoDirty' = TRUE
              /\ Goto("free", f)
  /\ UNCHANGED <<info, mounted>>

FatSync ==
  /\ pc = "idle" /\ mounted
  /\ Goto("sync_end", Frame("sync", "none", 0, 0))
  /\ UNCHANGED <<bufVars, mounted, harm>>

FatUmount ==
  /\ pc = "idle" /\ mounted
  /\ mounted' = FALSE
  /\ Goto("sync_end", Frame("umount", "none", 0, 0))
  /\ UNCHANGED <<bufVars, harm>>

(* The FAT of a volume d, and how many of its clusters are free. *)
FatEntry(d, t, c) == d[FatSector(t, c)][c % ENTRIES]
IsFree(d, c) == FatEntry(d, 0, c) = FREE
FreeClusts(d) == Cardinality({c \in 2 .. CLUST_CNT + 1 : IsFree(d, c)})

(* fat_mount of a structure that was never used; FatCache has the same     *)
(* structure mounted again, and the name that is too long.                 *)
Mount ==
  /\ pc = "idle" /\ ~mounted
  /\ LET f == Frame("mount", "none", 0, 0) IN
     \/ Harmed /\ ret' = Result(f, "IO") /\ UNCHANGED <<bufVars, mounted, off>>
     \/ /\ UNCHANGED harm
        /\ info' = ReadInfo(disk[InfoSect])
        /\ off' = IF disk[InfoSect].signed THEN off ELSE WIDTH - 1 - FreeClusts(disk)
        /\ sect' = BootSect /\ buf' = Zeroed
        /\ bufDirty' = FALSE /\ infoDirty' = FALSE
        /\ mounted' = TRUE
        /\ ret' = Result(f, "NONE")
        /\ UNCHANGED disk
  /\ UNCHANGED <<pc, frame>>

-----------------------------------------------------------------------------
(* fat_file_seek: follow the chain to its last cluster, then stretch it.   *)
Walk ==
  /\ pc = "walk"
  /\ LET c == frame.cur IN
     \/ Fails(FatSector(0, c)) /\ UNCHANGED infoDirty
     \/ /\ BufOk(FatSector(0, c))
        /\ \/ /\ get_fat(c) \in {"BROKEN", "bad", "free"}
              /\ Return(frame, "BROKEN")
              /\ UNCHANGED infoDirty
           \/ /\ get_fat(c) = "used"
              /\ Goto("walk", [frame EXCEPT !.cur = Entry(c)])
              /\ UNCHANGED infoDirty
           \/ /\ get_fat(c) = "last"
              /\ infoDirty' = TRUE
              /\ Goto("next", [frame EXCEPT !.prev = c, !.cur = NextClust(c)])
        /\ UNCHANGED info
  /\ UNCHANGED mounted

(* Mutant: the new cluster is not linked to the chain.                     *)
StretchPutsUnlinked(prev, c) == put_fat(c, EOC)

(* Mutant: the link is written before the end-of-chain mark.               *)
StretchPutsSwapped(prev, c) ==
  (IF prev # 0 THEN put_fat(prev, c) ELSE <<>>) \o put_fat(c, EOC)

(* The put_fat calls stretch_chain makes for cluster c: the end-of-chain   *)
(* mark, then the link from prev.                                          *)
StretchPuts(prev, c) ==
  put_fat(c, EOC) \o (IF prev # 0 THEN put_fat(prev, c) ELSE <<>>)

TakeCluster(c) ==
  Goto("put", [frame EXCEPT !.cur = c, !.puts = StretchPuts(frame.prev, c)])

(* Mutant: the cluster after prev is taken without a look at its entry.    *)
CheckNextBlind == pc = "next" /\ TakeCluster(frame.cur) /\ UNCHANGED <<bufVars, mounted, harm>>

(* stretch_chain, the cluster that follows prev on the disk. *)
CheckNext ==
  /\ pc = "next"
  /\ LET c == frame.cur IN
     \/ Fails(FatSector(0, c))
     \/ /\ BufOk(FatSector(0, c))
        /\ \/ get_fat(c) = "BROKEN" /\ Return(frame, "BROKEN")
           \/ get_fat(c) = "free" /\ TakeCluster(c)
           \/ /\ get_fat(c) \in {"used", "last", "bad"}
              /\ Goto("scan", [frame EXCEPT !.cur = info.last_used])
        /\ UNCHANGED info
  /\ UNCHANGED <<infoDirty, mounted>>

(* stretch_chain, one turn of the scan.  When get_fat fails, stretch_chain *)
(* returns the flags of the get_fat before it, which are not zero and are  *)
(* taken for an error code: "STALE".  On the first turn of create_chain    *)
(* there was none before it: the flags are uninitialised, and if they are  *)
(* zero the caller goes on with a cluster number nobody assigned; such a   *)
(* call is called "guess" from there on.                                   *)
ScanFails ==
  \/ Return(frame, "STALE")
  \/ /\ frame.prev = 0 /\ frame.cur = info.last_used
     /\ \E g \in Garbage : Goto("dir_add", Frame("guess", frame.slot, 0, g))

(* Mutant: the scan does not stop when it is back at last_used.            *)
ScanForever ==
  /\ pc = "scan"
  /\ LET c == NextClust(frame.cur) IN
     /\ BufOk(FatSector(0, c))
     /\ \/ get_fat(c) = "free" /\ TakeCluster(c)
        \/ get_fat(c) # "free" /\ Goto("scan", [frame EXCEPT !.cur = c])
  /\ UNCHANGED <<infoDirty, info, mounted>>

Scan ==
  /\ pc = "scan"
  /\ LET c == NextClust(frame.cur) IN
     \/ /\ c = info.last_used
        /\ Return(frame, "FULL")
        /\ UNCHANGED <<disk, buf, sect, bufDirty, harm>>
     \/ /\ c # info.last_used
        /\ BufFails(FatSector(0, c))
        /\ ScanFails
     \/ /\ c # info.last_used
        /\ BufOk(FatSector(0, c))
        /\ \/ get_fat(c) = "BROKEN" /\ ScanFails
           \/ get_fat(c) = "free" /\ TakeCluster(c)
           \/ /\ get_fat(c) \in {"used", "last", "bad"}
              /\ Goto("scan", [frame EXCEPT !.cur = c])
  /\ UNCHANGED <<infoDirty, info, mounted>>

(* put_fat2 for the first of the pending entries. *)
PutFat2(last) ==
  LET p == Head(frame.puts)
      s == FatSector(p.table, p.clust)
  IN  \/ Fails(s)
      \/ /\ BufWrite(s, [Loaded(s) EXCEPT ![p.clust % ENTRIES] = p.val])
         /\ \/ /\ Len(frame.puts) > 1
               /\ Goto(pc, [frame EXCEPT !.puts = Tail(@)])
               /\ UNCHANGED info
            \/ /\ Len(frame.puts) = 1
               /\ last

(* stretch_chain once the cluster is marked and linked. *)
PutStretch ==
  /\ pc = "put"
  /\ PutFat2(/\ info' = [signed |-> info.signed, last_used |-> frame.cur,
                       free_cnt |-> (info.free_cnt + WIDTH - 1) % WIDTH]
             /\ Goto("sync", [frame EXCEPT !.puts = <<>>]))
  /\ UNCHANGED <<infoDirty, mounted>>

(* remove_chain: read the entry of the cluster to free ... *)
FreeNext ==
  /\ pc = "free"
  /\ LET c == frame.cur IN
     \/ Fails(FatSector(0, c))
     \/ /\ BufOk(FatSector(0, c))
        /\ \/ get_fat(c) \in {"BROKEN", "bad", "free"} /\ Return(frame, "BROKEN")
           \/ /\ get_fat(c) \in {"used", "last"}
              /\ Goto("unput", [frame EXCEPT !.next = Entry(c), !.puts = put_fat(c, FREE)])
        /\ UNCHANGED info
  /\ UNCHANGED <<infoDirty, mounted>>

(* Mutant: remove_chain does not give the clusters back to free_cnt.       *)
PutFreeUncounted ==
  /\ pc = "unput"
  /\ PutFat2(/\ UNCHANGED info
             /\ IF frame.next >= EOC
                THEN Goto("sync", [frame EXCEPT !.cur = 0, !.next = 0, !.puts = <<>>])
                ELSE Goto("free", [frame EXCEPT !.cur = frame.next, !.next = 0, !.puts = <<>>]))
  /\ UNCHANGED <<infoDirty, mounted>>

(* ... and clear it; sync_fs follows the last cluster. *)
PutFree ==
  /\ pc = "unput"
  /\ PutFat2(/\ info' = [info EXCEPT !.free_cnt = (@ + 1) % WIDTH]
             /\ IF frame.next >= EOC
                THEN Goto("sync", [frame EXCEPT !.cur = 0, !.next = 0, !.puts = <<>>])
                ELSE Goto("free", [frame EXCEPT !.cur = frame.next, !.next = 0, !.puts = <<>>]))
  /\ UNCHANGED <<infoDirty, mounted>>

(* sync_fs at the end of stretch_chain and remove_chain ("sync") and at    *)
(* the end of fat_unlink, fat_sync and fat_umount ("sync_end").            *)
Synced ==
  \/ pc \in {"sync", "info"} /\ frame.op = "create" /\ Goto("dir_add", frame)
  \/ pc \in {"sync", "info"} /\ frame.op = "grow" /\ Return(frame, "NONE")
  \/ pc \in {"sync", "info"} /\ frame.op = "unlink" /\ Goto("rm_entry", frame)
  \/ pc \in {"sync_end", "info_end"} /\ Return(frame, "NONE")

SyncFs ==
  /\ pc \in {"sync", "sync_end"}
  /\ \/ SyncFsFails /\ Harmed /\ Return(frame, "IO")
     \/ SyncFsDone /\ Synced /\ UNCHANGED harm
     \/ /\ SyncFsLoadInfo
        /\ Goto(IF pc = "sync" THEN "info" ELSE "info_end", frame)
        /\ UNCHANGED harm
  /\ UNCHANGED <<infoDirty, info, mounted>>

WriteInfo ==
  /\ pc \in {"info", "info_end"}
  /\ \/ SyncInfoFails /\ Harmed /\ Return(frame, "IO")
     \/ SyncInfoOk /\ Synced /\ UNCHANGED harm
  /\ UNCHANGED <<info, mounted>>

(* dir_add: the new file's entry, left in the buffer. *)
DirAdd ==
  /\ pc = "dir_add"
  /\ \/ Fails(DirSect)
     \/ /\ BufWrite(DirSect, [Loaded(DirSect) EXCEPT ![frame.slot] = frame.cur])
        /\ Return(frame, "NONE")
        /\ UNCHANGED info
  /\ UNCHANGED <<infoDirty, mounted>>

(* Mutant: fat_unlink returns without the sync_fs at its end.              *)
RemoveEntriesUnsynced ==
  /\ pc = "rm_entry"
  /\ BufWrite(DirSect, [Loaded(DirSect) EXCEPT ![frame.slot] = 0])
  /\ Return(frame, "NONE")
  /\ UNCHANGED <<infoDirty, info, mounted>>

(* remove_entries, which ends fat_unlink but for its sync_fs. *)
RemoveEntries ==
  /\ pc = "rm_entry"
  /\ \/ Fails(DirSect)
     \/ /\ BufWrite(DirSect, [Loaded(DirSect) EXCEPT ![frame.slot] = 0])
        /\ Goto("sync_end", frame)
        /\ UNCHANGED info
  /\ UNCHANGED <<infoDirty, mounted>>

(* Power loss and the boot that follows it. *)
Crash ==
  /\ Harmed
  /\ buf' = Zeroed /\ sect' = BootSect
  /\ bufDirty' = FALSE /\ infoDirty' = FALSE /\ mounted' = FALSE
  /\ info' = NoInfo
  /\ pc' = "idle" /\ frame' = NoFrame /\ ret' = Result(NoFrame, "NONE")
  /\ UNCHANGED disk

(* The running call goes on. *)
Step ==
  /\ UNCHANGED off
  /\ \/ Walk \/ CheckNext \/ Scan \/ PutStretch \/ FreeNext \/ PutFree
     \/ SyncFs \/ WriteInfo \/ DirAdd \/ RemoveEntries

Next ==
  \/ UNCHANGED off /\ \E n \in Slots : Create(n) \/ Grow(n) \/ Unlink(n)
  \/ UNCHANGED off /\ (FatSync \/ FatUmount \/ Crash)
  \/ Mount
  \/ Step

Spec == Init /\ [][Next]_vars

(* The kernel does not stop in the middle of a call. *)
FairSpec == Spec /\ WF_vars(Step)

-----------------------------------------------------------------------------
(* The volume as the code reads it.                                        *)
View == Flushed

(* How often cluster c of volume d is claimed: by another cluster's link,  *)
(* by a directory entry, or as the root directory.                         *)
Claims(d, c) ==
  Cardinality({b \in Usable : FatEntry(d, 0, b) = c})
    + Cardinality({n \in Slots : d[DirSect][n] = c})
    + (IF c = RootClust THEN 1 ELSE 0)

(* Between two calls, every cluster in use belongs to exactly one file or  *)
(* directory, once, and no free cluster is claimed, as long as nothing has *)
(* failed (stretch_chain, remove_chain, dir_add, remove_entries).          *)
OwnedOnce ==
  pc = "idle" /\ harm = 0 =>
    \A c \in Usable : Claims(View, c) = IF IsFree(View, c) THEN 0 ELSE 1

(* What a crash at any moment leaves: no cluster claimed twice, no link to *)
(* a free cluster, and at most the entry of the file being unlinked left   *)
(* without its chain.  Order matters: stretch_chain marks before it links, *)
(* remove_chain frees from the head.                                       *)
CrashDamage ==
  harm = 0 => \A c \in Usable :
    /\ Claims(disk, c) <= 1
    /\ IsFree(disk, c) =>
         /\ \A b \in Usable : FatEntry(disk, 0, b) # c
         /\ \A n \in Slots : disk[DirSect][n] = c => frame.op = "unlink" /\ frame.slot = n

(* The two copies of the FAT agree between calls, and on disk they differ  *)
(* in at most one entry at any time, and one more for every access that    *)
(* failed between the two (put_fat).                                       *)
MirrorLag ==
  Mirror =>
    /\ pc = "idle" /\ harm = 0 => \A c \in Usable : FatEntry(View, 1, c) = FatEntry(View, 0, c)
    /\ Cardinality({c \in Usable : FatEntry(disk, 1, c) # FatEntry(disk, 0, c)}) <= 1 + harm

(* Between calls fat->free_cnt follows the free entries of the FAT, as     *)
(* long as nothing has failed: it is exact on a volume that was mounted    *)
(* with an exact count, and elsewhere off by as much as it was then, the   *)
(* count that fat_mount makes up for an FSInfo without signatures too.     *)
FreeCountExact ==
  pc = "idle" /\ mounted /\ harm = 0 => info.free_cnt = (FreeClusts(View) + off) % WIDTH

(* stretch_chain marks only a cluster the active FAT shows free, whatever  *)
(* failed before: a cluster in use is never handed out again.              *)
OnlyFreeTaken ==
  pc = "put" /\ Head(frame.puts).table = 0 /\ Head(frame.puts).val = EOC =>
    IsFree(View, Head(frame.puts).clust)

(* What a call answers is true of the entry it came upon, whatever failed  *)
(* before it.  FAT_ERR_FULL: no cluster but last_used is free.             *)
(* FAT_ERR_NONE: an entry that is unlinked is gone from the disk; a new    *)
(* entry is there and names a cluster that is in use, one that is opened   *)
(* is there; after fat_sync, fat_umount or fat_unlink the disk is the      *)
(* volume, and FSInfo what mounting it again would find.  The call of      *)
(* ScanFails that guesses its cluster is the exception.                    *)
AnswersTrue ==
  /\ pc = "idle" /\ mounted /\ ret.err = "FULL" =>
       \A c \in Usable : IsFree(View, c) => c = info.last_used
  /\ pc = "idle" /\ ret.err = "NONE" =>
       /\ ret.op = "unlink" => disk[DirSect][ret.slot] = 0
       /\ ret.op \in {"create", "open"} => View[DirSect][ret.slot] # 0
       /\ ret.op = "create" => ~IsFree(View, View[DirSect][ret.slot])
       /\ ret.op \in {"sync", "umount", "unlink"} =>
            disk = View /\ info \in {disk[InfoSect], ReadInfo(disk[InfoSect])}

(* stretch_chain scans until it is back at last_used.  A hint that fat_mount *)
(* took from FSInfo may be no cluster the scan comes to, and if then none is *)
(* free the scan never ends.                                               *)
Endless ==
  /\ pc = "scan" /\ info.last_used \notin Usable
  /\ \A c \in Usable : ~IsFree(View, c)

(* Every call returns, but for the scan of a full volume from a hint that  *)
(* it does not come back to (stretch_chain, remove_chain, fat_file_seek).  *)
EveryCallReturns == pc # "idle" ~> pc = "idle" \/ Endless
=============================================================================
