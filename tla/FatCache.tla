------------------------------ MODULE FatCache ------------------------------
(***************************************************************************)
(* The life of a Fat structure: fat_mount, fat_umount, fat_sync, the       *)
(* buffer accesses of the functions above it, clust_clear, failing I/O and *)
(* power loss.  The callers are reduced to what they do to the buffer:     *)
(* load a sector (get_fat, dir_search, fat_dir_read, ...), load one and    *)
(* change it (put_fat2, remove_entries, dir_add, fat_file_sync, ...), move *)
(* the allocation hints (stretch_chain, remove_chain).  FatVolume has the  *)
(* callers themselves.                                                     *)
(***************************************************************************)
EXTENDS FatBuffer

CONSTANTS
  LastSect,      \* the device has the sectors 0 .. LastSect
  DataSect,      \* fat->data_sect
  SectPerClust,  \* 1 << fat->clust_shift
  Clusters,      \* the clusters clust_clear is called with
  Blocks,        \* what a sector other than FSInfo can hold
  Zero,          \* the sector memset(fat->buf, 0, 512) makes
  Infos,         \* what FSInfo can hold
  Taken,         \* the hints fat_mount takes from each: 2 for an unknown
                 \* next_free, and an unknown count for a bad signature
  RemountDirty   \* may a caller mount a Fat again whose fat_umount failed?
                 \* (init_fs mounts once; if TRUE, the buffer overwrites sector 0)

AllSectors == 0 .. LastSect
Sectors == 1 .. LastSect
Contents == Blocks \cup Infos

clust_to_sect(c) == (c - 2) * SectPerClust + DataSect

ASSUME GeometryAssumption ==
  /\ LastSect \in Nat /\ DataSect \in Nat /\ SectPerClust \in Nat \ {0}
  /\ InfoSect \in 1 .. LastSect
  /\ InfoSect < DataSect
  /\ Clusters \subseteq Nat
  /\ \A c \in Clusters : /\ c >= 2
                         /\ clust_to_sect(c) \in DataSect .. LastSect
                         /\ clust_to_sect(c) + SectPerClust - 1 <= LastSect

ASSUME ContentsAssumption ==
  Zero \in Blocks /\ Taken \in [Infos -> Infos] /\ RemountDirty \in BOOLEAN

VARIABLES
  mounted,   \* is the structure in g_fat_list?
  pc,        \* where the running function is: "idle", or inside a loop
  left,      \* clust_clear: sectors of the cluster not reached yet
  ret        \* the last call and what it returned

bufVars == <<disk, buf, sect, bufDirty, infoDirty, info>>
vars == <<bufVars, mounted, pc, left, ret>>

Returns(op, err) == ret' = [op |-> op, err |-> err]

Calls == {"none", "access", "clear", "sync", "umount", "mount"}
Errors == {"NONE", "IO", "PARAM"}

TypeOK ==
  /\ disk \in [AllSectors -> Contents]
  /\ buf \in Contents
  /\ sect \in AllSectors
  /\ bufDirty \in BOOLEAN /\ infoDirty \in BOOLEAN /\ mounted \in BOOLEAN
  /\ info \in Infos
  /\ pc \in {"idle", "sync_fs", "umount_fs", "clear"}
  /\ left \in 0 .. SectPerClust - 1
  /\ ret \in [op : Calls, err : Errors]

(* main.c keeps its Fat in zeroed static storage; the volume is any one    *)
(* whose FSInfo sector holds an FSInfo.                                    *)
Init ==
  /\ disk \in [AllSectors -> Contents]
  /\ disk[InfoSect] \in Infos
  /\ \A s \in AllSectors \ {InfoSect} : disk[s] \in Blocks
  /\ buf = Zero
  /\ sect = BootSect
  /\ bufDirty = FALSE /\ infoDirty = FALSE /\ mounted = FALSE
  /\ info \in Infos
  /\ pc = "idle" /\ left = 0
  /\ ret = [op |-> "none", err |-> "NONE"]

-----------------------------------------------------------------------------
(* fat_mount.  The boot sector and FSInfo are read into g_buf, not into    *)
(* the volume's buffer; a failed read, or a volume probe refuses, returns  *)
(* before anything is kept, a name that is too long once the hints are.    *)
(* The flags are not assigned: they keep whatever an earlier mount of the  *)
(* same structure left in them.                                            *)
Mount ==
  /\ pc = "idle" /\ ~mounted
  /\ RemountDirty \/ (~bufDirty /\ ~infoDirty)
  /\ \/ /\ Returns("mount", "IO")
        /\ UNCHANGED <<info, sect, mounted>>
     \/ /\ info' = Taken[disk[InfoSect]]
        /\ Returns("mount", "PARAM")
        /\ UNCHANGED <<sect, mounted>>
     \/ /\ info' = Taken[disk[InfoSect]]
        /\ sect' = BootSect
        /\ mounted' = TRUE
        /\ Returns("mount", "NONE")
  /\ UNCHANGED <<disk, buf, bufDirty, infoDirty, pc, left>>

(* sync_fs, entered from fat_sync and from fat_umount. *)
SyncFs(op, inside) ==
  /\ \/ SyncFsFails /\ Returns(op, "IO") /\ UNCHANGED pc
     \/ SyncFsDone /\ Returns(op, "NONE") /\ UNCHANGED pc
     \/ SyncFsLoadInfo /\ pc' = inside /\ UNCHANGED ret
  /\ UNCHANGED <<info, infoDirty, left>>

FatSync == pc = "idle" /\ SyncFs("sync", "sync_fs") /\ UNCHANGED mounted

(* fat_umount takes the structure off the list before it synchronises. *)
FatUmount ==
  /\ pc = "idle"
  /\ \/ mounted /\ mounted' = FALSE /\ SyncFs("umount", "umount_fs")
     \/ ~mounted /\ Returns("umount", "PARAM") /\ UNCHANGED <<bufVars, mounted, pc, left>>

(* The write of FSInfo that ends sync_fs. *)
WriteInfo ==
  /\ pc \in {"sync_fs", "umount_fs"}
  /\ LET op == IF pc = "sync_fs" THEN "sync" ELSE "umount"
     IN  \/ SyncInfoFails /\ Returns(op, "IO")
         \/ SyncInfoOk /\ Returns(op, "NONE")
  /\ pc' = "idle"
  /\ UNCHANGED <<info, mounted, left>>

-----------------------------------------------------------------------------
(* The buffer accesses of the callers. *)
Access(s) ==
  /\ pc = "idle" /\ mounted
  /\ \/ UpdateBufFails(s) /\ Returns("access", "IO")
     \/ UpdateBufOk(s) /\ Returns("access", "NONE")
  /\ UNCHANGED <<infoDirty, info, mounted, pc, left>>

Change(s, v) ==
  /\ pc = "idle" /\ mounted
  /\ UpdateBufWrite(s, v)
  /\ Returns("access", "NONE")
  /\ UNCHANGED <<infoDirty, info, mounted, pc, left>>

(* FAT_INFO_DIRTY is raised before last_used or free_cnt is assigned. *)
ChangeInfo(i) ==
  /\ pc = "idle" /\ mounted
  /\ infoDirty' = TRUE
  /\ info' = i
  /\ Returns("access", "NONE")
  /\ UNCHANGED <<disk, buf, sect, bufDirty, mounted, pc, left>>

(* clust_clear: the buffer is written back, zeroed, and written once for   *)
(* every sector of the cluster.  One step per sector.                      *)
ClearFirst(c) ==
  /\ pc = "idle" /\ mounted
  /\ \/ /\ SyncBufFails
        /\ Returns("clear", "IO")
        /\ UNCHANGED <<buf, sect, pc, left>>
     \/ /\ disk' = Flushed
        /\ buf' = Zero
        /\ sect' = clust_to_sect(c)
        /\ bufDirty' = TRUE
        /\ left' = SectPerClust - 1
        /\ pc' = "clear"
        /\ UNCHANGED ret
  /\ UNCHANGED <<infoDirty, info, mounted>>

ClearNext ==
  /\ pc = "clear"
  /\ \/ /\ SyncBufFails
        /\ Returns("clear", "IO")
        /\ pc' = "idle" /\ left' = 0
        /\ UNCHANGED sect
     \/ /\ left > 0
        /\ disk' = Flushed
        /\ sect' = sect + 1
        /\ bufDirty' = TRUE
        /\ left' = left - 1
        /\ UNCHANGED <<pc, ret>>
     \/ /\ left = 0
        /\ SyncBufOk
        /\ Returns("clear", "NONE")
        /\ pc' = "idle"
        /\ UNCHANGED <<sect, left>>
  /\ UNCHANGED <<buf, infoDirty, info, mounted>>

(* Power is lost at any point: memory is zeroed at the next boot, the      *)
(* device keeps what it holds.                                             *)
Crash ==
  /\ buf' = Zero /\ sect' = BootSect
  /\ bufDirty' = FALSE /\ infoDirty' = FALSE /\ mounted' = FALSE
  /\ pc' = "idle" /\ left' = 0
  /\ info' \in Infos
  /\ Returns("none", "NONE")
  /\ UNCHANGED disk

Next ==
  \/ Mount
  \/ FatSync
  \/ FatUmount
  \/ WriteInfo
  \/ \E s \in Sectors : Access(s)
  \/ \E s \in Sectors \ {InfoSect}, v \in Blocks : Change(s, v)
  \/ \E i \in Infos : ChangeInfo(i)
  \/ \E c \in Clusters : ClearFirst(c)
  \/ ClearNext
  \/ Crash

Spec == Init /\ [][Next]_vars

-----------------------------------------------------------------------------
(* The volume as its callers see it: the disk with the unwritten buffer    *)
(* laid over it.                                                           *)
View == Flushed

Store == INSTANCE SectorStore
           WITH Sectors <- AllSectors, Writable <- Sectors,
                open <- mounted, contents <- View, durable <- disk

(* The buffer implements the sector store: whatever fails and whenever     *)
(* power is lost, the disk holds the volume as it was after some prefix of *)
(* the callers' changes, only power loss loses a change, and sector 0 is   *)
(* never written (sync_buf, update_buf, sync_fs, clust_clear).             *)
RefinesStore == Store!Spec

(* A change is never dropped: while the volume is mounted, FAT_BUF_DIRTY   *)
(* goes down only in the step that has put the buffer on the disk, whether *)
(* or not the read that follows it succeeds (update_buf, sync_buf).        *)
NothingDropped == [][mounted' /\ bufDirty /\ ~bufDirty' => disk' = View]_vars

(* A buffer that is not marked dirty is a true copy of its sector, so the  *)
(* next update_buf of the same sector may skip the read (fat32.c:250).     *)
Coherent == ~bufDirty /\ sect # BootSect => buf = disk[sect]

(* fat_sync and fat_umount return FAT_ERR_NONE only when nothing of the    *)
(* volume is left in memory.                                               *)
SyncMeansDurable ==
  pc = "idle" /\ ret.op \in {"sync", "umount"} /\ ret.err = "NONE" =>
    ~bufDirty /\ ~infoDirty

(* While FAT_INFO_DIRTY is down, the hints in memory are those on disk, or *)
(* those fat_mount takes from them, so sync_fs may leave FSInfo alone      *)
(* (fat32.c:272).                                                          *)
InfoSaved == mounted /\ ~infoDirty => info \in {disk[InfoSect], Taken[disk[InfoSect]]}

(* What holds inside and between the calls, and makes the properties above *)
(* inductive: an unwritten buffer belongs to a sector of the volume; an    *)
(* unwritten FSInfo is still announced by FAT_INFO_DIRTY; and inside       *)
(* sync_fs and clust_clear the buffer is what those loops made of it, at a *)
(* sector they may write.                                                  *)
BufferInv ==
  /\ bufDirty => sect # BootSect
  /\ bufDirty /\ sect = InfoSect => infoDirty /\ buf \in Infos
  /\ disk[InfoSect] \in Infos
  /\ pc \in {"sync_fs", "umount_fs"} =>
       bufDirty /\ infoDirty /\ sect = InfoSect /\ buf = info
  /\ pc = "clear" =>
       bufDirty /\ buf = Zero /\ sect >= DataSect /\ sect + left <= LastSect
=============================================================================
