------------------------------ MODULE FatBuffer ------------------------------
(***************************************************************************)
(* The one-sector write-back buffer of a mounted FAT volume: the fields    *)
(* buf, sect, flags, last_used and free_cnt of struct Fat, the disk behind *)
(* DiskOps, and the primitives sync_buf, update_buf and sync_fs that every *)
(* other function of fat32.c reaches the disk through.                     *)
(*                                                                         *)
(* A primitive is written as the operators that describe its outcomes.     *)
(* DiskOps.read and DiskOps.write may fail at any call.  A failed call     *)
(* changes neither the disk nor the buffer: ata_pio_read and ata_pio_write *)
(* move a single sector and give up only before they move its first word.  *)
(***************************************************************************)
EXTENDS Naturals

CONSTANT InfoSect   \* fat->info_sect, the sector that holds FSInfo

VARIABLES
  disk,       \* what the device holds, by sector number
  buf,        \* fat->buf
  sect,       \* fat->sect
  bufDirty,   \* fat->flags & FAT_BUF_DIRTY
  infoDirty,  \* fat->flags & FAT_INFO_DIRTY
  info        \* fat->last_used and fat->free_cnt, in the form FSInfo holds

(* fat_mount sets sect to 0 to mean "nothing loaded"; sector 0 is the      *)
(* master boot record or the boot sector, which no caller asks for.        *)
BootSect == 0

-----------------------------------------------------------------------------
(* sync_buf                                                                *)

(* The disk once sync_buf has returned FAT_ERR_NONE. *)
Flushed == IF bufDirty THEN [disk EXCEPT ![sect] = buf] ELSE disk

SyncBufFails == bufDirty /\ UNCHANGED <<disk, bufDirty>>

SyncBufOk == disk' = Flushed /\ bufDirty' = FALSE

-----------------------------------------------------------------------------
(* update_buf                                                              *)

(* The buffer once update_buf(s) has returned FAT_ERR_NONE. *)
Loaded(s) == IF s = sect THEN buf ELSE Flushed[s]

(* Mutant: the sector number is assigned before the read that can fail.    *)
UpdateBufFailsMoved(s) ==
  /\ s # sect
  /\ SyncBufOk
  /\ sect' = s
  /\ UNCHANGED buf

(* FAT_ERR_IO: the write-back failed, or it succeeded and the read failed. *)
UpdateBufFails(s) ==
  /\ s # sect
  /\ SyncBufFails \/ SyncBufOk
  /\ UNCHANGED <<sect, buf>>

(* Mutant: the buffer is reused without writing it back first.             *)
UpdateBufOkUnsaved(s) ==
  /\ disk' = disk
  /\ bufDirty' = (s = sect /\ bufDirty)
  /\ buf' = IF s = sect THEN buf ELSE disk[s]
  /\ sect' = s

(* FAT_ERR_NONE: sector s is loaded, and the caller does not touch it.     *)
UpdateBufOk(s) ==
  /\ sect' = s
  /\ disk' = IF s = sect THEN disk ELSE Flushed
  /\ bufDirty' = (s = sect /\ bufDirty)
  /\ buf' = Loaded(s)

(* Mutant: the write-back happens after the sector number has changed.     *)
UpdateBufWriteMoved(s, v) ==
  /\ disk' = IF s = sect \/ ~bufDirty THEN disk ELSE [disk EXCEPT ![s] = buf]
  /\ bufDirty' = TRUE
  /\ buf' = v
  /\ sect' = s

(* FAT_ERR_NONE: sector s is loaded, and the caller replaces its contents  *)
(* by v and sets FAT_BUF_DIRTY.                                            *)
UpdateBufWrite(s, v) ==
  /\ sect' = s
  /\ disk' = IF s = sect THEN disk ELSE Flushed
  /\ bufDirty' = TRUE
  /\ buf' = v

-----------------------------------------------------------------------------
(* sync_fs.  The function is two steps, so that a crash can fall between   *)
(* its two writes: the first ends with FSInfo in the buffer, the second    *)
(* writes it.                                                              *)

(* The first step fails: sync_buf does, or update_buf(info_sect) does.     *)
SyncFsFails ==
  \/ SyncBufFails /\ UNCHANGED <<sect, buf>>
  \/ infoDirty /\ sect # InfoSect /\ SyncBufOk /\ UNCHANGED <<sect, buf>>

(* Mutant: sync_fs ends after the buffer, with FSInfo still to write.      *)
SyncFsDoneEarly == SyncBufOk /\ UNCHANGED <<sect, buf>>

(* There is no FSInfo to write: the buffer is clean and sync_fs is done.   *)
SyncFsDone == ~infoDirty /\ SyncBufOk /\ UNCHANGED <<sect, buf>>

(* FSInfo is loaded, its two fields are set and FAT_BUF_DIRTY is raised.   *)
SyncFsLoadInfo ==
  /\ infoDirty
  /\ sect' = InfoSect
  /\ disk' = Flushed
  /\ bufDirty' = TRUE
  /\ buf' = info

(* The second step: the write of FSInfo, after which FAT_INFO_DIRTY drops. *)
SyncInfoFails == SyncBufFails /\ UNCHANGED <<sect, buf, infoDirty>>
SyncInfoOk == SyncBufOk /\ infoDirty' = FALSE /\ UNCHANGED <<sect, buf>>
=============================================================================
