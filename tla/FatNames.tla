------------------------------ MODULE FatNames ------------------------------
(***************************************************************************)
(* How a volume gets its name and is found by it: probe, which looks for   *)
(* the FAT on a disk with or without partitions, the list that fat_mount   *)
(* and fat_umount keep, and find_fat_volume, through which every call that *)
(* takes a path goes.  A name is a model value with a length.              *)
(***************************************************************************)
EXTENDS Naturals, Sequences, SequencesExt

CONSTANTS
  VolNames,   \* the names volumes are mounted under and paths begin with
  Length(_),  \* strlen of a name
  NAME_SIZE,  \* sizeof(fat->name), 32 in the code
  Disks       \* what a disk may hold: the sectors that matter

(* A sector of a disk is the start of a FAT32 volume, a partition table or *)
(* neither.  An entry of a table is the sector a FAT32 partition starts    *)
(* at, or 0.                                                               *)

VARIABLES
  disk,        \* the disk's sectors: constant
  g_fat_list,  \* the names of the mounted volumes, last mounted first
  err,         \* what the last fat_mount or fat_umount returned
  asked,       \* the name looked up last
  found        \* the volume find_fat_volume returned, or "NULL"

vars == <<disk, g_fat_list, err, asked, found>>

Init ==
  /\ disk \in Disks
  /\ g_fat_list = <<>> /\ err = "NONE"
  /\ asked = "none" /\ found = "NULL"

-----------------------------------------------------------------------------
check_fat(s) == disk[s].kind = "fat"

(* The first sector of a partition, if the table has a FAT32 one there. *)
get_part_lba(p) == IF disk[0].kind = "mbr" THEN disk[0].part[p] ELSE 0

(* A disk that is one FAT volume has partition 0 only; any of the reads    *)
(* may fail. *)
probe(p) ==
  {"IO", IF check_fat(0) THEN IF p = 0 THEN "NONE" ELSE "NOFAT"
         ELSE IF get_part_lba(p) # 0 /\ check_fat(get_part_lba(p)) THEN "NONE" ELSE "NOFAT"}

(* libc/string.c: a bool, true when the bytes are equal. *)
memcmp(s1, s2) == s1 = s2

(* The test of find_fat_volume, which takes memcmp for the one of C. *)
Matches(name, vol) == Length(name) = Length(vol) /\ ~memcmp(name, vol)

find_fat_volume(name) ==
  IF \E i \in DOMAIN g_fat_list : Matches(name, g_fat_list[i])
  THEN g_fat_list[CHOOSE i \in DOMAIN g_fat_list :
         /\ Matches(name, g_fat_list[i])
         /\ \A j \in 1 .. i - 1 : ~Matches(name, g_fat_list[j])]
  ELSE "NULL"

(* fat_mount puts the volume at the head of the list, behind the last     *)
(* test.  Callers mount a volume once: a structure mounted twice would     *)
(* close the list to a loop.                                               *)
Mount(vol, p) ==
  /\ ~Contains(g_fat_list, vol)
  /\ \E e \in probe(p) :
       /\ err' = IF e = "NONE" /\ Length(vol) > NAME_SIZE THEN "PARAM" ELSE e
       /\ g_fat_list' = IF err' = "NONE" THEN <<vol>> \o g_fat_list ELSE g_fat_list
  /\ UNCHANGED <<disk, asked, found>>

(* fat_umount takes it out, whatever sync_fs returns then. *)
Umount(vol) ==
  /\ IF Contains(g_fat_list, vol) THEN err' \in {"NONE", "IO"} ELSE err' = "PARAM"
  /\ g_fat_list' = SelectSeq(g_fat_list, LAMBDA v : v # vol)
  /\ UNCHANGED <<disk, asked, found>>

(* follow_path of a path that begins with the name. *)
Lookup(name) ==
  /\ asked' = name
  /\ found' = find_fat_volume(name)
  /\ UNCHANGED <<disk, g_fat_list, err>>

Next ==
  \/ \E n \in VolNames, p \in 0 .. 3 : Mount(n, p)
  \/ \E n \in VolNames : Umount(n)
  \/ \E n \in VolNames : Lookup(n)

Spec == Init /\ [][Next]_vars

-----------------------------------------------------------------------------
(* "mounting using 'mnt', and accessing using '/mnt/path/file.txt'": a     *)
(* volume that is mounted is found under the name it was mounted with.     *)
MountedVolumeFound ==
  [][\A n \in VolNames : Lookup(n) /\ Contains(g_fat_list, n) => found' = n]_vars
=============================================================================
