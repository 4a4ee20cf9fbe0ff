------------------------------- MODULE FatFile -------------------------------
(***************************************************************************)
(* The File handles of fat32.c: fat_file_open, read, write, seek, sync and *)
(* close, on files that share one volume.                                  *)
(*                                                                         *)
(* The calls run to completion one after the other, so a call is one       *)
(* action.  Inside it the calls it makes are operators from a state of the *)
(* volume and the handle to the set of states they may end in, with the    *)
(* error they return: every access to the device may fail, which leaves    *)
(* exactly what was done before it.  The one-sector buffer through which   *)
(* the FAT and the directory are written is FatCache's subject: here       *)
(* entry is the directory as the code reads it, and dentry what had        *)
(* certainly reached the disk by the last sync_fs.  A file is a directory  *)
(* entry: which entry dir_search picks for a path is decided by FatDir's   *)
(* Matches, and the call here is about the one that was picked.            *)
(***************************************************************************)
EXTENDS Integers, Sequences, FiniteSets, FiniteSetsExt, Functions

CONSTANTS
  Files,       \* the directory entries that are opened
  Handles,     \* the File structures of the callers
  SECT,        \* bytes in a sector, 512 in the code
  SPC,         \* sectors in a cluster, 1 << clust_shift
  CLUST_CNT,   \* fat->clust_cnt: clusters 2 .. CLUST_CNT - 1 are handed out
  MAX_OFFSET,  \* 0xffffffff
  Bytes,       \* the values of a byte
  Texts,       \* bound: the sequences of bytes that are written
  Counts,      \* bound: the numbers of bytes that are asked for
  Seeks,       \* bound: the offsets and origins given to fat_file_seek
  Uses,        \* bound: which handle opens which file with which flags
  MaxHarm      \* bound on failing accesses and power losses

Clusters == 2 .. CLUST_CNT - 1
CLUST_SIZE == SECT * SPC
FREE == 0
EOC == CLUST_CNT + 8
NOSECT == -1                                   \* 0xffffffff

clust_to_sect(c) == (c - 2) * SPC              \* counted from data_sect
Sectors == 0 .. clust_to_sect(CLUST_CNT) - 1

None == "none"

ASSUME FileAssumption ==
  /\ SECT \in Nat \ {0} /\ SPC \in Nat \ {0} /\ CLUST_CNT \in Nat /\ MaxHarm \in Nat
  /\ MAX_OFFSET \in Nat /\ CLUST_CNT > 2
  /\ \A k \in Seeks : k[1] \in Int /\ k[2] \in {"START", "CURR", "END"}
  /\ Counts \subseteq Nat /\ \A t \in Texts : t \in Seq(Bytes)
  /\ \A u \in Uses : u[2] \in Files
  /\ 0 \in Bytes /\ None \notin Files

VARIABLES
  vol,     \* the FAT, last_used, the data sectors and the directory
  file,    \* the File structures
  harm,    \* the failures and power losses so far
  spoilt,  \* files that met an error or were opened twice, not yet reopened
  got      \* the bytes the last call read, if it was a fat_file_read

vars == <<vol, file, harm, spoilt, got>>

NoBytes == <<-1>>
Absent == [clust |-> 0, size |-> 0]
Closed == [file |-> None]
IsOpen(h) == file[h] # Closed

(* An empty volume, whose FSInfo does not know a last used cluster: 2.     *)
Init ==
  /\ vol = [fat |-> [c \in Clusters |-> FREE], hint |-> 2,
            data |-> [s \in Sectors |-> [i \in 0 .. SECT - 1 |-> 0]],
            entry |-> [f \in Files |-> Absent], dentry |-> [f \in Files |-> Absent]]
  /\ file = [h \in Handles |-> Closed]
  /\ harm = 0 /\ spoilt = {}
  /\ got = NoBytes

-----------------------------------------------------------------------------
(* A call in progress: the volume v, the handle h, the error met so far,   *)
(* and what was read.                                                      *)
Call(h) == [v |-> vol, h |-> h, err |-> "NONE", data |-> <<>>]
Failed(w, e) == {[w EXCEPT !.err = e]}

(* Where the next access to the device may fail. *)
Fault(w) == IF harm < MaxHarm THEN Failed(w, "IO") ELSE {}

(* What follows a step that may have failed. *)
Then(W, Op(_)) == UNION {IF w.err = "NONE" THEN Op(w) ELSE {w} : w \in W}

(* Op repeated n times, or until it fails. *)
Repeat(w, n, Op(_)) ==
  LET after[i \in 0 .. n] == IF i = 0 THEN {w} ELSE Then(after[i - 1], Op)
  IN  after[n]

(* sync_fs, the buffer abstracted to what it has certainly written. *)
sync_fs(w) == {[w EXCEPT !.v.dentry = w.v.entry]} \cup Fault(w)

-----------------------------------------------------------------------------
(* The cluster stretch_chain takes: the one after prev if it is free, else *)
(* the first free one after last_used; none if there is no other.          *)
NextClust(c) == IF c + 1 >= CLUST_CNT THEN 2 ELSE c + 1
Distance(u, c) == (c - u) % (CLUST_CNT - 2)
FreeClust(v) == {c \in Clusters : v.fat[c] = FREE}
Taken(v, prev) ==
  LET scan == FreeClust(v) \ {v.hint}
  IN  IF prev # 0 /\ NextClust(prev) \in FreeClust(v) THEN {NextClust(prev)}
      ELSE {c \in scan : \A d \in scan : Distance(v.hint, c) <= Distance(v.hint, d)}

Marked(v, c) == [v EXCEPT !.fat[c] = EOC]
Linked(v, prev, c) == IF prev = 0 THEN v ELSE [v EXCEPT !.fat[prev] = c]

(* stretch_chain (create_chain when prev is 0), with the new cluster in    *)
(* h.clust: what a failure leaves is the FAT before, a marked cluster that *)
(* nothing links to, or a chain that is longer although an error is        *)
(* returned.                                                               *)
stretch_chain(w, prev) ==
  IF Taken(w.v, prev) = {} THEN Failed(w, "FULL")
  ELSE UNION {
    LET marked == [w EXCEPT !.v = Marked(w.v, c)]
        linked == [w EXCEPT !.v = [Linked(Marked(w.v, c), prev, c) EXCEPT !.hint = c]]
    IN  Fault(w) \cup Fault(marked)
          \cup Then(sync_fs(linked), LAMBDA x : {[x EXCEPT !.h.clust = c]})
    : c \in Taken(w.v, prev)}

(* Mutant: the handle moves to the new cluster before it is linked.        *)
FollowEarly(w) ==
  LET next == w.v.fat[w.h.clust]
  IN  IF next = EOC
      THEN UNION {stretch_chain([w EXCEPT !.h.clust = c], w.h.clust) : c \in Taken(w.v, w.h.clust)}
      ELSE {[w EXCEPT !.h.clust = next]}

(* One turn of fat_file_seek's loop: the handle's cluster becomes the next *)
(* one of the chain, which is stretched at its end.                        *)
Follow(w) ==
  LET next == w.v.fat[w.h.clust]
  IN  Fault(w) \cup
      (CASE next = FREE -> Failed(w, "BROKEN")
         [] next = EOC -> stretch_chain(w, w.h.clust)
         [] OTHER -> {[w EXCEPT !.h.clust = next]})

(* Mutant: the sector is read although the old one was not written back.   *)
ReloadUnsaved(w, ssect) ==
  IF w.h.sect = ssect THEN {w}
  ELSE {[w EXCEPT !.h.buf = w.v.data[w.h.sect], !.h.dirty = FALSE]}

(* The end of fat_file_seek: the buffer follows the sector, after its      *)
(* contents are written back to the sector it had.                         *)
Reload(w, ssect) ==
  LET load(x) == {[x EXCEPT !.h.buf = x.v.data[x.h.sect]]} \cup Fault(x)
      save(x) == {[x EXCEPT !.v.data[ssect] = x.h.buf, !.h.dirty = FALSE]} \cup Fault(x)
  IN  IF w.h.sect = ssect THEN {w}
      ELSE IF w.h.dirty THEN Then(save(w), load)
      ELSE load(w)

fat_file_seek(w, off) ==
  LET dst == off \div CLUST_SIZE
      src == w.h.offset \div CLUST_SIZE
      back == [w EXCEPT !.h.clust = w.h.sclust, !.h.sect = clust_to_sect(w.h.sclust), !.h.offset = 0]
      arrive(x) ==
        Reload([x EXCEPT !.h.sect = clust_to_sect(x.h.clust) + ((off \div SECT) % SPC),
                         !.h.offset = off], w.h.sect)
  IN  IF off < 0 \/ off > MAX_OFFSET THEN Failed(w, "EOF")
      ELSE IF dst < src THEN Then(Repeat(back, dst, Follow), arrive)
      ELSE Then(Repeat(w, dst - src, Follow), arrive)

-----------------------------------------------------------------------------
(* fat_file_open.  A file that does not exist is created with one cluster, *)
(* whose old contents stay; dir_add leaves the entry in the buffer.  That  *)
(* create_chain may return without a cluster is FatVolume's ScanFails.     *)
NewFile(f) ==
  LET add(w) == Fault(w) \cup {[w EXCEPT !.v.entry[f] = [clust |-> w.h.clust, size |-> 0]]}
  IN  Then(stretch_chain(Call([clust |-> 0]), 0), add)

Handle(f, e, mode) ==
  LET cut == e.size # 0 /\ "TRUNC" \in mode
  IN  [file |-> f, sclust |-> e.clust, clust |-> e.clust, sect |-> NOSECT,
       offset |-> 0, size |-> IF cut THEN 0 ELSE e.size,
       mode |-> mode \cap {"READ", "WRITE"}, mod |-> cut, dirty |-> FALSE, buf |-> [i \in 0 .. SECT - 1 |-> 0]]

fat_file_open(f, mode) ==
  LET found(w) == {[w EXCEPT !.h = Handle(f, w.v.entry[f], mode)]}
      seek(w) == fat_file_seek(w, IF "APPEND" \in mode THEN w.h.size ELSE 0)
      start == IF vol.entry[f] # Absent THEN {Call(Closed)} \cup Fault(Call(Closed))
               ELSE IF "CREATE" \in mode THEN NewFile(f)
               ELSE Failed(Call(Closed), "DENIED")
  IN  Then(Then(start, found), seek)

(* One turn of fat_file_read's loop, n bytes in all. *)
ReadTurn(n, w) ==
  LET h == w.h
      idx == h.offset % SECT
      cnt == Min({n - Len(w.data), SECT - idx, h.size - h.offset})
      bytes == [i \in 1 .. cnt |-> h.buf[idx + i - 1]]
  IN  IF Len(w.data) = n \/ h.offset >= h.size THEN {w}
      ELSE fat_file_seek([w EXCEPT !.data = @ \o bytes], h.offset + cnt)

fat_file_read(w, n) ==
  IF "READ" \notin w.h.mode THEN Failed(w, "DENIED")
  ELSE Repeat(w, n, LAMBDA x : ReadTurn(n, x))

(* One turn of fat_file_write's loop; data holds the bytes still to write. *)
Patched(b, idx, s) ==
  [i \in 0 .. SECT - 1 |-> IF i >= idx /\ i < idx + Len(s) THEN s[i - idx + 1] ELSE b[i]]

WriteTurn(w) ==
  LET idx == w.h.offset % SECT
      cnt == Min({Len(w.data), SECT - idx})
  IN  IF w.data = <<>> THEN {w}
      ELSE fat_file_seek([w EXCEPT !.h.buf = Patched(@, idx, SubSeq(w.data, 1, cnt)),
                                   !.h.dirty = TRUE,
                                   !.data = SubSeq(@, cnt + 1, Len(@))], w.h.offset + cnt)

(* Mutant: the size grows by what was to be written.                       *)
SizedByLength(w, end) == [w EXCEPT !.h.size = IF end > @ THEN end ELSE @, !.data = <<>>]

(* The end of fat_file_write: the size follows the offset that was reached.*)
Sized(w, end) == [w EXCEPT !.h.size = IF w.h.offset > @ THEN w.h.offset ELSE @, !.data = <<>>]

fat_file_write(w, s) ==
  IF "WRITE" \notin w.h.mode THEN Failed(w, "DENIED")
  ELSE {Sized(x, w.h.offset + Len(s)) :
          x \in Repeat([w EXCEPT !.h.mod = TRUE, !.data = s], Len(s), WriteTurn)}

(* fat_file_sync: the buffer, dirty or not, then the entry.  The access    *)
(* date that FAT_ACCESSED updates is left out.                             *)
fat_file_sync(w) ==
  LET write(x) == Fault(x) \cup {[x EXCEPT !.v.data[x.h.sect] = x.h.buf]}
      update(x) ==
        IF x.h.mod THEN Fault(x) \cup {[x EXCEPT !.v.entry[x.h.file].size = x.h.size]} ELSE {x}
      clear(x) == {[x EXCEPT !.h.mod = FALSE]}
  IN  Then(Then(Then(write(w), update), sync_fs), clear)

-----------------------------------------------------------------------------
(* What a call leaves behind.  An error other than a refusal spoils the    *)
(* file, whether it is returned or not.                                    *)
Refusal == {"NONE", "DENIED"}
Others(h, f) == {g \in Handles \ {h} : IsOpen(g) /\ file[g].file = f}

Ends(h, w, handle, data) ==
  /\ vol' = w.v
  /\ file' = [file EXCEPT ![h] = handle]
  /\ harm' = IF w.err = "IO" THEN harm + 1 ELSE harm
  /\ got' = data

Spoils(f, bad) == spoilt' = IF bad THEN spoilt \cup {f} ELSE spoilt

Open(h, f, mode) ==
  /\ ~IsOpen(h)
  /\ \E w \in fat_file_open(f, mode) :
       \/ /\ w.err = "NONE"
          /\ Ends(h, w, w.h, NoBytes)
          /\ spoilt' = IF Others(h, f) = {} THEN spoilt \ {f} ELSE spoilt \cup {f}
       \/ /\ w.err # "NONE"
          /\ Ends(h, w, Closed, NoBytes)
          /\ UNCHANGED spoilt

Read(h, n) ==
  /\ IsOpen(h)
  /\ \E w \in fat_file_read(Call(file[h]), n) :
       /\ Ends(h, w, w.h, IF w.err = "NONE" THEN w.data ELSE NoBytes)
       /\ Spoils(file[h].file, w.err \notin Refusal)

(* The error of the seek inside the loop is declared a second time there:  *)
(* the caller gets FAT_ERR_NONE.                                           *)
Write(h, s) ==
  /\ IsOpen(h)
  /\ \E w \in fat_file_write(Call(file[h]), s) :
       /\ Ends(h, w, w.h, NoBytes)
       /\ Spoils(file[h].file, w.err \notin Refusal)

Target(h, off, whence) ==
  off + (CASE whence = "START" -> 0 [] whence = "CURR" -> h.offset [] whence = "END" -> h.size)

(* A position that is out of range is refused before anything is done. *)
Seek(h, off, whence) ==
  /\ IsOpen(h)
  /\ \E w \in fat_file_seek(Call(file[h]), Target(file[h], off, whence)) :
       /\ Ends(h, w, w.h, NoBytes)
       /\ Spoils(file[h].file, w.err \notin Refusal \cup {"EOF"})

Sync(h) ==
  /\ IsOpen(h)
  /\ \E w \in fat_file_sync(Call(file[h])) :
       /\ Ends(h, w, w.h, NoBytes)
       /\ Spoils(file[h].file, w.err # "NONE")

(* fat_file_close is fat_file_sync; the caller then forgets the handle. *)
Close(h) ==
  /\ IsOpen(h)
  /\ \E w \in fat_file_sync(Call(file[h])) :
       /\ Ends(h, w, IF w.err = "NONE" THEN Closed ELSE w.h, NoBytes)
       /\ Spoils(file[h].file, w.err # "NONE")

(* Files with changes that no successful fat_file_sync has covered. *)
Unsaved ==
  {f \in Files : vol.entry[f] # vol.dentry[f]
                   \/ \E h \in Handles : IsOpen(h) /\ file[h].file = f /\ file[h].mod}

(* Power loss and the boot that follows: the entries that were still in    *)
(* the buffer are lost or not.                                             *)
PowerLoss ==
  /\ harm < MaxHarm /\ harm' = harm + 1
  /\ \E e \in {vol.entry, vol.dentry} : vol' = [vol EXCEPT !.entry = e, !.dentry = e]
  /\ file' = [h \in Handles |-> Closed]
  /\ spoilt' = spoilt \cup Unsaved
  /\ got' = NoBytes

Next ==
  \/ \E h \in Handles :
       \/ \E u \in Uses : u[1] = h /\ Open(h, u[2], u[3])
       \/ \E n \in Counts : Read(h, n)
       \/ \E s \in Texts : Write(h, s)
       \/ \E k \in Seeks : Seek(h, k[1], k[2])
       \/ Sync(h) \/ Close(h)
  \/ PowerLoss

Spec == Init /\ [][Next]_vars

-----------------------------------------------------------------------------
(* The chain of a file: its k-th cluster, counted from 0, or 0 beyond it.  *)
Succ(v, c) == IF c = 0 \/ v.fat[c] \notin Clusters THEN 0 ELSE v.fat[c]
ChainOf(v, first) ==
  LET at[i \in 0 .. CLUST_CNT - 3] == IF i = 0 THEN first ELSE Succ(v, at[i - 1])
  IN  at
Chain(v, first) == Range(ChainOf(v, first)) \ {0}

(* The handle through which file f is read, if it is open. *)
HandlesOf(f) == {h \in Handles : IsOpen(h) /\ file[h].file = f}
SizeOf(f) ==
  IF HandlesOf(f) = {} THEN vol.entry[f].size ELSE file[CHOOSE h \in HandlesOf(f) : TRUE].size

(* Sector i of file f: in the buffer of a handle or on the disk. *)
SectorAt(f, chain, i) ==
  LET s == clust_to_sect(chain[i \div SPC]) + (i % SPC)
      holders == {h \in HandlesOf(f) : file[h].sect = s}
  IN  IF holders = {} THEN vol.data[s] ELSE file[CHOOSE h \in holders : TRUE].buf

ContentOf(f) ==
  LET chain == ChainOf(vol, vol.entry[f].clust)
  IN  [i \in 1 .. SizeOf(f) |-> SectorAt(f, chain, (i - 1) \div SECT)[(i - 1) % SECT]]

Content == [f \in Files |-> IF f \in spoilt THEN <<>> ELSE ContentOf(f)]
At ==
  [h \in Handles |-> IF IsOpen(h) THEN [file |-> file[h].file, pos |-> file[h].offset]
                     ELSE [file |-> None, pos |-> 0]]

Abstract == INSTANCE ByteFile WITH content <- Content, at <- At, unsaved <- Unsaved

(* The handles implement files that are sequences of bytes: what is read   *)
(* is what was written, whatever sector boundaries, seeks and growth lie   *)
(* in between; a seek arrives where it was sent; a call on one file never  *)
(* changes another, even when it fails; what fat_file_close has saved      *)
(* survives a power loss.                                                  *)
RefinesFiles == Abstract!Spec

(* No size, in a handle or in the directory, passes the end of the file's  *)
(* chain, also after calls that failed half-way (fat_file_seek leaves the  *)
(* cluster ahead of the offset, never behind it).                          *)
ChainCoversSize ==
  /\ \A f \in Files : vol.entry[f].size <= CLUST_SIZE * Cardinality(Chain(vol, vol.entry[f].clust))
  /\ \A h \in Handles : IsOpen(h) =>
       file[h].size <= CLUST_SIZE * Cardinality(Chain(vol, file[h].sclust))

(* A handle's cluster and the sector its buffer is written back to belong  *)
(* to its own file, and no cluster to two files, whatever failed.          *)
OwnChain ==
  /\ \A h \in Handles : IsOpen(h) =>
       LET own == Chain(vol, file[h].sclust)
       IN  file[h].clust \in own /\ file[h].sect \div SPC + 2 \in own
  /\ \A f, g \in Files :
       f # g => Chain(vol, vol.entry[f].clust) \cap Chain(vol, vol.entry[g].clust) = {}
=============================================================================
