------------------------------- MODULE FatDir -------------------------------
(***************************************************************************)
(* The records of a FAT directory and the calls that search, list and      *)
(* change it, over the one-sector buffer of FatBuffer: one step for every  *)
(* access to the buffer, any of which may fail, with power loss between    *)
(* any two.                                                                *)
(*                                                                         *)
(* The directory is the root directory; its clusters are numbered in the   *)
(* order of its chain, and its slots from 0 on through all of them.  An    *)
(* entry is its LFN records, the one that carries the head mark first, and *)
(* its SFN record.  A name stands for its characters, its short form and   *)
(* the checksum of that, all different for different names.  An entry's    *)
(* attributes and what a directory below this one holds are not modelled:  *)
(* fat_unlink may do whatever they lead to.  create_chain, stretch_chain   *)
(* and remove_chain, which end in sync_fs and whose steps are FatVolume's, *)
(* are one step each.                                                      *)
(***************************************************************************)
EXTENDS FatBuffer, Integers, Sequences, FiniteSets, FiniteSetsExt

CONSTANTS
  SLOTS,     \* records in a sector, 16 in the code
  SPC,       \* sectors in a cluster
  MaxClust,  \* clusters the directory may grow to before the volume is full
  Names,     \* the names that are used
  LfnCnt,    \* (len + 12) / 13 for each of Names
  NameLen,   \* the length of each of Names
  Initial,   \* directories to begin with: the slots of the first cluster
  Uses,      \* the calls that are made, each a pair of its kind and a name
  Junk,      \* a name that is found only in clusters nobody has cleared
  MaxHarm    \* bound on failing disk accesses and power losses together

FatSect == 2                  \* the sector of the FAT with the chain in it
SubSect == 3                  \* the first sector of a new directory
DataSect == 4                 \* fat->data_sect
PER == SLOTS * SPC            \* slots in a cluster

(* dir_next finds the end of a cluster by the sector's number, which is    *)
(* right only if fat->data_sect is a multiple of the cluster's size.       *)
ASSUME DirAssumption ==
  /\ InfoSect = 1
  /\ SLOTS \in Nat \ {0} /\ SPC \in Nat \ {0} /\ MaxClust \in Nat \ {0}
  /\ DataSect % SPC = 0
  /\ LfnCnt \in [Names -> Nat \ {0}] /\ NameLen \in [Names -> Nat]
  /\ Junk \notin Names
  /\ Uses \subseteq {"open", "create", "mkdir", "stat", "unlink"} \X Names
  /\ MaxHarm \in Nat

VARIABLES
  pc,     \* what the running call does next
  frame,  \* the running call and its locals
  ret,    \* the last call and what it returned
  harm    \* failing accesses and power losses so far

bufVars == <<sect, disk, buf, bufDirty, infoDirty, info>>
vars == <<harm, bufVars, pc, frame, ret>>

(* The locals: the Dir, as a slot; dir_search's loc; parse_lfn_name's cnt  *)
(* and g_crc; dir_add's cnt, eod and the first slot of its run; and where  *)
(* to go on after dir_next.                                                *)
Frame(op, n) ==
  [op |-> op, name |-> n, pos |-> 0, loc |-> 0, left |-> 0, crc |-> Junk,
   cnt |-> 0, eod |-> FALSE, first |-> 0, cont |-> "none", seen |-> <<>>]
NoFrame == Frame("none", Junk)

Goto(l, f) == pc' = l /\ frame' = f /\ UNCHANGED ret
Return(err) ==
  /\ pc' = "idle" /\ frame' = NoFrame
  /\ ret' = [op |-> frame.op, name |-> frame.name, err |-> err]

-----------------------------------------------------------------------------
(* A record is its kind, the name it belongs to and, of an LFN record, its *)
(* seq and head mark.                                                      *)
Slot(k, n, seq, head) == [k |-> k, name |-> n, seq |-> seq, head |-> head]
EndSlot == Slot("end", Junk, 0, FALSE)      \* SFN_LAST
FreeSlot == Slot("free", Junk, 0, FALSE)    \* SFN_FREE
LfnSlot(n, i) == Slot("lfn", n, i, i = LfnCnt[n])
SfnSlot(n) == Slot("sfn", n, 0, FALSE)
JunkSlot == Slot("sfn", Junk, 0, FALSE)

sfn_is_last(s) == s.k = "end"
sfn_is_free(s) == s.k \in {"end", "free"}
sfn_is_lfn(s) == s.k = "lfn"

ZeroSector == [i \in 0 .. SLOTS - 1 |-> EndSlot]
SectorOf(pos) == DataSect + pos \div SLOTS
Size == DataSect + MaxClust * SPC

Init ==
  /\ \E d \in Initial :
       disk = [s \in 0 .. Size - 1 |->
         CASE s = BootSect -> "boot"
           [] s = InfoSect -> "info"
           [] s = FatSect -> 1
           [] s = SubSect -> "junk"
           [] s \in DataSect .. DataSect + SPC - 1 ->
                [i \in 0 .. SLOTS - 1 |-> d[(s - DataSect) * SLOTS + i + 1]]
           [] OTHER -> [i \in 0 .. SLOTS - 1 |-> JunkSlot]]
  /\ buf = ZeroSector /\ sect = BootSect
  /\ bufDirty = FALSE /\ infoDirty = FALSE /\ info = "info"
  /\ pc = "idle" /\ frame = NoFrame
  /\ ret = [op |-> "none", name |-> Junk, err |-> "NONE"]
  /\ harm = 0

-----------------------------------------------------------------------------
(* The accesses, each followed by what the call does with the sector.      *)
Harmed == harm < MaxHarm /\ harm' = harm + 1

Fails(s) ==
  /\ UpdateBufFails(s) /\ Harmed /\ Return("IO")
  /\ UNCHANGED <<infoDirty, info>>
Ok(s) == UpdateBufOk(s) /\ UNCHANGED <<harm, infoDirty, info>>
Writes(s, v) == UpdateBufWrite(s, v) /\ UNCHANGED <<harm, infoDirty, info>>

(* dir_ptr, once the sector of pos is loaded. *)
dir_ptr(pos) == Loaded(SectorOf(pos))[pos % SLOTS]
PutSlot(pos, s) == Writes(SectorOf(pos), [Loaded(SectorOf(pos)) EXCEPT ![pos % SLOTS] = s])

(* dir_next: in the same cluster it reaches no disk; otherwise get_fat     *)
(* follows.                                                                *)
dir_next(f, l) ==
  IF (f.pos + 1) % PER # 0
  THEN Goto(l, [f EXCEPT !.pos = @ + 1])
  ELSE Goto("next", [f EXCEPT !.cont = l])

(* Where the callers of dir_next go at the end of the chain: dir_search    *)
(* and fat_dir_read end there, dir_next_stretch goes on, the others return *)
(* FAT_ERR_EOF.                                                            *)
ChainEnd(l) ==
  IF l \in {"search", "parse"} THEN "absent"
  ELSE IF l \in {"add", "eod"} THEN "stretch" ELSE "idle"

NextCluster ==
  /\ pc = "next"
  /\ LET f == [frame EXCEPT !.cont = "none"] IN
     \/ Fails(FatSect)
     \/ /\ Ok(FatSect)
        /\ frame.pos + 1 < Loaded(FatSect) * PER
        /\ Goto(frame.cont, [f EXCEPT !.pos = @ + 1])
     \/ /\ Ok(FatSect)
        /\ frame.pos + 1 >= Loaded(FatSect) * PER
        /\ pc' = ChainEnd(frame.cont)
        /\ frame' = IF pc' = "idle" THEN NoFrame ELSE [frame EXCEPT !.cont = IF pc' = "stretch" THEN @ ELSE "none"]
        /\ ret' = IF pc' = "idle" THEN [op |-> frame.op, name |-> frame.name, err |-> "EOF"] ELSE ret

-----------------------------------------------------------------------------
(* dir_search and fat_dir_read.                                            *)

(* A call begins at the directory's first slot. *)
Call(op, n) ==
  /\ pc = "idle"
  /\ Goto("search", Frame(op, n))
  /\ UNCHANGED <<bufVars, harm>>

(* memcmp of libc is true for equal bytes, so that !memcmp picks the names *)
(* that differ: an LFN entry whose name has the length that is looked for, *)
(* an SFN entry whatever its length.                                       *)
Differs(n, s) == s.name # n
Matches(n, s, lfn) ==
  Differs(n, s) /\ (lfn => s.name \in Names /\ NameLen[n] = NameLen[s.name])

(* An entry is complete: a match, or one more for the caller that goes     *)
(* through the directory with fat_dir_read and fat_dir_next, or the one    *)
(* fat_stat reads.                                                         *)
Completed(f, s, lfn) ==
  IF f.op = "stat_read" THEN Return("NONE")
  ELSE IF f.op = "list" THEN dir_next([f EXCEPT !.seen = Append(@, s.name)], "search")
  ELSE IF Matches(f.name, s, lfn) THEN Goto("found", f)
  ELSE dir_next(f, "search")

(* Mutant: loc keeps the first entry of the directory.                     *)
LocatedOnce(f) == IF f.loc = 0 THEN [f EXCEPT !.loc = f.pos] ELSE f

(* loc is the first record of the entry that is looked at. *)
Located(f) == [f EXCEPT !.loc = f.pos]

Search ==
  /\ pc = "search"
  /\ \/ Fails(SectorOf(frame.pos))
     \/ /\ Ok(SectorOf(frame.pos))
        /\ LET s == dir_ptr(frame.pos)
               f == Located(frame)
           IN
           \/ sfn_is_last(s) /\ Goto("absent", frame)
           \/ s.k = "free" /\ dir_next(frame, "search")
           \/ s.k = "sfn" /\ Completed(f, s, FALSE)
           \/ sfn_is_lfn(s) /\ ~s.head /\ Return("BROKEN")
           \/ /\ sfn_is_lfn(s) /\ s.head
              /\ dir_next([f EXCEPT !.left = s.seq - 1, !.crc = s.name], "parse")

(* parse_lfn_name behind the first record: more LFN records, then the SFN  *)
(* record, all with one checksum. *)
ParseLfn ==
  /\ pc = "parse"
  /\ \/ Fails(SectorOf(frame.pos))
     \/ /\ Ok(SectorOf(frame.pos))
        /\ LET s == dir_ptr(frame.pos)
               good == IF frame.left > 0 THEN sfn_is_lfn(s) ELSE s.k = "sfn"
           IN
           \/ ~(good /\ s.name = frame.crc) /\ Return("BROKEN")
           \/ /\ good /\ s.name = frame.crc /\ frame.left > 0
              /\ dir_next([frame EXCEPT !.left = @ - 1], "parse")
           \/ /\ good /\ s.name = frame.crc /\ frame.left = 0
              /\ Completed([frame EXCEPT !.crc = Junk], s, TRUE)

(* The search has found an entry: fat_file_open and fat_dir_create (which  *)
(* finds that there is nothing to do) return, fat_stat reads the entry     *)
(* from loc on, fat_unlink frees its chain unless the attributes forbid it *)
(* or it is a directory with records in it.                                *)
Found ==
  /\ pc = "found"
  /\ \/ frame.op \in {"open", "create", "mkdir"} /\ Return("NONE")
     \/ /\ frame.op = "stat"
        /\ Goto("search", [frame EXCEPT !.op = "stat_read", !.pos = frame.loc])
     \/ /\ frame.op = "unlink"       \* dir_at_root, or the attributes
        /\ Return("DENIED")
     \/ /\ frame.op = "unlink" /\ frame.pos # 0
        /\ Goto("empty", frame) \/ Goto("unchain", frame)
  /\ UNCHANGED <<bufVars, harm>>

(* The loop that looks for records behind . and .. in the directory that   *)
(* fat_unlink has found, as one access: it is empty, or not, or ends       *)
(* without an end mark.                                                    *)
CheckEmpty ==
  /\ pc = "empty"
  /\ \/ Fails(SubSect)
     \/ Ok(SubSect) /\ (Return("DENIED") \/ Return("EOF") \/ Goto("unchain", frame))

(* The search has met the end. *)
Absent ==
  /\ pc = "absent"
  /\ \/ frame.op = "open" /\ Return("DENIED")
     \/ frame.op = "list" /\ Return("NONE")
     \/ frame.op \in {"stat", "unlink"} /\ Return("EOF")
     \/ frame.op \in {"create", "mkdir"} /\ Goto("chain", Frame(frame.op, frame.name))
  /\ UNCHANGED <<bufVars, harm>>

-----------------------------------------------------------------------------
(* The steps that end in sync_fs.                                          *)
Synced(d) ==
  /\ sect' = InfoSect /\ buf' = d[InfoSect] /\ disk' = d /\ bufDirty' = FALSE
  /\ UNCHANGED <<infoDirty, info, harm>>

(* create_chain for the new file or directory. *)
CreateChain ==
  /\ pc = "chain"
  /\ \/ Fails(FatSect)
     \/ Ok(FatSect) /\ Return("FULL")
     \/ Synced(Flushed) /\ Goto(IF frame.op = "mkdir" THEN "dots" ELSE "add", frame)

(* fat_dir_create clears its new cluster and writes . and .. into it. *)
MakeDots ==
  /\ pc = "dots"
  /\ \/ Fails(SubSect)
     \/ Writes(SubSect, "dots") /\ Goto("add", frame)

(* stretch_chain: the directory has one more cluster on disk, with what it *)
(* held before; clust_clear follows.  When its sync_fs fails, the cluster  *)
(* is linked in the buffer all the same.                                   *)
Stretch ==
  /\ pc = "stretch"
  /\ \/ /\ Loaded(FatSect) < MaxClust
        /\ UpdateBufWrite(FatSect, Loaded(FatSect) + 1) /\ Harmed
        /\ Return("IO")
        /\ UNCHANGED <<infoDirty, info>>
     \/ /\ Ok(FatSect)
        /\ Loaded(FatSect) = MaxClust
        /\ Return("FULL")
     \/ /\ Flushed[FatSect] < MaxClust
        /\ Synced([Flushed EXCEPT ![FatSect] = @ + 1])
        /\ Goto("clear", [frame EXCEPT !.pos = @ + 1, !.left = 0])

(* clust_clear, a sector at a time; left counts the sectors. *)
ClustClear ==
  /\ pc = "clear"
  /\ LET s == SectorOf(frame.pos) + frame.left IN
     /\ sect' = s /\ buf' = ZeroSector
     /\ \/ Harmed /\ bufDirty' = TRUE /\ UNCHANGED disk /\ Return("IO")
        \/ /\ disk' = [disk EXCEPT ![s] = ZeroSector] /\ bufDirty' = FALSE
           /\ \/ frame.left + 1 < SPC /\ Goto("clear", [frame EXCEPT !.left = @ + 1])
              \/ /\ frame.left + 1 = SPC
                 /\ Goto(frame.cont, [frame EXCEPT !.left = 0, !.cont = "none"])
           /\ UNCHANGED harm
  /\ UNCHANGED <<infoDirty, info>>

-----------------------------------------------------------------------------
(* dir_add.                                                                *)

(* The records the entry needs. *)
Needs(f) == LfnCnt[f.name] + 1

(* Mutant: the count goes on behind a record in use.                       *)
CountedNoReset(f, s) ==
  IF f.eod \/ sfn_is_free(s)
  THEN [f EXCEPT !.cnt = @ + 1, !.first = IF f.cnt = 0 THEN f.pos ELSE @]
  ELSE f

(* The run of free slots once slot s, at the Dir, is counted. *)
Counted(f, s) ==
  IF f.eod \/ sfn_is_free(s)
  THEN [f EXCEPT !.cnt = @ + 1, !.first = IF f.cnt = 0 THEN f.pos ELSE @]
  ELSE [f EXCEPT !.cnt = 0]

(* One turn of the search for a run of free slots. *)
AddScan ==
  /\ pc = "add"
  /\ \/ Fails(SectorOf(frame.pos))
     \/ /\ Ok(SectorOf(frame.pos))
        /\ LET s == dir_ptr(frame.pos)
               f == [Counted(frame, s) EXCEPT !.eod = @ \/ sfn_is_last(s)]
           IN  dir_next(f, IF f.cnt < Needs(f) THEN "add" ELSE "eod")

(* Back to the first slot of the run; left counts the LFN records. *)
Rewound == [Frame(frame.op, frame.name) EXCEPT !.pos = frame.first, !.left = LfnCnt[frame.name]]

(* Mutant: no new end is written.                                          *)
MarkEndNot ==
  /\ pc = "eod"
  /\ Goto("lfn", Rewound)
  /\ UNCHANGED <<bufVars, harm>>

(* If the run reached the end of the directory, the slot behind it becomes *)
(* the new end. *)
MarkEnd ==
  /\ pc = "eod"
  /\ \/ frame.eod /\ Fails(SectorOf(frame.pos))
     \/ frame.eod /\ PutSlot(frame.pos, EndSlot) /\ Goto("lfn", Rewound)
     \/ ~frame.eod /\ Goto("lfn", Rewound) /\ UNCHANGED <<bufVars, harm>>

PutLfn ==
  /\ pc = "lfn"
  /\ \/ Fails(SectorOf(frame.pos))
     \/ /\ PutSlot(frame.pos, LfnSlot(frame.name, frame.left))
        /\ dir_next([frame EXCEPT !.left = @ - 1], IF frame.left > 1 THEN "lfn" ELSE "sfn")

(* The SFN record stays in the buffer; fat_dir_create calls sync_fs. *)
PutSfn ==
  /\ pc = "sfn"
  /\ \/ Fails(SectorOf(frame.pos))
     \/ /\ PutSlot(frame.pos, SfnSlot(frame.name))
        /\ \/ frame.op = "create" /\ Return("NONE")
           \/ frame.op = "mkdir" /\ Goto("sync", frame)

-----------------------------------------------------------------------------
(* fat_unlink: remove_chain, then the records from loc to the Dir.  first  *)
(* keeps the last slot to free.                                            *)
RemoveChain ==
  /\ pc = "unchain"
  /\ \/ Fails(FatSect)
     \/ Synced(Flushed) /\ Goto("remove", [frame EXCEPT !.first = frame.pos, !.pos = frame.loc])

(* Mutant: only the first record of the entry is freed.                    *)
RemoveOne ==
  /\ pc = "remove"
  /\ PutSlot(frame.pos, FreeSlot)
  /\ Goto("sync", frame)

RemoveEntries ==
  /\ pc = "remove"
  /\ \/ Fails(SectorOf(frame.pos))
     \/ /\ PutSlot(frame.pos, FreeSlot)
        /\ \/ frame.pos = frame.first /\ Goto("sync", frame)
           \/ frame.pos # frame.first /\ dir_next(frame, "remove")

(* The sync_fs of fat_unlink and fat_dir_create; FSInfo was written by the *)
(* step that changed it. *)
SyncFs ==
  /\ pc = "sync"
  /\ \/ SyncBufFails /\ UNCHANGED <<sect, buf>> /\ Harmed /\ Return("IO")
     \/ SyncFsDone /\ Return("NONE") /\ UNCHANGED harm
  /\ UNCHANGED <<infoDirty, info>>

(* Power loss, the boot that follows it and fat_mount. *)
Crash ==
  /\ Harmed
  /\ sect' = BootSect /\ buf' = ZeroSector /\ bufDirty' = FALSE
  /\ pc' = "idle" /\ frame' = NoFrame
  /\ ret' = [op |-> "none", name |-> Junk, err |-> "NONE"]
  /\ UNCHANGED <<disk, infoDirty, info>>

Step ==
  \/ Search \/ ParseLfn \/ NextCluster \/ Found \/ CheckEmpty \/ Absent
  \/ CreateChain \/ MakeDots \/ AddScan \/ Stretch \/ ClustClear
  \/ MarkEnd \/ PutLfn \/ PutSfn
  \/ RemoveChain \/ RemoveEntries \/ SyncFs

Next ==
  \/ \E u \in Uses : Call(u[1], u[2])
  \/ Call("list", Junk)
  \/ Step
  \/ Crash

Spec == Init /\ [][Next]_vars

-----------------------------------------------------------------------------
(* The directory of volume d: its slots, where it ends, and its entries as *)
(* a reader must see them, each as its first and last slot and its name.   *)
View == Flushed
Slots(d) == 0 .. d[FatSect] * PER - 1
SlotOf(d, p) == d[SectorOf(p)][p % SLOTS]
HasEnd(d) == \E p \in Slots(d) : SlotOf(d, p).k = "end"
DirEnd(d) ==
  IF HasEnd(d) THEN Min({p \in Slots(d) : SlotOf(d, p).k = "end"}) ELSE d[FatSect] * PER
Groups(d) ==
  LET lfn == {g \in {<<p, p + LfnCnt[n], n>> : p \in 0 .. DirEnd(d) - 1, n \in Names} :
               /\ g[2] < DirEnd(d)
               /\ SlotOf(d, g[1]) = LfnSlot(g[3], LfnCnt[g[3]])
               /\ \A p \in g[1] + 1 .. g[2] - 1 :
                    sfn_is_lfn(SlotOf(d, p)) /\ SlotOf(d, p).name = g[3]
               /\ SlotOf(d, g[2]) = SfnSlot(g[3])}
      sfn == {<<p, p, SlotOf(d, p).name>> : p \in
               {q \in 0 .. DirEnd(d) - 1 :
                  SlotOf(d, q).k = "sfn" /\ \A g \in lfn : q # g[2]}}
  IN  lfn \cup sfn
Orphans(d) ==
  {p \in 0 .. DirEnd(d) - 1 :
     sfn_is_lfn(SlotOf(d, p)) /\ \A g \in Groups(d) : p \notin g[1] .. g[2]}

Picked(n, g) == Matches(n, SfnSlot(g[3]), g[1] # g[2])
Before(d, p) == {g \in Groups(d) : g[2] < p}

(* dir_search and fat_dir_read see the directory as it is, whatever its    *)
(* gaps, sectors and clusters: an entry that is found is the first that    *)
(* matches, with loc at its first record, and nothing is reported absent,  *)
(* or left out of a list, that is there.  (Which entry matches is decided  *)
(* by libc's memcmp, see Matches.)                                         *)
SearchRight ==
  /\ pc = "found" =>
       /\ \E g \in Groups(View) :
            g[1] = frame.loc /\ g[2] = frame.pos /\ Picked(frame.name, g)
       /\ \A g \in Before(View, frame.loc) : ~Picked(frame.name, g)
  /\ pc = "absent" =>
       /\ Orphans(View) = {}
       /\ frame.op # "list" => \A g \in Groups(View) : ~Picked(frame.name, g)
       /\ frame.op = "list" =>
            frame.seen = [i \in 1 .. Cardinality(Groups(View)) |->
              (CHOOSE g \in Groups(View) : Cardinality(Before(View, g[2])) = i - 1)[3]]

(* dir_add and remove_entries leave all other entries alone: a complete    *)
(* entry goes only by the fat_unlink that found it, or with the changes a  *)
(* crash takes along, and never on disk by anything but that fat_unlink.   *)
EntriesKept ==
  [][\A g \in IF View' = View THEN {} ELSE Groups(View) :
       \/ g[3] = Junk
       \/ g \in Groups(View')
       \/ pc = "remove" /\ g[1] >= frame.loc /\ g[2] <= frame.first
       \/ harm' > harm /\ g \notin Groups(disk)]_vars

(* A directory that ends in SFN_LAST does so for ever, on disk, at every   *)
(* step, and a reader meets nothing stale in front of its end: the new end *)
(* is in place before the old one goes, also when stretch_chain has linked *)
(* a cluster that clust_clear never got to.                                *)
Ended(d) ==
  HasEnd(d) /\ \A g \in Groups(d) : g[3] = Junk => \E p \in Orphans(d) : p < g[1]
EndKept == [][disk' = disk \/ (Ended(disk) => Ended(disk'))]_vars

(* Between calls, and as long as nothing has failed, no record is without  *)
(* its entry, which would end every search in FAT_ERR_BROKEN, and what was *)
(* created can be found by a reader.                                       *)
Readable ==
  pc = "idle" /\ harm = 0 =>
    /\ Orphans(View) = {}
    /\ ret.op = "create" /\ ret.err = "NONE" =>
         \E g \in Groups(View) : g[3] = ret.name \/ Picked(ret.name, g)
=============================================================================
