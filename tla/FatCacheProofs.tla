--------------------------- MODULE FatCacheProofs ---------------------------
(***************************************************************************)
(* The buffer's properties for every volume geometry.  RemountDirty is     *)
(* assumed FALSE: a Fat whose fat_umount failed is not mounted again.      *)
(***************************************************************************)
EXTENDS FatCache, TLAPS

(* The conjunction that every step preserves. *)
IInv == TypeOK /\ BufferInv /\ Coherent /\ InfoSaved /\ SyncMeansDurable

(* The part of the geometry that does not mention clusters. *)
LEMMA Geometry ==
  /\ LastSect \in Nat /\ DataSect \in Nat /\ SectPerClust \in Nat /\ SectPerClust > 0
  /\ InfoSect \in Nat /\ InfoSect > 0 /\ InfoSect <= LastSect /\ InfoSect < DataSect
BY GeometryAssumption DEF GeometryAssumption

(* sync_buf leaves every sector with contents, and FSInfo with an FSInfo.  *)
LEMMA FlushedType ==
  ASSUME TypeOK, BufferInv
  PROVE  /\ Flushed \in [AllSectors -> Contents]
         /\ Flushed[InfoSect] \in Infos
         /\ ~infoDirty => Flushed[InfoSect] = disk[InfoSect]
         /\ Flushed[sect] = IF bufDirty THEN buf ELSE disk[sect]
<1>1. InfoSect \in AllSectors /\ sect \in AllSectors
  BY Geometry DEF TypeOK, AllSectors
<1> QED
  BY <1>1 DEF TypeOK, BufferInv, Flushed

LEMMA InitIInv == Init => IInv
<1> SUFFICES ASSUME Init PROVE IInv
  OBVIOUS
<1>1. TypeOK
  <2>1. sect \in AllSectors /\ left \in 0 .. SectPerClust - 1
    BY Geometry DEF Init, BootSect, AllSectors
  <2>2. buf \in Contents /\ ret \in [op : Calls, err : Errors]
    BY ContentsAssumption DEF ContentsAssumption, Init, Contents, Calls, Errors
  <2>3. bufDirty \in BOOLEAN /\ infoDirty \in BOOLEAN /\ mounted \in BOOLEAN
    BY DEF Init
  <2> QED
    BY <2>1, <2>2, <2>3 DEF Init, TypeOK
<1>2. BufferInv /\ Coherent /\ InfoSaved /\ SyncMeansDurable
  BY DEF Init, BufferInv, Coherent, InfoSaved, SyncMeansDurable
<1> QED
  BY <1>1, <1>2 DEF IInv
(* The sectors clust_clear writes are data sectors of the device. *)
LEMMA ClearTarget ==
  ASSUME NEW c \in Clusters
  PROVE  /\ clust_to_sect(c) \in Nat /\ clust_to_sect(c) >= DataSect
         /\ clust_to_sect(c) + (SectPerClust - 1) <= LastSect
<1> DEFINE t == clust_to_sect(c)
<1>1. t \in DataSect .. LastSect /\ t + SectPerClust - 1 <= LastSect
  BY GeometryAssumption DEF GeometryAssumption
<1> HIDE DEF t
<1> QED
  BY <1>1, Geometry DEF t

(* A call and an error code make a result. *)
LEMMA ReturnsType ==
  ASSUME NEW op \in Calls, NEW e \in Errors, Returns(op, e)
  PROVE  ret' \in [op : Calls, err : Errors]
BY DEF Returns

LEMMA NextIInv ==
  ASSUME ~RemountDirty, IInv, [Next]_vars
  PROVE  IInv'
<1> USE Geometry
<1>t. TypeOK /\ BufferInv /\ Coherent /\ InfoSaved /\ SyncMeansDurable
  BY DEF IInv
<1>f. /\ Flushed \in [AllSectors -> Contents]
      /\ Flushed[InfoSect] \in Infos
      /\ ~infoDirty => Flushed[InfoSect] = disk[InfoSect]
      /\ Flushed[sect] = IF bufDirty THEN buf ELSE disk[sect]
  BY <1>t, FlushedType
<1>1. CASE Mount
  <2>i. info' \in Infos
    BY <1>1, <1>t, ContentsAssumption DEF Mount, TypeOK, BufferInv
  <2>0. ret' \in [op : Calls, err : Errors]
    BY <1>1, <1>t, ReturnsType DEF TypeOK, Calls, Errors, Mount, BootSect
  <2>b. bufDirty' \in BOOLEAN /\ infoDirty' \in BOOLEAN /\ mounted' \in BOOLEAN
    BY <1>1, <1>t DEF TypeOK, Mount, BootSect
  <2>1. TypeOK'
    BY <2>0, <2>b, <2>i, <1>1, <1>t, <1>f DEF TypeOK, BufferInv, AllSectors, Mount, BootSect, Contents
  <2>2. BufferInv'
    BY <1>1, <1>t, <1>f DEF TypeOK, BufferInv, AllSectors, BootSect, Mount
  <2>3. Coherent' /\ InfoSaved' /\ SyncMeansDurable'
    BY <1>1, <1>t, <1>f DEF TypeOK, BufferInv, Coherent, InfoSaved, SyncMeansDurable, AllSectors, BootSect, Returns, Mount
  <2> QED
    BY <2>1, <2>2, <2>3 DEF IInv
<1>2. CASE FatSync
  <2>0. ret' \in [op : Calls, err : Errors]
    BY <1>2, <1>t, ReturnsType DEF TypeOK, Calls, Errors, FatSync, SyncFs, SyncFsFails, SyncFsDone, SyncFsLoadInfo, SyncBufFails, SyncBufOk
  <2>b. bufDirty' \in BOOLEAN /\ infoDirty' \in BOOLEAN /\ mounted' \in BOOLEAN
    BY <1>2, <1>t DEF TypeOK, FatSync, SyncFs, SyncFsFails, SyncFsDone, SyncFsLoadInfo, SyncBufFails, SyncBufOk
  <2>1. TypeOK'
    BY <2>0, <2>b, <1>2, <1>t, <1>f DEF TypeOK, BufferInv, AllSectors, FatSync, SyncFs, SyncFsFails, SyncFsDone, SyncFsLoadInfo, SyncBufFails, SyncBufOk, Contents, BootSect
  <2>2. BufferInv'
    BY <1>2, <1>t, <1>f DEF TypeOK, BufferInv, AllSectors, BootSect, FatSync, SyncFs, SyncFsFails, SyncFsDone, SyncFsLoadInfo, SyncBufFails, SyncBufOk
  <2>3. Coherent' /\ InfoSaved' /\ SyncMeansDurable'
    BY <1>2, <1>t, <1>f DEF TypeOK, BufferInv, Coherent, InfoSaved, SyncMeansDurable, AllSectors, BootSect, Returns, FatSync, SyncFs, SyncFsFails, SyncFsDone, SyncFsLoadInfo, SyncBufFails, SyncBufOk
  <2> QED
    BY <2>1, <2>2, <2>3 DEF IInv
<1>3. CASE FatUmount
  <2>0. ret' \in [op : Calls, err : Errors]
    BY <1>3, <1>t, ReturnsType DEF TypeOK, Calls, Errors, FatUmount, bufVars, SyncFs, SyncFsFails, SyncFsDone, SyncFsLoadInfo, SyncBufFails, SyncBufOk
  <2>b. bufDirty' \in BOOLEAN /\ infoDirty' \in BOOLEAN /\ mounted' \in BOOLEAN
    BY <1>3, <1>t DEF TypeOK, FatUmount, bufVars, SyncFs, SyncFsFails, SyncFsDone, SyncFsLoadInfo, SyncBufFails, SyncBufOk
  <2>1. TypeOK'
    BY <2>0, <2>b, <1>3, <1>t, <1>f DEF TypeOK, BufferInv, AllSectors, FatUmount, bufVars, SyncFs, SyncFsFails, SyncFsDone, SyncFsLoadInfo, SyncBufFails, SyncBufOk, Contents, BootSect
  <2>2. BufferInv'
    BY <1>3, <1>t, <1>f DEF TypeOK, BufferInv, AllSectors, BootSect, FatUmount, bufVars, SyncFs, SyncFsFails, SyncFsDone, SyncFsLoadInfo, SyncBufFails, SyncBufOk
  <2>3. Coherent' /\ InfoSaved' /\ SyncMeansDurable'
    BY <1>3, <1>t, <1>f DEF TypeOK, BufferInv, Coherent, InfoSaved, SyncMeansDurable, AllSectors, BootSect, Returns, FatUmount, bufVars, SyncFs, SyncFsFails, SyncFsDone, SyncFsLoadInfo, SyncBufFails, SyncBufOk
  <2> QED
    BY <2>1, <2>2, <2>3 DEF IInv
<1>4. CASE WriteInfo
  <2>0. ret' \in [op : Calls, err : Errors]
    BY <1>4, <1>t, ReturnsType DEF TypeOK, Calls, Errors, WriteInfo, SyncInfoFails, SyncInfoOk, SyncBufFails, SyncBufOk
  <2>b. bufDirty' \in BOOLEAN /\ infoDirty' \in BOOLEAN /\ mounted' \in BOOLEAN
    BY <1>4, <1>t DEF TypeOK, WriteInfo, SyncInfoFails, SyncInfoOk, SyncBufFails, SyncBufOk
  <2>1. TypeOK'
    BY <2>0, <2>b, <1>4, <1>t, <1>f DEF TypeOK, BufferInv, AllSectors, WriteInfo, SyncInfoFails, SyncInfoOk, SyncBufFails, SyncBufOk, Contents, BootSect
  <2>2. BufferInv'
    BY <1>4, <1>t, <1>f DEF TypeOK, BufferInv, AllSectors, BootSect, WriteInfo, SyncInfoFails, SyncInfoOk, SyncBufFails, SyncBufOk
  <2>3. Coherent' /\ InfoSaved' /\ SyncMeansDurable'
    BY <1>4, <1>t, <1>f DEF TypeOK, BufferInv, Coherent, InfoSaved, SyncMeansDurable, AllSectors, BootSect, Returns, WriteInfo, SyncInfoFails, SyncInfoOk, SyncBufFails, SyncBufOk
  <2> QED
    BY <2>1, <2>2, <2>3 DEF IInv
<1>5. ASSUME NEW s \in Sectors, Access(s) PROVE IInv'
  <2>0. ret' \in [op : Calls, err : Errors]
    BY <1>5, <1>t, ReturnsType DEF TypeOK, Calls, Errors, Access, UpdateBufFails, UpdateBufOk, Loaded, SyncBufFails, SyncBufOk, Sectors
  <2>b. bufDirty' \in BOOLEAN /\ infoDirty' \in BOOLEAN /\ mounted' \in BOOLEAN
    BY <1>5, <1>t DEF TypeOK, Access, UpdateBufFails, UpdateBufOk, Loaded, SyncBufFails, SyncBufOk, Sectors
  <2>1. TypeOK'
    BY <2>0, <2>b, <1>5, <1>t, <1>f DEF TypeOK, BufferInv, AllSectors, Access, UpdateBufFails, UpdateBufOk, Loaded, SyncBufFails, SyncBufOk, Sectors, Contents, BootSect
  <2>2. BufferInv'
    BY <1>5, <1>t, <1>f DEF TypeOK, BufferInv, AllSectors, BootSect, Access, UpdateBufFails, UpdateBufOk, Loaded, SyncBufFails, SyncBufOk, Sectors
  <2>3. Coherent' /\ InfoSaved' /\ SyncMeansDurable'
    BY <1>5, <1>t, <1>f DEF TypeOK, BufferInv, Coherent, InfoSaved, SyncMeansDurable, AllSectors, BootSect, Returns, Access, UpdateBufFails, UpdateBufOk, Loaded, SyncBufFails, SyncBufOk, Sectors
  <2> QED
    BY <2>1, <2>2, <2>3 DEF IInv
<1>6. ASSUME NEW s \in Sectors \ {InfoSect}, NEW v \in Blocks, Change(s, v) PROVE IInv'
  <2>0. ret' \in [op : Calls, err : Errors]
    BY <1>6, <1>t, ReturnsType DEF TypeOK, Calls, Errors, Change, UpdateBufWrite, Sectors, Contents
  <2>b. bufDirty' \in BOOLEAN /\ infoDirty' \in BOOLEAN /\ mounted' \in BOOLEAN
    BY <1>6, <1>t DEF TypeOK, Change, UpdateBufWrite, Sectors, Contents
  <2>1. TypeOK'
    BY <2>0, <2>b, <1>6, <1>t, <1>f DEF TypeOK, BufferInv, AllSectors, Change, UpdateBufWrite, Sectors, Contents, BootSect
  <2>2. BufferInv'
    BY <1>6, <1>t, <1>f DEF TypeOK, BufferInv, AllSectors, BootSect, Change, UpdateBufWrite, Sectors, Contents
  <2>3. Coherent' /\ InfoSaved' /\ SyncMeansDurable'
    BY <1>6, <1>t, <1>f DEF TypeOK, BufferInv, Coherent, InfoSaved, SyncMeansDurable, AllSectors, BootSect, Returns, Change, UpdateBufWrite, Sectors, Contents
  <2> QED
    BY <2>1, <2>2, <2>3 DEF IInv
<1>7. ASSUME NEW i \in Infos, ChangeInfo(i) PROVE IInv'
  <2>0. ret' \in [op : Calls, err : Errors]
    BY <1>7, <1>t, ReturnsType DEF TypeOK, Calls, Errors, ChangeInfo
  <2>b. bufDirty' \in BOOLEAN /\ infoDirty' \in BOOLEAN /\ mounted' \in BOOLEAN
    BY <1>7, <1>t DEF TypeOK, ChangeInfo
  <2>1. TypeOK'
    BY <2>0, <2>b, <1>7, <1>t, <1>f DEF TypeOK, BufferInv, AllSectors, ChangeInfo, Contents, BootSect
  <2>2. BufferInv'
    BY <1>7, <1>t, <1>f DEF TypeOK, BufferInv, AllSectors, BootSect, ChangeInfo
  <2>3. Coherent' /\ InfoSaved' /\ SyncMeansDurable'
    BY <1>7, <1>t, <1>f DEF TypeOK, BufferInv, Coherent, InfoSaved, SyncMeansDurable, AllSectors, BootSect, Returns, ChangeInfo
  <2> QED
    BY <2>1, <2>2, <2>3 DEF IInv
<1>8. ASSUME NEW c \in Clusters, ClearFirst(c) PROVE IInv'
  <2>0. ret' \in [op : Calls, err : Errors]
    BY <1>8, <1>t, ReturnsType DEF TypeOK, Calls, Errors, ClearFirst, SyncBufFails, Contents, ContentsAssumption
  <2>b. bufDirty' \in BOOLEAN /\ infoDirty' \in BOOLEAN /\ mounted' \in BOOLEAN
    BY <1>8, <1>t DEF TypeOK, ClearFirst, SyncBufFails, Contents, ContentsAssumption
  <2>1. TypeOK'
    BY <2>0, <2>b, <1>8, <1>t, <1>f, ClearTarget, ContentsAssumption DEF TypeOK, BufferInv, AllSectors, ClearFirst, SyncBufFails, Contents, ContentsAssumption, BootSect
  <2>2. BufferInv'
    BY <1>8, <1>t, <1>f, ClearTarget, ContentsAssumption DEF TypeOK, BufferInv, AllSectors, BootSect, ClearFirst, SyncBufFails, Contents, ContentsAssumption
  <2>3. Coherent' /\ InfoSaved' /\ SyncMeansDurable'
    BY <1>8, <1>t, <1>f, ClearTarget, ContentsAssumption DEF TypeOK, BufferInv, Coherent, InfoSaved, SyncMeansDurable, AllSectors, BootSect, Returns, ClearFirst, SyncBufFails, Contents, ContentsAssumption
  <2> QED
    BY <2>1, <2>2, <2>3 DEF IInv
<1>9. CASE ClearNext
  <2> USE <1>9, <1>t, <1>f DEF ClearNext
  <2>0. ret' \in [op : Calls, err : Errors]
    BY ReturnsType DEF TypeOK, Calls, Errors
  <2>b. bufDirty' \in BOOLEAN /\ infoDirty' \in BOOLEAN /\ mounted' \in BOOLEAN
    BY DEF TypeOK, SyncBufFails, SyncBufOk
  <2>s. /\ bufDirty /\ sect \in Nat /\ sect >= DataSect /\ left \in Nat
        /\ sect + left <= LastSect /\ left < SectPerClust /\ sect # InfoSect
    BY DEF TypeOK, BufferInv, AllSectors
  <2>1. CASE SyncBufFails /\ left' = 0 /\ pc' = "idle" /\ sect' = sect /\ ret' = [op |-> "clear", err |-> "IO"]
    <3>1. TypeOK'
      BY <2>0, <2>b, <2>s, <2>1 DEF TypeOK, SyncBufFails
    <3>2. BufferInv'
      BY <2>s, <2>1 DEF TypeOK, BufferInv, SyncBufFails
    <3>3. Coherent' /\ InfoSaved' /\ SyncMeansDurable'
      BY <2>s, <2>1 DEF Coherent, InfoSaved, SyncMeansDurable, SyncBufFails
    <3> QED
      BY <3>1, <3>2, <3>3 DEF IInv
  <2>2. CASE left > 0 /\ disk' = Flushed /\ sect' = sect + 1 /\ bufDirty' = TRUE /\ left' = left - 1 /\ UNCHANGED <<pc, ret>>
    <3>0. sect + 1 \in AllSectors /\ left - 1 \in 0 .. SectPerClust - 1 /\ sect + 1 # InfoSect /\ sect + 1 # BootSect
      BY <2>s, <2>2 DEF AllSectors, BootSect
    <3>1. TypeOK'
      BY <2>0, <2>b, <2>2, <3>0 DEF TypeOK
    <3>2. BufferInv'
      BY <2>s, <2>2, <3>0 DEF TypeOK, BufferInv
    <3>3. Coherent' /\ InfoSaved' /\ SyncMeansDurable'
      BY <2>2 DEF Coherent, InfoSaved, SyncMeansDurable
    <3> QED
      BY <3>1, <3>2, <3>3 DEF IInv
  <2>3. CASE left = 0 /\ SyncBufOk /\ pc' = "idle" /\ UNCHANGED <<sect, left>> /\ ret' = [op |-> "clear", err |-> "NONE"]
    <3>1. TypeOK'
      BY <2>0, <2>b, <2>3 DEF TypeOK, SyncBufOk
    <3>2. BufferInv'
      BY <2>s, <2>3 DEF BufferInv, SyncBufOk
    <3>3. Coherent' /\ InfoSaved' /\ SyncMeansDurable'
      BY <2>s, <2>3 DEF Coherent, InfoSaved, SyncMeansDurable, SyncBufOk
    <3> QED
      BY <3>1, <3>2, <3>3 DEF IInv
  <2> QED
    BY <2>1, <2>2, <2>3 DEF Returns
<1>10. CASE Crash
  <2>0. ret' \in [op : Calls, err : Errors]
    BY <1>10, <1>t, ReturnsType DEF TypeOK, Calls, Errors, Crash, Contents, ContentsAssumption
  <2>b. bufDirty' \in BOOLEAN /\ infoDirty' \in BOOLEAN /\ mounted' \in BOOLEAN
    BY <1>10, <1>t DEF TypeOK, Crash, Contents, ContentsAssumption
  <2>1. TypeOK'
    BY <2>0, <2>b, <1>10, <1>t, <1>f, ContentsAssumption DEF TypeOK, BufferInv, AllSectors, Crash, Contents, ContentsAssumption, BootSect
  <2>2. BufferInv'
    BY <1>10, <1>t, <1>f, ContentsAssumption DEF TypeOK, BufferInv, AllSectors, BootSect, Crash, Contents, ContentsAssumption
  <2>3. Coherent' /\ InfoSaved' /\ SyncMeansDurable'
    BY <1>10, <1>t, <1>f, ContentsAssumption DEF TypeOK, BufferInv, Coherent, InfoSaved, SyncMeansDurable, AllSectors, BootSect, Returns, Crash, Contents, ContentsAssumption
  <2> QED
    BY <2>1, <2>2, <2>3 DEF IInv
<1>11. CASE UNCHANGED vars
  BY <1>11, <1>t DEF vars, bufVars, IInv, TypeOK, BufferInv, Coherent, InfoSaved, SyncMeansDurable
<1> QED
  BY <1>1, <1>2, <1>3, <1>4, <1>5, <1>6, <1>7, <1>8, <1>9, <1>10, <1>11 DEF Next

(* Type correctness: the buffer's sector number stays on the device even   *)
(* inside clust_clear, and every call returns one of its codes.            *)
THEOREM TypeCorrect ==
  ASSUME ~RemountDirty PROVE Spec => []TypeOK
<1>1. IInv => TypeOK
  BY DEF IInv
<1>2. IInv /\ [Next]_vars => IInv'
  BY NextIInv
<1> QED
  BY InitIInv, <1>1, <1>2, PTL DEF Spec

(* A buffer not marked dirty is a true copy of its sector: update_buf may  *)
(* skip the read of the sector it already holds.                           *)
THEOREM BufferCoherent ==
  ASSUME ~RemountDirty PROVE Spec => []Coherent
<1>1. IInv => Coherent
  BY DEF IInv
<1>2. IInv /\ [Next]_vars => IInv'
  BY NextIInv
<1> QED
  BY InitIInv, <1>1, <1>2, PTL DEF Spec

(* A fat_sync or fat_umount that returns FAT_ERR_NONE has left nothing     *)
(* unwritten, and hints that are not marked dirty are those on disk.       *)
THEOREM SyncIsDurable ==
  ASSUME ~RemountDirty PROVE Spec => [](SyncMeansDurable /\ InfoSaved)
<1>1. IInv => SyncMeansDurable /\ InfoSaved
  BY DEF IInv
<1>2. IInv /\ [Next]_vars => IInv'
  BY NextIInv
<1> QED
  BY InitIInv, <1>1, <1>2, PTL DEF Spec

(* FAT_BUF_DIRTY goes down only when the buffer has reached the disk, for  *)
(* every geometry: no load, failed load, sync or clust_clear drops a       *)
(* change that update_buf's callers made.  No assumption is needed.        *)
THEOREM ChangesAreKept == Spec => NothingDropped
<1> DEFINE Kept == mounted' /\ bufDirty /\ ~bufDirty' => disk' = View
<1>1. ASSUME [Next]_vars PROVE Kept \/ UNCHANGED vars
  <2> USE DEF View
  <2>1. CASE Mount
    BY <2>1 DEF Mount
  <2>2. CASE FatSync \/ FatUmount
    BY <2>2 DEF FatSync, FatUmount, SyncFs, SyncFsFails, SyncFsDone, SyncFsLoadInfo,
                SyncBufFails, SyncBufOk, bufVars
  <2>3. CASE WriteInfo
    BY <2>3 DEF WriteInfo, SyncInfoFails, SyncInfoOk, SyncBufFails, SyncBufOk
  <2>4. ASSUME NEW s \in Sectors, Access(s) PROVE Kept
    BY <2>4 DEF Access, UpdateBufFails, UpdateBufOk, SyncBufFails, SyncBufOk
  <2>5. ASSUME NEW s \in Sectors \ {InfoSect}, NEW v \in Blocks, Change(s, v) PROVE Kept
    BY <2>5 DEF Change, UpdateBufWrite
  <2>6. ASSUME NEW i \in Infos, ChangeInfo(i) PROVE Kept
    BY <2>6 DEF ChangeInfo
  <2>7. ASSUME NEW c \in Clusters, ClearFirst(c) PROVE Kept
    BY <2>7 DEF ClearFirst, SyncBufFails
  <2>8. CASE ClearNext
    BY <2>8 DEF ClearNext, SyncBufFails, SyncBufOk
  <2>9. CASE Crash
    BY <2>9 DEF Crash
  <2> QED
    BY <1>1, <2>1, <2>2, <2>3, <2>4, <2>5, <2>6, <2>7, <2>8, <2>9 DEF Next
<1>2. [Next]_vars => [Kept]_vars
  BY <1>1
<1> QED
  BY <1>2, PTL DEF Spec, NothingDropped

(* Laying a block over a sector twice leaves the second block. *)
LEMMA OverwriteTwice ==
  ASSUME NEW f, NEW s, NEW v, NEW w
  PROVE  [[f EXCEPT ![s] = v] EXCEPT ![s] = w] = [f EXCEPT ![s] = w]
OBVIOUS

(* What a step does to the disk and to the view of the volume: nothing; a  *)
(* write-back of everything; a change to one sector other than sector 0,   *)
(* before which everything older may be written back; a mount, with        *)
(* nothing unwritten; or power loss.                                       *)
LEMMA StepOfStore ==
  ASSUME ~RemountDirty, IInv, [Next]_vars
  PROVE  [Store!Next]_(Store!vars)
<1> USE Geometry
<1>t. TypeOK /\ BufferInv
  BY DEF IInv
<1>f. Flushed \in [AllSectors -> Contents]
  BY <1>t, FlushedType
<1>w. ASSUME disk' = Flushed, bufDirty' = FALSE, mounted' \in {mounted, FALSE}
      PROVE  Store!Next
  BY <1>w DEF Store!Next, Store!WriteBack, View, Flushed
<1>n. ASSUME disk' = disk, UNCHANGED <<buf, sect, bufDirty>>, mounted' \in {mounted, FALSE}
      PROVE  [Store!Next]_(Store!vars)
  <2>1. UNCHANGED <<View, disk>>
    BY <1>n DEF View, Flushed
  <2> QED
    BY <1>n, <2>1 DEF Store!Next, Store!Close, Store!vars
<1>c. ASSUME NEW s \in Sectors, NEW v \in Contents,
             disk' = Flushed, bufDirty' = TRUE, sect' = s, buf' = v,
             mounted' \in {mounted, FALSE}
      PROVE  Store!Write(s, v)
  <2>1. View' = [Flushed EXCEPT ![s] = v]
    BY <1>c DEF View, Flushed
  <2> QED
    BY <1>c, <2>1 DEF Store!Write, View
<1>x. ASSUME NEW s \in Sectors, NEW v \in Contents, Store!Write(s, v) PROVE Store!Next
  BY <1>x DEF Store!Next
<1>1. CASE Mount
  <2>1. UNCHANGED <<View, disk>>
    BY <1>1 DEF Mount, View, Flushed
  <2>2. CASE UNCHANGED mounted
    BY <2>1, <2>2 DEF Store!vars
  <2>3. CASE mounted' = TRUE
    <3>1. ~mounted /\ View = disk
      BY <1>1 DEF Mount, View, Flushed
    <3> QED
      BY <2>1, <2>3, <3>1 DEF Store!Next, Store!Open
  <2> QED
    BY <1>1, <2>2, <2>3 DEF Mount
<1>2. CASE FatSync \/ FatUmount
  <2>0. mounted' \in {mounted, FALSE}
    BY <1>2 DEF FatSync, FatUmount
  <2>1. CASE SyncFsFails \/ SyncFsDone
    BY <2>0, <2>1, <1>w, <1>n DEF SyncFsFails, SyncFsDone, SyncBufFails, SyncBufOk
  <2>2. CASE SyncFsLoadInfo
    <3>1. InfoSect \in Sectors /\ info \in Contents
      BY <1>t DEF Sectors, TypeOK, Contents
    <3> QED
      BY <2>0, <2>2, <3>1, <1>c, <1>x DEF SyncFsLoadInfo
  <2>3. CASE UNCHANGED bufVars
    BY <2>0, <2>3, <1>n DEF bufVars
  <2> QED
    BY <1>2, <2>1, <2>2, <2>3 DEF FatSync, FatUmount, SyncFs
<1>3. CASE WriteInfo
  BY <1>3, <1>w, <1>n DEF WriteInfo, SyncInfoFails, SyncInfoOk, SyncBufFails, SyncBufOk
<1>4. ASSUME NEW s \in Sectors, Access(s) PROVE [Store!Next]_(Store!vars)
  <2>1. CASE UpdateBufFails(s)
    BY <1>4, <2>1, <1>w, <1>n DEF Access, UpdateBufFails, SyncBufFails, SyncBufOk
  <2>2. CASE UpdateBufOk(s) /\ s = sect
    <3>1. bufDirty' = bufDirty
      BY <2>2, <1>t DEF UpdateBufOk, TypeOK
    <3> QED
      BY <1>4, <2>2, <3>1, <1>n DEF Access, UpdateBufOk, Loaded
  <2>3. CASE UpdateBufOk(s) /\ s # sect
    BY <1>4, <2>3, <1>w DEF Access, UpdateBufOk
  <2> QED
    BY <1>4, <2>1, <2>2, <2>3 DEF Access
<1>5. ASSUME NEW s \in Sectors \ {InfoSect}, NEW v \in Blocks, Change(s, v)
      PROVE  [Store!Next]_(Store!vars)
  <2>0. v \in Contents
    BY DEF Contents
  <2>1. CASE s # sect
    BY <2>0, <2>1, <1>5, <1>c, <1>x DEF Change, UpdateBufWrite
  <2>2. CASE s = sect
    <3>1. View' = [disk EXCEPT ![s] = v] /\ disk' = disk
      BY <2>2, <1>5 DEF Change, UpdateBufWrite, View, Flushed
    <3>2. View' = [View EXCEPT ![s] = v]
      BY <2>2, <3>1, OverwriteTwice DEF View, Flushed
    <3>3. Store!Write(s, v)
      BY <1>5, <3>1, <3>2 DEF Change, Store!Write
    <3> QED
      BY <2>0, <3>3, <1>x
  <2> QED
    BY <2>1, <2>2
<1>6. ASSUME NEW i \in Infos, ChangeInfo(i) PROVE [Store!Next]_(Store!vars)
  BY <1>6, <1>n DEF ChangeInfo
<1>7. ASSUME NEW c \in Clusters, ClearFirst(c) PROVE [Store!Next]_(Store!vars)
  <2>1. clust_to_sect(c) \in Sectors /\ Zero \in Contents
    BY ClearTarget, ContentsAssumption DEF Sectors, ContentsAssumption, Contents
  <2>2. CASE SyncBufFails /\ UNCHANGED <<buf, sect>>
    BY <1>7, <2>2, <1>n DEF ClearFirst, SyncBufFails
  <2> QED
    BY <1>7, <2>1, <2>2, <1>c, <1>x DEF ClearFirst
<1>8. CASE ClearNext
  <2>1. CASE SyncBufFails /\ UNCHANGED <<buf, sect>>
    BY <1>8, <2>1, <1>n DEF ClearNext, SyncBufFails
  <2>2. CASE left > 0 /\ disk' = Flushed /\ bufDirty' = TRUE /\ sect' = sect + 1 /\ buf' = buf
    <3>1. sect + 1 \in Sectors /\ buf \in Contents
      BY <1>8, <1>t, <2>2 DEF ClearNext, BufferInv, TypeOK, AllSectors, Sectors
    <3> QED
      BY <1>8, <2>2, <3>1, <1>c, <1>x DEF ClearNext
  <2>3. CASE SyncBufOk
    BY <1>8, <2>3, <1>w DEF ClearNext, SyncBufOk
  <2> QED
    BY <1>8, <2>1, <2>2, <2>3 DEF ClearNext
<1>9. CASE Crash
  BY <1>9 DEF Crash, View, Flushed, Store!Next, Store!Crash
<1>10. CASE UNCHANGED vars
  BY <1>10, <1>n DEF vars, bufVars
<1> QED
  BY <1>1, <1>2, <1>3, <1>4, <1>5, <1>6, <1>7, <1>8, <1>9, <1>10 DEF Next

(* The buffer implements the sector store for every geometry: whatever I/O *)
(* fails and whenever power is lost, the disk is the volume as it was      *)
(* after a prefix of the changes made through update_buf, sync_fs and      *)
(* clust_clear.                                                            *)
THEOREM ImplementsStore ==
  ASSUME ~RemountDirty PROVE Spec => RefinesStore
<1>1. Init => Store!Init
  BY DEF Init, Store!Init, View, Flushed
<1>2. IInv /\ [Next]_vars => IInv'
  BY NextIInv
<1>3. IInv /\ [Next]_vars => [Store!Next]_(Store!vars)
  BY StepOfStore
<1> QED
  BY InitIInv, <1>1, <1>2, <1>3, PTL DEF Spec, RefinesStore, Store!Spec
=============================================================================
