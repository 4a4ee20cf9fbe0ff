----------------------------- MODULE MCFatCache -----------------------------
(***************************************************************************)
(* A device of five sectors: the boot sector, FSInfo, one FAT sector, and  *)
(* two data sectors that make up cluster 2.  An FSInfo j is one that       *)
(* fat_mount does not take as it stands.                                   *)
(***************************************************************************)
EXTENDS FatCache

MCClusters == {2}
MCBlocks == {"zero", "a"}
MCInfos == {"i", "j"}
MCTaken == [f \in MCInfos |-> "i"]
=============================================================================
