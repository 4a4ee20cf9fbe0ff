----------------------------- MODULE MCFatVolume -----------------------------
(***************************************************************************)
(* A volume of six clusters, four of them usable, with four FAT entries to *)
(* a sector, so that a chain crosses FAT sectors, and two files.  Its      *)
(* FSInfo has a usable hint, one that is never handed out, or one before   *)
(* the first cluster; or it knows no hint and its count is one short; or   *)
(* it is not signed; and one volume is full before it is mounted.          *)
(***************************************************************************)
EXTENDS FatVolume

MCSlots == {"a", "b"}

MCFormat(r, s, h, o) == [root |-> r, signed |-> s, hint |-> h, off |-> o]
MCFormats ==
  {MCFormat(2, TRUE, 3, 0), MCFormat(2, TRUE, CLUST_CNT + 1, 0), MCFormat(2, TRUE, 0, 0),
   MCFormat(3, TRUE, WIDTH - 1, WIDTH - 1), MCFormat(3, FALSE, 4, 3),
   MCFormat(CLUST_CNT - 1, TRUE, CLUST_CNT, 0)}
=============================================================================
