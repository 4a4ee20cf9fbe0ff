----------------------------- MODULE MCFatNames -----------------------------
(***************************************************************************)
(* Two volumes whose names are equally long, one with a longer name and    *)
(* one that does not fit, on a disk that is one volume and on one with two *)
(* FAT32 partitions, one of them not formatted.                            *)
(***************************************************************************)
EXTENDS FatNames

MCVolNames == {"disk0", "disk1", "floppy", "long"}
MCLength(n) == IF n = "floppy" THEN 6 ELSE IF n = "long" THEN 33 ELSE 5

Sector(kind) == [kind |-> kind]
MCDisks ==
  {[s \in {0} |-> Sector("fat")],
   [s \in {0, 1, 2} |->
     CASE s = 0 -> [kind |-> "mbr", part |-> [p \in 0 .. 3 |-> IF p < 2 THEN p + 1 ELSE 0]]
       [] s = 1 -> Sector("fat")
       [] s = 2 -> Sector("other")]}
=============================================================================
