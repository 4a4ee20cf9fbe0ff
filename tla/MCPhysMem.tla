----------------------------- MODULE MCPhysMem -----------------------------
(***************************************************************************)
(* Two machines with pages of two bytes.  The first has sixteen of them:   *)
(* the bitmap is two bytes and the spare one that pmm_init always adds; it *)
(* starts at page 1, the spare byte lies in page 2, and the bits fill      *)
(* whole pages exactly, so that the spare byte holds none.  The second has *)
(* twenty pages: the bits of the last four, two of them reserved, lie in   *)
(* page 2, which is handed out.  The page table ends inside the second     *)
(* segment of the larger file.                                             *)
(***************************************************************************)
EXTENDS PhysMem

Entry(base, length, usable) == [base |-> base, length |-> length, usable |-> usable]
MCMemmaps ==
  {<<Entry(0, 2, FALSE), Entry(2, 16, TRUE), Entry(18, 10, FALSE), Entry(28, 4, TRUE)>>,
   <<Entry(0, 2, FALSE), Entry(2, 14, TRUE), Entry(16, 20, FALSE), Entry(36, 4, TRUE)>>}

Segment(load, vaddr, offset, filesz, memsz) ==
  [load |-> load, vaddr |-> vaddr, offset |-> offset, filesz |-> filesz, memsz |-> memsz]
MCFiles ==
  {<<Segment(TRUE, 2, 1, 3, 4), Segment(FALSE, 6, 0, 1, 1), Segment(TRUE, 8, 4, 1, 5)>>,
   <<Segment(TRUE, 4, 2, 4, 4)>>}
=============================================================================
