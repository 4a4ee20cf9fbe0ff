----------------------------- MODULE BlockDevice -----------------------------
(***************************************************************************)
(* What fat32.c expects of DiskOps: one call at a time; a read that        *)
(* succeeds returns the sector, a write that succeeds has replaced it, a   *)
(* write that fails may have, and no call touches another sector.  While   *)
(* the drive is confused nothing is promised.                              *)
(***************************************************************************)
CONSTANT NoCall

VARIABLES
  store,     \* the contents of each sector
  pending,   \* the call in progress, or NoCall
  result,    \* the last call's: did it succeed, and the data it read
  confused   \* is the drive in a state no call expects?

Init == pending = NoCall /\ ~confused

Begin == pending = NoCall /\ pending' # NoCall /\ UNCHANGED <<store, result>>

Take ==
  /\ pending # NoCall /\ pending.op = "write"
  /\ store' = [store EXCEPT ![pending.lba] = pending.data]
  /\ UNCHANGED <<pending, result>>

Return ==
  /\ pending # NoCall /\ pending' = NoCall
  /\ result'.ok =>
       CASE pending.op = "read" -> result'.data = store[pending.lba]
         [] pending.op = "write" -> store[pending.lba] = pending.data
  /\ UNCHANGED store

Next == Begin \/ Take \/ Return \/ confused \/ confused'

Spec == Init /\ [][Next]_<<store, pending, result>>
=============================================================================
