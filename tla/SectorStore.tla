----------------------------- MODULE SectorStore -----------------------------
(***************************************************************************)
(* What the buffer of fat32.c promises to the code above it: a store of    *)
(* sectors that is written one sector at a time, whose durable part always *)
(* equals the whole store as it was after some prefix of those writes.  A  *)
(* crash falls back to that prefix, so a write is never durable before an  *)
(* earlier one, and nothing is written that no caller wrote.               *)
(***************************************************************************)
CONSTANTS
  Sectors,    \* every sector of the device
  Writable,   \* the sectors callers write: all but the boot sector
  Contents    \* what a sector can hold

VARIABLES
  open,       \* is the store in use?
  contents,   \* the store as its user reads it
  durable     \* the store as a crash leaves it

vars == <<open, contents, durable>>

(* The store is opened with what is durable ... *)
Open ==
  /\ ~open /\ open' = TRUE
  /\ durable = contents
  /\ UNCHANGED <<contents, durable>>

(* ... and closed, which writes nothing by itself. *)
Close == open' = FALSE /\ UNCHANGED <<contents, durable>>

(* Sector s is changed, while the store is in use or with its last change  *)
(* when it is closed.  Everything written before may become durable on the *)
(* way, the new contents of s may not yet.                                 *)
Write(s, v) ==
  /\ open' \in {open, FALSE}
  /\ contents' = [contents EXCEPT ![s] = v]
  /\ durable' \in {durable, contents}

(* Everything written so far becomes durable. *)
WriteBack ==
  /\ open' \in {open, FALSE}
  /\ durable' = contents
  /\ UNCHANGED contents

(* What was not durable is lost, all of it; nothing else loses a change.   *)
Crash ==
  /\ open' = FALSE
  /\ contents' = durable
  /\ UNCHANGED durable

Init == open = FALSE /\ contents \in [Sectors -> Contents] /\ durable = contents

Next ==
  \/ Open \/ Close
  \/ \E s \in Writable, v \in Contents : Write(s, v)
  \/ WriteBack
  \/ Crash

Spec == Init /\ [][Next]_vars
=============================================================================
