------------------------------ MODULE FileMap ------------------------------
(***************************************************************************)
(* What a user of the RAM file system relies on: every path either has no  *)
(* file or has the contents it was created with, until it is deleted; no   *)
(* operation touches a second path, and none touches any unless it is a    *)
(* create or a delete that reports success.  Whether one that does finds   *)
(* its own path among Paths is not said: the file system may be asked for  *)
(* others.                                                                 *)
(***************************************************************************)
CONSTANTS
  Paths,     \* the paths of files
  Contents,  \* what a file can contain
  None       \* no file

VARIABLES
  files,
  answer     \* the last operation and whether it succeeded

Init == files = [p \in Paths |-> None] /\ ~answer.ok

(* No path but p is touched, and the caller is told so. *)
OnlyAt(p, op) ==
  files' = [files EXCEPT ![p] = files'[p]] /\ answer' = [op |-> op, ok |-> TRUE]

Create(p) == files[p] = None /\ files'[p] \in Contents /\ OnlyAt(p, "create")

Delete(p) == files[p] # None /\ files'[p] = None /\ OnlyAt(p, "delete")

(* All other calls: also those that fail, and those for other paths. *)
Other == UNCHANGED files

Next == (\E p \in Paths : Create(p) \/ Delete(p)) \/ Other

Spec == Init /\ [][Next]_<<files, answer>>
=============================================================================
