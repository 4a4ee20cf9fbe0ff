------------------------------- MODULE RamFs -------------------------------
(***************************************************************************)
(* The RAM file system of fs/ramfs.c: a tree of nodes from kmalloc, with   *)
(* the children of a node in an array.  An operation runs to completion    *)
(* and is one step.                                                        *)
(*                                                                         *)
(* A path is its components and whether it begins with a slash.  The name  *)
(* of a node is a sequence of components too: ramfs_create_file splits a   *)
(* path at its first slash, so that the name of a file can contain others. *)
(***************************************************************************)
EXTENDS Integers, FiniteSets, SequencesExt

CONSTANTS
  Components,          \* what callers put between slashes
  Kept(_),             \* what strncpy keeps of a name for the node
  Contents,            \* what callers write into files
  Paths,               \* the paths callers use
  MaxNodes,            \* bound: nodes allocated at a time, lost ones included
  RAMFS_MAX_CHILDREN

ASSUME RamFsAssumption ==
  /\ Paths \subseteq [abs : BOOLEAN, comps : Seq(Components)]
  /\ MaxNodes \in Nat /\ RAMFS_MAX_CHILDREN \in Nat \ {0}

Root == 0
NULL == -1
Nodes == 0 .. MaxNodes

Names == {<<c>> : c \in Components} \cup {<<c, d>> : c, d \in Components}

VARIABLES
  node,   \* the nodes, by address
  heap,   \* the addresses that kmalloc has given out and not taken back
  ret     \* the last operation and whether it returned a node

vars == <<node, heap, ret>>

Node(name, type, parent, data) ==
  [name |-> name, type |-> type, parent |-> parent, data |-> data, children |-> <<>>]

(* What an address that is not in use holds: it is never read. *)
Blank == Node(<<>>, "DIR", NULL, "none")

(* ramfs_init *)
Init ==
  /\ node = [n \in Nodes |-> Blank]
  /\ heap = {Root}
  /\ ret = [op |-> "none", ok |-> FALSE]

-----------------------------------------------------------------------------
(* ramfs_find_node                                                         *)

(* The first child of n that is called name, or NULL.  n may be a file.    *)
ChildOf(nd, n, name) ==
  LET found == {i \in DOMAIN nd[n].children : nd[nd[n].children[i]].name = name}
  IN  IF found = {} THEN NULL ELSE nd[n].children[Min(found)]

(* ramfs_find_node with create_missing = 0. *)
Lookup(comps) ==
  LET child == [n \in Nodes \cup {NULL} |->
                  [c \in Components |-> IF n = NULL THEN NULL ELSE ChildOf(node, n, <<c>>)]]
      at[i \in 0 .. Len(comps)] ==
        IF i = 0 THEN Root ELSE child[at[i - 1]][comps[i]]
  IN  at[Len(comps)]

(* With create_missing = 1, a walk is the tree, the heap and the current   *)
(* node, or NULL once a node could not be made.                            *)
Walk(nd, hp, cur) == [node |-> nd, heap |-> hp, cur |-> cur]

(* kmalloc hands out an address that is not in use. *)
Fresh(hp) == Min(Nodes \ hp)

(* A new node is allocated before the array is known to have room for it.  *)
AddDir(w, c) ==
  LET n == Fresh(w.heap)
      hp == w.heap \cup {n}
      nd == [w.node EXCEPT ![n] = Node(Kept(<<c>>), "DIR", w.cur, "none")]
  IN  IF Len(nd[w.cur].children) >= RAMFS_MAX_CHILDREN THEN Walk(nd, hp, NULL)
      ELSE Walk([nd EXCEPT ![w.cur].children = Append(@, n)], hp, n)

Enter(w, c) ==
  CASE w.cur = NULL -> w
    [] w.cur # NULL /\ ChildOf(w.node, w.cur, <<c>>) # NULL ->
         [w EXCEPT !.cur = ChildOf(w.node, w.cur, <<c>>)]
    [] OTHER -> AddDir(w, c)

find_node_create(comps) ==
  LET after[i \in 0 .. Len(comps)] ==
        IF i = 0 THEN Walk(node, heap, Root) ELSE Enter(after[i - 1], comps[i])
  IN  after[Len(comps)]

IsFile(n) == n # NULL /\ node[n].type = "FILE"

(* The bound: there are addresses for all an operation may allocate. *)
Room(p) == Cardinality(Nodes \ heap) >= Len(p.comps)

-----------------------------------------------------------------------------
Returns(op, ok) == ret' = [op |-> op, ok |-> ok]

(* ramfs_mkdir *)
Mkdir(p) ==
  LET w == find_node_create(p.comps) IN
  /\ Room(p)
  /\ node' = w.node /\ heap' = w.heap
  /\ Returns("mkdir", w.cur # NULL /\ w.node[w.cur].type = "DIR")

(* A file can be put into a directory that has no child of its name, as    *)
(* the caller gave it, and has room.                                       *)
CanAdd(w, name) ==
  /\ w.cur # NULL /\ w.node[w.cur].type = "DIR"
  /\ ChildOf(w.node, w.cur, name) = NULL
  /\ Len(w.node[w.cur].children) < RAMFS_MAX_CHILDREN

AddFile(w, name, data) ==
  LET n == Fresh(w.heap)
      nd == [w.node EXCEPT ![n] = Node(Kept(name), "FILE", w.cur, data)]
  IN  /\ node' = [nd EXCEPT ![w.cur].children = Append(@, n)]
      /\ heap' = w.heap \cup {n}
      /\ Returns("create", TRUE)

(* ramfs_create_file: what stands before the first slash is the directory, *)
(* all that follows it is the name.  A path that begins with a slash, or   *)
(* has none, is refused.                                                   *)
CreateFile(p, data) ==
  /\ Room(p)
  /\ \/ /\ p.abs \/ Len(p.comps) < 2
        /\ Returns("create", FALSE)
        /\ UNCHANGED <<node, heap>>
     \/ /\ ~p.abs /\ Len(p.comps) >= 2
        /\ LET w == find_node_create(<<Head(p.comps)>>) IN
           \/ CanAdd(w, Tail(p.comps)) /\ AddFile(w, Tail(p.comps), data)
           \/ /\ ~CanAdd(w, Tail(p.comps))
              /\ node' = w.node /\ heap' = w.heap
              /\ Returns("create", FALSE)

(* Mutant: the last child is dropped instead of the one that was found.    *)
UnlinkedLast(s, n) == SubSeq(s, 1, Len(s) - 1)

(* The children once n is taken out and those behind it have moved up. *)
Unlinked(s, n) == RemoveFirst(s, n)

(* Mutant: the node stays in its directory.                                *)
DeleteFileLinked(p) ==
  LET n == Lookup(p.comps) IN
  /\ IsFile(n)
  /\ heap' = heap \ {n}
  /\ Returns("delete", TRUE)
  /\ UNCHANGED node

(* Mutant: the node is not given back to kmalloc.                          *)
DeleteFileKept(p) ==
  LET n == Lookup(p.comps) IN
  /\ IsFile(n)
  /\ node' = [node EXCEPT ![node[n].parent].children = Unlinked(@, n)]
  /\ Returns("delete", TRUE)
  /\ UNCHANGED heap

(* ramfs_delete_file, of a file.  Directories that ramfs_mkdir has made    *)
(* below the file stay allocated.                                          *)
DeleteFile(p) ==
  LET n == Lookup(p.comps) IN
  /\ IsFile(n)
  /\ node' = [node EXCEPT ![node[n].parent].children = Unlinked(@, n), ![n] = Blank]
  /\ heap' = heap \ {n}
  /\ Returns("delete", TRUE)

DeleteFileFails(p) ==
  LET n == Lookup(p.comps) IN
  /\ ~IsFile(n)
  /\ Returns("delete", FALSE)
  /\ UNCHANGED <<node, heap>>

(* ramfs_read_file *)
ReadFile(p) ==
  LET n == Lookup(p.comps) IN
  /\ Returns("read", IsFile(n))
  /\ UNCHANGED <<node, heap>>

Next ==
  \E p \in Paths :
    \/ Mkdir(p)
    \/ \E d \in Contents : CreateFile(p, d)
    \/ DeleteFile(p) \/ DeleteFileFails(p)
    \/ ReadFile(p)

Spec == Init /\ [][Next]_vars

-----------------------------------------------------------------------------
Children(n) == Range(node[n].children)

(* The nodes below the root. *)
Reachable ==
  LET below == [S \in SUBSET Nodes |-> S \cup UNION {Children(n) : n \in S}]
      within[k \in 0 .. MaxNodes] == IF k = 0 THEN {Root} ELSE below[within[k - 1]]
  IN  within[MaxNodes]

(* The nodes form a tree: all that can be reached is allocated, no node is *)
(* in two places, and every child's parent pointer leads back to the node  *)
(* it was found in, which is where ramfs_delete_file will look for it.     *)
TreeSound ==
  LET R == Reachable IN
  /\ R \subseteq heap
  /\ \A n \in R :
       /\ IsInjective(node[n].children)
       /\ \A m \in Children(n) : m # Root /\ node[m].parent = n
       /\ \A m \in R \ {n} : Children(n) \cap Children(m) = {}

(* An operation that succeeds loses no memory, but for the directories     *)
(* below a file it deletes: the nodes that are allocated and can not be    *)
(* reached stay as they are.                                               *)
Lost == heap \ Reachable
DroppedWith(n) == Children(n) # {} /\ Lost' = Lost \cup (Reachable \ (Reachable' \cup {n}))
SuccessLosesNothing ==
  [][ret'.ok =>
       \/ Lost' = Lost
       \/ ret'.op = "delete" /\ \E n \in heap \ heap' : DroppedWith(n)]_vars

(* To its users the file system is a map from paths "dir/file", without    *)
(* components that are cut off, to contents.                               *)
FilePaths == {<<c, d>> : c, d \in {e \in Components : Kept(<<e>>) = <<e>>}}
ContentsAt(p) ==
  LET n == Lookup(p)
  IN  IF IsFile(n) THEN node[n].data ELSE "none"

(* No caller uses the name that is left of a longer one that is cut off:   *)
(* ramfs_create_file looks for the longer one, does not find it, and would *)
(* make a second child of the shorter name.                                *)
GivenNames == {<<c>> : c \in Components} \cup {Tail(p.comps) : p \in {q \in Paths : Len(q.comps) >= 2}}
CutNamesUnused ==
  \A name \in GivenNames : Kept(name) \in {<<e>> : e \in Components} => Kept(name) = name

Map == INSTANCE FileMap
         WITH Paths <- FilePaths, None <- "none", answer <- ret,
              files <- [p \in FilePaths |-> ContentsAt(p)]

(* Whatever directories are made, fill up or lie in the way, a file that   *)
(* ramfs_find_node finds at one of FilePaths keeps its contents until it   *)
(* is deleted, and one appears or goes only in a ramfs_create_file or      *)
(* ramfs_delete_file that reports success, one at a time; calls that fail, *)
(* ramfs_mkdir and ramfs_read_file leave all of them as they are.  (A      *)
(* create of "a/b/c", or of a name that is cut off, reports success and    *)
(* makes a file that is not found by its path: such paths are not in       *)
(* FilePaths.)                                                             *)
RefinesMap == Map!Spec
=============================================================================
