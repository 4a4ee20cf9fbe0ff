----------------------------- MODULE KernelHeap -----------------------------
(***************************************************************************)
(* kmalloc and kfree, and umalloc and ufree, which are the same algorithm  *)
(* with another rounding: a first-fit free list without splitting or       *)
(* merging, in front of a heap end that only moves up.                     *)
(*                                                                         *)
(* Addresses are offsets from the start of the heap.  The physical pages   *)
(* of pmm.c appear as their number.  expand_heap is a loop of its own      *)
(* steps; the rest of a call is one step.  Callers give back only what     *)
(* they were given, once.                                                  *)
(***************************************************************************)
EXTENDS Integers, Sequences, FiniteSets

CONSTANTS
  HEAP_SIZE,   \* KERNEL_HEAP_INITIAL_SIZE: heap_max - heap_start
  PAGE_SIZE,
  HDR,         \* sizeof(kmalloc_block_t)
  Requests,    \* the sizes callers ask for
  Frames,      \* physical pages free at the start
  UserHeap,    \* umalloc.c instead of kmalloc.c?
  MaxBlocks    \* bound on the number of blocks ever carved from the heap

ASSUME HeapAssumption ==
  /\ HEAP_SIZE \in Nat /\ PAGE_SIZE \in Nat \ {0} /\ HDR \in Nat \ {0}
  /\ Requests \subseteq Nat /\ Frames \in Nat
  /\ UserHeap \in BOOLEAN /\ MaxBlocks \in Nat

VARIABLES
  heap_end,    \* first offset not in use
  free_list,   \* the freed blocks, last freed first
  live,        \* the blocks callers hold, with the size each asked for
  frames,      \* physical pages pmm_alloc_page can still return
  pc,          \* "idle", or "expand" inside expand_heap
  req          \* the request being served

heapVars == <<heap_end, free_list, live, frames, pc, req>>

(* kmalloc.c clears the low three bits of size + 7.  umalloc.c masks with  *)
(* -7, which clears bits 1 and 2 and keeps bit 0.                          *)
align8(n) ==
  IF UserHeap THEN (n + 7) - (((n + 7) % 8) - ((n + 7) % 2))
              ELSE (n + 7) - ((n + 7) % 8)

(* A block lies at addr with its header; size is what its header says.     *)
Block(addr, size) == [addr |-> addr, size |-> size]
Blocks == [addr : Nat, size : Nat]
BlockEnd(b) == b.addr + HDR + b.size

Without(s, i) == [j \in 1 .. Len(s) - 1 |-> IF j < i THEN s[j] ELSE s[j + 1]]

HeapInit ==
  /\ heap_end = 0 /\ free_list = <<>> /\ live = {}
  /\ frames = Frames
  /\ pc = "idle" /\ req = 0

-----------------------------------------------------------------------------
(* Mutant: the header is counted as room for the caller.                   *)
MallocFitHeader(n) ==
  /\ pc = "idle" /\ n > 0
  /\ \E i \in DOMAIN free_list :
       /\ free_list[i].size + HDR >= align8(n)
       /\ live' = live \cup {[block |-> free_list[i], req |-> n]}
       /\ free_list' = Without(free_list, i)
  /\ UNCHANGED <<heap_end, frames, pc, req>>

(* kmalloc, served from the free list: the first block that is big enough  *)
(* is unlinked and handed out whole.                                       *)
MallocFit(n) ==
  /\ pc = "idle" /\ n > 0
  /\ \E i \in DOMAIN free_list :
       /\ free_list[i].size >= align8(n)
       /\ \A j \in 1 .. i - 1 : free_list[j].size < align8(n)
       /\ live' = live \cup {[block |-> free_list[i], req |-> n]}
       /\ free_list' = Without(free_list, i)
  /\ UNCHANGED <<heap_end, frames, pc, req>>

(* kmalloc, no block fits: enter expand_heap. *)
MallocExpand(n) ==
  /\ pc = "idle" /\ n > 0
  /\ Cardinality(live) + Len(free_list) < MaxBlocks
  /\ \A i \in DOMAIN free_list : free_list[i].size < align8(n)
  /\ pc' = "expand" /\ req' = n
  /\ UNCHANGED <<heap_end, free_list, live, frames>>

Need == align8(req) + HDR

(* Mutant: the page goes back when vmm_map_page fails, and the loop tries  *)
(* again.                                                                  *)
ExpandHeapRetries ==
  /\ pc = "expand"
  /\ heap_end + Need > HEAP_SIZE
  /\ frames > 0
  /\ UNCHANGED heapVars

(* One turn of the loop of expand_heap: a page is taken from pmm and       *)
(* heap_end, not heap_max, is moved over it.  vmm_map_page has no entry    *)
(* for the address and its result is not looked at.                        *)
ExpandHeap ==
  /\ pc = "expand"
  /\ heap_end + Need > HEAP_SIZE
  /\ frames > 0
  /\ frames' = frames - 1
  /\ heap_end' = heap_end + PAGE_SIZE
  /\ UNCHANGED <<free_list, live, pc, req>>

(* Mutant: the room for the header is not checked.                         *)
CarveTight ==
  /\ pc = "expand"
  /\ heap_end + align8(req) <= HEAP_SIZE \/ frames = 0
  /\ live' = live \cup {[block |-> Block(heap_end, align8(req)), req |-> req]}
  /\ heap_end' = heap_end + Need
  /\ pc' = "idle" /\ req' = 0
  /\ UNCHANGED <<free_list, frames>>

(* expand_heap returns, because the request fits or because pmm is out of  *)
(* pages; in both cases the block is carved at heap_end.                   *)
Carve ==
  /\ pc = "expand"
  /\ heap_end + Need <= HEAP_SIZE \/ frames = 0
  /\ live' = live \cup {[block |-> Block(heap_end, align8(req)), req |-> req]}
  /\ heap_end' = heap_end + Need
  /\ pc' = "idle" /\ req' = 0
  /\ UNCHANGED <<free_list, frames>>

(* kfree *)
Free(h) ==
  /\ pc = "idle" /\ h \in live
  /\ live' = live \ {h}
  /\ free_list' = <<h.block>> \o free_list
  /\ UNCHANGED <<heap_end, frames, pc, req>>

HeapNext ==
  \/ \E n \in Requests :
       MallocFit(n) \/ MallocExpand(n)
  \/ ExpandHeap
  \/ Carve
  \/ \E h \in live : Free(h)

HeapSpec == HeapInit /\ [][HeapNext]_heapVars

HeapFairSpec == HeapSpec /\ WF_heapVars(ExpandHeap \/ Carve)

-----------------------------------------------------------------------------
HeapTypeOK ==
  /\ heap_end \in Nat /\ frames \in 0 .. Frames
  /\ free_list \in Seq(Blocks)
  /\ live \subseteq [block : Blocks, req : Nat]
  /\ pc \in {"idle", "expand"} /\ req \in Nat

Overlap(b, c) == b.addr < BlockEnd(c) /\ c.addr < BlockEnd(b)

(* No two blocks overlap, neither two that callers hold, nor a held one    *)
(* and a freed one, nor two freed ones; nobody is given a block another    *)
(* caller still holds (kmalloc, kfree).                                    *)
BlocksDisjoint ==
  /\ \A h, k \in live : h # k => ~Overlap(h.block, k.block)
  /\ \A h \in live : \A i \in DOMAIN free_list : ~Overlap(h.block, free_list[i])
  /\ \A i, j \in DOMAIN free_list : i # j => ~Overlap(free_list[i], free_list[j])

(* Every caller got at least what it asked for, also from a recycled       *)
(* block, and everything handed out lies below heap_end.                   *)
BlocksLargeEnough ==
  /\ \A h \in live : h.block.size >= h.req /\ BlockEnd(h.block) <= heap_end
  /\ \A i \in DOMAIN free_list : BlockEnd(free_list[i]) <= heap_end

(* What kmalloc and umalloc promise, after any sequence of calls. *)
BlocksSound == BlocksDisjoint /\ BlocksLargeEnough

(* The heap passes heap_max only over the last physical page: the loop of  *)
(* expand_heap cannot end before pmm is empty, for heap_max never moves.   *)
OverflowDrainsMemory == pc = "idle" /\ heap_end > HEAP_SIZE => frames = 0

(* kmalloc returns, also when it expands the heap. *)
MallocReturns == pc = "expand" ~> pc = "idle"
=============================================================================
