------------------------------ MODULE PhysMem ------------------------------
(***************************************************************************)
(* Physical pages: the bitmap allocator of mem/pmm.c, the way vmm_init     *)
(* uses it, the page table of mem/vmm.c and its allocation calls, and the  *)
(* loader of drivers/elf/elf.c.                                            *)
(*                                                                         *)
(* Addresses are bytes.  The bitmap lies in the memory it describes, and   *)
(* its end is not on a page boundary: the page it ends in is handed out    *)
(* too, and what is written there changes the bits stored in it.  The      *)
(* kernel's page table is never loaded into the CPU (vmm_load_page_table   *)
(* is empty): the loader's copies go where Limine's page tables send them, *)
(* and image is what stands at those virtual addresses.  Nobody writes to  *)
(* a frame but vmm_init and the vmm calls.                                 *)
(***************************************************************************)
EXTENDS Integers, Sequences, FiniteSets

CONSTANTS
  PAGE_SIZE,
  Memmaps,     \* what Limine's memory map may be: sequences of
               \* [base, length, usable]
  TABLE_SIZE,  \* sizeof(vmm_page_table_t)
  ENTRIES,     \* PTEs in the one page table, 512 in the code
  HEAP_PAGE,   \* KERNEL_HEAP_START / PAGE_SIZE, the first page vmm maps
  Files,       \* ELF files: sequences of [load, vaddr, offset, filesz, memsz]
  VIRT_SIZE    \* bound on the virtual addresses of the segments

(* Limine reports usable memory in whole pages, without overlaps, and not  *)
(* from address 0.                                                         *)
ASSUME MemmapAssumption ==
  /\ PAGE_SIZE \in Nat \ {0} /\ TABLE_SIZE \in 0 .. PAGE_SIZE /\ ENTRIES \in Nat /\ HEAP_PAGE \in Nat
  /\ \A m \in Memmaps :
       /\ m \in Seq([base : Nat, length : Nat \ {0}, usable : BOOLEAN]) /\ m # <<>>
       /\ \A i \in DOMAIN m : m[i].usable =>
            /\ m[i].base % PAGE_SIZE = 0 /\ m[i].base > 0
            /\ m[i].length % PAGE_SIZE = 0
            /\ \A j \in DOMAIN m \ {i} : m[j].usable =>
                 \/ m[i].base + m[i].length <= m[j].base
                 \/ m[j].base + m[j].length <= m[i].base

(* Segments begin on a page, as userspace/linker.ld lays them out, and     *)
(* share none.                                                             *)
ASSUME FilesAssumption ==
  \A f \in Files :
    /\ f \in Seq([load : BOOLEAN, vaddr : Nat, offset : Nat, filesz : Nat, memsz : Nat])
    /\ \A i \in DOMAIN f :
         /\ f[i].vaddr % PAGE_SIZE = 0 /\ f[i].filesz <= f[i].memsz
         /\ f[i].vaddr + f[i].memsz <= VIRT_SIZE
         /\ \A j \in 1 .. i - 1 : f[j].vaddr + f[j].memsz <= f[i].vaddr

End(e) == e.base + e.length
Entries(m) == {m[i] : i \in DOMAIN m}
UsableEntries(m) == {e \in Entries(m) : e.usable}

-----------------------------------------------------------------------------
(* pmm_init, for a memory map m.  The bitmap takes the start of the first  *)
(* usable entry that is large enough for it; that entry's base moves up by *)
(* its size.                                                               *)
highest_addr(m) == CHOOSE a \in {End(e) : e \in Entries(m)} : \A e \in Entries(m) : End(e) <= a
total_pages(m) == highest_addr(m) \div PAGE_SIZE
bitmap_size(m) == total_pages(m) \div 8 + 1

Home(m) ==
  LET Fits(e) == e.usable /\ e.length >= bitmap_size(m)
  IN  m[CHOOSE i \in DOMAIN m : Fits(m[i]) /\ \A j \in 1 .. i - 1 : ~Fits(m[j])]
bitmap(m) == Home(m).base

(* Mutant: the entry that holds the bitmap keeps its base.                 *)
AdjustedInPlace(m, e) == [base |-> e.base, length |-> e.length]

Adjusted(m, e) ==
  IF e = Home(m) THEN [base |-> e.base + bitmap_size(m), length |-> e.length - bitmap_size(m)]
  ELSE [base |-> e.base, length |-> e.length]

(* The pages whose bits pmm_init clears: one per PAGE_SIZE bytes from the  *)
(* entry's base, aligned or not.                                           *)
PagesOf(e) ==
  {(e.base + k * PAGE_SIZE) \div PAGE_SIZE : k \in 0 .. (e.length \div PAGE_SIZE) - 1}
Managed(m) == UNION {PagesOf(Adjusted(m, e)) : e \in UsableEntries(m)}

(* There is room for the bitmap, and for a page beside it. *)
ASSUME RoomAssumption ==
  \A m \in Memmaps :
    /\ \E e \in UsableEntries(m) : e.length >= bitmap_size(m)
    /\ Managed(m) # {}

(* The bits stored in the first n bytes of page p. *)
AllPages(m) == 0 .. total_pages(m) - 1
BitsIn(m, p, n) ==
  LET base == bitmap(m)
  IN  {b \in AllPages(m) : base + b \div 8 \in p * PAGE_SIZE .. p * PAGE_SIZE + n - 1}

(* The pages whose bits lie behind the last page boundary of the bitmap,   *)
(* in the page that is handed out.  None if memory ends at a multiple of   *)
(* 8 * PAGE_SIZE pages (128 MiB).                                          *)
LastBits(m) ==
  LET size == bitmap_size(m)
  IN  {b \in AllPages(m) : b \div 8 >= (size \div PAGE_SIZE) * PAGE_SIZE}

(* The pages whose bits may be overwritten: those, and all if one of those *)
(* holds bits itself.                                                      *)
Exposed(m) ==
  LET last == LastBits(m)
  IN  IF \E p \in last : BitsIn(m, p, PAGE_SIZE) # {} THEN AllPages(m) ELSE last

-----------------------------------------------------------------------------
VARIABLES
  memmap,      \* Limine's memory map
  free,        \* pages whose bit is clear
  free_pages,  \* a size_t in the code: below 0 it wraps
  held,        \* pages that a caller was given and did not give back
  pc,          \* vmm_init's progress, then "run"; "map" inside a vmm call,
               \* "load" inside the loader
  page1, page, \* the locals of vmm_init and of the vmm call
  table,       \* the page of current_page_table, 0 if none
  entries,     \* the page of current_page_table->entries, 0 if NULL
  ptes,        \* the frame of every entry of the page table, 0 if none
  file,        \* the file that was loaded, or is being loaded
  seg, off,    \* the loader's segment and offset
  image        \* the file offset of the byte at a virtual address, or None

pmmVars == <<free, free_pages, held>>
tableVars == <<table, entries, ptes>>
loadVars == <<file, seg, off, image>>
vars == <<memmap, pmmVars, pc, page1, page, tableVars, loadVars>>

None == -1

Init ==
  /\ memmap \in Memmaps
  /\ free = Managed(memmap)
  /\ free_pages = Cardinality(free)
  /\ held = {}
  /\ pc = "test1" /\ page1 = 0 /\ page = 0
  /\ table = 0 /\ entries = 0
  /\ ptes = [v \in 0 .. ENTRIES - 1 |-> 0]
  /\ file = <<>> /\ seg = 0 /\ off = 0
  /\ image = [a \in 0 .. VIRT_SIZE - 1 |-> None]

(* pmm_alloc_page: the lowest clear bit, or NULL, which is 0. *)
Lowest == IF free = {} THEN 0 ELSE CHOOSE p \in free : \A q \in free : p <= q

(* What is left of the free pages, and what else changes. *)
Rest == free \ {Lowest}
Taken ==
  IF free = {} THEN UNCHANGED <<free_pages, held>>
  ELSE free_pages' = free_pages - 1 /\ held' = held \cup {Lowest}

pmm_alloc_page == Taken /\ free' = Rest

(* The caller zeroes the first n bytes of the page. *)
AllocZeroed(n) == Taken /\ free' = Rest \cup BitsIn(memmap, Lowest, n)

(* The free pages once something was written to the first n bytes of page  *)
(* p, if they were f before.                                               *)
Overwritten(f, p, n) ==
  {(f \ BitsIn(memmap, p, n)) \cup s : s \in SUBSET BitsIn(memmap, p, n)}

(* pmm_free_page: a page whose bit is clear already is left alone. *)
pmm_free_page(p) ==
  IF p \in free THEN UNCHANGED <<free, free_pages>>
  ELSE free' = free \cup {p} /\ free_pages' = free_pages + 1

-----------------------------------------------------------------------------
(* vmm_init: two pages for a test, one of them freed, then the page table  *)
(* and its entries, both zeroed.                                           *)
TestAlloc1 ==
  /\ pc = "test1" /\ pc' = "test2"
  /\ pmm_alloc_page /\ page1' = Lowest /\ UNCHANGED <<page, tableVars, loadVars>>

TestAlloc2 ==
  /\ pc = "test2" /\ pc' = "test3"
  /\ pmm_alloc_page /\ UNCHANGED <<page1, page, tableVars, loadVars>>

TestFree ==
  /\ pc = "test3" /\ pc' = "table"
  /\ pmm_free_page(page1) /\ held' = held \ {page1}
  /\ page1' = 0 /\ UNCHANGED <<page, tableVars, loadVars>>

MakeTable ==
  /\ pc = "table" /\ pc' = "entries"
  /\ AllocZeroed(TABLE_SIZE)
  /\ table' = Lowest
  /\ UNCHANGED <<page1, page, entries, ptes, loadVars>>

(* The table's pointer is set, and the entries are zeroed and written.  If *)
(* they are given the table's own page, zeroing them loses the pointer.    *)
MakeEntries ==
  /\ pc = "entries" /\ pc' = "run"
  /\ Taken
  /\ \E f \in Overwritten(Rest, table, TABLE_SIZE) : free' \in Overwritten(f, Lowest, PAGE_SIZE)
  /\ entries' = IF Lowest = table THEN 0 ELSE Lowest
  /\ ptes' = [v \in 0 .. ENTRIES - 1 |-> v]
  /\ UNCHANGED <<page1, page, table, loadVars>>

(* Mutant: a frame that is NULL is mapped all the same.                    *)
MapsNull(v, p) == v # 0 /\ v < ENTRIES

(* vmm_map_page succeeds: it has an entry for the page. *)
Maps(v, p) == v # 0 /\ p # 0 /\ v < ENTRIES

(* A page for the heap: expand_heap does not look at the result of         *)
(* vmm_map_page, which has no entry for it.                                *)
AllocPage ==
  /\ pc = "run"
  /\ pmm_alloc_page
  /\ UNCHANGED <<pc, page1, page, tableVars, loadVars>>

(* A page is given back by its holder, or once more after that; vmm_init   *)
(* and the loader keep their pages.                                        *)
FreePage(p) ==
  /\ pc = "run" /\ p \notin {table, entries} /\ \A v \in DOMAIN ptes : ptes[v] = p => p = v
  /\ pmm_free_page(p)
  /\ held' = held \ {p}
  /\ UNCHANGED <<pc, page1, page, tableVars, loadVars>>

(* vmm_alloc_page, and vmm_alloc_user_pages for its first page.  A page    *)
(* that was handed out before, because its bit was overwritten, is zeroed  *)
(* like any other: the entries are gone then, or the pointer to them.      *)
VmmAlloc ==
  /\ pc = "run"
  /\ AllocZeroed(PAGE_SIZE)
  /\ page' = Lowest
  /\ pc' = IF Lowest = 0 THEN "run" ELSE "map"
  /\ entries' = IF Lowest # 0 /\ Lowest = table THEN 0 ELSE entries
  /\ ptes' = IF Lowest # 0 /\ Lowest \in {table, entries}
             THEN [v \in DOMAIN ptes |-> IF Lowest = table THEN None ELSE 0] ELSE ptes
  /\ UNCHANGED <<page1, table, loadVars>>

(* Mutant: the frame is not given back when it cannot be mapped.           *)
VmmMapLeaks ==
  /\ pc = "map" /\ pc' = "run"
  /\ held' = held \ {page} /\ page' = 0
  /\ UNCHANGED <<free, free_pages, page1, tableVars, loadVars>>

(* vmm_map_page has no entry for a page from ENTRIES on and returns NULL;  *)
(* the frame is given back.  kernel_heap_end only moves further away.      *)
VmmMap ==
  /\ pc = "map" /\ pc' = "run"
  /\ ~Maps(HEAP_PAGE, page)
  /\ pmm_free_page(page) /\ held' = held \ {page}
  /\ page' = 0
  /\ UNCHANGED <<page1, tableVars, loadVars>>

-----------------------------------------------------------------------------
(* elf64_load_and_prepare, called once from load_user_space.  A file with  *)
(* a header that elf64_check refuses leaves everything as it is.           *)
LoadElf(f) ==
  /\ pc = "run" /\ file = <<>>
  /\ \/ pc' = "load" /\ file' = f /\ seg' = 1 /\ off' = 0
     \/ UNCHANGED <<pc, file, seg, off>>
  /\ UNCHANGED <<pmmVars, page1, page, tableVars, image>>

(* Mutant: a whole page is copied, also from the last one.                 *)
copy_size_whole(s, o) == IF o >= s.filesz THEN 0 ELSE PAGE_SIZE

copy_size(s, o) ==
  IF o >= s.filesz THEN 0 ELSE IF o + PAGE_SIZE > s.filesz THEN s.filesz - o ELSE PAGE_SIZE

(* One page of a segment: neither the NULL of pmm_alloc_page nor that of   *)
(* vmm_map_page is looked at.                                              *)
LoadPage ==
  /\ pc = "load" /\ seg <= Len(file) /\ file[seg].load /\ off < file[seg].memsz
  /\ LET s == file[seg]
         v == s.vaddr + off
         n == copy_size(s, off)
     IN  /\ Taken
         /\ \/ /\ Maps(v \div PAGE_SIZE, Lowest)
               /\ ptes' = [ptes EXCEPT ![v \div PAGE_SIZE] = Lowest]
               /\ free' \in Overwritten(Rest, entries, PAGE_SIZE)
            \/ /\ ~Maps(v \div PAGE_SIZE, Lowest)
               /\ free' = Rest
               /\ UNCHANGED ptes
         /\ image' = [a \in DOMAIN image |->
                        IF a \in v .. v + n - 1 THEN s.offset + off + (a - v) ELSE image[a]]
         /\ off' = off + PAGE_SIZE
  /\ UNCHANGED <<pc, page1, page, table, entries, file, seg>>

(* The next program header; the others than PT_LOAD are skipped. *)
NextSegment ==
  /\ pc = "load" /\ seg <= Len(file) /\ ~(file[seg].load /\ off < file[seg].memsz)
  /\ seg' = seg + 1 /\ off' = 0
  /\ UNCHANGED <<pmmVars, pc, page1, page, tableVars, file, image>>

LoadDone ==
  /\ pc = "load" /\ seg > Len(file)
  /\ pc' = "run"
  /\ UNCHANGED <<pmmVars, page1, page, tableVars, loadVars>>

Next ==
  /\ \/ TestAlloc1 \/ TestAlloc2 \/ TestFree \/ MakeTable \/ MakeEntries
     \/ AllocPage \/ VmmAlloc \/ VmmMap
     \/ \E p \in held \cup free : FreePage(p)
     \/ \E f \in Files : LoadElf(f)
     \/ LoadPage \/ NextSegment \/ LoadDone
  /\ UNCHANGED memmap

Spec == Init /\ [][Next]_vars

-----------------------------------------------------------------------------
(* Pages are neither lost nor invented: every page pmm_init freed is       *)
(* either free or held by one caller, also after a failed vmm call.  What  *)
(* is written behind the end of the bitmap disturbs the exposed pages at   *)
(* most, and where there are none pmm_get_free_memory tells the truth.     *)
Accounted ==
  LET X == Exposed(memmap) IN
  /\ (free \cup held) \ X = Managed(memmap) \ X
  /\ free \cap held \subseteq X
  /\ X = {} => free_pages = Cardinality(free)

(* Every page that is or can be handed out, on any memory map, lies wholly *)
(* in memory Limine reported usable, and holds no bit of the bitmap but    *)
(* those behind its last page boundary; only the pages these bits stand    *)
(* for, once they are overwritten, may be others (pmm_init).               *)
OnlyUsable ==
  LET last == LastBits(memmap) IN
  \A p \in (free \cup held) \ Exposed(memmap) :
    /\ \E e \in UsableEntries(memmap) : e.base <= p * PAGE_SIZE /\ (p + 1) * PAGE_SIZE <= End(e)
    /\ BitsIn(memmap, p, PAGE_SIZE) \subseteq last

(* Once elf64_load_and_prepare has returned, every byte of every segment   *)
(* in the file stands at its address, and nothing was copied anywhere      *)
(* else, whatever pmm_alloc_page and vmm_map_page returned.                *)
SegmentsLoaded ==
  pc = "run" /\ file # <<>> =>
    image = [a \in DOMAIN image |->
      LET in == {i \in DOMAIN file :
                  file[i].load /\ a \in file[i].vaddr .. file[i].vaddr + file[i].filesz - 1}
      IN  IF in = {} THEN None
          ELSE LET s == file[CHOOSE i \in in : TRUE] IN s.offset + (a - s.vaddr)]

(* A page the loader mapped has a frame of its own, which stays held, also *)
(* when memory runs out half-way: the entry is never set to NULL, to a     *)
(* free page or to another segment's, and nothing else is written over it; *)
(* all this of pages that are not exposed.                                 *)
MapHeld ==
  LET X == Exposed(memmap)
      Made == pc \notin {"test1", "test2", "test3", "table", "entries"}
  IN  Made /\ table \notin X /\ entries \notin X =>
        \A v \in DOMAIN ptes : ptes[v] # v /\ ptes[v] \notin X =>
          /\ ptes[v] \in held
          /\ \A w \in DOMAIN ptes \ {v} : ptes[w] = ptes[v] => ptes[w] = w
=============================================================================
