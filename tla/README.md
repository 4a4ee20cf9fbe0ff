# A TLA+ verification of NTux-OS

NTux-OS is a small x86-64 kernel in C, started by Limine. It has a FAT
implementation over an ATA driver, a RAM file system, a page and a heap
allocator, cooperative threads, a timer interrupt, and a shell that `kmain`
polls. Everything runs in ring 0 on one CPU. This directory models the parts
that keep state and can go wrong over several steps, checks them with TLC on
small instances, and proves the central invariants with TLAPS for every
instance. Paths below are relative to `src/kernel/src/` unless they begin with
`src/`.

## 1. The system

### Components

| part | state | operations | modelled in |
|---|---|---|---|
| FAT buffer (`drivers/fs/FAT/fat32.c`) | one 512-byte `buf` per volume, its sector number `sect`, two dirty bits, the FSInfo fields `last_used`, `free_cnt` | `sync_buf`, `update_buf`, `sync_fs`, `clust_clear`, `fat_mount`, `fat_sync`, `fat_umount` | `FatBuffer`, `FatCache`, `SectorStore` |
| FAT allocation (same file) | the allocation table and its mirror, on disk and through the buffer | `get_fat`, `put_fat`, `stretch_chain`, `create_chain`, `remove_chain` and the calls that use them | `FatVolume` |
| FAT directories (same file) | the 32-byte records of a directory, its end mark | `dir_next`, `dir_next_stretch`, `dir_search`, `parse_lfn_name`, `dir_add`, `remove_entries`, `fat_stat`, `fat_unlink`, `fat_dir_create`, `fat_dir_read` | `FatDir` |
| FAT file handles (same file) | `File`: start cluster, cluster, sector, offset, size, a sector's buffer, flags | `fat_file_open`, `_read`, `_write`, `_seek`, `_sync`, `_close` | `FatFile`, `ByteFile` |
| FAT volumes (same file, `src/libc/string.c`) | the list `g_fat_list` | `probe`, `fat_mount`, `fat_umount`, `find_fat_volume` | `FatNames` |
| ATA driver (`drivers/sata/ata.c`) | `g_ata0`, the drive's registers and its state | `ata_init`, `ata_poll`, `ata_identify`, `ata_pio_read`, `ata_pio_write` | `Ata`, `BlockDevice` |
| heaps (`mem/kmalloc.c`, `mem/umalloc.c`) | a free list, `heap_end`, `heap_max` | `kmalloc`, `kfree`, `umalloc`, `ufree`, `expand_heap` | `KernelHeap` |
| pages and ELF loader (`mem/pmm.c`, `mem/vmm.c`, `drivers/elf/elf.c`) | a bitmap that lies in the memory it describes, `free_pages`, one page table, the loaded image | `pmm_init`, `pmm_alloc_page`, `pmm_free_page`, `vmm_init`, `vmm_alloc_page`, `vmm_map_page`, `elf64_load_and_prepare` | `PhysMem` |
| threads (`cpu/thread.c`, `cpu/switch_context.asm`) | `thread_list`, `current_thread_id`, a saved `rsp` per thread | `thread_create`, `thread_yield` = `scheduler`, `switch_context` | `Threads` |
| interrupts and time (`interrupts/`, `operators/power.c`) | IDT, PIC mask and in-service bit, `irq_handlers`, `tick_count`, the CPU's interrupt flag | `init_interrupts`, `irq_stub`, `irq_handler_c`, `timer_handler`, `sleep`, `trigger_blue_screen`, `power_reboot` | `Clock` |
| RAM file system (`fs/ramfs.c`) | a tree of nodes | `ramfs_mkdir`, `_create_file`, `_delete_file`, `_read_file`, `_list_dir` | `RamFs`, `FileMap` |
| console (`main.c`, `drivers/ps2/`, `drivers/framebuffer/cursor.c`) | the keyboard's ring buffer, the command line, the text cursor | `keyboard_poll`, `rb_put`, `rb_get`, `shell_handle_key`, `shell_backspace`, `kprint`, `update_cursor_blink`, `kmain` | `Console`, `KeyQueue` |
| GDT/TSS, mouse, framebuffer, fonts, audio, PCI, VirtIO GPU, rest of libc | | | see section 7 |

### How they interact

* Every FAT function reaches the disk through the one buffer of its volume, and
  the buffer reaches it through `DiskOps`, which `main.c` fills with the ATA
  driver. So the order of the writes on the medium is decided by the buffer.
* A `File` handle has a buffer of its own for data sectors, which bypasses the
  volume's; both end in the same driver, which talks to a drive that works
  beside it.
* `expand_heap` takes pages from `pmm`, and so do `vmm_alloc_page`, the ELF
  loader and `vmm_init`. `thread_create` and the RAM file system take memory
  from `kmalloc`.
* The timer interrupt changes `tick_count` under `sleep`. It is the only
  unmasked IRQ; the keyboard is polled. It never switches threads.
* A CPU exception puts up the blue screen, which calls `sleep` and then
  `power_reboot`, all inside the exception handler.
* `kmain` polls the keyboard after every interrupt, so the timer also drives the
  shell.

### What is hard here

* **Crashes and failing I/O.** The FAT code has no journal. What a power loss
  leaves depends on the order in which the single buffer is written back, and
  every access may fail half-way through a call.
* **Interleaving.** The interrupt may come between `sleep`'s test and its
  `hlt`, and before the tables it needs are set up. The drive answers between
  any two looks at its status, or after the driver has given up. Two handles
  may be open on one file. Keys arrive at any time.
* **Stale state.** A buffer is reused when its number matches; a mount keeps
  flags of an earlier one; an error path returns the flags of another call.
* **Limits.** A full volume, a heap that passes its end, `tick_count` at its
  wrap, a page allocator without pages, a full ring buffer, the last row of the
  screen, a directory whose last slot is used.
* **Partial failure.** `thread_create`, `vmm_alloc_page`, `sync_fs`,
  `update_buf`, `fat_file_seek`, `dir_add` consist of several steps any of
  which can fail.

The list of hazards, each at its line and with the properties that would catch
it, is in `PROJECT.json`.

## 2. Modules

| module | what it is |
|---|---|
| `FatBuffer` | the buffer and the outcomes of `sync_buf`, `update_buf` and `sync_fs`, as operators; no specification of its own |
| `FatCache` | extends `FatBuffer` by the life of a `Fat` structure: mount, accesses, `clust_clear`, sync, umount, power loss |
| `SectorStore` | the abstract specification `FatCache` implements: a store whose durable part is always an earlier state of the whole |
| `FatVolume` | extends `FatBuffer` by the allocation tables and the calls that change them, one step per buffer access |
| `FatDir` | extends `FatBuffer` by the records of a directory and the calls that search and change it, one step per buffer access |
| `FatFile` | `File` handles over chains of clusters; a call is one step with all its outcomes |
| `ByteFile` | what `FatFile` implements: files that are sequences of bytes, and positions in them |
| `FatNames` | `probe`, the list of volumes and `find_fat_volume` |
| `Ata` | the PIO driver and, beside it, the drive |
| `BlockDevice` | what `Ata` implements, and what the FAT modules assume of `DiskOps` |
| `KernelHeap` | `kmalloc`/`kfree`, with `UserHeap = TRUE` `umalloc`/`ufree` |
| `PhysMem` | the page bitmap, `vmm_init`, the vmm calls and the ELF loader |
| `Threads` | threads and the scheduler |
| `Clock` | the timer interrupt and `sleep` |
| `Console` | `kmain`'s loop: keyboard, ring buffer, shell, text cursor |
| `KeyQueue` | what the ring buffer of `Console` implements |
| `RamFs` | the RAM file system |
| `FileMap` | what `RamFs` implements: a map from paths to contents |
| `FatCacheProofs`, `FatVolumeProofs`, `FatFileProofs`, `AtaProofs`, `PhysMemProofs`, `ConsoleProofs` | theorems and proofs about the module each is named after |
| `CpuProofs`, `RamProofs` | theorems and proofs about `Threads` and `Clock`, and about `KernelHeap` and `RamFs` |
| `MC*` | instances for TLC |

The FAT code is one stack in four layers, and each layer is checked against the
promise the layer above relies on: `Ata` implements `BlockDevice`; over such a
device `FatCache` implements `SectorStore`; `FatVolume` and `FatDir` run on the
very operators of the buffer that `FatCache` is about; `FatFile` takes their
calls as steps with outcomes and implements `ByteFile`.

### Correspondence with the code

*FatBuffer / FatCache.* `flags` is split into `bufDirty` and `infoDirty`;
`last_used` and `free_cnt` are one value `info`. `update_buf` has the outcomes
`UpdateBufOk` (loaded), `UpdateBufWrite` (loaded and changed by the caller) and
`UpdateBufFails` (the write-back failed, or it succeeded and the read failed).
`sync_fs` is two steps, because it writes twice. A failed `DiskOps` call leaves
disk and buffer alone. In `FatCache`, the functions above the buffer are
reduced to what they do to it: `Access` (load a sector), `Change` (load and
modify one), `ChangeInfo` (assign the hints). `fat_mount` assigns `sect` and
not `flags`; `RemountDirty` says whether a caller may mount a structure again
whose `fat_umount` has failed. `Taken` is what it makes of an FSInfo sector: the
hints as they stand, or others where the next free cluster is not known or the
signatures are missing.

*FatVolume.* The call stack of a running function is a label `pc` and a
`frame` with its locals. One step is one buffer access, so a failure or a crash
can fall on each; `harm` counts them. The disk has its real layout (FSInfo,
FAT, mirror, root directory). `get_fat` classifies an entry as the code does,
including `BROKEN`; `stretch_chain`'s scan starts behind `last_used` and stops
when it is back there. `ScanFails` is the error path at `fat32.c:426`, which
returns `flags` instead of `err`; a call that goes on with the cluster number it
then finds in an uninitialised variable is called `guess` from there on. The
records of a file are one directory entry here, and the directory has room: that
is `FatDir`'s subject. A slot is the identity of an entry, not a name: which entry
`dir_search` settles on is left open, because with this build's `memcmp` it is not
the one of that name. `fat_mount` takes what FSInfo says (`ReadInfo`): any hint, a
count that may be wrong, and for a sector without signatures cluster 2 and an
unknown count, which is then counted up and down like a known one. `Formats` says
how a volume may come; the ghost `off` is how far its count was off when it was
mounted.

*FatDir.* A record is its kind, the name it belongs to and, for an LFN record,
its sequence number and head mark. Slots are numbered through the clusters of
the chain; `dir_next` reads the FAT at the end of a cluster and nothing
otherwise. `dir_search` and `parse_lfn_name` are a step per record, `dir_add`
one per turn of its search, per record and for the new end mark. The chain's
length is what the FAT sector holds, so `Stretch` writes it and `ClustClear`
follows it, sector by sector: between the two the directory has a cluster of
stale records (`JunkSlot`). The comparison is that of the build: `!memcmp`
picks names that differ (`Matches`). `fat_unlink` may be denied by an entry's
attributes, which are not modelled, and of a directory it reads the records first
(`CheckEmpty`, with every result). The list is that of a caller who uses
`fat_dir_read` and `fat_dir_next` in turn, as their comments say.

*FatFile.* A call is one action; inside it, `Then` and `Repeat` chain the
operators named after the functions, each of which yields a set of outcomes: at
every device access one of them is the failure, with exactly what was done
before it. `w.v` is the volume, `w.h` the handle, `w.err` the error. The write
and read loops, the seek inside them, the back-tracking and the reload of the
buffer are those of the code. A file is the identity of a directory entry: `FatDir`
has which entry a name leads to. The error `fat_file_write` swallows is in `w.err`
and not returned. A file is `spoilt` once a call on it has met an error, or it
was opened twice at a time, and until it is opened again by itself: of such a
file `ByteFile` promises nothing, while `ChainCoversSize` and `OwnChain` still
hold.

*FatNames.* A disk is the kinds of the sectors `probe` looks at: one FAT
volume, or a partition table with up to four FAT32 partitions, formatted or
not. `check_fat`'s tests of the boot sector are its verdict.

*Ata.* The drive (external) is idle, busy or has data to transfer; it takes a
command only when idle and finishes or fails whenever it likes, or never. The
driver's steps are one command, one look at the status, one transfer. `ata_poll`
counts `ATA_TIMEOUT` looks. The bus may also be empty, floating, or hold a
packet device. `confused` marks what the calls cannot know of: a command that
timed out and answers the next call, a write that fails after its data were
taken, addresses beyond 28 bits.

*KernelHeap.* Addresses are offsets from the heap's start. The turns of
`expand_heap`'s loop are steps, everything else of a call is one step.
`align8` is the real arithmetic of both files; `umalloc.c` masks with `-7`.

*PhysMem.* The bitmap is placed as `pmm_init` places it, and `BitsIn` says
which bits lie in a page, so that zeroing a page that holds bits clears them and
writing anything else there changes them in any way (`Overwritten`). That happens:
the bitmap ends inside a page that is handed out. `LastBits` are the pages whose
bits stand there, and `Exposed` the pages whose bits may come to be overwritten.
The memory map is what Limine promises: usable entries are whole pages, do not
overlap and do not begin at 0 (`MemmapAssumption`). That there is room for the
bitmap and a page beside it is assumed (`RoomAssumption`), since `pmm_init` does
not test it.
`held` is a ghost: the pages callers were given. The loader runs page by page:
it takes a frame, sets an entry if there is one for the address, and copies to
the virtual address whatever the two calls returned; `image` is what stands
there, as offsets in the file. `elf64_check` may refuse the file.

*Threads.* A stack pointer is the context whose stack it points to. `cpu` is
the context the CPU executes; `current_thread_id` is what the code believes.

*Clock.* The foreground is `kmain`, with `sleep`'s test and `hlt` as separate
steps; the interrupt is taken between any two of them and runs through stub,
`irq_handler_c`, EOI and `iretq`. `R15` is the set of values the interrupted
code may have in `r15`: `irq_handler_c` takes that register for the IRQ number.
`irqs`, `pulses` and `ran` are ghosts. The PIT's period (10 ms) is far longer
than one step of the foreground; `Pulse` therefore waits for one foreground
step when the CPU is not halted.

*Console.* Keys are kinds of scancodes: modifier, letter, enter, backspace, one
whose character the shell ignores, and those that leave no character. The screen
is the cursor's row and column, the place behind the prompt, and where the
cursor's block is painted. A command is what it prints; `thread_test` and `reboot` leave the loop. One turn of
`kmain`'s loop is the poll (a step per scancode), one character, the blink and
the `hlt`.

*RamFs.* A node is a record at an address; `heap` is the set of addresses
`kmalloc` has given out, and a freed address is handed out again first. A path
is a sequence of components and a flag for its leading slash. Node names are
sequences of components as well, because `ramfs_create_file` splits at the
first slash. `Kept` is what `strncpy` leaves of a name. An operation is one
step: nothing interrupts the file system with a call of its own. `Lookup` and
`find_node_create` are `ramfs_find_node` with `create_missing` 0 and 1; the
latter enters files like directories, as the code does. `FileMap` sees what a call
returned: its map changes only in a create or delete that reports success, at one
path. It does not say that such a call changes the path it was given, since a
successful create of `a/b/c` stores a file that no look-up finds (section 5).

## 3. Runs

### Runs that pass

| run | configuration | shows |
|---|---|---|
| `fat_cache` | five sectors, a cluster of two, two block contents, two FSInfo contents of which a mount takes one for the other; every access may fail, power may be lost at any step | `Coherent`: a clean buffer is a true copy of its sector. `SyncMeansDurable`: a sync that succeeded left nothing in memory. `RefinesStore`: the disk is always an earlier state of the whole volume, and sector 0 is never written. `NothingDropped`: a change leaves the buffer only for the disk |
| `fat_volume` | six clusters, four usable, four FAT entries to a sector, two FATs, two files; six ways the volume may come (usable, unusable and unknown hints, a wrong count, no signatures, full); one failing access or power loss at any step | `OwnedOnce`: between calls every used cluster has one owner and no free one has any. `CrashDamage`: what a crash at any moment would leave. `MirrorLag`: the FATs differ in at most one entry on disk, and one more per failure. `FreeCountExact`: `free_cnt` follows the free entries, as exact as it was mounted. `OnlyFreeTaken`: no used cluster is marked again, whatever failed. `AnswersTrue`: `FAT_ERR_FULL` and `FAT_ERR_NONE` say the truth. `EveryCallReturns`, but for the endless scan of section 5 |
| `fat_dir` | two clusters of two sectors of two slots, four names with one or two LFN records, three initial directories, two failures or crashes | `SearchRight`: what is found is the first match, with its first record, and nothing is missed. `Readable`: without failures no record is orphaned. `EntriesKept`: no call touches another entry, at any step, on disk. `EndKept`: the end mark is never lost and nothing stale shows up before it |
| `fat_file` | two handles, two files, two clusters of two sectors of two bytes, writes of three bytes, offsets up to 7, one failure or power loss | `RefinesFiles`: reads return what was written and other files are left alone. `ChainCoversSize`: no size passes its chain. `OwnChain`: no handle's sector is another file's |
| `ata` | five sectors, 28 bits end at 4, two looks at the status, four kinds of bus | `RefinesBlockDevice`: calls that find the drive idle do what `DiskOps` promises. `EveryCallReturns`, also from a drive that never answers |
| `console` | three rows of four characters, a prompt of three, a line of three, a ring buffer of three, five keys | `RefinesQueue`: the ring buffer is a queue that drops only when full. `PromptSafe`: the line's length never exceeds what stands behind the prompt. `PaintedOnScreen`: the cursor is painted nowhere off the screen. `KeysHandled`: all keys are handled in the end |
| `kernel_heap` | a heap of 80 bytes, pages of 32, requests of 1, 8, 10 and 24 bytes, three physical pages, four blocks | `BlocksSound`: no block is handed out twice or too small, also when recycled and also past the heap's end. `OverflowDrainsMemory`: passing `heap_max` costs all physical pages. `MallocReturns` |
| `threads` | five slots, seven calls of `thread_create`, any allocation may fail | `OneRunning`: the books agree with the CPU. `OwnStackSaved`: a READY thread resumes on its own stack. `FirstTwoRun`: two threads take turns, whoever else was created |
| `clock` | a counter that wraps at 8, sleeps of 1 to 3 ticks, `r15` zero or not, exceptions at any time | `EveryIrqCounted`: the first interrupt already finds its handler, and exactly those that find `r15` = 0 are counted. `SleepLongEnough`: `sleep(n)` lasts at least n - 1 periods. `SleepEnds`, with `r15` = 0 and outside the blue screen |
| `phys_mem` | pages of two bytes, two machines: sixteen pages whose bits fill whole pages, and twenty, where the bits of the last four lie in a page that is handed out; two usable regions; two ELF files, one with a segment that passes the page table's end | exposed pages apart: `Accounted`: no page is lost, invented or miscounted, also by a vmm call that fails. `OnlyUsable`: no page outside usable memory is handed out, and none with other bits of the bitmap in it than its last. `MapHeld`: mapped pages have frames of their own. And of all pages `SegmentsLoaded`: the image is the file's |
| `ram_fs` | five nodes below the root, two children per node, two short components and one that is cut off, paths of up to three components | `TreeSound`: all that can be reached is allocated and in one place, and parent pointers lead back. `SuccessLosesNothing`: memory is lost by failing calls only, and by deleting a file with directories below it. `RefinesMap`: to its users it is a map from `dir/file` to contents |

Why the bounds are enough: two data sectors and two contents tell a stale
buffer from a fresh one, and a cluster of two sectors makes `clust_clear` loop;
with four usable clusters, four entries to a sector and two files a chain
crosses FAT sectors, the scan wraps round and the volume fills up; four slots
to a cluster and entries of two and three records make a run of free slots
cross sectors and clusters and need a new cluster; writes of three bytes from
odd positions cross sectors of two and clusters of four, two clusters shared by
two files run out, and offset 7 is passed; a poll of two looks tells an answer
in time from a late one; three blocks fit the heap and the fourth does not; five
slots and seven creations exhaust the identifiers and leave holes; a wrap at 8
with sleeps of 3 puts the wrap before, inside and after a sleep; the pages are
used up by the calls of the run, and on the second machine the page with the last
bits is written to in every way; five keys fill the ring buffer and wrap it,
and a line and its prompt pass the end of a row on the last row; two children
fill a directory, and five nodes make a file with a directory below it beside
another file. `MaxHarm` bounds the failures where they multiply the states;
`fat_cache` has no such bound. `Garbage` bounds what an uninitialised cluster
number may be.

Deadlock is checked in all runs but three, where the system really may stop:
`clock` (after the reset, and on the blue screen), `console` (once a command
has left the shell, when all keys are spent) and `ata` (no disk was found).

### The run that shows a disagreement

| run | property | what happens |
|---|---|---|
| `fat_names` | `MountedVolumeFound` | `find_fat_volume` tests `!memcmp(...)`, and the `memcmp` of `src/libc/string.c` is true for equal bytes: a mounted volume is not found by its name |

### Fairness

* `FatVolume`: `WF(Step)`. A running call goes on; nothing preempts it.
* `KernelHeap`: `WF(ExpandHeap \/ Carve)`, for the same reason.
* `Ata`: `WF(Driver)`. The CPU goes on; nothing is assumed of the drive.
* `Console`: `WF(Loop)`. The CPU goes on, and the timer, whose interrupts go on
  (`Clock`), ends every `hlt`. Nothing is assumed of the user.
* `Threads`: `WF(scheduler)`. The thread functions call `thread_yield` in
  endless loops. Nothing is assumed about `thread_create`.
* `Clock`: `WF` of the PIT, of taking an offered interrupt and of the handler's
  steps, because hardware does these; `SF` of the foreground, which is disabled
  during each interrupt and enabled again after it.

The other runs check safety only and assume nothing.

## 4. Proofs

Each theorem holds for every value of the constants that satisfies the named
assumptions, which TLC evaluates in the runs.

| theorem | statement |
|---|---|
| `FatCacheProofs!TypeCorrect`, `BufferCoherent`, `SyncIsDurable` | `Spec => []TypeOK`, `[]Coherent`, `[](SyncMeansDurable /\ InfoSaved)` |
| `FatCacheProofs!ChangesAreKept` | `Spec => NothingDropped` |
| `FatCacheProofs!ImplementsStore` | `Spec => RefinesStore` |
| `FatVolumeProofs!CallsAnswerTrue`, `TakesOnlyFree` | `Spec => []AnswersTrue`, `[]OnlyFreeTaken` |
| `FatVolumeProofs!FreeCountIsExact`, `MirrorFollows` | `Spec => []FreeCountExact`, `[]MirrorLag` |
| `FatVolumeProofs!ClustersOwnedOnce`, `CrashDoesLittle` | `Spec => []OwnedOnce`, `[]CrashDamage` |
| `FatFileProofs!FileOwnChain`, `FileSizesCovered` | `Spec => []OwnChain`, `[]ChainCoversSize` |
| `FatFileProofs!FilesImplementBytes` | `Spec => RefinesFiles` |
| `AtaProofs!ImplementsBlockDevice` | `Spec => RefinesBlockDevice` |
| `RamProofs!HeapBlocks`, `HeapDrains` | `HeapSpec => []BlocksSound`, `[]OverflowDrainsMemory` |
| `RamProofs!RamTreeSound`, `RamLosesNothing` | `Spec => []TreeSound`, `Spec => SuccessLosesNothing` |
| `RamProofs!RamImplementsMap` | `CutNamesUnused => (Spec => RefinesMap)` |
| `PhysMemProofs!PagesAccountedFor`, `HandsOutUsableMemory`, `FramesStayHeld` | `Spec => []Accounted`, `[]OnlyUsable`, `[]MapHeld` |
| `PhysMemProofs!WholePagesAreSafe` | if every map ends at a multiple of `8 * PAGE_SIZE` pages, `Spec => [](free \cup held = Managed(memmap) /\ free \cap held = {} /\ free_pages = Cardinality(free))` |
| `PhysMemProofs!LoaderPlacesSegments` | `Spec => []SegmentsLoaded` |
| `CpuProofs!SwitchesAreSound`, `ResumesOwnStack` | `ThreadsSpec => [](ThreadsTypeOK /\ OneRunning /\ OwnStackSaved)`, `[]OwnStackSaved` |
| `CpuProofs!TicksAreExact`, `SleepsLongEnough` | `Spec => []EveryIrqCounted`, `Spec => SleepLongEnough` |
| `ConsoleProofs!RingBufferIsQueue`, `PromptIsSafe` | `Spec => RefinesQueue`, `Spec => []PromptSafe` |

*The buffer.* Assumed: `GeometryAssumption` (FSInfo lies between the boot
sector and the data area, the clusters that are cleared lie on the device),
`ContentsAssumption`, and `~RemountDirty`, without which the theorems are
false (see section 5). `Coherent` is not inductive: a dirty buffer that
claims sector 0, or an FSInfo sector that is dirty while `FAT_INFO_DIRTY` is
down, would break it, or `InfoSaved`, one step later. `BufferInv` excludes both
and says what the buffer holds inside the loops of `sync_fs` and `clust_clear`;
`IInv` is the conjunction of all five. For the refinement, `contents` is the
disk with the unwritten buffer laid over it, `durable` is the disk and `open` is
`mounted`; `StepOfStore` shows that every step is a write of one sector, a
write-back of everything, opening or closing the store, a crash or a stutter.
`ChangesAreKept` needs no invariant and no assumption.

*The volume.* Assumed: `VolumeAssumption` (at least four clusters, a counter
wider than the volume, FSInfo in sector 1). The FSInfo a volume comes with may
have any hint and any count. Nothing bounds the clusters, the
entries of a FAT sector, the files, or, `MaxHarm` being any number, the
failures and power losses. The proofs speak of `View`, the disk with the
unwritten buffer laid over it, and of the disk; a first part shows what one
access does to both when it succeeds, when it fails and when power is lost
after it. Four invariants build on each other:

* `CallInv` says what the buffer holds (`StoreInv`), which locals and which
  `put_fat2` calls a call has left at each label (`FrameInv`), when the hints in
  memory are those on disk (`InfoInv`), and that the scan of `stretch_chain` has
  seen no free cluster so far and still has one before it when it marks it
  (`TakeInv`). `AnswersTrue` needs the scan's progress: `FAT_ERR_FULL` is the
  truth only if the clusters passed between `last_used` and the cursor, round
  the end of the volume, were all in use, and still are; this also for a hint
  that is no cluster (`Scanned`). `OnlyFreeTaken` needs
  that the mirror, which is written first, does not change what the active FAT
  shows.
* `CountInv` gives `free_cnt` at every step, as the number of free entries plus
  `off`, modulo its width: it is decremented when the chain is
  complete, so it is one ahead after the mark and before the link. It also says
  that the cluster linked from and the one being freed are in use; otherwise
  linking or freeing would change the number in another way.
* `LagInv`, for volumes with a mirror, bounds the entries in which the two FATs
  differ in memory by the failures, apart from the one whose write to the
  active FAT is pending, and says that the disk is behind memory in at most one
  entry, because the two tables are written in turn through one buffer.
* `OwnInv`, as long as nothing has failed, says whom each cluster belongs to
  inside a call: the cluster that is marked and not yet linked, or the head of
  what is left of a chain being freed (`Orphans`), and the freed cluster that
  the entry of the file being unlinked still names (`Dangling`). The disk is a version of the
  volume from before, so what a crash leaves (`Damage`) is part of the
  invariant: a write-back carries it over from `View`. `ChainInv` knows that a
  chain is linked on at its end, and that a cluster's successor is read before
  the cluster is freed.

*File handles.* Assumed: `FileAssumption`, which gives the constants their
types, asks for at least one cluster, and says that zero is a byte and that no
file has the name that stands for none. Nothing bounds the clusters, files,
handles, seeks or texts, and `MaxHarm` is any number. `OwnChain` is not
inductive: that chains do not meet after a link was set depends on the clusters
that are in no chain. The invariant `IInv` says of the FAT that no cluster
follows two others, that a first cluster follows none and that no free one is in
a chain (`VolOK`); two chains that meet are then the same (`ChainsMeet`), and by
a count of their clusters the bound in the definition of a chain never cuts one
off (`ChainClosed`). Since no call undoes a link, what was in a chain stays
there, for the other handles too (`Grows`, `GrowsHandle`). Of a handle, the
invariant says that its cluster is at position `offset / CLUST_SIZE` of its
chain or after it (`HandleOK`) and that its sector is in the chain (`Placed`);
that position is why the size `fat_file_write` sets is covered. "Or after it" is
needed: a seek that fails has moved the cluster and not the offset. Each step
of a call, also the one that fails, keeps this (`Still`), and `Repeat` and the
chains, which are recursive functions, are followed by induction over a set of
numbers.

For `RefinesFiles` a second invariant, `Tame`, speaks of the files that are not
spoilt: such a file has at most one handle, that handle is exactly where its
offset says and its buffer is that sector, as written or not (`Exact`), and its
size is the entry's unless the handle is modified. `IInv` alone does not give
this: "or after it" is all that can be said once a seek has failed. What a
caller sees is then a function of the handle and the volume: `Held` is a sector
as the handle shows it, from the buffer or from the disk, `ByteAt` a byte of the
file, `View` its content, and `ContentSeen` shows that this is the content the
refinement mapping gathers along the chain. Different offsets are in different
sectors or at different places of one (`SectInjective`), which is why loading,
saving and moving on leave every byte as it is seen (`SeekArrived`), why
`fat_file_read` returns the bytes at the offset (`ReadBytes`) and why
`fat_file_write` replaces those and no others (`WriteResult`); both loops are
followed by an invariant of the bytes done so far (`HasRead`, `HasWritten`). That
a call leaves other files alone, also when it fails, is `Apart` (the sectors it
writes are in its own chain, and so in no other) and `Elsewhere` (then the other
files' views, handles and entries are the same). Each action is shown to be a
step of `ByteFile`: one that succeeds is the one of its name; one that fails, or
is made on a spoilt file, is `Spoil`; one that is refused, and an open that
fails, is `Refuse`; and after a power loss what has been saved is read from the
entries on disk (`PowerRefines`). A `fat_file_sync` that succeeds is a step in
which nothing a caller can see changes; `ByteFile` cannot tell it from a call
that was refused, so the promise about power loss is one about files that were
closed, and `SyncRefines` shows on the way that the file is saved.

*The driver.* Assumed: `AtaAssumption`. Unless it is confused, the drive is
idle or works on the command of the call in progress at its address (`Asked`),
and once it has the data of a write it is writing them or has written them
(`Given`). Then the drive's own step that stores a sector is the abstract
write, and the driver's return is the abstract answer.

*The heap.* Assumed: `HeapAssumption`, which only gives the constants their
types and makes header and page nonempty. `BlocksDisjoint` needs
`BlocksLargeEnough`'s second part (everything ever handed out lies below
`heap_end`), since a new block is carved at `heap_end`; `AlignGrows` covers both
roundings, so the theorem holds of `umalloc` too, which no run instantiates.

*The RAM file system.* Assumed: `RamFsAssumption`, which gives paths and bounds
their types. `TreeSound` speaks of the nodes that can be reached, which is not
inductive by itself; the invariant `Tree` says it of every node that is
allocated, lost ones included: each child of one is allocated, is not the root,
and names it as its parent. That a node has one place follows, and so does that
`ramfs_delete_file` takes a node out of the directory it was found in.
`FilesDeep` adds that no file lies in the root itself. For `SuccessLosesNothing`,
`Reachable` is shown to be the least set that contains the root and is closed
under children (it is complete after `MaxNodes` steps, for a step that adds
nothing ends the growth and every other takes up a node); then a node that is
linked under a reachable one adds itself to the set and nothing else, and one
that is unlinked takes along what lies below it. For `RefinesMap`, files are
described by `FileAt`, which has no look-up in it, and `ContentsFacts` shows
that a look-up finds the same as long as names in use are unique among siblings
(`UniqueNames`). That is invariant only under `CutNamesUnused`: no caller uses
the name that is left of a longer one (section 5). The look-ups and the walk of
`ramfs_find_node` that makes directories are recursive functions; that there is
a function satisfying each equation, and what it gives after any number of
components, is shown by induction over a set of numbers (`UpTo`).

*Pages and the loader.* Assumed: `MemmapAssumption`, `RoomAssumption`,
`FilesAssumption`; no memory map beyond these is excluded. `PageFacts`, on the
map alone, shows that a page `pmm_init` frees lies in usable memory, `BitsBelow`
that it holds no bits but the last, and `WritesExposed` that what is written to
an exposed page changes the bits of exposed pages only: so the damage does not
spread. `PagesInv` adds to `Accounted` that the locals of `vmm_init` and
of a vmm call name pages that are held; `TableInv`, to `MapHeld`, that the frame
a call is about to enter is entered nowhere, exposed pages apart. `NoneExposed`
is the arithmetic behind `WholePagesAreSafe`. `ImageInv` says which bytes the
loader has copied so far; it needs nothing of the frames.

*Threads.* Assumed: `ThreadsAssumption`. `OneRunning` and `OwnStackSaved` are
inductive only together: the switch saves the CPU's stack pointer under the
identifier the code believes in.

*Time.* Assumed: `ClockAssumption`, in particular that a sleep leaves some
ticks of the counter's range, as every caller's does. `Ordered`
is the order in which `init_interrupts` works. `SleepLongEnough` follows from
`Balance`: the ticks counted since `sleep` began, the one the stub is about to
count and the one waiting in the PIC are pulses of their own, but for one that
may have waited when `sleep` began; that is the period the property gives away.

*The console.* Assumed: `ConsoleAssumption`. That the ring buffer refines a
queue needs only that `head` and `tail` stay inside the array; the arithmetic
modulo its size is in `Counted` and the lemmas behind it. `LineInv` says that
the cursor's column is one of the row's, and that at least `input_len` places
lie between the prompt and the cursor. It needs what `kprint` does to a screen
after any number of characters: the fold that prints them is unwound by taking
the shortest text for which the claim would fail.

Only model-checked:

* the liveness properties, because the prover has no fairness and no `ENABLED`;
* `FatDir` (`SearchRight`, `Readable`, `EntriesKept`, `EndKept`), whose searches
  run over records of any number and whose properties say what these loops
  compute, which name a run of records spells;
* `PaintedOnScreen` of `Console`: it depends on what the commands print and is
  false for arbitrary output, so there is nothing to prove for every `Outputs`.

## 5. Observations

What came out of modelling and is not the subject of a run.

File system:

* With `RemountDirty = TRUE`, `RefinesStore` is false: `fat_umount` fails, the
  structure is mounted again, and the buffer that was left dirty is written over
  sector 0, since `fat_mount` resets `sect` and not `flags` (`fat32.c:1125`).
* `fat_unlink` frees the chain on disk before it removes the entry
  (`fat32.c:1237`). A crash between the two leaves an entry that names a free
  cluster, and from then on `fat_unlink` of that file returns `FAT_ERR_BROKEN`.
  `CrashDamage` allows exactly this and no more.
* `stretch_chain` compares cluster numbers with `clust_cnt` and so never uses
  the last two clusters of a volume; `last_used` itself is never tested, so a
  volume with that one cluster free is reported full (`AnswersTrue` says so).
* `fat_mount` takes `next_free` from FSInfo unchecked (`fat32.c:1107`), and any
  cluster is a valid hint, the last two too, which the scan never comes to. If no
  cluster is free then, the scan at `fat32.c:416` never ends. `EveryCallReturns`
  excludes exactly this (`Endless`).
* An unknown free count (0xffffffff, `fat32.c:1113`) is counted up and down like
  any other and written to FSInfo as if it were known. `FreeCountExact` says
  that it stays off by the same amount.
* If `get_fat` fails in the first turn of `create_chain`'s scan, uninitialised
  flags are returned (`fat32.c:426`); where they are zero, `dir_add` stores a
  cluster number nobody assigned. `AnswersTrue` leaves out such a call.
* Two handles of one file overwrite each other's sectors and size
  (`fat32.c:1488`); `RefinesFiles` promises nothing of such a file.
* `fat_file_write` declares a second `err` in its loop (`fat32.c:1382`): on a full
  volume, past 4 GiB or after an I/O error the caller gets `FAT_ERR_NONE`.
* When `fat_file_seek` fails after it has gone back to the start of the chain,
  the handle's sector is not the one its buffer came from, and the next sync
  writes that buffer to the wrong sector of the same file.
* With the `memcmp` of this build, `dir_search` finds the first entry whose name
  differs: `fat_unlink` removes another file of the same length, `fat_file_open`
  opens it, and creating an existing name adds it a second time.
* A directory that is full and has no end mark shows stale records after a crash
  between `stretch_chain` and `clust_clear`. `EndKept` is about directories that
  have an end mark, as all those written by this code do.
* A crash or failure inside `dir_add` or `remove_entries` may leave LFN records
  without their SFN record; every later search that reaches them returns
  `FAT_ERR_BROKEN`. `Readable` therefore speaks of runs without failures.
* `dir_next` (`fat32.c:511`) is right only if `data_sect` is a multiple of the
  cluster's size, which no code tests (`DirAssumption`).
* `fat_stat` of a volume's root leaves `loc` unassigned. `fat_ls` reads the first
  entry only and prints it once for every slot.
* The result of `ramfs_mkdir` is tested the wrong way round by the shell
  (`main.c:437`). `init_ramfs_test` creates `/etc/hosts` and reads it back
  (`main.c:134`, `:141`), but `ramfs_create_file` refuses every path that begins
  with a slash. It splits a path at its first slash, so that `a/b/c` is stored in
  `a` as a file named `b/c`, which no look-up finds: the call reports success.
* A name of 32 characters or more is cut off when it is stored and compared in
  full when it is looked up, so that `ramfs_mkdir` makes another directory of
  the same name each time. If the name that is left is used as well, as TLC
  shows once such a component is added to the paths of `ram_fs`, a directory has
  two files of one name: deleting it uncovers the other, and `RefinesMap` is
  false. `CutNamesUnused` says that this does not happen.

Driver:

* CACHE FLUSH is sent right after the data, while the drive is busy writing them;
  a drive drops a command then. The poll that follows waits for the write.
* A command that timed out is not reset; the drive's late answer is taken for
  that of the next call. A drive that fails after it has the data is not noticed,
  because the result of the last poll is dropped.
* From 2^28 sectors on, SECCOUNT1 and LBA3-5 are written to ports that are not
  the drive's, so the upper half of the address is what the registers held.

Memory and loader:

* `kmalloc` never returns NULL for a nonzero size: when `pmm` is empty it
  returns a block past `heap_max`, although its callers test for NULL.
* `vmm_init` announces that the two pages of its test are freed and frees one.
* The bitmap of `pmm` is `total_pages / 8 + 1` bytes and the first page freed
  begins with its last bytes. Where these hold bits, because memory does not end
  at a multiple of 128 MiB, whoever is given that page overwrites them, and the
  pages they stand for may be handed out twice, or though they are reserved
  (`Exposed`; no others, unless one of those holds bits itself). If the bitmap lies
  in the lowest usable entry, that page becomes `vmm_init`'s page table.
* `vmm_map_page` has no entry for any address of the heap or of user space, so
  `vmm_alloc_page` always fails; the frames the ELF loader takes hold nothing,
  since its copies go where Limine's page tables send them, and it does not
  zero what lies beyond a segment's file size. A segment that does not begin on
  a page would be mapped apart from where it is copied.

Threads, interrupts, console:

* `switch_context` saves `rsp` only; the callee-saved registers of a thread are
  another's when it resumes. The two thread functions keep nothing in them.
* The comment at `cpu/thread.c:55` says "Simple round-robin scheduler", but the
  search starts at index 0 on every call: of three yielding threads the first
  two alternate and the third never runs. `FirstTwoRun` is what holds.
* The boot context, in which `kmain` runs, has no slot: the first
  `thread_yield` leaves it and nothing returns to it.
* `irq_handler_c` reads the last word the stub pushed, `r15`, as the IRQ number
  (`interrupts/irq.c:16`); with anything in `r15` the tick is lost, and a sleep
  whose caller keeps a value there never ends.
* All gates are interrupt gates, so the blue screen sleeps with interrupts off:
  "the system will reboot in 5 seconds" (`kprint.c:172`) does not happen.
* Backspace takes two characters from the line and one from the screen, and
  passes `draw_char_lim` its arguments in the wrong order (`main.c:380`).
* `keyboard_irq_handler` is never registered: a key waits for the next tick.

## 6. Plan

1. **Proofs**: `FatDir`, first that `remove_entries` and `dir_add` keep the end
   mark (`EndKept`), which speaks of records and not of the names they spell.
2. **Subdirectories**: `follow_path` over several directories in `FatDir`, with a
   second directory as the target.

## 7. Not modelled

* *GDT and TSS*: constant tables written once.
* *Framebuffer, fonts, audio, PCI, VirtIO GPU, `info.c`, `random.c`*: output to
  ports or pixels, with no state other parts depend on. The text cursor is in
  `Console`.
* *Mouse*: `mouse_init` sends two commands; `mouse_poll`, which keeps the state,
  has no caller.
* *Walks through subdirectories*: `follow_path` repeats `dir_search` for every
  component, and `FatDir` has the search of one directory.
* *Time stamps, short names, checksums*: conversions; a name stands for all of
  its forms, which are taken to be distinct for distinct names.
* *vmm_free_page, vmm_unmap_page, vmm_alloc_user_pages, vmm_alloc_stack,
  vmm_free_pages_region, ramfs_read_file_to_memory*: no caller.
* *The entries of the page table beyond the loader's*: `vmm_load_page_table` is
  empty, so the CPU never sees the table.
* *libc*: `memcmp` is in `FatNames` and `FatDir`; the other functions are
  conversions.
