# A TLA+ model of aureal-os

This directory holds TLA+ specifications of the kernel in `kernel/`, the TLC
configurations that check them on small instances, and proofs checked by TLAPS.
Line references are to the files of the repository.

## 1. The system

aureal-os is a small x64 kernel started by the Limine boot loader. There is one
CPU and one thread of execution, `kmain`, which interrupts may suspend at any
instruction. `kmain` calls `archOnBeforeInit` (the serial port), `initIDT`,
`initPageTable` and `initMemory` in this order and then halts in a loop.

| component | files | state | operations | used by |
|---|---|---|---|---|
| kernel heap | `common/memory/pmmgr.c`, `pmmgr.h` | list of block headers from `heapStart` | `kmemInit` `kmalloc` `kfree` `krealloc` | boot memory, paging |
| boot memory discovery | `boot_protocol/limine/boot/memory.c` | `entry0`, `pmmgrEntries`, `pmmgrEntryCount`, `STATUS_FLAGS` | `initMemory` | `kmain` |
| interrupt table, entry, dispatch | `arch/x64/idt.c`, `isr_stub.c`, `isr.c`, `common/isr.h` | 256 gates, the stack frames, `interruptHandlers` | `initIDT`, the stubs, `exceptionHandler`, `irqHandler`, `registerInterruptHandler` | CPU, `kmain` |
| paging | `common/memory/paging.c` | four levels of tables, the TLB | `initPageTable` `getPhysicalAddress` `mapPage` | `kmain`; `mapPage` has no caller yet |
| serial driver | `arch/i386/serial.c` | the UART's registers | `initSerial` `serialLogChar` `serialLogz` `serialLogn` | everything that logs |
| memory routines | `lib/memory.c` | the caller's bytes | `memcpy` `memset` `memmove` `memcmp` | `krealloc` |
| boot sequence | `boot_protocol/limine/kernel.c` | `STATUS_FLAGS` | `kmain` `hang` | boot loader |
| build script | `build.sh` | object files, linked image, ISO | compile, link, make the ISO | developer |
| Limine header, linker script, images | `lib/limine.h`, `x64_linker.ld`, `iso_root` | none | none | |

How they meet: `initMemory` reads the boot loader's memory map, opens the heap
with the length of the largest usable region and puts its table on it;
`krealloc` copies with `memcpy`; `mapPage` takes tables from the heap;
`initIDT` enables interrupts before paging and the heap are set up; handlers
log to the serial port the interrupted code may be using.

What is hard in it, and what would make each part correct:

- **Heap**: long sequences of splits and merges on a list of in-band headers.
  Correct: headers tile the heap, allocations never overlap, nothing is lost or
  fragmented for good, a refusal means nothing fits, every call ends.
- **Boot memory**: two loops over the same map that must agree on what they
  skip, a size check that must agree with the allocator. Correct: no read
  outside the map, a table that says what the map says, a truthful status.
- **Interrupts**: CPU, assembly and C agree word by word on a stack frame, for
  every vector, at every depth of nesting. Correct: handlers see the vector and
  error code, the interrupted context is resumed unchanged.
- **Paging**: pointers to tables computed before the tables exist; stale TLB
  entries. Correct: after `mapPage` the page translates as asked, no other page
  changes.
- **Serial**: check-then-write on a device shared with handlers; registers that
  change meaning with the divisor latch. Correct: what the kernel logs leaves
  whole, in order and at the speed asked for.
- **Memory routines**: overlapping ranges, unsigned indices that count down, bytes
  compared as unsigned. Correct: they do what their names say and touch no byte
  outside the destination.
- **Boot**: the order of the set-up steps, with handlers running from `initIDT` on
  and a fault in the middle of `initMemory`. Correct: what it reports is true, a
  fault is reported, the boot ends in `hang`.
- **Build**: what is skipped as up to date after a step failed, was stopped or is
  still being done by a compiler of the build before. Correct: a build that ends
  well leaves an ISO of the sources as they are.

`PROJECT.json` lists each hazard at its line with the properties for it.

## 2. Modules

`AllocSpec` — what a heap promises: an arena of bytes and live allocations
(`held`) whose ranges lie in it and never overlap. Actions `Grant`, `GiveBack`,
`Resize`, `Move`. There are no headers, lists or sizes of blocks in it.

`Kmem` — the free-list allocator of `pmmgr.c`. `blocks` maps the address of
each header on the list to its three fields; `pc`, `curr`, `size`, `req`, `old`
are the running call and its locals. A call starts with an action of `Call`
(`kmemInit`, `kmalloc`, `kfree`, `kreallocInPlace`, `kreallocMove`); every
iteration of the search loop (`SearchNext`, `SearchReturns`, `SearchForMove`,
`SearchFails`) and of the coalescing loop (`CoalesceMerge`, `CoalesceNext`,
`CoalesceEnd`) is a step. `krealloc(NULL, n)` is `kmalloc(n)`, `krealloc(p, 0)`
is `kfree(p)`, `kfree(NULL)` stutters. Arithmetic is modulo `Word`. `live` (what
callers hold) and `heapSize` are history variables. Payload bytes are not
modelled: that payloads overlap nothing is what is checked.

`InitMemory` — `initMemory`, with the heap as `INSTANCE Kmem`. Each iteration of
the two loops is a step, the `kmalloc` in between runs in Kmem's own steps. The
memory map is an arbitrary member of the constant `Maps`. A type field that the
second `switch` does not assign takes any value fresh memory may hold. A store
through a null pointer ends in `at = "fault"`. `j` is `Len(table)`.

`Interrupts` — `initIDT` gate by gate, the stubs, both C handlers and the handler
table. `entries` holds the IDT entries field by field, as `setIDTEntry64` splits an
address into them; what the CPU reads out of an entry (`Target`, `Present`,
`IsInterruptGate`) decides where an interrupt leads (`StubOf`) and whether the flag
is cleared. The stack is a sequence of tagged words. What the CPU does is external:
`Deliver` aligns the stack, pushes the five words (six with an error code) and goes
through the gate; `Leave` ends in `iretq`. Delivery may happen at every step
after `lidt`, also inside stubs and handlers, up to `MaxDepth` deep. A handler
may change the handler table; the C functions overwrite every caller-saved
register. `ctx` is a history variable with the interrupted contexts. The
repository registers no handler yet: `registerInterruptHandler` models a client of
the function `isr.c` offers.

`Paging` — `paging.c`. Memory is a function from frames to pages of entries,
whether a frame is used as a table or not, so that following a wrong pointer and
storing through it mean what they mean on the machine. `CheckRoot`,
`LoadPointers`, `CheckPdp`, `CheckPd`, `SetLeaf`, `flushTLB` are the lines of
`mapPage` in their order; `setPageTableEntry` is three stores (`StoreLow`,
`StoreFrame`, `StoreNoExecute`): a compiler may merge them into one (at `-O2`, which
`build.sh` uses, it does) but need not, and the steps of three stores include those
of one. External: the CPU's walk (`Walk`, with large pages and the
rights of all levels), which may put a translation in the TLB or drop one at any
step (`TlbFill`, `TlbEvict`), and `kmalloc`, which returns any of `Blocks`, NULL
among them. `physToPtr` takes a frame for an address: `reach` says which frames
are mapped there, an access to another ends in `pc = "fault"`. `before` is a
history variable.

`MemoryLib` — `memcpy`, `memset`, `memmove`, `memcmp`; each iteration of a loop is a
step (`CopyUp`, `CopyDown`, `Fill`, `Same`, `Differ`, `LoopEnds`). Memory is a function
from addresses to bytes; the arguments are any ranges in it, disjoint for `memcpy`.
`old` is a history variable: memory when the call began.

`Serial` — the driver, one port access per step, on a 16550 UART that is external:
`outb` gives a write the meaning the divisor latch bit gives it, `UartSends` takes a
character off the FIFO at any time. `calls` is the stack of the driver's calls in
progress, so that a handler may log on top of a logger it has interrupted between
the poll (`PollEmpty`) and the write (`WriteChar`). `line` and `lost` are history
variables, and so is the writer's name that each character in the FIFO carries: it
tells kmain's characters on the line from those of handlers. The UART is a 16550A, with a FIFO of 16 characters that works when it is
turned on; it may be on or off before, hold a character of the boot loader's, and
have its divisor latch open or closed.

`Boot` — `kmain` step by step (`CheckRevision` … `LogCompleted`, `hang`), EXTENDS
`Serial` for the driver and runs `InitMemory` (and `Kmem` in it) as an instance in
its own steps. `initIDT` and `initPageTable` are one step each. `Irq` is a device
interrupt whose registered handler logs with `serialLogz` or `serialLogn`; it does not
nest, as gates are interrupt gates. `PageFault` is the store of `initMemory` through
a null pointer: `exceptionHandler` logs and returns to the instruction, which faults
again. `Irq` may occur between any two steps, in the middle of `initMemory` too.

`Build` — the incremental build. `newer` is the shell's `-nt` test, `object`, `raw` and
`iso` say what an object, the image and the ISO were made from: the sources as they
are now, or older ones; an edit turns "now" into "old", so any number of edits fits
in two values. `job`, `taskPids`, `reported` are the shell's background jobs, those
still to be waited for and those `wait -n` has reported. The compiler, the linker
and the developer are external: a compiler may read a source before or after an
edit, may fail and leave the old object or none, and goes on as an orphan when
`set -e` or an interrupt ends the script. `unfinished` and `suspects` are history
variables that name the exceptions of `ImageCurrent`.

`MCKmem`, `MCInitMemory`, `MCInterrupts`, `MCPaging`, `MCMemoryLib`, `MCBoot`, `MCBuild`
give the constants their values. `Kmem_proofs`, `Kmem_refines`, `InitMemory_proofs`,
`Interrupts_proofs`, `Paging_proofs`, `MemoryLib_proofs`, `Boot_proofs` and
`Build_proofs` hold the theorems. Definitions named `X_Something` next to a definition `X` are
deliberately wrong variants of it, used to see that the properties notice them; no
specification uses them.

## 3. Runs

One unit of the heap instances stands for four bytes: `Hdr = 6` is the 24-byte
header, `Align = 4` the 16-byte alignment, `Word = 64` the size of the address space.

- `heap` (`MCKmem.cfg`) — the safety invariants, at every step of every
  sequence of calls. Heaps of 6 (a header and nothing else), 31 and 36 units: up
  to four blocks, sizes that are and are not multiples of the alignment, splits
  at, above and below the threshold. Requests 0, 3, 5, 10 round to 0, 4, 8, 12.
  Nothing else is bounded: the state space is finite. `IInv` is the invariant of
  the proofs, `TypeOK` and `FullyCoalesced` among its parts. Also `CallsReturn`, and
  that `Kmem` implements `AllocSpec` with `held <- live` and the arena the heap's
  bytes. Fairness: `WF_vars(Step)`, the steps
  of a running call; calls are never forced. Justified because the kernel has one
  thread, no handler calls the allocator and interrupts return to the call.
- `heap_alignment` (violation) — `PayloadAligned`: `pmmgr.c:8` says alignment to 16
  bytes; only the size is rounded, and a 24-byte header makes each payload 8
  modulo 16.
- `boot_memory` (`MCInitMemory.cfg`) — all maps of at most three regions of six
  types and four lengths. Three regions let every order of two kinds around a
  third occur, and the lengths (multiples of a page of 12 units) cover: no
  usable region, table too large, table fits, table fits only unrounded. The
  longest, 60 units, reaches past the top of the address space of 64 from a heap that
  starts at 8, as any region of more than 2 GiB does from `_kernel_end`. The
  types left out, `ACPI_RECLAIMABLE` and `BAD_MEMORY`, are handled like
  `ACPI_NVS`. Checks `FillInBounds`, `LargestUsable`, `TableFaithful`,
  `StatusHonest`, `HeapSound`, and `IInv`, the invariant of the proofs. `HeapSound`
  compares offsets from the start of the heap, which do not wrap when addresses do;
  for a heap that does not wrap it is `Tiled` of `Kmem`. That `initMemory` ends is
  part of `Settles` in run `boot`.
  It stops when it returns, so deadlock is not checked.
- `boot_table_null` (violation) — `TableNotNull`: `memory.c:48` says "Guarantee
  non-null value", but the check before it does not count the rounding.
- `interrupts` (`MCInterrupts.cfg`) — all 256 gates; an NMI, faults with and
  without error codes and two device interrupts nesting three deep, which puts a
  nested interrupt inside a nested interrupt. Half words have three bits and the
  stubs twelve-bit addresses, so that all three parts of an address differ between
  stubs. `GatesReady`, `FrameTellsVector`, `CallAligned`, `ContextRestored`, the
  inductive invariant `IInv` of the proofs (`TypeOK` in it), and that the 8-bit loops
  of `initIDT` end (`WF_vars(initIDT)`: nothing else can run before `lidt`). A page protection violation hangs the kernel, so deadlock is not checked.
- `interrupt_frame` (violation) — `FrameTellsContext`: `isr.h:16` names the
  CPU-pushed words in the reverse of the order in which they lie in memory.
- `paging` (`MCPaging.cfg`) — tables of two entries. Six pages: one mapped, its
  unmapped neighbour in the same table, one below another directory, one in a
  large page, one without a page table, one without a table under the root. One
  frame to map, other than the one the first page has, two values of the flags (not
  present; present, read-only and not executable), any number of calls; all tables
  accessible, or none. `MappedAsAsked`, `OthersKept`,
  `StoresHitTables`, `TLBFresh`, `PhysicalAgrees`, and `IInv`, the invariant of the
  proofs, which also says that what the run starts from satisfies `LoaderContract`. Two entries are enough for an
  index of each level to differ between two pages. Page 0 is assumed not to be
  mapped (`PagingConstants`): absent entries of the boot loader's tables are zero,
  so a call that finds a lower level missing follows frame 0 and faults there, and
  the allocation of the two lower levels (lines 77 and 80) never yields a table
  that is used. A fault ends the run, so deadlock is not checked. `ShiftSize` is the
  width clang gives the shift in line 60; the build needs clang, as no other
  compiler knows the option `-MJ` of `build.sh:248`.
- `paging_tables` (violation) — `FramesArePhysical`: `paging.h:32` says "The actual
  physical address", `allocateEntry` stores the virtual address from `kmalloc`.
- `boot` (`MCBoot.cfg`) — strings of two characters, every state the boot loader may
  leave the UART in, a supported and an unsupported boot loader, and five memory maps
  that lead `initMemory` to success, to an error, to the null pointer and past
  regions it skips. Up to three device interrupts (`MaxIrqs`) at any step, which
  is one in each of three characters or three around one.
  `NoOverrun`, `KmainLogIntact` (what is on the line: at the speed asked for, in order,
  and complete once kmain has halted and the FIFO is empty), `CompletedIsTrue`,
  `FaultReported`, `Settles`, and `IInv`, the invariant of the proofs (`TypeOK` in
  it). Fairness:
  the CPU executes what there is to execute (`kmain`, a fault, the driver) and the
  UART sends what it has; interrupts are not forced. Boot ends in `hang`, so deadlock
  is not checked.
- `memory` (`MCMemoryLib.cfg`) — memory of four bytes of three values: ranges that are
  apart, touch, overlap either way, coincide or are empty; a byte that is negative
  when signed; a fill that must be cut to a byte, and a negative one. `Moved`,
  `Filled`, `Compared`, and `CallsReturn` (`WF_vars(Step)`:
  the loops run on the kernel's one thread).
- `build` (`MCBuild.cfg`) — two source files and two jobs: one may fail or be orphaned
  while the other runs, waits for any job and for each job occur, a file may be
  absent and come back. A job may end between its start, the count of the running jobs
  and the wait. Any number of builds, edits, failures and stops.
  `ImageCurrent`, `LinkComplete`, and `BuildEnds` under fairness of the script and of
  the compilers it has started; the developer is never forced. The proofs
  hold for any number of files and jobs: a third file, with which
  `wait -n` may report a job that ended before, is in them. Not in the model: files
  added or removed during a build, and two builds at once.
- `build_link` (violation) — `FilesUpToDate`: "Skipping linking, files are up to date"
  (`build.sh:342`) is also said when a source was removed, or when an earlier
  build compiled and did not come to link: the old image stays.

What the paging properties do not cover: pages inside large pages, whose memory
`mapPage` takes for a table and overwrites; and rights that upper levels deny
(`MappedAsAsked` says no more rights than asked, not as many).

`TableFaithful` says less than one would wish, because the code does less:
regions of the kernel image are not counted but take a slot, so as many counted
regions are missing at the end. The property says exactly that and no more.

`ImageCurrent` names its exceptions, because the script has them: a file edited
while it was compiled (its object is newer than what it was made from), an edited
header (no object depends on one), and objects that changed since an ISO was last
made of them without a link, an ISO and a clean end following (what exists is then
taken for up to date).

Known behaviour without a run of its own:

- a request within 15 bytes of `SIZE_MAX` is rounded to 0 and granted with an empty
  block (`pmmgr.c:24`);
- with no usable region `kmemInit(…, 0)` stores 0 - 24 as the size of the first block;
  the check comes one line later (`memory.c:42`) and the heap is not used after it;
- `initMemory` opens the heap at `_kernel_end` with the length of a region that lies
  elsewhere (`memory.c:42`): a length of 2 GiB or more takes it past the top of the
  address space. What `initMemory` does on such a heap is checked and proved
  (`HeapSound`); later calls on it are outside `CallerContract`;
- the table `allocateEntry` gets from `kmalloc` is not aligned to a page, not cleared, and
  may be `NULL` (`paging.c:32`);
- `(flags & 0x8) & 1` is always 0, so the caching bits, `pat` and `global` are never set
  (`paging.c:20`–`23`);
- the first write of `initSerial` means the divisor, not the interrupt enable
  register, if the boot loader left the latch open (`serial.c:30`); the run includes it;
- `wait -n` reports a job that ended before too, so more than `maxJobs` compilers may
  run (`build.sh:271`);
- `compile_commands.json` lists only the files of the last build (`build.sh:294`).

## 4. Proofs

`Kmem_proofs` proves, for every word size, alignment, header size, heap base,
set of heap sizes and set of requests with `KmemConstants` and
`CallerContract`:

    Invariance          Spec => []IInv
    TypeCorrect  AlwaysTiled  AlwaysIntact  NeverLost  AlwaysCoalesced
    AlwaysFirstFit  AlwaysCopyInBounds  AlwaysRecovered

`KmemConstants` says the constants are words. `CallerContract` says that the heap
holds one header and ends below the top of the address space, and that requests
do not wrap when they are rounded; section 3 says what happens without it.

The safety invariants are not inductive by themselves. `IInv` adds what holds in
the middle of a call: where the cursor is (`SearchInv`, `CoalesceInv`), that the
block `krealloc` took is nobody's until the copy is done (`CopyInv`), and that
before `kmemInit` there is nothing (`HeapShape`). `FullyCoalesced` is part of it:
the rest of a split must not be followed by a free block. The argument: a split
puts a new header strictly inside the block taken (`SplitShape`), a merge removes
one whose block is adjacent (`MergeShape`), so both keep the tiling (`TakeTiled`,
`MergeTiled`); a pointer's block is used, and steps only touch free ones; the list
is in address order (`ListOrder`), so what the cursor has passed is what lies
below it. There is one lemma per action (`...Keeps`), joined in `NextKeeps`.
`AlwaysRecovered` needs no induction on the list: if all blocks are free none has
a successor, so all end where the heap does, and there is one.

`Kmem_refines` proves, from the same assumptions,

    Refinement          Spec => ImplementsAllocSpec

Blocks tile the heap, so the payloads of two blocks are disjoint
(`PayloadsApart`), and a live allocation is no larger than its block
(`LiveFits`): the pointer a call returns is `Grantable` in the abstract sense. A
step of the search or of a merge is a stutter (the arena and the live allocations
are as they were), the step that returns a pointer is the abstract grant
(`...Refines`, one lemma per kind of step), and `NextRefines` joins them.

`InitMemory_proofs` proves, for every memory map with `InitMemoryConstants` (regions
are not empty; the table, with a header before and after it and rounded up, ends below
the top of the address space),

    Invariance          Spec => []IInv
    TypeCorrect  AlwaysFillInBounds  AlwaysLargestUsable  AlwaysTableFaithful
    AlwaysStatusHonest  AlwaysHeapSound

The two loops meet in a count: `entryCount` is the number of counted regions
(`ScanInv`), the slots filled are as many as the regions seen that are not frame
buffers (`FillInv`), and a counted region is not one of those; past the end of the map
there are hence no slots left (`InBounds`). `SomeCounted` is why an empty table is
never asked for: without a counted region `entry0` is empty and the header alone
is too large for it. `HeapInv` follows `kmalloc` on the heap of one block, and
`TableTaken` does the split. Nothing is assumed of the length of a region: with a
kernel in the top two gigabytes of the address space, any larger region wraps from
`_kernel_end`, and `HeapSound` holds of its heap too. What must not wrap is the table
itself (a header at address 0 would be the end of the list); two gigabytes of
24-byte entries would need a map of some eighty million regions.

`MemoryLib_proofs` proves, for every memory, number of byte values and arguments with
`MemoryLibConstants`,

    Invariance          Spec => []IInv
    AlwaysMoved  AlwaysFilled  AlwaysCompared

`LoopInv` says what a loop has done below its index (above it, for `memmove` from the
end): that part of the range is as it should be, all other memory as it was. A
forward copy does not overwrite what it has still to read, because it only runs when
the destination is not above the source or the ranges are apart; the backward copy
is the mirror image (`CopyUpKeeps`, `CopyDownKeeps`). `memmove` picks the direction by
comparing the two addresses (`CallKeeps`).

`Build_proofs` proves, for every finite set of files and number of jobs
(`BuildConstants`),

    Invariance          Spec => []IInv
    TypeCorrect  AlwaysLinkComplete  AlwaysImageCurrent

`ImageCurrent` speaks of the end of a build, and its reasons lie in several builds
before. `ObjectsNewer` says that `-nt` tells the truth of every object but those of the
suspects; `BuildProgress`, that what a build has passed is newer, being compiled or
failed; `JobsAwaited`, that a job which runs or has failed is still in `taskPids`, so
that the loop over them cannot end without it (`Dequeued`); hence at the link every
object is current. `ImagesFollow` carries that on: as long as nothing is recompiled
the current objects are already in the ISO, and from the link on they are in the image.

`Interrupts_proofs` proves, for any depth of nesting, any set of vectors that occur,
any width of an address and any distinct addresses of the stubs (`InterruptConstants`),

    Invariance          Spec => []IInv
    TypeCorrect  AlwaysGatesReady  AlwaysFrameTellsVector  AlwaysCallAligned
    AlwaysContextRestored

`InterruptConstants` also leaves out the vectors 21 and 29: the CPU raises them only
with features the kernel does not enable, and `isr_stub.c` does not expect the error
code they push. Level 0 is the boot code and level k the k-th of the nested interrupts. The
properties speak of the level on top, at the moment it calls C or leaves; `Frames`
says of every level, wherever it was interrupted, which part of its frame is on the
stack (`CpuPushed`, `StubPushed`, `RegsPushed`, each at an offset from the aligned
`Base`) and that each level begins above all that the ones below it use. A step of
the level on top writes above its base only and keeps the frames below (`TopStep`,
`FrameKept`); a delivery adds a frame at the top (`DeliverKeeps`), `Leave` takes one
off and finds the interrupted level as it was (`LeaveKeeps`). `AlwaysGatesReady` rests on
arithmetic: the three parts into which `setIDTEntry64` splits an address make up that
address again (`Parts`, from the uniqueness of quotient and remainder).

`Paging_proofs` proves, for any size of the tables, any set of pages, frames and
flags, and any tables the boot loader leaves that satisfy `LoaderContract`, from
`PagingConstants`,

    Invariance          Spec /\ LoaderContract => []IInv
    TypeCorrect  AlwaysMappedAsAsked  AlwaysOthersKept  AlwaysStoresHitTables
    AlwaysTLBFresh  AlwaysPhysicalAgrees          (each from LoaderContract)

`LoaderContract` has three parts, about the state the kernel finds. `TablesFormTree`:
no table is on two levels or below two different entries; this counts as
tables what `mapPage` takes for tables in large pages, since it does not look at the
bit that makes a page large. `AbsentLeadsNowhere`: an absent entry of a middle level
names no frame the kernel can access (the boot loader zeroes it, and page 0 is not
mapped). `HeapOutOfReach`: the kernel's heap is at the top of the address
space, so the number of one of its pages, cut to the field, is not one either; without
it `allocateEntry` would hang memory of the heap, never cleared, into the tables.
The argument: a table belongs to one path (`LeafEntryAlone`, `DirectoryAlone`), so a store
to the last entry of a path changes the walk of one page (`LeafStoreKeeps`); an
allocated table is out of reach, so a call that allocates faults before its last
store (`RootStore`, `DirectoryStore`); a call that gets to line 82 has hence stored
nothing yet, and its pointers, computed before the checks, are the tables of
the path (`PointersGood`). Between the stores the CPU may cache
anything of the page at hand, of the other pages only what was true before
(`Fresh(Others)`), and `flushTLB` drops the one. `CallInv`, `StoreInv`
and `FlushInv` say which of this holds at which line. `AlwaysPhysicalAgrees` needs that a
frame number shifted by 12 fits in the word it is shifted in (`PagingConstants`).

`Boot_proofs` proves, for any strings that end with their only NUL, any state of the
UART with at most 16 characters of the boot loader's in it, any memory maps that
`InitMemory` allows, and any number of interrupts (`SerialConstants`, `BootConstants`),

    RunsInitMemory      Spec => Memory!Spec
    Invariance          Spec => []IInv
    TypeCorrect  AlwaysNoOverrun  AlwaysLogIntact  AlwaysCompletedIsTrue

The argument: `initSerial` runs before there are gates, so nothing interrupts it, and
after its seven writes (`PortsWritten`) the divisor is 12, the latch closed and the
FIFO on and empty (`SetUpInv`). From then on the calls in progress are one of kmain's,
one of a handler's, or one of a handler's on top of one of kmain's (`CallsInv`).
Whoever writes a character has seen the FIFO empty; only a handler that comes between
kmain's poll and its write can add one, and no more than one, because it polls too. So
two characters at most are in the FIFO, and one of kmain's is the last (`FifoInv`): no
overrun, and kmain's characters leave one by one. `Written` is kmain's place in the
whole of its text, `Script`, computed from `next` and the index of its loop; `LogInv`
says that what is on the line is `Script` up to there, but for the character still
waiting. `AlwaysCompletedIsTrue` takes its middle part from
`InitMemory_proofs`: every step of the boot is a step of `initMemory` or leaves its
variables alone (`StepIsMemorys`), so `StatusHonest`, proved of `initMemory` by
itself, holds here too.

Only model-checked: everything about liveness (`CallsReturn`, `BootEnds`, `BuildEnds`,
`FaultReported`, `Settles`), which is outside the prover's reach.

## 5. Not modelled, and the plan

What comes next, most important first:

1. An abstract specification of `Paging` (a map from pages to frames) that it implements.
2. `Build` with a file added or removed while a build runs, and two builds at once.

Not modelled:

- `arch/i386/idt.c`: `build.sh` refuses to build for i386 and `arch/x64/shared.txt` does
  not share the file, so it is compiled into no kernel;
- `limine.h` (a vendored header), the linker script, `address.h` (type aliases) and the
  boot images, which have no behaviour; the `memmapRequest` answer is an input;
- of `build.sh`, the search for tools, the checks of the command line and
  `compile_commands.json`, which only editors read;
- the memory `kmemInit` is given: `&_kernel_end` is an address unrelated to the region
  whose length it is given, and whether memory is mapped there is outside the models;
- the words of the log and the formatting of numbers, except their characters' order
  and their number.
