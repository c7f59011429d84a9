# TLA+ models of the OS/161 demand-paging VM

These modules model the on-demand paging kernel under `src/kern`
(`OPT_PT` and `OPT_ONDEMAND` on). That kernel has a coremap of physical
frames, per-process page tables, a swap file, a software-refilled TLB and
statistics counters. `vm_fault` sequences all of them. The models are checked
with TLC.

## 1. The system

| Part | Source | State | Operations that change state |
|---|---|---|---|
| Coremap | `vm/coremap.c`, `include/coremap.h` | One `cm_entry` per frame: `as`, `virt_addr`, `state` ∈ {FREE, FIXED, LOADING, CLEAN}, `npages`, `timestamp`. Also the global unsigned `timestamp`. All guarded by `cm_lock`. | `cm_bootstrap`, `frame_kalloc`, `frame_alloc`, `frame_kfree`, `cm_asfree`, `cm_evict`, `cm_update_vaddr`, `cm_update_state` |
| Page table | `vm/pt.c` | A list of `pt_entry` per address space: `page`, `frame`, `in_mem`, `in_swap`. Private to the process. | `pt_create`, `pt_update`, `pt_free`; `vm_fault` also writes the entries directly |
| Segments | `vm/segment.c` | `first_addr`, `npages`, `size`, `offset` (< 0 for the stack), permissions | `sgm_create`, `sgm_free` |
| Swap store | `vm/swap.c` | `swapspace[i] = (as, vaddr)` guarded by `sw_lock`, plus the swap file on `emu0` | `swapspace_bootstrap`, `swap_out`, `swap_in`, `swap_asfree` |
| TLB | `vm/tlb.c`, `as_activate` in `vm/addrspace.c` | NUM_TLB entries (EntryHi, frame, VALID, DIRTY) and the static round-robin `next_victim` | `tlbW`, `tlbR`, `as_activate` (flush) |
| Statistics | `vm/vm_stats.c` | 10 counters guarded by `stats_lock` | `vmstats_inc`. `vmstats_print` checks three identities. |
| Fault handler | `vm/vm.c` | Locals of the fault: faultaddress, paddr, victim, slot | `vm_fault`, `handle_victim_and_swapout`, `alloc_kpages`, `free_kpages` |
| Kernel pages | `vm/vm.c`, `vm/coremap.c` | `bootstrapped`, `firstpaddr`, and `ram_stealmem`'s pointer before bootstrap | `alloc_kpages` (`getppages` before `cm_bootstrap`, `frame_kalloc` after), `free_kpages` (a leak before, `frame_kfree` after), `cm_bootstrap` |
| File syscalls | `syscall/std_io.c`, `syscall/exit.c` | `proc->openedFiles` (fd → system-wide entry or NULL); each entry's vnode; vnode open counts | `sys_open`, `sys_close`, `sys_write`, `sys_read`, `sys__exit` |
| Address spaces | `vm/addrspace.c`, `syscall/exit.c` | `segments` and `pt` lists (both grown at the head), `elf_file`; the `struct addrspace` pointer is reused by `kmalloc` | `as_create`, `as_define_region`, `as_complete_load`, `as_define_stack`, `as_destroy` (from `sys__exit`), `as_activate` |

How the parts interact:

- A user TLB miss enters `vm_fault`. It finds the page's segment and
  `pt_entry`, then takes one of three branches:
  - **Reload**: the page is resident. `tlbW` is called with write permission
    whenever the frame is still LOADING.
  - **Swap-in**: `frame_alloc`, or on failure `handle_victim_and_swapout`,
    then `swap_in`, `cm_update_state(CLEAN)` and `tlbW`.
  - **Never loaded**: `frame_alloc` or eviction, then `bzero`. A stack page
    goes straight to `tlbW`. A file-backed page goes through
    `load_page_from_elf`, `cm_update_state(CLEAN)` and `tlbW`.
- `handle_victim_and_swapout` does these steps in order:
  1. Counts SWAP_FILE_WRITE.
  2. `cm_evict` takes the CLEAN frame of the faulting address space with the
     least timestamp, or panics.
  3. `swap_out` reserves the first free slot under `sw_lock`, then
     `VOP_WRITE`s the page from its user address.
  4. `pt_update` marks the victim page swapped.
  5. `cm_update_vaddr` gives the frame to the faulting page.
  6. `tlbR` retargets the victim's TLB slot, if it has one, to the faulting
     page, writable.
- `VOP_READ` and `VOP_WRITE` on user addresses (in `swap_in`, `swap_out`,
  `load_page_from_elf`), `bzero`, and the `copyin`/`copyout` of syscalls
  touch user pages. When such a page is not in the TLB, this causes a
  **nested** `vm_fault`. It always takes the reload branch, because the page
  is resident by then.
- Locks: `cm_lock`, `sw_lock` and `stats_lock` are spinlocks taken one at a
  time. No device I/O happens while one is held. The emufs device serialises
  each VOP. A thread can be preempted, and the CPU switched to another
  process, at any point outside a spinlock or `splhigh` section.
  `as_activate` runs on every switch and invalidates the whole TLB.
- Kernel threads call `alloc_kpages`/`free_kpages`, which become
  `frame_kalloc`/`frame_kfree` on the same coremap. Before `cm_bootstrap`
  they steal pages with `ram_stealmem` and leak them on free.
  `cm_bootstrap` itself `kmalloc`s the table by stealing, then marks
  frames `0..space/PAGE_SIZE` FIXED.
- `as_define_region` prepends a segment and prepends a chain of `pt_entry`s
  in ascending page order. `as_define_stack` does the same with a chain
  that descends from the top of the stack. `vm_fault` scans the segment list
  from the head, then walks at most `npages` entries from the segment's
  `first_pt_entry`, counting the page index it hands to `compute_memsz` and
  `compute_offset`. `pt_update` instead scans the whole page table from its
  head.
- The file syscalls go through the process's `openedFiles` array to a
  system-wide entry holding the vnode and the offset. `sys_close` and every
  non-console `sys_read`/`sys_write` use `openedFiles[fd]` without checking
  it. `sys__exit` destroys the address space and leaves the files open.

Properties that make the system correct:

- Every page lives in exactly the places its `pt_entry` says. A resident page
  is in one frame of its owner. A swapped page is in one slot.
- Pages keep their contents across swap-out and swap-in.
- The TLB of the running process maps only its resident pages, to their
  frames.
- Read-only pages are not writable through the TLB once loaded.
- Kernel allocations are never taken by users.
- A destroyed address space leaves no frames or slots behind.
- The counters satisfy `vmstats_print`'s identities.
- LOADING is transient: only a fault in progress holds a frame LOADING.
- Frames change state only along spec §3's graph, and pass to a new page
  only from FREE or after `cm_evict` cut them loose.
- The kernel panics "Cannot find victim!" only if the process owns no CLEAN
  frame.
- Each page gets exactly the bytes of its segment that fall in it, from their
  own file positions (`compute_memsz`, `compute_offset`).
- To a process, paging is invisible: a page holds its own contents from
  first touch until exit (`AbsPaging`).
- Kernel blocks from before and after bootstrap, and the coremap table,
  never overlap. The coremap's FIXED frames are exactly the table and the
  live blocks.
- `vm_fault` resolves each address to the entry of its own page, with the
  right page index, or to EFAULT. `pt_update` marks that same entry.
- A system call given a bad fd returns an error instead of faulting the
  kernel.
- `as_define_region` never links a chain it has not built.

## 2. Modules

| Module | Models | State | Actions / operators |
|---|---|---|---|
| `Coremap` | `coremap.c` | `coremap`, `timestamp` | The states of `CmInit` (`cm_bootstrap`) and `CmInit4Test` (`cm_bootstrap_4test`, chosen by `SWAP_TEST` in `vm_bootstrap`); the operators `FrameKalloc`, `FrameAlloc`, `FrameKfree`, `CmAsfree`, `CmEvict`, `CmUpdateVaddr`, `CmUpdateState`; the scans `KallocBase`, `FrameAllocPos`, `EvictPos`. Timestamps are `unsigned` of width `TsBits`, with -1 as 2^TsBits−1. |
| `Swap` | `swap.c` | `swapspace`, `swapfile` | `SwapOutReserve` / `SwapOutWrite` and `SwapInRelease` / `SwapInData`, split at the `sw_lock` release. `SwapAsfree`. |
| `Tlb` | `tlb.c`, `as_activate` | TLB value `[e, next]` | `TlbW`, `TlbR` and `TlbFlushed` are functions from a TLB to a new TLB plus the counter incremented, so one step can apply several in order. |
| `VmStats` | `vm_stats.c` | counter function | `Inc` and the three `vmstats_print` identities |
| `VM` | `vm.c`, `pt.c`, `addrspace.c`, `exit.c` | The above plus `mem` (frame contents), `pt`, `pc`/`fl` (where each process is in `vm_fault`, and its locals), `cur`, `panicked`, `kheld` (live kernel allocations) and bound counters | One action per step of `vm_fault`: `FaultReload`, `FaultAlloc`, `FaultNoFrame`, `Evict`/`EvictPanic`, `SwapOut`/`SwapOutFull`, `SwapOutDone`, `SwapIn`, `SwapInDone`, `LoadZero`, `LoadElf`. Also `Start`, `Exit`, `Switch`, `KAlloc`, `KFree`. |
| `AbsPaging` | what paging promises a process | `view[p][v]` | `Load(p, v)` from nothing to the page's own contents; `Reset(p)` on exit. `VM` maps `PageView` onto `view` and checks `AP!Spec`. |
| `SegmentLoad` | `as_define_region`, `sgm_create`, `compute_memsz`, `compute_offset`, the first-page address in `vm_fault` | `ph`, the program header being loaded | Pure operators over `PAGE_SIZE`, and a reference (`RefLo`, `RefHi`): the bytes of `[vaddr, vaddr + size)` in page i. |
| `MC_SegmentLoad` | TLC instance | | Every header of 1 to 24 bytes at any displacement in 8-byte pages, from either of two file pages |
| `KernelPages` | `alloc_kpages`, `free_kpages`, `getppages`, `is_bootstrapped`, `cm_bootstrap`, `frame_kfree`'s index | `coremap`/`timestamp` (through `Coremap`, NULL before bootstrap), `bootstrapped`, `brk` (the steal pointer), `firstpaddr`, `kheld`, `wild` | `CmBootstrap`, `AllocKpages(n)`, `FreeKpages(k)`. Addresses are physical page numbers; coremap frame i is page `firstpaddr + i`. A `frame_kfree` whose unsigned index falls outside the table is undefined behaviour: it sets `wild` and the model stops. |
| `AddrSpace` | `as_create`, `as_define_region`, `as_complete_load`, `as_define_stack`, `as_destroy`, `vm_fault`'s lookup (`vm.c:234`, `314-332`, `406-414`), `pt_update`'s scan | `segs` and `pt` as sequences, head first, `elf`, `phase`, `wild`, `panicked` | One action per function. A segment's `first_pt_entry` is kept as `base`, the table's length just after its chain was linked in, because both lists only grow at the head. The region record comes from `SegmentLoad!AsDefineRegion`. `VmFaultLookup`, `SegSearch`, `Walk` and `PtUpdateEntries` are operators over the state. An empty region at a page boundary (npages = 0) uses uninitialised pointers: `wild`. `as_destroy` before `as_complete_load` calls `vfs_close(NULL)`, whose KASSERT panics: `panicked`. |
| `FileSyscalls` | `sys_open`, `sys_close`, `sys_write`, `sys_read` (`std_io.c`, both `OPT_SUPPORTFS` branches), `sys__exit` | `openedFiles`, `oft` (system entry → vnode), `vnopen`, `alive`, `wild` | One action per call, with the fd as input. The missing helpers `addOpenedFile`, `addOFPerProcess` and `getOffsetOF` have the effect `std_io.c` relies on: a free entry, then a free fd from 3 up or −1. Offsets and file contents are left out, because no property reads them. A NULL or out-of-range fd entry dereferenced sets `wild`. |
| `MC_KernelPages`, `MC_AddrSpace`, `MC_FileSyscalls` | TLC instances | | Six coremap frames; five program headers (unaligned, adjacent, page-sharing, empty, and next to the stack) |
| `MC_VM` | TLC instance | | Pages `code` (read-only, ELF), `data` (writable, ELF) and `stack` (writable, zero-filled), plus symmetry of the processes |

How steps are cut:

- A fault is split wherever another thread can run: after each lock section
  and around each blocking transfer.
  - `SwapOut` is the `sw_lock` part of `swap_out`.
  - `SwapOutDone` is the `VOP_WRITE` plus the rest of
    `handle_victim_and_swapout`.
  - `SwapIn` is the `pte` update plus the `sw_lock` part of `swap_in`.
  - `SwapInDone` is the `VOP_READ` through `tlbW`.
- The code between two cut points touches only the process's own page table,
  its own LOADING frame, and the TLB under `splhigh`, so it is one step.
- Each action includes everything its code does in that stretch, counters
  included.
- Nested faults are the operator `Touch`. It is applied where the code
  touches the user page (`bzero`, `VOP_READ`, `VOP_WRITE`). It is a reload
  and counts TLB_FAULT, TLB_RELOAD and the tlbW counter.
- Page contents are abstracted to a tag `<<process, page>>` naming the page
  the bytes belong to.
- `FaultStep(p)` is `FaultEntry(p)` (a TLB miss enters `vm_fault`) or
  `FaultResume(p)` (the next step of a fault in progress).
- The refinement mapping `PageView(p, v)` reads a page from where its
  `pt_entry` says it lives: its frame, or its swap slot. Between `swap_in`'s
  release of the slot and the `VOP_READ` (`pc = "swapinr"`), it reads the
  slot the fault holds in `fl`.
- A panic stops the system (`Halted`). `Finished` is the state where every
  process has exited for the last time. Both stutter, so deadlock checking
  stays on everywhere else.

## 3. Runs

The `VM_*` runs use `MC_VM` and `SPECIFICATION Spec`. The other runs use the `MC_` module of their module.

| Run | cfg | Expect | Checks | Shows |
|---|---|---|---|---|
| safety | `VM_safety.cfg` | pass | TypeOK, PageHome, NoDanglingOwner, SwapInNeverMisses, TlbCoherent, WriteProtect, EvictPanicOnlyWhenNothingEvictable, FramesChangeHandsSafely, StatsFaultsResolved, KernelFramesIntact | Two processes, 3 frames, 2 slots, 2 TLB entries, up to 5 user faults and one kernel allocation (about 600k states, under a minute). Every action fires, including both panics. Page homes, owner cleanup, swap lookups, TLB coherence and write protection hold in every interleaving, and so do `vmstats_print`'s reload/disk/zero and ELF/swap identities whenever no fault is in progress. The kernel thread's frame stays FIXED with its run length. |
| data1 | `VM_data1.cfg` | pass | PagesKeepTheirData, AbsPagingSpec | One process over 3 frames that exits and restarts, with 7 faults and a kernel allocation (about 29k states). Without a second process, the swap round trip preserves data, and `VM` implements `AbsPaging`. |
| swaprace | `VM_swaprace.cfg` | violation | PagesKeepTheirData | The `swap_in` slot race: p2 releases slot 0, p1 evicts a page into slot 0, and p2 reads p1's page as its own. |
| loading | `VM_loading.cfg` | violation | LoadingOnlyWhileFaulting | After a stack fault returns, its frame is still LOADING (about 30 states). |
| statsplit | `VM_statsplit.cfg` | violation | StatsTlbWritesMatch | An eviction whose victim is in the TLB: `tlbR` and the final `tlbW` hit both count TLB_FAULT_FREE. |
| segload | `SegmentLoad_ref.cfg` | pass | PagesCoverSegment, FileOffsetsMatchReference | All 384 headers: the page count is exact, and every page's load address and file offset are those of its first segment byte. |
| segsizes | `SegmentLoad_sizes.cfg` | violation | LoadSizesMatchReference | A 7-byte segment at displacement 2 of an 8-byte page loads 7 bytes into page 1 and 7 into page 2. |
| kpages | `KernelPages_safety.cfg` | pass | KTypeOK, KernelBlocksDisjoint, CoremapAccountsKernelPages | Up to 3 pages stolen before `cm_bootstrap`, then up to 4 allocations of 1 or 2 pages in total, with frees before and after (719 states). The 18-byte table spans 3 pages while `space/PAGE_SIZE` is 2, so the `<=` matters. |
| kwild | `KernelPages_wild.cfg` | violation | KfreeWithinCoremap | One page stolen before bootstrap, then `cm_bootstrap`, then `free_kpages` of that page: `frame_kfree`'s index is negative, which wraps as unsigned. |
| fdcheck | `FileSyscalls_fd.cfg` | violation | FdChecked | `sys_close(3)` before any open dereferences the NULL `openedFiles[3]`. |
| aslookup | `AddrSpace_lookup.cfg` | pass | ASTypeOK, FaultLookupCorrect, PtUpdateMatchesLookup | Every order of up to three regions from five headers, then the stack and `as_destroy`, with the lookup checked at every address up to the stack top (362 states). |
| emptyregion | `AddrSpace_empty.cfg` | violation | ChainsInitialised | The empty header at 12: `as_define_region` computes npages = 0 and links the uninitialised `page_head` and `page_tail`. |

Why these bounds suffice:

- Every branch of `vm_fault` needs at most one eviction and one nested fault.
- Two processes are enough for every cross-process interleaving:
  - swap slots shared between processes;
  - a frame taken by a kernel allocation while a process is out of frames;
  - an exit while another process is mid-fault;
  - a context switch between any two steps.
- Three user frames with three pages per process make memory full quickly,
  so evictions, swap-ins of evicted pages and re-evictions all happen within
  five faults.
- Two slots make the swap-full panic reachable.
- Two TLB entries make round-robin replacement reachable, along with hits of
  the faulting page and the victim.
- `SegmentLoad`'s arithmetic uses only `x % PAGE_SIZE` and multiples of
  `PAGE_SIZE`, so 8-byte pages with every displacement, and sizes up to three
  pages, cover all of its cases: sizes below, equal to and above a page,
  crossing or not crossing a boundary, and one, two, three or four pages.
- `KernelPages`: 3-byte entries in 8-byte pages make the table's size not a
  page multiple, which is the case where `i <= space/PAGE_SIZE` and the
  pages `kmalloc` takes agree only by the `<=`. Three stolen pages let a
  block from before bootstrap be live or leaked when the coremap starts.
  Block sizes 1 and 2 make runs and the gaps between them possible among
  the three free frames.
- `AddrSpace`: 4-byte pages. The headers make two segments adjacent
  (`end` of one is `first_addr` of the next), two share a page, one starts
  unaligned, one is empty at a page boundary, and one ends where the stack
  begins. Three regions in every order cover both list orders for each
  pair. Checking every byte address up to one page past `USERSTACK` covers
  the boundaries.
- `FileSyscalls`: a five-entry table gives two fds beyond the console ones,
  so a second open can fill the table and a third finds it full. Three
  system entries and two files let two fds share a file.
- Symmetry over the processes is sound: no definition distinguishes `p1`
  from `p2`, and `CHOOSE` is only applied to frame, slot and TLB indices.

No liveness property is checked. `vm_fault` never waits on another
thread: every step of a fault in progress is enabled whenever the process
runs (`SwapIn` by `SwapInNeverMisses`), or the kernel panics. So a fault
ending is a matter of scheduling, not of the paging code. The swap file's
`VOP_READ`/`VOP_WRITE` are single steps, and the models have no waits.

The `SWAP_TEST` boot (`cm_bootstrap_4test`) is in `Init` but no kept run
uses it. It changes only which frames start FIXED and the stamps of the
FREE ones. Those stamps are overwritten when a frame is allocated, so the
properties `safety` checks under the normal boot say nothing more under it.

Every property of a passing run is shown to be non-vacuous by a mutant listed
in `PROJECT.json`. Each mutant is a plausible bug in the definition it
replaces, and TLC finds the property violated when it is in place.

## 4. Findings

1. **Swap-in slot race (code bug, `swap.c:51`).** `swap_in` clears the slot
   and releases `sw_lock` before its `VOP_READ`. A context switch in that
   window lets another process's `swap_out` claim the slot and write its own
   page there. The faulting process then receives the other process's page
   contents: data corruption and a leak between address spaces. Spec §5
   requires that a reservation be held across the transfer.
2. **Stack frames never become CLEAN (code bug, `vm.c:379-383`).** The stack
   branch returns without `cm_update_state(CLEAN)`. Stack frames stay LOADING
   forever, which has two effects:
   - `cm_evict` never picks them, so a process whose frames are mostly stack
     reaches "Cannot find victim!" sooner;
   - every reload maps them writable. This is harmless for the stack, which
     is writable anyway.

   The comment at `coremap.c:169` and spec §3 say loading ends in CLEAN.
3. **TLB statistics identity (divergence, `tlb.c:43` and `tlb.c:67`).**
   - `tlbW` counts TLB_FAULT_FREE on a probe hit. The comment at `tlb.c:64`
     and spec §4.5 say a hit counts nothing.
   - After an eviction, `tlbR` counts once and the closing `tlbW` hit counts
     again.
   - The nested faults alone keep the identity balanced, because each counts
     its own TLB_FAULT. The `tlbR` path breaks it. `vmstats_print` then warns
     that free + replace ≠ TLB faults.

4. **Small segments that cross a page (code bug, `vm.c:168`).**
   `compute_memsz` returns `segment->size` for every page when the segment is
   smaller than a page, ignoring the in-page displacement d. If
   d + size > PAGE_SIZE, the segment has two pages:
   - page 1 loads `size` bytes from displacement d and runs past the end of
     the page into page 2, taking a nested fault mid-load;
   - page 2 loads `size` bytes from the page-aligned offset, which reads
     PAGE_SIZE − d file bytes past the end of the segment into memory that
     should be zero.

   All other cases agree with the reference (run `segload`).
5. **Freeing a boot-time page after bootstrap (code bug, `coremap.c:195`).**
   `free_kpages` passes any address to `frame_kfree` once the coremap
   exists. For a page `getppages` handed out before `cm_bootstrap`, the page
   lies below `firstpaddr`, and the unsigned `(paddr - firstpaddr)/PAGE_SIZE`
   wraps to an index far past the table. `coremap[pos].npages` is read, and
   that many entries are written, out of bounds. Spec §4.1 only says a free
   is a no-op before bootstrap. OS/161's `kfree` frees the pages of
   boot-time allocations too, for example when a subpage page becomes empty.

6. **Unchecked fd (code bug, `std_io.c:47`).** `sys_close` uses
   `openedFiles[fd]->vn` without checking that `fd` is in range or open, so
   closing a never-opened or already-closed fd dereferences NULL in the
   kernel. `sys_write` (through `getOffsetOF`) and `sys_read` do the same for
   every fd that is not a console fd, and `sys_read` counts only STDIN and
   STDERR as console fds, so `read(1)` goes through the table too.

7. **Empty region (code bug, `addrspace.c:190`).** With `sz = 0` at a page
   boundary, `npages` is 0. The loop never sets `page_head` or `page_tail`,
   and `first_pt_entry = page_head` and `page_tail->next = as->pt` then
   read them uninitialised. Nothing in `as_define_region` or `sgm_create`
   rejects an empty region. Run `emptyregion`.

Further observations:

- **Timestamp wrap (code bug, `coremap.c:237`).** `cm_evict` accepts only
  stamps below the global counter. After the unsigned counter wraps, every
  older CLEAN frame is above it, and the kernel panics "Cannot find victim!"
  although the process has frames to give up. With a one-process `VM` cfg
  and `TsBits = 2`, TLC finds `EvictPanicOnlyWhenNothingEvictable` violated
  after four allocations. With 32 bits this needs 2^32 allocations, so no
  run is kept for it.
- **Spec §8's example is wrong (`vm.c:176`).** The example gives 2108 bytes
  for page 3 of a 10000-byte segment at offset 100. The code gives
  1908 = 10000 − 3996 − 4096, and so does the reference of `SegmentLoad`.
  The spec's three loads add up to 10200 bytes.
- **Stack chain order (`addrspace.c:252`).** `as_define_stack` links the
  stack's entries from the top page down, while spec §4.1 says a segment's
  entries are in virtual-address order. Lookups are unaffected: the walk
  compares pages, and its index is used only for file-backed segments
  (`FaultLookupCorrect` allows any order for the stack).
- **Shared pages.** When two segments share a page, both lookups
  (`vm_fault` and `pt_update`) choose the later-defined segment's entry
  (`PtUpdateMatchesLookup`). The page is then loaded with that segment's
  bytes only.

- **A failed open leaves its system entry (`std_io.c:38`).** When
  `addOFPerProcess` finds no free fd, `sys_open` closes the vnode but the
  entry `addOpenedFile` filled keeps pointing at it and is never freed.
  `sys__exit` closes no file at all. The model reaches both (`SysOpen` with a
  full table, `SysExit`). The `fdcheck` run checks only `FdChecked`.

- **Statistics after a bad user pointer (`vm.c:325`).** `vm_fault` counts
  TLB_FAULT before it looks up the segment. When `copyin` or `copyout` hits
  an address outside every segment, it returns EFAULT having resolved
  nothing, so `vmstats_print` reports reload + disk + zero ≠ TLB faults.
  `VM` touches only pages that are in a segment, and there
  `StatsFaultsResolved` holds: every fault path it models keeps the identity.
- **`as_destroy` before `as_complete_load` (`addrspace.c:99`).** `elf_file`
  is still NULL, and `vfs_close(NULL)` fails `vnode_decref`'s assertion.
  `AsDestroy` reaches this (`panicked`) in `aslookup`. Whether it happens
  depends on callers outside the repository (`runprogram`'s error path
  after a failed `load_elf`, `proc_destroy`).
- **dumbvm contiguity (`addrspace.c:396`, `vm.c:267`).** In the `!OPT_PT`
  build, `as_prepare_load` gets each frame from its own `frame_alloc` call,
  and page 0 twice. `vm_fault` translates `pbase + offset` as if the frames
  were contiguous. This build is not modelled (section 5).

- **No victim.** Spec §7 lists "no evictable victim" as an EFAULT for the
  process, but §4.1, §7 (fatal list) and `coremap.c:243` panic. The model
  follows the code (`EvictPanic`). `EvictPanicOnlyWhenNothingEvictable`
  shows that, short of a wrap, the panic comes only when the process owns no
  CLEAN frame. Because eviction looks only at the faulting process's frames,
  this happens whenever other processes and the kernel hold all the rest, so
  it is a runtime condition, not only the configuration bug the spec calls
  it.
- **Refinement with two processes.** With the two processes of `swaprace`,
  TLC also finds `AbsPagingSpec` violated, by the same slot race: p2's page
  changes contents while it sits in `swapinr`. So the refinement is checked
  only for one process.
- **Unreachable checks.** The `*paddr == 0` check in
  `handle_victim_and_swapout` (`vm.c:214`) and the `i > seg->npages` return
  (`vm.c:412`) cannot happen. The invariant `SwapInNeverMisses` shows that
  the "vaddr not found" panic of `swap_in` cannot happen either.
- **Contiguous-run scan.** The scan in `frame_kalloc` reads `first` only
  after setting it: at `i == 0`, or whenever the previous frame is not FREE.
  The off-by-one that spec §9 suspects does not occur. `KallocBase` is the
  lowest base of `n` free frames, which is what the scan returns.

## 5. Not modelled, and why

- **Composition of `SegmentLoad` and `AddrSpace` with `VM`**: `VM`'s
  loads are whole pages tagged with their owner, and its page table is a
  function from page to entry. The size arithmetic (`SegmentLoad`) and the
  list structure and lookup (`AddrSpace`) are checked on their own.
  `AddrSpace` takes its region records from `SegmentLoad`.
- **`load_page_from_elf`'s byte handling and the ELF file itself**:
  contents are abstracted to tags. `load_page_from_elf` is not under `src/`.
- **The file-table helpers and the VFS**: `struct openfile`,
  `addOpenedFile`, `addOFPerProcess` and `getOffsetOF` are not in the
  repository, and spec §1 leaves the system-call layer out. `FileSyscalls`
  gives them only the effect `std_io.c` relies on. Files are lengths, the
  console changes no state, and the process's initial table is taken to
  hold no file (`proc.c` is not in the repository). The syscalls reach
  paging through `copyin`/`copyout`, which are the nested faults of
  `Touch` in `VM`.
- **`as_copy`** is a stub whose only effect is `as_create`.
  **`as_prepare_load`** preloads every page for the build without
  `OPT_ONDEMAND`. **The dumbvm and non-on-demand branches** of `vm.c`
  (254-305) and `addrspace.c` (284-499) are not built in this kernel
  either. Each would need an address-space module of its own, with its
  own run, beside the demand-paging one that every other module describes.
- **`kmalloc` failures**: `pt_create` and `sgm_create` dereference
  `kmalloc`'s result before the callers' NULL checks, so those checks never
  run. This is a kernel fault on out-of-memory, outside the models' scope.
- **Printing** (`cm_print`, `pt_print_state`, `tlb_print`,
  `print_swap_state`, `vmstats_print`'s output) **and shutdown**.
- **TLB_INVALID**: counted by `as_activate`, read by no identity. `Switch`
  is unbounded, so counting it would make the state space infinite.
- **Multiprocessor TLB shootdown**: a panic stub; the kernel runs on one CPU.

## 6. Plan for later work

1. **Eviction order.** An action property: the victim is the CLEAN frame of
   the process with the oldest stamp. A ghost load order will show where the
   approximate FIFO differs from true FIFO.
2. **Starvation by eviction.** Whether a process that keeps faulting is
   eventually refused ("Cannot find victim!") under memory held by others
   remains open.
3. **Larger instances.** Three processes for `PageHome` under symmetry, if
   the state space allows.
4. **Invalid addresses in `VM`.** A `copyin` from an address outside every
   segment (the EFAULT return at `vm.c:325`), so that a run shows the
   statistics mismatch described in section 4.
