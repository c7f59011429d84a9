--------------------------------- MODULE VM ---------------------------------
(***************************************************************************)
(* Demand paging as done by vm_fault (src/kern/vm/vm.c) over the coremap,  *)
(* the per-process page tables (pt.c), the swap store (swap.c), the TLB    *)
(* (tlb.c) and the statistics (vm_stats.c), on one CPU shared by several  *)
(* single-threaded user processes and a kernel thread that allocates      *)
(* kernel pages.                                                           *)
(*                                                                         *)
(* A fault is split where another thread can run: after each lock section *)
(* (cm_lock, sw_lock) and around each blocking transfer (VOP_WRITE,        *)
(* VOP_READ, load_page_from_elf).  Code between two such points touches    *)
(* only the faulting process's own page table, its own frame (held         *)
(* LOADING) and the TLB with interrupts off, so it is one step.  A context *)
(* switch can happen between any two steps and flushes the TLB            *)
(* (as_activate).  Kernel code copying to or from a user page that is not *)
(* in the TLB takes a nested fault on it (Touch).                          *)
(***************************************************************************)
EXTENDS Integers, FiniteSets, VmStats

CONSTANTS
    Procs,          \* address spaces (struct addrspace *), model values
    Pages,          \* page-aligned user virtual addresses, model values
    PageWritable,   \* [Pages -> BOOLEAN]: seg->permission->write of the page's segment
    PageFileBacked, \* [Pages -> BOOLEAN]: seg->offset >= 0 (FALSE for the stack)
    Frames, CmTablePages, TsBits, NoAs, NoVa, KernelVa,
    Slots, NoData, NUM_TLB,
    KSizes,         \* page counts the kernel thread asks alloc_kpages for
    MaxFaults,      \* bound: user faults taken in a behaviour
    MaxStarts,      \* bound: address spaces created per process
    MaxKallocs,     \* bound: kernel allocations in a behaviour
    SWAP_TEST,      \* coremap.h: boot with cm_bootstrap_4test
    NUM_FREEFRAMES_TEST

ASSUME PageWritable \in [Pages -> BOOLEAN] /\ PageFileBacked \in [Pages -> BOOLEAN]
ASSUME KSizes \subseteq Nat \ {0}
ASSUME {MaxFaults, MaxStarts, MaxKallocs, NUM_FREEFRAMES_TEST} \subseteq Nat
ASSUME SWAP_TEST \in BOOLEAN

VARIABLES
    coremap, timestamp,     \* coremap.c
    swapspace, swapfile,    \* swap.c and the swap file
    mem,                    \* contents of each frame
    tlb,                    \* the TLB and tlb.c's round-robin index
    stats,                  \* vm_stats.c
    pt,                     \* page table of each process
    pc,                     \* where each process is in vm_fault
    fl,                     \* vm_fault's locals: faultaddress, frame, victim, slot
    cur,                    \* process whose address space is active
    panicked,               \* the message of the panic that halted the kernel
    kheld,                  \* <<base, npages>> of each live kernel allocation
    faults, starts, kallocs \* counters for the bounds

vars == <<coremap, timestamp, swapspace, swapfile, mem, tlb, stats, pt, pc, fl,
          cur, panicked, kheld, faults, starts, kallocs>>

CM == INSTANCE Coremap
SW == INSTANCE Swap
T  == INSTANCE Tlb

LOADING == CM!LOADING
CLEAN == CM!CLEAN
NoFrame == CM!NoFrame
NoSlot == SW!NoSlot

Data == Procs \X Pages      \* a page's bytes, abstracted to whose page they are
NoPanic == "none"

\* pt_create: neither resident nor swapped, frame 0.
FreshPte == [in_mem |-> FALSE, in_swap |-> FALSE, frame |-> NoFrame]
NoLocals == [va |-> NoVa, pos |-> NoFrame, victim |-> NoVa, slot |-> NoSlot]

Alive(p) == pc[p] # "dead"
InFault(p) == pc[p] \notin {"dead", "idle"}

\* vm_bootstrap chooses the coremap's boot by SWAP_TEST.
Init ==
    /\ IF SWAP_TEST THEN CM!CmInit4Test(NUM_FREEFRAMES_TEST) ELSE CM!CmInit
    /\ SW!SwapInit
    /\ mem = [f \in Frames |-> NoData]
    /\ tlb = T!TlbInit
    /\ stats = StatsInit
    /\ pt = [p \in Procs |-> [v \in Pages |-> FreshPte]]
    /\ pc = [p \in Procs |-> "dead"]
    /\ fl = [p \in Procs |-> NoLocals]
    /\ cur = NoAs
    /\ panicked = NoPanic
    /\ kheld = {}
    /\ faults = 0
    /\ starts = [p \in Procs |-> 0]
    /\ kallocs = 0

(***************************************************************************)
(* A nested vm_fault on a resident page v of p, taken when kernel code     *)
(* copies to or from v and v is not in the TLB: the reload branch of       *)
(* vm_fault, which maps the page writable while its frame is LOADING.      *)
(* Returns the new TLB and statistics.                                     *)
(***************************************************************************)
Touch(p, v, f, t, s) ==
    IF T!Probe(t, v) >= 0
    THEN [tlb |-> t, st |-> s]
    ELSE LET r == T!TlbW(t, v, f, CM!CmCheckState(f, LOADING) \/ PageWritable[v])
         IN  [tlb |-> r.tlb, st |-> Inc(Inc(Inc(s, "TLB_FAULT"), "TLB_RELOAD"), r.ctr)]

\* (mutation) pt_update that clears in_mem but forgets in_swap.
PtUpdateNoSwapFlag(p, v) ==
    [pt EXCEPT ![p][v] = [in_mem |-> FALSE, in_swap |-> FALSE, frame |-> NoFrame]]

\* pt_update: the entry of v is marked swapped out.
PtUpdate(p, v) == [pt EXCEPT ![p][v] = [in_mem |-> FALSE, in_swap |-> TRUE, frame |-> NoFrame]]

\* pte->frame = paddr; pte->in_mem = 1; pte->in_swap = 0;
Resident(p, v, f) == [pt EXCEPT ![p][v] = [in_mem |-> TRUE, in_swap |-> FALSE, frame |-> f]]

(***************************************************************************)
(* vm_fault entry on a TLB miss of the running process: TLB_FAULT, then    *)
(* the segment and page-table lookup (private to the process), then one   *)
(* of three branches.                                                      *)
(***************************************************************************)
CanFault(p, v) ==
    /\ cur = p /\ pc[p] = "idle"
    /\ T!Probe(tlb, v) < 0
    /\ faults < MaxFaults

\* Resident page: reload the mapping, writable while the frame is LOADING.
FaultReload(p, v) ==
    /\ CanFault(p, v)
    /\ pt[p][v].in_mem
    /\ LET f == pt[p][v].frame
           r == T!TlbW(tlb, v, f, CM!CmCheckState(f, LOADING) \/ PageWritable[v])
       IN  /\ tlb' = r.tlb
           /\ stats' = Inc(Inc(Inc(stats, "TLB_FAULT"), "TLB_RELOAD"), r.ctr)
    /\ faults' = faults + 1
    /\ UNCHANGED <<coremap, timestamp, swapspace, swapfile, mem, pt, pc, fl,
                   cur, panicked, kheld, starts, kallocs>>

\* Not resident (swapped or never loaded): frame_alloc finds a FREE frame.
FaultAlloc(p, v) ==
    /\ CanFault(p, v)
    /\ ~pt[p][v].in_mem
    /\ CM!FrameAllocPos # NoFrame
    /\ CM!FrameAlloc(p, v, CM!FrameAllocPos)
    /\ stats' = Inc(stats, "TLB_FAULT")
    /\ fl' = [fl EXCEPT ![p] = [NoLocals EXCEPT !.va = v, !.pos = CM!FrameAllocPos]]
    /\ pc' = [pc EXCEPT ![p] = IF pt[p][v].in_swap THEN "swapin" ELSE "load"]
    /\ faults' = faults + 1
    /\ UNCHANGED <<swapspace, swapfile, mem, tlb, pt, cur, panicked, kheld, starts, kallocs>>

\* Not resident and frame_alloc returned 0: handle_victim_and_swapout.
FaultNoFrame(p, v) ==
    /\ CanFault(p, v)
    /\ ~pt[p][v].in_mem
    /\ CM!FrameAllocPos = NoFrame
    /\ stats' = Inc(stats, "TLB_FAULT")
    /\ fl' = [fl EXCEPT ![p] = [NoLocals EXCEPT !.va = v]]
    /\ pc' = [pc EXCEPT ![p] = "evict"]
    /\ faults' = faults + 1
    /\ UNCHANGED <<coremap, timestamp, swapspace, swapfile, mem, tlb, pt, cur,
                   panicked, kheld, starts, kallocs>>

(***************************************************************************)
(* handle_victim_and_swapout: SWAP_FILE_WRITE, then cm_evict picks the     *)
(* oldest CLEAN frame of the faulting process, or panics.                  *)
(***************************************************************************)
Evict(p) ==
    /\ cur = p /\ pc[p] = "evict"
    /\ CM!EvictPos(p) # NoFrame
    /\ CM!CmEvict(CM!EvictPos(p))
    /\ stats' = Inc(stats, "SWAP_FILE_WRITE")
    /\ fl' = [fl EXCEPT ![p].pos = CM!EvictPos(p), ![p].victim = coremap[CM!EvictPos(p)].va]
    /\ pc' = [pc EXCEPT ![p] = "swapout"]
    /\ UNCHANGED <<swapspace, swapfile, mem, tlb, pt, cur, panicked, kheld,
                   faults, starts, kallocs>>

EvictPanic(p) ==
    /\ cur = p /\ pc[p] = "evict"
    /\ CM!EvictPos(p) = NoFrame
    /\ stats' = Inc(stats, "SWAP_FILE_WRITE")
    /\ panicked' = "Cannot find victim!"
    /\ UNCHANGED <<coremap, timestamp, swapspace, swapfile, mem, tlb, pt, pc, fl,
                   cur, kheld, faults, starts, kallocs>>

\* swap_out under sw_lock: reserve the first empty slot, or panic.
SwapOut(p) ==
    /\ cur = p /\ pc[p] = "swapout"
    /\ SW!SwapOutSlot # NoSlot
    /\ SW!SwapOutReserve(p, fl[p].victim, SW!SwapOutSlot)
    /\ fl' = [fl EXCEPT ![p].slot = SW!SwapOutSlot]
    /\ pc' = [pc EXCEPT ![p] = "swapoutw"]
    /\ UNCHANGED <<coremap, timestamp, mem, tlb, stats, pt, cur, panicked, kheld,
                   faults, starts, kallocs>>

SwapOutFull(p) ==
    /\ cur = p /\ pc[p] = "swapout"
    /\ SW!SwapOutSlot = NoSlot
    /\ panicked' = "Swapfile - swapfile is full!"
    /\ UNCHANGED <<coremap, timestamp, swapspace, swapfile, mem, tlb, stats, pt, pc, fl,
                   cur, kheld, faults, starts, kallocs>>

(***************************************************************************)
(* The rest of handle_victim_and_swapout: VOP_WRITE copies the victim page *)
(* in through its user address (a nested fault if it is not in the TLB),  *)
(* pt_update marks it swapped, cm_update_vaddr hands the frame to the     *)
(* faulting page, and tlbR retargets the victim's TLB slot, if any.        *)
(***************************************************************************)
SwapOutDone(p) ==
    /\ cur = p /\ pc[p] = "swapoutw"
    /\ LET l  == fl[p]
           t1 == Touch(p, l.victim, l.pos, tlb, stats)
           r  == T!TlbR(t1.tlb, l.victim, l.va, l.pos)
       IN  /\ SW!SwapOutWrite(l.slot, mem[l.pos])
           /\ pt' = PtUpdate(p, l.victim)
           /\ CM!CmUpdateVaddr(p, l.pos, l.va)
           /\ tlb' = r.tlb
           /\ stats' = Inc(t1.st, r.ctr)
           /\ pc' = [pc EXCEPT ![p] = IF pt[p][l.va].in_swap THEN "swapin" ELSE "load"]
    /\ UNCHANGED <<mem, fl, cur, panicked, kheld, faults, starts, kallocs>>

(***************************************************************************)
(* Swap branch: the page-table entry is made resident, then swap_in finds  *)
(* and releases the page's slot under sw_lock, then VOP_READ               *)
(* copies the slot into the page, and the frame becomes CLEAN and mapped.  *)
(***************************************************************************)
SwapIn(p) ==
    /\ cur = p /\ pc[p] = "swapin"
    /\ LET l == fl[p] IN
       /\ pt' = Resident(p, l.va, l.pos)
       /\ SW!SwapInSlot(p, l.va) # NoSlot
       /\ SW!SwapInRelease(SW!SwapInSlot(p, l.va))
       /\ fl' = [fl EXCEPT ![p].slot = SW!SwapInSlot(p, l.va)]
    /\ pc' = [pc EXCEPT ![p] = "swapinr"]
    /\ UNCHANGED <<coremap, timestamp, mem, tlb, stats, cur, panicked, kheld,
                   faults, starts, kallocs>>

SwapInDone(p) ==
    /\ cur = p /\ pc[p] = "swapinr"
    /\ LET l  == fl[p]
           t1 == Touch(p, l.va, l.pos, tlb, stats)
           r  == T!TlbW(t1.tlb, l.va, l.pos, PageWritable[l.va])
       IN  /\ mem' = [mem EXCEPT ![l.pos] = SW!SwapInData(l.slot)]
           /\ CM!CmUpdateState(l.pos, CLEAN)
           /\ tlb' = r.tlb
           /\ stats' = Inc(Inc(Inc(t1.st, "PAGE_FAULT_SWAP"), "PAGE_FAULT_DISK"), r.ctr)
    /\ pc' = [pc EXCEPT ![p] = "idle"]
    /\ fl' = [fl EXCEPT ![p] = NoLocals]
    /\ UNCHANGED <<swapspace, swapfile, pt, cur, panicked, kheld, faults, starts, kallocs>>

\* (mutation) the stack branch returns before vmstats_inc(PAGE_FAULT_ZERO).
LoadZeroUncounted(p) ==
    /\ cur = p /\ pc[p] = "load"
    /\ ~PageFileBacked[fl[p].va]
    /\ LET l  == fl[p]
           t1 == Touch(p, l.va, l.pos, tlb, stats)
           r  == T!TlbW(t1.tlb, l.va, l.pos, PageWritable[l.va])
       IN  /\ pt' = Resident(p, l.va, l.pos)
           /\ mem' = [mem EXCEPT ![l.pos] = <<p, l.va>>]
           /\ tlb' = r.tlb
           /\ stats' = Inc(t1.st, r.ctr)
    /\ pc' = [pc EXCEPT ![p] = "idle"]
    /\ fl' = [fl EXCEPT ![p] = NoLocals]
    /\ UNCHANGED <<coremap, timestamp, swapspace, swapfile, cur, panicked, kheld,
                   faults, starts, kallocs>>

(***************************************************************************)
(* Never-loaded branch: the entry is made resident and the page zeroed     *)
(* through its user address.  A stack page (offset < 0) is mapped and     *)
(* counted as zero-filled and the fault returns; any other page is read   *)
(* from the executable by load_page_from_elf, its frame becomes CLEAN and  *)
(* it is mapped with the segment's permission.                             *)
(***************************************************************************)
LoadZero(p) ==
    /\ cur = p /\ pc[p] = "load"
    /\ ~PageFileBacked[fl[p].va]
    /\ LET l  == fl[p]
           t1 == Touch(p, l.va, l.pos, tlb, stats)
           r  == T!TlbW(t1.tlb, l.va, l.pos, PageWritable[l.va])
       IN  /\ pt' = Resident(p, l.va, l.pos)
           /\ mem' = [mem EXCEPT ![l.pos] = <<p, l.va>>]
           /\ tlb' = r.tlb
           /\ stats' = Inc(Inc(t1.st, r.ctr), "PAGE_FAULT_ZERO")
    /\ pc' = [pc EXCEPT ![p] = "idle"]
    /\ fl' = [fl EXCEPT ![p] = NoLocals]
    /\ UNCHANGED <<coremap, timestamp, swapspace, swapfile, cur, panicked, kheld,
                   faults, starts, kallocs>>

LoadElf(p) ==
    /\ cur = p /\ pc[p] = "load"
    /\ PageFileBacked[fl[p].va]
    /\ LET l  == fl[p]
           t1 == Touch(p, l.va, l.pos, tlb, stats)
           r  == T!TlbW(t1.tlb, l.va, l.pos, PageWritable[l.va])
       IN  /\ pt' = Resident(p, l.va, l.pos)
           /\ mem' = [mem EXCEPT ![l.pos] = <<p, l.va>>]
           /\ CM!CmUpdateState(l.pos, CLEAN)
           /\ tlb' = r.tlb
           /\ stats' = Inc(Inc(Inc(t1.st, "PAGE_FAULT_ELF"), "PAGE_FAULT_DISK"), r.ctr)
    /\ pc' = [pc EXCEPT ![p] = "idle"]
    /\ fl' = [fl EXCEPT ![p] = NoLocals]
    /\ UNCHANGED <<swapspace, swapfile, cur, panicked, kheld, faults, starts, kallocs>>

(***************************************************************************)
(* Address-space life cycle.  Start is as_create, as_define_region for     *)
(* each segment, as_define_stack and as_activate: every page gets a fresh  *)
(* entry and the TLB is flushed.  Exit is sys__exit's as_destroy:          *)
(* cm_asfree, pt_free, swap_asfree (sgm_free and vfs_close touch nothing   *)
(* shared).  The address space pointer is reused by the next as_create.    *)
(***************************************************************************)
Start(p) ==
    /\ pc[p] = "dead"
    /\ starts[p] < MaxStarts
    /\ pt' = [pt EXCEPT ![p] = [v \in Pages |-> FreshPte]]
    /\ pc' = [pc EXCEPT ![p] = "idle"]
    /\ cur' = p
    /\ tlb' = T!TlbFlushed(tlb)
    /\ starts' = [starts EXCEPT ![p] = @ + 1]
    /\ UNCHANGED <<coremap, timestamp, swapspace, swapfile, mem, stats, fl, panicked,
                   kheld, faults, kallocs>>

Exit(p) ==
    /\ cur = p /\ pc[p] = "idle"
    /\ CM!CmAsfree(p)
    /\ SW!SwapAsfree(p)
    /\ pt' = [pt EXCEPT ![p] = [v \in Pages |-> FreshPte]]
    /\ pc' = [pc EXCEPT ![p] = "dead"]
    /\ UNCHANGED <<mem, tlb, stats, fl, cur, panicked, kheld, faults, starts, kallocs>>

\* A context switch to another live process: as_activate flushes the TLB.
Switch(q) ==
    /\ Alive(q) /\ cur # q
    /\ cur' = q
    /\ tlb' = T!TlbFlushed(tlb)
    /\ UNCHANGED <<coremap, timestamp, swapspace, swapfile, mem, stats, pt, pc, fl,
                   panicked, kheld, faults, starts, kallocs>>

\* alloc_kpages / free_kpages after bootstrap, from a kernel thread.
KAlloc(n) ==
    /\ kallocs < MaxKallocs
    /\ CM!KallocBase(n) # NoFrame
    /\ CM!FrameKalloc(n, CM!KallocBase(n))
    /\ kheld' = kheld \cup {<<CM!KallocBase(n), n>>}
    /\ kallocs' = kallocs + 1
    /\ UNCHANGED <<swapspace, swapfile, mem, tlb, stats, pt, pc, fl, cur, panicked,
                   faults, starts>>

KFree(k) ==
    /\ k \in kheld
    /\ CM!FrameKfree(k[1])
    /\ kheld' = kheld \ {k}
    /\ UNCHANGED <<swapspace, swapfile, mem, tlb, stats, pt, pc, fl, cur, panicked,
                   faults, starts, kallocs>>

\* After a panic the kernel is halted; with everything exhausted it is idle.
Halted == panicked # NoPanic /\ UNCHANGED vars
Finished ==
    /\ \A p \in Procs : pc[p] = "dead" /\ starts[p] = MaxStarts
    /\ kheld = {}
    /\ UNCHANGED vars

\* A TLB miss of p's user code enters vm_fault.
FaultEntry(p) == \E v \in Pages : FaultReload(p, v) \/ FaultAlloc(p, v) \/ FaultNoFrame(p, v)

\* The next step of a vm_fault in progress.
FaultResume(p) ==
    \/ Evict(p) \/ EvictPanic(p) \/ SwapOut(p) \/ SwapOutFull(p) \/ SwapOutDone(p)
    \/ SwapIn(p) \/ SwapInDone(p) \/ LoadZero(p) \/ LoadElf(p)

FaultStep(p) == FaultEntry(p) \/ FaultResume(p)

Running ==
    \/ \E p \in Procs : FaultStep(p) \/ Start(p) \/ Exit(p) \/ Switch(p)
    \/ \E n \in KSizes : KAlloc(n)
    \/ \E k \in kheld : KFree(k)

Next ==
    \/ panicked = NoPanic /\ Running
    \/ Halted
    \/ Finished

Spec == Init /\ [][Next]_vars

-----------------------------------------------------------------------------
PcValues == {"dead", "idle", "evict", "swapout", "swapoutw", "swapin", "swapinr", "load"}

TypeOK ==
    /\ CM!CmTypeOK(Procs, Pages)
    /\ SW!SwapTypeOK(Procs, Pages, Data)
    /\ mem \in [Frames -> Data \cup {NoData}]
    /\ tlb \in [e : [T!TlbIdx -> [valid : BOOLEAN, va : Pages \cup {NoVa},
                                  frame : Frames, dirty : BOOLEAN]],
                next : T!TlbIdx]
    /\ stats \in [Counters -> Nat]
    /\ pt \in [Procs -> [Pages -> [in_mem : BOOLEAN, in_swap : BOOLEAN,
                                   frame : Frames \cup {NoFrame}]]]
    /\ pc \in [Procs -> PcValues]
    /\ fl \in [Procs -> [va : Pages \cup {NoVa}, pos : Frames \cup {NoFrame},
                         victim : Pages \cup {NoVa}, slot : Slots \cup {NoSlot}]]
    /\ cur \in Procs \cup {NoAs}
    /\ kheld \subseteq Frames \X KSizes

FramesOf(p, v) == {f \in Frames : coremap[f].as = p /\ coremap[f].va = v}
SlotsOf(p, v) == {i \in Slots : swapspace[i] = [as |-> p, va |-> v]}

\* A page that the owner's fault in progress (if any) is not moving.
Settled(p, v) == ~(InFault(p) /\ v \in {fl[p].va, fl[p].victim})

(***************************************************************************)
(* Every settled page of a live process has exactly the homes its page-    *)
(* table entry records: resident pages exactly one coremap frame, the one  *)
(* in the entry, swapped pages exactly one swap slot, never both, and      *)
(* other pages neither.  This is what frame_alloc, cm_evict,               *)
(* cm_update_vaddr, pt_update, swap_out and swap_in maintain between them  *)
(* across interleaved faults, kernel allocations and exits.                *)
(***************************************************************************)
PageHome ==
    \A p \in Procs : \A v \in Pages : Alive(p) /\ Settled(p, v) =>
        LET e == pt[p][v] IN
        /\ ~(e.in_mem /\ e.in_swap)
        /\ FramesOf(p, v) = IF e.in_mem THEN {e.frame} ELSE {}
        /\ IF e.in_swap THEN Cardinality(SlotsOf(p, v)) = 1 ELSE SlotsOf(p, v) = {}

(***************************************************************************)
(* After as_destroy no coremap frame and no swap slot still names the      *)
(* address space, so an address space created later at the same address  *)
(* inherits nothing (cm_asfree and swap_asfree).                           *)
(***************************************************************************)
NoDanglingOwner ==
    \A p \in Procs : ~Alive(p) =>
        /\ \A f \in Frames : coremap[f].as # p
        /\ \A i \in Slots : swapspace[i].as # p

(***************************************************************************)
(* swap_in never reaches its "vaddr not found" panic: whenever a fault is  *)
(* about to swap a page in, the swap table holds a slot for it.            *)
(***************************************************************************)
SwapInNeverMisses ==
    \A p \in Procs : pc[p] = "swapin" => SW!SwapInSlot(p, fl[p].va) # NoSlot

(***************************************************************************)
(* While a user process runs, every valid TLB entry maps one of its pages  *)
(* to the frame its page table gives (or, during its fault, the faulting   *)
(* page to the frame being filled, as tlbR leaves it), and no page has two *)
(* entries.  Breaks if an eviction left the victim's translation behind or *)
(* if a switch did not flush the previous process's entries.              *)
(***************************************************************************)
TlbCoherent ==
    cur \in Procs /\ Alive(cur) =>
        \A i \in T!TlbIdx : tlb.e[i].valid =>
            LET v == tlb.e[i].va IN
            /\ \/ pt[cur][v].in_mem /\ pt[cur][v].frame = tlb.e[i].frame
               \/ InFault(cur) /\ v = fl[cur].va /\ tlb.e[i].frame = fl[cur].pos
            /\ \A j \in T!TlbIdx : j # i /\ tlb.e[j].valid => tlb.e[j].va # v

(***************************************************************************)
(* A page of a read-only segment is writable through the TLB only while    *)
(* its frame is LOADING (the loader has to fill it); once the frame is     *)
(* CLEAN the user process sees it read-only again.                         *)
(***************************************************************************)
WriteProtect ==
    cur \in Procs /\ Alive(cur) =>
        \A i \in T!TlbIdx : tlb.e[i].valid /\ tlb.e[i].dirty =>
            PageWritable[tlb.e[i].va] \/ coremap[tlb.e[i].frame].state = LOADING

(***************************************************************************)
(* Every live kernel allocation still owns its frames: they are FIXED, the *)
(* first one records the run length, and no two live allocations overlap.  *)
(***************************************************************************)
KernelFramesIntact ==
    /\ \A k \in kheld : /\ coremap[k[1]].npages = k[2]
                        /\ \A j \in k[1]..(k[1] + k[2] - 1) :
                              j \in Frames /\ coremap[j].state = CM!FIXED
    /\ \A k1, k2 \in kheld : k1 # k2 =>
            (k1[1]..(k1[1] + k1[2] - 1)) \cap (k2[1]..(k2[1] + k2[2] - 1)) = {}

Quiescent == \A p \in Procs : ~InFault(p)

(***************************************************************************)
(* vmstats_print's first check, whenever no fault is in progress: every    *)
(* TLB fault was resolved by exactly one TLB write, into a free slot or a  *)
(* replaced one.                                                           *)
(***************************************************************************)
StatsTlbWritesMatch == Quiescent => TlbFaultsSplit(stats)

(***************************************************************************)
(* vmstats_print's other two checks, whenever no fault is in progress:     *)
(* every TLB fault, nested ones included, ended in exactly one of a TLB    *)
(* reload, a page read from disk or a zeroed page, and every disk read     *)
(* came from either the executable or the swap file.  A fault that is     *)
(* counted on entry but returns by another path, or a nested fault that   *)
(* counts its entry and not its resolution, unbalances them.               *)
(***************************************************************************)
StatsFaultsResolved ==
    Quiescent => TlbFaultsResolved(stats) /\ DiskFaultsSplit(stats)

(***************************************************************************)
(* A settled page holds its own data: a resident page's frame holds what  *)
(* the page last held, and so does a swapped page's slot.  This is the     *)
(* round trip through swap_out and swap_in.                                *)
(***************************************************************************)
PagesKeepTheirData ==
    \A p \in Procs : \A v \in Pages : Alive(p) /\ Settled(p, v) =>
        /\ pt[p][v].in_mem => mem[pt[p][v].frame] = <<p, v>>
        /\ pt[p][v].in_swap => \E i \in SlotsOf(p, v) : swapfile[i] = <<p, v>>

(***************************************************************************)
(* A frame is LOADING only while a fault is filling it, as the comment on  *)
(* frame_alloc says ("when loading ends the state becomes CLEAN"); a       *)
(* LOADING frame can never be chosen by cm_evict.                          *)
(***************************************************************************)
LoadingOnlyWhileFaulting ==
    \A f \in Frames : coremap[f].state = LOADING =>
        \E p \in Procs : InFault(p) /\ fl[p].pos = f

(***************************************************************************)
(* cm_evict panics "Cannot find victim!" only when the faulting process    *)
(* really has nothing to give up: it owns no CLEAN frame.  Every frame     *)
(* frame_alloc or cm_update_vaddr hands out is stamped with timestamp++,   *)
(* and the scan accepts only stamps below the counter, so this holds as    *)
(* long as the stamps are older than the counter.                          *)
(***************************************************************************)
EvictPanicOnlyWhenNothingEvictable ==
    panicked = "Cannot find victim!" =>
        \E p \in Procs : /\ cur = p /\ pc[p] = "evict"
                        /\ \A f \in Frames : ~(coremap[f].as = p /\ coremap[f].state = CLEAN)

\* Spec section 3's frame-state graph, with cm_asfree's release of a
\* process's CLEAN and LOADING frames (spec section 4.1).
FrameGraph ==
    {<<CM!FREE, LOADING>>, <<LOADING, CLEAN>>, <<CLEAN, LOADING>>, <<LOADING, CM!FREE>>,
     <<CLEAN, CM!FREE>>, <<CM!FREE, CM!FIXED>>, <<CM!FIXED, CM!FREE>>}

(***************************************************************************)
(* Every step moves a frame's state only along the frame-state graph, and  *)
(* a frame is handed to a new user page only from FREE (frame_alloc) or    *)
(* after cm_evict cut it loose from its previous owner (cm_update_vaddr), *)
(* never straight from one page to another or from the kernel.            *)
(***************************************************************************)
FramesChangeHandsSafely ==
    [][\A f \in Frames :
         /\ coremap'[f].state # coremap[f].state =>
                <<coremap[f].state, coremap'[f].state>> \in FrameGraph
         /\ coremap'[f].as \in Procs /\ <<coremap'[f].as, coremap'[f].va>> # <<coremap[f].as, coremap[f].va>> =>
                coremap[f].as = NoAs /\ coremap[f].state \in {CM!FREE, LOADING}]_vars

(***************************************************************************)
(* Refinement mapping: what page v of p holds, read from where the page    *)
(* table says it lives; between swap_in's release of the slot and the read *)
(* that fills the frame, the page's contents are still in that slot.       *)
(***************************************************************************)
PageView(p, v) ==
    CASE pc[p] = "swapinr" /\ v = fl[p].va -> swapfile[fl[p].slot]
      [] pt[p][v].in_mem                 -> mem[pt[p][v].frame]
      [] pt[p][v].in_swap                -> swapfile[SW!SwapInSlot(p, v)]
      [] OTHER                           -> NoData

AP == INSTANCE AbsPaging WITH view <- [p \in Procs |-> [v \in Pages |-> PageView(p, v)]]

(***************************************************************************)
(* The paging system implements AbsPaging: through every eviction,        *)
(* swap-out, swap-in, reload and exit, a page's contents change only when *)
(* it is first loaded (with its own contents) or its address space is      *)
(* destroyed.                                                              *)
(***************************************************************************)
AbsPagingSpec == AP!Spec
=============================================================================
