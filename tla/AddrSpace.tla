------------------------------ MODULE AddrSpace ------------------------------
(***************************************************************************)
(* One address space's segment list and page table as addrspace.c builds   *)
(* them (as_create, as_define_region, as_complete_load, as_define_stack,   *)
(* as_destroy), and how vm_fault finds a faulting page's entry in them:    *)
(* the first segment of the list whose range holds the page, then a walk   *)
(* of at most npages entries from the segment's first_pt_entry, counting   *)
(* the page index i that compute_memsz/compute_offset are given.           *)
(*                                                                         *)
(* Both lists only ever grow at the head, so the page table is a sequence  *)
(* of page addresses (head first) and a segment's first_pt_entry is kept   *)
(* as the page table's length just after its chain was linked in: its      *)
(* entry is then at index Len(pt) - base + 1 for good.                     *)
(***************************************************************************)
EXTENDS Integers, Sequences, FiniteSetsExt

CONSTANTS
    PAGE_SIZE,
    USERSTACK,      \* top of the user stack
    StackPages,     \* DUMBVM_STACKPAGES
    Headers,        \* program headers [vaddr, offset, size] load_elf may pass
    MaxRegions      \* bound: as_define_region calls before the stack

ASSUME USERSTACK % PAGE_SIZE = 0 /\ StackPages * PAGE_SIZE <= USERSTACK
ASSUME MaxRegions \in Nat

VARIABLES
    segs,       \* as->segments, head first: [first_addr, npages, size, offset, base]
    pt,         \* as->pt, head first: the page of each pt_entry
    elf,        \* as->elf_file is set
    phase,      \* where the process is in building / using the address space
    wild,       \* an uninitialised pointer was followed
    panicked    \* a KASSERT failed

vars == <<segs, pt, elf, phase, wild, panicked>>

SL == INSTANCE SegmentLoad WITH ph <- CHOOSE h \in Headers : TRUE,
                                Headers <- {h \in Headers : h.size > 0}

PageFrame(x) == SL!PageFrame(x)

\* Where a segment's first_pt_entry now sits in pt.
FirstPte(s) == Len(pt) - s.base + 1

\* as_create
AsCreate ==
    /\ segs = <<>> /\ pt = <<>> /\ elf = FALSE
    /\ phase = "define" /\ wild = FALSE /\ panicked = FALSE

Init == AsCreate

\* (mutation) each new pt_entry is put in front of the previous one, so the
\* chain runs from the segment's last page down to its first.
RegionChainReversed(vaddr, npages) ==
    [i \in 1..npages |-> vaddr + (npages - i) * PAGE_SIZE]

\* as_define_region's loop: pt_create(vaddr + i*PAGE_SIZE), i = 0..npages-1,
\* each appended at page_tail, so the chain ascends from first_pt_entry.
RegionChain(vaddr, npages) == [i \in 1..npages |-> vaddr + (i - 1) * PAGE_SIZE]

(***************************************************************************)
(* as_define_region: the descriptor is prepended to the segment list, then *)
(* the chain is built and prepended to pt.  With npages = 0 (an empty      *)
(* region at a page boundary) page_head and page_tail are never set, and   *)
(* first_pt_entry = page_head, page_tail->next = as->pt use them            *)
(* uninitialised: nothing further can be said.                             *)
(***************************************************************************)
AsDefineRegion(h) ==
    LET d == SL!AsDefineRegion(h)
        chain == RegionChain(d.first_addr, d.npages)
    IN  /\ phase = "define" /\ ~wild /\ ~panicked /\ Len(segs) < MaxRegions
        /\ \/ /\ d.npages > 0
              /\ pt' = chain \o pt
              /\ segs' = <<[first_addr |-> d.first_addr, npages |-> d.npages, size |-> d.size,
                            offset |-> d.offset, base |-> Len(pt')]>> \o segs
              /\ UNCHANGED wild
           \/ /\ d.npages = 0
              /\ wild' = TRUE
              /\ UNCHANGED <<segs, pt>>
        /\ UNCHANGED <<elf, phase, panicked>>

\* as_complete_load (OPT_ONDEMAND): the executable stays open for the faults.
AsCompleteLoad ==
    /\ phase = "define" /\ ~wild /\ ~panicked
    /\ elf' = TRUE /\ phase' = "stack"
    /\ UNCHANGED <<segs, pt, wild, panicked>>

\* as_define_stack: a segment of StackPages pages below USERSTACK with offset
\* -1; the chain is pt_create(USERSTACK - (i+1)*PAGE_SIZE), i = 0.., so it
\* runs from the top page down.
\* (mutation) pt_create(USERSTACK - i*PAGE_SIZE): the chain starts at USERSTACK.
StackChainFromTop == [i \in 1..StackPages |-> USERSTACK - (i - 1) * PAGE_SIZE]

StackChain == [i \in 1..StackPages |-> USERSTACK - i * PAGE_SIZE]

AsDefineStack ==
    /\ phase = "stack"
    /\ pt' = StackChain \o pt
    /\ segs' = <<[first_addr |-> USERSTACK - StackPages * PAGE_SIZE, npages |-> StackPages,
                  size |-> 0, offset |-> -1, base |-> Len(pt')]>> \o segs
    /\ phase' = "run"
    /\ UNCHANGED <<elf, wild, panicked>>

(***************************************************************************)
(* as_destroy: pt_free, sgm_free, vfs_close(as->elf_file) (cm_asfree and   *)
(* swap_asfree are the coremap's and the swap store's part, in VM).  It    *)
(* runs whenever the process goes, also when load_elf failed before        *)
(* as_complete_load; then elf_file is still NULL and vfs_close(NULL) fails *)
(* vnode_decref's KASSERT: a panic.                                              *)
(***************************************************************************)
AsDestroy ==
    /\ phase # "destroyed" /\ ~wild /\ ~panicked
    /\ \/ /\ elf
          /\ segs' = <<>> /\ pt' = <<>> /\ elf' = FALSE
          /\ phase' = "destroyed"
          /\ UNCHANGED panicked
       \/ /\ ~elf
          /\ panicked' = TRUE
          /\ UNCHANGED <<segs, pt, elf, phase>>
    /\ UNCHANGED wild

\* The process is gone, or the kernel went wild or panicked.
Halted == (phase = "destroyed" \/ wild \/ panicked) /\ UNCHANGED vars

Next ==
    \/ \E h \in Headers : AsDefineRegion(h)
    \/ AsCompleteLoad
    \/ AsDefineStack
    \/ AsDestroy
    \/ Halted

Spec == Init /\ [][Next]_vars

(* ----------------------- vm_fault's lookup ------------------------------- *)

\* the EFAULT return: no segment, no entry
EFAULT == [seg |-> 0, i |-> 0, pte |-> 0]

\* (mutation) the range test lets the fault address equal `end`.
InSegEndInclusive(sg, fa) ==
    fa >= sg.first_addr /\ fa <= sg.first_addr + sg.npages * PAGE_SIZE

\* vm_fault's segment test: first_addr <= faultaddress < end.
InSeg(sg, fa) == fa >= sg.first_addr /\ fa < sg.first_addr + sg.npages * PAGE_SIZE

\* The segment scan from as->segments: the first segment that holds fa.
SegSearch(fa) ==
    LET hits == {s \in 1..Len(segs) : InSeg(segs[s], fa)}
    IN  IF hits = {} THEN 0 ELSE Min(hits)

\* The walk from first_pt_entry: i counts from 1 and stops at the first
\* entry for fa, or passes npages (EFAULT).
Walk(sg, fa) ==
    LET hits == {i \in 1..sg.npages : pt[FirstPte(sg) + i - 1] = fa}
    IN  IF hits = {} THEN sg.npages + 1 ELSE Min(hits)

(***************************************************************************)
(* vm_fault from faultaddress &= PAGE_FRAME to the entry it acts on: the   *)
(* segment, the page index i and the pt_entry, or EFAULT.                 *)
(***************************************************************************)
VmFaultLookup(a) ==
    LET fa == PageFrame(a)
        s  == SegSearch(fa)
    IN  IF s = 0 THEN EFAULT
        ELSE IF Walk(segs[s], fa) > segs[s].npages THEN EFAULT
        ELSE [seg |-> s, i |-> Walk(segs[s], fa), pte |-> FirstPte(segs[s]) + Walk(segs[s], fa) - 1]

\* (mutation) pt_update without the break: every entry for vaddr is updated.
PtUpdateEntriesNoBreak(va) == {k \in 1..Len(pt) : pt[k] = va}

\* pt_update: the walk from as->pt updates the first entry for vaddr only.
PtUpdateEntries(va) ==
    LET m == {k \in 1..Len(pt) : pt[k] = va}
    IN  IF m = {} THEN {} ELSE {Min(m)}

-----------------------------------------------------------------------------

\* The addresses a fault can name: every user address up to the stack top.
Addrs == 0..(USERSTACK + PAGE_SIZE - 1)

\* The pages segment sg was defined to map.
SegPages(sg) == {sg.first_addr + k * PAGE_SIZE : k \in 0..(sg.npages - 1)}

\* Page-aligned user addresses below the stack top.
UserPages == {x \in 0..(USERSTACK - 1) : x % PAGE_SIZE = 0}

ASTypeOK ==
    /\ pt \in Seq(UserPages)
    /\ \A s \in 1..Len(segs) : segs[s].base \in 1..Len(pt) /\ segs[s].npages \in Nat \ {0}
    /\ elf \in BOOLEAN /\ wild \in BOOLEAN /\ panicked \in BOOLEAN
    /\ phase \in {"define", "stack", "run", "destroyed"}

(***************************************************************************)
(* vm_fault resolves every address of a defined page to a pt_entry for     *)
(* that very page, and every other address to EFAULT; for a segment loaded *)
(* from the executable the walk's count i is the page's own index in the   *)
(* segment, which compute_memsz and compute_offset rely on.  This needs    *)
(* the list order (latest first), the end bound of the range test, and the *)
(* direction of every chain as_define_region built to agree.               *)
(***************************************************************************)
FaultLookupCorrect ==
    \A a \in Addrs :
        LET fa == PageFrame(a)
            r  == VmFaultLookup(a)
        IN  IF \E s \in 1..Len(segs) : fa \in SegPages(segs[s])
            THEN /\ r # EFAULT
                 /\ pt[r.pte] = fa
                 /\ segs[r.seg].offset >= 0 =>
                        r.i = (fa - segs[r.seg].first_addr) \div PAGE_SIZE + 1
            ELSE r = EFAULT

(***************************************************************************)
(* When a page is swapped out, pt_update (scanning the whole page table    *)
(* from its head) marks exactly the entry vm_fault resolves that page to,  *)
(* even when two segments share the page and the table holds two entries   *)
(* for it; otherwise the next fault would find the entry still in memory.  *)
(***************************************************************************)
PtUpdateMatchesLookup ==
    \A a \in Addrs :
        VmFaultLookup(a) # EFAULT => PtUpdateEntries(PageFrame(a)) = {VmFaultLookup(a).pte}

(***************************************************************************)
(* as_define_region links a chain into the segment and the page table only *)
(* once it has built one: no program header, whatever its size, makes it  *)
(* store page_head into first_pt_entry or write page_tail->next while the *)
(* loop has left them uninitialised.                                       *)
(***************************************************************************)
ChainsInitialised == ~wild
=============================================================================
