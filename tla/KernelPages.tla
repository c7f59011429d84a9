----------------------------- MODULE KernelPages -----------------------------
(***************************************************************************)
(* The kernel page allocator across boot (vm.c alloc_kpages/free_kpages,   *)
(* coremap.c cm_bootstrap/is_bootstrapped/frame_kalloc/frame_kfree).       *)
(* Before the coremap exists, alloc_kpages steals pages with getppages     *)
(* (ram_stealmem) and free_kpages leaks them.  cm_bootstrap takes          *)
(* firstpaddr from the steal pointer, kmallocs the table itself (still by  *)
(* stealing, as bootstrapped is 0) and marks frames 0..space/PAGE_SIZE     *)
(* FIXED.  From then on both calls go through the coremap, and frame_kfree *)
(* turns an address into the index (paddr - firstpaddr)/PAGE_SIZE.          *)
(*                                                                         *)
(* Addresses are physical page numbers: page firstpaddr + i is coremap     *)
(* frame i.  Boot runs on one thread, so each call is one step.            *)
(***************************************************************************)
EXTENDS Integers, FiniteSets

CONSTANTS
    Frames,         \* coremap frames 0..ram_frames-1
    PAGE_SIZE,      \* bytes per page
    EntryBytes,     \* sizeof(cm_entry)
    TsBits, NoAs, NoVa, KernelVa,
    KSizes,         \* page counts the callers of alloc_kpages ask for
    MaxBootPages,   \* bound: pages ram_stealmem can hand out before cm_bootstrap
    MaxKallocs      \* bound: alloc_kpages calls in a behaviour

ASSUME PAGE_SIZE \in Nat \ {0} /\ EntryBytes \in Nat \ {0}
ASSUME KSizes \subseteq Nat \ {0} /\ {MaxBootPages, MaxKallocs} \subseteq Nat

\* cm_bootstrap: space = ram_frames*sizeof(cm_entry), and kmalloc takes the
\* whole pages that hold it.
TableSpace == Cardinality(Frames) * EntryBytes
TablePages == (TableSpace + PAGE_SIZE - 1) \div PAGE_SIZE

VARIABLES
    coremap, timestamp,
    bootstrapped,   \* coremap.c `bootstrapped`
    brk,            \* ram_stealmem's pointer (the next free physical page)
    firstpaddr,     \* coremap.c `firstpaddr`, set by cm_bootstrap
    kheld,          \* <<paddr, npages>> of every block a caller still holds
    kallocs,        \* alloc_kpages calls so far
    wild            \* a frame_kfree indexed the coremap out of its bounds

vars == <<coremap, timestamp, bootstrapped, brk, firstpaddr, kheld, kallocs, wild>>

CM == INSTANCE Coremap WITH CmTablePages <- TableSpace \div PAGE_SIZE

NULL == "NULL"      \* the coremap pointer before cm_bootstrap

\* The physical pages of a block <<paddr, npages>>.
PagesOf(k) == k[1]..(k[1] + k[2] - 1)

\* The pages the coremap table itself lives in.
TableBlock == <<firstpaddr, TablePages>>

Init ==
    /\ coremap = NULL /\ timestamp = 0
    /\ bootstrapped = FALSE
    /\ brk = 0 /\ firstpaddr = 0
    /\ kheld = {} /\ kallocs = 0 /\ wild = FALSE

\* is_bootstrapped
IsBootstrapped == bootstrapped

\* getppages/ram_stealmem: the next pages, under stealmem_lock.  (Once RAM
\* is exhausted it returns 0 and alloc_kpages returns 0, changing nothing.)
Getppages == brk

(***************************************************************************)
(* cm_bootstrap: firstpaddr is the steal pointer; kmalloc of the table     *)
(* steals its pages (bootstrapped is still 0); the table is initialised    *)
(* and bootstrapped set.                                                   *)
(***************************************************************************)
CmBootstrap ==
    /\ ~bootstrapped /\ ~wild
    /\ firstpaddr' = brk
    /\ brk' = brk + TablePages
    /\ coremap' = CM!CmBootstrapTable /\ timestamp' = CM!CmBootstrapTs
    /\ bootstrapped' = TRUE
    /\ UNCHANGED <<kheld, kallocs, wild>>

(***************************************************************************)
(* alloc_kpages(n): frame_kalloc once bootstrapped, getppages before; a 0  *)
(* result (nothing free) returns 0 and changes nothing.                    *)
(***************************************************************************)
AllocKpages(n) ==
    /\ kallocs < MaxKallocs /\ ~wild
    /\ kallocs' = kallocs + 1
    /\ \/ /\ ~IsBootstrapped
          /\ brk + n <= MaxBootPages
          /\ kheld' = kheld \cup {<<Getppages, n>>}
          /\ brk' = brk + n
          /\ UNCHANGED <<coremap, timestamp>>
       \/ /\ IsBootstrapped
          /\ CM!KallocBase(n) # CM!NoFrame
          /\ CM!FrameKalloc(n, CM!KallocBase(n))
          /\ kheld' = kheld \cup {<<firstpaddr + CM!KallocBase(n), n>>}
          /\ UNCHANGED brk
    /\ UNCHANGED <<bootstrapped, firstpaddr, wild>>

\* frame_kfree: pos = (paddr - firstpaddr)/PAGE_SIZE in unsigned arithmetic,
\* so an address below firstpaddr wraps to an index past the table.
FrameKfreePos(paddr) == paddr - firstpaddr
InCoremap(pos) == pos \in Frames

(***************************************************************************)
(* free_kpages(addr): before bootstrap the block is leaked.  After it,     *)
(* frame_kfree frees coremap[pos].npages frames from pos.  When pos is not *)
(* a frame of the table (a page stolen before cm_bootstrap) the read of    *)
(* coremap[pos] and the writes after it fall outside the table: undefined  *)
(* behaviour, whose outcomes (a kernel fault, or memory past the table     *)
(* overwritten) leave nothing more the model can say.                      *)
(***************************************************************************)
FreeKpages(k) ==
    /\ ~wild
    /\ kheld' = kheld \ {k}
    /\ \/ /\ ~IsBootstrapped
          /\ UNCHANGED <<coremap, timestamp, wild>>
       \/ /\ IsBootstrapped
          /\ InCoremap(FrameKfreePos(k[1]))
          /\ CM!FrameKfree(FrameKfreePos(k[1]))
          /\ UNCHANGED wild
       \/ /\ IsBootstrapped
          /\ ~InCoremap(FrameKfreePos(k[1]))
          /\ wild' = TRUE
          /\ UNCHANGED <<coremap, timestamp>>
    /\ UNCHANGED <<bootstrapped, brk, firstpaddr, kallocs>>

\* Once the kernel has written outside the table, or every call is spent.
Halted == (wild \/ (kallocs = MaxKallocs /\ kheld = {})) /\ UNCHANGED vars

Next ==
    \/ CmBootstrap
    \/ \E n \in KSizes : AllocKpages(n)
    \/ \E k \in kheld : FreeKpages(k)
    \/ Halted

Spec == Init /\ [][Next]_vars

-----------------------------------------------------------------------------

KTypeOK ==
    /\ IF bootstrapped THEN CM!CmTypeOK({NoAs}, {}) ELSE coremap = NULL
    /\ bootstrapped \in BOOLEAN /\ wild \in BOOLEAN
    /\ brk \in Nat /\ firstpaddr \in Nat
    /\ kheld \subseteq Nat \X KSizes
    /\ kallocs \in 0..MaxKallocs

(***************************************************************************)
(* No physical page is in two live kernel blocks, or in a live block and   *)
(* the coremap table: what ram_stealmem handed out before bootstrap, the   *)
(* table cm_bootstrap kmallocs, and what frame_kalloc hands out after are  *)
(* disjoint, across the switch from one allocator to the other.            *)
(***************************************************************************)
KernelBlocksDisjoint ==
    LET live == kheld \cup (IF bootstrapped THEN {TableBlock} ELSE {})
    IN  \A k1, k2 \in live : k1 # k2 => PagesOf(k1) \cap PagesOf(k2) = {}

(***************************************************************************)
(* After bootstrap the coremap accounts for every kernel page: a frame is  *)
(* FIXED exactly when it holds the table (frames 0..space/PAGE_SIZE) or    *)
(* lies in a live frame_kalloc block, whose first frame records its size,  *)
(* so free_kpages releases what alloc_kpages took, no more and no less.    *)
(***************************************************************************)
CoremapAccountsKernelPages ==
    bootstrapped =>
      /\ \A i \in Frames :
            (coremap[i].state = CM!FIXED) <=>
                \/ i <= TableSpace \div PAGE_SIZE
                \/ \E k \in kheld : firstpaddr + i \in PagesOf(k)
      /\ \A k \in kheld : k[1] >= firstpaddr => coremap[k[1] - firstpaddr].npages = k[2]

(***************************************************************************)
(* free_kpages after bootstrap only passes frame_kfree addresses the       *)
(* coremap covers, so frame_kfree never indexes past the table.            *)
(***************************************************************************)
KfreeWithinCoremap == ~wild
=============================================================================
