------------------------------- MODULE Swap --------------------------------
(***************************************************************************)
(* The swap store of src/kern/vm/swap.c: the slot table `swapspace`        *)
(* (owner address space and virtual address per slot, guarded by sw_lock) *)
(* and the contents of the swap file, one page per slot.  swap_in and      *)
(* swap_out each do their table work under sw_lock and their VOP_READ /    *)
(* VOP_WRITE after releasing it, so each is two actions here.  A page's    *)
(* bytes are abstracted to a tag naming whose page they are.               *)
(***************************************************************************)
EXTENDS Integers

CONSTANTS
    Slots,      \* 0..SWAP_SIZE-1
    NoAs,       \* NULL
    NoVa,       \* vaddr 0
    NoData      \* contents of a slot never written

VARIABLES swapspace, swapfile

swapVars == <<swapspace, swapfile>>

NoSlot == -1    \* i == SWAP_SIZE after the scan

EmptySlot == [as |-> NoAs, va |-> NoVa]

\* swapspace_bootstrap: every slot empty; the file holds nothing of ours.
SwapInit ==
    /\ swapspace = [i \in Slots |-> EmptySlot]
    /\ swapfile = [i \in Slots |-> NoData]

FirstSlot(S) == IF S = {} THEN NoSlot ELSE CHOOSE i \in S : \A j \in S : i <= j

\* swap_out's scan: the first slot with as == NULL.
SwapOutSlot == FirstSlot({i \in Slots : swapspace[i].as = NoAs})

\* swap_out under sw_lock: the slot is reserved for (as, va) before the write.
SwapOutReserve(as, va, i) ==
    /\ swapspace' = [swapspace EXCEPT ![i] = [as |-> as, va |-> va]]
    /\ UNCHANGED swapfile

\* (mutation) the write's uio offset left at 0 instead of i*PAGE_SIZE.
SwapOutWriteAtZero(i, data) ==
    /\ swapfile' = [swapfile EXCEPT ![FirstSlot(Slots)] = data]
    /\ UNCHANGED swapspace

\* swap_out after sw_lock: VOP_WRITE of one page at i*PAGE_SIZE.
SwapOutWrite(i, data) ==
    /\ swapfile' = [swapfile EXCEPT ![i] = data]
    /\ UNCHANGED swapspace

\* swap_in's scan: the first slot holding (as, va).
SwapInSlot(as, va) == FirstSlot({i \in Slots : swapspace[i] = [as |-> as, va |-> va]})

\* swap_in under sw_lock: the slot is released before the read.
SwapInRelease(i) ==
    /\ swapspace' = [swapspace EXCEPT ![i] = EmptySlot]
    /\ UNCHANGED swapfile

\* swap_in after sw_lock: VOP_READ of one page from i*PAGE_SIZE.
SwapInData(i) == swapfile[i]

\* (mutation) the owner test dropped: every slot is released.
SwapAsfreeAll(as) ==
    /\ swapspace' = [i \in Slots |-> EmptySlot]
    /\ UNCHANGED swapfile

\* swap_asfree: every slot of `as` is released.
SwapAsfree(as) ==
    /\ swapspace' = [i \in Slots |-> IF swapspace[i].as = as THEN EmptySlot ELSE swapspace[i]]
    /\ UNCHANGED swapfile

SwapTypeOK(Owners, Vas, Data) ==
    /\ swapspace \in [Slots -> [as : Owners \cup {NoAs}, va : Vas \cup {NoVa}]]
    /\ swapfile \in [Slots -> Data \cup {NoData}]
=============================================================================
