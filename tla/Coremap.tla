------------------------------ MODULE Coremap ------------------------------
(***************************************************************************)
(* The physical-frame table of src/kern/vm/coremap.c: one entry per frame  *)
(* of RAM (owner address space, virtual address, state, run length,        *)
(* timestamp) and the global allocation counter `timestamp`.  Every        *)
(* function of coremap.c that changes the table is an action here; the    *)
(* functions that compute a position (the scans) are state functions the   *)
(* caller reads in the same step.  All of them run under cm_lock, so each  *)
(* is one atomic step.                                                     *)
(***************************************************************************)
EXTENDS Integers, FiniteSets

CONSTANTS
    Frames,         \* frame indices 0..ram_frames-1
    CmTablePages,   \* space/PAGE_SIZE in cm_bootstrap: size of the table itself
    TsBits,         \* width of the unsigned timestamp counter
    NoAs,           \* the NULL address space
    NoVa,           \* virt_addr 0
    KernelVa        \* PADDR_TO_KVADDR(...) stored in kernel frames

ASSUME Frames = 0..(Cardinality(Frames) - 1)
ASSUME CmTablePages \in Nat /\ CmTablePages < Cardinality(Frames)
ASSUME TsBits \in Nat \ {0}

VARIABLES coremap, timestamp

cmVars == <<coremap, timestamp>>

\* frame_state (coremap.h:56-61)
FREE == "FREE"
FIXED == "FIXED"
LOADING == "LOADING"
CLEAN == "CLEAN"
FrameStates == {FREE, FIXED, LOADING, CLEAN}

\* `unsigned int` arithmetic: timestamp++ wraps, and -1 is the largest value.
TsMod == 2 ^ TsBits
TsUnset == TsMod - 1
NextTs == (timestamp + 1) % TsMod

NoFrame == -1   \* the 0 returned by frame_alloc / frame_kalloc, and min_pos = -1

\* (mutation) the reset written with a signed -1 timestamp.
ClearedSignedTs(e, st) == [e EXCEPT !.as = NoAs, !.va = NoVa, !.state = st,
                                    !.npages = 0, !.ts = -1]

\* The entry every free/evict path writes: as = NULL, virt_addr = 0,
\* npages = 0, timestamp = -1 (the state is set separately).
Cleared(e, st) == [e EXCEPT !.as = NoAs, !.va = NoVa, !.state = st,
                            !.npages = 0, !.ts = TsUnset]

\* (mutation) only the frames strictly below space/PAGE_SIZE are FIXED.
CmBootstrapTableStrict ==
    [i \in Frames |-> [as |-> NoAs, va |-> NoVa, npages |-> 0,
                       state |-> IF i < CmTablePages THEN FIXED ELSE FREE,
                       ts |-> IF i < CmTablePages THEN i ELSE TsUnset]]

(***************************************************************************)
(* cm_bootstrap: frames 0..space/PAGE_SIZE hold the table itself and are   *)
(* FIXED, each stamped with timestamp++; the others are FREE.              *)
(***************************************************************************)
CmBootstrapTable ==
    [i \in Frames |-> [as |-> NoAs, va |-> NoVa, npages |-> 0,
                       state |-> IF i <= CmTablePages THEN FIXED ELSE FREE,
                       ts |-> IF i <= CmTablePages THEN i ELSE TsUnset]]

CmBootstrapTs == (CmTablePages + 1) % TsMod

CmInit == coremap = CmBootstrapTable /\ timestamp = CmBootstrapTs

(***************************************************************************)
(* cm_bootstrap_4test: every frame FIXED and stamped timestamp++ from 0,   *)
(* then the last nfree frames are made FREE, keeping their stamps (the     *)
(* unsigned start index ram_frames - nfree wraps if nfree > ram_frames,   *)
(* and then no frame is freed).                                            *)
(***************************************************************************)
CmInit4Test(nfree) ==
    LET n == Cardinality(Frames) IN
    /\ coremap = [i \in Frames |->
                    [as |-> NoAs, va |-> NoVa, npages |-> 0, ts |-> i % TsMod,
                     state |-> IF nfree <= n /\ i >= n - nfree THEN FREE ELSE FIXED]]
    /\ timestamp = n % TsMod

IsFree(i) == coremap[i].state = FREE

(***************************************************************************)
(* frame_kalloc's scan: the loop keeps `first` at the start of the current *)
(* run of FREE frames and stops at the first i where that run reaches      *)
(* nframes, so it returns the lowest base of nframes consecutive FREE      *)
(* frames.                                                                 *)
(***************************************************************************)
\* (mutation) a run one frame short is accepted.
KallocBaseShort(n) ==
    LET bases == {b \in Frames : \A j \in b..(b + n - 2) : j \in Frames /\ IsFree(j)}
    IN  IF bases = {} THEN NoFrame ELSE CHOOSE b \in bases : \A c \in bases : b <= c

KallocBase(n) ==
    LET bases == {b \in Frames : \A j \in b..(b + n - 1) : j \in Frames /\ IsFree(j)}
    IN  IF bases = {} THEN NoFrame ELSE CHOOSE b \in bases : \A c \in bases : b <= c

\* frame_kalloc, success branch: the run becomes FIXED, npages is written on
\* the first frame only, every frame gets the same timestamp, then one ++.
FrameKalloc(n, b) ==
    /\ coremap' = [i \in Frames |->
                     IF i \in b..(b + n - 1)
                     THEN [coremap[i] EXCEPT !.state = FIXED, !.as = NoAs, !.va = KernelVa,
                                             !.ts = timestamp,
                                             !.npages = IF i = b THEN n ELSE @]
                     ELSE coremap[i]]
    /\ timestamp' = NextTs

\* (mutation) the scan takes any frame that is not FIXED.
FrameAllocPosNotFixed ==
    IF \E i \in Frames : coremap[i].state # FIXED
    THEN CHOOSE i \in Frames : coremap[i].state # FIXED /\ \A j \in Frames : coremap[j].state # FIXED => i <= j
    ELSE NoFrame

\* frame_alloc's scan: the first FREE frame.
FrameAllocPos ==
    IF \E i \in Frames : IsFree(i)
    THEN CHOOSE i \in Frames : IsFree(i) /\ \A j \in Frames : IsFree(j) => i <= j
    ELSE NoFrame

\* frame_alloc, success branch, on the frame FrameAllocPos.
FrameAlloc(as, va, i) ==
    /\ coremap' = [coremap EXCEPT ![i] = [as |-> as, va |-> va, state |-> LOADING,
                                          npages |-> 1, ts |-> timestamp]]
    /\ timestamp' = NextTs

\* (mutation) the freed frames' timestamp written as a signed -1.
FrameKfreeSignedTs(pos) ==
    /\ coremap' = [i \in Frames |->
                     IF i \in pos..(pos + coremap[pos].npages - 1)
                     THEN [coremap[i] EXCEPT !.state = FREE, !.npages = 0,
                                             !.va = NoVa, !.ts = -1]
                     ELSE coremap[i]]
    /\ UNCHANGED timestamp

\* (mutation) the loop stops one frame before pos + npages.
FrameKfreeShort(pos) ==
    /\ coremap' = [i \in Frames |->
                     IF i \in pos..(pos + coremap[pos].npages - 2)
                     THEN [coremap[i] EXCEPT !.state = FREE, !.npages = 0,
                                             !.va = NoVa, !.ts = TsUnset]
                     ELSE coremap[i]]
    /\ UNCHANGED timestamp

\* frame_kfree: frees coremap[pos].npages frames from pos; `as` is left alone.
FrameKfree(pos) ==
    /\ coremap' = [i \in Frames |->
                     IF i \in pos..(pos + coremap[pos].npages - 1)
                     THEN [coremap[i] EXCEPT !.state = FREE, !.npages = 0,
                                             !.va = NoVa, !.ts = TsUnset]
                     ELSE coremap[i]]
    /\ UNCHANGED timestamp

\* (mutation) only CLEAN frames of `as` are released.
CmAsfreeCleanOnly(as) ==
    /\ coremap' = [i \in Frames |->
                     IF coremap[i].as = as /\ coremap[i].state = CLEAN
                     THEN Cleared(coremap[i], FREE)
                     ELSE coremap[i]]
    /\ UNCHANGED timestamp

\* cm_asfree: every non-FIXED frame of `as` becomes FREE.
CmAsfree(as) ==
    /\ coremap' = [i \in Frames |->
                     IF coremap[i].as = as /\ coremap[i].state # FIXED
                     THEN Cleared(coremap[i], FREE)
                     ELSE coremap[i]]
    /\ UNCHANGED timestamp

(***************************************************************************)
(* cm_evict's scan.  min starts at the global timestamp and only a strictly *)
(* smaller timestamp replaces it, so the candidates are the CLEAN frames   *)
(* of `as` (not FIXED, not LOADING, and FREE frames have as = NULL) whose  *)
(* timestamp is below the counter; the first one with the least timestamp  *)
(* wins.                                                                   *)
(***************************************************************************)
EvictCandidates(as) ==
    {i \in Frames : /\ coremap[i].as = as
                    /\ coremap[i].state \notin {FIXED, LOADING}
                    /\ coremap[i].ts < timestamp}

EvictPos(as) ==
    LET C == EvictCandidates(as)
    IN  IF C = {} THEN NoFrame
        ELSE CHOOSE i \in C : \A j \in C : \/ coremap[i].ts < coremap[j].ts
                                           \/ coremap[i].ts = coremap[j].ts /\ i <= j

\* cm_evict after a victim was found at pos: the frame is cut loose from its
\* owner and held LOADING.  (min_pos < 0 is the panic, taken by the caller.)
CmEvict(pos) ==
    /\ coremap' = [coremap EXCEPT ![pos] = Cleared(@, LOADING)]
    /\ UNCHANGED timestamp

\* (mutation) cm_update_vaddr that leaves the cleared timestamp (-1).
CmUpdateVaddrNoStamp(as, pos, va) ==
    /\ coremap' = [coremap EXCEPT ![pos] = [as |-> as, va |-> va, state |-> LOADING,
                                            npages |-> 1, ts |-> TsUnset]]
    /\ UNCHANGED timestamp

\* cm_update_vaddr: the evicted frame is given to (as, va), LOADING, restamped.
CmUpdateVaddr(as, pos, va) ==
    /\ coremap' = [coremap EXCEPT ![pos] = [as |-> as, va |-> va, state |-> LOADING,
                                            npages |-> 1, ts |-> timestamp]]
    /\ timestamp' = NextTs

\* cm_check_state
CmCheckState(pos, st) == coremap[pos].state = st

\* cm_update_state
CmUpdateState(pos, st) ==
    /\ coremap' = [coremap EXCEPT ![pos].state = st]
    /\ UNCHANGED timestamp

CmTypeOK(Owners, Vas) ==
    /\ coremap \in [Frames -> [as : Owners \cup {NoAs}, va : Vas \cup {NoVa, KernelVa},
                               state : FrameStates, npages : 0..Cardinality(Frames),
                               ts : 0..TsUnset]]
    /\ timestamp \in 0..TsUnset
=============================================================================
