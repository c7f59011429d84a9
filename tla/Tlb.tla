-------------------------------- MODULE Tlb ---------------------------------
(***************************************************************************)
(* The software-managed TLB as written by src/kern/vm/tlb.c and flushed by *)
(* as_activate (addrspace.c).  Both writers run with interrupts off        *)
(* (splhigh), and one fault can call them more than once, so they are      *)
(* operators from a TLB value to the new TLB value plus the statistics     *)
(* counter the call increments; the caller threads them through a step.    *)
(* A TLB value is [e |-> entries, next |-> round-robin index]; an entry    *)
(* holds the page (EntryHi), the frame, and the VALID and DIRTY bits.      *)
(***************************************************************************)
EXTENDS Integers

CONSTANTS
    NUM_TLB,    \* number of TLB slots
    NoVa        \* TLBHI_INVALID(i): no page

ASSUME NUM_TLB \in Nat \ {0}

TlbIdx == 0..(NUM_TLB - 1)

InvalidEntry == [valid |-> FALSE, va |-> NoVa, frame |-> 0, dirty |-> FALSE]

\* as_activate: every slot invalidated.  tlb_get_rr_victim's static
\* next_victim starts at 0 and is never reset.
TlbFlushed(t) == [t EXCEPT !.e = [i \in TlbIdx |-> InvalidEntry]]
TlbInit == [e |-> [i \in TlbIdx |-> InvalidEntry], next |-> 0]

\* tlb_probe: the slot whose EntryHi is va.
Probe(t, va) ==
    IF \E i \in TlbIdx : t.e[i].valid /\ t.e[i].va = va
    THEN CHOOSE i \in TlbIdx : t.e[i].valid /\ t.e[i].va = va
    ELSE -1

Entry(va, f, dirty) == [valid |-> TRUE, va |-> va, frame |-> f, dirty |-> dirty]

\* (mutation) the in-place update keeps a DIRTY bit already set.
TlbWKeepsDirty(t, va, f, write) ==
    LET hit  == Probe(t, va)
        free == {i \in TlbIdx : ~t.e[i].valid}
        fst  == CHOOSE i \in free : \A j \in free : i <= j
    IN  IF hit >= 0
        THEN [tlb |-> [t EXCEPT !.e[hit] = Entry(va, f, write \/ t.e[hit].dirty)],
              ctr |-> "TLB_FAULT_FREE"]
        ELSE IF free # {}
        THEN [tlb |-> [t EXCEPT !.e[fst] = Entry(va, f, write)], ctr |-> "TLB_FAULT_FREE"]
        ELSE [tlb |-> [e |-> [t.e EXCEPT ![t.next] = Entry(va, f, write)],
                       next |-> (t.next + 1) % NUM_TLB],
              ctr |-> "TLB_FAULT_REPLACE"]

\* tlbW: update the slot already holding va (and still count it as a
\* "free" fault), else the first invalid slot, else the round-robin victim.
TlbW(t, va, f, write) ==
    LET hit  == Probe(t, va)
        free == {i \in TlbIdx : ~t.e[i].valid}
        fst  == CHOOSE i \in free : \A j \in free : i <= j
    IN  IF hit >= 0
        THEN [tlb |-> [t EXCEPT !.e[hit] = Entry(va, f, write)], ctr |-> "TLB_FAULT_FREE"]
        ELSE IF free # {}
        THEN [tlb |-> [t EXCEPT !.e[fst] = Entry(va, f, write)], ctr |-> "TLB_FAULT_FREE"]
        ELSE [tlb |-> [e |-> [t.e EXCEPT ![t.next] = Entry(va, f, write)],
                       next |-> (t.next + 1) % NUM_TLB],
              ctr |-> "TLB_FAULT_REPLACE"]

\* (mutation) tlbR probing for the faulting page instead of the victim.
TlbRProbesFault(t, victim, va, f) ==
    LET x == Probe(t, va)
    IN  IF x >= 0
        THEN [tlb |-> [t EXCEPT !.e[x] = Entry(va, f, TRUE)], ctr |-> "TLB_FAULT_FREE"]
        ELSE [tlb |-> t, ctr |-> "NONE"]

\* tlbR: if the evicted page is cached, its slot now maps the faulting page
\* to the reused frame, writable.
TlbR(t, victim, va, f) ==
    LET x == Probe(t, victim)
    IN  IF x >= 0
        THEN [tlb |-> [t EXCEPT !.e[x] = Entry(va, f, TRUE)], ctr |-> "TLB_FAULT_FREE"]
        ELSE [tlb |-> t, ctr |-> "NONE"]
=============================================================================
