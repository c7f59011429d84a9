----------------------------- MODULE AbsPaging ------------------------------
(***************************************************************************)
(* What demand paging promises a user process: each page of its address   *)
(* space reads as nothing until first touched, then holds the page's own   *)
(* contents, and keeps them, wherever the kernel moves it, until the       *)
(* address space is destroyed.  Frames, swap slots and the TLB are        *)
(* invisible at this level.                                                *)
(***************************************************************************)
CONSTANTS Procs, Pages, NoData

VARIABLE view   \* view[p][v]: what page v of address space p holds

Data == Procs \X Pages

Init == view = [p \in Procs |-> [v \in Pages |-> NoData]]

\* First touch: the page is zero-filled or read from the executable.
Load(p, v) ==
    /\ view[p][v] = NoData
    /\ view' = [view EXCEPT ![p][v] = <<p, v>>]

\* The address space is destroyed; a new one starts empty.
Reset(p) == view' = [view EXCEPT ![p] = [v \in Pages |-> NoData]]

Next == \E p \in Procs : Reset(p) \/ \E v \in Pages : Load(p, v)

Spec == Init /\ [][Next]_view

TypeOK == view \in [Procs -> [Pages -> Data \cup {NoData}]]
=============================================================================
