--------------------------- MODULE MC_SegmentLoad ---------------------------
(***************************************************************************)
(* Every program header whose segment starts in the second page, at any    *)
(* displacement, from either of two file pages, of 1 to 3 pages in size.   *)
(***************************************************************************)
EXTENDS SegmentLoad

MCHeaders ==
    {[vaddr |-> PAGE_SIZE + d, offset |-> k * PAGE_SIZE + d, size |-> sz] :
        d \in 0..(PAGE_SIZE - 1), k \in 0..1, sz \in 1..(3 * PAGE_SIZE)}

=============================================================================
