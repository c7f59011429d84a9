---------------------------- MODULE SegmentLoad -----------------------------
(***************************************************************************)
(* The partial-page arithmetic of on-demand ELF loading: as_define_region  *)
(* (addrspace.c) turns a program header into a segment_entry, and          *)
(* vm_fault (vm.c) computes, for page i of the segment, how many bytes to  *)
(* read (compute_memsz), from which file offset (compute_offset) and to    *)
(* which user address.  These are pure functions of the header, so the   *)
(* state is just the header being loaded; the properties compare the code *)
(* with a reference: page i must receive exactly the bytes of the segment *)
(* that lie in page i, each from its own file position.                    *)
(***************************************************************************)
EXTENDS Integers

CONSTANTS
    PAGE_SIZE,  \* a power of two; the arithmetic does not depend on its size
    Headers     \* program headers [vaddr, offset, size] to load

ASSUME PAGE_SIZE \in {2^k : k \in 1..12}

\* ELF requires p_offset and p_vaddr to agree modulo the page size.
ASSUME \A h \in Headers : h.size > 0 /\ h.vaddr % PAGE_SIZE = h.offset % PAGE_SIZE

VARIABLE ph     \* the program header whose segment is being loaded

\* x & PAGE_FRAME and x & ~PAGE_FRAME
PageFrame(x) == x - (x % PAGE_SIZE)
PageOffset(x) == x % PAGE_SIZE

(* ---------------------------- the code ---------------------------------- *)

\* (mutation) the length is rounded up without the base's displacement.
RegionNpagesNoDisp(vaddr, sz) == (sz + PAGE_SIZE - 1) \div PAGE_SIZE

\* as_define_region: sz += vaddr & ~PAGE_FRAME, rounded up to whole pages.
RegionNpages(vaddr, sz) == (sz + PageOffset(vaddr) + PAGE_SIZE - 1) \div PAGE_SIZE

\* as_define_region + sgm_create: the segment keeps the page-aligned base,
\* the page count, the exact size and the (unaligned) file offset.
AsDefineRegion(h) ==
    [first_addr |-> PageFrame(h.vaddr), npages |-> RegionNpages(h.vaddr, h.size),
     size |-> h.size, offset |-> h.offset]

\* compute_memsz (all operands are size_t; none of them goes below zero)
ComputeMemsz(seg, i) ==
    CASE seg.size < PAGE_SIZE -> seg.size
      [] i = 1                -> PAGE_SIZE - PageOffset(seg.offset)
      [] i = seg.npages       -> PAGE_SIZE - ((seg.npages * PAGE_SIZE - seg.size)
                                               - PageOffset(seg.offset))
      [] OTHER                -> PAGE_SIZE

\* (mutation) the later pages keep the unaligned offset.
ComputeOffsetUnaligned(offset, i) == offset + (i - 1) * PAGE_SIZE

\* compute_offset
ComputeOffset(offset, i) ==
    IF i # 1 THEN PageFrame(offset + (i - 1) * PAGE_SIZE) ELSE offset + (i - 1) * PAGE_SIZE

\* vm_fault: page i is the i-th entry from first_pt_entry; for i = 1 the
\* load starts at faultaddress + (seg->offset & ~PAGE_FRAME).
LoadAddr(seg, i) ==
    seg.first_addr + (i - 1) * PAGE_SIZE + (IF i = 1 THEN PageOffset(seg.offset) ELSE 0)

Seg == AsDefineRegion(ph)
Pages == 1..Seg.npages

Init == ph \in Headers
Next == UNCHANGED ph
Spec == Init /\ [][Next]_ph

(* --------------------------- the reference ------------------------------ *)

\* The bytes of header h's [vaddr, vaddr + size) that fall in page i of its
\* segment.
RefLo(h, i) == LET lo == AsDefineRegion(h).first_addr + (i - 1) * PAGE_SIZE
               IN  IF h.vaddr > lo THEN h.vaddr ELSE lo
RefHi(h, i) == LET hi == AsDefineRegion(h).first_addr + i * PAGE_SIZE
               IN  IF h.vaddr + h.size < hi THEN h.vaddr + h.size ELSE hi

\* The page count of h's segment is exact: its pages cover every byte of the
\* segment and the last one holds at least one of them.
PagesCoverHeader(h) ==
    LET sg == AsDefineRegion(h)
    IN  /\ sg.first_addr <= h.vaddr
        /\ h.vaddr + h.size <= sg.first_addr + sg.npages * PAGE_SIZE
        /\ h.vaddr + h.size > sg.first_addr + (sg.npages - 1) * PAGE_SIZE

\* Every page of h's segment loads from its first segment byte, read from
\* that byte's own file position.
FileOffsetsMatchHeader(h) ==
    LET sg == AsDefineRegion(h)
    IN  \A i \in 1..sg.npages :
            /\ LoadAddr(sg, i) = RefLo(h, i)
            /\ ComputeOffset(sg.offset, i) = h.offset + (RefLo(h, i) - h.vaddr)

(***************************************************************************)
(* as_define_region's page count is exact: the segment's pages cover every *)
(* byte of the segment and the last one holds at least one of them, so     *)
(* vm_fault's page walk reaches every byte and no page is spurious.        *)
(***************************************************************************)
PagesCoverSegment == PagesCoverHeader(ph)

(***************************************************************************)
(* Every page's load starts at the first segment byte in that page and     *)
(* reads it from that byte's own file position (compute_offset and the     *)
(* first-page adjustment in vm_fault), so an unaligned first page and the *)
(* aligned later pages line up with the file.                              *)
(***************************************************************************)
FileOffsetsMatchReference == FileOffsetsMatchHeader(ph)

(***************************************************************************)
(* Every page's load reads exactly the segment bytes that lie in that      *)
(* page (compute_memsz), never running past the page or past the segment. *)
(***************************************************************************)
LoadSizesMatchReference ==
    \A i \in Pages : ComputeMemsz(Seg, i) = RefHi(ph, i) - RefLo(ph, i)
=============================================================================
