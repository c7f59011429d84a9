\* The kernel page allocator across cm_bootstrap: 6 frames of 8 bytes with
\* 3-byte entries, so the table (18 bytes) spans 3 pages and space/PAGE_SIZE
\* is 2; 3 pages can be stolen before bootstrap.
CONSTANTS
    Frames <- MCFrames
    PAGE_SIZE = 8
    EntryBytes = 3
    TsBits = 3
    NoAs = NoAs
    NoVa = NoVa
    KernelVa = KernelVa
    KSizes = {1, 2}
    MaxBootPages = 3
    MaxKallocs = 4
SPECIFICATION Spec
INVARIANT KfreeWithinCoremap
