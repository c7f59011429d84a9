\* All headers with 8-byte pages: the page count, load addresses and file
\* offsets agree with the reference.
CONSTANTS
    PAGE_SIZE = 8
    Headers <- MCHeaders

SPECIFICATION Spec
INVARIANT PagesCoverSegment
INVARIANT FileOffsetsMatchReference
