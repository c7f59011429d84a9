---------------------------- MODULE MC_AddrSpace -----------------------------
EXTENDS AddrSpace

\* With 4-byte pages: two pages at 0 (unaligned start), the page at 8 right
\* after them, three pages from 4 sharing the page at 4 with the first, an
\* empty region at a page boundary, and a page ending where the stack begins.
MCHeaders ==
    { [vaddr |-> 2,  offset |-> 2,  size |-> 5],
      [vaddr |-> 8,  offset |-> 8,  size |-> 4],
      [vaddr |-> 6,  offset |-> 10, size |-> 7],
      [vaddr |-> 12, offset |-> 0,  size |-> 0],
      [vaddr |-> 20, offset |-> 4,  size |-> 4] }
=============================================================================
