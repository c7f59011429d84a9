\* The headers of MC_AddrSpace, among them an empty one at a page boundary:
\* as_define_region is asked for a region of no pages.
CONSTANTS
    PAGE_SIZE = 4
    USERSTACK = 32
    StackPages = 2
    Headers <- MCHeaders
    MaxRegions = 3
SPECIFICATION Spec
INVARIANT ChainsInitialised
