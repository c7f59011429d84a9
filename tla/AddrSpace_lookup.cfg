\* One address space: up to three regions from the headers of MC_AddrSpace,
\* then the two-page stack below USERSTACK = 32, checked at every address.
CONSTANTS
    PAGE_SIZE = 4
    USERSTACK = 32
    StackPages = 2
    Headers <- MCHeaders
    MaxRegions = 3
SPECIFICATION Spec
INVARIANT ASTypeOK
INVARIANT FaultLookupCorrect
INVARIANT PtUpdateMatchesLookup
