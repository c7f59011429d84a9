\* All headers with 8-byte pages: the load sizes against the reference.
CONSTANTS
    PAGE_SIZE = 8
    Headers <- MCHeaders

SPECIFICATION Spec
INVARIANT LoadSizesMatchReference
