\* Two processes sharing three frames (one of which the kernel thread may
\* take), two swap slots and a two-entry TLB.
CONSTANTS
    Procs = {p1, p2}
    code = code
    data = data
    stack = stack
    Pages <- MCPages
    PageWritable <- MCPageWritable
    PageFileBacked <- MCPageFileBacked
    Frames = {0, 1, 2}
    CmTablePages = 0
    TsBits = 4
    NoAs = NoAs
    NoVa = NoVa
    KernelVa = KernelVa
    Slots = {0, 1}
    NoData = NoData
    NUM_TLB = 2
    KSizes = {1}
    MaxFaults = 5
    MaxStarts = 1
    MaxKallocs = 1
    SWAP_TEST = FALSE
    NUM_FREEFRAMES_TEST = 17

SYMMETRY MCSymmetry
SPECIFICATION Spec
INVARIANT TypeOK
INVARIANT PageHome
INVARIANT NoDanglingOwner
INVARIANT SwapInNeverMisses
INVARIANT TlbCoherent
INVARIANT WriteProtect
INVARIANT EvictPanicOnlyWhenNothingEvictable
INVARIANT StatsFaultsResolved
INVARIANT KernelFramesIntact
PROPERTY FramesChangeHandsSafely
