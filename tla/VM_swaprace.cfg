\* Two processes whose faults interleave around swap_in and swap_out.
CONSTANTS
    Procs = {p1, p2}
    code = code
    data = data
    stack = stack
    Pages <- MCPages
    PageWritable <- MCPageWritable
    PageFileBacked <- MCPageFileBacked
    Frames = {0, 1, 2}
    CmTablePages = 0
    TsBits = 4
    NoAs = NoAs
    NoVa = NoVa
    KernelVa = KernelVa
    Slots = {0, 1}
    NoData = NoData
    NUM_TLB = 2
    KSizes = {1}
    MaxFaults = 5
    MaxStarts = 1
    MaxKallocs = 1
    SWAP_TEST = FALSE
    NUM_FREEFRAMES_TEST = 17

SPECIFICATION Spec
INVARIANT PagesKeepTheirData
