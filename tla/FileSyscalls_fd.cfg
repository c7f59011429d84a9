\* A process with a five-entry fd table (two beyond the console fds), three
\* system entries and two files, with OPT_SUPPORTFS.
CONSTANTS
    OPT_SUPPORTFS = TRUE
    OPEN_MAX = 5
    OpenFiles = {e1, e2, e3}
    Vnodes = {v1, v2}
    NULL = NULL
SPECIFICATION Spec
INVARIANT FdChecked
