---------------------------- MODULE FileSyscalls ----------------------------
(***************************************************************************)
(* The file system calls of std_io.c and sys__exit (exit.c) for one        *)
(* process: its table proc->openedFiles of pointers into the system-wide  *)
(* open-file table, whose entries hold a vnode and an offset, and the      *)
(* open count of each vnode (vfs_open/vfs_close).                          *)
(*                                                                         *)
(* addOpenedFile, addOFPerProcess and getOffsetOF are not in this          *)
(* repository; they are given the effect std_io.c relies on: addOpenedFile *)
(* fills a free system entry (one whose vn is NULL, as sys_close leaves    *)
(* it) with the vnode at offset 0, addOFPerProcess stores it at a free fd  *)
(* from 3 up and returns that fd, or returns -1 when there is none, and    *)
(* getOffsetOF reads openedFiles[fd]->offset.  Offsets and file contents   *)
(* are left out: no property reads them, so a read or write through a     *)
(* valid entry changes no state of the model, and neither does console    *)
(* I/O.                                                                    *)
(***************************************************************************)
EXTENDS Integers

CONSTANTS
    OPT_SUPPORTFS,  \* the kernel option that compiles sys_open/sys_close in
    OPEN_MAX,       \* entries of proc->openedFiles
    OpenFiles,      \* entries of the system-wide open-file table
    Vnodes,         \* files the process can open
    NULL

ASSUME OPT_SUPPORTFS \in BOOLEAN /\ OPEN_MAX > 3
ASSUME NULL \notin OpenFiles \cup Vnodes

Fds == 0..(OPEN_MAX - 1)
STDIN_FILENO == 0
STDOUT_FILENO == 1
STDERR_FILENO == 2

\* The fds a user program can pass: the table, and one past each end.
UserFds == -1..OPEN_MAX

VARIABLES
    openedFiles,    \* proc->openedFiles: fd -> system entry or NULL
    oft,            \* system-wide table: entry -> its vnode, or NULL
    vnopen,         \* vnode -> vfs_open count not yet vfs_closed
    alive,          \* the process has not called _exit
    wild            \* a call dereferenced a NULL or out-of-range fd entry

vars == <<openedFiles, oft, vnopen, alive, wild>>

\* proc->openedFiles[fd], NULL for an index outside the array (what it
\* reads there is undefined, and is taken to be no open file).
Entry(fd) == IF fd \in Fds THEN openedFiles[fd] ELSE NULL

\* The process starts with no file of its own open.
Init ==
    /\ openedFiles = [fd \in Fds |-> NULL]
    /\ oft = [e \in OpenFiles |-> NULL]
    /\ vnopen = [v \in Vnodes |-> 0]
    /\ alive = TRUE /\ wild = FALSE

\* Every call is made by the running process, and none once the kernel
\* has dereferenced a bad entry.
Running == alive /\ ~wild

\* The dereference of proc->openedFiles[fd] by a call given a bad fd.
Deref(fd) ==
    /\ Entry(fd) = NULL
    /\ wild' = TRUE
    /\ UNCHANGED <<openedFiles, oft, vnopen, alive>>

(***************************************************************************)
(* sys_open: vfs_open fails (-1, nothing changed) or opens v; then         *)
(* addOpenedFile takes a free system entry and addOFPerProcess an fd.      *)
(* When that fd is below 3 (no free fd: -1) the vnode is vfs_closed, but   *)
(* the system entry filled for it keeps pointing at it.                    *)
(***************************************************************************)
SysOpen(v) ==
    /\ Running /\ OPT_SUPPORTFS
    /\ \/ UNCHANGED vars
       \/ \E e \in {x \in OpenFiles : oft[x] = NULL} :
            LET free == {fd \in 3..(OPEN_MAX - 1) : openedFiles[fd] = NULL}
            IN  /\ oft' = [oft EXCEPT ![e] = v]
                /\ \/ /\ free # {}
                      /\ \E fd \in free : openedFiles' = [openedFiles EXCEPT ![fd] = e]
                      /\ vnopen' = [vnopen EXCEPT ![v] = @ + 1]
                   \/ /\ free = {}
                      /\ UNCHANGED <<openedFiles, vnopen>>
                /\ UNCHANGED <<alive, wild>>

\* sys_close: vfs_close(openedFiles[fd]->vn), then both pointers set to NULL;
\* no check of fd.
SysClose(fd) ==
    /\ Running /\ OPT_SUPPORTFS
    /\ \/ Deref(fd)
       \/ /\ Entry(fd) # NULL
          /\ vnopen' = [vnopen EXCEPT ![oft[Entry(fd)]] = @ - 1]
          /\ oft' = [oft EXCEPT ![Entry(fd)] = NULL]
          /\ openedFiles' = [openedFiles EXCEPT ![fd] = NULL]
          /\ UNCHANGED <<alive, wild>>

\* The console fds each call leaves to kprintf/kgets.
ConsoleOut == {STDOUT_FILENO, STDERR_FILENO}
ConsoleIn == {STDIN_FILENO, STDERR_FILENO}

(***************************************************************************)
(* sys_write with OPT_SUPPORTFS, fd not a console output: getOffsetOF      *)
(* reads openedFiles[fd]->offset before VOP_WRITE.                         *)
(***************************************************************************)
SysWrite(fd) ==
    /\ Running
    /\ \/ /\ OPT_SUPPORTFS /\ fd \notin ConsoleOut
          /\ \/ Deref(fd)
             \/ Entry(fd) # NULL /\ UNCHANGED vars
       \/ /\ ~OPT_SUPPORTFS \/ fd \in ConsoleOut
          /\ UNCHANGED vars

(***************************************************************************)
(* sys_read with OPT_SUPPORTFS, fd not a console input (so STDOUT_FILENO   *)
(* is read through the table): openedFiles[fd]->offset is read before      *)
(* VOP_READ.                                                               *)
(***************************************************************************)
SysRead(fd) ==
    /\ Running
    /\ \/ /\ OPT_SUPPORTFS /\ fd \notin ConsoleIn
          /\ \/ Deref(fd)
             \/ Entry(fd) # NULL /\ UNCHANGED vars
       \/ /\ ~OPT_SUPPORTFS \/ fd \in ConsoleIn
          /\ UNCHANGED vars

\* sys__exit: as_destroy and thread_exit; the open files are not closed.
SysExit ==
    /\ Running
    /\ alive' = FALSE
    /\ UNCHANGED <<openedFiles, oft, vnopen, wild>>

\* The process has exited, or the kernel dereferenced a bad entry.
Halted == ~Running /\ UNCHANGED vars

Next ==
    \/ \E v \in Vnodes : SysOpen(v)
    \/ \E fd \in UserFds : SysClose(fd)
    \/ \E fd \in UserFds : SysWrite(fd) \/ SysRead(fd)
    \/ SysExit
    \/ Halted

Spec == Init /\ [][Next]_vars

-----------------------------------------------------------------------------

(***************************************************************************)
(* No system call given an fd by the user dereferences a NULL or           *)
(* out-of-range openedFiles entry: a closed, never opened or console fd    *)
(* that the call sends through the table is refused with an error rather  *)
(* than faulting in the kernel (sys_close, getOffsetOF in sys_write, and   *)
(* sys_read's openedFiles[fd]->offset).                                    *)
(***************************************************************************)
FdChecked == ~wild
=============================================================================
