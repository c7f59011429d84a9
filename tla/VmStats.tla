------------------------------ MODULE VmStats -------------------------------
(***************************************************************************)
(* The statistics counters of src/kern/vm/vm_stats.c.  vmstats_inc takes   *)
(* stats_lock around one increment, so an increment is part of whatever    *)
(* step performs it; counters are a function from the names of             *)
(* vm_stats.h to naturals.  TLB_INVALID (counted by as_activate) is left   *)
(* out: no identity of vmstats_print reads it.                             *)
(***************************************************************************)
EXTENDS Naturals

Counters == {"TLB_FAULT", "TLB_FAULT_FREE", "TLB_FAULT_REPLACE", "TLB_RELOAD",
             "PAGE_FAULT_ZERO", "PAGE_FAULT_DISK", "PAGE_FAULT_ELF",
             "PAGE_FAULT_SWAP", "SWAP_FILE_WRITE"}

\* vmstats_init
StatsInit == [c \in Counters |-> 0]

\* vmstats_inc; tlbR's "NONE" is the path that increments nothing.
Inc(s, c) == IF c \in Counters THEN [s EXCEPT ![c] = @ + 1] ELSE s

\* The three checks vmstats_print reports at shutdown.
TlbFaultsSplit(s) == s["TLB_FAULT_FREE"] + s["TLB_FAULT_REPLACE"] = s["TLB_FAULT"]
TlbFaultsResolved(s) ==
    s["TLB_RELOAD"] + s["PAGE_FAULT_DISK"] + s["PAGE_FAULT_ZERO"] = s["TLB_FAULT"]
DiskFaultsSplit(s) == s["PAGE_FAULT_ELF"] + s["PAGE_FAULT_SWAP"] = s["PAGE_FAULT_DISK"]
=============================================================================
