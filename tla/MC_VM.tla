-------------------------------- MODULE MC_VM -------------------------------
(***************************************************************************)
(* Model-checking instance of VM: a process image with a read-only code    *)
(* page, a writable data page and a stack page.                            *)
(***************************************************************************)
EXTENDS VM, TLC

CONSTANTS code, data, stack

MCPages == {code, data, stack}
MCPageWritable == [v \in MCPages |-> v # code]
MCPageFileBacked == [v \in MCPages |-> v # stack]

MCSymmetry == Permutations(Procs)
=============================================================================
