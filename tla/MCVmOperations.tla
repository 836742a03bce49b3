--------------------------- MODULE MCVmOperations ---------------------------
(***************************************************************************)
(* VmOperations on two VMs and two requests at a time.                     *)
(***************************************************************************)
EXTENDS VmOperations, TLC

\* A resize gives nothing, or everything.
MCResizes == {{}, Fields}

\* Puma's threads are interchangeable.
Symmetric == Permutations(Threads)
=============================================================================
