--------------------------- MODULE MCVmInventory ---------------------------
(***************************************************************************)
(* VmInventory for TLC: the pool, an assign worker and two session creates *)
(* after one VM.                                                           *)
(***************************************************************************)
EXTENDS VmInventory

\* dispatcher.ex, handle_info {:vm_primed, ...}: "known_vm_ids counts the vm_id
\* immediately, closing the window where adopt_inventory would see the node reporting a
\* just-primed miss VM as primed and re-adopt it (the VM is single-use and about to be
\* assigned by this worker)".
MissNotReadopted ==
  \A w \in Workers : meta[w] # NoMeta /\ step[w] \in {"primed", "assign"} => own[w] \notin Parked

=============================================================================
