----------------------------- MODULE MCCoordinator -----------------------------
(* Model checking instance of Coordinator: three signers are enough for a   *)
(* quorum of two with one signer left over.                                 *)
EXTENDS CoordinatorAudit, TLC

SignerSymmetry == Permutations(Signers)
================================================================================
