-------------------------- MODULE MCCoordinatorServer --------------------------
(* Model checking instance of CoordinatorServer: connections are            *)
(* interchangeable, and so are signers.                                     *)
EXTENDS CoordinatorServer, TLC

ServerSymmetry == Permutations(Conns) \cup Permutations(Signers)
================================================================================
