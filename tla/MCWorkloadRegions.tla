-------------------------- MODULE MCWorkloadRegions --------------------------
(***************************************************************************)
(* An instance of WorkloadRegions for model checking.                      *)
(***************************************************************************)
EXTENDS WorkloadRegions

TwoRequests == {1, 2}
ThreeRegions == {"a", "b", "c"}
=============================================================================
