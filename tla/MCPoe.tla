-------------------------------- MODULE MCPoe --------------------------------
(* Instances of PoeFabric for TLC. *)
EXTENDS PoeCalls, TLC

(* The ports are told apart by their order; callers and devices are not. *)
Interchangeable == Permutations(Callers) \cup Permutations(Devices)
=============================================================================
