--------------------------- MODULE MCPortOptions ---------------------------
(* An instance of PortOptions for TLC. *)
EXTENDS PortOptions

SameLabels == Permutations(Labels)
=============================================================================
