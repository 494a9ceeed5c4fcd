---------------------------- MODULE MCGuardFlows ----------------------------
(* Instances of GuardFlows for TLC. *)
EXTENDS GuardFlows, TLC

(* Ids and dialogs are interchangeable (every guard is Fallible or none). *)
Interchangeable == Permutations(Guards) \cup Permutations(Dialogs)
=============================================================================
