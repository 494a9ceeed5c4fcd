------------------------------- MODULE MCGroup -------------------------------
(* Instances of GuardGroup for TLC. *)
EXTENDS GuardTurns, TLC

CONSTANTS a, b, c

(* One group of all guards. *)
AllLinked == [g \in Guards |-> Guards \ {g}]

OneAttempt == [g \in Guards |-> 1]
MixedAttempts == [g \in Guards |-> IF g = a THEN 2 ELSE 1]

(* The instances that use it treat every guard alike. *)
Interchangeable == Permutations(Guards)
=============================================================================
