------------------------------- MODULE MCEntry -------------------------------
(* Instances of EntryLifecycle for TLC. *)
EXTENDS EntryLifecycle

CONSTANTS a, b

Unlinked == [g \in Guards |-> {}]
Linked == [g \in Guards |-> Guards \ {g}]
OneAttempt == [g \in Guards |-> 1]
=============================================================================
