------------------------------ MODULE GuardTurns ------------------------------
(***************************************************************************)
(* The guards of GuardGroup take turns as RepairTurns says: the mapping of *)
(* a guard record to its turn, and the refinement.                         *)
(***************************************************************************)
EXTENDS GuardGroup

TurnOf(r) ==
  CASE r.task \in CyclePoints    -> "repair"
    [] r.task \in ValidatePoints -> "check"
    [] OTHER                     -> "free"

Turns == INSTANCE RepairTurns
           WITH turn        <- [g \in Guards |-> TurnOf(guard[g])],
                follows     <- [g \in Guards |-> guard[g].leader],
                Abandonable <- Cancellable

(* Every step of the linked guards - links.py:115-215 and the cycle task   *)
(* that calls it - is a step of turn-taking or none: a guard at work never *)
(* follows, a follower never starts a repair, and the end of a repair, in  *)
(* whatever way, turns every follower over to its own check in one step.   *)
RefinesTurns == Turns!Spec
=============================================================================
