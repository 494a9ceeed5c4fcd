----------------------------- MODULE RepairTurns -----------------------------
(***************************************************************************)
(* What guard linking promises (docs: one repair per root cause): guards   *)
(* of a group take turns.  One repairs; others follow it and hold still;   *)
(* the end of the repair releases all its followers at once, and each      *)
(* checks its own device before it may do anything else.                   *)
(*                                                                         *)
(* No timers, health, attempts or operator here: GuardTurns shows that the *)
(* guards of GuardGroup, with all of these, take turns like this.          *)
(***************************************************************************)
CONSTANTS Guards,      \* the guards of an entry
          NoGuard,     \* nobody, as a leader
          Partners,    \* each guard's group
          Abandonable  \* guards whose repair may be cancelled under them: one
                       \* still looks repairing to its partners

VARIABLES turn,    \* turn[g]: what g does itself
          follows  \* follows[g]: whose repair g waits for

vars == <<turn, follows>>

Turns == {"free", "repair", "check"}

Init ==
  /\ turn = [g \in Guards |-> "free"]
  /\ follows = [g \in Guards |-> NoGuard]

Idle(g) == turn[g] = "free" /\ follows[g] = NoGuard

(* A guard may take the repair while a partner has it (a press does), but  *)
(* never while it follows one.                                             *)
Begin(g) ==
  /\ Idle(g)
  /\ UNCHANGED follows
  /\ turn' = [turn EXCEPT ![g] = "repair"]

(* Idle partners of a guard at work begin to follow it. *)
Join(l) ==
  /\ turn[l] # "free" \/ l \in Abandonable
  /\ UNCHANGED turn
  /\ \E joining \in SUBSET {g \in Partners[l] : Idle(g)} :
       follows' = [g \in Guards |-> IF g \in joining THEN l ELSE follows[g]]

(* The repair ends: nobody follows it any more, its followers check. *)
End(l) ==
  /\ turn[l] = "repair"
  /\ turn' = [g \in Guards |-> IF g = l THEN "free"
                               ELSE IF follows[g] = l THEN "check"
                               ELSE turn[g]]
  /\ follows' = [g \in Guards |-> IF follows[g] = l THEN NoGuard
                                  ELSE follows[g]]

Checked(g) ==
  /\ turn[g] = "check"
  /\ turn' = [turn EXCEPT ![g] = "free"]
  /\ UNCHANGED follows

(* A follower is taken out of its group's repair (it is snoozed). *)
Leave(g) ==
  /\ follows[g] # NoGuard
  /\ follows' = [follows EXCEPT ![g] = NoGuard]
  /\ UNCHANGED turn

Next ==
  \E g \in Guards :
    Begin(g) \/ Join(g) \/ End(g) \/ Checked(g) \/ Leave(g)

Spec == Init /\ [][Next]_vars
=============================================================================
