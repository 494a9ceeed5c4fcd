------------------------------- MODULE PoeCalls -------------------------------
(***************************************************************************)
(* The callers of PoeFabric share cycles as SharedCycles says: the mapping *)
(* of a call to the answer that it has coming, and the refinement.         *)
(***************************************************************************)
EXTENDS PoeFabric

(* What a call was told, or what it will be told when it resumes: that it  *)
(* is cancelled, or the result of the finished task that it still awaits.  *)
AnswerOf(c) ==
  IF call[c].cancelled /\ call[c].on = c THEN "cancelled"
  ELSE IF call[c].on # None /\ call[c].result = "none"
    THEN cycle[call[c].on].result
  ELSE call[c].result

Shared == INSTANCE SharedCycles
            WITH waits     <- [c \in Callers |-> call[c].on],
                 answer    <- [c \in Callers |-> AnswerOf(c)],
                 running   <- {c \in Callers : cycle[c].point \in Live},
                 cancelled <- {c \in Callers : call[c].cancelled}

(* poe.py:308-309: a call that arrives while a cycle is in flight shares   *)
(* its result.  Every step of the fabric is a step of sharing or none: the *)
(* end of a cycle answers exactly those who wait for it then, although its *)
(* creator and its joiners resume later, in any order, newcomers and       *)
(* cancellations in between, and a caller's next cycle has the same name.  *)
RefinesShared == Shared!Spec
=============================================================================
