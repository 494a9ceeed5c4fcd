----------------------------- MODULE SharedCycles -----------------------------
(***************************************************************************)
(* What the PoE fabric promises its callers (docs: a call that arrives     *)
(* while a cycle is in flight joins it and shares its result): whoever     *)
(* waits for a cycle when it ends, and nobody else, is answered by it, all *)
(* in that one step.                                                       *)
(*                                                                         *)
(* No ports, power, resolution or tasks here: PoeCalls shows that the      *)
(* calls of PoeFabric, where the end of a cycle, the return of its creator *)
(* and those of the joiners are steps apart, are answered like this.       *)
(***************************************************************************)
CONSTANTS Callers, \* concurrent callers
          None     \* no caller

VARIABLES waits,    \* waits[c]: whose cycle c waits for
          answer,   \* answer[c]: what c was told, or will be when it resumes
          running,  \* who has a cycle that runs
          cancelled \* who was cancelled in its last call

vars == <<waits, answer, running, cancelled>>

Verdicts == {"true", "false", "raised", "cancelled"}

Init ==
  /\ waits = [c \in Callers |-> None]
  /\ answer = [c \in Callers |-> "none"]
  /\ running = {} /\ cancelled = {}

(* There is no port to repair. *)
Refuse(c) ==
  /\ waits[c] = None
  /\ answer' = [answer EXCEPT ![c] = "false"]
  /\ cancelled' = cancelled \ {c}
  /\ UNCHANGED <<waits, running>>

Start(c) ==
  /\ waits[c] = None
  /\ waits' = [waits EXCEPT ![c] = c]
  /\ answer' = [answer EXCEPT ![c] = "none"]
  /\ running' = running \cup {c}
  /\ cancelled' = cancelled \ {c}

(* Only a cycle that runs can be joined. *)
Join(c, e) ==
  /\ waits[c] = None /\ e \in running
  /\ waits' = [waits EXCEPT ![c] = e]
  /\ answer' = [answer EXCEPT ![c] = "none"]
  /\ cancelled' = cancelled \ {c}
  /\ UNCHANGED running

(* The cycle of e ends, for everyone who waits for it.  It is cut off if   *)
(* and only if e was cancelled: a joiner cannot cancel it.                 *)
Finish(e) ==
  /\ e \in running
  /\ running' = running \ {e}
  /\ \E verdict \in Verdicts :
       /\ verdict = "cancelled" <=> e \in cancelled
       /\ answer' = [c \in Callers |->
                       IF waits[c] = e /\ answer[c] = "none" THEN verdict
                       ELSE answer[c]]
  /\ UNCHANGED <<waits, cancelled>>

(* A caller is cancelled, whatever answer was on its way. *)
Cancel(c) ==
  /\ waits[c] # None
  /\ answer' = [answer EXCEPT ![c] = "cancelled"]
  /\ cancelled' = cancelled \cup {c}
  /\ UNCHANGED <<waits, running>>

(* A caller goes on with its answer; its own cycle does not outlive it.    *)
Return(c) ==
  /\ waits[c] # None /\ answer[c] # "none" /\ c \notin running
  /\ waits' = [waits EXCEPT ![c] = None]
  /\ UNCHANGED <<answer, running, cancelled>>

Next ==
  \E c \in Callers :
    \/ Refuse(c) \/ Start(c) \/ \E e \in Callers : Join(c, e)
    \/ Finish(c) \/ Cancel(c) \/ Return(c)

Spec == Init /\ [][Next]_vars
=============================================================================
