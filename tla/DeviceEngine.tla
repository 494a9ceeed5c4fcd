---------------------------- MODULE DeviceEngine ----------------------------
(***************************************************************************)
(* One guard: the state a DeviceEngine (core/engine.py) and its            *)
(* LinkCoordinator (core/links.py) keep, and the synchronous functions     *)
(* that change it.  Home Assistant runs both on one asyncio loop, so       *)
(* nothing interleaves with such a function: each is an operator from a    *)
(* guard record (and the health verdict it reads) to the record it leaves. *)
(* GuardGroup puts them under the scheduler, between the awaits.           *)
(*                                                                         *)
(* Left out: logs, entity refreshes (_emit), notification texts, and the   *)
(* counters and timestamps that only feed the entities.                    *)
(***************************************************************************)
EXTENDS Naturals

CONSTANTS Guards,       \* the guard subentries
          NoGuard,      \* None, as a leader
          NotifyOnly,   \* guards under the notify policy
          HealthCheck,  \* guards whose behavior has health_check on
          ReloadEntry,  \* guards that reload a device's config entry
          MaxAttempts,  \* max_attempts of each guard
          AttemptCap    \* attempt is counted up to this bound, then saturates

ASSUME DeviceEngineAssumption ==
  /\ NoGuard \notin Guards
  /\ NotifyOnly \subseteq Guards
  /\ HealthCheck \subseteq Guards
  /\ ReloadEntry \subseteq Guards
  /\ AttemptCap \in Nat
  /\ MaxAttempts \in [Guards -> 1 .. (AttemptCap - 1)]

-----------------------------------------------------------------------------
(* State *)

GState == {"OK", "SUSPECT", "BLIND", "RECOVERING", "VERIFY", "COOLDOWN",
           "ESCALATED", "SNOOZED"}

Health == {"OK", "UNHEALTHY", "UNKNOWN"}

(* Which callback the one shared timer handle (_unsub_timer) will run. *)
Timers == {"none", "debounce", "cooldown", "snooze"}

(* Where the coroutine in _cycle_task is suspended.  "claimed" and         *)
(* "validate" are a recovery cycle and a follow-up validation that were    *)
(* created and have not run yet.                                           *)
CyclePoints == {"claimed", "can_recover", "recover", "reload", "verify"}
ValidatePoints == {"validate", "validate_wait"}
Points == {"none"} \cup CyclePoints \cup ValidatePoints

(* leader is links.leader; links.following is set and cleared with it.     *)
(* ok is the local of the suspended coroutine: driver_ok across the        *)
(* reload, leader_success across the validation.  event is _verify_event.  *)
(* told is the verdict that the guard's health subscription came with last *)
(* (a template tracker reports what differs from it).  live says that the  *)
(* engine is in the registry in which its partners look for it.  astray is *)
(* history: when the guard came to follow its leader, that was not in a    *)
(* recovery cycle.                                                         *)
GuardRecord ==
  [state   : GState,
   attempt : 0 .. AttemptCap,
   auto    : BOOLEAN,
   snoozed : BOOLEAN,
   timer   : Timers,
   leader  : Guards \cup {NoGuard},
   task    : Points,
   ok      : BOOLEAN,
   event   : {"none", "clear", "set"},
   told    : Health,
   live    : BOOLEAN,
   astray  : BOOLEAN]

(* A guard without persisted data, its auto switch as configured; nothing  *)
(* was told yet.                                                           *)
NewGuard(auto) ==
  [state |-> "OK", attempt |-> 0, auto |-> auto, snoozed |-> FALSE,
   timer |-> "none", leader |-> NoGuard, task |-> "none", ok |-> FALSE,
   event |-> "none", told |-> "UNKNOWN", live |-> TRUE, astray |-> FALSE]

Busy(r) == r.task # "none"

Following(r) == r.leader # NoGuard

AllowsRecovery(g) == g \notin NotifyOnly

(* Mutant: the auto switch is not consulted. *)
ShouldAttemptIgnoringAuto(g, r) == AllowsRecovery(g)

(* StandardPolicy follows the auto switch, NotifyOnlyPolicy never allows. *)
ShouldAttempt(g, r) == AllowsRecovery(g) /\ r.auto

(* Mutants: one attempt too many; no bound at all. *)
OutOfAttemptsLate(g, r) == r.attempt > MaxAttempts[g]
OutOfAttemptsNever(g, r) == FALSE

OutOfAttempts(g, r) == r.attempt >= MaxAttempts[g]

-----------------------------------------------------------------------------
(* Health handling *)

CancelTimer(r) == [r EXCEPT !.timer = "none"]

(* Mutant: SUSPECT is entered and the debounce is not armed. *)
EnterSuspectUnarmed(r) == [r EXCEPT !.state = "SUSPECT", !.timer = "none"]

EnterSuspect(r) == [r EXCEPT !.state = "SUSPECT", !.timer = "debounce"]

(* On a health OK the engine wakes the VERIFY wait of its own cycle. *)
WakeVerify(r, h) ==
  IF h = "OK" /\ r.event = "clear" THEN [r EXCEPT !.event = "set"] ELSE r

(* Mutant: a device that recovers in SUSPECT leaves its debounce running. *)
SteadyEdgeKeepingTimer(r, h) ==
  CASE h = "UNKNOWN" /\ r.state \in {"OK", "SUSPECT"} ->
         [CancelTimer(r) EXCEPT !.state = "BLIND"]
    [] h = "UNHEALTHY" /\ r.state \in {"OK", "BLIND"} ->
         EnterSuspect(r)
    [] h = "OK" /\ r.state \in {"SUSPECT", "BLIND"} ->
         [r EXCEPT !.state = "OK"]
    [] h = "OK" /\ r.state = "ESCALATED" ->
         [r EXCEPT !.attempt = 0, !.state = "OK"]
    [] OTHER -> r

(* Mutant: an escalated guard whose device cannot be read goes BLIND. *)
SteadyEdgeBlindingVerdicts(r, h) ==
  CASE h = "UNKNOWN" /\ r.state \in {"OK", "SUSPECT", "ESCALATED"} ->
         [CancelTimer(r) EXCEPT !.state = "BLIND"]
    [] h = "UNHEALTHY" /\ r.state \in {"OK", "BLIND"} ->
         EnterSuspect(r)
    [] h = "OK" /\ r.state \in {"SUSPECT", "BLIND"} ->
         [CancelTimer(r) EXCEPT !.state = "OK"]
    [] h = "OK" /\ r.state = "ESCALATED" ->
         [r EXCEPT !.attempt = 0, !.state = "OK"]
    [] OTHER -> r

(* The steady-state edges of _evaluate, taken when neither a snooze nor a  *)
(* partner's repair holds the guard.                                       *)
SteadyEdge(r, h) ==
  CASE h = "UNKNOWN" /\ r.state \in {"OK", "SUSPECT"} ->
         [CancelTimer(r) EXCEPT !.state = "BLIND"]
    [] h = "UNHEALTHY" /\ r.state \in {"OK", "BLIND"} ->
         EnterSuspect(r)
    [] h = "OK" /\ r.state \in {"SUSPECT", "BLIND"} ->
         [CancelTimer(r) EXCEPT !.state = "OK"]
    [] h = "OK" /\ r.state = "ESCALATED" ->
         [r EXCEPT !.attempt = 0, !.state = "OK"]
    [] OTHER -> r

(* Every callback of the health subscription ends here: the guard is told, *)
(* and looks.                                                              *)
Told(r, h) == [r EXCEPT !.told = h]

Evaluate(r, h) ==
  IF r.snoozed \/ Following(r) THEN r ELSE SteadyEdge(WakeVerify(r, h), h)

-----------------------------------------------------------------------------
(* Operator services: reset, snooze, unsnooze *)

Reset(r, h) == Evaluate([r EXCEPT !.attempt = 0, !.state = "OK"], h)

Snooze(r) ==
  [r EXCEPT !.snoozed = TRUE, !.leader = NoGuard, !.astray = FALSE,
            !.attempt = 0, !.timer = "snooze", !.state = "SNOOZED"]

ClearSnooze(r) == [CancelTimer(r) EXCEPT !.snoozed = FALSE]

(* Mutant: the guard resumes without looking at its health. *)
ResumeBlindly(r, h) == [ClearSnooze(r) EXCEPT !.state = "OK"]

(* unsnooze and _snooze_done run the same three statements. *)
Resume(r, h) == Evaluate([ClearSnooze(r) EXCEPT !.state = "OK"], h)

-----------------------------------------------------------------------------
(* The recovery cycle *)

(* Mutant: RECOVERING is only set once the task runs. *)
StartCycleLate(r) == IF Busy(r) THEN r ELSE [r EXCEPT !.task = "claimed"]

(* RECOVERING is claimed before the cycle task first runs. *)
StartCycle(r) ==
  IF Busy(r) THEN r ELSE [r EXCEPT !.state = "RECOVERING", !.task = "claimed"]

(* The top of the retry loop, up to the await of can_recover. *)
NextAttempt(r) ==
  [r EXCEPT !.attempt = IF @ < AttemptCap THEN @ + 1 ELSE @,
            !.state = "RECOVERING", !.task = "can_recover", !.ok = FALSE,
            !.event = "none"]

(* The coroutine returns: its locals and its wait are gone. *)
EndTask(r) == [r EXCEPT !.task = "none", !.ok = FALSE, !.event = "none"]

(* Mutant: the notify key is stored where the state belongs. *)
EscalateMisspelt(r) == [r EXCEPT !.state = "recovery_failed"]

Escalate(r) == [r EXCEPT !.state = "ESCALATED"]

RecoverSuccess(r) ==
  [r EXCEPT !.attempt = 0, !.state = "COOLDOWN", !.timer = "cooldown"]

(* A failed attempt: give up, or go round the loop again. *)
AttemptFailed(g, r) ==
  IF OutOfAttempts(g, r) THEN EndTask(Escalate(r)) ELSE NextAttempt(r)

(* What follows the driver and the optional reload: the driver's verdict   *)
(* decides without a health check; with one the guard verifies, at once    *)
(* when health already reads OK.                                           *)
AfterRepair(g, r, h) ==
  CASE g \notin HealthCheck /\ r.ok  -> EndTask(RecoverSuccess(r))
    [] g \notin HealthCheck /\ ~r.ok -> AttemptFailed(g, r)
    [] g \in HealthCheck /\ h = "OK" -> EndTask(RecoverSuccess(r))
    [] OTHER -> [r EXCEPT !.state = "VERIFY", !.task = "verify",
                          !.ok = FALSE, !.event = "clear"]

-----------------------------------------------------------------------------
(* Linking: what a partner's repair does to this guard *)

(* A guard that is free to answer follows: it holds its own recovery.  One *)
(* with auto off never follows; it escalates if it is affected itself.     *)
FreeToAnswer(g, r) ==
  AllowsRecovery(g) /\ ~Busy(r) /\ ~Following(r) /\ ~r.snoozed

OnPartnerRepairStart(g, r, leader, h) ==
  CASE FreeToAnswer(g, r) /\ r.auto ->
         [CancelTimer(r) EXCEPT !.leader = leader, !.state = "RECOVERING"]
    [] FreeToAnswer(g, r) /\ ~r.auto /\ h = "UNHEALTHY"
         /\ r.state # "ESCALATED" ->
         Escalate(CancelTimer(r))
    [] OTHER -> r

OnPartnerRepairDone(r, leader, success) ==
  LET freed == [r EXCEPT !.leader = NoGuard, !.astray = FALSE]
  IN  IF r.leader # leader THEN r
      ELSE IF Busy(r) THEN freed
      ELSE [freed EXCEPT !.task = "validate", !.ok = success]

(* The validation up to its wait, or to its end when health reads OK. *)
StartValidation(r, h) ==
  IF h = "OK"
    THEN EndTask(RecoverSuccess(r))
    ELSE [r EXCEPT !.state = "VERIFY", !.task = "validate_wait",
                   !.event = "clear"]

(* Still unhealthy after the boot window: back to monitoring (and so to an *)
(* own recovery) if the leader succeeded, the leader's verdict otherwise.  *)
ValidationFailed(r, h) ==
  IF r.ok
    THEN EndTask(Evaluate([r EXCEPT !.state = "OK", !.event = "none"], h))
    ELSE EndTask(Escalate(r))
=============================================================================
