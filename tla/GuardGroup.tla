------------------------------ MODULE GuardGroup ------------------------------
(***************************************************************************)
(* The running guards of one entry and the scheduler that drives them.     *)
(* One action is what the asyncio loop runs without interruption: a        *)
(* callback (a health event, a timer, an operator service) or the stretch  *)
(* of a guard's cycle task between two awaits, with everything it calls in *)
(* the partners' coordinators.                                             *)
(*                                                                         *)
(* Timers may fire at any time after they are armed, and a driver may take *)
(* any time: durations are abstracted, only their order is kept.  A health *)
(* verdict changes with an event that is evaluated at once; the verdict of *)
(* a template may also drift before its tracker reports it.  Whether a     *)
(* created task runs in the tick that creates it or in a later one is Home *)
(* Assistant's choice: the model lets anything come in between, or nothing.*)
(***************************************************************************)
EXTENDS DeviceEngine

CONSTANTS Partners,       \* each guard's group, from link_components
          TemplateHealth, \* guards whose health source is a template
          Cancellable     \* poe_port guards: the port cycle their driver joins
                          \* may be cancelled with its creator (PoeFabric)

ASSUME GuardGroupAssumption ==
  /\ Partners \in [Guards -> SUBSET Guards]
  /\ \A g \in Guards : g \notin Partners[g]
  /\ \A g, p \in Guards : p \in Partners[g] => g \in Partners[p]
  /\ TemplateHealth \subseteq Guards
  /\ Cancellable \subseteq Guards

VARIABLES guard,   \* guard[g]: the record of g's engine
          health,  \* health[g]: what g's health source evaluates to now
          byHand   \* history: guards whose own cycle was started by a press

vars == <<guard, health, byHand>>

(* Every guard's record, verdict and history has its type. *)
TypeOK ==
  /\ guard \in [Guards -> GuardRecord]
  /\ health \in [Guards -> Health]
  /\ byHand \subseteq Guards

(* Fresh engines after the first evaluation of async_start. *)
Init ==
  /\ health \in [Guards -> Health]
  /\ \E auto \in [Guards -> BOOLEAN] :
       guard = [g \in Guards |->
                  Evaluate(Told(NewGuard(auto[g]), health[g]), health[g])]
  /\ byHand = {}

-----------------------------------------------------------------------------
Update(g, r) == guard' = [guard EXCEPT ![g] = r]

OnlyUpdate(g, r) == Update(g, r) /\ UNCHANGED <<health, byHand>>

(* _partners: the partners that have an engine. *)
Engines(g) == {p \in Partners[g] : guard[p].live}

(* Mutant: a partner that only follows is taken for a leader. *)
RepairingPartnersOrFollowers(g) ==
  {p \in Partners[g] : guard[p].state \in {"RECOVERING", "VERIFY"}}

(* A partner that is repairing, and not as somebody's follower.  (One      *)
(* without an engine is in no such state.)                                 *)
RepairingPartners(g) ==
  {p \in Partners[g] : /\ guard[p].state \in {"RECOVERING", "VERIFY"}
                       /\ ~Following(guard[p])}

(* Mutant: the followers hear of successful cycles only. *)
CycleStepSilentOnFailure(g, r) ==
  /\ guard' = [x \in Guards |->
                 IF x = g THEN r
                 ELSE IF x \in Partners[g] /\ ~Busy(r) /\ r.state = "COOLDOWN"
                   THEN OnPartnerRepairDone(guard[x], g, TRUE)
                   ELSE guard[x]]
  /\ byHand' = IF Busy(r) THEN byHand ELSE byHand \ {g}
  /\ UNCHANGED health

(* g's cycle steps on to r; once r has ended the cycle, the finally block  *)
(* tells the followers, and with what verdict.  (A partner without an      *)
(* engine follows nobody.)                                                 *)
CycleStep(g, r) ==
  /\ guard' = [x \in Guards |->
                 IF x = g THEN r
                 ELSE IF x \in Partners[g] /\ ~Busy(r)
                   THEN OnPartnerRepairDone(guard[x], g, r.state = "COOLDOWN")
                   ELSE guard[x]]
  /\ byHand' = IF Busy(r) THEN byHand ELSE byHand \ {g}
  /\ UNCHANGED health

-----------------------------------------------------------------------------
(* Health *)

(* A watched entity changed - perhaps only in an attribute: the listener   *)
(* evaluates in the same step, also when the verdict is what it was.       *)
HealthEvent(g) ==
  /\ g \notin TemplateHealth
  /\ \E h \in Health :
       /\ health' = [health EXCEPT ![g] = h]
       /\ Update(g, Evaluate(Told(guard[g], h), h))
  /\ UNCHANGED byHand

(* The template would render differently, its tracker has not run yet. *)
TemplateDrift(g) ==
  /\ g \in TemplateHealth
  /\ \E h \in Health \ {health[g]} : health' = [health EXCEPT ![g] = h]
  /\ UNCHANGED <<guard, byHand>>

(* The template tracker has rendered another result and reports.  Several  *)
(* results are one verdict, so the verdict may be the one told last; when  *)
(* it is another, so is the result.                                        *)
TemplateEvent(g) ==
  /\ g \in TemplateHealth
  /\ OnlyUpdate(g, Evaluate(Told(guard[g], health[g]), health[g]))

-----------------------------------------------------------------------------
(* Timers *)

(* It only validates, or its driver was cancelled under it. *)
RepairsNothing(r) == r.task \in ValidatePoints \/ (~Busy(r) /\ ~Following(r))

(* What a guard becomes whose debounce finds a leader. *)
Joined(g, r, leader) ==
  LET q == OnPartnerRepairStart(g, r, leader, health[g])
  IN  [q EXCEPT !.astray = Following(q) /\ RepairsNothing(guard[leader])]

DebounceDone(g) ==
  LET r == CancelTimer(guard[g])
  IN  /\ guard[g].timer = "debounce"
      /\ CASE r.state # "SUSPECT" ->
                OnlyUpdate(g, r)
           [] r.state = "SUSPECT" /\ health[g] # "UNHEALTHY" ->
                OnlyUpdate(g, [r EXCEPT !.state = "OK"])
           [] r.state = "SUSPECT" /\ health[g] = "UNHEALTHY"
                /\ ~ShouldAttempt(g, r) ->
                OnlyUpdate(g, Escalate(r))
           [] OTHER ->
                IF RepairingPartners(g) # {}
                  THEN \E leader \in RepairingPartners(g) :
                         OnlyUpdate(g, Joined(g, r, leader))
                  ELSE OnlyUpdate(g, StartCycle(r))

CooldownDone(g) ==
  LET r == CancelTimer(guard[g])
  IN  /\ guard[g].timer = "cooldown"
      /\ OnlyUpdate(g, IF r.state # "COOLDOWN" THEN r
                       ELSE IF health[g] = "UNHEALTHY" THEN EnterSuspect(r)
                       ELSE [r EXCEPT !.state = "OK"])

SnoozeDone(g) ==
  /\ guard[g].timer = "snooze"
  /\ OnlyUpdate(g, IF guard[g].snoozed THEN Resume(guard[g], health[g])
                   ELSE CancelTimer(guard[g]))

-----------------------------------------------------------------------------
(* The operator *)

SetAuto(g) ==
  /\ AllowsRecovery(g)
  /\ OnlyUpdate(g, [guard[g] EXCEPT !.auto = ~@])

ResetGuard(g) ==
  /\ guard[g].state = "ESCALATED"
  /\ OnlyUpdate(g, Reset(guard[g], health[g]))

SnoozeGuard(g) ==
  /\ ~Busy(guard[g])
  /\ OnlyUpdate(g, Snooze(guard[g]))

UnsnoozeGuard(g) ==
  /\ guard[g].snoozed
  /\ OnlyUpdate(g, Resume(guard[g], health[g]))

(* The recover button; a notify-only guard has none. *)
ManualRecover(g) ==
  /\ AllowsRecovery(g)
  /\ ~Busy(guard[g])
  /\ ~Following(guard[g])
  /\ Update(g, StartCycle(ClearSnooze([guard[g] EXCEPT !.attempt = 0])))
  /\ byHand' = byHand \cup {g}
  /\ UNCHANGED health

-----------------------------------------------------------------------------
(* The cycle task *)

(* notify_start, then the first attempt. *)
CycleBegins(g) ==
  /\ guard[g].task = "claimed"
  /\ guard' = [x \in Guards |->
                 CASE x = g -> NextAttempt(guard[g])
                   [] x \in Engines(g) ->
                        OnPartnerRepairStart(x, guard[x], g, health[x])
                   [] OTHER -> guard[x]]
  /\ UNCHANGED <<health, byHand>>

CanRecover(g) ==
  /\ guard[g].task = "can_recover"
  /\ \E allowed \in BOOLEAN :
       CycleStep(g, IF allowed THEN [guard[g] EXCEPT !.task = "recover"]
                    ELSE EndTask(Escalate(guard[g])))

(* driver.recover returns its verdict. *)
DriverReturns(g) ==
  /\ guard[g].task = "recover"
  /\ \E ok \in BOOLEAN :
       LET r == [guard[g] EXCEPT !.ok = ok]
       IN  CycleStep(g, IF g \in ReloadEntry THEN [r EXCEPT !.task = "reload"]
                        ELSE AfterRepair(g, r, health[g]))

DriverRaises(g) ==
  /\ guard[g].task = "recover"
  /\ CycleStep(g, AttemptFailed(g, guard[g]))

(* The joined cycle was cancelled: CancelledError is no Exception, so only  *)
(* the finally block runs and the state stays as it is.                    *)
DriverCancelled(g) ==
  /\ g \in Cancellable
  /\ guard[g].task = "recover"
  /\ CycleStep(g, EndTask(guard[g]))

ReloadDone(g) ==
  /\ guard[g].task = "reload"
  /\ CycleStep(g, AfterRepair(g, guard[g], health[g]))

(* _verify_event was set: a success, whatever health reads by now. *)
VerifyWakes(g) ==
  /\ guard[g].task = "verify"
  /\ guard[g].event = "set"
  /\ CycleStep(g, EndTask(RecoverSuccess(guard[g])))

(* The boot window elapses, perhaps in the tick that set the event. *)
VerifyTimesOut(g) ==
  /\ guard[g].task = "verify"
  /\ CycleStep(g, IF health[g] = "OK" THEN EndTask(RecoverSuccess(guard[g]))
                  ELSE AttemptFailed(g, guard[g]))

-----------------------------------------------------------------------------
(* The follower's validation task *)

ValidationBegins(g) ==
  /\ guard[g].task = "validate"
  /\ OnlyUpdate(g, StartValidation(guard[g], health[g]))

ValidationWakes(g) ==
  /\ guard[g].task = "validate_wait"
  /\ guard[g].event = "set"
  /\ OnlyUpdate(g, EndTask(RecoverSuccess(guard[g])))

ValidationTimesOut(g) ==
  /\ guard[g].task = "validate_wait"
  /\ OnlyUpdate(g, IF health[g] = "OK" THEN EndTask(RecoverSuccess(guard[g]))
                   ELSE ValidationFailed(guard[g], health[g]))

-----------------------------------------------------------------------------
Timer(g) == DebounceDone(g) \/ CooldownDone(g) \/ SnoozeDone(g)

Operator(g) ==
  SetAuto(g) \/ ResetGuard(g) \/ SnoozeGuard(g) \/ UnsnoozeGuard(g)
  \/ ManualRecover(g)

Cycle(g) ==
  CycleBegins(g) \/ CanRecover(g) \/ DriverReturns(g) \/ DriverRaises(g)
  \/ DriverCancelled(g) \/ ReloadDone(g) \/ VerifyWakes(g) \/ VerifyTimesOut(g)

Validation(g) ==
  ValidationBegins(g) \/ ValidationWakes(g) \/ ValidationTimesOut(g)

Environment(g) == HealthEvent(g) \/ TemplateDrift(g) \/ TemplateEvent(g)

Next ==
  \E g \in Guards :
    Environment(g) \/ Timer(g) \/ Operator(g) \/ Cycle(g) \/ Validation(g)

Spec == Init /\ [][Next]_vars

-----------------------------------------------------------------------------
(* Safety *)

(* The shared timer handle is armed exactly in the states that wait for    *)
(* it, and for the callback that state needs: no SUSPECT, COOLDOWN or      *)
(* SNOOZED guard is left without its wake-up by a cancelled timer, and no  *)
(* stale timer fires in another state.                                     *)
TimerFits(r) ==
  /\ r.timer = "debounce" <=> r.state = "SUSPECT"
  /\ r.timer = "cooldown" <=> r.state = "COOLDOWN"
  /\ r.timer = "snooze"   <=> r.state = "SNOOZED"
  /\ r.snoozed            <=> r.state = "SNOOZED"

TimerMatchesState == \A g \in Guards : TimerFits(guard[g])

(* A cancelled driver call left the guard in RECOVERING. *)
Abandoned(g, r) ==
  g \in Cancellable /\ r.state = "RECOVERING" /\ ~Busy(r) /\ ~Following(r)

(* A guard shows RECOVERING or VERIFY exactly while it has a task or       *)
(* follows a partner, and never both.  A cancelled driver call is the      *)
(* exception: it leaves RECOVERING behind.                                 *)
WorkFits(g, r) ==
  /\ Busy(r) \/ Following(r) => r.state \in {"RECOVERING", "VERIFY"}
  /\ r.state \in {"RECOVERING", "VERIFY"} =>
       Busy(r) \/ Following(r) \/ Abandoned(g, r)
  /\ ~(Busy(r) /\ Following(r))
  /\ r.state = "VERIFY" <=> r.task \in {"verify", "validate_wait"}
  /\ r.event # "none"   <=> r.task \in {"verify", "validate_wait"}
  /\ Following(r) => r.leader \in Partners[g]
  /\ r.astray => Following(r)

StateFitsWork == \A g \in Guards : WorkFits(g, guard[g])

(* The leader of a guard is in a recovery cycle of its own, the end of     *)
(* which the guard will hear of.  The exception is a guard whose debounce  *)
(* found a leader that repaired nothing: it only validated (group_follow), *)
(* or its driver's cancellation had left it in RECOVERING.                 *)
LeadersAtWork ==
  \A g \in Guards :
    Following(guard[g]) /\ ~guard[g].astray =>
      guard[guard[g].leader].task \in CyclePoints

(* Somebody carries on every repair that a guard shows: its own task, or   *)
(* the recovery cycle of the partner it follows - with the two exceptions  *)
(* named above, a cancelled driver call and a leader that never repaired.  *)
WorkMatchesState == StateFitsWork /\ LeadersAtWork

(* Of two linked guards whose own recovery cycles overlap, at least one    *)
(* was started by the recover button: the debounce arbitration never lets  *)
(* two guards of a group recover the same root cause by themselves.        *)
OneAutomaticLeader ==
  \A g \in Guards : \A p \in Partners[g] :
    guard[g].task \in CyclePoints /\ guard[p].task \in CyclePoints
      => g \in byHand \/ p \in byHand

(* An idle guard's state agrees with what its health reads, whichever      *)
(* callback moved it there: an OK guard is not missing a fault, a SUSPECT  *)
(* one is unhealthy and a BLIND one cannot read its device.  (A template   *)
(* may be ahead of its tracker, so this is about entity sources.)          *)
IdleFits(r, h) ==
  /\ r.state = "OK"      => h # "UNHEALTHY"
  /\ r.state = "SUSPECT" => h = "UNHEALTHY"
  /\ r.state = "BLIND"   => h = "UNKNOWN"

IdleStateTellsHealth ==
  \A g \in Guards \ TemplateHealth : IdleFits(guard[g], health[g])

(* max_attempts bounds a cycle that the operator started, and every cycle  *)
(* of a guard without partners, however the guard got there.               *)
AttemptBudget ==
  \A g \in Guards :
    g \in byHand \/ Partners[g] = {} => guard[g].attempt <= MaxAttempts[g]

-----------------------------------------------------------------------------
(* Action properties *)

(* Auto off means off: such a guard starts a cycle only by a press, and    *)
(* never begins to follow a partner's repair.                              *)
AutoOffIsOff ==
  [][\A g \in Guards :
       ~guard[g].auto =>
         /\ ~Busy(guard[g]) /\ guard'[g].task \in CyclePoints => g \in byHand'
         /\ Following(guard'[g]) => Following(guard[g])]_vars

(* When a recovery cycle ends, successfully or not, no guard is left       *)
(* following it.                                                           *)
CycleEndReleasesFollowers ==
  [][\A g \in Guards :
       guard[g].task \in CyclePoints /\ ~Busy(guard'[g]) =>
         \A p \in Guards : guard'[p].leader # g]_vars

-----------------------------------------------------------------------------
(* Liveness *)

(* The loop runs an armed timer's callback and resumes a task whose await  *)
(* is over; a driver and a reload are assumed to answer.  A template       *)
(* tracker reports while its result differs from the one it told last.     *)
(* Nothing is assumed of the devices or of the operator.                   *)
Fairness ==
  \A g \in Guards :
    /\ WF_vars(DebounceDone(g)) /\ WF_vars(CooldownDone(g))
    /\ WF_vars(SnoozeDone(g))
    /\ WF_vars(Cycle(g)) /\ WF_vars(Validation(g))
    /\ WF_vars(guard[g].told # health[g] /\ TemplateEvent(g))

FairSpec == Spec /\ Fairness

(* A task of a guard always ends: retries are bounded, waits time out.     *)
TasksEnd == \A g \in Guards : Busy(guard[g]) ~> ~Busy(guard[g])

(* A fault that stays is answered again and again: the guard repairs or    *)
(* checks a repair, has given up with an alarm, or is snoozed.  To wait,   *)
(* or to follow, is no answer.  Three exceptions: a guard that came to     *)
(* follow a leader that never repaired (astray), one whose driver call was *)
(* cancelled, and one whose template last reported this very fault, then   *)
(* rendered otherwise just when the guard looked: a result that came back  *)
(* is not reported.                                                        *)
FaultIsAnswered ==
  \A g \in Guards :
    <>[](health[g] = "UNHEALTHY") =>
      \/ []<>(Busy(guard[g]) \/ guard[g].state \in {"ESCALATED", "SNOOZED"})
      \/ <>[](guard[g].astray \/ Abandoned(g, guard[g]))
      \/ g \in TemplateHealth
           /\ <>[](guard[g].told = "UNHEALTHY" /\ guard[g].state \in {"OK", "BLIND"})

-----------------------------------------------------------------------------
(* What the documentation says of the program and the code does not do. *)

(* engine.py:615: a guard that follows a partner's repair is resumed when  *)
(* that repair is done.                                                    *)
FollowersAreReleased ==
  \A g \in Guards : Following(guard[g]) ~> ~Following(guard[g])
=============================================================================
