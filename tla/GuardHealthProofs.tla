-------------------------- MODULE GuardHealthProofs --------------------------
(***************************************************************************)
(* What a step of the running guards does to those that are not repairing: *)
(* idle states keep telling the health, nobody falls asleep by himself,    *)
(* and a guard that stays escalated keeps its attempts.  And the budget:   *)
(* max_attempts bounds the cycles by hand and those of unlinked guards.    *)
(***************************************************************************)
EXTENDS GuardGroupProofs

(* One guard that moves from r to q while its health reads h. *)
Calm(r, q, h) ==
  /\ q.snoozed => r.snoozed
  /\ r.state = "ESCALATED" /\ q.state = "ESCALATED" => q.attempt = r.attempt
  /\ IdleFits(r, h) => IdleFits(q, h)

(* Every guard, health included. *)
Tame ==
  \A x \in Guards :
    /\ guard'[x].snoozed => guard[x].snoozed
    /\ guard[x].state = "ESCALATED" /\ guard'[x].state = "ESCALATED"
         => guard'[x].attempt = guard[x].attempt
    /\ x \notin TemplateHealth /\ IdleFits(guard[x], health[x])
         => IdleFits(guard'[x], health'[x])

(* Every action but the snooze of a guard. *)
AwakeStep(g) ==
  \/ Environment(g) \/ Timer(g) \/ SetAuto(g) \/ ResetGuard(g)
  \/ UnsnoozeGuard(g) \/ ManualRecover(g) \/ Cycle(g) \/ Validation(g)

-----------------------------------------------------------------------------
(* An evaluation settles a guard, whatever it was before. *)
LEMMA EvaluateSettles ==
  ASSUME NEW g \in Guards, NEW r, NEW h \in Health, Fit(g, r)
  PROVE  /\ Evaluate(r, h).snoozed = r.snoozed
         /\ IdleFits(Evaluate(r, h), h)
         /\ Evaluate(r, h).state = "ESCALATED" =>
              r.state = "ESCALATED" /\ Evaluate(r, h).attempt = r.attempt
<1>1. CASE r.snoozed \/ Following(r)
  <2>1. r.state \in {"SNOOZED", "RECOVERING", "VERIFY"}
    BY <1>1 DEF Fit, TimerFits, WorkFits, Abandoned
  <2> QED BY <1>1, <2>1 DEF Evaluate, IdleFits
<1>2. CASE ~(r.snoozed \/ Following(r))
  <2> DEFINE w == WakeVerify(r, h)
  <2>1. /\ w \in GuardRecord /\ w.snoozed = r.snoozed /\ w.state = r.state
        /\ w.attempt = r.attempt
    BY DEF Fit, WakeVerify, GuardRecord
  <2>2. Evaluate(r, h) = SteadyEdge(w, h)
    BY <1>2 DEF Evaluate
  <2> HIDE DEF w
  <2>3. /\ SteadyEdge(w, h).snoozed = w.snoozed
        /\ IdleFits(SteadyEdge(w, h), h)
        /\ SteadyEdge(w, h).state = "ESCALATED" =>
             w.state = "ESCALATED" /\ SteadyEdge(w, h).attempt = w.attempt
    BY <2>1 DEF SteadyEdge, CancelTimer, EnterSuspect, IdleFits, GuardRecord,
       Health
  <2> QED BY <2>1, <2>2, <2>3
<1> QED BY <1>1, <1>2

LEMMA ToldSettles ==
  ASSUME NEW g \in Guards, NEW r, NEW h \in Health, Fit(g, r)
  PROVE  LET q == Evaluate(Told(r, h), h)
         IN  /\ q.snoozed = r.snoozed
             /\ IdleFits(q, h)
             /\ q.state = "ESCALATED" =>
                  r.state = "ESCALATED" /\ q.attempt = r.attempt
<1> DEFINE t == Told(r, h)
<1>1. /\ Fit(g, t) /\ t.snoozed = r.snoozed /\ t.state = r.state
      /\ t.attempt = r.attempt
  BY ToldFits
<1> HIDE DEF t
<1>2. /\ Evaluate(t, h).snoozed = t.snoozed
      /\ IdleFits(Evaluate(t, h), h)
      /\ Evaluate(t, h).state = "ESCALATED" =>
           t.state = "ESCALATED" /\ Evaluate(t, h).attempt = t.attempt
  BY <1>1, EvaluateSettles
<1> QED BY <1>1, <1>2 DEF t

(* A guard that was woken, reset or resumed and then evaluated. *)
LEMMA ResetResumeCalm ==
  ASSUME NEW g \in Guards, NEW r, NEW h \in Health, Fit(g, r)
  PROVE  /\ r.state = "ESCALATED" => Calm(r, Reset(r, h), h)
         /\ r.snoozed => Calm(r, Resume(r, h), h)
<1>1. ASSUME r.state = "ESCALATED" PROVE Calm(r, Reset(r, h), h)
  <2> DEFINE q == [r EXCEPT !.attempt = 0, !.state = "OK"]
  <2>1. 0 \in 0 .. AttemptCap
    BY DeviceEngineAssumption
  <2>2. Fit(g, q) /\ q.snoozed = r.snoozed /\ q.state = "OK"
    BY <1>1, <2>1 DEF Fit, GuardRecord, TimerFits, WorkFits, Abandoned, Busy,
       Following, GState
  <2>3. Reset(r, h) = Evaluate(q, h)
    BY DEF Reset
  <2> HIDE DEF q
  <2> QED BY <2>2, <2>3, EvaluateSettles DEF Calm
<1>2. ASSUME r.snoozed PROVE Calm(r, Resume(r, h), h)
  <2> DEFINE q == [ClearSnooze(r) EXCEPT !.state = "OK"]
  <2>1. q = [r EXCEPT !.timer = "none", !.snoozed = FALSE, !.state = "OK"]
    BY DEF ClearSnooze, CancelTimer, Fit, GuardRecord
  <2>2. Fit(g, q) /\ q.snoozed = FALSE /\ q.state = "OK"
    BY <1>2, <2>1 DEF Fit, GuardRecord, TimerFits, WorkFits, Abandoned, Busy,
       Following, GState, Timers
  <2>3. Resume(r, h) = Evaluate(q, h)
    BY DEF Resume
  <2> HIDE DEF q
  <2> QED BY <2>2, <2>3, EvaluateSettles DEF Calm
<1> QED BY <1>1, <1>2

-----------------------------------------------------------------------------
(* From one guard to the group *)

LEMMA CalmUpdate ==
  ASSUME Consistent, NEW g \in Guards, NEW r, OnlyUpdate(g, r),
         Calm(guard[g], r, health[g])
  PROVE  Tame
<1>1. \A x \in Guards : guard'[x] = IF x = g THEN r ELSE guard[x]
  BY DEF OnlyUpdate, Update, Consistent, TypeOK
<1>2. health' = health
  BY DEF OnlyUpdate
<1> QED BY <1>1, <1>2 DEF Calm, Tame

(* A guard with a task, or one that was suspect, is neither idle nor       *)
(* escalated when it goes on with a repair.                                *)
LEMMA RepairCalm ==
  ASSUME NEW g \in Guards, NEW r, NEW q, NEW h, Fit(g, r), Fit(g, q),
         r.state # "ESCALATED",
         q.state \in {"RECOVERING", "VERIFY", "COOLDOWN", "ESCALATED"}
  PROVE  Calm(r, q, h)
BY DEF Calm, IdleFits, Fit, TimerFits

LEMMA BusyStates ==
  ASSUME NEW g \in Guards, NEW r, Fit(g, r), Busy(r)
  PROVE  r.state \in {"RECOVERING", "VERIFY"} /\ ~r.snoozed
BY DEF Fit, TimerFits, WorkFits, Abandoned

LEMMA CycleStepTame ==
  ASSUME Consistent, Consistent', NEW g \in Guards, NEW r, Busy(guard[g]),
         CycleStep(g, r),
         r.state \in {"RECOVERING", "VERIFY", "COOLDOWN", "ESCALATED"}
  PROVE  Tame
<1>1. guard'[g] = r /\ health' = health
  BY DEF CycleStep
<1>2. Calm(guard[g], r, health[g])
  <2>1. Fit(g, guard[g]) /\ Fit(g, guard'[g])
    BY ConsistentFits DEF Consistent, TypeOK, TimerMatchesState,
       StateFitsWork, Fit
  <2> QED BY <1>1, <2>1, BusyStates, RepairCalm
<1>3. ASSUME NEW x \in Guards, x # g
      PROVE  /\ guard'[x].snoozed = guard[x].snoozed
             /\ guard'[x].state = guard[x].state
             /\ guard'[x].attempt = guard[x].attempt
  <2>1. \/ guard'[x] = guard[x]
        \/ guard'[x] = OnPartnerRepairDone(guard[x], g, r.state = "COOLDOWN")
    BY <1>3 DEF CycleStep
  <2>2. guard[x] \in GuardRecord
    BY DEF Consistent, TypeOK
  <2> QED BY <2>1, <2>2 DEF OnPartnerRepairDone, GuardRecord
<1> QED BY <1>1, <1>2, <1>3 DEF Tame, Calm, IdleFits

-----------------------------------------------------------------------------
(* The cycle task only moves between repairing states and verdicts. *)
LEMMA CycleTame ==
  ASSUME Consistent, Consistent', NEW g \in Guards, Cycle(g), ~CycleBegins(g)
  PROVE  Tame
<1> DEFINE Repairs(q) ==
      q.state \in {"RECOVERING", "VERIFY", "COOLDOWN", "ESCALATED"}
<1>0. /\ guard[g] \in GuardRecord /\ Busy(guard[g])
      /\ guard[g].state \in {"RECOVERING", "VERIFY"}
  <2>1. Busy(guard[g])
    BY DEF Cycle, CanRecover, DriverReturns, DriverRaises, DriverCancelled,
       ReloadDone, VerifyWakes, VerifyTimesOut, Busy
  <2> QED BY <2>1, ConsistentFits, BusyStates DEF Fit
<1>1. ASSUME NEW r \in GuardRecord, r.state \in {"RECOVERING", "VERIFY"}
      PROVE  /\ Repairs(EndTask(r)) /\ Repairs(EndTask(Escalate(r)))
             /\ Repairs(EndTask(RecoverSuccess(r)))
             /\ Repairs(AttemptFailed(g, r))
             /\ \A h \in Health : Repairs(AfterRepair(g, r, h))
  <2>1. /\ Repairs(EndTask(r)) /\ Repairs(EndTask(Escalate(r)))
        /\ Repairs(EndTask(RecoverSuccess(r))) /\ Repairs(NextAttempt(r))
    BY <1>1 DEF EndTask, Escalate, RecoverSuccess, NextAttempt, GuardRecord
  <2>2. Repairs(AttemptFailed(g, r))
    BY <2>1 DEF AttemptFailed
  <2>3. Repairs([r EXCEPT !.state = "VERIFY", !.task = "verify", !.ok = FALSE,
                          !.event = "clear"])
    BY DEF GuardRecord
  <2>4. ASSUME NEW h \in Health PROVE Repairs(AfterRepair(g, r, h))
    <3> HIDE DEF Repairs
    <3>1. CASE g \notin HealthCheck /\ r.ok
      BY <2>1, <3>1 DEF AfterRepair
    <3>2. CASE g \notin HealthCheck /\ ~r.ok
      BY <2>2, <3>2 DEF AfterRepair
    <3>3. CASE g \in HealthCheck /\ h = "OK"
      BY <2>1, <3>3 DEF AfterRepair
    <3>4. CASE g \in HealthCheck /\ h # "OK"
      BY <2>3, <3>4 DEF AfterRepair
    <3> QED BY <3>1, <3>2, <3>3, <3>4
  <2> QED BY <2>1, <2>2, <2>4
<1>2. health[g] \in Health
  BY DEF Consistent, TypeOK
<1>3. ASSUME NEW ok \in BOOLEAN
      PROVE  LET r == [guard[g] EXCEPT !.ok = ok]
             IN  /\ r \in GuardRecord /\ r.state \in {"RECOVERING", "VERIFY"}
                 /\ Repairs([r EXCEPT !.task = "reload"])
  BY <1>0 DEF GuardRecord
<1>4. Repairs([guard[g] EXCEPT !.task = "recover"])
  BY <1>0 DEF GuardRecord
<1>5. \E r : CycleStep(g, r) /\ Repairs(r)
  <2> HIDE DEF Repairs
  <2>1. CASE CanRecover(g)
    BY <1>0, <1>1, <1>4, <2>1 DEF CanRecover
  <2>2. CASE DriverReturns(g)
    BY <1>1, <1>2, <1>3, <2>2 DEF DriverReturns
  <2>3. CASE DriverRaises(g) \/ DriverCancelled(g)
    BY <1>0, <1>1, <2>3 DEF DriverRaises, DriverCancelled
  <2>4. CASE ReloadDone(g) \/ VerifyWakes(g)
    BY <1>0, <1>1, <1>2, <2>4 DEF ReloadDone, VerifyWakes
  <2>5. CASE VerifyTimesOut(g)
    BY <1>0, <1>1, <2>5 DEF VerifyTimesOut
  <2> QED BY <2>1, <2>2, <2>3, <2>4, <2>5 DEF Cycle
<1> QED BY <1>0, <1>5, CycleStepTame

(* The start of a cycle reaches the partners: they follow or give up. *)
LEMMA CycleBeginsTame ==
  ASSUME Consistent, Consistent', NEW g \in Guards, CycleBegins(g)
  PROVE  Tame
<1>1. health' = health
  BY DEF CycleBegins
<1>2. ASSUME NEW x \in Guards PROVE Calm(guard[x], guard'[x], health[x])
  <2>1. Fit(x, guard[x]) /\ Fit(x, guard'[x])
    BY ConsistentFits DEF Consistent, TypeOK, TimerMatchesState,
       StateFitsWork, Fit
  <2>2. CASE x = g
    <3>1. guard'[x] = NextAttempt(guard[x]) /\ Busy(guard[x])
      BY <2>2, GuardGroupAssumption DEF CycleBegins, Engines, Busy
    <3>2. guard'[x].state = "RECOVERING"
      BY <2>1, <3>1 DEF NextAttempt, Fit, GuardRecord
    <3> QED BY <2>1, <3>1, <3>2, BusyStates, RepairCalm
  <2>3. CASE x # g /\ x \in Engines(g)
    <3>1. guard'[x] = OnPartnerRepairStart(x, guard[x], g, health[x])
      BY <2>3 DEF CycleBegins
    <3>2. \/ guard'[x] = guard[x]
          \/ guard'[x].state = "RECOVERING"
          \/ guard'[x].state = "ESCALATED" /\ guard[x].state # "ESCALATED"
      BY <2>1, <3>1 DEF OnPartnerRepairStart, CancelTimer, Escalate, Fit,
         GuardRecord
    <3> QED BY <2>1, <3>2 DEF Calm, IdleFits, Fit, TimerFits
  <2>4. CASE x # g /\ x \notin Engines(g)
    <3>1. guard'[x] = guard[x]
      BY <2>4 DEF CycleBegins
    <3> QED BY <3>1 DEF Calm
  <2> QED BY <2>2, <2>3, <2>4
<1> QED BY <1>1, <1>2 DEF Tame, Calm

LEMMA ValidationTame ==
  ASSUME Consistent, Consistent', NEW g \in Guards, Validation(g)
  PROVE  Tame
<1>1. /\ Fit(g, guard[g]) /\ Fit(g, guard'[g]) /\ health[g] \in Health
      /\ Busy(guard[g])
  BY ConsistentFits DEF Consistent, TypeOK, TimerMatchesState,
     StateFitsWork, Fit, Validation, ValidationBegins, ValidationWakes,
     ValidationTimesOut, Busy
<1>2. guard[g].state \in {"RECOVERING", "VERIFY"} /\ ~guard[g].snoozed
  BY <1>1, BusyStates
<1>3. PICK r : OnlyUpdate(g, r) /\ guard'[g] = r
               /\ \/ r = StartValidation(guard[g], health[g])
                  \/ r = EndTask(RecoverSuccess(guard[g]))
                  \/ r = ValidationFailed(guard[g], health[g])
  BY DEF Validation, ValidationBegins, ValidationWakes, ValidationTimesOut,
     OnlyUpdate, Update, Consistent, TypeOK
<1>4. EndTask(RecoverSuccess(guard[g])).state = "COOLDOWN"
  BY <1>1 DEF EndTask, RecoverSuccess, Fit, GuardRecord
<1>5. CASE r = StartValidation(guard[g], health[g])
           \/ r = EndTask(RecoverSuccess(guard[g]))
  <2>1. r.state \in {"COOLDOWN", "VERIFY"}
    BY <1>1, <1>4, <1>5 DEF StartValidation, Fit, GuardRecord
  <2> QED BY <1>1, <1>2, <1>3, <2>1, RepairCalm, CalmUpdate
<1>6. CASE r = ValidationFailed(guard[g], health[g]) /\ ~guard[g].ok
  <2>1. r.state = "ESCALATED"
    BY <1>1, <1>6 DEF ValidationFailed, EndTask, Escalate, Fit, GuardRecord
  <2> QED BY <1>1, <1>2, <1>3, <2>1, RepairCalm, CalmUpdate
<1>7. CASE r = ValidationFailed(guard[g], health[g]) /\ guard[g].ok
  <2> DEFINE q == [guard[g] EXCEPT !.state = "OK", !.event = "none"]
             e == Evaluate(q, health[g])
  <2>1. ~Following(guard[g])
    BY <1>1 DEF Fit, WorkFits, Abandoned
  <2>2. r = EndTask(e)
    BY <1>7 DEF ValidationFailed
  <2>3. /\ q \in GuardRecord /\ ~q.snoozed /\ ~Following(q) /\ q.state = "OK"
        /\ q.event = "none"
    BY <1>1, <1>2, <2>1 DEF Fit, GuardRecord, Following, GState
  <2>4. e = SteadyEdge(q, health[g])
    BY <2>3 DEF Evaluate, WakeVerify
  <2> HIDE DEF q, e
  <2>5. /\ e \in GuardRecord /\ IdleFits(e, health[g])
        /\ e.state \in {"OK", "SUSPECT", "BLIND"} /\ ~e.snoozed
    BY <1>1, <2>3, <2>4 DEF SteadyEdge, CancelTimer, EnterSuspect, IdleFits,
       GuardRecord, Health, GState, Timers
  <2>6. r.state = e.state /\ r.snoozed = e.snoozed
    BY <2>2, <2>5 DEF EndTask, GuardRecord
  <2>7. Calm(guard[g], r, health[g])
    BY <1>2, <2>5, <2>6 DEF Calm, IdleFits
  <2> QED BY <1>3, <2>7, CalmUpdate
<1> QED BY <1>3, <1>5, <1>6, <1>7

-----------------------------------------------------------------------------
(* The callbacks of one guard *)

LEMMA DebounceTame ==
  ASSUME Consistent, Consistent', NEW g \in Guards, DebounceDone(g)
  PROVE  Tame
<1> DEFINE r == CancelTimer(guard[g])
<1>1. /\ Fit(g, guard[g]) /\ Fit(g, guard'[g]) /\ health[g] \in Health
      /\ guard[g].timer = "debounce"
  BY ConsistentFits DEF Consistent, TypeOK, TimerMatchesState,
     StateFitsWork, Fit, DebounceDone
<1>2. /\ guard[g].state = "SUSPECT" /\ r.state = "SUSPECT"
      /\ ~Busy(guard[g]) /\ r \in GuardRecord
  BY <1>1 DEF Fit, TimerFits, WorkFits, Abandoned, CancelTimer, GuardRecord,
     Timers
<1>3. CASE health[g] # "UNHEALTHY"
  <2>1. OnlyUpdate(g, [r EXCEPT !.state = "OK"])
    BY <1>2, <1>3 DEF DebounceDone
  <2>2. Calm(guard[g], [r EXCEPT !.state = "OK"], health[g])
    BY <1>1, <1>2, <1>3 DEF Calm, IdleFits, CancelTimer, Fit, GuardRecord
  <2> QED BY <2>1, <2>2, CalmUpdate
<1>4. CASE health[g] = "UNHEALTHY"
  <2>1. \/ OnlyUpdate(g, Escalate(r))
        \/ \E leader \in Partners[g] :
             OnlyUpdate(g, Joined(g, r, leader)) /\ ShouldAttempt(g, r)
        \/ OnlyUpdate(g, StartCycle(r))
    BY <1>2, <1>4 DEF DebounceDone, RepairingPartners
  <2>2. Escalate(r).state = "ESCALATED" /\ StartCycle(r).state = "RECOVERING"
    BY <1>2 DEF Escalate, StartCycle, Busy, CancelTimer, GuardRecord
  <2>3. ASSUME NEW leader \in Partners[g], ShouldAttempt(g, r)
        PROVE  Joined(g, r, leader).state = "RECOVERING"
    <3>1. FreeToAnswer(g, r) /\ r.auto
      BY <1>1, <1>2, <2>3 DEF ShouldAttempt, FreeToAnswer, AllowsRecovery,
         CancelTimer, Busy, Following, Fit, TimerFits, WorkFits, Abandoned,
         GuardRecord
    <3> QED
      BY <1>2, <3>1 DEF Joined, OnPartnerRepairStart, CancelTimer, GuardRecord
  <2>4. PICK q : OnlyUpdate(g, q) /\ q.state \in {"ESCALATED", "RECOVERING"}
    BY <2>1, <2>2, <2>3
  <2>5. guard'[g] = q
    BY <2>4 DEF OnlyUpdate, Update, Consistent, TypeOK
  <2>6. Calm(guard[g], q, health[g])
    BY <1>1, <1>2, <2>4, <2>5, RepairCalm
  <2> QED BY <2>4, <2>6, CalmUpdate
<1> QED BY <1>3, <1>4

LEMMA TameStep ==
  ASSUME Consistent, Consistent', NEW g \in Guards, AwakeStep(g)
  PROVE  Tame
<1>0. /\ Fit(g, guard[g]) /\ Fit(g, guard'[g]) /\ health[g] \in Health
      /\ guard[g] \in GuardRecord
  BY ConsistentFits DEF Consistent, TypeOK, TimerMatchesState,
     StateFitsWork, Fit
<1>1. CASE HealthEvent(g)
  <2>1. PICK h \in Health : /\ health' = [health EXCEPT ![g] = h]
                            /\ Update(g, Evaluate(Told(guard[g], h), h))
    BY <1>1 DEF HealthEvent
  <2> DEFINE q == Evaluate(Told(guard[g], h), h)
  <2>2. \A x \in Guards : /\ guard'[x] = IF x = g THEN q ELSE guard[x]
                          /\ health'[x] = IF x = g THEN h ELSE health[x]
    BY <2>1 DEF Update, Consistent, TypeOK
  <2>3. /\ q.snoozed = guard[g].snoozed /\ IdleFits(q, h)
        /\ q.state = "ESCALATED" => guard[g].state = "ESCALATED"
                                    /\ q.attempt = guard[g].attempt
    BY <1>0, ToldSettles
  <2> HIDE DEF q
  <2> QED BY <2>2, <2>3 DEF Tame
<1>2. CASE TemplateDrift(g)
  <2>1. PICK h \in Health : health' = [health EXCEPT ![g] = h]
    BY <1>2 DEF TemplateDrift
  <2>2. \A x \in Guards : x \notin TemplateHealth => health'[x] = health[x]
    BY <1>2, <2>1 DEF TemplateDrift, Consistent, TypeOK
  <2>3. guard' = guard
    BY <1>2 DEF TemplateDrift
  <2> QED BY <2>2, <2>3 DEF Tame
<1>3. CASE TemplateEvent(g)
  <2> DEFINE q == Evaluate(Told(guard[g], health[g]), health[g])
  <2>1. Calm(guard[g], q, health[g])
    BY <1>0, ToldSettles DEF Calm
  <2>2. OnlyUpdate(g, q)
    BY <1>3 DEF TemplateEvent
  <2> HIDE DEF q
  <2> QED BY <2>1, <2>2, CalmUpdate
<1>4. CASE CooldownDone(g)
  <2> DEFINE r == CancelTimer(guard[g])
  <2>1. guard[g].state = "COOLDOWN" /\ r.state = "COOLDOWN" /\ r \in GuardRecord
        /\ r.snoozed = guard[g].snoozed
    BY <1>0, <1>4 DEF CooldownDone, Fit, TimerFits, CancelTimer, GuardRecord,
       Timers
  <2> HIDE DEF r
  <2>2. CASE health[g] = "UNHEALTHY"
    <3>1. OnlyUpdate(g, EnterSuspect(r))
      BY <1>4, <2>1, <2>2 DEF CooldownDone, r
    <3>2. Calm(guard[g], EnterSuspect(r), health[g])
      BY <2>1, <2>2 DEF Calm, EnterSuspect, IdleFits, GuardRecord
    <3> QED BY <3>1, <3>2, CalmUpdate
  <2>3. CASE health[g] # "UNHEALTHY"
    <3>1. OnlyUpdate(g, [r EXCEPT !.state = "OK"])
      BY <1>4, <2>1, <2>3 DEF CooldownDone, r
    <3>2. Calm(guard[g], [r EXCEPT !.state = "OK"], health[g])
      BY <2>1, <2>3 DEF Calm, IdleFits, GuardRecord
    <3> QED BY <3>1, <3>2, CalmUpdate
  <2> QED BY <2>2, <2>3
<1>5. CASE SnoozeDone(g)
  <2>1. guard[g].snoozed
    BY <1>0, <1>5 DEF SnoozeDone, Fit, TimerFits
  <2> QED BY <1>0, <1>5, <2>1, ResetResumeCalm, CalmUpdate DEF SnoozeDone
<1>6. CASE SetAuto(g)
  <2>1. Calm(guard[g], [guard[g] EXCEPT !.auto = ~@], health[g])
    BY <1>0 DEF Calm, IdleFits, GuardRecord
  <2> QED BY <1>6, <2>1, CalmUpdate DEF SetAuto
<1>7. CASE ResetGuard(g)
  BY <1>0, <1>7, ResetResumeCalm, CalmUpdate DEF ResetGuard
<1>8. CASE UnsnoozeGuard(g)
  BY <1>0, <1>8, ResetResumeCalm, CalmUpdate DEF UnsnoozeGuard
<1>9. CASE ManualRecover(g)
  <2> DEFINE q == StartCycle(ClearSnooze([guard[g] EXCEPT !.attempt = 0]))
  <2>1. ~Busy(guard[g]) /\ health' = health
    BY <1>9 DEF ManualRecover
  <2>2. /\ \A x \in Guards : guard'[x] = IF x = g THEN q ELSE guard[x]
    BY <1>9 DEF ManualRecover, Update, Consistent, TypeOK
  <2>3. q.state = "RECOVERING"
    BY <1>0, <2>1 DEF StartCycle, ClearSnooze, CancelTimer, Busy, GuardRecord
  <2> HIDE DEF q
  <2>4. ~q.snoozed
    BY <1>0, <2>2, <2>3 DEF Fit, TimerFits
  <2> QED BY <2>1, <2>2, <2>3, <2>4 DEF Tame, IdleFits
<1> QED
  BY <1>1, <1>2, <1>3, <1>4, <1>5, <1>6, <1>7, <1>8, <1>9, DebounceTame,
     CycleTame, CycleBeginsTame, ValidationTame
     DEF AwakeStep, Environment, Timer, Cycle

(* A snooze puts its guard beyond health, and no other. *)
LEMMA SnoozeTellsHealth ==
  ASSUME NEW g \in Guards, NEW r \in GuardRecord
  PROVE  /\ Snooze(r).state = "SNOOZED" /\ Snooze(r).snoozed
         /\ \A h : IdleFits(Snooze(r), h)
BY DEF Snooze, GuardRecord, IdleFits

(* The state a guard shows while it waits - OK, SUSPECT, BLIND - agrees    *)
(* with its health after every callback: a resumed snooze, an elapsed      *)
(* debounce or cooldown, a finished validation included.                   *)
THEOREM IdleTellsHealth == Spec => []IdleStateTellsHealth
<1>1. Init => IdleStateTellsHealth
  <2> SUFFICES ASSUME Init PROVE IdleStateTellsHealth
    OBVIOUS
  <2>1. PICK auto \in [Guards -> BOOLEAN] :
          guard = [g \in Guards |-> Evaluate(Told(NewGuard(auto[g]), health[g]),
                                             health[g])]
    BY DEF Init
  <2>2. ASSUME NEW g \in Guards PROVE IdleFits(guard[g], health[g])
    <3>1. health[g] \in Health /\ auto[g] \in BOOLEAN
      BY DEF Init
    <3>2. Fit(g, Told(NewGuard(auto[g]), health[g]))
      BY <3>1, NewGuardFits
    <3> QED BY <2>1, <3>1, <3>2, EvaluateSettles
  <2> QED BY <2>2 DEF IdleStateTellsHealth
<1>2. /\ Consistent /\ Consistent' /\ IdleStateTellsHealth /\ [Next]_vars
      => IdleStateTellsHealth'
  <2> SUFFICES ASSUME Consistent, Consistent', IdleStateTellsHealth,
                      [Next]_vars
               PROVE  IdleStateTellsHealth'
    OBVIOUS
  <2>1. CASE UNCHANGED vars
    BY <2>1 DEF vars, IdleStateTellsHealth
  <2>2. ASSUME NEW g \in Guards, AwakeStep(g) PROVE IdleStateTellsHealth'
    BY <2>2, TameStep DEF Tame, IdleStateTellsHealth
  <2>3. ASSUME NEW g \in Guards, SnoozeGuard(g) PROVE IdleStateTellsHealth'
    <3>1. /\ health' = health
          /\ \A x \in Guards : guard'[x] = IF x = g THEN Snooze(guard[g])
                                           ELSE guard[x]
          /\ guard[g] \in GuardRecord
      BY <2>3 DEF SnoozeGuard, OnlyUpdate, Update, Consistent, TypeOK
    <3> QED BY <3>1, SnoozeTellsHealth DEF IdleStateTellsHealth
  <2> QED BY <2>1, <2>2, <2>3 DEF Next, AwakeStep, Operator
<1>3. Spec => []Consistent
  BY ConsistentAlways
<1> QED BY <1>1, <1>2, <1>3, PTL DEF Spec

-----------------------------------------------------------------------------
(* Budget: max_attempts is a bound.  Whatever led to a cycle that the      *)
(* operator started, or to any cycle of a guard without partners, the      *)
(* attempts that it counts begin at none and stay within it.               *)


Unlinked(g) == Partners[g] = {}

(* The states in which a guard waits for its next repair with a fresh count *)
Waiting == {"OK", "SUSPECT", "BLIND", "COOLDOWN", "SNOOZED"}

(* The attempts of a guard with record r, its cycle started by hand or not. *)
Within(g, r, hand) ==
  /\ hand => r.task \in CyclePoints
  /\ hand \/ Unlinked(g) => /\ r.attempt <= MaxAttempts[g]
                            /\ r.task = "claimed" => r.attempt = 0
  /\ Unlinked(g) => /\ r.task \notin ValidatePoints
                    /\ r.state \in Waiting => r.attempt = 0

Budget == \A g \in Guards : Within(g, guard[g], g \in byHand)

LEMMA MaxIsPositive ==
  ASSUME NEW g \in Guards
  PROVE  MaxAttempts[g] \in Nat /\ 1 <= MaxAttempts[g] /\ MaxAttempts[g] < AttemptCap
BY DeviceEngineAssumption

(* Nothing is asked of a linked guard whose cycle is not by hand. *)
LEMMA LinkedWithin ==
  ASSUME NEW g \in Guards, NEW r, ~Unlinked(g)
  PROVE  Within(g, r, FALSE)
BY DEF Within

(* A fresh count is within any budget. *)
LEMMA FreshWithin ==
  ASSUME NEW g \in Guards, NEW r, r.attempt = 0, r.task \notin ValidatePoints
  PROVE  Within(g, r, FALSE) /\ (r.task \in CyclePoints => Within(g, r, TRUE))
BY MaxIsPositive DEF Within

-----------------------------------------------------------------------------
(* Evaluation, reset and resume *)

LEMMA EvaluateCounts ==
  ASSUME NEW g \in Guards, NEW r, NEW h \in Health, Fit(g, r)
  PROVE  /\ Evaluate(r, h).attempt \in {r.attempt, 0}
         /\ Evaluate(r, h).state \in Waiting =>
              r.state \in Waiting \/ Evaluate(r, h).attempt = 0
<1>1. CASE r.snoozed \/ Following(r)
  BY <1>1 DEF Evaluate
<1>2. CASE ~(r.snoozed \/ Following(r))
  <2> DEFINE w == WakeVerify(r, h)
  <2>1. w \in GuardRecord /\ w.state = r.state /\ w.attempt = r.attempt
    BY DEF Fit, WakeVerify, GuardRecord
  <2>2. Evaluate(r, h) = SteadyEdge(w, h)
    BY <1>2 DEF Evaluate
  <2> HIDE DEF w
  <2>3. /\ SteadyEdge(w, h).attempt \in {w.attempt, 0}
        /\ SteadyEdge(w, h).state \in Waiting =>
             w.state \in Waiting \/ SteadyEdge(w, h).attempt = 0
    BY <2>1 DEF SteadyEdge, CancelTimer, EnterSuspect, GuardRecord, Health,
       Waiting
  <2> QED BY <2>1, <2>2, <2>3
<1> QED BY <1>1, <1>2

LEMMA EvaluateWithin ==
  ASSUME NEW g \in Guards, NEW r, NEW h \in Health, NEW hand \in BOOLEAN,
         Fit(g, r), Within(g, r, hand)
  PROVE  Within(g, Evaluate(r, h), hand)
BY EvaluateCounts, EvaluateKeepsTask, MaxIsPositive DEF Within

LEMMA ToldWithin ==
  ASSUME NEW g \in Guards, NEW r, NEW h \in Health, Fit(g, r),
         NEW hand \in BOOLEAN, Within(g, r, hand)
  PROVE  Within(g, Evaluate(Told(r, h), h), hand)
<1> DEFINE t == Told(r, h)
<1>1. /\ Fit(g, t) /\ t.task = r.task /\ t.state = r.state
      /\ t.attempt = r.attempt
  BY ToldFits
<1> HIDE DEF t
<1>2. Within(g, t, hand)
  BY <1>1 DEF Within
<1>3. Within(g, Evaluate(t, h), hand)
  BY <1>1, <1>2, EvaluateWithin
<1> QED BY <1>3 DEF t

LEMMA ResetResumeWithin ==
  ASSUME NEW g \in Guards, NEW r, NEW h \in Health,
         Fit(g, r), Within(g, r, FALSE)
  PROVE  /\ r.state = "ESCALATED" => Within(g, Reset(r, h), FALSE)
         /\ r.snoozed => Within(g, Resume(r, h), FALSE)
<1>1. ASSUME r.state = "ESCALATED" PROVE Within(g, Reset(r, h), FALSE)
  <2> DEFINE q == [r EXCEPT !.attempt = 0, !.state = "OK"]
  <2>1. 0 \in 0 .. AttemptCap
    BY DeviceEngineAssumption
  <2>2. Fit(g, q) /\ q.attempt = 0 /\ q.task = "none"
    BY <1>1, <2>1 DEF Fit, GuardRecord, TimerFits, WorkFits, Abandoned, Busy,
       Following, GState
  <2>3. Within(g, q, FALSE)
    BY <2>2, FreshWithin DEF ValidatePoints
  <2> HIDE DEF q
  <2>4. Within(g, Evaluate(q, h), FALSE)
    BY <2>2, <2>3, EvaluateWithin
  <2> QED BY <2>4 DEF Reset, q
<1>2. ASSUME r.snoozed PROVE Within(g, Resume(r, h), FALSE)
  <2> DEFINE q == [ClearSnooze(r) EXCEPT !.state = "OK"]
  <2>1. q = [r EXCEPT !.timer = "none", !.snoozed = FALSE, !.state = "OK"]
    BY DEF ClearSnooze, CancelTimer
  <2>2. Fit(g, q) /\ q.attempt = r.attempt /\ q.task = r.task
    BY <1>2, <2>1 DEF Fit, GuardRecord, TimerFits, WorkFits, Abandoned, Busy,
       Following, GState, Timers
  <2>3. r.state = "SNOOZED"
    BY <1>2 DEF Fit, TimerFits
  <2>4. Within(g, q, FALSE)
    BY <2>2, <2>3 DEF Within, Waiting
  <2> HIDE DEF q
  <2>5. Within(g, Evaluate(q, h), FALSE)
    BY <2>2, <2>4, EvaluateWithin
  <2> QED BY <2>5 DEF Resume, q
<1> QED BY <1>1, <1>2

-----------------------------------------------------------------------------
(* A stretch of a cycle *)

(* q is where a cycle of g, by hand or not, may go on to or end. *)
GoesOn(g, q, hand) == Within(g, q, hand /\ Busy(q))

LEMMA VerdictGoesOn ==
  ASSUME NEW g \in Guards, NEW r, NEW hand \in BOOLEAN, Fit(g, r), Busy(r),
         Within(g, r, hand)
  PROVE  /\ GoesOn(g, EndTask(Escalate(r)), hand)
         /\ GoesOn(g, EndTask(RecoverSuccess(r)), hand)
         /\ GoesOn(g, EndTask(r), hand)
<1>1. \A q \in {EndTask(Escalate(r)), EndTask(RecoverSuccess(r)), EndTask(r)} :
        q.task = "none" /\ ~Busy(q)
  BY DEF EndTask, Escalate, RecoverSuccess, Fit, GuardRecord, Busy
<1>2. /\ EndTask(Escalate(r)).attempt = r.attempt
      /\ EndTask(Escalate(r)).state = "ESCALATED"
      /\ EndTask(RecoverSuccess(r)).attempt = 0
      /\ EndTask(r).attempt = r.attempt
      /\ EndTask(r).state = r.state
  BY DEF EndTask, Escalate, RecoverSuccess, Fit, GuardRecord
<1>3. r.state \notin Waiting
  BY DEF Fit, WorkFits, Abandoned, Waiting
<1> QED
  BY <1>1, <1>2, <1>3, MaxIsPositive DEF GoesOn, Within, Waiting, CyclePoints,
     ValidatePoints

LEMMA NextAttemptGoesOn ==
  ASSUME NEW g \in Guards, NEW r, NEW hand \in BOOLEAN, Fit(g, r),
         hand \/ Unlinked(g) => r.attempt < MaxAttempts[g]
  PROVE  GoesOn(g, NextAttempt(r), hand)
<1>1. /\ NextAttempt(r).task = "can_recover"
      /\ NextAttempt(r).state = "RECOVERING"
      /\ NextAttempt(r).attempt =
           IF r.attempt < AttemptCap THEN r.attempt + 1 ELSE r.attempt
  BY DEF NextAttempt, Fit, GuardRecord
<1>2. r.attempt \in Nat /\ AttemptCap \in Nat
  BY DeviceEngineAssumption DEF Fit, GuardRecord
<1> QED
  BY <1>1, <1>2, MaxIsPositive DEF GoesOn, Within, Waiting, Busy, CyclePoints,
     ValidatePoints

LEMMA AttemptFailedGoesOn ==
  ASSUME NEW g \in Guards, NEW r, NEW hand \in BOOLEAN, Fit(g, r), Busy(r),
         Within(g, r, hand)
  PROVE  GoesOn(g, AttemptFailed(g, r), hand)
<1>1. CASE OutOfAttempts(g, r)
  BY <1>1, VerdictGoesOn DEF AttemptFailed
<1>2. CASE ~OutOfAttempts(g, r)
  <2>1. r.attempt < MaxAttempts[g]
    BY <1>2, MaxIsPositive, DeviceEngineAssumption
       DEF OutOfAttempts, Fit, GuardRecord
  <2> QED BY <1>2, <2>1, NextAttemptGoesOn DEF AttemptFailed
<1> QED BY <1>1, <1>2

LEMMA AfterRepairGoesOn ==
  ASSUME NEW g \in Guards, NEW r, NEW h \in Health, NEW hand \in BOOLEAN,
         Fit(g, r), r.task \in CyclePoints, Within(g, r, hand)
  PROVE  GoesOn(g, AfterRepair(g, r, h), hand)
<1> DEFINE v == [r EXCEPT !.state = "VERIFY", !.task = "verify", !.ok = FALSE,
                          !.event = "clear"]
<1>1. GoesOn(g, v, hand)
  <2>1. v.task = "verify" /\ v.state = "VERIFY" /\ v.attempt = r.attempt
    BY DEF Fit, GuardRecord
  <2> HIDE DEF v
  <2> QED BY <2>1 DEF GoesOn, Within, Waiting, Busy, CyclePoints, ValidatePoints
<1>2. AfterRepair(g, r, h) \in {EndTask(RecoverSuccess(r)),
                                AttemptFailed(g, r), v}
  <2>1. r.ok \in BOOLEAN
    BY DEF Fit, GuardRecord
  <2>2. CASE g \notin HealthCheck /\ r.ok
    BY <2>2 DEF AfterRepair
  <2>3. CASE g \notin HealthCheck /\ ~r.ok
    BY <2>3 DEF AfterRepair
  <2>4. CASE g \in HealthCheck /\ h = "OK"
    BY <2>4 DEF AfterRepair
  <2>5. CASE g \in HealthCheck /\ h # "OK"
    BY <2>5 DEF AfterRepair
  <2> QED BY <2>1, <2>2, <2>3, <2>4, <2>5
<1>3. Busy(r)
  BY DEF Busy, CyclePoints
<1> HIDE DEF v
<1> QED BY <1>1, <1>2, <1>3, VerdictGoesOn, AttemptFailedGoesOn

-----------------------------------------------------------------------------
(* From one guard to the group *)

LEMMA OneGuardWithin ==
  ASSUME Consistent, Budget, NEW g \in Guards, NEW r, Update(g, r),
         byHand' = byHand, Within(g, r, g \in byHand)
  PROVE  Budget'
<1>1. \A x \in Guards : guard'[x] = IF x = g THEN r ELSE guard[x]
  BY DEF Update, Consistent, TypeOK
<1> SUFFICES ASSUME NEW x \in Guards
             PROVE  Within(x, guard'[x], x \in byHand')
  BY DEF Budget, Within, Unlinked
<1> QED BY <1>1 DEF Budget

(* A guard without a task of its own cycle is not in one by hand. *)
LEMMA NotByHand ==
  ASSUME Budget, NEW g \in Guards, ~InCycle(g)
  PROVE  g \notin byHand /\ (g \in byHand <=> FALSE) /\ Within(g, guard[g], FALSE)
BY DEF Budget, Within, InCycle

LEMMA FreeGuardWithin ==
  ASSUME Consistent, Budget, NEW g \in Guards, NEW r, ~InCycle(g),
         OnlyUpdate(g, r), Within(g, r, FALSE)
  PROVE  Budget'
<1>1. Update(g, r) /\ byHand' = byHand
  BY DEF OnlyUpdate
<1>2. g \notin byHand
  BY NotByHand
<1>3. Within(g, r, g \in byHand)
  BY <1>2 DEF Within
<1> QED BY <1>1, <1>3, OneGuardWithin

LEMMA CycleStepWithin ==
  ASSUME Consistent, Budget, NEW g \in Guards, NEW r, CycleStep(g, r),
         GoesOn(g, r, g \in byHand)
  PROVE  Budget'
<1> SUFFICES ASSUME NEW x \in Guards
             PROVE  Within(x, guard'[x], x \in byHand')
  BY DEF Budget, Within, Unlinked
<1>1. byHand' = IF Busy(r) THEN byHand ELSE byHand \ {g}
  BY DEF CycleStep
<1>2. CASE x = g
  <2>1. guard'[x] = r
    BY <1>2 DEF CycleStep
  <2>2. x \in byHand' <=> x \in byHand /\ Busy(r)
    BY <1>1, <1>2
  <2> QED BY <1>2, <2>1, <2>2 DEF GoesOn, Within
<1>3. CASE x # g
  <2>1. x \in byHand' <=> x \in byHand
    BY <1>1, <1>3
  <2>2. CASE guard'[x] = guard[x]
    BY <2>1, <2>2 DEF Budget, Within
  <2>3. CASE guard'[x] # guard[x]
    <3>1. x \in Partners[g] /\ guard[x].leader = g
      BY <1>3, <2>3 DEF CycleStep, OnPartnerRepairDone
    <3>2. ~Unlinked(x)
      BY <3>1, GuardGroupAssumption DEF Unlinked
    <3>3. ~InCycle(x)
      BY <3>1, ConsistentFits, DeviceEngineAssumption
         DEF Fit, WorkFits, Abandoned, Following, Busy, InCycle, CyclePoints
    <3>4. x \notin byHand
      BY <3>3, NotByHand
    <3> QED BY <2>1, <3>2, <3>4 DEF Within
  <2> QED BY <2>2, <2>3
<1> QED BY <1>2, <1>3

-----------------------------------------------------------------------------
(* The actions *)

LEMMA EnvironmentWithin ==
  ASSUME Consistent, Budget, NEW g \in Guards, Environment(g)
  PROVE  Budget'
<1> DEFINE hand == g \in byHand
<1>1. /\ Fit(g, guard[g]) /\ health[g] \in Health
      /\ Within(g, guard[g], hand) /\ hand \in BOOLEAN
  BY ConsistentFits DEF Consistent, TypeOK, Budget
<1>0. ASSUME NEW r, Update(g, r), byHand' = byHand, Within(g, r, hand)
      PROVE  Budget'
  BY <1>0, OneGuardWithin
<1> HIDE DEF hand
<1>2. CASE HealthEvent(g)
  <2>1. PICK h \in Health : Update(g, Evaluate(Told(guard[g], h), h))
    BY <1>2 DEF HealthEvent
  <2> QED
    BY <1>0, <1>1, <1>2, <2>1, ToldWithin DEF HealthEvent
<1>3. CASE TemplateDrift(g)
  BY <1>3 DEF TemplateDrift, Budget, Within, Unlinked
<1>4. CASE TemplateEvent(g)
  BY <1>0, <1>1, <1>4, ToldWithin DEF TemplateEvent, OnlyUpdate
<1> QED BY <1>2, <1>3, <1>4 DEF Environment

LEMMA TimerWithin ==
  ASSUME Consistent, Budget, NEW g \in Guards, Timer(g)
  PROVE  Budget'
<1> DEFINE r == CancelTimer(guard[g])
<1>1. /\ Fit(g, guard[g]) /\ health[g] \in Health
      /\ guard[g] \in GuardRecord
  BY ConsistentFits DEF Consistent, TypeOK
<1>2. ~InCycle(g) /\ guard[g].task = "none"
  BY <1>1 DEF Timer, DebounceDone, CooldownDone, SnoozeDone, Fit, TimerFits,
     WorkFits, Abandoned, InCycle, CyclePoints, Busy
<1>3. /\ Within(g, guard[g], FALSE)
      /\ \A q : OnlyUpdate(g, q) /\ Within(g, q, FALSE) => Budget'
  BY <1>2, NotByHand, FreeGuardWithin
<1>4. /\ r.attempt = guard[g].attempt /\ r.task = "none"
      /\ r.state = guard[g].state /\ r \in GuardRecord
  BY <1>1, <1>2 DEF CancelTimer, GuardRecord, Timers
<1>5. CASE DebounceDone(g)
  <2>1. guard[g].state = "SUSPECT"
    BY <1>1, <1>5 DEF DebounceDone, Fit, TimerFits
  <2>2. \/ OnlyUpdate(g, [r EXCEPT !.state = "OK"])
        \/ OnlyUpdate(g, Escalate(r))
        \/ ~Unlinked(g) /\ \E l : OnlyUpdate(g, Joined(g, r, l))
        \/ OnlyUpdate(g, StartCycle(r))
    BY <1>4, <1>5, <2>1 DEF DebounceDone, RepairingPartners, Unlinked
  <2>3. CASE Unlinked(g)
    <3>1. r.attempt = 0
      BY <1>3, <1>4, <2>1, <2>3 DEF Within, Waiting
    <3>2. \A q \in {[r EXCEPT !.state = "OK"], Escalate(r), StartCycle(r)} :
            q.attempt = 0 /\ q.task \in {"none", "claimed"}
      BY <1>4, <3>1 DEF Escalate, StartCycle, Busy, GuardRecord
    <3>3. \A q \in {[r EXCEPT !.state = "OK"], Escalate(r), StartCycle(r)} :
            Within(g, q, FALSE)
      BY <3>2, FreshWithin DEF ValidatePoints
    <3> QED BY <1>3, <2>2, <2>3, <3>3
  <2>4. CASE ~Unlinked(g)
    BY <1>3, <2>2, <2>4, LinkedWithin
  <2> QED BY <2>3, <2>4
<1>6. CASE CooldownDone(g)
  <2>1. guard[g].state = "COOLDOWN"
    BY <1>1, <1>6 DEF CooldownDone, Fit, TimerFits
  <2>2. \E q \in {EnterSuspect(r), [r EXCEPT !.state = "OK"]} : OnlyUpdate(g, q)
    BY <1>4, <1>6, <2>1 DEF CooldownDone
  <2>3. \A q \in {EnterSuspect(r), [r EXCEPT !.state = "OK"]} :
          q.attempt = guard[g].attempt /\ q.task = "none"
    BY <1>4 DEF EnterSuspect, GuardRecord
  <2>4. \A q \in {EnterSuspect(r), [r EXCEPT !.state = "OK"]} :
          Within(g, q, FALSE)
    BY <1>3, <2>1, <2>3 DEF Within, Waiting, ValidatePoints
  <2> QED BY <1>3, <2>2, <2>4
<1>7. CASE SnoozeDone(g)
  <2>1. guard[g].snoozed
    BY <1>1, <1>7 DEF SnoozeDone, Fit, TimerFits
  <2> QED
    BY <1>1, <1>3, <1>7, <2>1, ResetResumeWithin DEF SnoozeDone
<1> QED BY <1>5, <1>6, <1>7 DEF Timer

LEMMA OperatorWithin ==
  ASSUME Consistent, Budget, NEW g \in Guards, Operator(g)
  PROVE  Budget'
<1>1. /\ Fit(g, guard[g]) /\ health[g] \in Health
      /\ guard[g] \in GuardRecord
  BY ConsistentFits DEF Consistent, TypeOK
<1>2. CASE SetAuto(g)
  <2> DEFINE q == [guard[g] EXCEPT !.auto = ~@]
  <2>1. /\ q.task = guard[g].task /\ q.attempt = guard[g].attempt
        /\ q.state = guard[g].state
    BY <1>1 DEF GuardRecord
  <2>2. Update(g, q) /\ byHand' = byHand
    BY <1>2 DEF SetAuto, OnlyUpdate
  <2> HIDE DEF q
  <2>3. Within(g, q, g \in byHand)
    BY <2>1 DEF Budget, Within
  <2> QED BY <2>2, <2>3, OneGuardWithin
<1>3. ASSUME ResetGuard(g) \/ SnoozeGuard(g) \/ UnsnoozeGuard(g)
      PROVE  Budget'
  <2>1. ~InCycle(g) /\ guard[g].task = "none"
    BY <1>1, <1>3 DEF ResetGuard, SnoozeGuard, UnsnoozeGuard, Fit, TimerFits,
       WorkFits, Abandoned, InCycle, CyclePoints, Busy
  <2>2. /\ Within(g, guard[g], FALSE)
        /\ \A q : OnlyUpdate(g, q) /\ Within(g, q, FALSE) => Budget'
    BY <2>1, NotByHand, FreeGuardWithin
  <2>3. CASE ResetGuard(g)
    BY <1>1, <2>2, <2>3, ResetResumeWithin DEF ResetGuard
  <2>4. CASE SnoozeGuard(g)
    <3>1. Snooze(guard[g]).attempt = 0 /\ Snooze(guard[g]).task = "none"
      BY <1>1, <2>1 DEF Snooze, GuardRecord
    <3>2. Within(g, Snooze(guard[g]), FALSE)
      BY <3>1, FreshWithin DEF ValidatePoints
    <3> QED BY <2>2, <2>4, <3>2 DEF SnoozeGuard
  <2>5. CASE UnsnoozeGuard(g)
    BY <1>1, <2>2, <2>5, ResetResumeWithin DEF UnsnoozeGuard
  <2> QED BY <1>3, <2>3, <2>4, <2>5
<1>4. CASE ManualRecover(g)
  <2> DEFINE q == StartCycle(ClearSnooze([guard[g] EXCEPT !.attempt = 0]))
  <2>1. /\ Update(g, q) /\ byHand' = byHand \cup {g} /\ guard[g].task = "none"
    BY <1>4 DEF ManualRecover, Busy
  <2>2. q.task = "claimed" /\ q.attempt = 0
    BY <1>1, <2>1 DEF StartCycle, ClearSnooze, CancelTimer, Busy, GuardRecord
  <2>3. \A x \in Guards : guard'[x] = IF x = g THEN q ELSE guard[x]
    BY <2>1 DEF Update, Consistent, TypeOK
  <2> HIDE DEF q
  <2>4. Within(g, q, TRUE)
    BY <2>2, FreshWithin DEF CyclePoints, ValidatePoints
  <2> SUFFICES ASSUME NEW x \in Guards
               PROVE  Within(x, guard'[x], x \in byHand')
    BY DEF Budget, Within, Unlinked
  <2>5. CASE x = g
    BY <2>1, <2>3, <2>4, <2>5 DEF Within
  <2>6. CASE x # g
    BY <2>1, <2>3, <2>6 DEF Budget, Within
  <2> QED BY <2>5, <2>6
<1> QED BY <1>2, <1>3, <1>4 DEF Operator

LEMMA CycleBeginsWithin ==
  ASSUME Consistent, Budget, NEW g \in Guards, CycleBegins(g)
  PROVE  Budget'
<1> SUFFICES ASSUME NEW x \in Guards
             PROVE  Within(x, guard'[x], x \in byHand)
  BY DEF CycleBegins, Budget, Within, Unlinked
<1>1. Fit(x, guard[x]) /\ Within(x, guard[x], x \in byHand)
  BY ConsistentFits DEF Budget
<1>2. CASE x = g
  <2> DEFINE hand == g \in byHand
  <2>1. guard'[g] = NextAttempt(guard[g]) /\ guard[g].task = "claimed"
    BY GuardGroupAssumption DEF CycleBegins, Engines
  <2>2. hand \in BOOLEAN
    OBVIOUS
  <2>3. hand \/ Unlinked(g) => guard[g].attempt < MaxAttempts[g]
    BY <1>1, <1>2, <2>1, MaxIsPositive DEF Within
  <2>4. ASSUME GoesOn(g, NextAttempt(guard[g]), hand)
        PROVE  Within(x, guard'[x], x \in byHand)
    <3>1. Busy(NextAttempt(guard[g]))
      BY <1>1, <1>2 DEF NextAttempt, Busy, Fit, GuardRecord
    <3> QED BY <1>2, <2>1, <2>4, <3>1 DEF GoesOn, Within
  <2> HIDE DEF hand
  <2> QED BY <1>1, <1>2, <2>2, <2>3, <2>4, NextAttemptGoesOn
<1>3. CASE x # g /\ x \notin Engines(g)
  BY <1>1, <1>3 DEF CycleBegins
<1>4. CASE x # g /\ x \in Engines(g)
  <2>1. ~Unlinked(x)
    BY <1>4, GuardGroupAssumption DEF Engines, Unlinked
  <2>2. guard'[x] = OnPartnerRepairStart(x, guard[x], g, health[x])
    BY <1>4 DEF CycleBegins
  <2>3. CASE guard[x].task = "none"
    BY <2>1, <2>3, NotByHand DEF InCycle, CyclePoints, Within
  <2>4. CASE guard[x].task # "none"
    <3>1. guard'[x] = guard[x]
      BY <2>2, <2>4 DEF OnPartnerRepairStart, FreeToAnswer, Busy
    <3> QED BY <1>1, <3>1
  <2> QED BY <2>3, <2>4
<1> QED BY <1>2, <1>3, <1>4

LEMMA CycleWithin ==
  ASSUME Consistent, Budget, NEW g \in Guards, Cycle(g)
  PROVE  Budget'
<1> DEFINE hand == g \in byHand
<1>1. /\ Fit(g, guard[g]) /\ health[g] \in Health
      /\ Within(g, guard[g], hand) /\ hand \in BOOLEAN
  BY ConsistentFits DEF Consistent, TypeOK, Budget
<1>2. guard[g].task \in CyclePoints /\ Busy(guard[g])
  BY DEF Cycle, CycleBegins, CanRecover, DriverReturns, DriverRaises,
     DriverCancelled, ReloadDone, VerifyWakes, VerifyTimesOut, CyclePoints, Busy
<1> HIDE DEF hand
<1>3. \A r : CycleStep(g, r) /\ GoesOn(g, r, hand) => Budget'
  BY CycleStepWithin DEF hand
<1>4. CASE CanRecover(g)
  <2> DEFINE q == [guard[g] EXCEPT !.task = "recover"]
  <2>1. /\ q.task = "recover" /\ q.attempt = guard[g].attempt
        /\ q.state = guard[g].state
    BY <1>1 DEF Fit, GuardRecord
  <2>2. CycleStep(g, q) \/ CycleStep(g, EndTask(Escalate(guard[g])))
    BY <1>4 DEF CanRecover
  <2> HIDE DEF q
  <2>3. GoesOn(g, q, hand)
    BY <1>1, <2>1 DEF GoesOn, Within, Busy, CyclePoints, ValidatePoints
  <2> QED BY <1>1, <1>2, <1>3, <2>2, <2>3, VerdictGoesOn
<1>5. CASE DriverReturns(g)
  <2>1. PICK ok \in BOOLEAN :
          LET r == [guard[g] EXCEPT !.ok = ok]
          IN  CycleStep(g, IF g \in ReloadEntry THEN [r EXCEPT !.task = "reload"]
                           ELSE AfterRepair(g, r, health[g]))
    BY <1>5 DEF DriverReturns
  <2> DEFINE d == [guard[g] EXCEPT !.ok = ok]
             q == [d EXCEPT !.task = "reload"]
  <2>2. guard[g].task = "recover"
    BY <1>5 DEF DriverReturns
  <2>3. /\ Fit(g, d) /\ d.task = guard[g].task /\ d.attempt = guard[g].attempt
        /\ d.state = guard[g].state
    BY <1>1, <2>2 DEF Fit, GuardRecord, TimerFits, WorkFits, Abandoned, Busy,
       Following
  <2>4. q.task = "reload" /\ q.attempt = d.attempt /\ q.state = d.state
    BY <2>3 DEF Fit, GuardRecord
  <2>5. CycleStep(g, q) \/ CycleStep(g, AfterRepair(g, d, health[g]))
    BY <2>1
  <2> HIDE DEF d, q
  <2>6. Within(g, d, hand)
    BY <1>1, <2>3 DEF Within
  <2>7. GoesOn(g, q, hand)
    BY <1>2, <2>3, <2>4, <2>6
       DEF GoesOn, Within, Busy, CyclePoints, ValidatePoints
  <2>8. GoesOn(g, AfterRepair(g, d, health[g]), hand)
    BY <1>1, <1>2, <2>3, <2>6, AfterRepairGoesOn
  <2> QED BY <1>3, <2>5, <2>7, <2>8
<1>6. CASE DriverRaises(g) \/ DriverCancelled(g) \/ ReloadDone(g)
           \/ VerifyWakes(g) \/ VerifyTimesOut(g)
  <2>1. \E q \in {AttemptFailed(g, guard[g]), EndTask(guard[g]),
                  AfterRepair(g, guard[g], health[g]),
                  EndTask(RecoverSuccess(guard[g]))} : CycleStep(g, q)
    BY <1>6 DEF DriverRaises, DriverCancelled, ReloadDone, VerifyWakes,
       VerifyTimesOut
  <2> QED
    BY <1>1, <1>2, <1>3, <2>1, VerdictGoesOn, AttemptFailedGoesOn,
       AfterRepairGoesOn
<1> QED BY <1>4, <1>5, <1>6, CycleBeginsWithin DEF Cycle

(* A guard without partners has nobody's repair to check. *)
LEMMA ValidationWithin ==
  ASSUME Consistent, Budget, NEW g \in Guards, Validation(g)
  PROVE  Budget'
<1>1. guard[g].task \in ValidatePoints
  BY DEF Validation, ValidationBegins, ValidationWakes, ValidationTimesOut,
     ValidatePoints
<1>2. ~Unlinked(g) /\ g \notin byHand
  BY <1>1 DEF Budget, Within, CyclePoints, ValidatePoints
<1>3. PICK q : OnlyUpdate(g, q)
  BY DEF Validation, ValidationBegins, ValidationWakes, ValidationTimesOut
<1>4. Within(g, q, g \in byHand)
  BY <1>2 DEF Within
<1> QED BY <1>3, <1>4, OneGuardWithin DEF OnlyUpdate

-----------------------------------------------------------------------------
LEMMA InitWithin == Init => Budget
<1> SUFFICES ASSUME Init, NEW g \in Guards
             PROVE  Within(g, guard[g], FALSE) /\ g \notin byHand
  BY DEF Budget, Within, Init
<1>1. PICK auto \in [Guards -> BOOLEAN] :
        guard = [x \in Guards |-> Evaluate(Told(NewGuard(auto[x]), health[x]),
                                           health[x])]
  BY DEF Init
<1> DEFINE n == Told(NewGuard(auto[g]), health[g])
<1>3. health[g] \in Health /\ guard[g] = Evaluate(n, health[g]) /\ g \notin byHand
  BY <1>1 DEF Init
<1>2. Fit(g, n) /\ n.task = "none" /\ n.attempt = 0
  <2>1. auto[g] \in BOOLEAN
    OBVIOUS
  <2> QED BY <1>3, <2>1, NewGuardFits
<1> HIDE DEF n
<1>4. Within(g, n, FALSE)
  BY <1>2, FreshWithin DEF ValidatePoints
<1>5. Within(g, Evaluate(n, health[g]), FALSE)
  BY <1>2, <1>3, <1>4, EvaluateWithin
<1> QED BY <1>3, <1>5

(* engine.py:738-838: attempts are counted against max_attempts in every   *)
(* cycle that the recover button started and in every cycle of a guard     *)
(* without partners; no cancelled driver, snooze, reset or change of health*)
(* lets such a cycle begin with a count that was left over.                *)
THEOREM WithinBudget == Spec => []AttemptBudget
<1>1. Consistent /\ Budget /\ [Next]_vars => Budget'
  <2>1. ASSUME UNCHANGED vars, Budget PROVE Budget'
    BY <2>1 DEF vars, Budget, Within, Unlinked
  <2> QED
    BY <2>1, EnvironmentWithin, TimerWithin, OperatorWithin, CycleWithin,
       ValidationWithin DEF Next
<1>2. Budget => AttemptBudget
  BY DEF Budget, Within, Unlinked, AttemptBudget
<1> QED BY <1>1, <1>2, InitWithin, ConsistentAlways, PTL DEF Spec
=============================================================================
