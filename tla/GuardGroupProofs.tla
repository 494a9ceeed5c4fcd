--------------------------- MODULE GuardGroupProofs ---------------------------
(***************************************************************************)
(* What holds of every group of guards, whatever their number, links and   *)
(* options.                                                                *)
(***************************************************************************)
EXTENDS GuardGroup, TLAPS

(* One guard's part of the inductive invariant. *)
Fit(g, r) == r \in GuardRecord /\ TimerFits(r) /\ WorkFits(g, r)

(* The steady-state edges keep a guard consistent, for every verdict. *)
LEMMA SteadyEdgeFits ==
  ASSUME NEW g \in Guards, NEW r, NEW h \in Health,
         Fit(g, r), ~r.snoozed, ~Following(r)
  PROVE  Fit(g, SteadyEdge(r, h))
<1> USE DEF Fit, GuardRecord, TimerFits, WorkFits, Abandoned, Busy, Following
<1>1. CASE h = "UNKNOWN" /\ r.state \in {"OK", "SUSPECT"}
  <2>1. SteadyEdge(r, h) = [r EXCEPT !.timer = "none", !.state = "BLIND"]
    BY <1>1 DEF SteadyEdge, CancelTimer
  <2> QED BY <1>1, <2>1 DEF GState, Timers
<1>2. CASE h = "UNHEALTHY" /\ r.state \in {"OK", "BLIND"}
  <2>1. SteadyEdge(r, h) = [r EXCEPT !.state = "SUSPECT", !.timer = "debounce"]
    BY <1>2 DEF SteadyEdge, EnterSuspect
  <2> QED BY <1>2, <2>1 DEF GState, Timers
<1>3. CASE h = "OK" /\ r.state \in {"SUSPECT", "BLIND"}
  <2>1. SteadyEdge(r, h) = [r EXCEPT !.timer = "none", !.state = "OK"]
    BY <1>3 DEF SteadyEdge, CancelTimer
  <2> QED BY <1>3, <2>1 DEF GState, Timers
<1>4. CASE h = "OK" /\ r.state = "ESCALATED"
  <2>1. SteadyEdge(r, h) = [r EXCEPT !.attempt = 0, !.state = "OK"]
    BY <1>4 DEF SteadyEdge
  <2>2. 0 \in 0 .. AttemptCap
    BY DeviceEngineAssumption
  <2> QED BY <1>4, <2>1, <2>2 DEF GState, Timers
<1>5. CASE /\ ~(h = "UNKNOWN" /\ r.state \in {"OK", "SUSPECT"})
           /\ ~(h = "UNHEALTHY" /\ r.state \in {"OK", "BLIND"})
           /\ ~(h = "OK" /\ r.state \in {"SUSPECT", "BLIND"})
           /\ ~(h = "OK" /\ r.state = "ESCALATED")
  BY <1>5 DEF SteadyEdge
<1> QED BY <1>1, <1>2, <1>3, <1>4, <1>5

LEMMA EvaluateFits ==
  ASSUME NEW g \in Guards, NEW r, NEW h \in Health, Fit(g, r)
  PROVE  Fit(g, Evaluate(r, h))
<1>1. CASE r.snoozed \/ Following(r)
  BY <1>1 DEF Evaluate
<1>2. CASE ~(r.snoozed \/ Following(r))
  <2> DEFINE w == WakeVerify(r, h)
  <2>1. Fit(g, w) /\ ~w.snoozed /\ ~Following(w)
    BY <1>2 DEF Fit, WakeVerify, GuardRecord, TimerFits, WorkFits, Abandoned,
       Busy, Following
  <2>2. Fit(g, SteadyEdge(w, h))
    BY <2>1, SteadyEdgeFits
  <2> QED BY <1>2, <2>2 DEF Evaluate
<1> QED BY <1>1, <1>2

(* What the subscription told changes nothing else. *)
LEMMA ToldFits ==
  ASSUME NEW g \in Guards, NEW r, NEW h \in Health, Fit(g, r)
  PROVE  /\ Fit(g, Told(r, h))
         /\ \A k \in {"state", "attempt", "auto", "snoozed", "timer", "leader",
                      "task", "ok", "event", "live", "astray"} :
              Told(r, h)[k] = r[k]
BY DEF Told, Fit, GuardRecord, TimerFits, WorkFits, Abandoned, Busy, Following

(* A guard without persisted data, about to be evaluated. *)
LEMMA NewGuardFits ==
  ASSUME NEW g \in Guards, NEW on \in BOOLEAN, NEW h \in Health
  PROVE  LET n == Told(NewGuard(on), h)
         IN  /\ Fit(g, n)
             /\ n.task = "none" /\ n.leader = NoGuard /\ n.attempt = 0
<1>1. 0 \in 0 .. AttemptCap
  BY DeviceEngineAssumption
<1> QED
  BY <1>1 DEF NewGuard, Told, Fit, GuardRecord, TimerFits, WorkFits, Abandoned,
     Busy, Following, GState, Timers, Points

-----------------------------------------------------------------------------
(* The operator services *)

LEMMA ResetFits ==
  ASSUME NEW g \in Guards, NEW r, NEW h \in Health, Fit(g, r),
         r.state = "ESCALATED"
  PROVE  Fit(g, Reset(r, h))
<1> DEFINE q == [r EXCEPT !.attempt = 0, !.state = "OK"]
<1>1. 0 \in 0 .. AttemptCap
  BY DeviceEngineAssumption
<1>2. Fit(g, q)
  BY <1>1 DEF Fit, GuardRecord, TimerFits, WorkFits, Abandoned, Busy,
     Following, GState
<1> QED BY <1>2, EvaluateFits DEF Reset

LEMMA SnoozeFits ==
  ASSUME NEW g \in Guards, NEW r, Fit(g, r), ~Busy(r)
  PROVE  Fit(g, Snooze(r))
<1>1. 0 \in 0 .. AttemptCap
  BY DeviceEngineAssumption
<1> QED
  BY <1>1 DEF Fit, Snooze, GuardRecord, TimerFits, WorkFits, Abandoned, Busy,
     Following, GState, Timers

LEMMA ResumeFits ==
  ASSUME NEW g \in Guards, NEW r, NEW h \in Health, Fit(g, r), r.snoozed
  PROVE  Fit(g, Resume(r, h))
<1> DEFINE q == [ClearSnooze(r) EXCEPT !.state = "OK"]
<1>1. q = [r EXCEPT !.timer = "none", !.snoozed = FALSE, !.state = "OK"]
  BY DEF ClearSnooze, CancelTimer
<1>2. Fit(g, q)
  BY <1>1 DEF Fit, GuardRecord, TimerFits, WorkFits, Abandoned, Busy,
     Following, GState,
     Timers
<1> QED BY <1>2, EvaluateFits DEF Resume

LEMMA PressFits ==
  ASSUME NEW g \in Guards, NEW r, Fit(g, r), ~Busy(r), ~Following(r)
  PROVE  Fit(g, StartCycle(ClearSnooze([r EXCEPT !.attempt = 0])))
<1> DEFINE q == StartCycle(ClearSnooze([r EXCEPT !.attempt = 0]))
<1>1. q = [r EXCEPT !.attempt = 0, !.timer = "none", !.snoozed = FALSE,
                    !.state = "RECOVERING", !.task = "claimed"]
  BY DEF StartCycle, ClearSnooze, CancelTimer, Busy, Fit, GuardRecord
<1>2. 0 \in 0 .. AttemptCap
  BY DeviceEngineAssumption
<1> QED
  BY <1>1, <1>2 DEF Fit, GuardRecord, TimerFits, WorkFits, Abandoned, Busy,
     Following, GState, Timers, Points, CyclePoints

-----------------------------------------------------------------------------
(* The recovery cycle *)

LEMMA NextAttemptFits ==
  ASSUME NEW g \in Guards, NEW r, Fit(g, r), Busy(r)
  PROVE  Fit(g, NextAttempt(r)) /\ Busy(NextAttempt(r))
<1> DEFINE n == IF r.attempt < AttemptCap THEN r.attempt + 1 ELSE r.attempt
<1>1. n \in 0 .. AttemptCap
  <2>1. r.attempt \in 0 .. AttemptCap /\ AttemptCap \in Nat
    BY DeviceEngineAssumption DEF Fit, GuardRecord
  <2> QED BY <2>1
<1>2. NextAttempt(r) = [r EXCEPT !.attempt = n, !.state = "RECOVERING",
                                 !.task = "can_recover", !.ok = FALSE,
                                 !.event = "none"]
  BY DEF NextAttempt
<1> QED
  <2> HIDE DEF n
  <2> QED
    BY <1>1, <1>2 DEF Fit, GuardRecord, TimerFits, WorkFits, Abandoned, Busy,
       Following, GState, Points, CyclePoints

(* A task that ends in ESCALATED or in COOLDOWN leaves a consistent guard. *)
LEMMA VerdictFits ==
  ASSUME NEW g \in Guards, NEW r, Fit(g, r), Busy(r)
  PROVE  /\ Fit(g, EndTask(Escalate(r))) /\ ~Busy(EndTask(Escalate(r)))
         /\ Fit(g, EndTask(RecoverSuccess(r)))
         /\ ~Busy(EndTask(RecoverSuccess(r)))
<1> USE DEF Fit, GuardRecord, TimerFits, WorkFits, Abandoned, Busy, Following,
   GState, Points, Timers
<1>1. EndTask(Escalate(r)) = [r EXCEPT !.state = "ESCALATED", !.task = "none",
                                       !.ok = FALSE, !.event = "none"]
  BY DEF EndTask, Escalate
<1>2. Fit(g, EndTask(Escalate(r))) /\ ~Busy(EndTask(Escalate(r)))
  BY <1>1
<1>3. EndTask(RecoverSuccess(r)) =
        [r EXCEPT !.attempt = 0, !.state = "COOLDOWN", !.timer = "cooldown",
                  !.task = "none", !.ok = FALSE, !.event = "none"]
  BY DEF EndTask, RecoverSuccess
<1>4. 0 \in 0 .. AttemptCap
  BY DeviceEngineAssumption
<1>5. Fit(g, EndTask(RecoverSuccess(r))) /\ ~Busy(EndTask(RecoverSuccess(r)))
  BY <1>3, <1>4
<1> QED BY <1>2, <1>5

LEMMA AttemptFailedFits ==
  ASSUME NEW g \in Guards, NEW r, Fit(g, r), Busy(r)
  PROVE  Fit(g, AttemptFailed(g, r))
BY NextAttemptFits, VerdictFits DEF AttemptFailed

LEMMA AfterRepairFits ==
  ASSUME NEW g \in Guards, NEW r, NEW h \in Health, Fit(g, r), Busy(r)
  PROVE  Fit(g, AfterRepair(g, r, h))
<1>1. CASE g \notin HealthCheck /\ r.ok
  BY <1>1, VerdictFits DEF AfterRepair
<1>2. CASE g \notin HealthCheck /\ ~r.ok
  BY <1>2, AttemptFailedFits DEF AfterRepair
<1>3. CASE g \in HealthCheck /\ h = "OK"
  BY <1>3, VerdictFits DEF AfterRepair
<1>4. CASE g \in HealthCheck /\ h # "OK"
  <2>1. AfterRepair(g, r, h) = [r EXCEPT !.state = "VERIFY", !.task = "verify",
                                         !.ok = FALSE, !.event = "clear"]
    BY <1>4 DEF AfterRepair
  <2> QED
    BY <2>1 DEF Fit, GuardRecord, TimerFits, WorkFits, Abandoned, Busy,
       Following, GState,
       Points, CyclePoints
<1> QED BY <1>1, <1>2, <1>3, <1>4

-----------------------------------------------------------------------------
(* Linking *)

(* Joining a partner's repair takes a guard out of any state it is free in *)
(* - with its timer, or with the timer just fired.                         *)
LEMMA FollowFits ==
  ASSUME NEW g \in Guards, NEW r, NEW q, NEW leader \in Partners[g],
         Fit(g, r), ~Busy(r), ~Following(r), ~r.snoozed,
         NEW away \in BOOLEAN,
         q = [r EXCEPT !.timer = "none", !.leader = leader,
                       !.state = "RECOVERING", !.astray = away]
  PROVE  Fit(g, q)
<1>1. leader \in Guards /\ leader # NoGuard
  BY GuardGroupAssumption, DeviceEngineAssumption
<1> QED
  BY <1>1 DEF Fit, GuardRecord, TimerFits, WorkFits, Abandoned, Busy,
     Following, GState,
     Timers

LEMMA GiveUpFits ==
  ASSUME NEW g \in Guards, NEW r, NEW q, Fit(g, r), ~Busy(r), ~Following(r),
         ~r.snoozed, q = [r EXCEPT !.timer = "none", !.state = "ESCALATED"]
  PROVE  Fit(g, q)
BY DEF Fit, GuardRecord, TimerFits, WorkFits, Abandoned, Busy, Following,
   GState, Timers

LEMMA OnPartnerRepairStartFits ==
  ASSUME NEW g \in Guards, NEW r, NEW h \in Health, NEW leader \in Partners[g],
         Fit(g, r)
  PROVE  Fit(g, OnPartnerRepairStart(g, r, leader, h))
<1> DEFINE s == OnPartnerRepairStart(g, r, leader, h)
<1>1. CASE FreeToAnswer(g, r) /\ r.auto
  <2>1. s = [r EXCEPT !.timer = "none", !.leader = leader,
                      !.state = "RECOVERING", !.astray = r.astray]
    BY <1>1 DEF OnPartnerRepairStart, CancelTimer, Fit, GuardRecord
  <2>2. ~Busy(r) /\ ~Following(r) /\ ~r.snoozed /\ r.astray \in BOOLEAN
    BY <1>1 DEF FreeToAnswer, Fit, GuardRecord
  <2> QED BY <2>1, <2>2, FollowFits
<1>2. CASE FreeToAnswer(g, r) /\ ~r.auto /\ h = "UNHEALTHY"
           /\ r.state # "ESCALATED"
  <2>1. s = [r EXCEPT !.timer = "none", !.state = "ESCALATED"]
    BY <1>2 DEF OnPartnerRepairStart, CancelTimer, Escalate
  <2>2. ~Busy(r) /\ ~Following(r) /\ ~r.snoozed
    BY <1>2 DEF FreeToAnswer
  <2> QED BY <2>1, <2>2, GiveUpFits
<1>3. CASE ~(FreeToAnswer(g, r) /\ r.auto)
           /\ ~(FreeToAnswer(g, r) /\ ~r.auto /\ h = "UNHEALTHY"
                /\ r.state # "ESCALATED")
  BY <1>3 DEF OnPartnerRepairStart
<1> QED BY <1>1, <1>2, <1>3

LEMMA OnPartnerRepairDoneFits ==
  ASSUME NEW g \in Guards, NEW r, NEW leader \in Guards,
         NEW success \in BOOLEAN, Fit(g, r)
  PROVE  Fit(g, OnPartnerRepairDone(r, leader, success))
<1> DEFINE s == OnPartnerRepairDone(r, leader, success)
<1>1. CASE r.leader # leader
  BY <1>1 DEF OnPartnerRepairDone
<1>2. CASE r.leader = leader
  <2>1. Following(r) /\ ~Busy(r)
    BY <1>2, DeviceEngineAssumption DEF Fit, WorkFits, Abandoned, Following
  <2>2. s = [r EXCEPT !.leader = NoGuard, !.astray = FALSE,
                      !.task = "validate", !.ok = success]
    BY <1>2, <2>1 DEF OnPartnerRepairDone
  <2> QED
    BY <2>1, <2>2 DEF Fit, GuardRecord, TimerFits, WorkFits, Abandoned, Busy,
       Following, GState, Points, ValidatePoints
<1> QED BY <1>1, <1>2

LEMMA StartValidationFits ==
  ASSUME NEW g \in Guards, NEW r, NEW h \in Health, Fit(g, r), Busy(r)
  PROVE  Fit(g, StartValidation(r, h))
<1>1. CASE h = "OK"
  BY <1>1, VerdictFits DEF StartValidation
<1>2. CASE h # "OK"
  <2>1. StartValidation(r, h) =
          [r EXCEPT !.state = "VERIFY", !.task = "validate_wait",
                    !.event = "clear"]
    BY <1>2 DEF StartValidation
  <2> QED
    BY <2>1 DEF Fit, GuardRecord, TimerFits, WorkFits, Abandoned, Busy,
       Following, GState,
       Points, ValidatePoints
<1> QED BY <1>1, <1>2

(* The handler evaluates while its task is still in the slot; what it      *)
(* leaves is what the evaluation of the idle guard leaves.                 *)
LEMMA ValidationFailedFits ==
  ASSUME NEW g \in Guards, NEW r, NEW h \in Health, Fit(g, r), Busy(r)
  PROVE  Fit(g, ValidationFailed(r, h))
<1>1. CASE ~r.ok
  BY <1>1, VerdictFits DEF ValidationFailed
<1>2. CASE r.ok
  <2> DEFINE q == [r EXCEPT !.state = "OK", !.event = "none"]
             z == [r EXCEPT !.state = "OK", !.event = "none", !.task = "none",
                            !.ok = FALSE]
  <2>1. Fit(g, z) /\ ~z.snoozed /\ ~Following(z)
    BY DEF Fit, GuardRecord, TimerFits, WorkFits, Abandoned, Busy, Following,
       GState, Points
  <2>2. Fit(g, SteadyEdge(z, h))
    BY <2>1, SteadyEdgeFits
  <2>3. ~q.snoozed /\ ~Following(q) /\ q.event = "none"
    BY DEF Fit, GuardRecord, TimerFits, WorkFits, Abandoned, Busy, Following
  <2>4. Evaluate(q, h) = SteadyEdge(q, h)
    BY <2>3 DEF Evaluate, WakeVerify
  <2>5. EndTask(SteadyEdge(q, h)) = SteadyEdge(z, h)
    <3>1. q.state = "OK" /\ z.state = "OK"
      BY DEF Fit, GuardRecord
    <3>2. CASE h = "UNKNOWN"
      <4>1. SteadyEdge(q, h) = [q EXCEPT !.timer = "none", !.state = "BLIND"]
        BY <3>1, <3>2 DEF SteadyEdge, CancelTimer
      <4>2. SteadyEdge(z, h) = [z EXCEPT !.timer = "none", !.state = "BLIND"]
        BY <3>1, <3>2 DEF SteadyEdge, CancelTimer
      <4> QED BY <4>1, <4>2 DEF EndTask, Fit, GuardRecord
    <3>3. CASE h = "UNHEALTHY"
      <4>1. SteadyEdge(q, h) = [q EXCEPT !.timer = "debounce",
                                         !.state = "SUSPECT"]
        BY <3>1, <3>3 DEF SteadyEdge, EnterSuspect
      <4>2. SteadyEdge(z, h) = [z EXCEPT !.timer = "debounce",
                                         !.state = "SUSPECT"]
        BY <3>1, <3>3 DEF SteadyEdge, EnterSuspect
      <4> QED BY <4>1, <4>2 DEF EndTask, Fit, GuardRecord
    <3>4. CASE h = "OK"
      <4>1. SteadyEdge(q, h) = q /\ SteadyEdge(z, h) = z
        BY <3>1, <3>4 DEF SteadyEdge
      <4> QED BY <4>1 DEF EndTask, Fit, GuardRecord
    <3> QED BY <3>2, <3>3, <3>4 DEF Health
  <2> QED BY <1>2, <2>2, <2>4, <2>5 DEF ValidationFailed
<1> QED BY <1>1, <1>2

-----------------------------------------------------------------------------
(* The inductive invariant *)

Consistent == TypeOK /\ TimerMatchesState /\ StateFitsWork

LEMMA ConsistentFits ==
  ASSUME Consistent, NEW g \in Guards
  PROVE  Fit(g, guard[g])
BY DEF Consistent, TypeOK, TimerMatchesState, StateFitsWork, Fit

LEMMA FitsConsistent ==
  ASSUME NEW f, guard' = [x \in Guards |-> f[x]],
         \A x \in Guards : Fit(x, f[x]),
         health' \in [Guards -> Health], byHand' \subseteq Guards
  PROVE  Consistent'
<1>1. \A x \in Guards : guard'[x] = f[x]
  OBVIOUS
<1>2. guard' \in [Guards -> GuardRecord]
  BY DEF Fit
<1> QED
  BY <1>1, <1>2 DEF Consistent, TypeOK, TimerMatchesState, StateFitsWork, Fit

(* A callback of one guard: it is enough that it leaves that guard fit. *)
LEMMA UpdateConsistent ==
  ASSUME Consistent, NEW g \in Guards, NEW r, Fit(g, r), Update(g, r),
         health' \in [Guards -> Health], byHand' \subseteq Guards
  PROVE  Consistent'
<1> DEFINE f == [guard EXCEPT ![g] = r]
<1>1. guard' = [x \in Guards |-> f[x]]
  BY DEF Update, Consistent, TypeOK
<1>2. \A x \in Guards : f[x] = IF x = g THEN r ELSE guard[x]
  BY DEF Consistent, TypeOK
<1>3. \A x \in Guards : Fit(x, f[x])
  BY <1>2, ConsistentFits
<1> HIDE DEF f
<1> QED BY <1>1, <1>3, FitsConsistent

LEMMA OnlyUpdateConsistent ==
  ASSUME Consistent, NEW g \in Guards, NEW r, Fit(g, r), OnlyUpdate(g, r)
  PROVE  Consistent'
<1>1. health' \in [Guards -> Health] /\ byHand' \subseteq Guards
  BY DEF OnlyUpdate, Consistent, TypeOK
<1> QED BY <1>1, UpdateConsistent DEF OnlyUpdate

(* A step of a cycle: its end also reaches the followers. *)
LEMMA CycleStepConsistent ==
  ASSUME Consistent, NEW g \in Guards, NEW r, Fit(g, r), CycleStep(g, r)
  PROVE  Consistent'
<1> DEFINE f == [x \in Guards |->
                   IF x = g THEN r
                   ELSE IF x \in Partners[g] /\ ~Busy(r)
                     THEN OnPartnerRepairDone(guard[x], g, r.state = "COOLDOWN")
                     ELSE guard[x]]
<1>1. guard' = [x \in Guards |-> f[x]]
  BY DEF CycleStep
<1>2. ASSUME NEW x \in Guards PROVE Fit(x, f[x])
  <2>1. Fit(x, guard[x])
    BY ConsistentFits
  <2>2. Fit(x, OnPartnerRepairDone(guard[x], g, r.state = "COOLDOWN"))
    BY <2>1, OnPartnerRepairDoneFits
  <2> QED BY <2>1, <2>2
<1>3. health' \in [Guards -> Health] /\ byHand' \subseteq Guards
  BY DEF CycleStep, Consistent, TypeOK
<1> HIDE DEF f
<1> QED BY <1>1, <1>2, <1>3, FitsConsistent

LEMMA InitConsistent == Init => Consistent
<1> SUFFICES ASSUME Init PROVE Consistent
  OBVIOUS
<1>1. PICK auto \in [Guards -> BOOLEAN] :
        guard = [g \in Guards |-> Evaluate(Told(NewGuard(auto[g]), health[g]),
                                           health[g])]
  BY DEF Init
<1>4. ASSUME NEW g \in Guards PROVE Fit(g, guard[g])
  <2>1. health[g] \in Health /\ auto[g] \in BOOLEAN
    BY DEF Init
  <2>2. Fit(g, Told(NewGuard(auto[g]), health[g]))
    BY <2>1, NewGuardFits
  <2> QED BY <1>1, <2>1, <2>2, EvaluateFits
<1>5. guard \in [Guards -> GuardRecord]
  <2>1. \A g \in Guards : guard[g] \in GuardRecord
    BY <1>4 DEF Fit
  <2> QED BY <1>1, <2>1
<1> QED
  BY <1>4, <1>5 DEF Init, Consistent, TypeOK, TimerMatchesState,
     StateFitsWork, Fit

(* The record each step of a running cycle leaves fits, whatever the code  *)
(* it stands for returned.                                                 *)
LEMMA CycleStepFits ==
  ASSUME Consistent, NEW g \in Guards, Cycle(g), ~CycleBegins(g)
  PROVE  \E r : Fit(g, r) /\ CycleStep(g, r)
<1>1. CASE CanRecover(g)
  <2>1. Fit(g, guard[g]) /\ guard[g].task = "can_recover"
    BY <1>1, ConsistentFits DEF CanRecover
  <2>2. Fit(g, [guard[g] EXCEPT !.task = "recover"])
    BY <2>1 DEF Fit, GuardRecord, TimerFits, WorkFits, Abandoned, Busy,
       Following, Points,
       CyclePoints
  <2>3. Fit(g, EndTask(Escalate(guard[g])))
    BY <2>1, VerdictFits DEF Busy
  <2> QED BY <1>1, <2>2, <2>3 DEF CanRecover
<1>2. CASE DriverReturns(g)
  <2>1. Fit(g, guard[g]) /\ guard[g].task = "recover" /\ health[g] \in Health
    BY <1>2, ConsistentFits DEF DriverReturns, Consistent, TypeOK
  <2>2. ASSUME NEW ok \in BOOLEAN
        PROVE  /\ Fit(g, [guard[g] EXCEPT !.ok = ok])
               /\ Busy([guard[g] EXCEPT !.ok = ok])
               /\ Fit(g, [[guard[g] EXCEPT !.ok = ok] EXCEPT !.task = "reload"])
    BY <2>1 DEF Fit, GuardRecord, TimerFits, WorkFits, Abandoned, Busy,
       Following, Points,
       CyclePoints
  <2>3. ASSUME NEW ok \in BOOLEAN
        PROVE  Fit(g, AfterRepair(g, [guard[g] EXCEPT !.ok = ok], health[g]))
    BY <2>1, <2>2, AfterRepairFits
  <2> QED BY <1>2, <2>2, <2>3 DEF DriverReturns
<1>3. CASE DriverRaises(g)
  <2>1. Fit(g, AttemptFailed(g, guard[g]))
    BY <1>3, ConsistentFits, AttemptFailedFits DEF DriverRaises, Busy
  <2> QED BY <1>3, <2>1 DEF DriverRaises
<1>4. CASE ReloadDone(g)
  <2>1. Fit(g, AfterRepair(g, guard[g], health[g]))
    BY <1>4, ConsistentFits, AfterRepairFits
       DEF ReloadDone, Busy, Consistent, TypeOK
  <2> QED BY <1>4, <2>1 DEF ReloadDone
<1>5. CASE VerifyWakes(g)
  <2>1. Fit(g, EndTask(RecoverSuccess(guard[g])))
    BY <1>5, ConsistentFits, VerdictFits DEF VerifyWakes, Busy
  <2> QED BY <1>5, <2>1 DEF VerifyWakes
<1>6. CASE VerifyTimesOut(g)
  <2>1. /\ Fit(g, EndTask(RecoverSuccess(guard[g])))
        /\ Fit(g, AttemptFailed(g, guard[g]))
    BY <1>6, ConsistentFits, VerdictFits, AttemptFailedFits
       DEF VerifyTimesOut, Busy
  <2> QED BY <1>6, <2>1 DEF VerifyTimesOut
<1>7. CASE DriverCancelled(g)
  <2>1. /\ Fit(g, guard[g]) /\ g \in Cancellable
        /\ guard[g].task = "recover"
    BY <1>7, ConsistentFits DEF DriverCancelled
  <2>2. Fit(g, EndTask(guard[g]))
    BY <2>1 DEF Fit, EndTask, GuardRecord, TimerFits, WorkFits, Abandoned,
       Busy, Following, Points
  <2> QED BY <1>7, <2>2 DEF DriverCancelled
<1> QED BY <1>1, <1>2, <1>3, <1>4, <1>5, <1>6, <1>7 DEF Cycle

LEMMA NextConsistent ==
  ASSUME Consistent, [Next]_vars
  PROVE  Consistent'
<1>1. ASSUME NEW g \in Guards, HealthEvent(g) PROVE Consistent'
  <2>1. PICK h \in Health : /\ health' = [health EXCEPT ![g] = h]
                            /\ Update(g, Evaluate(Told(guard[g], h), h))
    BY <1>1 DEF HealthEvent
  <2>2. Fit(g, Evaluate(Told(guard[g], h), h))
    BY ConsistentFits, ToldFits, EvaluateFits
  <2>3. health' \in [Guards -> Health] /\ byHand' \subseteq Guards
    BY <1>1, <2>1 DEF HealthEvent, Consistent, TypeOK
  <2> QED BY <2>1, <2>2, <2>3, UpdateConsistent
<1>2. ASSUME NEW g \in Guards, TemplateDrift(g) PROVE Consistent'
  <2>1. health' \in [Guards -> Health] /\ guard' = guard /\ byHand' = byHand
    BY <1>2 DEF TemplateDrift, Consistent, TypeOK
  <2> QED
    BY <2>1 DEF Consistent, TypeOK, TimerMatchesState, StateFitsWork
<1>3. ASSUME NEW g \in Guards, TemplateEvent(g) PROVE Consistent'
  <2>1. health[g] \in Health
    BY DEF Consistent, TypeOK
  <2>2. Fit(g, Evaluate(Told(guard[g], health[g]), health[g]))
    BY <2>1, ConsistentFits, ToldFits, EvaluateFits
  <2> QED BY <1>3, <2>2, OnlyUpdateConsistent DEF TemplateEvent
<1>4. ASSUME NEW g \in Guards, DebounceDone(g) PROVE Consistent'
  <2> DEFINE r == CancelTimer(guard[g])
  <2>1. Fit(g, guard[g]) /\ guard[g].timer = "debounce" /\ health[g] \in Health
    BY <1>4, ConsistentFits DEF DebounceDone, Consistent, TypeOK
  <2>2. /\ guard[g].state = "SUSPECT" /\ r.state = "SUSPECT"
        /\ ~Busy(guard[g]) /\ ~Following(guard[g]) /\ ~guard[g].snoozed
    BY <2>1 DEF CancelTimer, Fit, GuardRecord, TimerFits, WorkFits, Abandoned
  <2>3. CASE health[g] # "UNHEALTHY"
    <3>1. OnlyUpdate(g, [r EXCEPT !.state = "OK"])
      BY <1>4, <2>2, <2>3 DEF DebounceDone
    <3>2. Fit(g, [r EXCEPT !.state = "OK"])
      BY <2>1, <2>2 DEF CancelTimer, Fit, GuardRecord, TimerFits, WorkFits,
         Abandoned,
         Busy, Following, GState, Timers
    <3> QED BY <3>1, <3>2, OnlyUpdateConsistent
  <2>4. CASE health[g] = "UNHEALTHY" /\ ~ShouldAttempt(g, r)
    <3>1. OnlyUpdate(g, Escalate(r))
      BY <1>4, <2>2, <2>4 DEF DebounceDone
    <3>2. Fit(g, Escalate(r))
      BY <2>1, <2>2, GiveUpFits DEF Escalate, CancelTimer
    <3> QED BY <3>1, <3>2, OnlyUpdateConsistent
  <2>5. CASE health[g] = "UNHEALTHY" /\ ShouldAttempt(g, r)
             /\ RepairingPartners(g) # {}
    <3>1. PICK leader \in RepairingPartners(g) :
            OnlyUpdate(g, Joined(g, r, leader))
      BY <1>4, <2>2, <2>5 DEF DebounceDone
    <3>2. leader \in Partners[g] /\ leader \in Guards
      BY GuardGroupAssumption DEF RepairingPartners
    <3>3. FreeToAnswer(g, r) /\ r.auto
      BY <2>2, <2>5 DEF FreeToAnswer, ShouldAttempt, CancelTimer, Busy,
         Following
    <3>4. PICK away \in BOOLEAN :
            Joined(g, r, leader) =
              [guard[g] EXCEPT !.timer = "none", !.leader = leader,
                               !.state = "RECOVERING", !.astray = away]
      <4> DEFINE q == OnPartnerRepairStart(g, r, leader, health[g])
                 away == Following(q) /\ RepairsNothing(guard[leader])
      <4>1. q = [guard[g] EXCEPT !.timer = "none", !.leader = leader,
                                 !.state = "RECOVERING"]
        BY <3>3 DEF OnPartnerRepairStart, CancelTimer
      <4>2. away \in BOOLEAN
        OBVIOUS
      <4>3. Joined(g, r, leader) = [q EXCEPT !.astray = away]
        BY DEF Joined
      <4> HIDE DEF away
      <4> QED BY <2>1, <4>1, <4>2, <4>3 DEF Fit, GuardRecord
    <3>5. Fit(g, Joined(g, r, leader))
      BY <2>1, <2>2, <3>2, <3>4, FollowFits
    <3> QED BY <3>1, <3>5, OnlyUpdateConsistent
  <2>6. CASE health[g] = "UNHEALTHY" /\ ShouldAttempt(g, r)
             /\ RepairingPartners(g) = {}
    <3>1. OnlyUpdate(g, StartCycle(r))
      BY <1>4, <2>2, <2>6 DEF DebounceDone
    <3>2. StartCycle(r) = [guard[g] EXCEPT !.timer = "none",
                             !.state = "RECOVERING", !.task = "claimed"]
      BY <2>2 DEF StartCycle, CancelTimer, Busy
    <3>3. Fit(g, StartCycle(r))
      BY <2>1, <2>2, <3>2 DEF Fit, GuardRecord, TimerFits, WorkFits,
         Abandoned, Busy,
         Following, GState, Timers, Points, CyclePoints
    <3> QED BY <3>1, <3>3, OnlyUpdateConsistent
  <2> QED BY <2>3, <2>4, <2>5, <2>6
<1>5. ASSUME NEW g \in Guards, CooldownDone(g) PROVE Consistent'
  <2> DEFINE r == CancelTimer(guard[g])
  <2>1. Fit(g, guard[g]) /\ guard[g].timer = "cooldown"
    BY <1>5, ConsistentFits DEF CooldownDone
  <2>2. guard[g].state = "COOLDOWN" /\ r.state = "COOLDOWN"
    BY <2>1 DEF CancelTimer, Fit, GuardRecord, TimerFits
  <2>3. Fit(g, EnterSuspect(r)) /\ Fit(g, [r EXCEPT !.state = "OK"])
    BY <2>1, <2>2 DEF EnterSuspect, CancelTimer, Fit, GuardRecord, TimerFits,
       WorkFits, Abandoned, Busy, Following, GState, Timers
  <2> QED BY <1>5, <2>2, <2>3, OnlyUpdateConsistent DEF CooldownDone
<1>6. ASSUME NEW g \in Guards, SnoozeDone(g) PROVE Consistent'
  <2>1. Fit(g, guard[g]) /\ guard[g].timer = "snooze" /\ health[g] \in Health
    BY <1>6, ConsistentFits DEF SnoozeDone, Consistent, TypeOK
  <2>2. guard[g].snoozed
    BY <2>1 DEF Fit, TimerFits
  <2>3. Fit(g, Resume(guard[g], health[g]))
    BY <2>1, <2>2, ResumeFits
  <2> QED BY <1>6, <2>2, <2>3, OnlyUpdateConsistent DEF SnoozeDone
<1>7. ASSUME NEW g \in Guards, SetAuto(g) PROVE Consistent'
  <2>1. Fit(g, [guard[g] EXCEPT !.auto = ~@])
    BY ConsistentFits DEF Fit, GuardRecord, TimerFits, WorkFits, Abandoned,
       Busy, Following
  <2> QED BY <1>7, <2>1, OnlyUpdateConsistent DEF SetAuto
<1>8. ASSUME NEW g \in Guards, ResetGuard(g) PROVE Consistent'
  <2>1. Fit(g, Reset(guard[g], health[g]))
    BY <1>8, ConsistentFits, ResetFits DEF ResetGuard, Consistent, TypeOK
  <2> QED BY <1>8, <2>1, OnlyUpdateConsistent DEF ResetGuard
<1>9. ASSUME NEW g \in Guards, SnoozeGuard(g) PROVE Consistent'
  <2>1. Fit(g, Snooze(guard[g]))
    BY <1>9, ConsistentFits, SnoozeFits DEF SnoozeGuard
  <2> QED BY <1>9, <2>1, OnlyUpdateConsistent DEF SnoozeGuard
<1>10. ASSUME NEW g \in Guards, UnsnoozeGuard(g) PROVE Consistent'
  <2>1. Fit(g, Resume(guard[g], health[g]))
    BY <1>10, ConsistentFits, ResumeFits DEF UnsnoozeGuard, Consistent, TypeOK
  <2> QED BY <1>10, <2>1, OnlyUpdateConsistent DEF UnsnoozeGuard
<1>11. ASSUME NEW g \in Guards, ManualRecover(g) PROVE Consistent'
  <2> DEFINE q == StartCycle(ClearSnooze([guard[g] EXCEPT !.attempt = 0]))
  <2>1. Fit(g, q)
    BY <1>11, ConsistentFits, PressFits DEF ManualRecover
  <2>2. Update(g, q) /\ health' = health /\ byHand' = byHand \cup {g}
    BY <1>11 DEF ManualRecover
  <2>3. health' \in [Guards -> Health] /\ byHand' \subseteq Guards
    BY <2>2 DEF Consistent, TypeOK
  <2> HIDE DEF q
  <2> QED BY <2>1, <2>2, <2>3, UpdateConsistent
<1>12. ASSUME NEW g \in Guards, CycleBegins(g) PROVE Consistent'
  <2> DEFINE f == [x \in Guards |->
                     CASE x = g -> NextAttempt(guard[g])
                       [] x \in Engines(g) ->
                            OnPartnerRepairStart(x, guard[x], g, health[x])
                       [] OTHER -> guard[x]]
  <2>1. guard' = [x \in Guards |-> f[x]]
    BY <1>12 DEF CycleBegins
  <2>2. Fit(g, NextAttempt(guard[g]))
    BY <1>12, ConsistentFits, NextAttemptFits DEF CycleBegins, Busy
  <2>3. ASSUME NEW x \in Guards PROVE Fit(x, f[x])
    <3>1. Fit(x, guard[x]) /\ health[x] \in Health
      BY ConsistentFits DEF Consistent, TypeOK
    <3>2. CASE x = g
      <4>1. x \notin Engines(g)
        BY <3>2, GuardGroupAssumption DEF Engines
      <4>2. f[x] = NextAttempt(guard[g])
        BY <3>2, <4>1
      <4> QED BY <2>2, <3>2, <4>2
    <3>3. CASE x # g /\ x \in Engines(g)
      <4>1. g \in Partners[x]
        BY <3>3, GuardGroupAssumption DEF Engines
      <4>2. Fit(x, OnPartnerRepairStart(x, guard[x], g, health[x]))
        BY <3>1, <4>1, OnPartnerRepairStartFits
      <4> QED BY <3>3, <4>2
    <3>4. CASE x # g /\ x \notin Engines(g)
      BY <3>1, <3>4
    <3> QED BY <3>2, <3>3, <3>4
  <2>4. health' \in [Guards -> Health] /\ byHand' \subseteq Guards
    BY <1>12 DEF CycleBegins, Consistent, TypeOK
  <2> HIDE DEF f
  <2> QED BY <2>1, <2>3, <2>4, FitsConsistent
<1>13. ASSUME NEW g \in Guards, Cycle(g), ~CycleBegins(g) PROVE Consistent'
  BY <1>13, CycleStepFits, CycleStepConsistent
<1>14. ASSUME NEW g \in Guards, ValidationBegins(g) PROVE Consistent'
  <2>1. Fit(g, StartValidation(guard[g], health[g]))
    BY <1>14, ConsistentFits, StartValidationFits
       DEF ValidationBegins, Busy, Consistent, TypeOK
  <2> QED BY <1>14, <2>1, OnlyUpdateConsistent DEF ValidationBegins
<1>15. ASSUME NEW g \in Guards, ValidationWakes(g) PROVE Consistent'
  <2>1. Fit(g, EndTask(RecoverSuccess(guard[g])))
    BY <1>15, ConsistentFits, VerdictFits DEF ValidationWakes, Busy
  <2> QED BY <1>15, <2>1, OnlyUpdateConsistent DEF ValidationWakes
<1>16. ASSUME NEW g \in Guards, ValidationTimesOut(g) PROVE Consistent'
  <2>1. /\ Fit(g, EndTask(RecoverSuccess(guard[g])))
        /\ Fit(g, ValidationFailed(guard[g], health[g]))
    BY <1>16, ConsistentFits, VerdictFits, ValidationFailedFits
       DEF ValidationTimesOut, Busy, Consistent, TypeOK
  <2> QED BY <1>16, <2>1, OnlyUpdateConsistent DEF ValidationTimesOut
<1>17. CASE UNCHANGED vars
  BY <1>17 DEF vars, Consistent, TypeOK, TimerMatchesState, StateFitsWork
<1> QED
  BY <1>1, <1>2, <1>3, <1>4, <1>5, <1>6, <1>7, <1>8, <1>9, <1>10, <1>11,
     <1>12, <1>13, <1>14, <1>15, <1>16, <1>17
     DEF Next, Environment, Timer, Operator, Cycle, Validation

(* Type correctness, the agreement of every guard's state with its timer,  *)
(* and its agreement with the task or partner that will move it on.        *)
THEOREM ConsistentAlways == Spec => []Consistent
<1>1. Init => Consistent
  BY InitConsistent
<1>2. Consistent /\ [Next]_vars => Consistent'
  BY NextConsistent
<1> QED BY <1>1, <1>2, PTL DEF Spec

(* Every variable has its type. *)
THEOREM TypeCorrect == Spec => []TypeOK
<1>1. Consistent => TypeOK
  BY DEF Consistent
<1> QED BY <1>1, ConsistentAlways, PTL

(* No guard waits for a timer that is not armed, and none is armed in vain. *)
THEOREM TimersMatch == Spec => []TimerMatchesState
<1>1. Consistent => TimerMatchesState
  BY DEF Consistent
<1> QED BY <1>1, ConsistentAlways, PTL

-----------------------------------------------------------------------------
(* At most one automatic leader in a group *)

InCycle(g) == guard[g].task \in CyclePoints

(* A step that starts no cycle and forgets no press. *)
NoNewCycle ==
  \A x \in Guards : InCycle(x)' => InCycle(x) /\ (x \in byHand => x \in byHand')

LEMMA NoNewCycleKeepsLeader ==
  ASSUME OneAutomaticLeader, NoNewCycle
  PROVE  OneAutomaticLeader'
BY GuardGroupAssumption DEF OneAutomaticLeader, NoNewCycle, InCycle

(* A handler's task is the one it was called with. *)
LEMMA EvaluateKeepsTask ==
  ASSUME NEW g \in Guards, NEW r, NEW h \in Health, Fit(g, r)
  PROVE  Evaluate(r, h).task = r.task
BY DEF Evaluate, WakeVerify, SteadyEdge, CancelTimer, EnterSuspect, Fit,
   GuardRecord, Health

LEMMA ToldKeepsTask ==
  ASSUME NEW g \in Guards, NEW r, NEW h \in Health, Fit(g, r)
  PROVE  Evaluate(Told(r, h), h).task = r.task
<1>1. Fit(g, Told(r, h)) /\ Told(r, h).task = r.task
  BY ToldFits
<1> QED BY <1>1, EvaluateKeepsTask

LEMMA ResetResumeKeepTask ==
  ASSUME NEW g \in Guards, NEW r, NEW h \in Health, Fit(g, r)
  PROVE  /\ r.state = "ESCALATED" => Reset(r, h).task = r.task
         /\ r.snoozed => Resume(r, h).task = r.task
<1>1. ASSUME r.state = "ESCALATED" PROVE Reset(r, h).task = r.task
  <2> DEFINE q == [r EXCEPT !.attempt = 0, !.state = "OK"]
  <2>1. 0 \in 0 .. AttemptCap
    BY DeviceEngineAssumption
  <2>2. Fit(g, q) /\ q.task = r.task
    BY <1>1, <2>1 DEF Fit, GuardRecord, TimerFits, WorkFits, Abandoned, Busy,
       Following, GState
  <2> QED BY <2>2, EvaluateKeepsTask DEF Reset
<1>2. ASSUME r.snoozed PROVE Resume(r, h).task = r.task
  <2> DEFINE q == [ClearSnooze(r) EXCEPT !.state = "OK"]
  <2>1. q = [r EXCEPT !.timer = "none", !.snoozed = FALSE, !.state = "OK"]
    BY DEF ClearSnooze, CancelTimer
  <2>2. Fit(g, q) /\ q.task = r.task
    BY <1>2, <2>1 DEF Fit, GuardRecord, TimerFits, WorkFits, Abandoned, Busy,
       Following, GState, Timers
  <2> QED BY <2>2, EvaluateKeepsTask DEF Resume
<1> QED BY <1>1, <1>2

LEMMA QuietUpdate ==
  ASSUME Consistent, NEW g \in Guards, NEW r, OnlyUpdate(g, r),
         r.task \in CyclePoints => InCycle(g)
  PROVE  NoNewCycle
<1>1. guard' = [guard EXCEPT ![g] = r] /\ byHand' = byHand
  BY DEF OnlyUpdate, Update
<1>2. \A x \in Guards : guard'[x] = IF x = g THEN r ELSE guard[x]
  BY <1>1 DEF Consistent, TypeOK
<1> QED BY <1>1, <1>2 DEF NoNewCycle, InCycle

LEMMA CycleStepQuiet ==
  ASSUME Consistent, NEW g \in Guards, NEW r, CycleStep(g, r), InCycle(g)
  PROVE  NoNewCycle
<1>1. byHand' = IF Busy(r) THEN byHand ELSE byHand \ {g}
  BY DEF CycleStep
<1>2. guard'[g] = r
  BY DEF CycleStep
<1>3. ASSUME NEW x \in Guards, x # g, InCycle(x)' PROVE InCycle(x)
  <2>1. \/ guard'[x] = guard[x]
        \/ guard'[x] = OnPartnerRepairDone(guard[x], g, r.state = "COOLDOWN")
    BY <1>3 DEF CycleStep
  <2>2. CASE guard'[x] = guard[x]
    BY <1>3, <2>2 DEF InCycle
  <2>3. CASE guard'[x] = OnPartnerRepairDone(guard[x], g, r.state = "COOLDOWN")
    <3>1. Fit(x, guard[x])
      BY ConsistentFits
    <3>2. guard'[x].task \in {guard[x].task, "validate"}
      BY <2>3, <3>1 DEF OnPartnerRepairDone, Fit, GuardRecord
    <3> QED BY <1>3, <3>2 DEF InCycle, CyclePoints
  <2> QED BY <2>1, <2>2, <2>3
<1>4. ASSUME InCycle(g)' PROVE byHand' = byHand
  BY <1>1, <1>2, <1>4 DEF InCycle, Busy, CyclePoints
<1> QED BY <1>1, <1>3, <1>4 DEF NoNewCycle

(* Every step but the two that start a cycle. *)
LEMMA OtherStepsQuiet ==
  ASSUME Consistent, NEW g \in Guards,
         \/ Environment(g) \/ CooldownDone(g) \/ SnoozeDone(g) \/ SetAuto(g)
         \/ ResetGuard(g) \/ SnoozeGuard(g) \/ UnsnoozeGuard(g)
         \/ Cycle(g) \/ Validation(g)
  PROVE  NoNewCycle
<1>0. Fit(g, guard[g]) /\ health[g] \in Health
  BY ConsistentFits DEF Consistent, TypeOK
<1>1. CASE HealthEvent(g)
  <2>1. PICK h \in Health : Update(g, Evaluate(Told(guard[g], h), h))
    BY <1>1 DEF HealthEvent
  <2>2. Evaluate(Told(guard[g], h), h).task = guard[g].task
    BY <1>0, ToldKeepsTask
  <2>3. byHand' = byHand
    BY <1>1 DEF HealthEvent
  <2>4. \A x \in Guards :
          guard'[x] = IF x = g THEN Evaluate(Told(guard[g], h), h)
                      ELSE guard[x]
    BY <2>1 DEF Update, Consistent, TypeOK
  <2> QED BY <2>2, <2>3, <2>4 DEF NoNewCycle, InCycle
<1>2. CASE TemplateDrift(g)
  BY <1>2 DEF TemplateDrift, NoNewCycle, InCycle
<1>3. CASE TemplateEvent(g)
  BY <1>0, <1>3, ToldKeepsTask, QuietUpdate DEF TemplateEvent, InCycle
<1>4. CASE CooldownDone(g)
  <2> DEFINE r == CancelTimer(guard[g])
  <2>1. /\ r.task = guard[g].task
        /\ EnterSuspect(r).task = guard[g].task
        /\ [r EXCEPT !.state = "OK"].task = guard[g].task
    BY <1>0 DEF CancelTimer, EnterSuspect, Fit, GuardRecord
  <2> QED BY <1>4, <2>1, QuietUpdate DEF CooldownDone, InCycle
<1>5. CASE SnoozeDone(g)
  <2>1. guard[g].snoozed
    BY <1>0, <1>5 DEF SnoozeDone, Fit, TimerFits
  <2> QED
    BY <1>0, <1>5, <2>1, ResetResumeKeepTask, QuietUpdate DEF SnoozeDone, InCycle
<1>6. CASE SetAuto(g)
  <2>1. [guard[g] EXCEPT !.auto = ~@].task = guard[g].task
    BY <1>0 DEF Fit, GuardRecord
  <2> QED BY <1>6, <2>1, QuietUpdate DEF SetAuto, InCycle
<1>7. CASE ResetGuard(g)
  BY <1>0, <1>7, ResetResumeKeepTask, QuietUpdate DEF ResetGuard, InCycle
<1>8. CASE SnoozeGuard(g)
  <2>1. Snooze(guard[g]).task = guard[g].task
    BY <1>0 DEF Snooze, Fit, GuardRecord
  <2> QED BY <1>8, <2>1, QuietUpdate DEF SnoozeGuard, InCycle
<1>9. CASE UnsnoozeGuard(g)
  BY <1>0, <1>9, ResetResumeKeepTask, QuietUpdate DEF UnsnoozeGuard, InCycle
<1>10. CASE CycleBegins(g)
  <2>1. InCycle(g) /\ byHand' = byHand
    BY <1>10 DEF CycleBegins, InCycle, CyclePoints
  <2>2. ASSUME NEW x \in Guards, x # g PROVE guard'[x].task = guard[x].task
    <3>1. Fit(x, guard[x])
      BY ConsistentFits
    <3>2. CASE x \in Engines(g)
      <4>1. guard'[x] = OnPartnerRepairStart(x, guard[x], g, health[x])
        BY <1>10, <2>2, <3>2 DEF CycleBegins
      <4> QED
        BY <3>1, <4>1 DEF OnPartnerRepairStart, CancelTimer, Escalate, Fit,
           GuardRecord
    <3>3. CASE x \notin Engines(g)
      BY <1>10, <2>2, <3>3 DEF CycleBegins
    <3> QED BY <3>2, <3>3
  <2> QED BY <2>1, <2>2 DEF NoNewCycle, InCycle
<1>11. CASE CanRecover(g)
  BY <1>11, CycleStepQuiet DEF CanRecover, InCycle, CyclePoints
<1>12. CASE DriverReturns(g)
  BY <1>12, CycleStepQuiet DEF DriverReturns, InCycle, CyclePoints
<1>13. CASE DriverRaises(g) \/ DriverCancelled(g) \/ ReloadDone(g)
            \/ VerifyWakes(g) \/ VerifyTimesOut(g)
  BY <1>13, CycleStepQuiet DEF DriverRaises, DriverCancelled, ReloadDone,
     VerifyWakes, VerifyTimesOut, InCycle, CyclePoints
<1>14. CASE ValidationBegins(g)
  <2>1. StartValidation(guard[g], health[g]).task \in {"none", "validate_wait"}
    BY <1>0 DEF StartValidation, EndTask, RecoverSuccess, Fit, GuardRecord
  <2> QED
    BY <1>14, <2>1, QuietUpdate DEF ValidationBegins, CyclePoints
<1>15. CASE ValidationWakes(g)
  <2>1. EndTask(RecoverSuccess(guard[g])).task = "none"
    BY <1>0 DEF EndTask, RecoverSuccess, Fit, GuardRecord
  <2> QED BY <1>15, <2>1, QuietUpdate DEF ValidationWakes, CyclePoints
<1>16. CASE ValidationTimesOut(g)
  <2>1. Busy(guard[g])
    BY <1>16 DEF ValidationTimesOut, Busy
  <2>2. EndTask(RecoverSuccess(guard[g])).task = "none"
    BY <1>0 DEF EndTask, RecoverSuccess, Fit, GuardRecord
  <2>3. Fit(g, ValidationFailed(guard[g], health[g]))
    BY <1>0, <2>1, ValidationFailedFits
  <2>4. ValidationFailed(guard[g], health[g]).task = "none"
    <3> DEFINE q == IF guard[g].ok
                      THEN Evaluate([guard[g] EXCEPT !.state = "OK",
                                                     !.event = "none"], health[g])
                      ELSE Escalate(guard[g])
    <3>1. ValidationFailed(guard[g], health[g]) = EndTask(q)
      BY DEF ValidationFailed
    <3>2. EndTask(q).task = "none"
      BY <1>0 DEF EndTask, Evaluate, WakeVerify, SteadyEdge, CancelTimer,
         EnterSuspect, Escalate, Fit, GuardRecord, Health
    <3> QED BY <3>1, <3>2
  <2> QED BY <1>16, <2>2, <2>4, QuietUpdate DEF ValidationTimesOut, CyclePoints
<1> QED
  BY <1>1, <1>2, <1>3, <1>4, <1>5, <1>6, <1>7, <1>8, <1>9, <1>10, <1>11,
     <1>12, <1>13, <1>14, <1>15, <1>16 DEF Environment, Cycle, Validation

(* The debounce starts a cycle only when no partner repairs, so while no   *)
(* linked guard is in a cycle of its own.                                  *)
LEMMA NoPartnerInCycle ==
  ASSUME Consistent, NEW g \in Guards, RepairingPartners(g) = {},
         NEW p \in Partners[g]
  PROVE  ~InCycle(p)
<1>1. p \in Guards
  BY GuardGroupAssumption
<1>2. Fit(p, guard[p])
  BY <1>1, ConsistentFits
<1>3. InCycle(p) => /\ guard[p].state \in {"RECOVERING", "VERIFY"}
                    /\ ~Following(guard[p])
  BY <1>2 DEF InCycle, CyclePoints, Fit, WorkFits, Abandoned, Busy
<1> QED BY <1>3 DEF RepairingPartners

LEMMA DebounceKeepsLeader ==
  ASSUME Consistent, OneAutomaticLeader, NEW g \in Guards, DebounceDone(g)
  PROVE  OneAutomaticLeader'
<1> DEFINE r == CancelTimer(guard[g])
<1>1. Fit(g, guard[g]) /\ guard[g].timer = "debounce"
  BY ConsistentFits DEF DebounceDone
<1>2. guard[g].state = "SUSPECT" /\ ~Busy(guard[g])
  BY <1>1 DEF Fit, TimerFits, WorkFits, Abandoned
<1>3. /\ r.state = "SUSPECT" /\ r.task = "none"
      /\ [r EXCEPT !.state = "OK"].task = "none"
      /\ Escalate(r).task = "none"
  BY <1>1, <1>2 DEF CancelTimer, Escalate, Busy, Fit, GuardRecord
<1>4. CASE OnlyUpdate(g, [r EXCEPT !.state = "OK"]) \/ OnlyUpdate(g, Escalate(r))
  BY <1>3, <1>4, QuietUpdate, NoNewCycleKeepsLeader DEF CyclePoints
<1>5. ASSUME NEW leader \in Guards, OnlyUpdate(g, Joined(g, r, leader))
      PROVE  OneAutomaticLeader'
  <2>1. OnPartnerRepairStart(g, r, leader, health[g]).task = "none"
        /\ Joined(g, r, leader).task = "none"
    BY <1>1, <1>3 DEF Joined, OnPartnerRepairStart, CancelTimer, Escalate, Fit,
       GuardRecord
  <2> QED BY <1>5, <2>1, QuietUpdate, NoNewCycleKeepsLeader DEF CyclePoints
<1>6. CASE RepairingPartners(g) = {} /\ OnlyUpdate(g, StartCycle(r))
  <2>1. \A x \in Guards : x # g => guard'[x] = guard[x]
    BY <1>6 DEF OnlyUpdate, Update, Consistent, TypeOK
  <2>2. byHand' = byHand
    BY <1>6 DEF OnlyUpdate
  <2>3. \A p \in Partners[g] : ~InCycle(p) /\ p # g /\ p \in Guards
    BY <1>6, NoPartnerInCycle, GuardGroupAssumption
  <2>4. \A x \in Guards : x # g => (InCycle(x)' <=> InCycle(x))
    BY <2>1 DEF InCycle
  <2>5. ASSUME NEW x \in Guards, NEW p \in Partners[x],
               InCycle(x)', InCycle(p)'
        PROVE  x \in byHand' \/ p \in byHand'
    <3>1. p \in Guards /\ x \in Partners[p]
      BY <2>5, GuardGroupAssumption
    <3>2. CASE x = g \/ p = g
      BY <2>3, <2>4, <2>5, <3>1, <3>2
    <3>3. CASE x # g /\ p # g
      BY <2>2, <2>4, <2>5, <3>1, <3>3 DEF OneAutomaticLeader, InCycle
    <3> QED BY <3>2, <3>3
  <2> QED BY <2>5 DEF OneAutomaticLeader, InCycle
<1>7. RepairingPartners(g) \subseteq Guards
  BY GuardGroupAssumption DEF RepairingPartners
<1> QED
  BY <1>3, <1>4, <1>5, <1>6, <1>7 DEF DebounceDone

LEMMA PressKeepsLeader ==
  ASSUME Consistent, OneAutomaticLeader, NEW g \in Guards, ManualRecover(g)
  PROVE  OneAutomaticLeader'
<1>1. byHand' = byHand \cup {g}
  BY DEF ManualRecover
<1>2. \A x \in Guards : x # g => guard'[x] = guard[x]
  BY DEF ManualRecover, Update, Consistent, TypeOK
<1> QED BY <1>1, <1>2, GuardGroupAssumption DEF OneAutomaticLeader

(* Two linked guards are in recovery cycles of their own at the same time  *)
(* only when the operator's recover button started one of them: neither a  *)
(* debounce nor a snooze end, a finished validation or an ended cycle of a *)
(* third guard puts a second automatic leader into a group.                *)
THEOREM OneLeader == Spec => []OneAutomaticLeader
<1>1. Init => OneAutomaticLeader
  <2> SUFFICES ASSUME Init, NEW g \in Guards PROVE guard[g].task = "none"
    BY GuardGroupAssumption DEF OneAutomaticLeader, CyclePoints
  <2>1. PICK auto \in [Guards -> BOOLEAN] :
          guard = [x \in Guards |-> Evaluate(Told(NewGuard(auto[x]), health[x]),
                                             health[x])]
    BY DEF Init
  <2>2. health[g] \in Health /\ auto[g] \in BOOLEAN
    BY DEF Init
  <2>3. /\ Fit(g, Told(NewGuard(auto[g]), health[g]))
        /\ Told(NewGuard(auto[g]), health[g]).task = "none"
    BY <2>2, NewGuardFits
  <2> QED BY <2>1, <2>2, <2>3, EvaluateKeepsTask
<1>2. Consistent /\ OneAutomaticLeader /\ [Next]_vars => OneAutomaticLeader'
  <2> SUFFICES ASSUME Consistent, OneAutomaticLeader, [Next]_vars
               PROVE  OneAutomaticLeader'
    OBVIOUS
  <2>1. ASSUME NEW g \in Guards,
               \/ Environment(g) \/ CooldownDone(g) \/ SnoozeDone(g)
               \/ SetAuto(g) \/ ResetGuard(g) \/ SnoozeGuard(g)
               \/ UnsnoozeGuard(g) \/ Cycle(g) \/ Validation(g)
        PROVE  OneAutomaticLeader'
    BY <2>1, OtherStepsQuiet, NoNewCycleKeepsLeader
  <2>2. CASE UNCHANGED vars
    BY <2>2 DEF vars, OneAutomaticLeader
  <2> QED
    BY <2>1, <2>2, DebounceKeepsLeader, PressKeepsLeader
       DEF Next, Timer, Operator
<1> QED BY <1>1, <1>2, ConsistentAlways, PTL DEF Spec

-----------------------------------------------------------------------------
(* The end of a cycle *)

(* A step in which no recovery cycle ends. *)
EndsNoCycle == \A x \in Guards : InCycle(x) => InCycle(x)'

LEMMA UpdateEndsNoCycle ==
  ASSUME Consistent, NEW g \in Guards, NEW r, Update(g, r),
         InCycle(g) => r.task \in CyclePoints
  PROVE  EndsNoCycle
<1>1. \A x \in Guards : guard'[x] = IF x = g THEN r ELSE guard[x]
  BY DEF Update, Consistent, TypeOK
<1> QED BY <1>1 DEF EndsNoCycle, InCycle

(* A guard in a cycle of its own is in a repairing state and follows nobody. *)
LEMMA InCycleState ==
  ASSUME Consistent, NEW g \in Guards, InCycle(g)
  PROVE  /\ guard[g].state \in {"RECOVERING", "VERIFY"}
         /\ guard[g].timer = "none" /\ ~guard[g].snoozed
         /\ Busy(guard[g]) /\ guard[g].leader = NoGuard
<1>1. Fit(g, guard[g])
  BY ConsistentFits
<1>2. Busy(guard[g])
  BY DEF InCycle, Busy, CyclePoints
<1>3. guard[g].state \in {"RECOVERING", "VERIFY"} /\ ~Following(guard[g])
  BY <1>1, <1>2 DEF Fit, WorkFits, Abandoned
<1> QED
  BY <1>1, <1>2, <1>3 DEF Fit, TimerFits, GuardRecord, Timers, Following

(* The callbacks and services either find no cycle or leave it running. *)
LEMMA OutsideStepsEndNoCycle ==
  ASSUME Consistent, NEW g \in Guards,
         Environment(g) \/ Timer(g) \/ Operator(g) \/ Validation(g)
         \/ CycleBegins(g)
  PROVE  EndsNoCycle
<1>0. Fit(g, guard[g]) /\ health[g] \in Health
  BY ConsistentFits DEF Consistent, TypeOK
<1>1. CASE HealthEvent(g)
  <2>1. PICK h \in Health : Update(g, Evaluate(Told(guard[g], h), h))
    BY <1>1 DEF HealthEvent
  <2>2. Evaluate(Told(guard[g], h), h).task = guard[g].task
    BY <1>0, ToldKeepsTask
  <2> QED
    BY <2>1, <2>2, UpdateEndsNoCycle DEF InCycle
<1>2. CASE TemplateDrift(g)
  BY <1>2 DEF TemplateDrift, EndsNoCycle, InCycle
<1>3. CASE TemplateEvent(g)
  <2>1. Evaluate(Told(guard[g], health[g]), health[g]).task = guard[g].task
    BY <1>0, ToldKeepsTask
  <2> QED
    BY <1>3, <2>1, UpdateEndsNoCycle
       DEF TemplateEvent, OnlyUpdate, InCycle
<1>4. CASE SetAuto(g)
  <2>1. [guard[g] EXCEPT !.auto = ~@].task = guard[g].task
    BY <1>0 DEF Fit, GuardRecord
  <2> QED
    BY <1>4, <2>1, UpdateEndsNoCycle
       DEF SetAuto, OnlyUpdate, InCycle
<1>5. CASE CycleBegins(g)
  <2>1. InCycle(g)'
    <3>1. guard'[g] = NextAttempt(guard[g])
      BY <1>5, GuardGroupAssumption DEF CycleBegins, Engines
    <3>2. NextAttempt(guard[g]).task = "can_recover"
      BY <1>0 DEF NextAttempt, Fit, GuardRecord
    <3> QED BY <3>1, <3>2 DEF InCycle, CyclePoints
  <2>2. ASSUME NEW x \in Guards, x # g, InCycle(x)
        PROVE  guard'[x] = guard[x]
    <3>1. Busy(guard[x])
      BY <2>2, InCycleState
    <3> QED
      BY <1>5, <2>2, <3>1
         DEF CycleBegins, OnPartnerRepairStart, FreeToAnswer
  <2> QED BY <2>1, <2>2 DEF EndsNoCycle, InCycle
<1>6. CASE Timer(g) \/ ResetGuard(g) \/ SnoozeGuard(g) \/ UnsnoozeGuard(g)
           \/ ManualRecover(g) \/ Validation(g)
  <2>1. ~InCycle(g)
    BY <1>6, InCycleState
       DEF Timer, DebounceDone, CooldownDone, SnoozeDone, ResetGuard,
           SnoozeGuard, UnsnoozeGuard, ManualRecover, Validation,
           ValidationBegins, ValidationWakes, ValidationTimesOut, InCycle,
           CyclePoints
  <2>2. \A x \in Guards : x # g => guard'[x] = guard[x]
    BY <1>6
       DEF Timer, DebounceDone, CooldownDone, SnoozeDone, ResetGuard,
           SnoozeGuard, UnsnoozeGuard, ManualRecover, Validation,
           ValidationBegins, ValidationWakes, ValidationTimesOut,
           OnlyUpdate, Update, Consistent, TypeOK
  <2> QED BY <2>1, <2>2 DEF EndsNoCycle, InCycle
<1> QED
  BY <1>1, <1>2, <1>3, <1>4, <1>5, <1>6 DEF Environment, Operator

(* What the finally block of a cycle leaves: no follower of the guard. *)
LEMMA CycleStepReleases ==
  ASSUME Consistent, NEW g \in Guards, NEW r, CycleStep(g, r), ~Busy(r),
         Fit(g, r), NEW x \in Guards
  PROVE  guard'[x].leader # g
<1>1. Fit(x, guard[x])
  BY ConsistentFits
<1>2. g \notin Partners[g] /\ g # NoGuard
  BY GuardGroupAssumption, DeviceEngineAssumption
<1>3. CASE x = g
  <2>1. guard'[x] = r
    BY <1>3 DEF CycleStep
  <2> QED BY <1>2, <1>3, <2>1 DEF Fit, WorkFits, Abandoned, Following
<1>4. CASE x # g /\ x \in Partners[g]
  <2>1. guard'[x] = OnPartnerRepairDone(guard[x], g, r.state = "COOLDOWN")
    BY <1>4 DEF CycleStep
  <2> QED
    BY <1>1, <1>2, <2>1 DEF OnPartnerRepairDone, Fit, GuardRecord
<1>5. CASE x # g /\ x \notin Partners[g]
  <2>1. guard'[x] = guard[x]
    BY <1>5 DEF CycleStep
  <2>2. g \notin Partners[x]
    BY <1>5, GuardGroupAssumption
  <2> QED BY <1>1, <1>2, <2>1, <2>2 DEF Fit, WorkFits, Abandoned, Following
<1> QED BY <1>3, <1>4, <1>5

LEMMA CycleStepKeepsOthers ==
  ASSUME Consistent, NEW g \in Guards, NEW r, CycleStep(g, r),
         NEW x \in Guards, x # g, InCycle(x)
  PROVE  guard'[x] = guard[x]
<1>1. guard[x].leader # g
  BY InCycleState, DeviceEngineAssumption
<1> QED BY <1>1 DEF CycleStep, OnPartnerRepairDone

(* When a recovery cycle ends, whichever way, no guard is left following   *)
(* the one that ran it: the finally block releases every partner.          *)
THEOREM CycleEndReleases == Spec => CycleEndReleasesFollowers
<1> DEFINE Released == \A g \in Guards :
                         guard[g].task \in CyclePoints /\ ~Busy(guard'[g]) =>
                           \A p \in Guards : guard'[p].leader # g
<1>1. ASSUME Consistent, Next PROVE Released
  <2>1. CASE EndsNoCycle
    BY <2>1 DEF EndsNoCycle, InCycle, Busy, CyclePoints
  <2>2. ASSUME NEW g \in Guards, Cycle(g), ~CycleBegins(g) PROVE Released
    <3>1. PICK r : Fit(g, r) /\ CycleStep(g, r)
      BY <1>1, <2>2, CycleStepFits
    <3>2. guard'[g] = r
      BY <3>1 DEF CycleStep
    <3>3. ~Busy(r) => \A p \in Guards : guard'[p].leader # g
      BY <1>1, <3>1, CycleStepReleases
    <3>4. \A x \in Guards : x # g /\ InCycle(x) => Busy(guard'[x])
      BY <1>1, <3>1, CycleStepKeepsOthers, InCycleState
    <3> QED BY <3>2, <3>3, <3>4 DEF InCycle
  <2> QED
    BY <1>1, <2>1, <2>2, OutsideStepsEndNoCycle DEF Next
<1>2. Consistent /\ [Next]_vars => [Released]_vars
  BY <1>1
<1> QED BY <1>2, ConsistentAlways, PTL DEF Spec, CycleEndReleasesFollowers

-----------------------------------------------------------------------------
(* The leaders *)

(* Between r and q the guard comes to follow nobody it did not follow.     *)
KeepsLead(r, q) == q.leader = r.leader /\ q.astray = r.astray

LEMMA EvaluateKeepsLeader ==
  ASSUME NEW g \in Guards, NEW r, NEW h \in Health, Fit(g, r)
  PROVE  KeepsLead(r, Evaluate(r, h))
BY DEF KeepsLead, Evaluate, WakeVerify, SteadyEdge, CancelTimer, EnterSuspect, Fit,
   GuardRecord, Health

LEMMA ResetResumeKeepLeader ==
  ASSUME NEW g \in Guards, NEW r, NEW h \in Health, Fit(g, r)
  PROVE  /\ r.state = "ESCALATED" => KeepsLead(r, Reset(r, h))
         /\ r.snoozed => KeepsLead(r, Resume(r, h))
<1>1. ASSUME r.state = "ESCALATED" PROVE KeepsLead(r, Reset(r, h))
  <2> DEFINE q == [r EXCEPT !.attempt = 0, !.state = "OK"]
  <2>1. 0 \in 0 .. AttemptCap
    BY DeviceEngineAssumption
  <2>2. Fit(g, q) /\ KeepsLead(r, q)
    BY <1>1, <2>1 DEF KeepsLead, Fit, GuardRecord, TimerFits, WorkFits,
       Abandoned, Busy, Following,
       GState
  <2> QED BY <2>2, EvaluateKeepsLeader DEF KeepsLead, Reset
<1>2. ASSUME r.snoozed PROVE KeepsLead(r, Resume(r, h))
  <2> DEFINE q == [ClearSnooze(r) EXCEPT !.state = "OK"]
  <2>1. q = [r EXCEPT !.timer = "none", !.snoozed = FALSE, !.state = "OK"]
    BY DEF ClearSnooze, CancelTimer
  <2>2. Fit(g, q) /\ KeepsLead(r, q)
    BY <1>2, <2>1 DEF KeepsLead, Fit, GuardRecord, TimerFits, WorkFits,
       Abandoned, Busy, Following,
       GState, Timers
  <2> QED BY <2>2, EvaluateKeepsLeader DEF KeepsLead, Resume
<1> QED BY <1>1, <1>2

LEMMA ToldKeepsLeader ==
  ASSUME NEW g \in Guards, NEW r, NEW h \in Health, Fit(g, r)
  PROVE  KeepsLead(r, Evaluate(Told(r, h), h))
<1>1. Fit(g, Told(r, h)) /\ KeepsLead(r, Told(r, h))
  BY ToldFits DEF KeepsLead
<1> QED BY <1>1, EvaluateKeepsLeader DEF KeepsLead

(* A stretch of a guard's own cycle: it follows nobody by it. *)
OwnCycle(r, q) == q.leader = r.leader /\ q.task \in CyclePoints \cup {"none"}

LEMMA AttemptFailedOwn ==
  ASSUME NEW g \in Guards, NEW r, Fit(g, r)
  PROVE  OwnCycle(r, AttemptFailed(g, r))
BY DEF AttemptFailed, EndTask, Escalate, NextAttempt, OwnCycle, CyclePoints, Fit,
   GuardRecord

LEMMA VerdictOwn ==
  ASSUME NEW g \in Guards, NEW r, Fit(g, r)
  PROVE  /\ OwnCycle(r, EndTask(Escalate(r)))
         /\ OwnCycle(r, EndTask(RecoverSuccess(r)))
         /\ OwnCycle(r, EndTask(r))
BY DEF EndTask, Escalate, RecoverSuccess, OwnCycle, Fit, GuardRecord

LEMMA AfterRepairOwn ==
  ASSUME NEW g \in Guards, NEW r, NEW h \in Health, Fit(g, r)
  PROVE  OwnCycle(r, AfterRepair(g, r, h))
<1> DEFINE v == [r EXCEPT !.state = "VERIFY", !.task = "verify", !.ok = FALSE,
                          !.event = "clear"]
<1>1. OwnCycle(r, v)
  BY DEF OwnCycle, CyclePoints, Fit, GuardRecord
<1>2. AfterRepair(g, r, h) \in {EndTask(RecoverSuccess(r)),
                                AttemptFailed(g, r), v}
  <2>1. r.ok \in BOOLEAN
    BY DEF Fit, GuardRecord
  <2>2. CASE g \notin HealthCheck /\ r.ok
    BY <2>2 DEF AfterRepair
  <2>3. CASE g \notin HealthCheck /\ ~r.ok
    BY <2>3 DEF AfterRepair
  <2>4. CASE g \in HealthCheck /\ h = "OK"
    BY <2>4 DEF AfterRepair
  <2>5. CASE g \in HealthCheck /\ h # "OK"
    BY <2>5 DEF AfterRepair
  <2> QED BY <2>1, <2>2, <2>3, <2>4, <2>5
<1> HIDE DEF v
<1> QED BY <1>1, <1>2, VerdictOwn, AttemptFailedOwn

LEMMA CycleStepOwn ==
  ASSUME Consistent, NEW g \in Guards, Cycle(g), ~CycleBegins(g)
  PROVE  \E r : Fit(g, r) /\ CycleStep(g, r) /\ OwnCycle(guard[g], r)
<1>1. PICK r : Fit(g, r) /\ CycleStep(g, r)
  BY CycleStepFits
<1>2. guard'[g] = r
  BY <1>1 DEF CycleStep
<1>3. Fit(g, guard[g]) /\ health[g] \in Health
  BY ConsistentFits DEF Consistent, TypeOK
<1>4. ASSUME NEW q, CycleStep(g, q), OwnCycle(guard[g], q)
      PROVE  OwnCycle(guard[g], r)
  BY <1>2, <1>4 DEF CycleStep
<1>5. ASSUME CanRecover(g)
      PROVE  OwnCycle(guard[g], r)
  <2>1. OwnCycle(guard[g], [guard[g] EXCEPT !.task = "recover"])
    BY <1>3 DEF OwnCycle, CyclePoints, Fit, GuardRecord
  <2> QED BY <1>3, <1>4, <1>5, <2>1, VerdictOwn DEF CanRecover
<1>6. ASSUME DriverReturns(g)
      PROVE  OwnCycle(guard[g], r)
  <2>1. guard[g].task = "recover"
    BY <1>6 DEF DriverReturns
  <2>2. ASSUME NEW ok \in BOOLEAN
        PROVE  /\ Fit(g, [guard[g] EXCEPT !.ok = ok])
               /\ OwnCycle(guard[g],
                           [[guard[g] EXCEPT !.ok = ok] EXCEPT !.task = "reload"])
               /\ [guard[g] EXCEPT !.ok = ok].leader = guard[g].leader
    BY <1>3, <2>1 DEF OwnCycle, CyclePoints, Fit, GuardRecord, TimerFits,
       WorkFits, Abandoned, Busy, Following
  <2>3. ASSUME NEW ok \in BOOLEAN
        PROVE  OwnCycle(guard[g],
                        AfterRepair(g, [guard[g] EXCEPT !.ok = ok], health[g]))
    <3> DEFINE d == [guard[g] EXCEPT !.ok = ok]
    <3>1. Fit(g, d) /\ d.leader = guard[g].leader
      BY <2>2
    <3> HIDE DEF d
    <3>2. OwnCycle(d, AfterRepair(g, d, health[g]))
      BY <1>3, <3>1, AfterRepairOwn
    <3>3. OwnCycle(guard[g], AfterRepair(g, d, health[g]))
      BY <3>1, <3>2 DEF OwnCycle
    <3> QED BY <3>3 DEF d
  <2> QED BY <1>4, <1>6, <2>2, <2>3 DEF DriverReturns
<1>7. ASSUME DriverRaises(g)
      PROVE  OwnCycle(guard[g], r)
  BY <1>3, <1>4, <1>7, AttemptFailedOwn DEF DriverRaises
<1>8. ASSUME DriverCancelled(g)
      PROVE  OwnCycle(guard[g], r)
  BY <1>3, <1>4, <1>8, VerdictOwn DEF DriverCancelled
<1>9. ASSUME ReloadDone(g)
      PROVE  OwnCycle(guard[g], r)
  BY <1>3, <1>4, <1>9, AfterRepairOwn DEF ReloadDone
<1>10. ASSUME VerifyWakes(g) \/ VerifyTimesOut(g)
      PROVE  OwnCycle(guard[g], r)
  BY <1>3, <1>4, <1>10, VerdictOwn, AttemptFailedOwn
     DEF VerifyWakes, VerifyTimesOut
<1>11. OwnCycle(guard[g], r)
  BY <1>5, <1>6, <1>7, <1>8, <1>9, <1>10 DEF Cycle
<1> QED BY <1>1, <1>11

(* A stretch of a follower's own check, in which it follows nobody. *)
OwnCheck(g, q) ==
  /\ OnlyUpdate(g, q)
  /\ q.leader = NoGuard
  /\ q.task = "none" \/ q.task \in ValidatePoints

LEMMA ValidationOwn ==
  ASSUME Consistent, NEW g \in Guards, Validation(g)
  PROVE  /\ guard[g].task \in ValidatePoints
         /\ guard[g].leader = NoGuard
         /\ \E q : OwnCheck(g, q)
<1>1. /\ Fit(g, guard[g]) /\ health[g] \in Health
      /\ guard[g].task \in ValidatePoints
  BY ConsistentFits
     DEF Consistent, TypeOK, Validation, ValidationBegins, ValidationWakes,
         ValidationTimesOut, ValidatePoints
<1>2. guard[g].leader = NoGuard
  BY <1>1 DEF Fit, WorkFits, Abandoned, Busy, Following, ValidatePoints
<1>3. EndTask(RecoverSuccess(guard[g])).task = "none"
      /\ EndTask(RecoverSuccess(guard[g])).leader = NoGuard
  BY <1>1, <1>2 DEF EndTask, RecoverSuccess, Fit, GuardRecord
<1>4. CASE ValidationBegins(g)
  <2> DEFINE q == StartValidation(guard[g], health[g])
  <2>1. q.leader = NoGuard /\ q.task \in {"none", "validate_wait"}
    BY <1>1, <1>2, <1>3 DEF StartValidation, Fit, GuardRecord
  <2>2. OnlyUpdate(g, q)
    BY <1>4 DEF ValidationBegins
  <2> HIDE DEF q
  <2> QED BY <1>1, <1>2, <2>1, <2>2 DEF OwnCheck, ValidatePoints
<1>5. CASE ValidationWakes(g)
  BY <1>1, <1>2, <1>3, <1>5 DEF ValidationWakes, OwnCheck
<1>6. CASE ValidationTimesOut(g)
  <2> DEFINE v == ValidationFailed(guard[g], health[g])
             q == [guard[g] EXCEPT !.state = "OK", !.event = "none"]
  <2>1. v.task = "none" /\ v.leader = NoGuard
    <3>1. CASE guard[g].ok
      <4>1. q.leader = NoGuard /\ q.event = "none"
        BY <1>1, <1>2 DEF Fit, GuardRecord
      <4>2. Evaluate(q, health[g]).leader = NoGuard
            /\ EndTask(Evaluate(q, health[g])).leader = NoGuard
            /\ EndTask(Evaluate(q, health[g])).task = "none"
        BY <1>1, <4>1
           DEF Evaluate, WakeVerify, SteadyEdge, CancelTimer, EnterSuspect,
               EndTask, Fit, GuardRecord, Health
      <4> QED BY <3>1, <4>2 DEF ValidationFailed
    <3>2. CASE ~guard[g].ok
      BY <1>1, <1>2, <3>2
         DEF ValidationFailed, EndTask, Escalate, Fit, GuardRecord
    <3> QED BY <3>1, <3>2
  <2>2. OnlyUpdate(g, EndTask(RecoverSuccess(guard[g]))) \/ OnlyUpdate(g, v)
    BY <1>6 DEF ValidationTimesOut
  <2> HIDE DEF v
  <2> QED BY <1>1, <1>2, <1>3, <2>1, <2>2 DEF OwnCheck
<1> QED BY <1>1, <1>2, <1>4, <1>5, <1>6 DEF Validation

(* x follows the guard that it followed, and as it did, or follows nobody. *)
FollowsOn(x) ==
  guard'[x].leader = NoGuard \/ KeepsLead(guard[x], guard'[x])

LEMMA FollowersStay ==
  ASSUME Consistent, LeadersAtWork, EndsNoCycle, \A x \in Guards : FollowsOn(x)
  PROVE  LeadersAtWork'
<1> SUFFICES ASSUME NEW x \in Guards, Following(guard'[x]), ~guard'[x].astray
             PROVE  guard'[guard'[x].leader].task \in CyclePoints
  BY DEF LeadersAtWork
<1>1. PICK l \in Guards : l = guard[x].leader /\ l = guard'[x].leader
  <2>1. Fit(x, guard[x]) /\ guard[x].leader = guard'[x].leader
    BY ConsistentFits DEF FollowsOn, KeepsLead, Following
  <2> QED BY <2>1 DEF Fit, GuardRecord, Following
<1>2. Following(guard[x]) /\ ~guard[x].astray
  BY <1>1 DEF FollowsOn, KeepsLead, Following
<1>3. InCycle(l)
  BY <1>1, <1>2 DEF LeadersAtWork, InCycle
<1> QED BY <1>1, <1>3 DEF EndsNoCycle, InCycle

LEMMA OneFollowsOn ==
  ASSUME Consistent, NEW g \in Guards, NEW r, Update(g, r),
         r.leader = NoGuard \/ KeepsLead(guard[g], r)
  PROVE  \A x \in Guards : FollowsOn(x)
<1>1. \A x \in Guards : guard'[x] = IF x = g THEN r ELSE guard[x]
  BY DEF Update, Consistent, TypeOK
<1> QED BY <1>1 DEF FollowsOn, KeepsLead

(* Callbacks and services other than a debounce, and a follower's check.   *)
LEMMA QuietFollowsOn ==
  ASSUME Consistent, NEW g \in Guards,
         Environment(g) \/ CooldownDone(g) \/ SnoozeDone(g) \/ Operator(g)
         \/ Validation(g)
  PROVE  \A x \in Guards : FollowsOn(x)
<1>0. Fit(g, guard[g]) /\ health[g] \in Health
  BY ConsistentFits DEF Consistent, TypeOK
<1>1. CASE HealthEvent(g)
  <2>1. PICK h \in Health : Update(g, Evaluate(Told(guard[g], h), h))
    BY <1>1 DEF HealthEvent
  <2> QED BY <1>0, <2>1, ToldKeepsLeader, OneFollowsOn
<1>2. CASE TemplateDrift(g)
  BY <1>2 DEF TemplateDrift, FollowsOn, KeepsLead
<1>3. CASE TemplateEvent(g)
  BY <1>0, <1>3, ToldKeepsLeader, OneFollowsOn DEF TemplateEvent, OnlyUpdate
<1>4. CASE CooldownDone(g)
  <2> DEFINE r == CancelTimer(guard[g])
  <2>1. /\ KeepsLead(guard[g], r) /\ KeepsLead(guard[g], EnterSuspect(r))
        /\ KeepsLead(guard[g], [r EXCEPT !.state = "OK"])
    BY <1>0 DEF KeepsLead, CancelTimer, EnterSuspect, Fit, GuardRecord
  <2> QED BY <1>4, <2>1, OneFollowsOn DEF CooldownDone, OnlyUpdate
<1>5. CASE SnoozeDone(g)
  <2>1. guard[g].snoozed
    BY <1>0, <1>5 DEF SnoozeDone, Fit, TimerFits
  <2> QED
    BY <1>0, <1>5, <2>1, ResetResumeKeepLeader, OneFollowsOn
       DEF SnoozeDone, OnlyUpdate
<1>6. CASE SetAuto(g)
  <2>1. KeepsLead(guard[g], [guard[g] EXCEPT !.auto = ~@])
    BY <1>0 DEF KeepsLead, Fit, GuardRecord
  <2> QED BY <1>6, <2>1, OneFollowsOn DEF SetAuto, OnlyUpdate
<1>7. CASE ResetGuard(g)
  BY <1>0, <1>7, ResetResumeKeepLeader, OneFollowsOn DEF ResetGuard, OnlyUpdate
<1>8. CASE SnoozeGuard(g)
  <2>1. Snooze(guard[g]).leader = NoGuard
    BY <1>0 DEF Snooze, Fit, GuardRecord
  <2> QED BY <1>8, <2>1, OneFollowsOn DEF SnoozeGuard, OnlyUpdate
<1>9. CASE UnsnoozeGuard(g)
  BY <1>0, <1>9, ResetResumeKeepLeader, OneFollowsOn
     DEF UnsnoozeGuard, OnlyUpdate
<1>10. CASE ManualRecover(g)
  <2> DEFINE r == StartCycle(ClearSnooze([guard[g] EXCEPT !.attempt = 0]))
  <2>1. Update(g, r)
    BY <1>10 DEF ManualRecover
  <2>2. KeepsLead(guard[g], r)
    BY <1>0 DEF KeepsLead, StartCycle, ClearSnooze, CancelTimer, Fit, GuardRecord
  <2> HIDE DEF r
  <2> QED BY <2>1, <2>2, OneFollowsOn
<1>11. CASE Validation(g)
  BY <1>11, ValidationOwn, OneFollowsOn DEF OwnCheck, OnlyUpdate
<1> QED
  BY <1>1, <1>2, <1>3, <1>4, <1>5, <1>6, <1>7, <1>8, <1>9, <1>10, <1>11
     DEF Environment, Operator

(* A debounce that finds a leader at work follows that; one that comes to  *)
(* follow a leader that repairs nothing is marked.                         *)
LEMMA DebounceKeepsWork ==
  ASSUME Consistent, LeadersAtWork, NEW g \in Guards, DebounceDone(g)
  PROVE  LeadersAtWork'
<1> DEFINE r == CancelTimer(guard[g])
<1>0. EndsNoCycle
  BY OutsideStepsEndNoCycle DEF Timer
<1>1. /\ Fit(g, guard[g]) /\ guard[g].timer = "debounce"
      /\ health[g] \in Health
  BY ConsistentFits DEF DebounceDone, Consistent, TypeOK
<1>2. /\ guard[g].state = "SUSPECT" /\ guard[g].task = "none"
      /\ guard[g].leader = NoGuard
  BY <1>1 DEF Fit, TimerFits, WorkFits, Abandoned, Busy, Following
<1>3. \A q \in {r, [r EXCEPT !.state = "OK"], Escalate(r), StartCycle(r)} :
        q.leader = NoGuard
  BY <1>1, <1>2 DEF CancelTimer, Escalate, StartCycle, Busy, Fit, GuardRecord
<1>4. CASE \E q \in {r, [r EXCEPT !.state = "OK"], Escalate(r), StartCycle(r)} :
             OnlyUpdate(g, q)
  <2>1. PICK q : q.leader = NoGuard /\ Update(g, q)
    BY <1>3, <1>4 DEF OnlyUpdate
  <2> QED BY <1>0, <2>1, OneFollowsOn, FollowersStay
<1>5. ASSUME NEW leader \in RepairingPartners(g),
             OnlyUpdate(g, Joined(g, r, leader))
      PROVE  LeadersAtWork'
  <2> DEFINE q == Joined(g, r, leader)
  <2>1. leader \in Guards /\ leader # g
    BY GuardGroupAssumption DEF RepairingPartners
  <2>2. Fit(leader, guard[leader]) /\ ~Following(guard[leader])
    BY <2>1, ConsistentFits DEF RepairingPartners
  <2>3. \A x \in Guards : guard'[x] = IF x = g THEN q ELSE guard[x]
    BY <1>5 DEF OnlyUpdate, Update, Consistent, TypeOK
  <2>4. q.leader \in {NoGuard, leader}
        /\ (q.leader = leader /\ ~q.astray => ~RepairsNothing(guard[leader]))
    <3> DEFINE p == OnPartnerRepairStart(g, r, leader, health[g])
    <3>1. p.leader \in {NoGuard, leader} /\ p \in GuardRecord
      <4>1. r \in GuardRecord /\ r.leader = NoGuard
        BY <1>1, <1>2 DEF CancelTimer, Fit, GuardRecord, Timers
      <4>2. p \in {r, Escalate(CancelTimer(r)),
                    [CancelTimer(r) EXCEPT !.leader = leader,
                                           !.state = "RECOVERING"]}
        BY DEF OnPartnerRepairStart
      <4> HIDE DEF r
      <4> QED
        BY <2>1, <4>1, <4>2 DEF CancelTimer, Escalate, GuardRecord, GState, Timers
    <3>2. /\ q.leader = p.leader
          /\ q.astray = (Following(p) /\ RepairsNothing(guard[leader]))
      <4> HIDE DEF p
      <4>1. q = [p EXCEPT !.astray = Following(p)
                                       /\ RepairsNothing(guard[leader])]
        BY DEF Joined, p
      <4> QED BY <3>1, <4>1 DEF GuardRecord
    <3>3. leader # NoGuard
      BY <2>1, DeviceEngineAssumption
    <3> QED BY <3>1, <3>2, <3>3 DEF Following
  <2>5. ~RepairsNothing(guard[leader]) => InCycle(leader)
    BY <2>2 DEF RepairsNothing, InCycle, Busy, Fit, GuardRecord, Points
  <2> HIDE DEF q
  <2> SUFFICES ASSUME NEW x \in Guards, Following(guard'[x]), ~guard'[x].astray
               PROVE  guard'[guard'[x].leader].task \in CyclePoints
    BY DEF LeadersAtWork
  <2>6. CASE x = g
    BY <2>1, <2>3, <2>4, <2>5, <2>6 DEF Following, InCycle
  <2>7. CASE x # g
    <3>1. guard'[x] = guard[x]
      BY <2>3, <2>7
    <3>2. PICK l \in Guards : l = guard[x].leader
      BY <3>1, ConsistentFits DEF Fit, GuardRecord, Following
    <3>3. InCycle(l)
      BY <3>1, <3>2 DEF LeadersAtWork, InCycle
    <3> QED BY <1>0, <3>1, <3>2, <3>3 DEF EndsNoCycle, InCycle
  <2> QED BY <2>6, <2>7
<1> QED BY <1>4, <1>5 DEF DebounceDone

(* The partners that join are led by a guard whose cycle begins.           *)
LEMMA CycleBeginsKeepsWork ==
  ASSUME Consistent, LeadersAtWork, NEW g \in Guards, CycleBegins(g)
  PROVE  LeadersAtWork'
<1>1. EndsNoCycle
  BY OutsideStepsEndNoCycle
<1>2. InCycle(g)
  BY DEF CycleBegins, InCycle, CyclePoints
<1>3. ASSUME NEW x \in Guards
      PROVE  KeepsLead(guard[x], guard'[x]) \/ guard'[x].leader = g
  <2>1. Fit(x, guard[x])
    BY ConsistentFits
  <2>2. CASE x = g
    <3>1. guard'[x] = NextAttempt(guard[x])
      BY <2>2, GuardGroupAssumption DEF CycleBegins, Engines
    <3> QED BY <2>1, <3>1 DEF NextAttempt, KeepsLead, Fit, GuardRecord
  <2>3. CASE x # g /\ x \in Engines(g)
    <3>1. guard'[x] = OnPartnerRepairStart(x, guard[x], g, health[x])
      BY <2>3 DEF CycleBegins
    <3> QED
      BY <2>1, <3>1 DEF OnPartnerRepairStart, CancelTimer, Escalate, KeepsLead,
         Fit, GuardRecord
  <2>4. CASE x # g /\ x \notin Engines(g)
    BY <2>4 DEF CycleBegins, KeepsLead
  <2> QED BY <2>2, <2>3, <2>4
<1> SUFFICES ASSUME NEW x \in Guards, Following(guard'[x]), ~guard'[x].astray
             PROVE  guard'[guard'[x].leader].task \in CyclePoints
  BY DEF LeadersAtWork
<1>4. CASE guard'[x].leader = g
  BY <1>1, <1>2, <1>4 DEF EndsNoCycle, InCycle
<1>5. CASE KeepsLead(guard[x], guard'[x])
  <2>1. PICK l \in Guards : l = guard[x].leader /\ l = guard'[x].leader
    BY <1>5, ConsistentFits DEF KeepsLead, Fit, GuardRecord, Following
  <2>2. InCycle(l)
    BY <1>5, <2>1 DEF LeadersAtWork, InCycle, KeepsLead, Following
  <2> QED BY <1>1, <2>1, <2>2 DEF EndsNoCycle, InCycle
<1> QED BY <1>3, <1>4, <1>5

(* The end of a cycle leaves nobody who follows it.                        *)
LEMMA CycleStepKeepsWork ==
  ASSUME Consistent, LeadersAtWork, NEW g \in Guards, Cycle(g), ~CycleBegins(g)
  PROVE  LeadersAtWork'
<1>1. PICK r : Fit(g, r) /\ CycleStep(g, r) /\ OwnCycle(guard[g], r)
  BY CycleStepOwn
<1>2. InCycle(g)
  BY DEF Cycle, CanRecover, DriverReturns, DriverRaises, DriverCancelled,
     ReloadDone, VerifyWakes, VerifyTimesOut, InCycle, CyclePoints
<1>3. /\ guard'[g] = r /\ r.leader = NoGuard
      /\ Busy(r) => InCycle(g)'
  <2>1. guard'[g] = r /\ guard[g].leader = NoGuard
    BY <1>1, <1>2, InCycleState DEF CycleStep
  <2> QED BY <1>1, <2>1 DEF OwnCycle, Busy, InCycle
<1>4. ASSUME NEW x \in Guards, x # g
      PROVE  guard'[x].leader = NoGuard \/ guard'[x] = guard[x]
  <2>1. Fit(x, guard[x])
    BY ConsistentFits
  <2>2. \/ guard'[x] = guard[x]
        \/ guard'[x] = OnPartnerRepairDone(guard[x], g, r.state = "COOLDOWN")
    BY <1>1, <1>4 DEF CycleStep
  <2> QED BY <2>1, <2>2 DEF OnPartnerRepairDone, Fit, GuardRecord
<1> SUFFICES ASSUME NEW x \in Guards, Following(guard'[x]), ~guard'[x].astray
             PROVE  guard'[guard'[x].leader].task \in CyclePoints
  BY DEF LeadersAtWork
<1>5. x # g /\ guard'[x] = guard[x]
  BY <1>3, <1>4 DEF Following
<1>6. PICK l \in Guards : l = guard[x].leader
  BY <1>5, ConsistentFits DEF Fit, GuardRecord, Following
<1>7. InCycle(l)
  BY <1>5, <1>6 DEF LeadersAtWork, InCycle
<1>8. CASE l # g
  <2>1. guard'[l] = guard[l]
    BY <1>1, <1>7, <1>8, CycleStepKeepsOthers
  <2> QED BY <1>5, <1>6, <1>7, <2>1 DEF InCycle
<1>9. CASE l = g
  <2>1. Busy(r)
    BY <1>1, <1>5, <1>6, <1>9, CycleStepReleases
  <2> QED BY <1>3, <1>5, <1>6, <1>9, <2>1 DEF InCycle
<1> QED BY <1>8, <1>9

LEMMA NextKeepsWork ==
  ASSUME Consistent, LeadersAtWork, [Next]_vars
  PROVE  LeadersAtWork'
<1>1. ASSUME NEW g \in Guards,
             \/ Environment(g) \/ CooldownDone(g) \/ SnoozeDone(g)
             \/ Operator(g) \/ Validation(g)
      PROVE  LeadersAtWork'
  <2>1. EndsNoCycle
    BY <1>1, OutsideStepsEndNoCycle DEF Timer
  <2> QED BY <1>1, <2>1, QuietFollowsOn, FollowersStay
<1>2. ASSUME NEW g \in Guards, Cycle(g) PROVE LeadersAtWork'
  BY <1>2, CycleBeginsKeepsWork, CycleStepKeepsWork
<1>3. CASE UNCHANGED vars
  BY <1>3 DEF vars, LeadersAtWork
<1> QED
  BY <1>1, <1>2, <1>3, DebounceKeepsWork DEF Next, Timer

(* Every repair that a guard shows is carried on, in a group of any size:  *)
(* by a task of its own, or by a partner whose own recovery cycle is under *)
(* way.  Excepted are the guard whose driver call was cancelled and the    *)
(* one whose debounce joined a leader that repaired nothing (astray).      *)
THEOREM WorkMatches == Spec => []WorkMatchesState
<1>1. Init => LeadersAtWork
  <2> SUFFICES ASSUME Init, NEW g \in Guards PROVE guard[g].leader = NoGuard
    BY DEF LeadersAtWork, Following
  <2>1. PICK auto \in [Guards -> BOOLEAN] :
          guard = [x \in Guards |-> Evaluate(Told(NewGuard(auto[x]), health[x]),
                                             health[x])]
    BY DEF Init
  <2>2. health[g] \in Health /\ auto[g] \in BOOLEAN
    BY DEF Init
  <2>3. /\ Fit(g, Told(NewGuard(auto[g]), health[g]))
        /\ Told(NewGuard(auto[g]), health[g]).leader = NoGuard
    BY <2>2, NewGuardFits
  <2> QED BY <2>1, <2>2, <2>3, EvaluateKeepsLeader DEF KeepsLead
<1>2. Consistent /\ LeadersAtWork /\ [Next]_vars => LeadersAtWork'
  BY NextKeepsWork
<1>3. Consistent /\ LeadersAtWork => WorkMatchesState
  BY DEF Consistent, WorkMatchesState
<1> QED BY <1>1, <1>2, <1>3, ConsistentAlways, PTL DEF Spec
=============================================================================
