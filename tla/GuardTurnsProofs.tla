--------------------------- MODULE GuardTurnsProofs ---------------------------
(***************************************************************************)
(* Any number of linked guards, with any links, timers and operators, take *)
(* turns: GuardGroup implements RepairTurns.                               *)
(***************************************************************************)
EXTENDS GuardTurns, GuardGroupProofs

T(x) == TurnOf(guard[x])
L(x) == guard[x].leader

(* x's own turn and the guard it follows stay what they are. *)
Still(x) == T(x)' = T(x) /\ L(x)' = L(x)

LEMMA TurnsOf ==
  ASSUME NEW r
  PROVE  /\ TurnOf(r) = "repair" <=> r.task \in CyclePoints
         /\ TurnOf(r) = "check"  <=> r.task \in ValidatePoints
         /\ r.task = "none" => TurnOf(r) = "free"
BY DEF TurnOf, CyclePoints, ValidatePoints

(* An idle guard's turn is free, and one that is at work is not. *)
LEMMA TurnOfFit ==
  ASSUME NEW g \in Guards, NEW r, Fit(g, r)
  PROVE  TurnOf(r) = "free" <=> ~Busy(r)
BY DEF TurnOf, Fit, GuardRecord, Busy, Points, CyclePoints, ValidatePoints

-----------------------------------------------------------------------------
(* One lemma per abstract action: what the guards must do for it. *)

LEMMA NoTurn ==
  ASSUME \A x \in Guards : Still(x)
  PROVE  UNCHANGED Turns!vars
BY DEF Still, T, L, Turns!vars

LEMMA BeginTurn ==
  ASSUME NEW g \in Guards, \A x \in Guards : x # g => Still(x),
         T(g) = "free", L(g) = NoGuard, T(g)' = "repair", L(g)' = NoGuard
  PROVE  Turns!Begin(g)
BY DEF Still, T, L, Turns!Begin, Turns!Idle

LEMMA CheckedTurn ==
  ASSUME NEW g \in Guards, \A x \in Guards : x # g => Still(x),
         T(g) = "check", T(g)' = "free", L(g)' = L(g)
  PROVE  Turns!Checked(g)
BY DEF Still, T, L, Turns!Checked

LEMMA LeaveTurn ==
  ASSUME NEW g \in Guards, \A x \in Guards : x # g => Still(x),
         L(g) # NoGuard, L(g)' = NoGuard, T(g)' = T(g)
  PROVE  Turns!Leave(g)
BY DEF Still, T, L, Turns!Leave

LEMMA JoinTurn ==
  ASSUME NEW l \in Guards, T(l) # "free" \/ l \in Cancellable,
         \A x \in Guards :
           \/ Still(x)
           \/ /\ x \in Partners[l] /\ T(x) = "free" /\ L(x) = NoGuard
              /\ T(x)' = "free" /\ L(x)' = l
  PROVE  Turns!Join(l)
<1> DEFINE joining == {x \in Guards : L(x)' # L(x)}
<1>1. joining \in SUBSET {g \in Partners[l] : Turns!Idle(g)}
  BY GuardGroupAssumption DEF Still, T, L, Turns!Idle
<1>2. [g \in Guards |-> guard[g].leader]' =
        [g \in Guards |-> IF g \in joining THEN l
                          ELSE [x \in Guards |-> guard[x].leader][g]]
  BY DEF Still, L
<1>3. [g \in Guards |-> TurnOf(guard[g])]' = [g \in Guards |-> TurnOf(guard[g])]
  BY DEF Still, T
<1> HIDE DEF joining
<1> QED BY <1>1, <1>2, <1>3 DEF Turns!Join, T

LEMMA EndTurn ==
  ASSUME NEW l \in Guards, T(l) = "repair", T(l)' = "free",
         L(l) # l, L(l)' = L(l),
         \A x \in Guards : x # l =>
           IF L(x) = l THEN T(x)' = "check" /\ L(x)' = NoGuard ELSE Still(x)
  PROVE  Turns!End(l)
BY DEF Still, T, L, Turns!End

-----------------------------------------------------------------------------
(* A callback that leaves the guard's task and leader alone takes no turn. *)

LEMMA QuietGuard ==
  ASSUME Consistent, NEW g \in Guards, NEW r, Update(g, r),
         r.task = guard[g].task, r.leader = guard[g].leader
  PROVE  UNCHANGED Turns!vars
<1>1. \A x \in Guards : guard'[x] = IF x = g THEN r ELSE guard[x]
  BY DEF Update, Consistent, TypeOK
<1>2. \A x \in Guards : Still(x)
  BY <1>1 DEF Still, T, L, TurnOf
<1> QED BY <1>2, NoTurn

LEMMA EnvironmentTurn ==
  ASSUME Consistent, NEW g \in Guards, Environment(g)
  PROVE  UNCHANGED Turns!vars
<1>0. Fit(g, guard[g]) /\ health[g] \in Health
  BY ConsistentFits DEF Consistent, TypeOK
<1>1. CASE HealthEvent(g)
  <2>1. PICK h \in Health : Update(g, Evaluate(Told(guard[g], h), h))
    BY <1>1 DEF HealthEvent
  <2> QED
    BY <1>0, <2>1, ToldKeepsTask, ToldKeepsLeader, QuietGuard DEF KeepsLead
<1>2. CASE TemplateDrift(g)
  BY <1>2, NoTurn DEF TemplateDrift, Still, T, L
<1>3. CASE TemplateEvent(g)
  BY <1>0, <1>3, ToldKeepsTask, ToldKeepsLeader, QuietGuard
     DEF TemplateEvent, OnlyUpdate, KeepsLead
<1> QED BY <1>1, <1>2, <1>3 DEF Environment

LEMMA ServiceTurn ==
  ASSUME Consistent, NEW g \in Guards,
         SetAuto(g) \/ ResetGuard(g) \/ UnsnoozeGuard(g) \/ CooldownDone(g)
         \/ SnoozeDone(g)
  PROVE  UNCHANGED Turns!vars
<1>0. Fit(g, guard[g]) /\ health[g] \in Health
  BY ConsistentFits DEF Consistent, TypeOK
<1>1. CASE SetAuto(g)
  <2>1. /\ [guard[g] EXCEPT !.auto = ~@].task = guard[g].task
        /\ [guard[g] EXCEPT !.auto = ~@].leader = guard[g].leader
    BY <1>0 DEF Fit, GuardRecord
  <2> QED BY <1>1, <2>1, QuietGuard DEF SetAuto, OnlyUpdate
<1>2. CASE ResetGuard(g)
  BY <1>0, <1>2, ResetResumeKeepTask, ResetResumeKeepLeader, QuietGuard
     DEF ResetGuard, OnlyUpdate, KeepsLead
<1>3. CASE UnsnoozeGuard(g)
  BY <1>0, <1>3, ResetResumeKeepTask, ResetResumeKeepLeader, QuietGuard
     DEF UnsnoozeGuard, OnlyUpdate, KeepsLead
<1>4. CASE CooldownDone(g)
  <2> DEFINE r == CancelTimer(guard[g])
  <2>1. \A q \in {r, EnterSuspect(r), [r EXCEPT !.state = "OK"]} :
          q.task = guard[g].task /\ q.leader = guard[g].leader
    BY <1>0 DEF CancelTimer, EnterSuspect, Fit, GuardRecord
  <2> QED BY <1>4, <2>1, QuietGuard DEF CooldownDone, OnlyUpdate
<1>5. CASE SnoozeDone(g)
  <2>1. guard[g].snoozed
    BY <1>0, <1>5 DEF SnoozeDone, Fit, TimerFits
  <2> QED
    BY <1>0, <1>5, <2>1, ResetResumeKeepTask, ResetResumeKeepLeader, QuietGuard
       DEF SnoozeDone, OnlyUpdate, KeepsLead
<1> QED BY <1>1, <1>2, <1>3, <1>4, <1>5

LEMMA SnoozeTurn ==
  ASSUME Consistent, NEW g \in Guards, SnoozeGuard(g)
  PROVE  [Turns!Next]_Turns!vars
<1>1. Fit(g, guard[g]) /\ ~Busy(guard[g])
  BY ConsistentFits DEF SnoozeGuard
<1>2. \A x \in Guards : guard'[x] = IF x = g THEN Snooze(guard[g]) ELSE guard[x]
  BY DEF SnoozeGuard, OnlyUpdate, Update, Consistent, TypeOK
<1>3. /\ Snooze(guard[g]).task = guard[g].task
      /\ Snooze(guard[g]).leader = NoGuard
  BY <1>1 DEF Snooze, Fit, GuardRecord
<1>4. \A x \in Guards : x # g => Still(x)
  BY <1>2 DEF Still, T, L
<1>5. T(g)' = T(g) /\ L(g)' = NoGuard
  BY <1>2, <1>3 DEF T, L, TurnOf
<1>6. CASE L(g) = NoGuard
  BY <1>4, <1>5, <1>6, NoTurn DEF Still
<1>7. CASE L(g) # NoGuard
  BY <1>4, <1>5, <1>7, LeaveTurn DEF Turns!Next
<1> QED BY <1>6, <1>7

LEMMA PressTurn ==
  ASSUME Consistent, NEW g \in Guards, ManualRecover(g)
  PROVE  Turns!Begin(g)
<1> DEFINE r == StartCycle(ClearSnooze([guard[g] EXCEPT !.attempt = 0]))
<1>1. Fit(g, guard[g]) /\ ~Busy(guard[g]) /\ ~Following(guard[g])
  BY ConsistentFits DEF ManualRecover
<1>2. \A x \in Guards : guard'[x] = IF x = g THEN r ELSE guard[x]
  BY DEF ManualRecover, Update, Consistent, TypeOK
<1>3. r = [guard[g] EXCEPT !.attempt = 0, !.timer = "none", !.snoozed = FALSE,
                           !.state = "RECOVERING", !.task = "claimed"]
  BY <1>1 DEF StartCycle, ClearSnooze, CancelTimer, Busy, Fit, GuardRecord
<1>4. r.task = "claimed" /\ r.leader = NoGuard
  BY <1>1, <1>3 DEF Fit, GuardRecord, Following
<1>5. T(g) = "free" /\ L(g) = NoGuard
  BY <1>1, TurnOfFit DEF T, L, Following
<1>6. T(g)' = "repair" /\ L(g)' = NoGuard
  BY <1>2, <1>4, TurnsOf DEF T, L, CyclePoints
<1>7. \A x \in Guards : x # g => Still(x)
  BY <1>2 DEF Still, T, L
<1> QED BY <1>5, <1>6, <1>7, BeginTurn

(* The debounce ends in a settled guard, in a follower or in a leader. *)
LEMMA DebounceTurn ==
  ASSUME Consistent, NEW g \in Guards, DebounceDone(g)
  PROVE  [Turns!Next]_Turns!vars
<1> DEFINE r == CancelTimer(guard[g])
<1>1. /\ Fit(g, guard[g]) /\ guard[g].timer = "debounce"
      /\ health[g] \in Health
  BY ConsistentFits DEF DebounceDone, Consistent, TypeOK
<1>2. /\ guard[g].state = "SUSPECT" /\ guard[g].task = "none"
      /\ guard[g].leader = NoGuard
  BY <1>1 DEF Fit, TimerFits, WorkFits, Abandoned, Busy, Following
<1>3. /\ \A q \in {r, [r EXCEPT !.state = "OK"], Escalate(r)} :
           q.task = guard[g].task /\ q.leader = guard[g].leader
      /\ StartCycle(r).task = "claimed" /\ StartCycle(r).leader = NoGuard
  BY <1>1, <1>2 DEF CancelTimer, Escalate, StartCycle, Busy, Fit, GuardRecord
<1>4. T(g) = "free" /\ L(g) = NoGuard
  BY <1>2, TurnsOf DEF T, L
<1>5. ASSUME NEW q, OnlyUpdate(g, q)
      PROVE  /\ \A x \in Guards : x # g => Still(x)
             /\ T(g)' = TurnOf(q) /\ L(g)' = q.leader
  BY <1>5 DEF OnlyUpdate, Update, Still, T, L, Consistent, TypeOK
<1>6. CASE \E q \in {r, [r EXCEPT !.state = "OK"], Escalate(r)} :
             OnlyUpdate(g, q)
  BY <1>3, <1>6, QuietGuard DEF OnlyUpdate
<1>7. ASSUME NEW leader \in RepairingPartners(g),
             OnlyUpdate(g, Joined(g, r, leader))
      PROVE  [Turns!Next]_Turns!vars
  <2> DEFINE q == Joined(g, r, leader)
  <2>1. leader \in Guards /\ g \in Partners[leader] /\ leader # g
    BY GuardGroupAssumption DEF RepairingPartners
  <2>2. /\ Fit(leader, guard[leader])
        /\ guard[leader].state \in {"RECOVERING", "VERIFY"}
        /\ ~Following(guard[leader])
    BY <2>1, ConsistentFits DEF RepairingPartners
  <2>3. T(leader) # "free" \/ leader \in Cancellable
    BY <2>1, <2>2, TurnOfFit DEF T, Fit, WorkFits, Abandoned
  <2>4. q.task = "none" /\ q.leader \in {NoGuard, leader}
    BY <1>1, <1>2 DEF Joined, OnPartnerRepairStart, CancelTimer, Escalate, Fit,
       GuardRecord
  <2>5. T(g)' = "free" /\ L(g)' \in {NoGuard, leader}
    BY <1>5, <1>7, <2>4, TurnsOf
  <2>6. \A x \in Guards : x # g => Still(x)
    BY <1>5, <1>7
  <2>7. Turns!Join(leader)
    BY <1>4, <2>1, <2>3, <2>5, <2>6, JoinTurn DEF Still
  <2> QED BY <2>1, <2>7 DEF Turns!Next
<1>8. CASE OnlyUpdate(g, StartCycle(r))
  <2>1. T(g)' = "repair" /\ L(g)' = NoGuard
    BY <1>3, <1>5, <1>8, TurnsOf DEF CyclePoints
  <2>2. \A x \in Guards : x # g => Still(x)
    BY <1>5, <1>8
  <2> QED BY <1>4, <2>1, <2>2, BeginTurn DEF Turns!Next
<1> QED BY <1>6, <1>7, <1>8 DEF DebounceDone

(* The start of a cycle: the partners that are free to answer join. *)
LEMMA CycleBeginsTurn ==
  ASSUME Consistent, NEW g \in Guards, CycleBegins(g)
  PROVE  Turns!Join(g)
<1>1. Fit(g, guard[g]) /\ guard[g].task = "claimed"
  BY ConsistentFits DEF CycleBegins
<1>2. T(g) = "repair"
  BY <1>1, TurnsOf DEF T, CyclePoints
<1>3. Still(g)
  <2>1. guard'[g] = NextAttempt(guard[g])
    BY GuardGroupAssumption DEF CycleBegins, Engines
  <2>2. /\ NextAttempt(guard[g]).task = "can_recover"
        /\ NextAttempt(guard[g]).leader = guard[g].leader
    BY <1>1 DEF NextAttempt, Fit, GuardRecord
  <2> QED BY <1>2, <2>1, <2>2, TurnsOf DEF Still, T, L, CyclePoints
<1>4. ASSUME NEW x \in Guards, x # g
      PROVE  \/ Still(x)
             \/ /\ x \in Partners[g] /\ T(x) = "free" /\ L(x) = NoGuard
                /\ T(x)' = "free" /\ L(x)' = g
  <2>1. Fit(x, guard[x])
    BY ConsistentFits
  <2>2. CASE x \notin Engines(g)
    BY <1>4, <2>2 DEF CycleBegins, Still, T, L
  <2>3. CASE x \in Engines(g)
    <3> DEFINE q == OnPartnerRepairStart(x, guard[x], g, health[x])
    <3>1. guard'[x] = q
      BY <1>4, <2>3 DEF CycleBegins
    <3>2. CASE FreeToAnswer(x, guard[x]) /\ guard[x].auto
      <4>1. q = [CancelTimer(guard[x]) EXCEPT !.leader = g,
                                              !.state = "RECOVERING"]
        BY <3>2 DEF OnPartnerRepairStart
      <4>2. q.task = "none" /\ q.leader = g
        BY <2>1, <3>2, <4>1
           DEF CancelTimer, FreeToAnswer, Busy, Fit, GuardRecord
      <4>3. guard[x].task = "none" /\ guard[x].leader = NoGuard
        BY <3>2 DEF FreeToAnswer, Busy, Following
      <4> QED BY <2>3, <3>1, <4>2, <4>3, TurnsOf DEF Engines, T, L
    <3>3. CASE ~(FreeToAnswer(x, guard[x]) /\ guard[x].auto)
      <4>1. q \in {guard[x], Escalate(CancelTimer(guard[x]))}
        BY <3>3 DEF OnPartnerRepairStart
      <4>2. q.task = guard[x].task /\ q.leader = guard[x].leader
        BY <2>1, <4>1 DEF CancelTimer, Escalate, Fit, GuardRecord
      <4> QED BY <3>1, <4>2 DEF Still, T, L, TurnOf
    <3> QED BY <3>2, <3>3
  <2> QED BY <2>2, <2>3
<1> QED BY <1>2, <1>3, <1>4, JoinTurn

(* A cycle goes on, or its end releases all the followers at once. *)
LEMMA CycleStepTurn ==
  ASSUME Consistent, NEW g \in Guards, NEW r, CycleStep(g, r), Fit(g, r),
         InCycle(g), OwnCycle(guard[g], r)
  PROVE  [Turns!Next]_Turns!vars
<1>1. Fit(g, guard[g]) /\ guard[g].leader = NoGuard /\ guard'[g] = r
  BY ConsistentFits, InCycleState DEF CycleStep
<1>2. T(g) = "repair" /\ L(g) = NoGuard
  BY <1>1, TurnsOf DEF T, L, InCycle
<1>3. CASE Busy(r)
  <2>1. r.leader = NoGuard /\ r.task \in CyclePoints
    BY <1>1, <1>3 DEF OwnCycle, Busy
  <2>2. T(g)' = "repair" /\ L(g)' = NoGuard
    BY <1>1, <2>1, TurnsOf DEF T, L
  <2>3. \A x \in Guards : x # g => guard'[x] = guard[x]
    BY <1>3 DEF CycleStep
  <2>4. \A x \in Guards : Still(x)
    BY <1>2, <2>2, <2>3 DEF Still, T, L
  <2> QED BY <2>4, NoTurn
<1>4. CASE ~Busy(r)
  <2>1. T(g)' = "free"
    BY <1>1, <1>4, TurnsOf DEF T, Busy
  <2>2. r.leader = NoGuard
    BY <1>1 DEF OwnCycle
  <2>3. L(g)' = L(g) /\ L(g) # g
    BY <1>1, <2>2, DeviceEngineAssumption DEF L
  <2>4. ASSUME NEW x \in Guards, x # g
        PROVE  IF L(x) = g THEN T(x)' = "check" /\ L(x)' = NoGuard ELSE Still(x)
    <3>1. Fit(x, guard[x])
      BY ConsistentFits
    <3>2. CASE L(x) = g
      <4>1. x \in Partners[g] /\ ~Busy(guard[x])
        BY <3>1, <3>2, DeviceEngineAssumption, GuardGroupAssumption
           DEF L, Fit, WorkFits, Abandoned, Following
      <4>2. guard'[x] = OnPartnerRepairDone(guard[x], g, r.state = "COOLDOWN")
        BY <1>4, <2>4, <4>1 DEF CycleStep
      <4>3. /\ guard'[x].task = "validate"
            /\ guard'[x].leader = NoGuard
        BY <3>1, <3>2, <4>1, <4>2 DEF OnPartnerRepairDone, L, Fit, GuardRecord
      <4> QED BY <3>2, <4>3, TurnsOf DEF T, L, ValidatePoints
    <3>3. CASE L(x) # g
      BY <2>4, <3>3 DEF CycleStep, OnPartnerRepairDone, L, T, Still
    <3> QED BY <3>2, <3>3
  <2>5. Turns!End(g)
    BY <1>2, <2>1, <2>3, <2>4, EndTurn
  <2> QED BY <2>5 DEF Turns!Next
<1> QED BY <1>3, <1>4

LEMMA CycleTurn ==
  ASSUME Consistent, NEW g \in Guards, Cycle(g)
  PROVE  [Turns!Next]_Turns!vars
<1>1. CASE CycleBegins(g)
  BY <1>1, CycleBeginsTurn DEF Turns!Next
<1>2. CASE ~CycleBegins(g)
  <2>1. PICK r : Fit(g, r) /\ CycleStep(g, r) /\ OwnCycle(guard[g], r)
    BY <1>2, CycleStepOwn
  <2>2. InCycle(g)
    BY <1>2
       DEF Cycle, CanRecover, DriverReturns, DriverRaises, DriverCancelled,
           ReloadDone, VerifyWakes, VerifyTimesOut, InCycle, CyclePoints
  <2> QED BY <2>1, <2>2, CycleStepTurn
<1> QED BY <1>1, <1>2

(* A follower's own check goes on or is over; it follows nobody either way. *)
LEMMA ValidationTurn ==
  ASSUME Consistent, NEW g \in Guards, Validation(g)
  PROVE  [Turns!Next]_Turns!vars
<1>1. PICK q : OwnCheck(g, q)
  BY ValidationOwn
<1>2. T(g) = "check" /\ L(g) = NoGuard
  BY ValidationOwn, TurnsOf DEF T, L
<1>3. \A x \in Guards : guard'[x] = IF x = g THEN q ELSE guard[x]
  BY <1>1 DEF OwnCheck, OnlyUpdate, Update, Consistent, TypeOK
<1>4. \A x \in Guards : x # g => Still(x)
  BY <1>3 DEF Still, T, L
<1>5. T(g)' = TurnOf(q) /\ L(g)' = NoGuard
  BY <1>1, <1>3 DEF OwnCheck, T, L
<1>6. CASE q.task = "none"
  BY <1>2, <1>4, <1>5, <1>6, TurnsOf, CheckedTurn DEF Turns!Next
<1>7. CASE q.task \in ValidatePoints
  <2>1. \A x \in Guards : Still(x)
    BY <1>2, <1>4, <1>5, <1>7, TurnsOf DEF Still
  <2> QED BY <2>1, NoTurn
<1> QED BY <1>1, <1>6, <1>7 DEF OwnCheck

-----------------------------------------------------------------------------
(* The refinement *)

LEMMA InitTurns == Init => Turns!Init
<1> SUFFICES ASSUME Init PROVE Turns!Init
  OBVIOUS
<1>1. PICK auto \in [Guards -> BOOLEAN] :
        guard = [g \in Guards |-> Evaluate(Told(NewGuard(auto[g]), health[g]),
                                           health[g])]
  BY DEF Init
<1>2. ASSUME NEW g \in Guards
      PROVE  guard[g].task = "none" /\ guard[g].leader = NoGuard
  <2> DEFINE n == Told(NewGuard(auto[g]), health[g])
  <2>1. health[g] \in Health /\ guard[g] = Evaluate(n, health[g])
    BY <1>1 DEF Init
  <2>2. Fit(g, n) /\ n.task = "none" /\ n.leader = NoGuard
    BY <2>1, NewGuardFits
  <2> HIDE DEF n
  <2> QED
    BY <2>1, <2>2, EvaluateKeepsTask, EvaluateKeepsLeader DEF KeepsLead
<1>3. \A g \in Guards : TurnOf(guard[g]) = "free"
  BY <1>2, TurnsOf
<1> QED BY <1>2, <1>3 DEF Turns!Init

LEMMA NextTurns ==
  ASSUME Consistent, [Next]_vars
  PROVE  [Turns!Next]_Turns!vars
<1>1. CASE UNCHANGED vars
  BY <1>1 DEF vars, Turns!vars
<1>2. ASSUME NEW g \in Guards,
             Environment(g) \/ Timer(g) \/ Operator(g) \/ Cycle(g)
             \/ Validation(g)
      PROVE  [Turns!Next]_Turns!vars
  <2>1. CASE ManualRecover(g)
    BY <2>1, PressTurn DEF Turns!Next
  <2> QED
    BY <1>2, <2>1, EnvironmentTurn, ServiceTurn, SnoozeTurn, DebounceTurn,
       CycleTurn, ValidationTurn DEF Timer, Operator
<1> QED BY <1>1, <1>2 DEF Next

(* Linked guards take turns: for any number of guards, links, drivers and  *)
(* health sources, whatever the timers, the operator and the devices do,   *)
(* every step of the group is a step of turn-taking or none - in           *)
(* particular the end of a repair releases all its followers into their    *)
(* own checks in that one step, and no follower starts a repair.           *)
THEOREM TakesTurns == Spec => RefinesTurns
<1>1. Init => Turns!Init
  BY InitTurns
<1>2. Consistent /\ [Next]_vars => [Turns!Next]_Turns!vars
  BY NextTurns
<1> QED BY <1>1, <1>2, ConsistentAlways, PTL DEF Spec, RefinesTurns, Turns!Spec
-----------------------------------------------------------------------------
(* Auto off *)

(* x follows whom it followed, or nobody. *)
FollowsNobodyNew(x) == L(x)' \in {L(x), NoGuard}

OffFollowsNobodyNew ==
  \A x \in Guards : ~guard[x].auto => FollowsNobodyNew(x)

(* With the auto switch off, a start of a partner's repair is not followed. *)
LEMMA OffDoesNotFollow ==
  ASSUME NEW x \in Guards, NEW r, NEW l \in Guards, NEW h, Fit(x, r), ~r.auto
  PROVE  OnPartnerRepairStart(x, r, l, h).leader = r.leader
BY DEF OnPartnerRepairStart, CancelTimer, Escalate, Fit, GuardRecord

LEMMA OneGuardFollows ==
  ASSUME Consistent, NEW g \in Guards, NEW r, Update(g, r),
         ~guard[g].auto => r.leader \in {guard[g].leader, NoGuard}
  PROVE  OffFollowsNobodyNew
<1>1. \A x \in Guards : guard'[x] = IF x = g THEN r ELSE guard[x]
  BY DEF Update, Consistent, TypeOK
<1> QED BY <1>1 DEF OffFollowsNobodyNew, FollowsNobodyNew, L

LEMMA QuietTurnFollows ==
  ASSUME UNCHANGED Turns!vars
  PROVE  OffFollowsNobodyNew
<1>1. [x \in Guards |-> guard[x].leader]' = [x \in Guards |-> guard[x].leader]
  BY DEF Turns!vars
<1>2. \A x \in Guards : [y \in Guards |-> guard[y].leader]'[x] = L(x)'
  BY DEF L
<1>3. \A x \in Guards : [y \in Guards |-> guard[y].leader][x] = L(x)
  BY DEF L
<1> QED BY <1>1, <1>2, <1>3 DEF OffFollowsNobodyNew, FollowsNobodyNew

LEMMA DebounceOff ==
  ASSUME Consistent, NEW g \in Guards, DebounceDone(g)
  PROVE  /\ OffFollowsNobodyNew
         /\ \A x \in Guards :
              ~guard[x].auto /\ ~Busy(guard[x]) => ~InCycle(x)'
<1> DEFINE r == CancelTimer(guard[g])
<1>1. /\ Fit(g, guard[g]) /\ guard[g].timer = "debounce"
      /\ health[g] \in Health
  BY ConsistentFits DEF DebounceDone, Consistent, TypeOK
<1>2. /\ guard[g].state = "SUSPECT" /\ guard[g].task = "none"
      /\ guard[g].leader = NoGuard
  BY <1>1 DEF Fit, TimerFits, WorkFits, Abandoned, Busy, Following
<1>3. /\ r.state = "SUSPECT" /\ r.task = "none" /\ r.leader = NoGuard
      /\ r.auto = guard[g].auto
      /\ r \in GuardRecord
  BY <1>1, <1>2 DEF CancelTimer, Fit, GuardRecord, Timers
<1>4. \A q \in {[r EXCEPT !.state = "OK"], Escalate(r)} :
        q.task = "none" /\ q.leader = NoGuard
  BY <1>3 DEF Escalate, CancelTimer, GuardRecord
<1>5. ASSUME NEW l \in Guards
      PROVE  /\ Joined(g, r, l).task = "none"
             /\ ~guard[g].auto => Joined(g, r, l).leader = NoGuard
  BY <1>3 DEF Joined, OnPartnerRepairStart, CancelTimer, Escalate, GuardRecord
<1>6. RepairingPartners(g) \subseteq Guards
  BY GuardGroupAssumption DEF RepairingPartners
<1>7. \/ \E q \in {[r EXCEPT !.state = "OK"], Escalate(r)} : OnlyUpdate(g, q)
      \/ \E l \in Guards : OnlyUpdate(g, Joined(g, r, l))
      \/ ShouldAttempt(g, r) /\ OnlyUpdate(g, StartCycle(r))
  BY <1>3, <1>6 DEF DebounceDone
<1>8. PICK q : /\ OnlyUpdate(g, q)
               /\ ~guard[g].auto => q.task = "none" /\ q.leader = NoGuard
  BY <1>3, <1>4, <1>5, <1>7 DEF ShouldAttempt
<1>9. OffFollowsNobodyNew
  BY <1>8, OneGuardFollows DEF OnlyUpdate
<1>10. \A x \in Guards : guard'[x] = IF x = g THEN q ELSE guard[x]
  BY <1>8 DEF OnlyUpdate, Update, Consistent, TypeOK
<1>11. \A x \in Guards : ~guard[x].auto /\ ~Busy(guard[x]) => ~InCycle(x)'
  BY <1>8, <1>10 DEF InCycle, CyclePoints, Busy
<1> QED BY <1>9, <1>11

LEMMA CycleOff ==
  ASSUME Consistent, NEW g \in Guards, Cycle(g)
  PROVE  OffFollowsNobodyNew
<1>1. CASE CycleBegins(g)
  <2> SUFFICES ASSUME NEW x \in Guards, ~guard[x].auto
               PROVE  guard'[x].leader = guard[x].leader
    BY DEF OffFollowsNobodyNew, FollowsNobodyNew, L
  <2>1. Fit(x, guard[x])
    BY ConsistentFits
  <2>2. CASE x = g
    <3>1. guard'[g] = NextAttempt(guard[g])
      BY <1>1, GuardGroupAssumption DEF CycleBegins, Engines
    <3> QED BY <2>1, <2>2, <3>1 DEF NextAttempt, Fit, GuardRecord
  <2>3. CASE x # g
    <3>1. guard'[x] \in {guard[x],
                         OnPartnerRepairStart(x, guard[x], g, health[x])}
      BY <1>1, <2>3 DEF CycleBegins
    <3> QED BY <2>1, <3>1, OffDoesNotFollow
  <2> QED BY <2>2, <2>3
<1>2. CASE ~CycleBegins(g)
  <2>1. PICK r : CycleStep(g, r) /\ OwnCycle(guard[g], r)
    BY <1>2, CycleStepOwn
  <2> SUFFICES ASSUME NEW x \in Guards
               PROVE  guard'[x].leader \in {guard[x].leader, NoGuard}
    BY DEF OffFollowsNobodyNew, FollowsNobodyNew, L
  <2>2. CASE x = g
    BY <2>1, <2>2 DEF CycleStep, OwnCycle
  <2>3. CASE x # g
    <3>1. \/ guard'[x] = guard[x]
          \/ guard'[x] = OnPartnerRepairDone(guard[x], g, r.state = "COOLDOWN")
      BY <2>1, <2>3 DEF CycleStep
    <3>2. Fit(x, guard[x])
      BY ConsistentFits
    <3> QED BY <3>1, <3>2 DEF OnPartnerRepairDone, Fit, GuardRecord
  <2> QED BY <2>2, <2>3
<1> QED BY <1>1, <1>2

LEMMA NextOff ==
  ASSUME Consistent, [Next]_vars
  PROVE  /\ OffFollowsNobodyNew
         /\ \A x \in Guards :
              ~guard[x].auto /\ ~Busy(guard[x]) /\ InCycle(x)' => x \in byHand'
<1> DEFINE OffStartsByPress ==
             \A x \in Guards : ~guard[x].auto /\ ~Busy(guard[x]) /\ InCycle(x)'
                                 => x \in byHand'
<1>1. ASSUME NoNewCycle PROVE OffStartsByPress
  BY <1>1 DEF NoNewCycle, InCycle, Busy, CyclePoints
<1>2. CASE UNCHANGED vars
  BY <1>2 DEF vars, OffFollowsNobodyNew, FollowsNobodyNew, L, InCycle, Busy,
     CyclePoints
<1>3. ASSUME NEW g \in Guards,
             Environment(g) \/ CooldownDone(g) \/ SnoozeDone(g) \/ SetAuto(g)
             \/ ResetGuard(g) \/ UnsnoozeGuard(g)
      PROVE  OffFollowsNobodyNew /\ OffStartsByPress
  BY <1>1, <1>3, OtherStepsQuiet, EnvironmentTurn, ServiceTurn,
     QuietTurnFollows
<1>4. ASSUME NEW g \in Guards, SnoozeGuard(g)
      PROVE  OffFollowsNobodyNew /\ OffStartsByPress
  <2>1. Snooze(guard[g]).leader = NoGuard /\ Update(g, Snooze(guard[g]))
    BY <1>4, ConsistentFits
       DEF SnoozeGuard, OnlyUpdate, Snooze, Fit, GuardRecord
  <2> QED BY <1>1, <1>4, <2>1, OtherStepsQuiet, OneGuardFollows
<1>5. ASSUME NEW g \in Guards, ManualRecover(g)
      PROVE  OffFollowsNobodyNew /\ OffStartsByPress
  <2> DEFINE r == StartCycle(ClearSnooze([guard[g] EXCEPT !.attempt = 0]))
  <2>1. Fit(g, guard[g]) /\ Update(g, r) /\ byHand' = byHand \cup {g}
    BY <1>5, ConsistentFits DEF ManualRecover
  <2>2. r.leader = guard[g].leader
    BY <2>1 DEF StartCycle, ClearSnooze, CancelTimer, Fit, GuardRecord
  <2>3. OffFollowsNobodyNew
    BY <2>1, <2>2, OneGuardFollows
  <2>4. \A x \in Guards : x # g => guard'[x] = guard[x]
    BY <2>1 DEF Update, Consistent, TypeOK
  <2>5. OffStartsByPress
    BY <2>1, <2>4 DEF InCycle, Busy, CyclePoints
  <2> QED BY <2>3, <2>5
<1>6. ASSUME NEW g \in Guards, Cycle(g)
      PROVE  OffFollowsNobodyNew /\ OffStartsByPress
  BY <1>1, <1>6, OtherStepsQuiet, CycleOff
<1>7. ASSUME NEW g \in Guards, Validation(g)
      PROVE  OffFollowsNobodyNew /\ OffStartsByPress
  <2>1. PICK q : OwnCheck(g, q)
    BY <1>7, ValidationOwn
  <2> QED
    BY <1>1, <1>7, <2>1, OtherStepsQuiet, OneGuardFollows
       DEF OwnCheck, OnlyUpdate
<1>8. ASSUME NEW g \in Guards, DebounceDone(g)
      PROVE  OffFollowsNobodyNew /\ OffStartsByPress
  BY <1>8, DebounceOff
<1> QED
  BY <1>2, <1>3, <1>4, <1>5, <1>6, <1>7, <1>8 DEF Next, Timer, Operator

(* Auto off means off: with the switch off a guard starts a repair only    *)
(* when the recover button is pressed, and holds for no partner's repair   *)
(* it was not holding for already - for any number of guards and links,    *)
(* whatever fires while the switch is thrown.                              *)
THEOREM AutoOffStaysOff == Spec => AutoOffIsOff
<1>1. Consistent /\ [Next]_vars =>
        [\A g \in Guards :
           ~guard[g].auto =>
             /\ ~Busy(guard[g]) /\ guard'[g].task \in CyclePoints => g \in byHand'
             /\ Following(guard'[g]) => Following(guard[g])]_vars
  BY NextOff DEF OffFollowsNobodyNew, FollowsNobodyNew, L, InCycle, Following
<1> QED BY <1>1, ConsistentAlways, PTL DEF Spec, AutoOffIsOff
=============================================================================
