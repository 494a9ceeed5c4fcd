------------------------- MODULE EntryLifecycleProofs -------------------------
(***************************************************************************)
(* What unloads, crashes and restarts do to any set of guards, whatever    *)
(* the links, the snooze lengths and the clock: the engines come back      *)
(* consistent, and the verdicts in the file are those that were reached.   *)
(***************************************************************************)
EXTENDS EntryLifecycle, GuardHealthProofs

Phases == {"down", "up", "flushed", "stuck"}

EntryTypes ==
  /\ phase \in Phases
  /\ loaded \subseteq Guards
  /\ now \in Nat \ {0}
  /\ until \in [Guards -> 0 .. Horizon]
  /\ file \in Records
  /\ late \in Records \cup {NoWrite}
  /\ pending \in BOOLEAN /\ overtaken \in BOOLEAN
  /\ condemned \subseteq Guards

(* The inductive invariant behind BootIsConsistent: nothing is loaded      *)
(* while the entry is down, a snooze has a deadline, and the idle guards   *)
(* that are loaded tell their health.                                      *)
Settled ==
  /\ Consistent /\ LeadersAtWork
  /\ EntryTypes
  /\ phase = "down" => loaded = {}
  /\ \A g \in Guards : guard[g].snoozed <=> until[g] # 0
  /\ \A g \in loaded \ TemplateHealth : IdleFits(guard[g], health[g])

-----------------------------------------------------------------------------
(* Records and engines *)

LEMMA NewEngineFits ==
  ASSUME NEW g \in Guards, NEW on \in BOOLEAN
  PROVE  LET n == NewGuard(on)
         IN  /\ Fit(g, n) /\ ~n.snoozed /\ n.state = "OK"
             /\ n.leader = NoGuard /\ n.auto = on
<1>1. 0 \in 0 .. AttemptCap
  BY DeviceEngineAssumption
<1> QED
  BY <1>1 DEF NewGuard, Fit, GuardRecord, TimerFits, WorkFits, Abandoned, Busy,
     Following, GState, Health, Timers, Points

LEMMA NoEngineFits ==
  ASSUME NEW g \in Guards
  PROVE  /\ Fit(g, NoEngine(g)) /\ ~NoEngine(g).snoozed
         /\ NoEngine(g).state = "OK" /\ NoEngine(g).leader = NoGuard
<1> DEFINE n == NewGuard(g \in AutoConfigured)
<1>1. (g \in AutoConfigured) \in BOOLEAN
  OBVIOUS
<1>2. Fit(g, n) /\ ~n.snoozed /\ n.state = "OK" /\ n.leader = NoGuard
  BY <1>1, NewEngineFits
<1>3. NoEngine(g) = [n EXCEPT !.live = FALSE]
  BY DEF NoEngine
<1> HIDE DEF n
<1> QED
  BY <1>2, <1>3 DEF Fit, GuardRecord, TimerFits, WorkFits, Abandoned, Busy,
     Following

LEMMA SnapshotIs ==
  ASSUME NEW r \in GuardRecord, NEW d \in 0 .. Horizon
  PROVE  LET snap == Snapshot(r, d)
         IN  /\ snap \in Record /\ snap # NoRecord
             /\ snap.auto = r.auto /\ snap.until = d
             /\ snap.state = "ESCALATED" <=> r.state = "ESCALATED"
             /\ r.state = "ESCALATED" => snap.attempt = r.attempt
             /\ snap.state = "SNOOZED" <=> r.state = "SNOOZED"
<1>1. 0 \in 0 .. AttemptCap
  BY DeviceEngineAssumption
<1>2. Snapshot(r, d) \in Record
  BY <1>1 DEF Snapshot, Record, GuardRecord
<1> QED BY <1>2, NothingStoredAssumption DEF Snapshot

(* A write holds a record for every engine, and none for the other guards. *)
LEMMA SerializedIs ==
  ASSUME EntryTypes, NEW e, \A g \in Guards : e[g] \in GuardRecord
  PROVE  /\ SerializedOf(e) \in Records /\ SerializedOf(e) # NoWrite
         /\ \A g \in loaded : SerializedOf(e)[g] = Snapshot(e[g], until[g])
         /\ \A g \in Guards \ loaded : SerializedOf(e)[g] = NoRecord
         /\ \A g \in Guards : Escalated(SerializedOf(e)[g])
                               <=> g \in loaded /\ e[g].state = "ESCALATED"
<1>1. ASSUME NEW g \in Guards
      PROVE  /\ Snapshot(e[g], until[g]) \in Record
             /\ Snapshot(e[g], until[g]) # NoRecord
             /\ Snapshot(e[g], until[g]).state = "ESCALATED"
                  <=> e[g].state = "ESCALATED"
  BY SnapshotIs DEF EntryTypes
<1>2. \A g \in Guards : SerializedOf(e)[g] =
        IF g \in loaded THEN Snapshot(e[g], until[g]) ELSE NoRecord
  BY DEF SerializedOf
<1>3. SerializedOf(e) \in Records
  BY <1>1 DEF SerializedOf, Records
<1> QED
  BY <1>1, <1>2, <1>3, NothingStoredAssumption DEF Escalated, EntryTypes

LEMMA RecordsNow ==
  ASSUME Settled
  PROVE  \A g \in Guards : guard[g] \in GuardRecord
BY DEF Settled, Consistent, TypeOK

(* The engine that a record brings back, about to be evaluated, is         *)
(* consistent: escalated with its attempts, snoozed until a deadline that  *)
(* lies ahead, or afresh.                                                  *)
LEMMA BootedIs ==
  ASSUME NEW g \in Guards, NEW rec \in Record, rec # NoRecord, now \in Nat
  PROVE  /\ Fit(g, Booted(g, rec))
         /\ Booted(g, rec).auto = rec.auto
         /\ Booted(g, rec).snoozed <=> rec.state = "SNOOZED" /\ rec.until > now
         /\ Booted(g, rec).state = "ESCALATED" <=> rec.state = "ESCALATED"
         /\ rec.state = "ESCALATED" => Booted(g, rec).attempt = rec.attempt
         /\ Booted(g, rec).leader = NoGuard
<1> DEFINE new == NewGuard(rec.auto)
           asleep == [new EXCEPT !.state = "SNOOZED", !.snoozed = TRUE]
<1>0. /\ rec.until \in Nat /\ Deadline(rec) = rec.until
      /\ rec.auto \in BOOLEAN /\ rec.attempt \in 0 .. AttemptCap
  BY EntryLifecycleAssumption DEF Record, Deadline
<1>1. /\ Fit(g, new) /\ ~new.snoozed /\ new.auto = rec.auto
      /\ new.state = "OK" /\ new.leader = NoGuard
  BY <1>0, NewEngineFits
<1> HIDE DEF new
<1>2. CASE rec.state = "ESCALATED"
  <2>1. Restored(g, rec) = [new EXCEPT !.state = "ESCALATED",
                                       !.attempt = rec.attempt]
    BY <1>2 DEF Restored, new
  <2>2. ~Restored(g, rec).snoozed
    BY <1>1, <2>1 DEF Fit, GuardRecord
  <2>3. Booted(g, rec) = Restored(g, rec)
    BY <2>2 DEF Booted, Rearmed
  <2> DEFINE b == Booted(g, rec)
  <2>0. b = [new EXCEPT !.state = "ESCALATED", !.attempt = rec.attempt]
        /\ new \in GuardRecord
    BY <1>1, <2>1, <2>3 DEF Fit
  <2> HIDE DEF b
  <2>4. /\ b.state = "ESCALATED" /\ b.attempt = rec.attempt
        /\ b.auto = rec.auto /\ ~b.snoozed /\ b \in GuardRecord
        /\ b.timer = new.timer /\ b.task = new.task /\ b.event = new.event
        /\ b.leader = new.leader /\ b.astray = new.astray
    BY <1>0, <1>1, <2>0 DEF GuardRecord, GState
  <2>5. Fit(g, b)
    BY <1>1, <2>4 DEF Fit, TimerFits, WorkFits, Abandoned, Busy, Following
  <2> QED BY <1>1, <1>2, <2>4, <2>5 DEF b
<1>3. CASE rec.state = "SNOOZED"
  <2>1. Restored(g, rec) = asleep /\ asleep.snoozed
    BY <1>1, <1>3 DEF Restored, new, Fit, GuardRecord
  <2>2. CASE rec.until > now
    <3>1. Booted(g, rec) = [asleep EXCEPT !.timer = "snooze"]
      BY <1>0, <2>1, <2>2 DEF Booted, Rearmed
    <3> QED
      BY <1>1, <1>3, <2>2, <3>1 DEF Fit, GuardRecord, TimerFits, WorkFits,
         Abandoned,
         Busy, Following, GState, Timers
  <2>3. CASE ~(rec.until > now)
    <3>1. Booted(g, rec) = [asleep EXCEPT !.snoozed = FALSE, !.state = "OK"]
      BY <1>0, <2>1, <2>3 DEF Booted, Rearmed
    <3> QED
      BY <1>1, <1>3, <2>3, <3>1 DEF Fit, GuardRecord, TimerFits, WorkFits,
         Abandoned,
         Busy, Following, GState, Timers
  <2> QED BY <2>2, <2>3
<1>4. CASE rec.state \notin {"ESCALATED", "SNOOZED"}
  <2>1. Restored(g, rec) = new
    BY <1>4 DEF Restored, new
  <2>2. Booted(g, rec) = new
    BY <1>1, <2>1 DEF Booted, Rearmed
  <2> QED BY <1>1, <1>4, <2>2
<1> QED BY <1>2, <1>3, <1>4

LEMMA BootedNew ==
  ASSUME NEW g \in Guards
  PROVE  LET n == Booted(g, NoRecord)
         IN  /\ Fit(g, n) /\ ~n.snoozed /\ n.state = "OK"
             /\ n.leader = NoGuard /\ n.auto = (g \in AutoConfigured)
<1> DEFINE n == NewGuard(g \in AutoConfigured)
<1>1. (g \in AutoConfigured) \in BOOLEAN
  OBVIOUS
<1>2. /\ Fit(g, n) /\ ~n.snoozed /\ n.state = "OK" /\ n.leader = NoGuard
      /\ n.auto = (g \in AutoConfigured)
  BY <1>1, NewEngineFits
<1>3. Restored(g, NoRecord) = n
  BY DEF Restored
<1> HIDE DEF n
<1>4. Booted(g, NoRecord) = n
  BY <1>2, <1>3 DEF Booted, Rearmed
<1> QED BY <1>2, <1>4

LEMMA EvaluateKeepsAuto ==
  ASSUME NEW g \in Guards, NEW r, NEW h \in Health, Fit(g, r)
  PROVE  /\ Evaluate(r, h).auto = r.auto
         /\ r.state = "ESCALATED" /\ h # "OK"
              => Evaluate(r, h).state = "ESCALATED"
BY DEF Evaluate, WakeVerify, SteadyEdge, CancelTimer, EnterSuspect, Fit,
   GuardRecord, Health

(* An engine that is evaluated as it starts. *)
LEMMA StartedIs ==
  ASSUME NEW g \in Guards, NEW b, NEW h \in Health, Fit(g, b)
  PROVE  LET q == Evaluate(Told(b, h), h)
         IN  /\ Fit(g, q) /\ IdleFits(q, h)
             /\ q.snoozed = b.snoozed /\ q.auto = b.auto
             /\ q.leader = b.leader
             /\ b.state = "ESCALATED" /\ h # "OK" => q.state = "ESCALATED"
             /\ q.state = "ESCALATED" =>
                  b.state = "ESCALATED" /\ q.attempt = b.attempt
<1> DEFINE t == Told(b, h)
           q == Evaluate(t, h)
<1>1. Fit(g, t) /\ t.auto = b.auto /\ t.state = b.state
  BY ToldFits
<1>2. /\ IdleFits(q, h) /\ q.snoozed = b.snoozed
      /\ q.state = "ESCALATED" =>
           b.state = "ESCALATED" /\ q.attempt = b.attempt
  BY ToldSettles
<1>3. q.leader = b.leader
  BY ToldKeepsLeader DEF KeepsLead
<1> HIDE DEF t
<1>4. /\ Fit(g, q) /\ q.auto = t.auto
      /\ t.state = "ESCALATED" /\ h # "OK" => q.state = "ESCALATED"
  BY <1>1, EvaluateFits, EvaluateKeepsAuto
<1> HIDE DEF q
<1>5. /\ Fit(g, q) /\ IdleFits(q, h)
      /\ q.snoozed = b.snoozed /\ q.auto = b.auto
      /\ q.leader = b.leader
      /\ b.state = "ESCALATED" /\ h # "OK" => q.state = "ESCALATED"
      /\ q.state = "ESCALATED" =>
           b.state = "ESCALATED" /\ q.attempt = b.attempt
  BY <1>1, <1>2, <1>3, <1>4
<1> QED BY <1>5 DEF q, t

-----------------------------------------------------------------------------
(* Steps of the running guards *)

LEMMA GuardStepIs ==
  ASSUME NEW g \in Guards, GuardSteps(g) \/ OperatorSteps(g)
  PROVE  /\ AwakeStep(g) /\ Next /\ g \in loaded /\ Running
         /\ ClearDeadlines
         /\ \E acted : Stepped(acted)
BY DEF GuardSteps, OperatorSteps, Stepped, AwakeStep, Next, Timer, Operator

(* The deadlines follow the snoozes, as long as nobody falls asleep. *)
LEMMA ClearDeadlinesFit ==
  ASSUME Settled, ClearDeadlines,
         \A x \in Guards : guard'[x].snoozed => guard[x].snoozed
  PROVE  /\ until' \in [Guards -> 0 .. Horizon]
         /\ \A x \in Guards : guard'[x].snoozed <=> until'[x] # 0
<1>1. 0 \in 0 .. Horizon /\ until \in [Guards -> 0 .. Horizon]
  BY EntryLifecycleAssumption DEF Settled, EntryTypes
<1>2. ASSUME NEW x \in Guards
      PROVE  /\ until'[x] = IF guard'[x].snoozed THEN until[x] ELSE 0
             /\ guard[x].snoozed <=> until[x] # 0
  BY DEF Settled, ClearDeadlines
<1> QED BY <1>1, <1>2 DEF ClearDeadlines

LEMMA SteppedTypes ==
  ASSUME EntryTypes, NEW acted, Stepped(acted)
  PROVE  /\ phase' = phase /\ loaded' = loaded /\ now' = now /\ file' = file
         /\ late' = late /\ overtaken' = overtaken /\ Running
         /\ pending' \in BOOLEAN /\ condemned' \subseteq condemned
BY DEF EntryTypes, Stepped, Saves

LEMMA GuardStepsSettled ==
  ASSUME Settled, NEW g \in Guards, GuardSteps(g) \/ OperatorSteps(g)
  PROVE  Settled' /\ Tame
<1>1. Consistent' /\ LeadersAtWork'
  BY GuardStepIs, NextConsistent, NextKeepsWork DEF Settled
<1>2. Tame
  BY <1>1, GuardStepIs, TameStep DEF Settled
<1>3. /\ until' \in [Guards -> 0 .. Horizon]
      /\ \A x \in Guards : guard'[x].snoozed <=> until'[x] # 0
  BY <1>2, GuardStepIs, ClearDeadlinesFit DEF Tame
<1>4. EntryTypes'
  BY <1>3, GuardStepIs, SteppedTypes DEF Settled, EntryTypes
<1>5. \A x \in (loaded \ TemplateHealth)' : IdleFits(guard[x], health[x])'
  BY <1>2, GuardStepIs, SteppedTypes DEF Settled, Tame, EntryTypes
<1>6. (phase = "down" => loaded = {})'
  BY GuardStepIs, SteppedTypes DEF Settled
<1> QED BY <1>1, <1>2, <1>3, <1>4, <1>5, <1>6 DEF Settled

(* A deadline that is set lies between now and the end of the clock. *)
LEMMA NewDeadline ==
  ASSUME EntryTypes, NEW d \in Durations, now + d <= Horizon
  PROVE  now + d \in 0 .. Horizon /\ now + d # 0
BY EntryLifecycleAssumption DEF EntryTypes

LEMMA SnoozeForSettled ==
  ASSUME Settled, NEW g \in Guards, SnoozeFor(g)
  PROVE  Settled'
<1>1. /\ SnoozeGuard(g) /\ Stepped({g}) /\ Next
  BY DEF SnoozeFor, Next, Operator
<1>2. Consistent' /\ LeadersAtWork'
  BY <1>1, NextConsistent, NextKeepsWork DEF Settled
<1>3. /\ health' = health
      /\ \A x \in Guards : guard'[x] = IF x = g THEN Snooze(guard[g])
                                       ELSE guard[x]
      /\ \A x \in Guards : guard[x] \in GuardRecord
  BY <1>1 DEF SnoozeGuard, OnlyUpdate, Update, Settled, Consistent, TypeOK
<1>4. PICK d \in Durations : /\ now + d <= Horizon
                             /\ until' = [until EXCEPT ![g] = now + d]
  BY DEF SnoozeFor
<1>5. /\ until' \in [Guards -> 0 .. Horizon]
      /\ \A x \in Guards : until'[x] = IF x = g THEN now + d ELSE until[x]
      /\ now + d # 0
  BY <1>4, NewDeadline DEF Settled, EntryTypes
<1>6. \A x \in Guards : guard'[x].snoozed <=> until'[x] # 0
  BY <1>3, <1>5, SnoozeTellsHealth DEF Settled
<1>7. EntryTypes'
  BY <1>1, <1>5, SteppedTypes DEF Settled, EntryTypes
<1>8. \A x \in (loaded \ TemplateHealth)' : IdleFits(guard[x], health[x])'
  BY <1>1, <1>3, SteppedTypes, SnoozeTellsHealth DEF Settled, EntryTypes
<1>9. (phase = "down" => loaded = {})'
  BY <1>1, SteppedTypes DEF Settled
<1> QED BY <1>2, <1>6, <1>7, <1>8, <1>9 DEF Settled

LEMMA SnoozeAllSettled ==
  ASSUME Settled, SnoozeAll
  PROVE  Settled'
<1> DEFINE hit(x) == x \in loaded /\ ~Busy(guard[x])
           f == [x \in Guards |-> IF hit(x) THEN Snooze(guard[x]) ELSE guard[x]]
<1>1. /\ guard' = [x \in Guards |-> f[x]]
      /\ health' = health /\ byHand' = byHand /\ Stepped(loaded)
      /\ \A x \in Guards : f[x] = IF hit(x) THEN Snooze(guard[x]) ELSE guard[x]
  BY DEF SnoozeAll
<1>2. \A x \in Guards : guard'[x] = f[x] /\ guard[x] \in GuardRecord
  BY <1>1 DEF Settled, Consistent, TypeOK
<1>3. \A x \in Guards : Fit(x, f[x])
  BY <1>1, SnoozeFits, ConsistentFits DEF Settled
<1>4. PICK d \in Durations :
        /\ now + d <= Horizon
        /\ until' = [x \in Guards |-> IF hit(x) THEN now + d ELSE until[x]]
  BY DEF SnoozeAll
<1> HIDE DEF f
<1>5. Consistent'
  BY <1>1, <1>3, FitsConsistent DEF Settled, Consistent, TypeOK
<1>6. now + d \in 0 .. Horizon /\ now + d # 0
  BY <1>4, NewDeadline DEF Settled
<1>7. until' \in [Guards -> 0 .. Horizon]
  BY <1>4, <1>6 DEF Settled, EntryTypes
<1>8. ASSUME NEW x \in Guards PROVE guard'[x].snoozed <=> until'[x] # 0
  BY <1>1, <1>2, <1>4, <1>6, SnoozeTellsHealth DEF Settled
<1>9. EntryTypes'
  BY <1>1, <1>7, SteppedTypes DEF Settled, EntryTypes
<1>10. \A x \in (loaded \ TemplateHealth)' : IdleFits(guard[x], health[x])'
  BY <1>1, <1>2, SteppedTypes, SnoozeTellsHealth DEF Settled, EntryTypes
<1>11. (phase = "down" => loaded = {})'
  BY <1>1, SteppedTypes DEF Settled
<1>12. LeadersAtWork'
  <2>1. EndsNoCycle
    BY <1>1, <1>2 DEF EndsNoCycle, InCycle, Busy, CyclePoints
  <2>2. ASSUME NEW x \in Guards PROVE FollowsOn(x)
    <3>1. Snooze(guard[x]).leader = NoGuard
      BY <1>2 DEF Snooze, GuardRecord
    <3> QED BY <1>1, <1>2, <3>1 DEF FollowsOn, KeepsLead
  <2> QED BY <2>1, <2>2, FollowersStay DEF Settled
<1> QED BY <1>5, <1>8, <1>9, <1>10, <1>11, <1>12 DEF Settled

LEMMA UnsnoozeAllSettled ==
  ASSUME Settled, UnsnoozeAll
  PROVE  Settled' /\ Tame
<1> DEFINE f == [x \in Guards |-> IF guard[x].snoozed
                                    THEN Resume(guard[x], health[x])
                                    ELSE guard[x]]
<1>1. /\ guard' = [x \in Guards |-> f[x]]
      /\ health' = health /\ byHand' = byHand /\ Stepped({}) /\ ClearDeadlines
      /\ \A x \in Guards : f[x] = IF guard[x].snoozed
                                    THEN Resume(guard[x], health[x])
                                    ELSE guard[x]
  BY DEF UnsnoozeAll
<1>2. \A x \in Guards : /\ guard'[x] = f[x] /\ health[x] \in Health
                        /\ Fit(x, guard[x])
  BY <1>1, ConsistentFits DEF Settled, Consistent, TypeOK
<1> HIDE DEF f
<1>3. \A x \in Guards : Fit(x, f[x])
  BY <1>1, <1>2, ResumeFits
<1>4. \A x \in Guards : Calm(guard[x], f[x], health[x])
  BY <1>1, <1>2, ResetResumeCalm DEF Calm
<1>5. Tame
  BY <1>1, <1>2, <1>4 DEF Tame, Calm
<1>6. Consistent'
  BY <1>1, <1>3, FitsConsistent DEF Settled, Consistent, TypeOK
<1>7. /\ until' \in [Guards -> 0 .. Horizon]
      /\ \A x \in Guards : guard'[x].snoozed <=> until'[x] # 0
  BY <1>1, <1>5, ClearDeadlinesFit DEF Tame
<1>8. EntryTypes'
  BY <1>1, <1>7, SteppedTypes DEF Settled, EntryTypes
<1>9. \A x \in (loaded \ TemplateHealth)' : IdleFits(guard[x], health[x])'
  BY <1>1, <1>5, SteppedTypes DEF Settled, Tame, EntryTypes
<1>10. (phase = "down" => loaded = {})'
  BY <1>1, SteppedTypes DEF Settled
<1>11. LeadersAtWork'
  <2>1. \A x \in Guards : /\ guard'[x].task = guard[x].task
                          /\ KeepsLead(guard[x], guard'[x])
    BY <1>1, <1>2, ResetResumeKeepTask, ResetResumeKeepLeader DEF KeepsLead
  <2>2. EndsNoCycle /\ \A x \in Guards : FollowsOn(x)
    BY <2>1 DEF EndsNoCycle, InCycle, FollowsOn
  <2> QED BY <2>2, FollowersStay DEF Settled
<1> QED BY <1>5, <1>6, <1>7, <1>8, <1>9, <1>10, <1>11 DEF Settled

-----------------------------------------------------------------------------
(* The Store, unload, stop and set-up *)

LEMMA StoreStepSettled ==
  ASSUME Settled, DelayedWrite \/ LateWrite \/ Flush \/ UnloadFails
  PROVE  Settled'
<1>1. /\ guard' = guard /\ health' = health /\ byHand' = byHand
      /\ until' = until /\ loaded' = loaded /\ now' = now
  BY DEF DelayedWrite, LateWrite, Flush, UnloadFails, GuardsAlone
<1>2. Serialized \in Records
  BY SerializedIs, RecordsNow DEF Settled, Serialized
<1>3. /\ phase' \in Phases /\ (phase' = "down" => phase = "down")
      /\ file' \in Records /\ late' \in Records \cup {NoWrite}
      /\ pending' \in BOOLEAN /\ overtaken' \in BOOLEAN
      /\ condemned' \subseteq Guards
  BY <1>2 DEF DelayedWrite, LateWrite, Flush, UnloadFails, Settled, EntryTypes,
     Phases, Running, Condemned
<1>4. EntryTypes'
  BY <1>1, <1>3 DEF Settled, EntryTypes
<1>5. Consistent' /\ LeadersAtWork'
  BY <1>1 DEF Settled, Consistent, TypeOK, TimerMatchesState, StateFitsWork,
     LeadersAtWork
<1> QED BY <1>1, <1>3, <1>4, <1>5 DEF Settled

(* What a stopped engine is written as: its state is what it was.          *)
LEMMA StoppedIs ==
  ASSUME NEW g \in Guards, NEW r, Fit(g, r)
  PROVE  /\ Stopped(r) \in GuardRecord
         /\ Stopped(r).state = r.state /\ Stopped(r).auto = r.auto
BY DEF Stopped, EndTask, CancelTimer, Fit, GuardRecord, Timers, Points

LEMMA StoppedSerialized ==
  ASSUME Settled
  PROVE  LET late1 == SerializedOf([g \in Guards |-> Stopped(guard[g])])
         IN  /\ late1 \in Records /\ late1 # NoWrite
             /\ \A g \in Guards : Escalated(late1[g])
                   <=> g \in loaded /\ guard[g].state = "ESCALATED"
<1> DEFINE e == [g \in Guards |-> Stopped(guard[g])]
<1>1. \A g \in Guards : e[g] = Stopped(guard[g])
  OBVIOUS
<1>2. \A g \in Guards : e[g] \in GuardRecord /\ e[g].state = guard[g].state
  BY <1>1, ConsistentFits, StoppedIs DEF Settled
<1> HIDE DEF e
<1>3. /\ SerializedOf(e) \in Records /\ SerializedOf(e) # NoWrite
      /\ \A g \in Guards : Escalated(SerializedOf(e)[g])
                            <=> g \in loaded /\ e[g].state = "ESCALATED"
  BY <1>2, SerializedIs DEF Settled
<1> QED BY <1>2, <1>3 DEF e

LEMMA TeardownSettled ==
  ASSUME Settled, Stop \/ Crash \/ Shutdown
  PROVE  Settled'
<1>1. /\ Teardown
      /\ guard' = [g \in Guards |-> NoEngine(g)]
      /\ phase' = "down" /\ byHand' = {} /\ loaded' = {} /\ pending' = FALSE
      /\ until' = [g \in Guards |-> 0] /\ health' = health /\ now' = now
  BY DEF Stop, Crash, Shutdown, Teardown
<1>2. /\ Serialized \in Records
      /\ SerializedOf([g \in Guards |-> Stopped(guard[g])]) \in Records
  BY SerializedIs, RecordsNow, StoppedSerialized DEF Settled, Serialized
<1>3. /\ file' \in Records /\ late' \in Records \cup {NoWrite}
      /\ overtaken' \in BOOLEAN /\ condemned' \subseteq Guards
  <2>1. CASE Stop
    BY <1>2, <2>1 DEF Stop, Settled, EntryTypes
  <2>2. CASE Crash \/ Shutdown
    BY <1>2, <2>2 DEF Crash, Shutdown, Settled, EntryTypes, Condemned
  <2> QED BY <2>1, <2>2
<1>4. 0 \in 0 .. Horizon
  BY EntryLifecycleAssumption
<1>5. EntryTypes'
  BY <1>1, <1>3, <1>4 DEF Settled, EntryTypes, Phases
<1>6. Consistent'
  <2> DEFINE f == [g \in Guards |-> NoEngine(g)]
  <2>1. guard' = [x \in Guards |-> f[x]] /\ \A x \in Guards : f[x] = NoEngine(x)
    BY <1>1
  <2>2. \A x \in Guards : Fit(x, f[x])
    BY <2>1, NoEngineFits
  <2> HIDE DEF f
  <2> QED BY <1>1, <2>1, <2>2, FitsConsistent DEF Settled, Consistent, TypeOK
<1>7. \A g \in Guards : guard'[g].snoozed <=> until'[g] # 0
  BY <1>1, NoEngineFits
<1>8. LeadersAtWork'
  BY <1>1, NoEngineFits DEF LeadersAtWork, Following
<1> QED BY <1>1, <1>5, <1>6, <1>7, <1>8 DEF Settled

LEMMA StartSettled ==
  ASSUME Settled, Start
  PROVE  Settled'
<1> DEFINE settledTo(g) == Evaluate(Told(Booted(g, file[g]), health[g]), health[g])
<1>1. PICK failing \in SUBSET Fallible :
        /\ loaded' = Guards \ failing
        /\ guard' = [g \in Guards |-> IF g \in failing THEN NoEngine(g)
                                      ELSE settledTo(g)]
        /\ condemned' \subseteq condemned
        /\ pending' \in BOOLEAN
  BY DEF Start
<1>2. /\ phase' = "up" /\ health' = health /\ byHand' = byHand /\ now' = now
      /\ file' = file /\ late' = late /\ overtaken' = FALSE
      /\ until' = [g \in Guards |-> IF guard'[g].snoozed THEN Deadline(file[g])
                                    ELSE 0]
  BY DEF Start
<1>3. ASSUME NEW g \in Guards
      PROVE  /\ file[g] \in Record \cup {NoRecord} /\ health[g] \in Health
             /\ Fit(g, Booted(g, file[g]))
             /\ Booted(g, file[g]).snoozed => Deadline(file[g]) # 0
             /\ Booted(g, file[g]).leader = NoGuard
             /\ Deadline(file[g]) \in 0 .. Horizon
  <2>1. /\ file[g] \in Record \cup {NoRecord} /\ health[g] \in Health
        /\ now \in Nat \ {0}
    BY DEF Settled, EntryTypes, Records, Consistent, TypeOK
  <2>2. Deadline(file[g]) \in 0 .. Horizon
    BY <2>1, EntryLifecycleAssumption DEF Deadline, Record
  <2>3. CASE file[g] = NoRecord
    BY <2>1, <2>2, <2>3, BootedNew
  <2>4. CASE file[g] # NoRecord
    <3>1. file[g] \in Record /\ Deadline(file[g]) = file[g].until /\ now \in Nat
      BY <2>1, <2>4 DEF Deadline
    <3>2. Fit(g, Booted(g, file[g]))
          /\ (Booted(g, file[g]).snoozed => file[g].until > now)
          /\ Booted(g, file[g]).leader = NoGuard
      BY <2>4, <3>1, BootedIs
    <3> QED BY <2>1, <2>2, <3>1, <3>2
  <2> QED BY <2>3, <2>4
<1> HIDE DEF settledTo
<1>4. ASSUME NEW g \in Guards
      PROVE  /\ Fit(g, settledTo(g)) /\ IdleFits(settledTo(g), health[g])
             /\ settledTo(g).snoozed => Deadline(file[g]) # 0
             /\ settledTo(g).leader = NoGuard
  BY <1>3, StartedIs DEF settledTo
<1>5. ASSUME NEW g \in Guards
      PROVE  /\ guard'[g] = IF g \in failing THEN NoEngine(g) ELSE settledTo(g)
             /\ Fit(g, guard'[g])
             /\ guard'[g].snoozed => Deadline(file[g]) # 0
             /\ guard'[g].leader = NoGuard
  BY <1>1, <1>4, NoEngineFits
<1>6. Consistent'
  <2> DEFINE f == guard'
  <2>1. guard' = [x \in Guards |-> f[x]]
    BY <1>1
  <2>2. \A x \in Guards : Fit(x, f[x])
    BY <1>5
  <2>3. health' \in [Guards -> Health] /\ byHand' \subseteq Guards
    BY <1>2 DEF Settled, Consistent, TypeOK
  <2> HIDE DEF f
  <2> QED BY <2>1, <2>2, <2>3, FitsConsistent
<1>7. until' \in [Guards -> 0 .. Horizon]
  BY <1>2, <1>3, EntryLifecycleAssumption
<1>8. \A g \in Guards : guard'[g].snoozed <=> until'[g] # 0
  BY <1>2, <1>5
<1>9. EntryTypes'
  BY <1>1, <1>2, <1>7 DEF Settled, EntryTypes, Phases
<1>10. \A g \in (loaded \ TemplateHealth)' : IdleFits(guard[g], health[g])'
  BY <1>1, <1>2, <1>4, <1>5
<1>11. LeadersAtWork'
  BY <1>5 DEF LeadersAtWork, Following
<1> QED BY <1>2, <1>6, <1>8, <1>9, <1>10, <1>11 DEF Settled

LEMMA WorldSettled ==
  ASSUME Settled, Tick \/ (\E g \in Guards : DeviceChanges(g))
  PROVE  Settled'
<1>1. CASE Tick
  <2>1. now' \in Nat \ {0}
    BY <1>1 DEF Tick, Settled, EntryTypes
  <2>2. EntryTypes'
    BY <1>1, <2>1 DEF Tick, Settled, EntryTypes
  <2>3. Consistent' /\ LeadersAtWork'
    BY <1>1 DEF Tick, Settled, Consistent, TypeOK, TimerMatchesState,
       StateFitsWork, LeadersAtWork
  <2> QED BY <1>1, <2>2, <2>3 DEF Tick, Settled
<1>2. ASSUME NEW g \in Guards, DeviceChanges(g) PROVE Settled'
  <2>1. /\ health' \in [Guards -> Health] /\ phase = "down"
        /\ guard' = guard /\ byHand' = byHand /\ UNCHANGED entryVars
    BY <1>2 DEF DeviceChanges, Settled, Consistent, TypeOK
  <2>2. EntryTypes'
    BY <2>1 DEF entryVars, Settled, EntryTypes
  <2>3. Consistent' /\ LeadersAtWork'
    BY <2>1 DEF Settled, Consistent, TypeOK, TimerMatchesState,
       StateFitsWork, LeadersAtWork
  <2> QED BY <2>1, <2>2, <2>3 DEF entryVars, Settled
<1> QED BY <1>1, <1>2

LEMMA InitSettled == EntryInit => Settled
<1> SUFFICES ASSUME EntryInit PROVE Settled
  OBVIOUS
<1>1. /\ guard = [g \in Guards |-> NoEngine(g)] /\ health \in [Guards -> Health]
      /\ byHand = {}
  BY DEF EntryInit
<1>2. \A g \in Guards : /\ Fit(g, guard[g]) /\ ~guard[g].snoozed
                        /\ guard[g].leader = NoGuard
  BY <1>1, NoEngineFits
<1>3. Consistent /\ LeadersAtWork
  BY <1>1, <1>2 DEF Consistent, TypeOK, TimerMatchesState, StateFitsWork, Fit,
     LeadersAtWork, Following
<1>4. EntryTypes
  <2>1. 0 \in 0 .. Horizon
    BY EntryLifecycleAssumption
  <2>2. until \in [Guards -> 0 .. Horizon] /\ file \in Records
    BY <2>1 DEF EntryInit, Records
  <2>3. /\ phase \in Phases /\ loaded \subseteq Guards /\ now \in Nat \ {0}
        /\ late \in Records \cup {NoWrite} /\ condemned \subseteq Guards
        /\ pending = FALSE /\ overtaken = FALSE
    BY DEF EntryInit, Phases
  <2> QED BY <2>2, <2>3 DEF EntryTypes
<1> QED BY <1>2, <1>3, <1>4 DEF EntryInit, Settled

LEMMA NextSettled ==
  ASSUME Settled, [EntryNext]_allVars
  PROVE  Settled'
<1>1. CASE UNCHANGED allVars
  BY <1>1 DEF allVars, entryVars, Settled, EntryTypes, Consistent, TypeOK,
     TimerMatchesState, StateFitsWork, LeadersAtWork
<1>2. CASE EntryNext
  BY <1>2, GuardStepsSettled, SnoozeForSettled, SnoozeAllSettled,
     UnsnoozeAllSettled, StoreStepSettled, TeardownSettled, StartSettled,
     WorldSettled DEF EntryNext
<1> QED BY <1>1, <1>2

LEMMA SettledAlways == EntrySpec => []Settled
<1>1. Settled /\ [EntryNext]_allVars => Settled'
  BY NextSettled
<1> QED BY <1>1, InitSettled, PTL DEF EntrySpec

(* However the entry came up - after an unload, a crash or a shutdown,     *)
(* with whatever the file holds - its engines are consistent with their    *)
(* timers, tasks, deadlines and devices.                                   *)
THEOREM BootConsistent == EntrySpec => []BootIsConsistent
<1>1. Settled => BootIsConsistent
  BY DEF Settled, BootIsConsistent, Consistent, WorkMatchesState
<1> QED BY <1>1, SettledAlways, PTL

-----------------------------------------------------------------------------
(* The file and the running guards *)

(* What g's record says of g, now. *)
Matches(g) ==
  IF file[g] = NoRecord
    THEN /\ guard[g].auto = (g \in AutoConfigured)
         /\ guard[g].state \notin {"ESCALATED", "SNOOZED"}
    ELSE /\ guard[g].auto = file[g].auto
         /\ guard[g].state = "ESCALATED" <=> file[g].state = "ESCALATED"
         /\ guard[g].state = "ESCALATED" => guard[g].attempt = file[g].attempt
         /\ guard[g].state = "SNOOZED" => file[g].state = "SNOOZED"
         /\ file[g].state = "SNOOZED" /\ file[g].until > now
              => guard[g].state = "SNOOZED"

FileInSync ==
  Running /\ ~pending /\ ~overtaken => \A g \in loaded : Matches(g)

LEMMA MatchingBoots ==
  ASSUME Settled, NEW g \in Guards, Matches(g)
  PROVE  LET back == Booted(g, file[g])
         IN  /\ back.auto = guard[g].auto
             /\ back.state = "ESCALATED" <=> guard[g].state = "ESCALATED"
             /\ back.state = "ESCALATED" => back.attempt = guard[g].attempt
             /\ Escalated(file[g]) <=> guard[g].state = "ESCALATED"
             /\ guard[g].state = "SNOOZED" =>
                  file[g] # NoRecord /\ file[g].state = "SNOOZED"
             /\ back.state = "SNOOZED" <=>
                  guard[g].state = "SNOOZED" /\ Deadline(file[g]) > now
<1> DEFINE back == Booted(g, file[g])
<1>1. CASE file[g] = NoRecord
  <2>1. back.state = "OK" /\ back.auto = (g \in AutoConfigured)
    BY <1>1, BootedNew
  <2> HIDE DEF back
  <2>2. /\ back.auto = guard[g].auto
        /\ guard[g].state \notin {"ESCALATED", "SNOOZED"}
    BY <1>1, <2>1 DEF Matches
  <2> QED BY <1>1, <2>1, <2>2 DEF Escalated, back
<1>2. CASE file[g] # NoRecord
  <2>1. file[g] \in Record /\ now \in Nat /\ Deadline(file[g]) = file[g].until
    BY <1>2 DEF Settled, EntryTypes, Records, Deadline
  <2>2. /\ back.auto = file[g].auto
        /\ back.state = "SNOOZED" <=> file[g].state = "SNOOZED"
                                      /\ file[g].until > now
        /\ back.state = "ESCALATED" <=> file[g].state = "ESCALATED"
        /\ file[g].state = "ESCALATED" => back.attempt = file[g].attempt
    BY <1>2, <2>1, BootedIs DEF Fit, TimerFits
  <2> HIDE DEF back
  <2> QED BY <1>2, <2>1, <2>2 DEF Matches, Escalated, back
<1> QED BY <1>1, <1>2

(* A step that arms no write changes no state and no switch, nor the       *)
(* attempts of a guard that stays escalated.                               *)
LEMMA QuietStepInSync ==
  ASSUME Settled, Settled', FileInSync, NEW acted, Stepped(acted),
         \A x \in Guards : guard[x].state = "ESCALATED"
                           /\ guard'[x].state = "ESCALATED"
                             => guard'[x].attempt = guard[x].attempt
  PROVE  FileInSync'
<1> SUFFICES ASSUME ~pending', ~overtaken', NEW g \in loaded PROVE Matches(g)'
  BY SteppedTypes DEF FileInSync, Settled
<1>1. /\ file' = file /\ now' = now /\ g \in Guards /\ Running
      /\ ~pending /\ ~overtaken /\ ~Saves
  BY SteppedTypes DEF Stepped, Settled, EntryTypes
<1>2. guard'[g].state = guard[g].state /\ guard'[g].auto = guard[g].auto
  BY <1>1 DEF Saves
<1>3. Matches(g)
  BY <1>1 DEF FileInSync
<1> QED BY <1>1, <1>2, <1>3 DEF Matches

LEMMA SerializedMatches ==
  ASSUME Settled, NEW g \in loaded, file' = Serialized, guard' = guard,
         now' = now
  PROVE  Matches(g)'
<1> DEFINE snap == Snapshot(guard[g], until[g])
<1>1. g \in Guards /\ guard[g] \in GuardRecord /\ until[g] \in 0 .. Horizon
  BY RecordsNow DEF Settled, EntryTypes
<1>2. file'[g] = snap
  BY RecordsNow, SerializedIs DEF Settled, Serialized
<1>3. /\ snap # NoRecord /\ snap.auto = guard[g].auto
      /\ snap.state = "ESCALATED" <=> guard[g].state = "ESCALATED"
      /\ guard[g].state = "ESCALATED" => snap.attempt = guard[g].attempt
      /\ snap.state = "SNOOZED" <=> guard[g].state = "SNOOZED"
  BY <1>1, SnapshotIs
<1> HIDE DEF snap
<1> QED BY <1>1, <1>2, <1>3 DEF Matches

(* Set-up: an engine that is evaluated into the state its record gave it   *)
(* is what the record says.                                                *)
LEMMA StartMatches ==
  ASSUME Settled, NEW g \in Guards, NEW q,
         q = Evaluate(Told(Booted(g, file[g]), health[g]), health[g]),
         q.state = Booted(g, file[g]).state,
         guard'[g] = q, file' = file, now' = now
  PROVE  Matches(g)'
<1> DEFINE b == Booted(g, file[g])
<1>1. /\ file[g] \in Record \cup {NoRecord}
      /\ health[g] \in Health /\ now \in Nat
  BY DEF Settled, EntryTypes, Records, Consistent, TypeOK
<1>2. ASSUME Fit(g, b)
      PROVE  q.auto = b.auto /\ (q.state = "ESCALATED" => q.attempt = b.attempt)
  BY <1>1, <1>2, StartedIs
<1>3. CASE file[g] = NoRecord
  <2>1. Fit(g, b) /\ b.state = "OK" /\ b.auto = (g \in AutoConfigured)
    BY <1>3, BootedNew
  <2> HIDE DEF b
  <2>2. q.auto = (g \in AutoConfigured) /\ q.state = "OK"
    <3>1. q.state = b.state
      BY DEF b
    <3> QED BY <1>2, <2>1, <3>1
  <2> QED BY <1>3, <2>2 DEF Matches
<1>4. CASE file[g] # NoRecord
  <2>0. file[g] \in Record
    BY <1>1, <1>4
  <2>1. /\ Fit(g, b) /\ b.auto = file[g].auto
        /\ b.snoozed <=> file[g].state = "SNOOZED" /\ file[g].until > now
        /\ b.state = "ESCALATED" <=> file[g].state = "ESCALATED"
        /\ file[g].state = "ESCALATED" => b.attempt = file[g].attempt
    BY <1>1, <1>4, <2>0, BootedIs
  <2>2. q.state = b.state
    OBVIOUS
  <2> HIDE DEF b
  <2>3. b.snoozed <=> b.state = "SNOOZED"
    BY <2>1 DEF Fit, TimerFits
  <2> QED BY <1>2, <1>4, <2>1, <2>2, <2>3 DEF Matches
<1> QED BY <1>3, <1>4

LEMMA NextInSync ==
  ASSUME Settled, Settled', FileInSync, [EntryNext]_allVars
  PROVE  FileInSync'
<1>1. ASSUME NEW g \in Guards, GuardSteps(g) \/ OperatorSteps(g)
      PROVE  FileInSync'
  BY <1>1, GuardStepIs, GuardStepsSettled, QuietStepInSync DEF Tame
<1>2. ASSUME NEW g \in Guards, SnoozeFor(g) PROVE FileInSync'
  <2>1. /\ \A x \in Guards : guard'[x] = IF x = g THEN Snooze(guard[g])
                                         ELSE guard[x]
        /\ guard[g] \in GuardRecord /\ Stepped({g})
    BY <1>2 DEF SnoozeFor, SnoozeGuard, OnlyUpdate, Update, Settled,
       Consistent, TypeOK
  <2> QED BY <2>1, SnoozeTellsHealth, QuietStepInSync
<1>3. CASE SnoozeAll
  <2>1. /\ \A x \in Guards : guard'[x] \in {guard[x], Snooze(guard[x])}
        /\ \A x \in Guards : guard[x] \in GuardRecord
        /\ Stepped(loaded)
    BY <1>3 DEF SnoozeAll, Settled, Consistent, TypeOK
  <2>2. \A x \in Guards : Snooze(guard[x]).state = "SNOOZED"
    BY <2>1, SnoozeTellsHealth
  <2> QED BY <2>1, <2>2, QuietStepInSync
<1>4. CASE UnsnoozeAll
  <2>1. Tame /\ Stepped({})
    BY <1>4, UnsnoozeAllSettled DEF UnsnoozeAll
  <2> QED BY <2>1, QuietStepInSync DEF Tame
<1>5. CASE DelayedWrite \/ Flush
  <2>1. file' = Serialized /\ guard' = guard /\ now' = now /\ loaded' = loaded
    BY <1>5 DEF DelayedWrite, Flush, GuardsAlone
  <2> QED BY <2>1, SerializedMatches DEF FileInSync
<1>6. CASE LateWrite
  BY <1>6 DEF LateWrite, GuardsAlone, FileInSync, Running
<1>7. CASE UnloadFails
  BY <1>7 DEF UnloadFails, GuardsAlone, FileInSync, Running, Matches
<1>8. CASE Stop \/ Crash \/ Shutdown
  BY <1>8 DEF Stop, Crash, Shutdown, Teardown, FileInSync, Running
<1>9. CASE Start
  <2> DEFINE settledTo(g) == Evaluate(Told(Booted(g, file[g]), health[g]),
                                      health[g])
  <2>1. PICK failing \in SUBSET Fallible :
          /\ loaded' = Guards \ failing
          /\ \A g \in Guards \ failing : guard'[g] = settledTo(g)
          /\ pending' = \E g \in Guards \ failing :
                          guard'[g].state # Booted(g, file[g]).state
    BY <1>9 DEF Start
  <2>2. file' = file /\ now' = now
    BY <1>9 DEF Start
  <2>3. SUFFICES ASSUME ~pending', NEW g \in loaded' PROVE Matches(g)'
    BY DEF FileInSync
  <2>4. /\ g \in Guards /\ guard'[g] = settledTo(g)
        /\ guard'[g].state = Booted(g, file[g]).state
    BY <2>1, <2>3
  <2> QED BY <2>2, <2>4, StartMatches
<1>10. CASE Tick
  <2>1. /\ now' = now + 1 /\ UNCHANGED <<guard, phase, loaded, file, pending,
                                         overtaken>>
        /\ now \in Nat /\ loaded \subseteq Guards
    BY <1>10 DEF Tick, Settled, EntryTypes
  <2>2. \A g \in Guards : file[g] # NoRecord => file[g].until \in Nat
    BY EntryLifecycleAssumption DEF Settled, EntryTypes, Records, Record
  <2>3. ASSUME NEW g \in loaded, Matches(g) PROVE Matches(g)'
    <3>1. CASE file[g] = NoRecord
      BY <2>1, <2>3, <3>1 DEF Matches
    <3>2. CASE file[g] # NoRecord
      BY <2>1, <2>2, <2>3, <3>2 DEF Matches
    <3> QED BY <3>1, <3>2
  <2> QED BY <2>1, <2>3 DEF FileInSync, Running
<1>11. ASSUME NEW g \in Guards, DeviceChanges(g) PROVE FileInSync'
  BY <1>11 DEF DeviceChanges, entryVars, FileInSync, Running
<1>12. CASE UNCHANGED allVars
  BY <1>12 DEF allVars, entryVars, FileInSync, Running, Matches
<1> QED
  BY <1>1, <1>2, <1>3, <1>4, <1>5, <1>6, <1>7, <1>8, <1>9, <1>10, <1>11,
     <1>12 DEF EntryNext

LEMMA InSyncAlways == EntrySpec => []FileInSync
<1>1. EntryInit => FileInSync
  BY DEF EntryInit, FileInSync, Running
<1>2. Settled /\ Settled' /\ FileInSync /\ [EntryNext]_allVars => FileInSync'
  BY NextInSync
<1> QED BY <1>1, <1>2, SettledAlways, PTL DEF EntrySpec

(* Once no write is armed, a crash at any time costs no auto switch, no    *)
(* verdict, no attempt of an escalated guard and no snooze that has time   *)
(* left, and it brings back none that was over: the file holds exactly the *)
(* verdicts, and every snooze, of the running guards.                      *)
THEOREM VerdictsSurvive == EntrySpec => []CrashKeepsVerdicts
<1>1. Settled /\ FileInSync => CrashKeepsVerdicts
  <2> SUFFICES ASSUME Settled, FileInSync, Running, ~pending, ~overtaken,
                      NEW g \in loaded
               PROVE  LET back == Booted(g, file[g])
                      IN  /\ back.auto = guard[g].auto
                          /\ back.state = "ESCALATED"
                               <=> guard[g].state = "ESCALATED"
                          /\ back.state = "ESCALATED"
                               => back.attempt = guard[g].attempt
                          /\ Escalated(file[g]) <=> guard[g].state = "ESCALATED"
                          /\ guard[g].state = "SNOOZED" =>
                               file[g] # NoRecord /\ file[g].state = "SNOOZED"
                          /\ back.state = "SNOOZED" <=>
                               /\ guard[g].state = "SNOOZED"
                               /\ Deadline(file[g]) > now
    BY DEF CrashKeepsVerdicts
  <2>1. Matches(g) /\ g \in Guards
    BY DEF FileInSync, Settled, EntryTypes
  <2> QED BY <2>1, MatchingBoots
<1> QED BY <1>1, SettledAlways, InSyncAlways, PTL

-----------------------------------------------------------------------------
(* No free retry *)

(* What takes a guard out of ESCALATED while nobody touches it. *)
LeavesExcused(x) ==
  guard[x].state = "ESCALATED" /\ guard'[x].state # "ESCALATED"
    => health'[x] = "OK" \/ Following(guard'[x])

(* A guard that is not escalated itself, and the only one to change. *)
LEMMA OneLeavesExcused ==
  ASSUME Consistent, NEW g \in Guards, NEW r, OnlyUpdate(g, r),
         guard[g].state = "ESCALATED" /\ r.state # "ESCALATED"
           => health[g] = "OK"
  PROVE  \A x \in Guards : LeavesExcused(x)
<1>1. /\ \A x \in Guards : guard'[x] = IF x = g THEN r ELSE guard[x]
      /\ health' = health
  BY DEF OnlyUpdate, Update, Consistent, TypeOK
<1> QED BY <1>1 DEF LeavesExcused

LEMMA BusyLeavesExcused ==
  ASSUME Consistent, NEW g \in Guards, Cycle(g)
  PROVE  \A x \in Guards : LeavesExcused(x)
<1> SUFFICES ASSUME NEW x \in Guards PROVE LeavesExcused(x)
  OBVIOUS
<1>1. Fit(x, guard[x])
  BY ConsistentFits
<1>2. guard[g].state # "ESCALATED"
  <2>1. Busy(guard[g])
    BY DEF Cycle, CycleBegins, CanRecover, DriverReturns, DriverRaises,
       DriverCancelled, ReloadDone, VerifyWakes, VerifyTimesOut, Busy
  <2> QED BY <2>1, ConsistentFits DEF Fit, WorkFits, Abandoned
<1>3. CASE x = g
  BY <1>2, <1>3 DEF LeavesExcused
<1>4. CASE x # g /\ CycleBegins(g)
  <2>1. guard'[x] \in {guard[x],
                       OnPartnerRepairStart(x, guard[x], g, health[x])}
    BY <1>4 DEF CycleBegins
  <2>2. \/ guard'[x] = guard[x]
        \/ guard'[x].state = "ESCALATED"
        \/ guard'[x].leader = g
    BY <1>1, <2>1 DEF OnPartnerRepairStart, CancelTimer, Escalate, Fit,
       GuardRecord
  <2> QED BY <2>2, DeviceEngineAssumption DEF LeavesExcused, Following
<1>5. CASE x # g /\ ~CycleBegins(g)
  <2>1. PICK r : CycleStep(g, r)
    BY <1>5, CycleStepFits
  <2>2. \/ guard'[x] = guard[x]
        \/ guard'[x] = OnPartnerRepairDone(guard[x], g, r.state = "COOLDOWN")
    BY <1>5, <2>1 DEF CycleStep
  <2>3. guard'[x].state = guard[x].state
    BY <1>1, <2>2 DEF OnPartnerRepairDone, Fit, GuardRecord
  <2> QED BY <2>3 DEF LeavesExcused
<1> QED BY <1>3, <1>4, <1>5

(* The callbacks, tasks and switches of the running guards.                *)
LEMMA GuardsLeaveExcused ==
  ASSUME Consistent, NEW g \in Guards,
         Environment(g) \/ Timer(g) \/ SetAuto(g) \/ UnsnoozeGuard(g)
         \/ Cycle(g) \/ Validation(g)
  PROVE  \A x \in Guards : LeavesExcused(x)
<1>0. Fit(g, guard[g]) /\ health[g] \in Health
  BY ConsistentFits DEF Consistent, TypeOK
<1>1. CASE HealthEvent(g)
  <2>1. PICK h \in Health : /\ health' = [health EXCEPT ![g] = h]
                            /\ Update(g, Evaluate(Told(guard[g], h), h))
    BY <1>1 DEF HealthEvent
  <2>2. /\ \A x \in Guards : guard'[x] = IF x = g
                                           THEN Evaluate(Told(guard[g], h), h)
                                           ELSE guard[x]
        /\ health'[g] = h
    BY <2>1 DEF Update, Consistent, TypeOK
  <2>3. guard[g].state = "ESCALATED" /\ h # "OK"
          => Evaluate(Told(guard[g], h), h).state = "ESCALATED"
    BY <1>0, StartedIs
  <2> QED BY <2>2, <2>3 DEF LeavesExcused
<1>2. CASE TemplateDrift(g)
  BY <1>2 DEF TemplateDrift, LeavesExcused
<1>3. CASE TemplateEvent(g)
  <2>1. guard[g].state = "ESCALATED" /\ health[g] # "OK" =>
          Evaluate(Told(guard[g], health[g]), health[g]).state = "ESCALATED"
    BY <1>0, StartedIs
  <2> QED BY <1>3, <2>1, OneLeavesExcused DEF TemplateEvent
<1>4. CASE SetAuto(g)
  <2>1. [guard[g] EXCEPT !.auto = ~@].state = guard[g].state
    BY <1>0 DEF Fit, GuardRecord
  <2> QED BY <1>4, <2>1, OneLeavesExcused DEF SetAuto
<1>5. CASE Timer(g) \/ UnsnoozeGuard(g) \/ Validation(g)
  <2>1. guard[g].state # "ESCALATED"
    BY <1>0, <1>5 DEF Timer, DebounceDone, CooldownDone, SnoozeDone,
       UnsnoozeGuard, Validation, ValidationBegins, ValidationWakes,
       ValidationTimesOut, Fit, TimerFits, WorkFits, Abandoned, Busy
  <2>2. PICK r : OnlyUpdate(g, r)
    BY <1>5 DEF Timer, DebounceDone, CooldownDone, SnoozeDone, UnsnoozeGuard,
       Validation, ValidationBegins, ValidationWakes, ValidationTimesOut
  <2> QED BY <2>1, <2>2, OneLeavesExcused
<1> QED
  BY <1>1, <1>2, <1>3, <1>4, <1>5, BusyLeavesExcused DEF Environment

(* The verdict of a condemned guard is in the file and in a write that is  *)
(* still armed on an old Store, and the guard has it; an unload that has   *)
(* flushed holds an engine for each.                                       *)
VerdictsFiled ==
  /\ \A g \in condemned :
       /\ Escalated(file[g])
       /\ late # NoWrite => Escalated(late[g])
       /\ Running /\ g \in loaded => guard[g].state = "ESCALATED"
  /\ phase = "flushed" => condemned \subseteq loaded

LEMMA SteppedFiled ==
  ASSUME Settled, VerdictsFiled, NEW acted, Stepped(acted),
         \A x \in loaded : guard[x].state = "ESCALATED" =>
           guard'[x].state = "ESCALATED" \/ Excused(x, acted)
  PROVE  VerdictsFiled'
<1>1. /\ file' = file /\ late' = late /\ loaded' = loaded /\ phase' = phase
      /\ condemned' = {g \in condemned : \/ guard'[g].state = "ESCALATED"
                                         \/ ~Excused(g, acted)}
      /\ Running
  BY DEF Stepped
<1>2. ASSUME NEW g \in condemned', g \in loaded
      PROVE  guard'[g].state = "ESCALATED"
  BY <1>1, <1>2 DEF VerdictsFiled
<1> QED BY <1>1, <1>2 DEF VerdictsFiled, Running

(* What a write by the running Store leaves condemned. *)
LEMMA CondemnedNow ==
  ASSUME Settled, VerdictsFiled, Running, NEW g \in Condemned(Serialized)
  PROVE  /\ g \in loaded /\ guard[g].state = "ESCALATED"
         /\ Escalated(Serialized[g])
<1>1. /\ g \in Guards /\ Serialized[g] # NoRecord
      /\ Escalated(Serialized[g]) \/ g \in condemned
  BY DEF Condemned
<1>2. /\ g \in loaded
      /\ Escalated(Serialized[g]) <=> guard[g].state = "ESCALATED"
  BY <1>1, RecordsNow, SerializedIs DEF Settled, Serialized
<1> QED BY <1>1, <1>2 DEF VerdictsFiled

LEMMA NextFiled ==
  ASSUME Settled, VerdictsFiled, [EntryNext]_allVars
  PROVE  VerdictsFiled'
<1>1. ASSUME NEW g \in Guards, GuardSteps(g) PROVE VerdictsFiled'
  <2>1. \A x \in Guards : LeavesExcused(x)
    BY <1>1, GuardsLeaveExcused DEF GuardSteps, Timer, Settled
  <2>2. Stepped({}) /\ loaded \subseteq Guards
    BY <1>1 DEF GuardSteps, Settled, EntryTypes
  <2> QED BY <2>1, <2>2, SteppedFiled DEF LeavesExcused, Excused
<1>2. ASSUME NEW g \in Guards, OperatorSteps(g) \/ SnoozeFor(g)
      PROVE  VerdictsFiled'
  <2>1. Stepped({g}) /\ loaded \subseteq Guards
    BY <1>2 DEF OperatorSteps, SnoozeFor, Settled, EntryTypes
  <2>2. \A x \in Guards : x # g => guard'[x] = guard[x]
    BY <1>2 DEF OperatorSteps, SnoozeFor, ResetGuard, ManualRecover,
       SnoozeGuard, OnlyUpdate, Update, Settled, Consistent, TypeOK
  <2> QED BY <2>1, <2>2, SteppedFiled DEF Excused
<1>3. CASE SnoozeAll
  <2>1. Stepped(loaded)
    BY <1>3 DEF SnoozeAll
  <2> QED BY <2>1, SteppedFiled DEF Excused
<1>4. CASE UnsnoozeAll
  <2>1. Stepped({}) /\ loaded \subseteq Guards
    BY <1>4 DEF UnsnoozeAll, Settled, EntryTypes
  <2>2. ASSUME NEW x \in Guards, guard[x].state = "ESCALATED"
        PROVE  guard'[x] = guard[x]
    <3>1. ~guard[x].snoozed
      BY <2>2, ConsistentFits DEF Settled, Fit, TimerFits
    <3> QED BY <1>4, <3>1 DEF UnsnoozeAll
  <2> QED BY <2>1, <2>2, SteppedFiled
<1>5. CASE DelayedWrite \/ Flush
  <2>1. /\ file' = Serialized /\ condemned' = Condemned(Serialized)
        /\ guard' = guard /\ loaded' = loaded /\ late' = NoWrite /\ Running
    BY <1>5 DEF DelayedWrite, Flush, GuardsAlone, Running
  <2>2. ASSUME NEW g \in condemned'
        PROVE  /\ g \in loaded /\ guard[g].state = "ESCALATED"
               /\ Escalated(Serialized[g])
    BY <2>1, <2>2, CondemnedNow
  <2> QED BY <2>1, <2>2 DEF VerdictsFiled
<1>6. CASE LateWrite
  <2>1. /\ file' = late /\ late' = NoWrite /\ guard' = guard
        /\ loaded' = loaded /\ phase' = phase /\ late # NoWrite
        /\ condemned' = IF Running THEN condemned ELSE Condemned(late)
    BY <1>6 DEF LateWrite, GuardsAlone
  <2>2. CASE Running
    BY <2>1, <2>2 DEF VerdictsFiled, Running
  <2>3. CASE ~Running
    BY <2>1, <2>3 DEF VerdictsFiled, Running, Condemned
  <2> QED BY <2>2, <2>3
<1>7. CASE UnloadFails
  BY <1>7 DEF UnloadFails, GuardsAlone, VerdictsFiled, Running
<1>8. CASE Stop
  <2> DEFINE late1 == SerializedOf([g \in Guards |-> Stopped(guard[g])])
  <2>1. /\ late' \in {late1, NoWrite} /\ phase' = "down" /\ file' = file
        /\ condemned' = condemned /\ Running /\ phase = "flushed"
    BY <1>8 DEF Stop, Teardown, Running
  <2>2. \A g \in condemned : Escalated(late1[g])
    BY <2>1, StoppedSerialized DEF VerdictsFiled, Settled, EntryTypes
  <2> HIDE DEF late1
  <2> QED BY <2>1, <2>2 DEF VerdictsFiled, Running
<1>9. CASE Crash
  BY <1>9 DEF Crash, Teardown, VerdictsFiled, Running
<1>10. CASE Shutdown
  <2>1. /\ late' = NoWrite /\ phase' = "down" /\ Running
        /\ \/ file' = Serialized /\ condemned' = Condemned(file')
           \/ late # NoWrite /\ file' = late /\ condemned' = Condemned(file')
           \/ file' = file /\ condemned' = condemned
    BY <1>10 DEF Shutdown, Teardown
  <2>2. ASSUME NEW g \in condemned' PROVE Escalated(file'[g])
    <3>1. CASE file' = Serialized /\ condemned' = Condemned(file')
      BY <2>1, <2>2, <3>1, CondemnedNow
    <3>2. CASE late # NoWrite /\ file' = late /\ condemned' = Condemned(file')
      BY <2>2, <3>2 DEF Condemned, VerdictsFiled
    <3>3. CASE file' = file /\ condemned' = condemned
      BY <2>2, <3>3 DEF VerdictsFiled
    <3> QED BY <2>1, <3>1, <3>2, <3>3
  <2> QED BY <2>1, <2>2 DEF VerdictsFiled, Running
<1>11. CASE Start
  <2>1. PICK failing \in SUBSET Fallible :
          /\ loaded' = Guards \ failing
          /\ \A g \in Guards \ failing :
               guard'[g] = Evaluate(Told(Booted(g, file[g]), health[g]),
                                    health[g])
          /\ condemned' = {g \in condemned : g \in failing \/ health[g] # "OK"}
    BY <1>11 DEF Start
  <2>2. file' = file /\ late' = late /\ phase' = "up"
    BY <1>11 DEF Start
  <2>3. ASSUME NEW g \in condemned', g \in loaded'
        PROVE  guard'[g].state = "ESCALATED"
    <3>1. /\ g \in Guards \ failing /\ health[g] \in Health /\ health[g] # "OK"
          /\ file[g] \in Record /\ file[g] # NoRecord /\ now \in Nat
          /\ file[g].state = "ESCALATED"
      BY <2>1, <2>3 DEF VerdictsFiled, Escalated, Settled, EntryTypes, Records,
         Consistent, TypeOK
    <3>2. /\ Fit(g, Booted(g, file[g]))
          /\ Booted(g, file[g]).state = "ESCALATED"
      BY <3>1, BootedIs
    <3> QED BY <2>1, <3>1, <3>2, StartedIs
  <2>4. condemned' \subseteq condemned
    BY <2>1
  <2> QED BY <2>2, <2>3, <2>4 DEF VerdictsFiled
<1>12. CASE Tick \/ (\E g \in Guards : DeviceChanges(g)) \/ UNCHANGED allVars
  BY <1>12 DEF Tick, DeviceChanges, allVars, entryVars, VerdictsFiled, Running
<1> QED
  BY <1>1, <1>2, <1>3, <1>4, <1>5, <1>6, <1>7, <1>8, <1>9, <1>10, <1>11,
     <1>12 DEF EntryNext

(* A restart grants no free retry: what escalated and reached the file     *)
(* comes back escalated, after however many unloads, late writes, crashes  *)
(* and shutdowns, and no step of the running guards takes it away but one  *)
(* that reads the device OK, an operator's or the start of a partner's     *)
(* repair.                                                                 *)
THEOREM NoRetryAfterRestart == EntrySpec => []NoFreeRetry
<1>1. EntryInit => VerdictsFiled
  BY DEF EntryInit, VerdictsFiled
<1>2. Settled /\ VerdictsFiled /\ [EntryNext]_allVars => VerdictsFiled'
  BY NextFiled
<1>3. VerdictsFiled => NoFreeRetry
  BY DEF VerdictsFiled, NoFreeRetry
<1> QED BY <1>1, <1>2, <1>3, SettledAlways, PTL DEF EntrySpec

-----------------------------------------------------------------------------
(* Unload *)

(* A flushed unload has no old write armed, and no record of a guard that  *)
(* has no engine; the file of an unloaded entry, or the write that is      *)
(* armed, names the guards that were escalated.                            *)
UnloadFiled ==
  /\ phase = "flushed" =>
       /\ late = NoWrite /\ ~overtaken
       /\ \A g \in Guards \ loaded : file[g] = NoRecord
  /\ phase = "down" /\ left # NoWrite =>
       LET last == IF late = NoWrite THEN file ELSE late
       IN  \A g \in Guards : Escalated(last[g]) <=> g \in left

LEMMA NextUnloadFiled ==
  ASSUME Settled, FileInSync, UnloadFiled, [EntryNext]_allVars
  PROVE  UnloadFiled'
<1>1. ASSUME NEW acted, Stepped(acted) PROVE UnloadFiled'
  BY <1>1 DEF Stepped, UnloadFiled, Running
<1>2. CASE DelayedWrite \/ Flush
  <2>1. /\ file' = Serialized /\ loaded' = loaded /\ late' = NoWrite
        /\ overtaken' = FALSE /\ phase' # "down"
    BY <1>2 DEF DelayedWrite, Flush, GuardsAlone, Running
  <2>2. \A g \in Guards \ loaded : Serialized[g] = NoRecord
    BY RecordsNow, SerializedIs DEF Settled, Serialized
  <2> QED BY <2>1, <2>2 DEF UnloadFiled
<1>3. CASE LateWrite
  BY <1>3 DEF LateWrite, GuardsAlone, UnloadFiled
<1>4. CASE UnloadFails
  BY <1>4 DEF UnloadFails, UnloadFiled
<1>5. CASE Stop
  <2> DEFINE stopped == [g \in Guards |-> Stopped(guard[g])]
             late1 == SerializedOf(stopped)
  <2>1. /\ phase = "flushed" /\ phase' = "down" /\ file' = file
        /\ left' = {g \in loaded : guard[g].state = "ESCALATED"}
        /\ \/ late' = late1
           \/ late' = NoWrite /\ ~pending
    BY <1>5 DEF Stop, Teardown, Settled, EntryTypes
  <2>2. /\ late1 # NoWrite
        /\ \A g \in Guards : Escalated(late1[g])
                               <=> g \in loaded /\ guard[g].state = "ESCALATED"
    BY StoppedSerialized
  <2> HIDE DEF late1
  <2>3. CASE late' = late1
    BY <2>1, <2>2, <2>3 DEF UnloadFiled
  <2>4. CASE late' = NoWrite /\ ~pending
    <3>1. ASSUME NEW g \in Guards
          PROVE  Escalated(file[g])
                   <=> g \in loaded /\ guard[g].state = "ESCALATED"
      <4>1. CASE g \in loaded
        <5>1. Matches(g)
          BY <2>1, <2>4, <4>1 DEF FileInSync, Running, UnloadFiled
        <5> QED BY <4>1, <5>1, MatchingBoots
      <4>2. CASE g \notin loaded
        BY <2>1, <4>2 DEF UnloadFiled, Escalated
      <4> QED BY <4>1, <4>2
    <3> QED BY <2>1, <2>4, <3>1 DEF UnloadFiled
  <2> QED BY <2>1, <2>3, <2>4
<1>6. CASE Crash \/ Shutdown
  BY <1>6 DEF Crash, Shutdown, Teardown, UnloadFiled
<1>7. CASE Start
  BY <1>7 DEF Start, UnloadFiled
<1>8. CASE Tick \/ (\E g \in Guards : DeviceChanges(g)) \/ UNCHANGED allVars
  BY <1>8 DEF Tick, DeviceChanges, allVars, entryVars, UnloadFiled
<1> QED
  BY <1>1, <1>2, <1>3, <1>4, <1>5, <1>6, <1>7, <1>8
     DEF EntryNext, GuardSteps, OperatorSteps, SnoozeFor, SnoozeAll, UnsnoozeAll

(* An unload loses no verdict and makes none up: for any guards and links, *)
(* whatever escalates or is reset between the flush and the stop of the    *)
(* engines, the file of an entry that was unloaded and has written names   *)
(* exactly the guards that were escalated when their engines stopped.      *)
THEOREM UnloadKeeps == EntrySpec => []UnloadKeepsVerdicts
<1>1. EntryInit => UnloadFiled
  BY DEF EntryInit, UnloadFiled
<1>2. Settled /\ FileInSync /\ UnloadFiled /\ [EntryNext]_allVars
        => UnloadFiled'
  BY NextUnloadFiled
<1>3. UnloadFiled => UnloadKeepsVerdicts
  BY DEF UnloadFiled, UnloadKeepsVerdicts
<1> QED
  BY <1>1, <1>2, <1>3, SettledAlways, InSyncAlways, PTL DEF EntrySpec
=============================================================================
