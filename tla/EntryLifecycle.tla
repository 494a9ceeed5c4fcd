---------------------------- MODULE EntryLifecycle ----------------------------
(***************************************************************************)
(* The entry around its guards: set-up from the Store, the delayed writes, *)
(* the flush and the teardown of an unload, a crash and a clean shutdown   *)
(* of Home Assistant (__init__.py, and the persistence half of             *)
(* core/engine.py).  While the entry runs, its guards step as in           *)
(* GuardGroup; snoozes get a deadline, on a clock that also runs while     *)
(* Home Assistant is down.                                                 *)
(*                                                                         *)
(* A reload is an unload followed by a set-up with a new Store.  A write   *)
(* that was armed on the old Store after the flush stays armed: it writes  *)
(* what the stopped engines held, into the file the new Store also uses.   *)
(***************************************************************************)
EXTENDS GuardGroup

CONSTANTS NoRecord,       \* nothing stored for a guard
          NoWrite,        \* no write armed on an old Store
          AutoConfigured, \* guards whose behavior has auto_restart on
          Fallible,       \* guards whose set-up may raise
          Switched,       \* guards whose auto switch is turned at all
          Durations,      \* snooze lengths
          Horizon         \* the clock stops here

ASSUME EntryLifecycleAssumption ==
  /\ AutoConfigured \subseteq Guards
  /\ Fallible \subseteq Guards
  /\ Switched \subseteq Guards
  /\ Durations \subseteq Nat
  /\ Horizon \in Nat \ {0}

VARIABLES phase,   \* "down", "up", "flushed" (unloading), "stuck" (unload failed)
          loaded,  \* guards that have an engine
          now,     \* the clock; 0 is no time
          until,   \* until[g]: _snooze_until, 0 for None
          file,    \* file[g]: what the Store's file holds for g
          pending, \* the running Store has a delayed write armed
          late,    \* the write armed on the Store of the previous set-up
          overtaken, \* history: such a write reached the file after the set-up
          condemned, \* history: guards with a verdict that reached the file
          left       \* history: the guards that were escalated when the entry
                     \* was unloaded; NoWrite when that is not known

entryVars == <<phase, loaded, now, until, file, pending, late, overtaken,
               condemned, left>>
allVars == <<guard, health, byHand, entryVars>>

Running == phase # "down"

(* The part of a snapshot that a set-up reads: a transient state is not    *)
(* restored, nor the attempt count of a guard that has not escalated.      *)
Record == [state   : {"ESCALATED", "SNOOZED", "transient"},
           attempt : 0 .. AttemptCap,
           auto    : BOOLEAN,
           until   : 0 .. Horizon]

Records == [Guards -> Record \cup {NoRecord}]

ASSUME NothingStoredAssumption == NoRecord \notin Record /\ NoWrite \notin Records

-----------------------------------------------------------------------------
(* Between a guard and its record *)

Snapshot(r, deadline) ==
  [state   |-> IF r.state \in {"ESCALATED", "SNOOZED"} THEN r.state
               ELSE "transient",
   attempt |-> IF r.state = "ESCALATED" THEN r.attempt ELSE 0,
   auto    |-> r.auto,
   until   |-> deadline]

(* _serialize writes the engines there are: a guard whose set-up raised    *)
(* loses its record.                                                       *)
SerializedOf(engines) ==
  [g \in Guards |-> IF g \in loaded THEN Snapshot(engines[g], until[g])
                   ELSE NoRecord]

Serialized == SerializedOf(guard)

(* Mutant: an escalated guard starts afresh. *)
RestoredForgetful(g, rec) ==
  NewGuard(IF rec = NoRecord THEN g \in AutoConfigured ELSE rec.auto)

(* _apply_persisted *)
Restored(g, rec) ==
  LET new == NewGuard(IF rec = NoRecord THEN g \in AutoConfigured ELSE rec.auto)
  IN  CASE rec = NoRecord -> new
        [] rec # NoRecord /\ rec.state = "ESCALATED" ->
             [new EXCEPT !.state = "ESCALATED", !.attempt = rec.attempt]
        [] rec # NoRecord /\ rec.state = "SNOOZED" ->
             [new EXCEPT !.state = "SNOOZED", !.snoozed = TRUE]
        [] OTHER -> new

(* Mutant: a snooze that has time left is not re-armed. *)
RearmedSilently(r, deadline) ==
  IF r.snoozed /\ deadline <= now
    THEN [r EXCEPT !.snoozed = FALSE, !.state = "OK"] ELSE r

(* _rearm_snooze: the time left, or nothing when it ended while down. *)
Rearmed(r, deadline) ==
  CASE r.snoozed /\ deadline <= now ->
         [r EXCEPT !.snoozed = FALSE, !.state = "OK"]
    [] r.snoozed /\ deadline > now ->
         [r EXCEPT !.timer = "snooze"]
    [] OTHER -> r

Deadline(rec) == IF rec = NoRecord THEN 0 ELSE rec.until

(* The engine as async_start is about to evaluate it. *)
Booted(g, rec) == Rearmed(Restored(g, rec), Deadline(rec))

NoEngine(g) == [NewGuard(g \in AutoConfigured) EXCEPT !.live = FALSE]

Escalated(rec) == rec # NoRecord /\ rec.state = "ESCALATED"

-----------------------------------------------------------------------------
(* While the entry runs *)

(* Mutant: the auto switch is not saved. *)
SavesStateOnly == \E g \in Guards : guard'[g].state # guard[g].state

(* _set_state saves an actual change, set_auto always does. *)
Saves ==
  \E g \in Guards : \/ guard'[g].state # guard[g].state
                    \/ guard'[g].auto # guard[g].auto

(* What may take a guard out of its verdict: a device that reads OK, the   *)
(* operator, a partner's repair.                                           *)
Excused(g, acted) ==
  health'[g] = "OK" \/ g \in acted \/ Following(guard'[g])

(* Every step that the running guards take, and the write it arms; acted   *)
(* are the guards that the operator acted on.                              *)
Stepped(acted) ==
  /\ Running
  /\ pending' = (pending \/ Saves)
  /\ condemned' = {g \in condemned : \/ guard'[g].state = "ESCALATED"
                                    \/ ~Excused(g, acted)}
  /\ UNCHANGED <<phase, loaded, now, file, late, overtaken, left>>

ClearDeadlines ==
  until' = [g \in Guards |-> IF guard'[g].snoozed THEN until[g] ELSE 0]

GuardSteps(g) ==
  /\ g \in loaded
  /\ \/ Environment(g) \/ DebounceDone(g) \/ CooldownDone(g)
     \/ SnoozeDone(g) /\ until[g] <= now
     \/ g \in Switched /\ SetAuto(g)
     \/ UnsnoozeGuard(g)
     \/ Cycle(g) \/ Validation(g)
  /\ ClearDeadlines
  /\ Stepped({})

OperatorSteps(g) ==
  /\ g \in loaded
  /\ ResetGuard(g) \/ ManualRecover(g)
  /\ ClearDeadlines
  /\ Stepped({g})

(* necromancer.snooze on one guard, from its start or again. *)
SnoozeFor(g) ==
  /\ g \in loaded
  /\ \E d \in Durations :
       /\ now + d <= Horizon
       /\ until' = [until EXCEPT ![g] = now + d]
  /\ SnoozeGuard(g)
  /\ Stepped({g})

(* snooze_all: the busy guards are skipped. *)
SnoozeAll ==
  /\ \E d \in Durations :
       /\ now + d <= Horizon
       /\ until' = [g \in Guards |->
                      IF g \in loaded /\ ~Busy(guard[g]) THEN now + d
                      ELSE until[g]]
  /\ guard' = [g \in Guards |-> IF g \in loaded /\ ~Busy(guard[g])
                                  THEN Snooze(guard[g]) ELSE guard[g]]
  /\ UNCHANGED <<health, byHand>>
  /\ Stepped(loaded)

UnsnoozeAll ==
  /\ guard' = [g \in Guards |-> IF guard[g].snoozed
                                  THEN Resume(guard[g], health[g]) ELSE guard[g]]
  /\ UNCHANGED <<health, byHand>>
  /\ ClearDeadlines
  /\ Stepped({})

-----------------------------------------------------------------------------
(* The Store *)

GuardsAlone == UNCHANGED <<guard, health, byHand, until, loaded, now>>

(* A write adds the verdicts it holds; it forgets a guard without engine.  *)
Condemned(records) ==
  {g \in Guards : /\ records[g] # NoRecord
                  /\ Escalated(records[g]) \/ g \in condemned}

(* The delay is the same for every write, so one that is armed on the old  *)
(* Store runs first.                                                       *)
DelayedWrite ==
  /\ Running /\ pending /\ late = NoWrite
  /\ file' = Serialized
  /\ pending' = FALSE
  /\ overtaken' = FALSE
  /\ condemned' = Condemned(Serialized)
  /\ GuardsAlone /\ UNCHANGED <<phase, late, left>>

LateWrite ==
  /\ late # NoWrite
  /\ file' = late
  /\ late' = NoWrite
  /\ overtaken' = Running
  /\ condemned' = IF Running THEN condemned ELSE Condemned(late)
  /\ GuardsAlone /\ UNCHANGED <<phase, pending, left>>

-----------------------------------------------------------------------------
(* Unload, stop and set-up *)

(* The engines are gone. *)
Teardown ==
  /\ phase' = "down"
  /\ guard' = [g \in Guards |-> NoEngine(g)]
  /\ byHand' = {} /\ loaded' = {} /\ until' = [g \in Guards |-> 0]
  /\ pending' = FALSE
  /\ UNCHANGED <<health, now>>

(* async_unload_entry up to the await of the platforms.  (At most one old  *)
(* Store is kept with a write armed, so no second reload within its delay.) *)
Flush ==
  /\ phase = "up" /\ late = NoWrite
  /\ phase' = "flushed"
  /\ file' = Serialized
  /\ pending' = FALSE
  /\ overtaken' = FALSE
  /\ condemned' = Condemned(Serialized)
  /\ GuardsAlone /\ UNCHANGED <<late, left>>

(* Mutant: the finally block of a cancelled cycle reports a failed repair, *)
(* and the followers, not reset yet, give up with their leader.            *)
StoppedReporting(r) ==
  [r EXCEPT !.state = IF Following(r) THEN "ESCALATED" ELSE @,
            !.leader = NoGuard, !.astray = FALSE, !.timer = "none",
            !.task = "none", !.ok = FALSE, !.event = "none"]

(* async_stop, and what is left of the task it cancels: the finally block  *)
(* clears the slot and, _stopping, has no word for the partners, which     *)
(* follow nobody by then.  The state stays what it was.                    *)
Stopped(r) ==
  EndTask([CancelTimer(r) EXCEPT !.leader = NoGuard, !.astray = FALSE])

(* The platforms are unloaded: every engine is stopped in one go.  A write *)
(* that is armed by now, or that a stopping engine arms, reads the stopped *)
(* engines.                                                                *)
Stop ==
  /\ phase = "flushed"
  /\ LET stopped == [g \in Guards |-> Stopped(guard[g])]
         saves   == \E g \in Guards : stopped[g].state # guard[g].state
     IN  late' = IF pending \/ saves THEN SerializedOf(stopped) ELSE NoWrite
  /\ left' = {g \in loaded : guard[g].state = "ESCALATED"}
  /\ Teardown
  /\ UNCHANGED <<file, overtaken, condemned>>

(* A platform would not unload: the engines run on, no reload is possible. *)
UnloadFails ==
  /\ phase = "flushed"
  /\ phase' = "stuck"
  /\ GuardsAlone
  /\ UNCHANGED <<file, pending, late, overtaken, condemned, left>>

(* Home Assistant is killed. *)
Crash ==
  /\ Running \/ late # NoWrite
  /\ late' = NoWrite /\ left' = NoWrite
  /\ Teardown
  /\ UNCHANGED <<file, overtaken, condemned>>

(* Home Assistant stops: armed writes are made, the entry is not unloaded. *)
Shutdown ==
  /\ Running
  /\ file' \in (IF pending THEN {Serialized} ELSE {})
                 \cup (IF late # NoWrite THEN {late} ELSE {})
                 \cup (IF pending \/ late # NoWrite THEN {} ELSE {file})
  /\ late' = NoWrite /\ left' = NoWrite
  /\ Teardown
  /\ overtaken' = (overtaken \/ late # NoWrite)
  /\ condemned' = IF pending \/ late # NoWrite THEN Condemned(file')
                  ELSE condemned

(* async_setup_entry: each guard is built from its record, subscribed and  *)
(* evaluated.  A guard that raises is skipped.                             *)
Start ==
  /\ phase = "down"
  /\ phase' = "up"
  /\ \E failing \in SUBSET Fallible :
       /\ loaded' = Guards \ failing
       /\ guard' = [g \in Guards |->
                      IF g \in failing THEN NoEngine(g)
                      ELSE Evaluate(Told(Booted(g, file[g]), health[g]),
                                    health[g])]
       /\ pending' = \E g \in Guards \ failing :
                       guard'[g].state # Booted(g, file[g]).state
       /\ condemned' = {g \in condemned : g \in failing \/ health[g] # "OK"}
  /\ until' = [g \in Guards |->
                 IF guard'[g].snoozed THEN Deadline(file[g]) ELSE 0]
  /\ overtaken' = FALSE /\ left' = NoWrite
  /\ UNCHANGED <<health, byHand, now, file, late>>

-----------------------------------------------------------------------------
(* The world outside *)

Tick ==
  /\ now < Horizon
  /\ now' = now + 1
  /\ UNCHANGED <<guard, health, byHand, phase, loaded, until, file, pending,
                 late, overtaken, condemned, left>>

(* A device changes while nobody looks. *)
DeviceChanges(g) ==
  /\ phase = "down"
  /\ \E h \in Health \ {health[g]} : health' = [health EXCEPT ![g] = h]
  /\ UNCHANGED <<guard, byHand, entryVars>>

-----------------------------------------------------------------------------
EntryInit ==
  /\ phase = "down" /\ loaded = {} /\ now = 1
  /\ health \in [Guards -> Health] /\ byHand = {}
  /\ guard = [g \in Guards |-> NoEngine(g)]
  /\ until = [g \in Guards |-> 0]
  /\ file = [g \in Guards |-> NoRecord]
  /\ pending = FALSE /\ late = NoWrite
  /\ overtaken = FALSE /\ condemned = {} /\ left = NoWrite

EntryNext ==
  \/ \E g \in Guards : GuardSteps(g) \/ OperatorSteps(g) \/ SnoozeFor(g)
                      \/ DeviceChanges(g)
  \/ SnoozeAll \/ UnsnoozeAll
  \/ DelayedWrite \/ LateWrite
  \/ Flush \/ Stop \/ UnloadFails \/ Crash \/ Shutdown \/ Start \/ Tick

EntrySpec == EntryInit /\ [][EntryNext]_allVars

-----------------------------------------------------------------------------
(* Safety *)

(* Whatever ended the previous run - unload, crash or shutdown - and       *)
(* whatever its last write holds, every engine there is has the timer, the *)
(* task and the state that belong together and fit its device, and a       *)
(* snooze that is re-armed has a deadline.                                 *)
BootIsConsistent ==
  /\ TimerMatchesState /\ WorkMatchesState
  /\ \A g \in Guards : guard[g].snoozed <=> until[g] # 0
  /\ \A g \in loaded \ TemplateHealth : IdleFits(guard[g], health[g])

(* With no write armed, a crash costs nothing that README.md:235 and 703   *)
(* call lasting: the file holds the auto switch of every guard, the        *)
(* verdict and the attempts of the escalated ones and of nobody else, and  *)
(* every snooze.  A set-up brings back the verdicts, and the snoozes with  *)
(* time left; what ended meanwhile, and nothing else, is not brought back. *)
CrashKeepsVerdicts ==
  Running /\ ~pending /\ ~overtaken =>
    \A g \in loaded :
      LET back == Booted(g, file[g])
      IN  /\ back.auto = guard[g].auto
          /\ back.state = "ESCALATED" <=> guard[g].state = "ESCALATED"
          /\ back.state = "ESCALATED" => back.attempt = guard[g].attempt
          /\ Escalated(file[g]) <=> guard[g].state = "ESCALATED"
          /\ guard[g].state = "SNOOZED" =>
               file[g] # NoRecord /\ file[g].state = "SNOOZED"
          /\ back.state = "SNOOZED" <=>
               guard[g].state = "SNOOZED" /\ Deadline(file[g]) > now

(* A dead device gets no free retry from a restart: once its escalation    *)
(* has reached the file, a guard that is set up again is escalated until   *)
(* its device reads OK, the operator acts on it or a partner repairs.      *)
NoFreeRetry ==
  Running => \A g \in condemned \cap loaded : guard[g].state = "ESCALATED"

-----------------------------------------------------------------------------
(* An unload costs no verdict and makes none up: once the writes it armed  *)
(* are made, the file names as escalated the guards that were so when the  *)
(* engines stopped.  It is flushed before they stop, a guard may escalate  *)
(* or be reset in between, and a repair that stops half-way is no failure. *)
UnloadKeepsVerdicts ==
  phase = "down" /\ late = NoWrite /\ left # NoWrite =>
    \A g \in Guards : Escalated(file[g]) <=> g \in left

-----------------------------------------------------------------------------
(* What the documentation says of the program and the code does not do. *)

(* README.md:628: a guard auto-resumes when its snooze elapses; the        *)
(* remaining time survives a restart.                                      *)
SnoozeTimeKept ==
  Running /\ ~pending /\ ~overtaken =>
    \A g \in loaded : guard[g].snoozed => file[g].until = until[g]
=============================================================================
