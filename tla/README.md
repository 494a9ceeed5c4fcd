# Necromancer in TLA+

Necromancer is a Home Assistant integration that guards devices: a *guard*
watches the health of one device and, when a fault persists, repairs it by a
power cycle or by the user's own actions. Guards that share a cause are
*linked*, so that one repairs while the others hold, and guards of network
devices power-cycle a switch port through a shared *PoE fabric*.

This directory holds TLA+ modules of that code, the TLC configurations that
check them on small instances, and TLAPS proofs of what holds for every number
of guards. Paths are relative to `src/custom_components/necromancer/` unless
they start with `docs/` or `README.md`, which are the repository's.

## The system

Everything runs on one asyncio loop. A synchronous function or callback is never
interrupted; a coroutine gives way at every `await`. What is hard in this code is
what can come between two awaits: health events, timers, presses, the repair of a
linked guard, a second caller of the same port, a cancellation.

| Component | State | Operations | Talks to |
|---|---|---|---|
| Guard engine, `core/engine.py`, `core/state.py` | `state` (8 values), `attempt`, `auto`, `_snoozed`, one timer handle, one task slot, `_verify_event`, health waiters | evaluate health, debounce, recovery cycle, verify, cooldown, escalate, snooze, reset, press, start, stop, persist | driver, health source, policy, its link coordinator, store, entities |
| Link coordination, `core/links.py` | `following`, `leader`; the group as ids | announce start and end of a repair, follow, validate afterwards; closure of the configured links | the engines of the group, by direct calls |
| Policies, `core/policies/` | none | may a recovery start | engine |
| Health sources, `core/health/` | configuration | verdict OK / UNHEALTHY / UNKNOWN; report changes | Home Assistant's states and template tracker |
| Drivers, `core/drivers/` | configuration | `can_recover`, `recover` | services, scripts, the fabric |
| PoE fabric, `core/poe.py` | ports, learned `id -> port` cache, port status, in-flight task per port | resolve, learn, repair with coalescing, cycle | switch and status entities; guards and the service `repair_poe_port` |
| Entry set-up, `__init__.py` | store, engines by id | set up, reload, unload, delayed save, services over all guards, issue and registry reconciliation | everything above |
| Configuration flows, `config_flow.py`, `config_flow_helpers/` | guards' and ports' configuration | create, reconfigure, link and unlink, import ports | the entry, which reloads on a change |
| Notifications and actions, `core/notify.py`, `core/actions.py` | none | detached script runs | engine |
| Entities, `sensor.py`, `switch.py`, `button.py`, ... | none of their own | show the engine, switch auto, press recover | engine |

How they interact. A health event calls `_evaluate`. SUSPECT arms the debounce;
when it elapses the guard escalates (policy), follows a repairing partner, or
claims RECOVERING and creates its cycle task. The task calls `notify_start` on
the group, runs the attempts (`can_recover`, `recover`, an optional reload, the
verification) and ends in COOLDOWN or ESCALATED; its `finally` block calls
`notify_done`, upon which each follower validates its own device in a task of its
own. A `poe_port` driver calls `PoeFabric.repair`, which creates the port's cycle
task or joins the one in flight.

What makes each component correct:

* engine: a state that waits for a timer has that timer armed, a state that shows
  work has a task or a leader behind it; a fault that stays is answered; tasks
  end; attempts are bounded; auto off means off; an idle state agrees with health;
* links: linked guards do not repair the same cause in parallel; a follower is
  told of the end of every cycle; it is not told of somebody else's;
* fabric: one cycle per port; a caller gets the verdict of a cycle that ended
  after it called; the status tells whether a cycle runs and whether the power is
  back; never the port of another device;
* persistence: what is restored is a state the guard was in; a snooze survives
  a restart; a reload does not let an old snapshot win;
* configuration: the group is the symmetric, transitive closure of the configured
  links, and an unlink removes the guard from it;
* ports and issues: an import replaces by label and loses nothing; the issues are the
  problems of the configuration as it is.

## Modules

| Module | Models |
|---|---|
| `DeviceEngine` | one guard as a record, and the synchronous functions of `engine.py` and `links.py` as operators from a record to a record. No behaviour of its own |
| `GuardGroup` | all running guards under the scheduler: one action per callback, service, and stretch of a task between two awaits. EXTENDS `DeviceEngine` |
| `RepairTurns` | the abstract specification of guard linking: guards take turns |
| `GuardTurns` | the mapping of a guard to its turn, and the refinement: `GuardGroup` implements `RepairTurns` |
| `EntryLifecycle` | the entry around its guards: store, delayed writes, unload, crash, shutdown, set-up. EXTENDS `GuardGroup`, whose actions are its guards' steps while the entry runs |
| `LinkGroups` | `link_components`: what a group is, and the search that finds it |
| `GuardFlows` | the dialogs that configure guards, the subentries, and the reload that makes engines of them. EXTENDS `LinkGroups` |
| `PoeFabric` | callers of `repair`, cycle tasks, ports |
| `SharedCycles` | the abstract specification of coalescing: callers wait for a cycle, and its end answers them |
| `PoeCalls` | the mapping of a call to the answer it has coming, and the refinement: `PoeFabric` implements `SharedCycles` |
| `PortLists` | the list of ports and what the form and the import accept |
| `PortOptions` | the options dialog that edits the list. EXTENDS `PortLists` |
| `ConfigIssues` | the repair issues: what is a problem, and everything that makes the reconciler run or miss it. EXTENDS `PortLists` |
| `...Proofs` | theorems about `GuardGroup` (`GuardGroupProofs`, `GuardHealthProofs`), `GuardTurns`, `EntryLifecycle`, `GuardFlows`, `PoeFabric` with `PoeCalls`, `PortOptions`, `ConfigIssues` |
| `MC...` | instances for TLC: constants that are functions, symmetry |

How they fit together. `GuardGroup` takes the groups as a constant, `Partners`, and
assumes of it what `GuardFlowsProofs` proves of the engines that `GuardFlows` sets up
(`GroupsAgree`). `EntryLifecycle` contains `GuardGroup`, so its restarts begin in
whatever state the guards have come to. `PoeFabric` tells `GuardGroup` that a driver
may be cancelled from outside (`Cancellable`). `ConfigIssues` and `PortOptions`
share the list of ports.

### The guard

The record of a guard is the part of the engine's attributes that decides what
it does next:

| Field | Code |
|---|---|
| `state`, `attempt`, `auto`, `snoozed` | the attributes of these names |
| `timer` | `_unsub_timer`, named by the callback it will run |
| `leader` | `links.leader`; `links.following` is set and cleared with it |
| `task` | `_cycle_task`, by the await the coroutine is suspended at |
| `ok` | the coroutine's local verdict (`driver_ok`, `leader_success`) |
| `event` | `_verify_event`: absent, clear or set |
| `told` | the verdict with which the health subscription reported last; a template's tracker reports what differs from it |
| `live` | the engine is in the registry `_engines`, where its partners look for it (`Engines`) |
| `astray` | history, read by no step: when the guard came to follow its leader, that repaired nothing (`RepairsNothing`) |

`attempt` saturates at `AttemptCap`, the only bound in the model; `AttemptCap` is
larger than every `max_attempts`, so no comparison in the code can see it.

Actions. `HealthEvent` is an event of a watched entity: the verdict changes or, as with
an attribute, stays, and the guard evaluates in the same step. A template's value can
change before its tracker renders it (`TemplateDrift`); the tracker reports another
result than its last one (`TemplateEvent`), which may be the same verdict, but must
report only when the verdict is another than the one told last. `DebounceDone`,
`CooldownDone`, `SnoozeDone` are the timer callbacks; a timer may fire at any
time after it was armed, so all orders of timers and of slow drivers are covered.
`SetAuto`, `ResetGuard`, `SnoozeGuard`, `UnsnoozeGuard`, `ManualRecover` are the
operator. `CycleBegins` to `VerifyTimesOut` and `ValidationBegins` to
`ValidationTimesOut` are the two coroutines, cut at their awaits; whatever ends a
cycle runs its `finally` block (`CycleStep`) in the same step, because the code
does not await in between. A wait that was set (`VerifyWakes`) and its timeout
may race, and the verdict may have changed again before the task resumes.

A created task is run by a later step. Home Assistant may also start it at once;
that is the behaviour in which nothing comes in between. `Partners` is the
group relation that `link_components` computes; the theorems only use that it is
symmetric and irreflexive. A driver may return either verdict or raise at any
time; for the guards in `Cancellable` it may also be cancelled from outside, which
`PoeFabric` shows can happen to a `poe_port` guard.

### The fabric

`call[c]` is the call of `repair` that caller `c` awaits, `cycle[c]` the task
that `c` created, cut at its awaits; `inflight[p]` names the creator of the task
registered for port `p`, so `task.done()` is the point of that cycle. The end of
a task and the return of its creator (which unregisters the port) are different
steps, and joiners get the result after the creator has resumed, in the order in
which asyncio runs the task's callbacks. `Cancel` cancels a caller: the creator
takes its task with it, a joiner is shielded. `reports[p]` is what the port's id
source reads; a change relearns the cache in port order. Whether the status
entity reads as expected in time is left open, and so is whether a service call
that is cancelled still takes effect.

`SharedCycles` knows only who waits for whose cycle. Its `Finish` answers everyone
who waits in one step; in the fabric the result first sits in the finished task.
`AnswerOf` closes the gap: it is what a call was told or will be told when it
resumes, so the return of the creator and of the joiners changes no answer, and the
newcomer that creates a cycle in between gets none.

### The entry

`phase` is where the entry is: "down" (no engines), "up", "flushed" (unloading: the
store has been flushed and the platforms are awaited; the engines still run) or
"stuck" (a platform would not unload). `file` is what the store's file holds of each
guard: an escalation with its attempts, a snooze with its deadline, the auto switch;
every other state is transient and not restored. `pending` is the delayed write of
the running store. `late` is one that was armed between the flush and the stop: it
stays armed on the old store and writes what the stopped engines held, after the new
set-up. All writes have the same delay, so an older write runs first. The model keeps
one old store with a write armed, so a second reload waits for it.

A clean shutdown makes the armed writes and does not unload the entry; a crash makes
none. `Start` builds every engine from its record (`Restored`), re-arms or ends its
snooze (`Rearmed`) and evaluates it; a guard in `failing` raises and gets no engine.
`now` is a clock that runs while Home Assistant is down and stops at `Horizon`.
Any guard's set-up may raise, a linked one's too: its partners keep its id and find
no engine. The guards whose auto switch is turned at all (`Switched`) are a bound of
the instances.

`Stop` runs `async_stop` on every engine and what the cancellation leaves to do
(`Stopped`): the finally block clears the task and, with `_stopping` set, reports
nothing. `late` is what the stopped engines are written as, so a report that slipped
through would be in it.

Three history variables say what the properties need and no step reads: `condemned`
(guards whose escalation has reached the file, until something excuses them: a device
that reads OK, the operator, a partner's repair), `left` (the guards that were
escalated when the last unload stopped them) and `overtaken` (a late write has
reached the file since the last write of the running store).

### The configuration

`stored[g]` is the data of a subentry as far as it concerns others: whether the guard
recovers and whom it links. `form[d]` is the last form of a dialog with what it
offered when it was shown; two dialogs may be open, and guards may be deleted or
changed under them. The submission runs `_apply_link_removals` on the links as they
are at that moment (`Updated`). An addition stays at one end. A change of a subentry
notifies the update listener while there is one (`reload`); `Unload` and `SetUp` are
separate steps, and dialogs may write in between. `parted` is a history variable:
the pairs that a form has taken apart - it offered the one for the other and came back
without it, or turned the guard notify-only - and none has linked since.

`Component` defines the group of a guard without a search: the guards that no set
closed under links can part from it. `Explore` is the loop of `link_components`.

### The ports and the issues

A port keeps its label, one entity (the code has a switch and a status entity, both
checked and watched alike) and in how many ways it tells an id. The dialog works on a
copy, `work`. In `ConfigIssues` a dialog is one step, `SavePorts`, since nothing
there depends on what is not saved.

An entity is loaded, unloaded (registered, without a state), disabled or gone. A state
that appears or disappears is an event, to which the entry listens for the entities
that its last set-up found in the configuration (`Watched`). A registration that
changes while there is no state is no event; the history variable `quiet` holds such
entities until the issues are reconciled for another reason. What a guard
reads is a rendering of its health source: the entities read, and whether the verdict
is UNKNOWN. The state of an entity always reads that entity; a template has a set of
possible renderings and takes another one whenever values change (`Rerender`) or an
entity comes or goes. `loaded.view` is what the sources rendered to at the set-up, from
which the watched entities are taken, and `view` what they render to now, from which
every reconciliation takes the problems. So a template that branches may read what is
not watched, as in the code. `flipped` holds the guards whose source has rendered
otherwise since the last reconciliation.

## Runs

| Run | Instance | Shows |
|---|---|---|
| `group_trio` | 3 linked guards, alike, 1 attempt, no health check | `WorkMatchesState`, `OneAutomaticLeader`, `IdleStateTellsHealth`, `CycleEndReleasesFollowers` |
| `group_live` | 2 linked guards, fair: one with a health check and 2 attempts, one with a template source, a reload, no health check, 1 attempt and a driver that may be cancelled | `TypeOK`, `TimerMatchesState`, `AttemptBudget`, `WorkMatchesState`, `AutoOffIsOff`, `TasksEnd`, `FaultIsAnswered`, and the refinement `RefinesTurns` |
| `poe_shared` | 2 callers, 2 devices, 2 ports | `TypeOK`, `VerdictIsFresh`, `StatusTellsPort`, `RightPort` |
| `entry_restart` | a recovering guard and a notify-only one whose set-up may raise, not linked; a clock of two ticks | `BootIsConsistent`, `CrashKeepsVerdicts`, `NoFreeRetry` |
| `entry_linked` | 2 linked guards, the set-up of one may raise; no snoozes, auto stays on | `BootIsConsistent`, `NoFreeRetry`, `UnloadKeepsVerdicts` |
| `guard_flows` | 3 guard ids, 2 dialogs, every set-up may raise | `TypeOK`, `PartedStayApart`, `EnginesAgree`, `EnginesAreCurrent`, `SearchFindsGroup` |
| `port_options` | 2 labels, lists of up to 3 ports | `TypeOK`, `MergeIsUpsert` |
| `config_issues` | 2 entities, a guard of a state with a switch, a template guard with a port that reads both or, on its other branch, one; lists of up to 1 port | `TypeOK`, `IssuesAreCurrent` |
| `group_follow`, `poe_cancel`, `entry_snooze`, `issues_boot` | pairs of guards; 3 callers; one guard; as `config_issues` | what the documentation says and the code does not do, see below |

Why the bounds are enough to be interesting: three guards are the least number at
which a guard meets two others that act at the same time (two followers of one leader,
a leader and a validating follower, a pressed guard beside an automatic one); the pair
of `group_live` has each option of a guard on one side and its opposite on the other,
and two attempts so that the retry loop goes round; only it has the verification of an
own cycle, which would make `group_trio` half as large again. Two callers suffice for a joiner,
a newcomer between the end of a cycle and the return of its creator, and an overlap;
two devices and ports for re-cabling, an ambiguous report and a stale cache. A record
of the store concerns one guard, so two of different kinds suffice for the restarts;
two ticks separate a snooze that ended while the entry was down from one that did not.
Two linked guards are a leader with a follower, which an unload or a crash stops
together; the snoozes and the switch, which add nothing to that, are left to the
unlinked run. Three guards are the least number with a link that is only implied, and
two dialogs the least that can overlap. An import of three ports meets a label twice
and a label that is there already. Two entities let a template lose one of what it
reads or both, lose one that only its other branch reads, and let the event of one
entity reconcile the issue of another; problems of two ports do not meet, so one is
enough there. `group_trio`, `guard_flows`, `port_options` and the fabric's runs reduce
by symmetry (no liveness is checked there); ports of the fabric are ordered and are
not reduced.

What the properties leave out, and why. `OneAutomaticLeader` allows two overlapping
cycles when the operator pressed one of the recover buttons: `async_manual_recover`
does not look at the partners. `WorkMatchesState` has two exceptions, both of which
end in nobody carrying the repair on: a cancelled driver call (`Abandoned`) and a
guard whose debounce came to follow a leader that repaired nothing (`astray`), which
is the finding of `group_follow`. `FaultIsAnswered` does not count a follow as an
answer. It excepts the same two, and a template guard that was told of this very fault
and looked when the template rendered otherwise (see the observations).
`AttemptBudget` is restricted to guards that cannot be taken into a follow when they
have escalated (see the observations); an automatic cycle of a linked guard is outside
it. No guard of `group_live` is without partners, so for those the bound rests on the
theorem `WithinBudget` alone; the notify-only policy is run in `entry_restart`. `IdleStateTellsHealth` leaves templates out because a template may be ahead of its
tracker. `StatusTellsPort` leaves out a port from an overlap or a cancelled cycle
until its next undisturbed cycle starts; in that time its status may be wrong.
`CrashKeepsVerdicts` waits for the write that is armed, and for the next one after a
late write has put an older snapshot into the file; it says nothing of the deadline of
a snooze that is snoozed again, which is the finding of `entry_snooze`.
`UnloadKeepsVerdicts` is about the file once the writes of the unload are made: until
then a set-up may read the flushed one. `PartedStayApart` is about direct links, and
of the partners that the form offered: that a third guard which both still link keeps
them in one group is what docs/arch/timing.md:256 says. `IssuesAreCurrent` has three
exceptions, in each of which the code falls short of docs/arch/timing.md:274-275:
entities in `quiet`; templates that read beyond what they read at the set-up or have
rendered otherwise since (`ReadsAsLoaded`); and the issue of a `switch_cycle` action,
whose switch is checked and not watched.

### Fairness

`GuardGroup!Fairness`: an armed timer fires, a task whose await is over is
resumed, and a template tracker reports while the verdict is another than the one it
told last - not when a result has come back that it told already, because
`async_track_template_result` compares. The first two are what asyncio does. It
also assumes that a driver, a `can_recover` check and a reload return or raise at
some time; the code sets no timeout on them, so a script that never ends would
keep its guard in RECOVERING. The environment and the operator are under no
fairness: a device need not recover, and the liveness properties hold under any
pattern of health changes, presses and snoozes. `Cycle` and `Validation` are fair
as a whole, since of their actions those of one suspension point are alternatives.
No liveness is checked of the fabric yet.

### Findings

| Run | What the code does |
|---|---|
| `group_follow` | `find_repairing_partner` returns partners that only validate; a guard that follows one is never released |
| `poe_cancel` | cancelling the creator of a port cycle cancels the callers that joined it |
| `entry_snooze` | snoozing a snoozed guard again does not save its new deadline; after a crash the old one counts |
| `issues_boot` | an entity that loads during the start of Home Assistant makes the reconciler flag those that have not loaded yet |

`PROJECT.json` quotes the text each one contradicts.

Observations that the models show on the way and no run is spent on:

* `links.py:101`: besides a validating partner, `find_repairing_partner` returns one that
  a cancelled driver call has left in RECOVERING; nobody releases its followers either.
* `health/template.py:79`: a template that goes bad, good and bad again before its tracker
  renders is not reported a second time. A guard whose debounce, cooldown, snooze or
  validation ends in between settles to OK, and stays there until the template renders
  otherwise.
* `__init__.py:418`, docs/arch/timing.md:274-275: a template that takes another branch reads
  entities that the set-up did not watch. Their issue is not raised when they vanish, or
  stays when they come, until another watched entity comes or goes.
* `config_flow.py:428`: a partner that was linked while a form was open, and that the form
  never offered, is parted by its submission; the comment there speaks of the group that
  the form showed.
* `links.py:168`: an escalated guard that follows keeps its used-up attempts; its next
  own cycle is attempt `max_attempts + 1`.
* `engine.py:996`: escalating while health already reads OK does not clear until
  another health event.
* `engine.py:833`: a cancelled driver call leaves RECOVERING behind, without task,
  timer or verdict; it happens to a `poe_port` guard as `poe_cancel` shows.
* `engine.py:978`: the end of the cooldown sets OK on an unknown verdict, not BLIND.
* `poe.py:331`: a creator unregisters whatever is registered for its port when it
  returns, also the newer cycle of a caller that came between the end of the task
  and that return; the next caller cycles the port in parallel.
* `__init__.py:229`: a guard whose set-up raised is missing from the next write, and
  with it its stored escalation and snooze.
* `drivers/switch_cycle.py:59`: the issue of a missing switch stays after the switch
  has appeared, until another watched entity comes or goes.

## Proofs

For every set of guards, every link relation that is symmetric and irreflexive, every
choice of options, clocks and dialogs, any number of ports and callers, and lists and
imports of any length:

| Module | Theorem | Statement |
|---|---|---|
| `GuardGroupProofs` | `TypeCorrect` | `Spec => []TypeOK` |
| | `TimersMatch` | `Spec => []TimerMatchesState` |
| | `WorkMatches` | `Spec => []WorkMatchesState` |
| | `OneLeader` | `Spec => []OneAutomaticLeader` |
| | `CycleEndReleases` | `Spec => CycleEndReleasesFollowers` |
| `GuardHealthProofs` | `IdleTellsHealth` | `Spec => []IdleStateTellsHealth` |
| | `WithinBudget` | `Spec => []AttemptBudget` |
| `GuardTurnsProofs` | `TakesTurns` | `Spec => RefinesTurns` |
| | `AutoOffStaysOff` | `Spec => AutoOffIsOff` |
| `EntryLifecycleProofs` | `BootConsistent` | `EntrySpec => []BootIsConsistent` |
| | `VerdictsSurvive` | `EntrySpec => []CrashKeepsVerdicts` |
| | `NoRetryAfterRestart` | `EntrySpec => []NoFreeRetry` |
| | `UnloadKeeps` | `EntrySpec => []UnloadKeepsVerdicts` |
| `GuardFlowsProofs` | `TypeCorrect` | `Spec => []TypeOK` |
| | `PartedApart` | `Spec => []PartedStayApart` |
| | `GroupsAgree` | `Spec => []EnginesAgree` |
| | `NoChangeIsLost` | `Spec => []EnginesAreCurrent` |
| | `SearchIsRight` | `Spec => []SearchFindsGroup` |
| `PortOptionsProofs` | `TypeCorrect` | `Spec => []TypeOK` |
| | `MergesAsUpsert` | `Spec => MergeIsUpsert` |
| `ConfigIssuesProofs` | `TypeCorrect` | `Spec => []TypeOK` |
| | `AlwaysCurrent` | `Spec => []IssuesAreCurrent` |
| `PoeFabricProofs` | `TypeCorrect` | `Spec => []TypeOK` |
| | `AlwaysFresh` | `Spec => []VerdictIsFresh` |
| | `AlwaysTruthful` | `Spec => []StatusTellsPort` |
| | `FindsRightPort` | `Spec => RightPort` |
| | `SharesCycles` | `Spec => RefinesShared` |

Assumptions: the named ones of the modules, which say what the constants are; TLC
evaluates them on every run. The one of `GuardGroup` about `Partners` is what
`GroupsAgree` and the lemma `GroupsAreCliques` behind it establish of the code that
computes the groups. Guards are finitely many in `GuardFlows`, as the subentries of an
entry are: the search of a group ends for no other reason. `GuardGroup` does not need
it.

The guards. The inductive invariant is `Consistent`, the conjunction of `TypeOK`,
`TimerMatchesState` and `StateFitsWork`, the part of `WorkMatchesState` that is about
one guard at a time. None of them is inductive alone: that a debounce finds an idle
guard needs the agreement of timer and state, that a follower has no task needs the
agreement of state and work, and both need the types. Since each handler is an
operator on one record, the proof has two layers: for every handler a lemma that it
takes a consistent record to a consistent record (`Fit`), in the situations in which
the code calls it; then one step per action of `Next`, in which the lemmas about
`Update` and `CycleStep` carry the records of all guards along.

`OneLeader` rests on it. Every step but the debounce and the press is *quiet*
(`NoNewCycle`): no guard enters a cycle of its own and no press is forgotten while
its cycle runs. A press marks its guard. A debounce starts a cycle only if
`RepairingPartners` is empty; by `Consistent` a partner in a cycle of its own would
show RECOVERING or VERIFY and follow nobody, so it would be in that set.

`WorkMatches` adds `LeadersAtWork`, which relates two guards: the leader of one that
follows, and is not astray, is in a cycle of its own. A guard begins to follow in two
ways. When a partner's cycle begins, that partner has just made its first attempt. When
a debounce finds a leader, that shows RECOVERING or VERIFY and follows nobody, so by
`StateFitsWork` it has a task or was abandoned: its own cycle, or else `RepairsNothing`
marks the follower. From then on the leader may leave its cycle in no step but the one
that releases its followers (`CycleStepKeepsWork`), and no other step starts a follow
(`FollowersStay`).

`CycleEndReleases` rests on it too. The callbacks and services end no cycle
(`EndsNoCycle`): a guard in its own cycle has no timer, no snooze and nobody to
follow, so the handlers that could stop it are not enabled. A step of the cycle
that leaves no task behind is its finally block, which releases every partner, and
by `Consistent` a guard follows only its partners. A cycle of another guard is left
as it is.

`IdleTellsHealth` is not inductive on top of `Consistent` alone either: what makes
it so is stated for one guard (`Calm`) - a handler that leaves a guard idle has
evaluated its health last, or has not touched it - and carried over all actions
(`TameStep`), with the snooze apart. `EntryLifecycleProofs` uses the same lemma.

`WithinBudget` strengthens the bound to `Budget`: such a cycle is created with no
attempts counted, because a guard without partners waits with none (`Waiting`), and a
press sets them to none. It needs that such a guard never has a partner's repair to
check, which would send it back to monitoring with a count left over, and that the end
of a cycle by hand is forgotten with its task.

The refinement. `TurnOf` reads a guard's turn off the await its task is suspended at,
and its leader is whom it follows. The proof goes action by action to a step of
`RepairTurns` or a stutter: a debounce or a press begins a repair or follows, the start
of a cycle lets idle partners join, its finally block is the one step in which the
repair ends and every follower turns to its check. `Consistent` gives the guards
of `RepairTurns`: a guard that begins is idle, and a follower has no task. Where
the driver may be cancelled, a guard that was abandoned in RECOVERING still attracts
followers; `Abandonable` says so in the abstract specification.

`AutoOffStaysOff` reuses it: a step that takes no turn changes no leader. Of the
others only a debounce and the start of a partner's cycle make a guard follow, and
both look at the switch in the step in which they decide.

The restarts. `Settled` adds to `Consistent` that nothing is loaded while the entry is
down, that a snooze has a deadline and that the loaded guards tell their health; it
is inductive because `Booted` gives a consistent record for any record of the
file, also one from a late write, and the evaluation does the rest. `FileInSync`
says that with no write armed the file matches the guards; the steps that do not
arm a write change nothing that it holds - but for time, which may end a snooze whose
record is then not brought back. `VerdictsFiled` says that the file, or the write that
is to come, still holds the escalation of every condemned guard, and that the guard has
it while it runs: a lemma for each step of the guards (`GuardsLeaveExcused`) says that
whoever leaves ESCALATED by it reads OK, was acted on by the operator or follows a
partner. `UnloadFiled` follows the write of an unload: while it is armed it names the
escalated guards, and with none armed the file does, because what has changed since
the flush would have armed one, and stopping a guard does not change its state.

The groups. A component is the least closed set around its guard, so two components
that meet are equal, and a group is a clique: partners of a guard are partners of
each other. `PartedApart` needs that a reconfigured guard's former partners, and
those who would link it at the other end, are all in the group that
`_apply_link_removals` reads at that moment: `LinkedGuardsAreGrouped`.

The search. `link_components` keeps a stack and the group seen so far. `Holds` names
the sets that contain both, and the links of every member that is not seen yet: each
turn of the loop has the same ones (`LeastSetIsSolution`), and when the stack is empty
the least of them is the group seen. That the loop ends with the least set of its
start is by well-founded order (the library's `WFMin`): of the states of the loop
where it would end with another, there is one with the fewest guards unseen and, of
these, the smallest stack (`VisitFindsLeastSet`). For a start with nothing seen the
sets are the closed ones around the guard, and the least is its component.

The ports dialog. `MergesAsUpsert` is about a fold over the import, which the library
defines by choosing a function that satisfies its recursive equation. `FoldExists`
shows that there is one for an import of any length: a shortest import without one
would contradict `FoldGoesOn`, which extends the function by one port. `MergeSteps`
then says that an import is taken port by port, in its order. What each step keeps is
`IsUpsert`: the list so far has no label twice, the labels of the old list and of the
imported ports so far, and of each label the port imported last or the old one.

The issues. `IssuesAreCurrent` compares them with the world of now, but they were
computed in an earlier one, from earlier renderings. `IssuesReflectWatched` says of
which: a world that every watched entity is still in, unless it changed quietly, and
renderings that every guard which is not `flipped` still has. The lemmas `HealthReads`
and `PortReads` say that problems depend on no other entity than those read, and
`ReadsAsLoaded` that those are watched - the switch of an action is the exception
that the property makes. `DueOfGuard` and `DueOfLabel` say that what a guard or a label
is shown is its own problem, for which guards and labels must be told apart.

The fabric. `Wired` says how calls and cycles hang together: a caller awaits a cycle
of its own exactly from its creation to its own return, and a port registers only a
cycle of that port - so the creator's name, reused for its next call, never stands for
an old cycle. `Witnessed` adds that whoever waits for a cycle that came online was
there when it did, which gives `VerdictIsFresh`. `Truthful` strengthens
`StatusTellsPort` for a port whose cycles did not overlap and were not cut off: it has
at most one live cycle, and its power is back before that cycle can succeed. The lemma
`Resolution`, on which the types and `RightPort` rest, says which port an id resolves
to: of several ports that report it, the one that relearning keeps is the last of the
list (`LastPort`, by well-founded induction on the positions).

Sharing. `SharesCycles` maps the end of a task to `Finish`, a call to `Refuse`,
`Start` or `Join`, a cancellation to `Cancel` and a return to `Return`; every other
step stutters. `Owned` strengthens `Wired` for it: a finished task has a result, and a
task is asked to end exactly when its own creator was cancelled. This gives that a
cycle ends "cancelled" if and only if its creator was cancelled, and with `Wired` that
the creator of a cycle is idle, so that nobody still waits for an older cycle of that
name, when it creates the next.

`SharesCycles` says nothing of how many cycles a port has: `SharedCycles` lets cycles
overlap, as those of one port do after the observation about `poe.py:331`. It is
proved and on no run: `poe_shared` would take more than twice as long with it, and
what callers share depends on neither the ports nor the devices that make that run
large.

Only model-checked: the liveness properties `TasksEnd` and `FaultIsAnswered`, which the
prover cannot do. Every invariant and action property of a passing run is a theorem.

## Not modelled

Wording, logging, statistics, timestamps, entity refreshes and notifications:
nothing reads them back. Durations, except as the order of events and for snoozes.
The names of guards and the device they are linked with: `_name_taken` is checked when
a dialog leaves its first step, so two open dialogs can give the same name, which
nothing but the display uses. The cleaning of Home Assistant's device and entity
registries after a set-up. The waiters of `wait_for_health`. The fabric across a
reload: its cycles run on with the port data they began with, and the ports of a list
with a duplicate label share status and in-flight cycle. `can_recover` is taken not
to raise, as none of the drivers' does on the errors it expects. A listener that
answers the *recovering* event of a port by repairing that very port, from within
the event, is not considered.

## Plan

1. The guards and their group, the fabric, the first theorems (done).
2. The entry's lifecycle, the refinement to turn-taking, the configuration of guards
   and groups with their theorems, the ports and the issues (done).
3. Proofs: the issues, the fabric, the switch and the attempts, the ports dialog, the
   search for a group, the sharing of cycles (done).
4. The `wait_for_health` waiters; the fabric with `set_ports` while cycles run.
