---------------------------- MODULE ConfigIssues ----------------------------
(***************************************************************************)
(* The repair issues that tell the user what is wrong with the             *)
(* configuration of the guards and the ports.  They are reconciled when the*)
(* entry has been set up and Home Assistant is started, and when the state *)
(* of a watched entity appears or disappears (__init__.py, config_problems *)
(* in core/engine.py, port_problems in core/poe.py).                       *)
(*                                                                         *)
(* An entity is "loaded" (it has a state), "unloaded" (registered, without *)
(* a state), "disabled" (registered so) or "gone" (neither registered nor  *)
(* with a state).                                                          *)
(*                                                                         *)
(* What a health source reads is what it renders to at the moment: the     *)
(* state of an entity always reads that entity, a template may read other  *)
(* entities whenever their values take it down another branch.             *)
(***************************************************************************)
EXTENDS PortLists

CONSTANTS StateGuards,    \* guards whose health is the state of an entity
          TemplateGuards, \* guards whose health is a template
          Entities,
          Sources,        \* what the health of each guard may be set to
          SwitchGuards, SwitchOf, \* guards with the driver switch_cycle
          PoeGuards       \* guards with the driver poe_port

Guards == StateGuards \cup TemplateGuards

(* One result of a health source: the entities it has read, and whether    *)
(* its verdict is UNKNOWN.  A source is the set of its possible results.   *)
Rendering == [entities : SUBSET Entities, unknown : BOOLEAN]

StateOf(e) == {[entities |-> {e}, unknown |-> FALSE]}

Nothing == [entities |-> {}, unknown |-> FALSE]

ASSUME ConfigIssuesAssumption ==
  /\ StateGuards \cap TemplateGuards = {}
  /\ Guards \cap Labels = {}
  /\ PortEntities \subseteq Entities
  /\ Sources \in [Guards -> SUBSET ((SUBSET Rendering) \ {{}})]
  /\ \A g \in StateGuards : Sources[g] \subseteq {StateOf(e) : e \in Entities}
  /\ SwitchGuards \cup PoeGuards \subseteq Guards
  /\ SwitchGuards \cap PoeGuards = {}
  /\ SwitchOf \in [SwitchGuards -> Entities]

VARIABLES
  ports,   \* the list in the entry's options
  world,   \* how each entity is
  source,  \* stored: the health source of each guard, {} if deleted
  loaded,  \* the configuration that the last set-up used, and what the
           \* sources rendered to then
  view,    \* what the sources of the running entry render to now
  phase,   \* of the entry: "down", "up" or "removed"
  started, \* Home Assistant has started
  reload,  \* the update listener has scheduled a reload
  issues,  \* our issues, as pairs of a guard or a label and a key
  quiet,   \* history: entities that changed without an event since the
           \* issues were last reconciled
  flipped  \* history: guards whose source has rendered otherwise since then

home == <<world, started>>
shown == <<issues, quiet, flipped>>
vars == <<ports, world, source, loaded, view, phase, started, reload, shown>>

Stored == [ports |-> ports, source |-> source]

Unrendered == [g \in Guards |-> Nothing]

(* An entry that is not set up runs on nothing.                            *)
Unloaded ==
  [ports |-> << >>, source |-> [g \in Guards |-> {}], view |-> Unrendered]

(* What the sources may render to; that of a deleted guard does not.       *)
Views(src) ==
  {v \in [Guards -> {Nothing} \cup UNION {src[g] : g \in Guards}] :
     \A g \in Guards : IF src[g] = {} THEN v[g] = Nothing ELSE v[g] \in src[g]}

-----------------------------------------------------------------------------
(* The problems of a configuration c in a world w, with the sources        *)
(* rendered to v.                                                          *)

Gone(w) == {e \in Entities : w[e] = "gone"}
Disabled(w) == {e \in Entities : w[e] = "disabled"}
Absent(w) == Gone(w) \cup Disabled(w)

(* DeviceEngine.config_problems, the part about health: it renders anew.   *)
HealthProblems(g, w, r) ==
  IF g \in StateGuards
  THEN {<<g, "health_entity_missing">> : e \in r.entities \cap Gone(w)}
         \cup {<<g, "health_entity_disabled">> : e \in r.entities \cap Disabled(w)}
  ELSE IF r.entities # {} /\ r.entities \subseteq Absent(w) /\ r.unknown
  THEN {<<g, "health_template_blind">>}
  ELSE {<<g, "health_template_missing_entity">> : e \in r.entities \cap Absent(w)}

(* config_errors of the drivers: a switch without a state, no ports at all.*)
ActionInvalid(g, c, w) ==
  \/ g \in SwitchGuards /\ w[SwitchOf[g]] # "loaded"
  \/ g \in PoeGuards /\ c.ports = << >>

ActionProblems(g, c, w) ==
  IF c.source[g] # {} /\ ActionInvalid(g, c, w)
  THEN {<<g, "recovery_action_invalid">>} ELSE {}

(* PoeFabric.port_problems. *)
PortProblems(c, w) ==
  {<<p.label, "port_no_id">> : p \in {q \in ToSet(c.ports) : q.ways = 0}}
    \cup {<<p.label, "port_entity_missing">> :
            p \in {q \in ToSet(c.ports) : q.entity \in Absent(w)}}

Problems(c, w, v) ==
  PortProblems(c, w) \cup
    UNION {HealthProblems(g, w, v[g]) \cup ActionProblems(g, c, w) : g \in Guards}

(* _reconcile_issues: ours become exactly the problems of now.             *)
Reconcile(c, w, v) ==
  /\ view' = v
  /\ issues' = Problems(c, w, v) /\ quiet' = {} /\ flipped' = {}

-----------------------------------------------------------------------------
Init ==
  /\ ports = << >>
  /\ world \in [Entities -> {"unloaded", "disabled", "gone"}]
  /\ source \in [Guards -> UNION {Sources[g] : g \in Guards}]
  /\ \A g \in Guards : source[g] \in Sources[g]
  /\ loaded = Unloaded /\ view = Unrendered
  /\ phase = "down" /\ started = FALSE /\ reload = FALSE
  /\ issues = {} /\ quiet = {} /\ flipped = {}

(* The entry is set up with what is stored; _validate_configs runs at once *)
(* unless Home Assistant is still starting.  The entities to watch are     *)
(* those that the sources read at this moment.                             *)
Load ==
  /\ \E v \in Views(source) :
       /\ loaded' = [ports |-> ports, source |-> source, view |-> v]
       /\ IF started THEN Reconcile(Stored, world, v)
          ELSE view' = v /\ UNCHANGED shown
  /\ phase' = "up"
  /\ reload' = FALSE
  /\ UNCHANGED <<ports, source, home>>

SetUp == phase = "down" /\ Load

(* _async_reload_entry *)
Reload == phase = "up" /\ reload /\ Load

(* async_at_started runs the _validate_configs that set-up deferred.       *)
HomeStarts ==
  /\ ~ started
  /\ started' = TRUE
  /\ IF phase = "up" THEN Reconcile(loaded, world, view)
     ELSE UNCHANGED <<view, shown>>
  /\ UNCHANGED <<ports, source, loaded, phase, reload, world>>

PortsWatched == {p.entity : p \in ToSet(loaded.ports)}

(* Mutant: what the templates read is not watched.                         *)
WatchedDirectly ==
  PortsWatched \cup UNION {loaded.view[g].entities : g \in StateGuards}

(* The entities whose state the last set-up subscribed to.                 *)
Watched == PortsWatched \cup UNION {loaded.view[g].entities : g \in Guards}

(* _on_watched_change, for entities whose state has appeared or gone; the  *)
(* templates that read them may render otherwise with it.                  *)
Notified(changed) ==
  IF phase = "up" /\ changed \cap Watched # {}
  THEN \E v \in Views(loaded.source) : Reconcile(loaded, world', v)
  ELSE UNCHANGED <<view, shown>>

-----------------------------------------------------------------------------
(* What happens to the entities. *)

Unaffected == UNCHANGED <<ports, loaded, phase, started>>

(* Values change, and a template renders otherwise: its tracker evaluates  *)
(* the guard's health, the issues are not reconciled.                      *)
Rerender(g) ==
  /\ phase = "up"
  /\ \E r \in loaded.source[g] \ {view[g]} : view' = [view EXCEPT ![g] = r]
  /\ flipped' = flipped \cup {g}
  /\ UNCHANGED <<world, source, reload, issues, quiet>> /\ Unaffected

(* An entity gets a state: its integration loads it. *)
Appear(e) ==
  /\ world[e] \in {"unloaded", "gone"}
  /\ world' = [world EXCEPT ![e] = "loaded"]
  /\ Notified({e})
  /\ UNCHANGED <<source, reload>> /\ Unaffected

(* An entity loses its state: it is disabled or removed. *)
Disappear(e, how) ==
  /\ world[e] = "loaded"
  /\ world' = [world EXCEPT ![e] = how]
  /\ Notified({e})
  /\ UNCHANGED <<source, reload>> /\ Unaffected

(* The registration of an entity without a state changes: no event tells.  *)
ChangeQuietly(e, how) ==
  /\ world[e] \in {"unloaded", "disabled"} /\ how # world[e]
  /\ world' = [world EXCEPT ![e] = how]
  /\ quiet' = quiet \cup {e}
  /\ UNCHANGED <<source, view, reload, issues, flipped>> /\ Unaffected

(* The stored configuration of guard g; a change schedules a reload.       *)
Store(new) ==
  /\ source' = new
  /\ reload' = (reload \/ (phase = "up" /\ new # source))

(* _rename_handler: the guards that were loaded with this entity follow it.*)
Followed(e, f) ==
  [g \in Guards |-> IF phase = "up" /\ g \in StateGuards /\ source[g] # {}
                        /\ loaded.source[g] = StateOf(e)
                    THEN StateOf(f) ELSE source[g]]

(* An entity is renamed: the state of the old id goes, that of the new id  *)
(* comes, and guards of its state follow.  Templates and ports do not.     *)
Rename(e, f) ==
  /\ world[e] # "gone" /\ world[f] = "gone"
  /\ world' = [world EXCEPT ![e] = "gone", ![f] = world[e]]
  /\ Store(Followed(e, f))
  /\ IF world[e] = "loaded" THEN Notified({e, f})
     ELSE quiet' = quiet \cup {e, f} /\ UNCHANGED <<view, issues, flipped>>
  /\ Unaffected

-----------------------------------------------------------------------------
(* What the user and Home Assistant do. *)

(* The dialogs of a guard: reconfigure it, delete it ({}).                 *)
Reconfigure(g, src) ==
  /\ phase # "removed" /\ source[g] # {}
  /\ Store([source EXCEPT ![g] = src])
  /\ UNCHANGED <<ports, home, loaded, view, phase, shown>>

(* A save of the options dialog.  Home Assistant reloads when the list is *)
(* not what it was.                                                        *)
SavePorts(list) ==
  /\ phase # "removed"
  /\ ports' = list
  /\ reload' = (reload \/ (phase = "up" /\ ports' # ports))
  /\ UNCHANGED <<home, source, loaded, view, phase, shown>>

(* The running entry is gone, and its issues with it. *)
Forget ==
  /\ loaded' = Unloaded /\ view' = Unrendered
  /\ issues' = {} /\ quiet' = {} /\ flipped' = {}

(* async_unload_entry and async_remove_entry. *)
RemoveEntry ==
  /\ phase # "removed"
  /\ phase' = "removed" /\ reload' = FALSE
  /\ Forget
  /\ UNCHANGED <<home, ports, source>>

(* Home Assistant restarts.  Issues are not persistent; states come back as*)
(* integrations load, and until then only registered entities are known.   *)
Restart ==
  /\ started /\ phase # "removed"
  /\ started' = FALSE /\ phase' = "down" /\ reload' = FALSE
  /\ Forget
  /\ \E registered \in SUBSET {e \in Entities : world[e] = "loaded"} :
       world' = [e \in Entities |-> IF e \in registered THEN "unloaded"
                   ELSE IF world[e] = "loaded" THEN "gone" ELSE world[e]]
  /\ UNCHANGED <<ports, source>>

Next ==
  \/ SetUp \/ Reload \/ HomeStarts
  \/ \E e \in Entities :
       \/ Appear(e)
       \/ \E how \in {"disabled", "gone"} : Disappear(e, how)
       \/ \E how \in {"unloaded", "disabled", "gone"} : ChangeQuietly(e, how)
       \/ \E f \in Entities : Rename(e, f)
  \/ \E g \in Guards :
       \/ Rerender(g)
       \/ \E src \in Sources[g] \cup {{}} : Reconfigure(g, src)
  \/ \E list \in PortList : SavePorts(list)
  \/ RemoveEntry \/ Restart

Spec == Init /\ [][Next]_vars

-----------------------------------------------------------------------------
TypeOK ==
  /\ ports \in Seq(Port) /\ Len(ports) <= MaxPorts
  /\ world \in [Entities -> {"loaded", "unloaded", "disabled", "gone"}]
  /\ source \in [Guards -> SUBSET Rendering]
  /\ \A g \in StateGuards : source[g] = {} \/ \E e \in Entities : source[g] = StateOf(e)
  /\ loaded \in [ports : Seq(Port), source : [Guards -> SUBSET Rendering],
                 view : [Guards -> Rendering]]
  /\ view \in [Guards -> Rendering]
  /\ phase \in {"down", "up", "removed"}
  /\ started \in BOOLEAN /\ reload \in BOOLEAN
  /\ quiet \subseteq Entities /\ flipped \subseteq Guards

(* The source reads nothing that it did not read at the set-up, and has    *)
(* not rendered otherwise since the issues were reconciled: it does not    *)
(* branch, or has not gone down another branch.                            *)
ReadsAsLoaded(g) ==
  g \notin flipped /\ view[g].entities \subseteq loaded.view[g].entities

(* docs/arch/timing.md:274-275: an issue clears the moment its cause is    *)
(* fixed or its guard or port is removed, and is there as long as the cause*)
(* is.  For what is stored, once started and with no reload under way, each*)
(* guard and each port has exactly the issues of its problems.  Three      *)
(* exceptions, where the code falls short of that: the registration of an  *)
(* entity without a state changes without an event (quiet), a template     *)
(* that takes another branch reads entities that are not watched, and the  *)
(* switch of a switch_cycle action is not watched either.                  *)
IssuesAreCurrent ==
  LET Of(subject) == {i \in issues : i[1] = subject}
      Due(subject) == {i \in Problems(Stored, world, view) : i[1] = subject}
  IN  /\ phase = "removed" => issues = {}
      /\ phase = "up" /\ started /\ ~ reload =>
           /\ \A g \in Guards :
                view[g].entities \cap quiet = {} /\ ReadsAsLoaded(g) =>
                  IF g \in SwitchGuards
                  THEN {i \in Of(g) : i[2] # "recovery_action_invalid"}
                         = HealthProblems(g, world, view[g])
                  ELSE Of(g) = Due(g)
           /\ \A l \in Labels :
                (\A p \in ToSet(ports) : p.label = l => p.entity \notin quiet)
                  => Of(l) = Due(l)

(* docs/arch/timing.md:183: a referenced entity that is missing at boot is *)
(* not flagged until after the start of Home Assistant.                    *)
NotFlaggedAtBoot == ~ started => issues = {}
=============================================================================
