-------------------------- MODULE ConfigIssuesProofs --------------------------
(***************************************************************************)
(* Proofs about the repair issues of the configuration: once started and   *)
(* with no reload under way, the issues are those of what is stored and of *)
(* how the entities are now, although they are only reconciled when a      *)
(* watched entity appears or disappears.                                   *)
(***************************************************************************)
EXTENDS ConfigIssues, FiniteSetTheorems, TLAPS

Conditions == {"loaded", "unloaded", "disabled", "gone"}

-----------------------------------------------------------------------------
(* Ports *)

(* The form and the import only let ports pass that have at most one way.  *)
LEMMA AcceptedPorts == Accepted \subseteq Port
<1>1. ASSUME NEW fields \in IdFields, ValidIdentity(fields)
      PROVE  Cardinality(fields \ {"id_attribute"}) \in 0 .. 1
  <2>1. \/ fields \ {"id_attribute"} = {}
        \/ fields \ {"id_attribute"} = {"id_entity"}
        \/ fields \ {"id_attribute"} = {"id_static"}
    BY <1>1 DEF IdFields, ValidIdentity
  <2>2. /\ Cardinality({}) = 0
        /\ Cardinality({"id_entity"}) = 1 /\ Cardinality({"id_static"}) = 1
    BY FS_EmptySet, FS_Singleton
  <2>. QED  BY <2>1, <2>2
<1>2. ASSUME NEW p \in Accepted
      PROVE  p \in Port
  <2>1. PICK l \in Labels, e \in PortEntities,
             fields \in {f \in IdFields : ValidIdentity(f)} :
               p = [label |-> l, entity |-> e,
                    ways |-> Cardinality(fields \ {"id_attribute"})]
    BY <1>2 DEF Accepted
  <2>2. Cardinality(fields \ {"id_attribute"}) \in 0 .. 1
    BY <1>1
  <2>. QED  BY <2>1, <2>2 DEF Port
<1>. QED  BY <1>2

(* The dialog comes to lists of ports within the bound.                    *)
LEMMA ListsOfPorts ==
  ASSUME NEW list \in PortList
  PROVE  list \in Seq(Port) /\ Len(list) <= MaxPorts
<1>1. PICK m \in 0 .. MaxPorts : list \in [1 .. m -> Accepted]
  BY DEF PortList, SeqOf
<1>2. m \in Nat /\ list \in [1 .. m -> Port]
  BY <1>1, AcceptedPorts, PortListsAssumption
<1>3. list \in Seq(Port) /\ Len(list) = m
  BY <1>2
<1>. QED  BY <1>1, <1>3, PortListsAssumption

(* The ports of a list are ports. *)
LEMMA PortsOfList ==
  ASSUME NEW list \in Seq(Port), NEW p \in ToSet(list)
  PROVE  p.label \in Labels /\ p.entity \in PortEntities
<1>1. PICK i \in DOMAIN list : p = list[i]
  BY DEF ToSet
<1>2. list[i] \in Port
  BY <1>1
<1>. QED  BY <1>1, <1>2 DEF Port

-----------------------------------------------------------------------------
(* Problems *)

(* The problems of a guard depend on the entities that its health reads.   *)
LEMMA HealthReads ==
  ASSUME NEW g, NEW w, NEW v, NEW r, r.entities \subseteq Entities,
         \A e \in r.entities : v[e] = w[e]
  PROVE  HealthProblems(g, v, r) = HealthProblems(g, w, r)
<1>1. r.entities \cap Gone(v) = r.entities \cap Gone(w)
  BY DEF Gone
<1>2. r.entities \cap Disabled(v) = r.entities \cap Disabled(w)
  BY DEF Disabled
<1>3. r.entities \cap Absent(v) = r.entities \cap Absent(w)
  BY <1>1, <1>2 DEF Absent
<1>4. r.entities \subseteq Absent(v) <=> r.entities \subseteq Absent(w)
  BY <1>3
<1>. QED  BY <1>1, <1>2, <1>3, <1>4, Zenon DEF HealthProblems

(* An issue names the guard or the label that it is about, and only the    *)
(* recovery action is told by recovery_action_invalid.                     *)
LEMMA SubjectOfHealth ==
  ASSUME NEW g, NEW w, NEW r, NEW i \in HealthProblems(g, w, r)
  PROVE  i[1] = g /\ i[2] # "recovery_action_invalid"
BY DEF HealthProblems

LEMMA SubjectOfAction ==
  ASSUME NEW g, NEW c, NEW w, NEW i \in ActionProblems(g, c, w)
  PROVE  i[1] = g /\ i[2] = "recovery_action_invalid"
BY DEF ActionProblems

LEMMA SubjectOfPort ==
  ASSUME NEW c, NEW w, c.ports \in Seq(Port), NEW i \in PortProblems(c, w)
  PROVE  i[1] \in Labels
BY PortsOfList DEF PortProblems

(* Of all problems, those that a guard is due are of it alone.             *)
LEMMA DueOfGuard ==
  ASSUME NEW g \in Guards, NEW c, NEW w, NEW v, c.ports \in Seq(Port)
  PROVE  {i \in Problems(c, w, v) : i[1] = g}
           = HealthProblems(g, w, v[g]) \cup ActionProblems(g, c, w)
<1>1. ASSUME NEW i \in Problems(c, w, v), i[1] = g
      PROVE  i \in HealthProblems(g, w, v[g]) \cup ActionProblems(g, c, w)
  <2>1. i \notin PortProblems(c, w)
    BY <1>1, SubjectOfPort, ConfigIssuesAssumption
  <2>2. PICK h \in Guards :
          i \in HealthProblems(h, w, v[h]) \cup ActionProblems(h, c, w)
    BY <1>1, <2>1 DEF Problems
  <2>3. h = g
    BY <1>1, <2>2, SubjectOfHealth, SubjectOfAction
  <2>. QED  BY <2>2, <2>3
<1>2. ASSUME NEW i \in HealthProblems(g, w, v[g]) \cup ActionProblems(g, c, w)
      PROVE  i \in Problems(c, w, v) /\ i[1] = g
  BY <1>2, SubjectOfHealth, SubjectOfAction DEF Problems
<1>. QED  BY <1>1, <1>2

(* Of all problems, those that a label is due are of its ports alone.      *)
LEMMA DueOfLabel ==
  ASSUME NEW l \in Labels, NEW c, NEW w, NEW v
  PROVE  {i \in Problems(c, w, v) : i[1] = l}
           = {i \in PortProblems(c, w) : i[1] = l}
<1>1. ASSUME NEW i \in Problems(c, w, v), i[1] = l
      PROVE  i \in PortProblems(c, w)
  <2>1. ASSUME NEW g \in Guards
        PROVE  i \notin HealthProblems(g, w, v[g]) \cup ActionProblems(g, c, w)
    BY <1>1, SubjectOfHealth, SubjectOfAction, ConfigIssuesAssumption
  <2>. QED  BY <1>1, <2>1 DEF Problems
<1>2. PortProblems(c, w) \subseteq Problems(c, w, v)
  BY DEF Problems
<1>. QED  BY <1>1, <1>2

(* The problems of a port depend on its entity.                            *)
LEMMA PortReads ==
  ASSUME NEW w, NEW v, NEW p, v[p.entity] = w[p.entity]
  PROVE  p.entity \in Absent(v) <=> p.entity \in Absent(w)
BY DEF Absent, Gone, Disabled

-----------------------------------------------------------------------------
(* Types *)

Sets == [Guards -> SUBSET Rendering]

(* A source of the state of an entity, or of a deleted guard.              *)
StateOnly(src) == src = {} \/ \E e \in Entities : src = StateOf(e)

LEMMA StateRenders ==
  ASSUME NEW e \in Entities
  PROVE  StateOf(e) \subseteq Rendering
BY DEF StateOf, Rendering

(* What a dialog sets a guard's health to. *)
LEMMA SourcesRender ==
  ASSUME NEW g \in Guards, NEW src \in Sources[g] \cup {{}}
  PROVE  src \subseteq Rendering /\ (g \in StateGuards => StateOnly(src))
<1>1. Sources[g] \subseteq SUBSET Rendering
  BY ConfigIssuesAssumption
<1>2. g \in StateGuards => Sources[g] \subseteq {StateOf(e) : e \in Entities}
  BY ConfigIssuesAssumption
<1>. QED  BY <1>1, <1>2 DEF StateOnly

(* A rename leaves sources that are sources. *)
LEMMA FollowedRenders ==
  ASSUME TypeOK, NEW e, NEW f \in Entities
  PROVE  /\ Followed(e, f) \in Sets
         /\ \A g \in StateGuards : StateOnly(Followed(e, f)[g])
<1>1. \A g \in Guards : Followed(e, f)[g] \in {StateOf(f), source[g]}
  BY DEF Followed
<1>2. Followed(e, f) \in Sets
  BY <1>1, StateRenders DEF Followed, TypeOK, Sets
<1>3. \A g \in StateGuards : StateOnly(Followed(e, f)[g])
  BY <1>1 DEF StateOnly, TypeOK, Guards
<1>. QED  BY <1>2, <1>3

(* What sources render to are renderings. *)
LEMMA ViewsRender ==
  ASSUME NEW src \in Sets, NEW v \in Views(src)
  PROVE  v \in [Guards -> Rendering]
<1>1. Nothing \in Rendering
  BY DEF Nothing, Rendering
<1>2. \A g \in Guards : src[g] \subseteq Rendering
  BY DEF Sets
<1>. QED  BY <1>1, <1>2 DEF Views

LEMMA TypeOfUnloaded ==
  /\ Unrendered \in [Guards -> Rendering]
  /\ Unloaded \in [ports : Seq(Port), source : Sets, view : [Guards -> Rendering]]
<1>1. Unrendered \in [Guards -> Rendering]
  BY DEF Unrendered, Nothing, Rendering
<1>. QED  BY <1>1 DEF Unloaded, Sets

LEMMA TypesAtInit == Init => TypeOK
<1> SUFFICES ASSUME Init PROVE TypeOK
  OBVIOUS
<1>1. ports \in Seq(Port) /\ Len(ports) <= MaxPorts
  BY PortListsAssumption DEF Init
<1>2. source \in Sets
  BY SourcesRender DEF Init, Sets
<1>3. \A g \in StateGuards : StateOnly(source[g])
  BY SourcesRender DEF Init, Guards
<1>. QED
  BY <1>1, <1>2, <1>3, TypeOfUnloaded DEF Init, TypeOK, Sets, StateOnly

(* A notification leaves renderings and histories of their type.           *)
LEMMA NotifiedTypes ==
  ASSUME TypeOK, NEW changed, Notified(changed)
  PROVE  /\ view' \in [Guards -> Rendering]
         /\ quiet' \subseteq Entities /\ flipped' \subseteq Guards
<1>1. loaded.source \in Sets
  BY DEF TypeOK, Sets
<1>. QED  BY <1>1, ViewsRender DEF Notified, Reconcile, shown, TypeOK

LEMMA TypesKept == TypeOK /\ [Next]_vars => TypeOK'
<1> SUFFICES ASSUME TypeOK, [Next]_vars PROVE TypeOK'
  OBVIOUS
<1>1. CASE SetUp \/ Reload
  <2>1. Load
    BY <1>1 DEF SetUp, Reload
  <2>2. source \in Sets
    BY DEF TypeOK, Sets
  <2>3. PICK v \in Views(source) :
          /\ loaded' = [ports |-> ports, source |-> source, view |-> v]
          /\ IF started THEN Reconcile(Stored, world, v)
             ELSE view' = v /\ UNCHANGED shown
    BY <2>1, Zenon DEF Load
  <2>4. v \in [Guards -> Rendering]
    BY <2>2, ViewsRender
  <2>5. view' = v /\ quiet' \subseteq Entities /\ flipped' \subseteq Guards
    BY <2>3 DEF Reconcile, shown, TypeOK
  <2>6. loaded' \in [ports : Seq(Port), source : [Guards -> SUBSET Rendering],
                     view : [Guards -> Rendering]]
    BY <2>3, <2>4 DEF TypeOK
  <2>. QED  BY <2>1, <2>4, <2>5, <2>6 DEF Load, home, TypeOK
<1>2. CASE HomeStarts
  BY <1>2 DEF HomeStarts, Reconcile, shown, TypeOK
<1>3. ASSUME NEW e \in Entities, Appear(e)
      PROVE  TypeOK'
  BY <1>3, NotifiedTypes DEF Appear, Unaffected, TypeOK
<1>4. ASSUME NEW e \in Entities, NEW how \in {"disabled", "gone"},
             Disappear(e, how)
      PROVE  TypeOK'
  BY <1>4, NotifiedTypes DEF Disappear, Unaffected, TypeOK
<1>5. ASSUME NEW e \in Entities, NEW how \in {"unloaded", "disabled", "gone"},
             ChangeQuietly(e, how)
      PROVE  TypeOK'
  BY <1>5 DEF ChangeQuietly, Unaffected, TypeOK
<1>6. ASSUME NEW e \in Entities, NEW f \in Entities, Rename(e, f)
      PROVE  TypeOK'
  <2>1. /\ view' \in [Guards -> Rendering]
        /\ quiet' \subseteq Entities /\ flipped' \subseteq Guards
    BY <1>6, NotifiedTypes DEF Rename, TypeOK
  <2>2. world' \in [Entities -> Conditions]
    BY <1>6 DEF Rename, TypeOK, Conditions
  <2>3. source' = Followed(e, f) /\ reload' \in BOOLEAN
    BY <1>6, Zenon DEF Rename, Store, TypeOK
  <2>. QED
    BY <1>6, <2>1, <2>2, <2>3, FollowedRenders
      DEF Rename, Unaffected, Conditions, TypeOK, Sets, StateOnly
<1>7. ASSUME NEW g \in Guards, NEW src \in Sources[g] \cup {{}},
             Reconfigure(g, src)
      PROVE  TypeOK'
  <2>1. source' = [source EXCEPT ![g] = src] /\ reload' \in BOOLEAN
    BY <1>7, Zenon DEF Reconfigure, Store, TypeOK
  <2>2. source' \in Sets
    BY <2>1, SourcesRender DEF TypeOK, Sets
  <2>3. \A h \in StateGuards : StateOnly(source'[h])
    BY <2>1, SourcesRender DEF TypeOK, Guards, StateOnly
  <2>. QED
    BY <1>7, <2>1, <2>2, <2>3
      DEF Reconfigure, home, shown, TypeOK, Sets, StateOnly
<1>8. ASSUME NEW g \in Guards, Rerender(g)
      PROVE  TypeOK'
  <2>1. PICK r \in loaded.source[g] \ {view[g]} : view' = [view EXCEPT ![g] = r]
    BY <1>8 DEF Rerender
  <2>2. r \in Rendering
    BY <2>1 DEF TypeOK
  <2>3. view' \in [Guards -> Rendering]
    BY <2>1, <2>2 DEF TypeOK
  <2>. QED  BY <1>8, <2>3 DEF Rerender, Unaffected, TypeOK
<1>9. ASSUME NEW list \in PortList, SavePorts(list)
      PROVE  TypeOK'
  BY <1>9, ListsOfPorts DEF SavePorts, home, shown, TypeOK
<1>10. CASE RemoveEntry
  BY <1>10, TypeOfUnloaded DEF RemoveEntry, Forget, home, TypeOK, Sets
<1>11. CASE Restart
  BY <1>11, TypeOfUnloaded DEF Restart, Forget, TypeOK, Sets
<1>12. CASE UNCHANGED vars
  BY <1>12 DEF vars, shown, TypeOK
<1>. QED
  BY <1>1, <1>2, <1>3, <1>4, <1>5, <1>6, <1>7, <1>8, <1>9, <1>10, <1>11, <1>12
    DEF Next

(* Every list that the dialog comes to is one of ports within the bound,   *)
(* a guard of a state reads that one entity, and what __init__.py          *)
(* subscribes to and config_problems asks for are entities.                *)
THEOREM TypeCorrect == Spec => []TypeOK
<1>1. Init => TypeOK
  BY TypesAtInit
<1>2. TypeOK /\ [Next]_vars => TypeOK'
  BY TypesKept
<1>. QED  BY <1>1, <1>2, PTL DEF Spec

-----------------------------------------------------------------------------
(* Reconciliation *)

(* Without a reload under way, the entry runs on what is stored.           *)
RunsOnStored ==
  phase = "up" /\ ~ reload => loaded.ports = ports /\ loaded.source = source

(* The issues of an entry that was removed are removed.                    *)
RemovedIsClear == phase = "removed" => issues = {}

(* The issues are those of a world that the entities which are watched, and*)
(* whose changes are told, are still in, and of renderings that the guards *)
(* whose source has not rendered otherwise still have.                     *)
Reflects(w, r) ==
  /\ issues = Problems(loaded, w, r)
  /\ \A e \in Watched : e \notin quiet => w[e] = world[e]
  /\ \A g \in Guards : g \notin flipped => r[g] = view[g]

IssuesReflectWatched ==
  phase = "up" /\ started =>
    \E w \in [Entities -> Conditions], r \in [Guards -> Rendering] :
      Reflects(w, r)

IInv == TypeOK /\ RunsOnStored /\ RemovedIsClear /\ IssuesReflectWatched

(* What set-up subscribes to are entities. *)
LEMMA WatchedEntities ==
  ASSUME TypeOK
  PROVE  Watched \subseteq Entities
<1>1. \A p \in ToSet(loaded.ports) : p.entity \in Entities
  BY PortsOfList, ConfigIssuesAssumption DEF TypeOK
<1>2. \A g \in Guards : loaded.view[g].entities \subseteq Entities
  BY DEF TypeOK, Rendering
<1>. QED  BY <1>1, <1>2 DEF Watched, PortsWatched

(* The problems of a configuration do not depend on when it was loaded.    *)
LEMMA SameConfiguration ==
  ASSUME NEW c, NEW d, NEW w, NEW v, c.ports = d.ports, c.source = d.source
  PROVE  Problems(c, w, v) = Problems(d, w, v)
<1>1. PortProblems(c, w) = PortProblems(d, w)
  BY DEF PortProblems
<1>2. \A g : ActionProblems(g, c, w) = ActionProblems(g, d, w)
  BY DEF ActionProblems, ActionInvalid
<1>. QED  BY <1>1, <1>2 DEF Problems

(* After a reconciliation the issues reflect the world of now.             *)
LEMMA ReconcilingReflects ==
  ASSUME TypeOK', issues' = Problems(loaded', world', view')
  PROVE  IssuesReflectWatched'
<1>1. world' \in [Entities -> Conditions] /\ view' \in [Guards -> Rendering]
  BY DEF TypeOK, Conditions
<1>2. issues' = Problems(loaded, world, view)'
  BY DEF Problems, HealthProblems, ActionProblems, PortProblems,
         ActionInvalid, Gone, Disabled, Absent
<1>3. Reflects(world, view)'
  BY <1>2 DEF Reflects
<1>. QED  BY <1>1, <1>3 DEF IssuesReflectWatched

(* Changes of entities that are not watched, quiet ones, and renderings    *)
(* that are noted keep it.                                                 *)
LEMMA UntoldReflects ==
  ASSUME TypeOK, IssuesReflectWatched, NEW changed,
         \A e \in Entities \ changed : world'[e] = world[e],
         changed \cap Watched = {} \/ quiet' = quiet \cup changed,
         quiet \subseteq quiet', flipped \subseteq flipped',
         \A g \in Guards : g \notin flipped' => view'[g] = view[g],
         UNCHANGED <<loaded, phase, started, issues>>
  PROVE  IssuesReflectWatched'
<1> SUFFICES ASSUME phase = "up", started
             PROVE  \E w \in [Entities -> Conditions],
                       r \in [Guards -> Rendering] : Reflects(w, r)'
  BY DEF IssuesReflectWatched
<1>1. PICK w \in [Entities -> Conditions], r \in [Guards -> Rendering] :
        Reflects(w, r)
  BY DEF IssuesReflectWatched
<1>2. issues' = Problems(loaded', w, r)
  BY <1>1 DEF Reflects
<1>3. Watched' = Watched
  BY DEF Watched, PortsWatched
<1>4. ASSUME NEW e \in Watched, e \notin quiet'
      PROVE  w[e] = world'[e]
  <2>1. e \in Entities \ changed
    BY <1>4, WatchedEntities
  <2>. QED  BY <1>1, <1>4, <2>1 DEF Reflects
<1>5. ASSUME NEW g \in Guards, g \notin flipped'
      PROVE  r[g] = view'[g]
  BY <1>1, <1>5 DEF Reflects
<1>6. Reflects(w, r)'
  BY <1>2, <1>3, <1>4, <1>5 DEF Reflects
<1>. QED  BY <1>6

(* Entities whose state appeared or has gone are told or not watched.      *)
LEMMA NotifiedReflects ==
  ASSUME TypeOK, TypeOK', IssuesReflectWatched, NEW changed, Notified(changed),
         \A e \in Entities \ changed : world'[e] = world[e],
         UNCHANGED <<loaded, phase, started>>
  PROVE  IssuesReflectWatched'
<1>1. CASE phase # "up"
  BY <1>1 DEF IssuesReflectWatched
<1>2. CASE phase = "up" /\ changed \cap Watched # {}
  <2>1. issues' = Problems(loaded', world', view')
    BY <1>2 DEF Notified, Reconcile
  <2>. QED  BY <2>1, ReconcilingReflects
<1>3. CASE phase = "up" /\ changed \cap Watched = {}
  <2>1. UNCHANGED <<view, issues, quiet, flipped>>
    BY <1>3 DEF Notified, shown
  <2>. QED  BY <1>3, <2>1, UntoldReflects
<1>. QED  BY <1>1, <1>2, <1>3

(* No change of an entity brings issues back for a removed entry.          *)
LEMMA NotifiedClear ==
  ASSUME NEW changed, Notified(changed), RemovedIsClear, phase' = phase
  PROVE  RemovedIsClear'
BY DEF Notified, shown, RemovedIsClear

LEMMA ReflectionAtInit == Init => IInv
BY TypesAtInit
  DEF Init, IInv, RunsOnStored, RemovedIsClear, IssuesReflectWatched

LEMMA ReflectionKept == IInv /\ [Next]_vars => IInv'
<1> SUFFICES ASSUME IInv, [Next]_vars PROVE IInv'
  OBVIOUS
<1>0. /\ TypeOK' /\ TypeOK
      /\ RunsOnStored /\ RemovedIsClear /\ IssuesReflectWatched
  BY TypesKept DEF IInv
<1>1. CASE SetUp \/ Reload
  <2>1. Load
    BY <1>1 DEF SetUp, Reload
  <2>2. PICK v \in Views(source) :
          /\ loaded' = [ports |-> ports, source |-> source, view |-> v]
          /\ IF started THEN Reconcile(Stored, world, v)
             ELSE view' = v /\ UNCHANGED shown
    BY <2>1, Zenon DEF Load
  <2>3. phase' = "up" /\ UNCHANGED <<ports, source, world, started>>
    BY <2>1 DEF Load, home
  <2>4. RunsOnStored' /\ RemovedIsClear'
    BY <2>2, <2>3 DEF RunsOnStored, RemovedIsClear
  <2>5. CASE started
    <3>1. issues' = Problems(Stored, world, v) /\ view' = v
      BY <2>2, <2>5 DEF Reconcile
    <3>2. Problems(Stored, world, v) = Problems(loaded', world', view')
      BY <2>2, <2>3, <3>1, SameConfiguration DEF Stored
    <3>. QED  BY <1>0, <2>4, <3>1, <3>2, ReconcilingReflects DEF IInv
  <2>6. CASE ~ started
    BY <1>0, <2>3, <2>4, <2>6 DEF IInv, IssuesReflectWatched
  <2>. QED  BY <2>5, <2>6
<1>2. CASE HomeStarts
  <2>1. RunsOnStored' /\ RemovedIsClear'
    BY <1>0, <1>2 DEF HomeStarts, shown, RunsOnStored, RemovedIsClear
  <2>2. CASE phase = "up"
    <3>1. issues' = Problems(loaded', world', view')
      BY <1>2, <2>2 DEF HomeStarts, Reconcile
    <3>. QED  BY <1>0, <2>1, <3>1, ReconcilingReflects DEF IInv
  <2>3. CASE phase # "up"
    BY <1>0, <1>2, <2>1, <2>3 DEF HomeStarts, IInv, IssuesReflectWatched
  <2>. QED  BY <2>2, <2>3
<1>3. ASSUME NEW e \in Entities,
             \/ Appear(e)
             \/ \E how \in {"disabled", "gone"} : Disappear(e, how)
      PROVE  IInv'
  <2>1. /\ Notified({e}) /\ Unaffected /\ UNCHANGED <<source, reload>>
        /\ \A f \in Entities \ {e} : world'[f] = world[f]
    BY <1>0, <1>3 DEF Appear, Disappear, TypeOK
  <2>2. IssuesReflectWatched'
    BY <1>0, <2>1, NotifiedReflects DEF Unaffected
  <2>3. RemovedIsClear' /\ RunsOnStored'
    BY <1>0, <2>1, NotifiedClear DEF Unaffected, RunsOnStored
  <2>. QED  BY <1>0, <2>2, <2>3 DEF IInv
<1>4. ASSUME NEW e \in Entities, NEW how \in {"unloaded", "disabled", "gone"},
             ChangeQuietly(e, how)
      PROVE  IInv'
  <2>1. /\ quiet' = quiet \cup {e}
        /\ UNCHANGED <<loaded, phase, started, issues, view, flipped>>
        /\ \A f \in Entities \ {e} : world'[f] = world[f]
    BY <1>0, <1>4 DEF ChangeQuietly, Unaffected, TypeOK
  <2>2. IssuesReflectWatched'
    BY <1>0, <2>1, UntoldReflects
  <2>3. RemovedIsClear' /\ RunsOnStored'
    BY <1>0, <1>4
      DEF ChangeQuietly, Unaffected, RemovedIsClear, RunsOnStored
  <2>. QED  BY <1>0, <2>2, <2>3 DEF IInv
<1>5. ASSUME NEW e \in Entities, NEW f \in Entities, Rename(e, f)
      PROVE  IInv'
  <2>1. /\ Unaffected
        /\ \A o \in Entities \ {e, f} : world'[o] = world[o]
    BY <1>0, <1>5 DEF Rename, TypeOK
  <2>2. \/ Notified({e, f})
        \/ quiet' = quiet \cup {e, f} /\ UNCHANGED <<view, issues, flipped>>
    BY <1>5 DEF Rename
  <2>3. IssuesReflectWatched'
    BY <1>0, <2>1, <2>2, NotifiedReflects, UntoldReflects DEF Unaffected
  <2>4. RemovedIsClear'
    BY <1>0, <2>1, <2>2, NotifiedClear DEF Unaffected, RemovedIsClear
  <2>5. reload' <=> (reload \/ (phase = "up" /\ source' # source))
    BY <1>5, Zenon DEF Rename, Store
  <2>6. RunsOnStored'
    BY <1>0, <2>1, <2>5 DEF Unaffected, RunsOnStored
  <2>. QED  BY <1>0, <2>3, <2>4, <2>6 DEF IInv
<1>6. CASE \/ \E g \in Guards : \E src \in Sources[g] \cup {{}} :
                Reconfigure(g, src)
           \/ \E list \in PortList : SavePorts(list)
  <2>1. /\ UNCHANGED <<world, loaded, phase, started, issues, quiet, view, flipped>>
        /\ ~ reload' /\ phase = "up" => ~ reload /\ UNCHANGED <<source, ports>>
    BY <1>6, Zenon DEF Reconfigure, SavePorts, Store, home, shown
  <2>2. IssuesReflectWatched'
    BY <1>0, <2>1, UntoldReflects
  <2>3. RunsOnStored' /\ RemovedIsClear'
    BY <1>0, <2>1 DEF RunsOnStored, RemovedIsClear
  <2>. QED  BY <1>0, <2>2, <2>3 DEF IInv
<1>7. ASSUME NEW g \in Guards, Rerender(g)
      PROVE  IInv'
  <2>1. /\ UNCHANGED <<ports, source, world, loaded, phase, started, reload,
                       issues, quiet>>
        /\ flipped' = flipped \cup {g}
        /\ \A h \in Guards : h # g => view'[h] = view[h]
    BY <1>0, <1>7 DEF Rerender, Unaffected, TypeOK
  <2>2. IssuesReflectWatched'
    BY <1>0, <2>1, UntoldReflects
  <2>3. RunsOnStored' /\ RemovedIsClear'
    BY <1>0, <2>1 DEF RunsOnStored, RemovedIsClear
  <2>. QED  BY <1>0, <2>2, <2>3 DEF IInv
<1>8. CASE RemoveEntry \/ Restart
  BY <1>0, <1>8
    DEF RemoveEntry, Restart, Forget, IInv, RunsOnStored, RemovedIsClear,
        IssuesReflectWatched
<1>9. CASE UNCHANGED vars
  <2>1. IssuesReflectWatched'
    BY <1>0, <1>9, UntoldReflects DEF vars, shown
  <2>. QED
    BY <1>0, <1>9, <2>1 DEF vars, shown, IInv, RunsOnStored, RemovedIsClear
<1>. QED
  BY <1>1, <1>2, <1>3, <1>4, <1>5, <1>6, <1>7, <1>8, <1>9 DEF Next

-----------------------------------------------------------------------------
(* What the user sees *)

(* The issues of a guard, when nothing that it reads changed quietly and   *)
(* its source reads what it read at the set-up.                            *)
LEMMA GuardIsTold ==
  ASSUME IInv, phase = "up", started, ~ reload, NEW g \in Guards,
         view[g].entities \cap quiet = {}, ReadsAsLoaded(g)
  PROVE  IF g \in SwitchGuards
         THEN {i \in issues : i[1] = g /\ i[2] # "recovery_action_invalid"}
                = HealthProblems(g, world, view[g])
         ELSE {i \in issues : i[1] = g}
                = {i \in Problems(Stored, world, view) : i[1] = g}
<1>1. /\ loaded.ports = Stored.ports /\ loaded.source = Stored.source
      /\ loaded.ports \in Seq(Port)
  BY DEF IInv, RunsOnStored, Stored, TypeOK
<1>2. PICK w \in [Entities -> Conditions], r \in [Guards -> Rendering] :
        Reflects(w, r)
  BY DEF IInv, IssuesReflectWatched
<1>3. r[g] = view[g]
  BY <1>2 DEF Reflects, ReadsAsLoaded
<1>4. HealthProblems(g, w, view[g]) = HealthProblems(g, world, view[g])
  <2>1. view[g].entities \subseteq Entities /\ view[g].entities \subseteq Watched
    BY DEF IInv, TypeOK, Rendering, ReadsAsLoaded, Watched
  <2>2. \A e \in view[g].entities : w[e] = world[e]
    BY <1>2, <2>1 DEF Reflects
  <2>. QED  BY <2>1, <2>2, HealthReads
<1>5. {i \in issues : i[1] = g}
        = HealthProblems(g, world, view[g]) \cup ActionProblems(g, loaded, w)
  BY <1>1, <1>2, <1>3, <1>4, DueOfGuard DEF Reflects
<1>6. CASE g \in SwitchGuards
  BY <1>5, <1>6, SubjectOfHealth, SubjectOfAction
<1>7. CASE g \notin SwitchGuards
  <2>1. ActionProblems(g, loaded, w) = ActionProblems(g, Stored, world)
    BY <1>1, <1>7 DEF ActionProblems, ActionInvalid
  <2>2. {i \in Problems(Stored, world, view) : i[1] = g}
          = HealthProblems(g, world, view[g])
              \cup ActionProblems(g, Stored, world)
    BY <1>1, DueOfGuard
  <2>. QED  BY <1>5, <1>7, <2>1, <2>2
<1>. QED  BY <1>6, <1>7

(* The issues of a label, when no entity of its ports changed quietly.     *)
LEMMA LabelIsTold ==
  ASSUME IInv, phase = "up", started, ~ reload, NEW l \in Labels,
         \A p \in ToSet(ports) : p.label = l => p.entity \notin quiet
  PROVE  {i \in issues : i[1] = l}
           = {i \in Problems(Stored, world, view) : i[1] = l}
<1>1. loaded.ports = ports /\ Stored.ports = ports
  BY DEF IInv, RunsOnStored, Stored
<1>2. PICK w \in [Entities -> Conditions], r \in [Guards -> Rendering] :
        Reflects(w, r)
  BY DEF IInv, IssuesReflectWatched
<1>3. \A p \in ToSet(ports) : p.label = l => w[p.entity] = world[p.entity]
  BY <1>1, <1>2 DEF Reflects, Watched, PortsWatched
<1>4. {i \in PortProblems(loaded, w) : i[1] = l}
        = {i \in PortProblems(Stored, world) : i[1] = l}
  <2>1. \A p \in ToSet(ports) : p.label = l =>
          (p.entity \in Absent(w) <=> p.entity \in Absent(world))
    BY <1>3, PortReads
  <2>. QED  BY <1>1, <2>1 DEF PortProblems
<1>. QED  BY <1>2, <1>4, DueOfLabel DEF Reflects

(* docs/arch/timing.md:274-275: an issue is there as long as its cause is, *)
(* and no longer.  For what is stored, once started and with no reload     *)
(* under way, guards and ports have exactly the issues of their problems,  *)
(* for any sources, ports and number of entities.  The three exceptions of *)
(* IssuesAreCurrent stay: a guard or port whose entity changed without an  *)
(* event, a template that took another branch than at the set-up or at the *)
(* last reconciliation, and the action issue of a switch_cycle guard.      *)
THEOREM AlwaysCurrent == Spec => []IssuesAreCurrent
<1>1. Init => IInv
  BY ReflectionAtInit
<1>2. IInv /\ [Next]_vars => IInv'
  BY ReflectionKept
<1>3. IInv => IssuesAreCurrent
  <2> SUFFICES ASSUME IInv PROVE IssuesAreCurrent
    OBVIOUS
  <2>1. phase = "removed" => issues = {}
    BY DEF IInv, RemovedIsClear
  <2>2. ASSUME phase = "up", started, ~ reload, NEW g \in Guards,
               view[g].entities \cap quiet = {}, ReadsAsLoaded(g)
        PROVE  IF g \in SwitchGuards
               THEN {i \in {j \in issues : j[1] = g} :
                        i[2] # "recovery_action_invalid"}
                      = HealthProblems(g, world, view[g])
               ELSE {i \in issues : i[1] = g}
                      = {i \in Problems(Stored, world, view) : i[1] = g}
    <3>1. {i \in {j \in issues : j[1] = g} : i[2] # "recovery_action_invalid"}
            = {i \in issues : i[1] = g /\ i[2] # "recovery_action_invalid"}
      OBVIOUS
    <3>. QED  BY <2>2, <3>1, GuardIsTold
  <2>. QED  BY <2>1, <2>2, LabelIsTold DEF IssuesAreCurrent
<1>. QED  BY <1>1, <1>2, <1>3, PTL DEF Spec
=============================================================================
