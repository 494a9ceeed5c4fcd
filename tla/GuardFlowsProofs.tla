--------------------------- MODULE GuardFlowsProofs ---------------------------
(***************************************************************************)
(* Proofs about the configuration of guards: the groups that declared      *)
(* links make partition the guards, forms that take guards apart do so at  *)
(* both ends, and the engines of an entry agree on who is in which group.  *)
(***************************************************************************)
EXTENDS GuardFlows, FiniteSetTheorems, WellFoundedInduction, TLAPS

-----------------------------------------------------------------------------
(* Groups *)

(* A guard is in its own component. *)
LEMMA OwnComponent ==
  ASSUME NEW links, NEW valid, NEW g \in valid
  PROVE  g \in Component(links, valid, g)
BY DEF Component

(* A component is the smallest closed set around its guard. *)
LEMMA ComponentIsLeast ==
  ASSUME NEW links, NEW valid, NEW g, NEW S \in SUBSET valid,
         g \in S, ClosedUnder(S, links, valid)
  PROVE  Component(links, valid, g) \subseteq S
BY DEF Component

(* A component is closed under links. *)
LEMMA ComponentIsClosed ==
  ASSUME NEW links, NEW valid, NEW g
  PROVE  ClosedUnder(Component(links, valid, g), links, valid)
BY DEF Component, ClosedUnder

(* Guards of one component have that component in common. *)
LEMMA ComponentsAreShared ==
  ASSUME NEW links, NEW valid, NEW g \in valid,
         NEW h \in Component(links, valid, g)
  PROVE  Component(links, valid, h) = Component(links, valid, g)
<1> DEFINE G == Component(links, valid, g)
           H == Component(links, valid, h)
<1>0. h \in valid /\ G \in SUBSET valid /\ H \in SUBSET valid
  BY DEF Component
<1>1. ClosedUnder(G, links, valid) /\ ClosedUnder(H, links, valid)
  BY ComponentIsClosed
<1>2. H \subseteq G
  BY <1>0, <1>1, ComponentIsLeast
<1>3. g \in H
  <2>1. SUFFICES ASSUME g \notin H PROVE FALSE
    OBVIOUS
  <2>2. ClosedUnder(valid \ H, links, valid)
    BY <1>0, <1>1 DEF ClosedUnder, Joined
  <2>3. G \subseteq valid \ H
    BY <2>1, <2>2, ComponentIsLeast
  <2>. QED  BY <2>3, <1>0, OwnComponent
<1>4. G \subseteq H
  BY <1>0, <1>1, <1>3, ComponentIsLeast
<1>. QED  BY <1>2, <1>4

(* The groups are cliques: partners are distinct, of each other, and share *)
(* their other partners.  This discharges what GuardGroup assumes.         *)
LEMMA GroupsAreCliques ==
  ASSUME NEW links, NEW valid, NEW g, NEW h \in GroupOf(links, valid, g)
  PROVE  /\ g \in valid /\ h \in valid /\ h # g
         /\ GroupOf(links, valid, h) = (GroupOf(links, valid, g) \ {h}) \cup {g}
<1>1. /\ g \in valid /\ h # g
      /\ h \in Component(links, valid, g)
  BY DEF GroupOf
<1>2. h \in valid
  BY <1>1 DEF Component
<1>3. Component(links, valid, h) = Component(links, valid, g)
  BY <1>1, ComponentsAreShared
<1>4. g \in Component(links, valid, g)
  BY <1>1, OwnComponent
<1>. QED  BY <1>1, <1>2, <1>3, <1>4 DEF GroupOf

(* A guard with a link, at either end, is in the group. *)
LEMMA LinkedGuardsAreGrouped ==
  ASSUME NEW links, NEW valid, NEW g, NEW h, Joined(links, valid, g, h)
  PROVE  h \in GroupOf(links, valid, g)
<1>1. g \in valid /\ h \in valid /\ g # h
  BY DEF Joined
<1>2. g \in Component(links, valid, g)
  BY <1>1, OwnComponent
<1>3. h \in Component(links, valid, g)
  BY <1>1, <1>2, ComponentIsClosed DEF ClosedUnder
<1>. QED  BY <1>1, <1>3 DEF GroupOf

(* A group consists of guards that may be linked. *)
LEMMA GroupsAreValid ==
  ASSUME NEW links, NEW valid, NEW g
  PROVE  GroupOf(links, valid, g) \subseteq valid \ {g}
BY DEF GroupOf, Component

-----------------------------------------------------------------------------
(* The search of link_components *)

(* The states of the loop. *)
Frontier(valid) == [group : SUBSET valid, stack : SUBSET valid]

(* What one turn of the loop makes of state s, f being the turns after it. *)
Turn(links, valid, f, s) ==
  IF s.stack = {} THEN s.group
  ELSE LET node == CHOOSE n \in s.stack : TRUE
           rest == s.stack \ {node}
       IN  IF node \in s.group
             THEN f[[group |-> s.group, stack |-> rest]]
             ELSE f[[group |-> s.group \cup {node},
                     stack |-> rest \cup (Adjacency(links, valid)[node] \ s.group)]]

(* The sets that hold what is seen, what is to be visited, and the links of*)
(* all but the nodes seen: every turn of the loop has the same ones.       *)
Holds(links, valid, s, T) ==
  /\ s.group \cup s.stack \subseteq T
  /\ \A n \in T \ s.group : Adjacency(links, valid)[n] \subseteq T

Held(links, valid, s) ==
  {h \in valid : \A T \in SUBSET valid : Holds(links, valid, s, T) => h \in T}

(* What the rest of the loop finds is the least of these sets. *)
LEMMA LeastSetIsSolution ==
  ASSUME NEW links, NEW valid, NEW s \in Frontier(valid), NEW f,
         \A t \in Frontier(valid) : 
            \/ t.group # s.group /\ s.group \subseteq t.group
            \/ t.group = s.group /\ t.stack # s.stack /\ t.stack \subseteq s.stack
            => f[t] = Held(links, valid, t)
  PROVE  Turn(links, valid, f, s) = Held(links, valid, s)
<1> DEFINE adj == Adjacency(links, valid)
           node == CHOOSE n \in s.stack : TRUE
           rest == s.stack \ {node}
           old == [group |-> s.group, stack |-> rest]
           new == [group |-> s.group \cup {node},
                   stack |-> rest \cup (adj[node] \ s.group)]
<1>1. s.group \in SUBSET valid /\ s.stack \in SUBSET valid
  BY DEF Frontier
<1>2. \A n \in valid : adj[n] \subseteq valid
  BY DEF Adjacency
<1>3. CASE s.stack = {}
  <2>1. Holds(links, valid, s, s.group)
    BY <1>3 DEF Holds
  <2>2. \A T \in SUBSET valid : Holds(links, valid, s, T) => s.group \subseteq T
    BY DEF Holds
  <2>3. Held(links, valid, s) = s.group
    BY <2>1, <2>2, <1>1 DEF Held
  <2>. QED  BY <1>3, <2>3 DEF Turn
<1>4. CASE s.stack # {} /\ node \in s.group
  <2>1. node \in s.stack
    BY <1>4
  <2>2. old \in Frontier(valid) /\ old.group = s.group /\ old.stack = rest
    BY <1>1 DEF Frontier
  <2>3. f[old] = Held(links, valid, old)
    BY <2>1, <2>2
  <2>4. \A T : Holds(links, valid, old, T) <=> Holds(links, valid, s, T)
    BY <2>1, <2>2, <1>4 DEF Holds
  <2>5. Turn(links, valid, f, s) = f[old]
    BY <1>4 DEF Turn
  <2>. QED  BY <2>3, <2>4, <2>5 DEF Held
<1>5. CASE s.stack # {} /\ node \notin s.group
  <2>1. node \in s.stack /\ node \in valid
    BY <1>5, <1>1
  <2> DEFINE next == rest \cup (adj[node] \ s.group)
  <2>2. new \in Frontier(valid) /\ new.group = s.group \cup {node} /\ new.stack = next
    BY <1>1, <1>2, <2>1 DEF Frontier
  <2>3. f[new] = Held(links, valid, new)
    BY <1>5, <2>2
  <2>4. ASSUME NEW T
        PROVE  Holds(links, valid, new, T) <=> Holds(links, valid, s, T)
    BY <2>1, <2>2, <1>5 DEF Holds
  <2>5. Turn(links, valid, f, s) = f[new]
    BY <1>5 DEF Turn
  <2>. QED  BY <2>3, <2>4, <2>5 DEF Held
<1>. QED  BY <1>3, <1>4, <1>5

(* The function of Explore. *)
Visit(links, valid) ==
  CHOOSE f : f = [s \in Frontier(valid) |-> Turn(links, valid, f, s)]

LEMMA ExploreIsVisit ==
  ASSUME NEW links, NEW valid, NEW start
  PROVE  Explore(links, valid, start)
           = Visit(links, valid)[[group |-> {}, stack |-> {start}]]
BY DEF Explore, Visit, Turn, Frontier

(* The loop has an outcome: the equation of Explore has a solution. *)
LEMMA VisitIsSolution ==
  ASSUME NEW links, NEW valid
  PROVE  Visit(links, valid)
           = [s \in Frontier(valid) |-> Turn(links, valid, Visit(links, valid), s)]
<1> DEFINE f == [s \in Frontier(valid) |-> Held(links, valid, s)]
<1>1. ASSUME NEW s \in Frontier(valid)
      PROVE  Turn(links, valid, f, s) = Held(links, valid, s)
  BY LeastSetIsSolution
<1>2. f = [s \in Frontier(valid) |-> Turn(links, valid, f, s)]
  BY <1>1
<1>. QED  BY <1>2 DEF Visit

(* ... and no other: by a state with the fewest nodes unseen, and of these *)
(* with the smallest stack, where the loop would find something else.      *)
LEMMA VisitFindsLeastSet ==
  ASSUME NEW links, NEW valid, IsFiniteSet(valid), NEW s \in Frontier(valid)
  PROVE  Visit(links, valid)[s] = Held(links, valid, s)
<1> DEFINE Less == StrictSubsetOrdering(valid)
           f == Visit(links, valid)
           Wrong == {t \in Frontier(valid) : f[t] # Held(links, valid, t)}
           unseen(t) == valid \ t.group
<1>1. IsWellFoundedOn(Less, SUBSET valid)
  BY FS_StrictSubsetOrderingWellFounded, FS_FiniteSubsetsOfFinite
<1>2. \A X \in SUBSET valid, Y \in SUBSET valid :
        X \subseteq Y /\ X # Y => <<X, Y>> \in Less
  BY DEF StrictSubsetOrdering
<1>3. f = [t \in Frontier(valid) |-> Turn(links, valid, f, t)]
  BY VisitIsSolution
<1> HIDE DEF Less, f
<1>4. SUFFICES ASSUME Wrong # {} PROVE FALSE
  BY DEF f
<1>5. PICK U \in {unseen(t) : t \in Wrong} :
        \A X \in {unseen(t) : t \in Wrong} : <<X, U>> \notin Less
  <2>1. {unseen(t) : t \in Wrong} \subseteq SUBSET valid
    OBVIOUS
  <2>2. {unseen(t) : t \in Wrong} # {}
    BY <1>4
  <2>. QED  BY <1>1, <2>1, <2>2, WFMin
<1> DEFINE Stacks == {t.stack : t \in {x \in Wrong : unseen(x) = U}}
<1>6. PICK K \in Stacks : \A X \in Stacks : <<X, K>> \notin Less
  <2>1. Stacks \subseteq SUBSET valid
    BY DEF Frontier
  <2>2. Stacks # {}
    BY <1>5
  <2>. QED  BY <1>1, <2>1, <2>2, WFMin
<1>7. PICK w \in Wrong : unseen(w) = U /\ w.stack = K
  BY <1>6
<1>8. ASSUME NEW t \in Frontier(valid),
             \/ t.group # w.group /\ w.group \subseteq t.group
             \/ t.group = w.group /\ t.stack # w.stack /\ t.stack \subseteq w.stack
      PROVE  f[t] = Held(links, valid, t)
  <2>0. /\ t.group \in SUBSET valid /\ t.stack \in SUBSET valid
        /\ w.group \in SUBSET valid /\ w.stack \in SUBSET valid
    BY DEF Frontier
  <2>1. CASE t.group # w.group /\ w.group \subseteq t.group
    <3>1. <<unseen(t), U>> \in Less
      BY <1>2, <1>7, <2>0, <2>1
    <3>. QED  BY <1>5, <3>1
  <2>2. CASE t.group = w.group /\ t.stack # w.stack /\ t.stack \subseteq w.stack
    <3>1. <<t.stack, K>> \in Less
      BY <1>2, <1>7, <2>0, <2>2
    <3>. QED  BY <1>6, <1>7, <2>2, <3>1
  <2>. QED  BY <1>8, <2>1, <2>2
<1>9. Turn(links, valid, f, w) = Held(links, valid, w)
  BY <1>8, LeastSetIsSolution
<1>. QED  BY <1>3, <1>7, <1>9

(* The search finds the component of the guard it starts from. *)
LEMMA ExploreFindsComponent ==
  ASSUME NEW links, NEW valid, IsFiniteSet(valid), NEW g \in valid
  PROVE  Explore(links, valid, g) = Component(links, valid, g)
<1> DEFINE s == [group |-> {}, stack |-> {g}]
<1>1. s \in Frontier(valid)
  BY DEF Frontier
<1>2. ASSUME NEW T \in SUBSET valid
      PROVE  Holds(links, valid, s, T) <=> g \in T /\ ClosedUnder(T, links, valid)
  BY DEF Holds, ClosedUnder, Adjacency
<1>3. Held(links, valid, s) = Component(links, valid, g)
  BY <1>2 DEF Held, Component
<1>. QED  BY <1>1, <1>3, ExploreIsVisit, VisitFindsLeastSet
-----------------------------------------------------------------------------
(* Types *)

(* What a reconfiguration stores is data again. *)
LEMMA UpdatedType ==
  ASSUME TypeOK, NEW g \in Guards, Exists(g), NEW data \in Data,
         g \notin data.links, data.recover \/ data.links = {}
  PROVE  /\ Updated(g, data) \in [Guards -> Data \cup {Unused, Deleted}]
         /\ \A h \in Guards : Updated(g, data)[h] \in Data =>
              /\ h \notin Updated(g, data)[h].links
              /\ Updated(g, data)[h].recover \/ Updated(g, data)[h].links = {}
         /\ \A h \in Guards : stored[h] # Unused => Updated(g, data)[h] # Unused
<1> DEFINE new == Updated(g, data)
<1>1. new = [h \in Guards |-> new[h]]
  BY DEF Updated
<1>2. ASSUME NEW h \in Guards
      PROVE  /\ new[h] \in Data \cup {Unused, Deleted}
             /\ new[h] \in Data =>
                  h \notin new[h].links /\ (new[h].recover \/ new[h].links = {})
             /\ stored[h] # Unused => new[h] # Unused
  <2>1. CASE h = g
    BY <2>1, GuardFlowsAssumption DEF Updated
  <2>2. CASE h # g /\ h \in Group(g) \ data.links
    <3>1. h \in RecoverGuards
      BY <2>2, GroupsAreValid DEF Group
    <3>2. stored[h] \in Data
      BY <3>1 DEF TypeOK, RecoverGuards, Exists
    <3>3. new[h] = [stored[h] EXCEPT !.links = stored[h].links \ {g}]
      BY <2>2 DEF Updated
    <3>4. /\ new[h].recover = stored[h].recover
          /\ new[h].links = stored[h].links \ {g}
          /\ new[h] \in Data
      BY <3>2, <3>3 DEF Data
    <3>. QED  BY <3>2, <3>4, GuardFlowsAssumption DEF TypeOK
  <2>3. CASE h # g /\ h \notin Group(g) \ data.links
    <3>1. new[h] = stored[h]
      BY <2>3 DEF Updated
    <3>. QED  BY <3>1 DEF TypeOK
  <2>. QED  BY <2>1, <2>2, <2>3
<1>. QED  BY <1>1, <1>2

(* The part of the types that is about forms. *)
FormsOK ==
  /\ form \in [Dialogs -> Form \cup {NoForm}]
  /\ \A d \in Dialogs : form[d] # NoForm =>
       /\ form[d].guard \notin form[d].offered
       /\ form[d].recover \/ form[d].offered = {}
       /\ \A g \in form[d].offered : stored[g] # Unused

(* Ids in use stay in use: closing or keeping forms keeps them right. *)
LEMMA FormsStayOK ==
  ASSUME TypeOK,
         \/ UNCHANGED form
         \/ \E d \in Dialogs : form' = [form EXCEPT ![d] = NoForm],
         \A g \in Guards : stored[g] # Unused => stored'[g] # Unused
  PROVE  FormsOK'
<1>1. /\ form' \in [Dialogs -> Form \cup {NoForm}]
      /\ \A d \in Dialogs : form'[d] # NoForm => form'[d] = form[d]
  BY DEF TypeOK
<1>2. \A d \in Dialogs : form[d] # NoForm => form[d].offered \subseteq Guards
  BY DEF TypeOK, Form
<1>. QED  BY <1>1, <1>2 DEF TypeOK, FormsOK

(* Every step keeps the types. *)
LEMMA TypeStep == TypeOK /\ [Next]_vars => TypeOK'
<1> SUFFICES ASSUME TypeOK, [Next]_vars PROVE TypeOK'
  OBVIOUS
<1> USE GuardFlowsAssumption
<1>1. ASSUME NEW d \in Dialogs, NEW g \in Guards \cup {NoGuard},
             NEW recover \in BOOLEAN, ShowForm(d, g, recover)
      PROVE  TypeOK'
  <2> DEFINE shown == [guard |-> g, recover |-> recover,
                       offered |-> IF recover THEN RecoverGuards \ {g} ELSE {}]
  <2>1. shown \in Form
    BY DEF Form, RecoverGuards
  <2>2. /\ form' \in [Dialogs -> Form \cup {NoForm}]
        /\ \A e \in Dialogs : form'[e] = IF e = d THEN shown ELSE form[e]
    BY <1>1, <2>1 DEF ShowForm, TypeOK
  <2>3. /\ shown.guard \notin shown.offered
        /\ shown.recover \/ shown.offered = {}
        /\ \A h \in shown.offered : stored[h] # Unused
    BY DEF RecoverGuards, Exists
  <2>4. UNCHANGED <<stored, engine, phase, reload, parted>>
    BY <1>1 DEF ShowForm
  <2>. QED  BY <2>2, <2>3, <2>4 DEF TypeOK
<1>2. ASSUME NEW d \in Dialogs, Close(d) PROVE TypeOK'
  BY <1>2 DEF Close, TypeOK
<1>3. ASSUME NEW d \in Dialogs, FinishAdding(d) PROVE TypeOK'
  <2>1. PICK g \in Guards, links \in SUBSET form[d].offered :
          /\ stored[g] = Unused
          /\ stored' = [stored EXCEPT ![g] =
                          [recover |-> form[d].recover, links |-> links]]
          /\ parted' = PartedAfter(g, links, {})
    BY <1>3 DEF FinishAdding
  <2>2. form[d] \in Form /\ form[d] # NoForm
    BY <1>3 DEF FinishAdding, TypeOK
  <2>3. g \notin links /\ (form[d].recover \/ links = {})
    BY <2>1, <2>2 DEF TypeOK
  <2>4. /\ stored' \in [Guards -> Data \cup {Unused, Deleted}]
        /\ \A h \in Guards : stored'[h] \in Data =>
             h \notin stored'[h].links /\ (stored'[h].recover \/ stored'[h].links = {})
        /\ \A h \in Guards : stored[h] # Unused => stored'[h] # Unused
    <3> DEFINE data == [recover |-> form[d].recover, links |-> links]
    <3>1. data \in Data
      BY <2>2 DEF Form, Data
    <3>2. \A h \in Guards : stored'[h] = IF h = g THEN data ELSE stored[h]
      BY <2>1 DEF TypeOK
    <3>. QED  BY <2>1, <2>3, <3>1, <3>2 DEF TypeOK
  <2>5. /\ parted' \subseteq SUBSET Guards
        /\ form' = [form EXCEPT ![d] = NoForm]
        /\ reload' \in BOOLEAN /\ UNCHANGED <<engine, phase>>
    BY <1>3, <2>1 DEF FinishAdding, TypeOK, Notified, PartedAfter
  <2>6. FormsOK'
    BY <2>4, <2>5, FormsStayOK
  <2>. QED  BY <2>4, <2>5, <2>6 DEF TypeOK, FormsOK
<1>4. ASSUME NEW d \in Dialogs, FinishReconfiguring(d) PROVE TypeOK'
  <2> DEFINE g == form[d].guard
  <2>1. form[d] \in Form /\ form[d] # NoForm /\ g \in Guards /\ Exists(g)
    BY <1>4 DEF FinishReconfiguring, TypeOK, Form
  <2>2. PICK links \in SUBSET form[d].offered :
          /\ stored' = Updated(g, [recover |-> form[d].recover, links |-> links])
          /\ parted' = PartedAfter(g, links, TakenApart(form[d], links))
    BY <1>4 DEF FinishReconfiguring
  <2> DEFINE data == [recover |-> form[d].recover, links |-> links]
  <2>3. data \in Data /\ g \notin data.links /\ (data.recover \/ data.links = {})
    BY <2>1 DEF Form, Data, TypeOK
  <2>4. /\ stored' \in [Guards -> Data \cup {Unused, Deleted}]
        /\ \A h \in Guards : stored'[h] \in Data =>
             h \notin stored'[h].links /\ (stored'[h].recover \/ stored'[h].links = {})
        /\ \A h \in Guards : stored[h] # Unused => stored'[h] # Unused
    BY <2>1, <2>2, <2>3, UpdatedType
  <2>5. parted' \subseteq SUBSET Guards
    BY <2>1, <2>2 DEF PartedAfter, TakenApart, TypeOK, Form
  <2>6. /\ form' = [form EXCEPT ![d] = NoForm]
        /\ reload' \in BOOLEAN /\ UNCHANGED <<engine, phase>>
    BY <1>4 DEF FinishReconfiguring, TypeOK, Notified
  <2>7. FormsOK'
    BY <2>4, <2>6, FormsStayOK
  <2>. QED  BY <2>4, <2>5, <2>6, <2>7 DEF TypeOK, FormsOK
<1>5. ASSUME NEW g \in Guards, Delete(g) PROVE TypeOK'
  <2>1. \A h \in Guards : stored[h] # Unused => stored'[h] # Unused
    BY <1>5 DEF Delete, TypeOK
  <2>2. FormsOK'
    BY <1>5, <2>1, FormsStayOK DEF Delete
  <2>. QED  BY <1>5, <2>2 DEF Delete, TypeOK, FormsOK, Notified
<1>6. ASSUME Unload PROVE TypeOK'
  BY <1>6 DEF Unload, TypeOK
<1>7. ASSUME SetUp PROVE TypeOK'
  <2>1. PICK failing \in SUBSET Fallible :
          engine' = [g \in Guards |->
                       IF Exists(g) /\ g \notin failing
                         THEN [partners |-> Group(g),
                               allowsRecovery |-> stored[g].recover]
                         ELSE NoEngine]
    BY <1>7 DEF SetUp
  <2>2. ASSUME NEW g \in Guards, Exists(g)
        PROVE  [partners |-> Group(g), allowsRecovery |-> stored[g].recover]
                 \in Engine
    <3>1. stored[g].recover \in BOOLEAN
      BY <2>2 DEF TypeOK, Exists, Data
    <3>2. Group(g) \subseteq Guards
      BY GroupsAreValid DEF Group, RecoverGuards
    <3>. QED  BY <3>1, <3>2 DEF Engine
  <2>3. engine' \in [Guards -> Engine \cup {NoEngine}]
    BY <2>1, <2>2
  <2>. QED  BY <1>7, <2>3 DEF SetUp, TypeOK
<1>8. CASE UNCHANGED vars
  BY <1>8 DEF vars, TypeOK
<1>. QED  BY <1>1, <1>2, <1>3, <1>4, <1>5, <1>6, <1>7, <1>8 DEF Next, DialogSteps

(* TypeOK: the forms, the subentries and the engines keep their types, no  *)
(* guard links itself and no notify-only guard links anybody.              *)
THEOREM TypeCorrect == Spec => []TypeOK
<1>1. Init => TypeOK
  BY GuardFlowsAssumption DEF Init, TypeOK
<1>. QED  BY <1>1, TypeStep, PTL DEF Spec

-----------------------------------------------------------------------------
(* Guards that were taken apart *)

(* A reconfiguration leaves no link, at either end, between the guard and  *)
(* the guards that it parts it from.                                       *)
LEMMA ReconfiguringParts ==
  ASSUME TypeOK, PartedStayApart, NEW g \in Guards, Exists(g),
         NEW data \in Data, g \notin data.links,
         stored' = Updated(g, data),
         NEW apart \in SUBSET Guards, apart # {} => stored[g].recover,
         parted' = PartedAfter(g, data.links, apart)
  PROVE  PartedStayApart'
<1> SUFFICES ASSUME NEW x \in Guards, NEW y \in Guards,
                    {x, y} \in parted', Exists(x)'
             PROVE  y \notin stored'[x].links
  BY DEF PartedStayApart
<1>1. \A h \in data.links : {g, h} # {x, y}
  BY DEF PartedAfter
<1>2. \/ {x, y} \in parted
      \/ stored[g].recover /\ g \in {x, y}
  <2>1. SUFFICES ASSUME {x, y} \notin parted
                 PROVE  stored[g].recover /\ g \in {x, y}
    OBVIOUS
  <2>2. PICK h \in apart : {x, y} = {g, h}
    BY <2>1 DEF PartedAfter
  <2>. QED  BY <2>2
<1>3. CASE x = g
  <2>1. stored'[x] = data
    BY <1>3 DEF Updated
  <2>. QED  BY <1>1, <1>3, <2>1
<1>4. CASE x # g /\ x \in Group(g) \ data.links
  <2>1. x \in RecoverGuards
    BY <1>4, GroupsAreValid DEF Group
  <2>2. stored[x] \in Data /\ Exists(x)
    BY <2>1 DEF RecoverGuards, TypeOK, Exists
  <2>3. stored'[x] = [stored[x] EXCEPT !.links = stored[x].links \ {g}]
    BY <1>4 DEF Updated
  <2>4. stored'[x].links = stored[x].links \ {g}
    BY <2>2, <2>3 DEF Data
  <2>5. CASE y = g
    BY <2>4, <2>5
  <2>6. CASE y # g
    <3>1. {x, y} \in parted
      BY <1>2, <1>4, <2>6
    <3>. QED  BY <2>2, <2>4, <3>1 DEF PartedStayApart
  <2>. QED  BY <2>5, <2>6
<1>5. CASE x # g /\ x \notin Group(g) \ data.links
  <2>1. stored'[x] = stored[x] /\ Exists(x)
    BY <1>5 DEF Updated, Exists
  <2>2. CASE {x, y} \in parted
    BY <2>1, <2>2 DEF PartedStayApart
  <2>3. CASE {x, y} \notin parted
    <3>1. y = g /\ stored[g].recover
      BY <1>2, <1>5, <2>3
    <3>2. x \notin Group(g)
      BY <1>1, <1>5, <3>1
    <3>3. SUFFICES ASSUME g \in stored[x].links PROVE FALSE
      BY <2>1, <3>1
    <3>4. stored[x] \in Data
      BY <2>1 DEF Exists, TypeOK
    <3>5. x \in RecoverGuards /\ g \in RecoverGuards
      BY <2>1, <3>1, <3>3, <3>4 DEF RecoverGuards, TypeOK
    <3>6. Joined(DeclaredLinks, RecoverGuards, g, x)
      BY <1>5, <3>3, <3>5 DEF Joined, DeclaredLinks
    <3>. QED  BY <3>2, <3>6, LinkedGuardsAreGrouped DEF Group
  <2>. QED  BY <2>2, <2>3
<1>. QED  BY <1>3, <1>4, <1>5

(* Every step keeps parted guards apart. *)
LEMMA PartedStep == TypeOK /\ PartedStayApart /\ [Next]_vars => PartedStayApart'
<1> SUFFICES ASSUME TypeOK, PartedStayApart, [Next]_vars PROVE PartedStayApart'
  OBVIOUS
<1>1. CASE UNCHANGED <<stored, parted>>
  BY <1>1 DEF PartedStayApart, Exists
<1>2. ASSUME NEW d \in Dialogs, FinishAdding(d) PROVE PartedStayApart'
  <2>1. PICK g \in Guards, links \in SUBSET form[d].offered :
          /\ stored[g] = Unused
          /\ stored' = [stored EXCEPT ![g] =
                          [recover |-> form[d].recover, links |-> links]]
          /\ parted' = PartedAfter(g, links, {})
    BY <1>2 DEF FinishAdding
  <2> DEFINE data == [recover |-> form[d].recover, links |-> links]
  <2> SUFFICES ASSUME NEW x \in Guards, NEW y \in Guards,
                      {x, y} \in parted', Exists(x)'
               PROVE  y \notin stored'[x].links
    BY DEF PartedStayApart
  <2>2. stored'[x] = IF x = g THEN data ELSE stored[x]
    BY <2>1 DEF TypeOK
  <2>3. {x, y} \in parted /\ \A h \in links : {g, h} # {x, y}
    BY <2>1 DEF PartedAfter
  <2>4. CASE x = g
    BY <2>2, <2>3, <2>4
  <2>5. CASE x # g
    BY <2>2, <2>3, <2>5 DEF PartedStayApart, Exists
  <2>. QED  BY <2>4, <2>5
<1>3. ASSUME NEW d \in Dialogs, FinishReconfiguring(d) PROVE PartedStayApart'
  <2> DEFINE g == form[d].guard
  <2>1. form[d] \in Form /\ form[d] # NoForm /\ g \in Guards /\ Exists(g)
    BY <1>3 DEF FinishReconfiguring, TypeOK, Form
  <2>2. PICK links \in SUBSET form[d].offered :
          /\ stored' = Updated(g, [recover |-> form[d].recover, links |-> links])
          /\ parted' = PartedAfter(g, links, TakenApart(form[d], links))
    BY <1>3 DEF FinishReconfiguring
  <2> DEFINE data == [recover |-> form[d].recover, links |-> links]
  <2>3. data \in Data /\ g \notin data.links /\ data.links = links
    BY <2>1 DEF Form, Data, TypeOK
  <2> DEFINE apart == TakenApart(form[d], links)
  <2>4. apart \in SUBSET Guards /\ (apart # {} => stored[g].recover)
    BY <2>1 DEF TakenApart, Form
  <2> HIDE DEF apart
  <2>5. parted' = PartedAfter(g, data.links, apart)
    BY <2>2, <2>3 DEF apart
  <2>. QED  BY <2>1, <2>2, <2>3, <2>4, <2>5, ReconfiguringParts
<1>4. ASSUME NEW g \in Guards, Delete(g) PROVE PartedStayApart'
  BY <1>4 DEF Delete, PartedStayApart, Exists, TypeOK
<1>. QED  BY <1>1, <1>2, <1>3, <1>4
          DEF Next, DialogSteps, ShowForm, Close, Unload, SetUp, vars

(* PartedStayApart: what a form takes apart is linked at neither end until *)
(* a form links it again, for any number of guards and open dialogs.       *)
THEOREM PartedApart == Spec => []PartedStayApart
<1>1. Init => PartedStayApart
  BY DEF Init, PartedStayApart
<1>. QED  BY <1>1, PartedStep, TypeCorrect, PTL DEF Spec

-----------------------------------------------------------------------------
(* Engines *)

(* EnginesAgree: the engines of an entry form cliques that never include a *)
(* notify-only guard: GuardGroupAssumption, for every configuration.       *)
THEOREM GroupsAgree == Spec => []EnginesAgree
<1>1. Init => EnginesAgree
  BY DEF Init, EnginesAgree
<1>2. EnginesAgree /\ [Next]_vars => EnginesAgree'
  <2> SUFFICES ASSUME EnginesAgree, [Next]_vars PROVE EnginesAgree'
    OBVIOUS
  <2>1. CASE UNCHANGED engine
    BY <2>1 DEF EnginesAgree
  <2>2. CASE Unload
    BY <2>2 DEF Unload, EnginesAgree
  <2>3. CASE SetUp
    <3>1. PICK failing \in SUBSET Fallible :
            engine' = [g \in Guards |->
                         IF Exists(g) /\ g \notin failing
                           THEN [partners |-> Group(g),
                                 allowsRecovery |-> stored[g].recover]
                           ELSE NoEngine]
      BY <2>3 DEF SetUp
    <3> SUFFICES ASSUME NEW g \in Guards, NEW h \in Guards,
                        engine'[g] # NoEngine, engine'[h] # NoEngine,
                        h \in engine'[g].partners
                 PROVE  /\ h # g /\ engine'[h].allowsRecovery
                        /\ engine'[h].partners
                             = (engine'[g].partners \ {h}) \cup {g}
      BY DEF EnginesAgree
    <3>2. /\ engine'[g].partners = Group(g) /\ engine'[h].partners = Group(h)
          /\ engine'[h].allowsRecovery = stored[h].recover
      BY <3>1
    <3>3. /\ h \in RecoverGuards /\ h # g
          /\ Group(h) = (Group(g) \ {h}) \cup {g}
      BY <3>2, GroupsAreCliques DEF Group
    <3>. QED  BY <3>2, <3>3 DEF RecoverGuards
  <2>. QED  BY <2>1, <2>2, <2>3 DEF Next, DialogSteps, ShowForm, Close,
              FinishAdding, FinishReconfiguring, Delete, vars
<1>. QED  BY <1>1, <1>2, PTL DEF Spec

(* EnginesAreCurrent: no change of the stored links goes unnoticed.        *)
THEOREM NoChangeIsLost == Spec => []EnginesAreCurrent
<1>1. Init => EnginesAreCurrent
  BY DEF Init, EnginesAreCurrent
<1>2. TypeOK /\ EnginesAreCurrent /\ [Next]_vars => EnginesAreCurrent'
  <2> SUFFICES ASSUME TypeOK, EnginesAreCurrent, [Next]_vars,
                      phase' = "up", ~reload', NEW g \in Guards,
                      engine'[g] # NoEngine
               PROVE  /\ Exists(g)'
                      /\ engine'[g].partners = Group(g)'
                      /\ engine'[g].allowsRecovery = stored'[g].recover
    BY DEF EnginesAreCurrent
  <2>1. CASE Notified /\ UNCHANGED <<engine, phase>>
    <3>1. ~reload /\ phase = "up" /\ stored' = stored
      BY <2>1 DEF Notified, TypeOK
    <3>. QED  BY <2>1, <3>1 DEF EnginesAreCurrent, Exists, Group, DeclaredLinks,
                RecoverGuards
  <2>2. CASE UNCHANGED <<stored, engine, phase, reload>>
    BY <2>2 DEF EnginesAreCurrent, Exists, Group, DeclaredLinks, RecoverGuards
  <2>3. CASE Unload
    BY <2>3 DEF Unload
  <2>4. CASE SetUp
    BY <2>4 DEF SetUp, Exists, Group, DeclaredLinks, RecoverGuards
  <2>. QED  BY <2>1, <2>2, <2>3, <2>4 DEF Next, DialogSteps, ShowForm, Close,
              FinishAdding, FinishReconfiguring, Delete, vars
<1>. QED  BY <1>1, <1>2, TypeCorrect, PTL DEF Spec

(* The search that group_of runs (links.py:45-59) finds the group that the *)
(* declared links make, whatever it pops next: forms and engines that go   *)
(* by it get the connected components.                                     *)
THEOREM SearchIsRight == Spec => []SearchFindsGroup
<1>1. IsFiniteSet(RecoverGuards)
  BY GuardFlowsAssumption, FS_Subset DEF RecoverGuards
<1>2. SearchFindsGroup
  BY <1>1, ExploreFindsComponent DEF SearchFindsGroup, Group, GroupOf
<1>. QED  BY <1>2, PTL
=============================================================================
