-------------------------- MODULE PortOptionsProofs --------------------------
(***************************************************************************)
(* Proofs about the options dialog: what it works on and what it saves are *)
(* lists of ports, and an import that merges is an upsert by label,        *)
(* however long the lists are and whatever labels an import repeats.       *)
(***************************************************************************)
EXTENDS PortOptions, FiniteSetTheorems, WellFoundedInduction, TLAPS

-----------------------------------------------------------------------------
(* Numbers *)

(* The least of a set of numbers. *)
LEMMA LeastNumber ==
  ASSUME NEW T \in SUBSET Nat, T # {}
  PROVE  \E m \in T : \A k \in T : m <= k
<1> DEFINE Less == {pair \in Nat \X Nat : pair[1] < pair[2]}
<1>1. IsWellFoundedOn(Less, Nat)
  BY NatLessThanWellFounded DEF OpToRel
<1>2. PICK m \in T : \A k \in T : <<k, m>> \notin Less
  BY <1>1, WFMin
<1>3. ASSUME NEW k \in T PROVE m <= k
  <2>1. m \in Nat /\ k \in Nat /\ <<k, m>> \in Nat \X Nat
    BY <1>3
  <2>2. ~ (<<k, m>>[1] < <<k, m>>[2])
    BY <1>2, <1>3, <2>1
  <2>. QED  BY <2>1, <2>2
<1>. QED  BY <1>3

(* The greatest of some places of a list. *)
LEMMA LastPlace ==
  ASSUME NEW n \in Nat, NEW S \in SUBSET (1 .. n), S # {}
  PROVE  Max(S) \in S /\ \A i \in S : i <= Max(S)
<1> DEFINE T == {n - x : x \in S}
<1>1. T \in SUBSET Nat /\ T # {}
  <2>1. \A x \in S : n - x \in Nat
    OBVIOUS
  <2>. QED  BY <2>1
<1>2. PICK m \in T : \A k \in T : m <= k
  BY <1>1, LeastNumber
<1>3. PICK x \in S : m = n - x
  BY <1>2
<1>4. \A y \in S : x >= y
  <2> TAKE y \in S
  <2>1. n - y \in T
    OBVIOUS
  <2>. QED  BY <1>2, <1>3, <2>1
<1>5. Max(S) \in S /\ \A y \in S : Max(S) >= y
  BY <1>4 DEF Max
<1>. QED  BY <1>5

-----------------------------------------------------------------------------
(* Lists *)

(* The form and the import only let ports pass that have at most one way.  *)
LEMMA AcceptedPorts == Accepted \subseteq Port
<1>1. ASSUME NEW fields \in IdFields, ValidIdentity(fields)
      PROVE  Cardinality(fields \ {"id_attribute"}) \in 0 .. 1
  <2>1. \/ fields \ {"id_attribute"} = {}
        \/ fields \ {"id_attribute"} = {"id_entity"}
        \/ fields \ {"id_attribute"} = {"id_static"}
    BY <1>1 DEF IdFields, ValidIdentity
  <2>2. /\ Cardinality({}) = 0
        /\ Cardinality({"id_entity"}) = 1 /\ Cardinality({"id_static"}) = 1
    BY FS_EmptySet, FS_Singleton
  <2>. QED  BY <2>1, <2>2
<1>2. ASSUME NEW p \in Accepted
      PROVE  p \in Port
  <2>1. PICK l \in Labels, e \in PortEntities,
             fields \in {f \in IdFields : ValidIdentity(f)} :
               p = [label |-> l, entity |-> e,
                    ways |-> Cardinality(fields \ {"id_attribute"})]
    BY <1>2 DEF Accepted
  <2>2. Cardinality(fields \ {"id_attribute"}) \in 0 .. 1
    BY <1>1
  <2>. QED  BY <2>1, <2>2 DEF Port
<1>. QED  BY <1>2

(* What an import gives is a list of ports within the bound. *)
LEMMA ListsOfPorts ==
  ASSUME NEW list \in PortList
  PROVE  list \in Seq(Port) /\ Len(list) <= MaxPorts
<1>1. PICK m \in 0 .. MaxPorts : list \in [1 .. m -> Accepted]
  BY DEF PortList, SeqOf
<1>2. m \in Nat /\ list \in [1 .. m -> Port]
  BY <1>1, AcceptedPorts, PortListsAssumption
<1>3. list \in Seq(Port) /\ Len(list) = m
  BY <1>2
<1>. QED  BY <1>1, <1>3, PortListsAssumption

(* Where the last port with a label is. *)
LEMMA PlaceIsLast ==
  ASSUME NEW list \in Seq(Port), NEW port
  PROVE  LET at == {i \in 1 .. Len(list) : list[i].label = port.label}
         IN  IF at = {} THEN PlaceOf(port, list) = 0
             ELSE /\ PlaceOf(port, list) \in at
                  /\ \A i \in at : i <= PlaceOf(port, list)
<1> DEFINE at == {i \in 1 .. Len(list) : list[i].label = port.label}
<1>1. PlaceOf(port, list) = IF at # {} THEN Max(at) ELSE 0
  BY DEF PlaceOf, SelectLastInSeq
<1>2. at \in SUBSET (1 .. Len(list)) /\ Len(list) \in Nat
  OBVIOUS
<1> HIDE DEF at
<1>3. at # {} => Max(at) \in at /\ \A i \in at : i <= Max(at)
  BY <1>2, LastPlace
<1>. QED  BY <1>1, <1>3 DEF at

(* No label is in two places. *)
Injective(list) ==
  \A i, j \in 1 .. Len(list) : list[i].label = list[j].label => i = j

LEMMA DistinctIsInjective ==
  ASSUME NEW list \in Seq(Port)
  PROVE  Distinct(list) <=> Injective(list)
<1> DEFINE places == 1 .. Len(list)
           f == [i \in places |-> list[i].label]
<1>1. IsFiniteSet(places) /\ Cardinality(places) = Len(list)
  <2>1. Len(list) \in Nat
    OBVIOUS
  <2>. QED  BY <2>1, FS_Interval
<1>2. LabelsOf(list) = {f[i] : i \in places}
  BY DEF LabelsOf, ToSet
<1>3. f \in Surjection(places, LabelsOf(list))
  BY <1>2 DEF Surjection
<1>4. Cardinality(LabelsOf(list)) = Len(list)
        <=> f \in Injection(places, LabelsOf(list))
  BY <1>1, <1>3, FS_Surjection
<1>5. f \in Injection(places, LabelsOf(list)) <=> Injective(list)
  BY <1>2 DEF Injection, IsInjective, Injective
<1>. QED  BY <1>4, <1>5 DEF Distinct

-----------------------------------------------------------------------------
(* One imported port *)

Upserted(to, port) ==
  IF PlaceOf(port, to) = 0 THEN Append(to, port)
  ELSE ReplaceAt(to, PlaceOf(port, to), port)

LEMMA UpsertedList ==
  ASSUME NEW to \in Seq(Port), NEW port \in Port
  PROVE  Upserted(to, port) \in Seq(Port)
<1>1. PlaceOf(port, to) \in 0 .. Len(to)
  BY PlaceIsLast
<1>. QED  BY <1>1 DEF Upserted, ReplaceAt

(* A list without duplicates gets none, and only the port of that label    *)
(* becomes the imported one.                                               *)
LEMMA UpsertedPorts ==
  ASSUME NEW to \in Seq(Port), Injective(to), NEW port \in Port
  PROVE  /\ Injective(Upserted(to, port))
         /\ LabelsOf(Upserted(to, port)) = LabelsOf(to) \cup {port.label}
         /\ \A p \in ToSet(Upserted(to, port)) :
              IF p.label = port.label THEN p = port ELSE p \in ToSet(to)
<1> DEFINE new == Upserted(to, port)
           at == {i \in 1 .. Len(to) : to[i].label = port.label}
<1>1. CASE PlaceOf(port, to) = 0
  <2>1. at = {}
    BY <1>1, PlaceIsLast
  <2>2. /\ Len(new) = Len(to) + 1 /\ DOMAIN new = 1 .. Len(to) + 1
        /\ \A i \in 1 .. Len(to) : new[i] = to[i]
        /\ new[Len(to) + 1] = port
    BY <1>1 DEF Upserted
  <2>3. Injective(new)
    BY <2>1, <2>2 DEF Injective
  <2>4. ToSet(new) = ToSet(to) \cup {port}
    BY <2>2 DEF ToSet
  <2>5. \A p \in ToSet(to) : p.label # port.label
    BY <2>1 DEF ToSet
  <2>. QED  BY <2>3, <2>4, <2>5 DEF LabelsOf
<1>2. CASE PlaceOf(port, to) # 0
  <2> DEFINE k == PlaceOf(port, to)
  <2>1. k \in 1 .. Len(to) /\ to[k].label = port.label
    BY <1>2, PlaceIsLast
  <2>2. /\ Len(new) = Len(to) /\ DOMAIN new = 1 .. Len(to)
        /\ \A i \in 1 .. Len(to) : new[i] = IF i = k THEN port ELSE to[i]
    BY <1>2, <2>1 DEF Upserted, ReplaceAt
  <2> HIDE DEF k, new
  <2>3. \A i \in 1 .. Len(to) : new[i].label = to[i].label
    BY <2>1, <2>2
  <2>4. Injective(new)
    BY <2>2, <2>3 DEF Injective
  <2>5. LabelsOf(new) = LabelsOf(to) /\ port.label \in LabelsOf(to)
    BY <2>1, <2>2, <2>3 DEF LabelsOf, ToSet
  <2>6. ASSUME NEW p \in ToSet(new)
        PROVE  IF p.label = port.label THEN p = port ELSE p \in ToSet(to)
    <3>1. PICK i \in 1 .. Len(to) : p = new[i]
      BY <2>2 DEF ToSet
    <3>2. p.label = port.label => i = k
      BY <2>1, <2>3, <3>1 DEF Injective
    <3>3. to[i] \in ToSet(to)
      BY DEF ToSet
    <3>. QED  BY <2>1, <2>2, <3>1, <3>2, <3>3
  <2>. QED  BY <2>4, <2>5, <2>6 DEF new
<1>. QED  BY <1>1, <1>2

-----------------------------------------------------------------------------
(* The import.  Merged is a fold of the library: a recursive function on   *)
(* the sets of places, applied to all places of the import.                *)

(* What the fold makes of the places s, f being the fold without the last. *)
Turn(list, imported, f, s) ==
  IF s = {} THEN list
  ELSE LET i == Max(s) IN Upserted(f[s \ {i}], imported[i])

IsFold(list, imported, n, f) ==
  f = [s \in SUBSET (1 .. n) |-> Turn(list, imported, f, s)]

TheFold(list, imported) ==
  CHOOSE f : f = [s \in SUBSET (DOMAIN imported) |-> Turn(list, imported, f, s)]

LEMMA MergedIsFold ==
  ASSUME NEW list, NEW imported
  PROVE  Merged(list, imported) = TheFold(list, imported)[DOMAIN imported]
BY DEF Merged, FoldLeft, MapThenFoldSet, TheFold, Turn, Upserted

(* A fold of the first n ports gives one of n + 1: of a set with the place *)
(* n + 1 that is the last one.                                             *)
LEMMA FoldGoesOn ==
  ASSUME NEW list, NEW imported, NEW n \in Nat, NEW f, IsFold(list, imported, n, f)
  PROVE  \E g : IsFold(list, imported, n + 1, g)
<1> DEFINE last == n + 1
           g == [s \in SUBSET (1 .. last) |->
                   IF last \in s THEN Upserted(f[s \ {last}], imported[last])
                   ELSE f[s]]
<1>1. ASSUME NEW s \in SUBSET (1 .. last)
      PROVE  g[s] = Turn(list, imported, g, s)
  <2>1. CASE last \in s
    <3>1. s # {} /\ Max(s) = last
      <4>1. last \in Nat /\ \A i \in s : i <= last
        OBVIOUS
      <4>2. Max(s) \in s /\ \A i \in s : i <= Max(s)
        BY <2>1, <4>1, LastPlace
      <4>3. Max(s) \in 1 .. last /\ last <= Max(s)
        BY <2>1, <4>2
      <4>4. \A m \in 1 .. last : last <= m => m = last
        OBVIOUS
      <4>. QED  BY <2>1, <4>3, <4>4
    <3>2. s \ {last} \in SUBSET (1 .. last) /\ last \notin s \ {last}
      OBVIOUS
    <3>3. g[s \ {last}] = f[s \ {last}]
      BY <3>2
    <3>. QED  BY <2>1, <3>1, <3>3 DEF Turn
  <2>2. CASE last \notin s
    <3>1. s \in SUBSET (1 .. n)
      BY <2>2
    <3>2. g[s] = f[s] /\ f[s] = Turn(list, imported, f, s)
      BY <2>2, <3>1 DEF IsFold
    <3>3. CASE s = {}
      BY <3>2, <3>3 DEF Turn
    <3>4. CASE s # {}
      <4>1. s \ {Max(s)} \in SUBSET (1 .. last) /\ last \notin s \ {Max(s)}
        BY <2>2
      <4>2. g[s \ {Max(s)}] = f[s \ {Max(s)}]
        BY <4>1
      <4>. QED  BY <3>2, <3>4, <4>2 DEF Turn
    <3>. QED  BY <3>3, <3>4
  <2>. QED  BY <2>1, <2>2
<1>2. IsFold(list, imported, last, g)
  BY <1>1 DEF IsFold
<1>. QED  BY <1>2

(* So there is a fold of every import: by the shortest without one.        *)
LEMMA FoldExists ==
  ASSUME NEW list, NEW imported, NEW n \in Nat
  PROVE  \E f : IsFold(list, imported, n, f)
<1> DEFINE Without == {k \in Nat : ~ \E f : IsFold(list, imported, k, f)}
<1>1. SUFFICES ASSUME Without # {} PROVE FALSE
  OBVIOUS
<1>2. PICK k \in Without : \A j \in Without : k <= j
  BY <1>1, LeastNumber
<1>3. CASE k = 0
  <2> DEFINE f == [s \in SUBSET (1 .. 0) |-> list]
  <2>1. \A s \in SUBSET (1 .. 0) : f[s] = Turn(list, imported, f, s)
    BY DEF Turn
  <2>2. IsFold(list, imported, 0, f)
    BY <2>1 DEF IsFold
  <2>. QED  BY <1>3, <2>2
<1>4. CASE k # 0
  <2>1. k - 1 \in Nat /\ k - 1 \notin Without /\ (k - 1) + 1 = k
    BY <1>2, <1>4
  <2>2. PICK f : IsFold(list, imported, k - 1, f)
    BY <2>1
  <2>3. \E g : IsFold(list, imported, (k - 1) + 1, g)
    BY <2>1, <2>2, FoldGoesOn
  <2>. QED  BY <2>1, <2>3
<1>. QED  BY <1>3, <1>4

(* What the dialog has after the first k ports of the import. *)
After(list, imported, k) == TheFold(list, imported)[1 .. k]

LEMMA MergeSteps ==
  ASSUME NEW list, NEW imported \in Seq(Port)
  PROVE  /\ Merged(list, imported) = After(list, imported, Len(imported))
         /\ After(list, imported, 0) = list
         /\ \A k \in 1 .. Len(imported) :
              After(list, imported, k)
                = Upserted(After(list, imported, k - 1), imported[k])
<1> DEFINE n == Len(imported)
           f == TheFold(list, imported)
<1>1. n \in Nat /\ DOMAIN imported = 1 .. n
  OBVIOUS
<1>2. IsFold(list, imported, n, f)
  <2>1. PICK g : IsFold(list, imported, n, g)
    BY <1>1, FoldExists
  <2>. QED  BY <1>1, <2>1 DEF IsFold, TheFold
<1> HIDE DEF f
<1>3. \A s \in SUBSET (1 .. n) : f[s] = Turn(list, imported, f, s)
  BY <1>2 DEF IsFold
<1>4. f[1 .. 0] = list
  <2>1. 1 .. 0 = {} /\ 1 .. 0 \in SUBSET (1 .. n)
    BY <1>1
  <2>. QED  BY <1>3, <2>1 DEF Turn
<1>5. ASSUME NEW k \in 1 .. n
      PROVE  f[1 .. k] = Upserted(f[1 .. (k - 1)], imported[k])
  <2>0. k \in Nat /\ k \in 1 .. k
    BY <1>1
  <2>1. 1 .. k \in SUBSET (1 .. n) /\ 1 .. k # {}
    <3>1. \A i \in 1 .. k : i \in 1 .. n
      BY <1>1, <2>0
    <3>. QED  BY <2>0, <3>1
  <2>2. Max(1 .. k) = k
    <3>1. Max(1 .. k) \in 1 .. k /\ \A i \in 1 .. k : i <= Max(1 .. k)
      BY <2>0, <2>1, LastPlace
    <3>. QED  BY <2>0, <3>1
  <2>3. (1 .. k) \ {k} = 1 .. (k - 1)
    BY <1>1
  <2>. QED  BY <1>3, <2>1, <2>2, <2>3 DEF Turn
<1>6. Merged(list, imported) = f[1 .. n]
  BY <1>1, MergedIsFold DEF f
<1>. QED  BY <1>4, <1>5, <1>6 DEF After, f

-----------------------------------------------------------------------------
(* Upsert *)

(* The place in the import of the last of its first k ports with a label.  *)
IsLastOf(imported, k, l, i) ==
  /\ i \in 1 .. k /\ imported[i].label = l
  /\ \A j \in 1 .. k : imported[j].label = l => j <= i

(* The list so far is the one before, upserted by k ports. *)
IsUpsert(list, imported, k, new) ==
  /\ new \in Seq(Port)
  /\ Injective(list) =>
       /\ Injective(new)
       /\ LabelsOf(new) = LabelsOf(list) \cup {imported[i].label : i \in 1 .. k}
       /\ \A p \in ToSet(new) :
            \/ \E i \in 1 .. k : IsLastOf(imported, k, p.label, i) /\ p = imported[i]
            \/ /\ p \in ToSet(list)
               /\ \A i \in 1 .. k : imported[i].label # p.label

LEMMA UpsertGoesOn ==
  ASSUME NEW list \in Seq(Port), NEW imported \in Seq(Port),
         NEW k \in 1 .. Len(imported), NEW old,
         IsUpsert(list, imported, k - 1, old)
  PROVE  IsUpsert(list, imported, k, Upserted(old, imported[k]))
<1> DEFINE port == imported[k]
           new == Upserted(old, port)
<1>0. /\ k \in Nat /\ k \in 1 .. k
      /\ \A i : i \in 1 .. k <=> i \in 1 .. (k - 1) \/ i = k
      /\ \A i \in 1 .. (k - 1) : i <= k
  OBVIOUS
<1>1. old \in Seq(Port) /\ port \in Port
  BY DEF IsUpsert
<1>2. new \in Seq(Port)
  BY <1>1, UpsertedList
<1>3. ASSUME Injective(list)
      PROVE  /\ Injective(new)
             /\ LabelsOf(new) = LabelsOf(list) \cup {imported[i].label : i \in 1 .. k}
             /\ \A p \in ToSet(new) :
                  \/ \E i \in 1 .. k : IsLastOf(imported, k, p.label, i) /\ p = imported[i]
                  \/ /\ p \in ToSet(list)
                     /\ \A i \in 1 .. k : imported[i].label # p.label
  <2>1. /\ Injective(old)
        /\ LabelsOf(old) = LabelsOf(list)
                             \cup {imported[i].label : i \in 1 .. (k - 1)}
        /\ \A p \in ToSet(old) :
             \/ \E i \in 1 .. (k - 1) :
                  IsLastOf(imported, k - 1, p.label, i) /\ p = imported[i]
             \/ /\ p \in ToSet(list)
                /\ \A i \in 1 .. (k - 1) : imported[i].label # p.label
    BY <1>3 DEF IsUpsert
  <2>2. /\ Injective(new)
        /\ LabelsOf(new) = LabelsOf(old) \cup {port.label}
        /\ \A p \in ToSet(new) :
             IF p.label = port.label THEN p = port ELSE p \in ToSet(old)
    BY <1>1, <2>1, UpsertedPorts
  <2> HIDE DEF new
  <2>3. {imported[i].label : i \in 1 .. k}
          = {imported[i].label : i \in 1 .. (k - 1)} \cup {port.label}
    BY <1>0
  <2>4. ASSUME NEW p \in ToSet(new)
        PROVE  \/ \E i \in 1 .. k : IsLastOf(imported, k, p.label, i) /\ p = imported[i]
               \/ /\ p \in ToSet(list)
                  /\ \A i \in 1 .. k : imported[i].label # p.label
    <3>1. CASE p.label = port.label
      <4>1. IsLastOf(imported, k, p.label, k)
        BY <1>0, <3>1 DEF IsLastOf
      <4>. QED  BY <1>0, <2>2, <3>1, <4>1
    <3>2. CASE p.label # port.label
      <4>1. p \in ToSet(old)
        BY <2>2, <3>2
      <4>2. CASE \E i \in 1 .. (k - 1) :
                   IsLastOf(imported, k - 1, p.label, i) /\ p = imported[i]
        <5>1. PICK i \in 1 .. (k - 1) :
                IsLastOf(imported, k - 1, p.label, i) /\ p = imported[i]
          BY <4>2
        <5>2. IsLastOf(imported, k, p.label, i)
          BY <1>0, <3>2, <5>1 DEF IsLastOf
        <5>. QED  BY <1>0, <5>1, <5>2
      <4>3. CASE /\ p \in ToSet(list)
                 /\ \A i \in 1 .. (k - 1) : imported[i].label # p.label
        BY <1>0, <3>2, <4>3
      <4>. QED  BY <2>1, <4>1, <4>2, <4>3
    <3>. QED  BY <3>1, <3>2
  <2>. QED  BY <2>1, <2>2, <2>3, <2>4
<1>. QED  BY <1>2, <1>3 DEF IsUpsert

(* By the least k where it would not be an upsert. *)
LEMMA MergedIsUpsert ==
  ASSUME NEW list \in Seq(Port), NEW imported \in Seq(Port)
  PROVE  IsUpsert(list, imported, Len(imported), Merged(list, imported))
<1> DEFINE n == Len(imported)
           M(k) == After(list, imported, k)
           Wrong == {k \in 0 .. n : ~ IsUpsert(list, imported, k, M(k))}
<1>0. n \in Nat
  OBVIOUS
<1>1. IsUpsert(list, imported, 0, M(0))
  <2>1. M(0) = list
    BY MergeSteps
  <2>2. 1 .. 0 = {}
    OBVIOUS
  <2>. QED  BY <2>1, <2>2 DEF IsUpsert
<1>2. Wrong = {}
  <2>1. SUFFICES ASSUME Wrong # {} PROVE FALSE
    OBVIOUS
  <2>2. PICK k \in Wrong : \A j \in Wrong : k <= j
    <3>1. Wrong \in SUBSET Nat
      BY <1>0
    <3> HIDE DEF Wrong
    <3>. QED  BY <2>1, <3>1, LeastNumber
  <2>3. k \in 1 .. n
    BY <1>0, <1>1, <2>2
  <2>4. k - 1 \in 0 .. n /\ ~ (k <= k - 1)
    BY <1>0, <2>3
  <2>5. IsUpsert(list, imported, k - 1, M(k - 1))
    BY <2>2, <2>4
  <2>6. M(k) = Upserted(M(k - 1), imported[k])
    BY <2>3, MergeSteps
  <2>7. IsUpsert(list, imported, k, M(k))
    BY <2>3, <2>5, <2>6, UpsertGoesOn
  <2>. QED  BY <2>2, <2>7
<1>3. Merged(list, imported) = M(n)
  BY MergeSteps
<1>. QED  BY <1>0, <1>2, <1>3

-----------------------------------------------------------------------------
(* Theorems *)

(* What the entry stores and what the dialog works on are lists of ports,  *)
(* each with one way at most to tell the id of its device                  *)
(* (_validate_port_identity), whatever is added, edited and imported.      *)
THEOREM TypeCorrect == Spec => []TypeOK
<1>1. Init => TypeOK
  BY PortListsAssumption DEF Init, TypeOK
<1>2. TypeOK /\ [Next]_vars => TypeOK'
  <2> SUFFICES ASSUME TypeOK, [Next]_vars PROVE TypeOK'
    OBVIOUS
  <2> USE PortListsAssumption
  <2>1. CASE Open \/ Discard \/ Save \/ UNCHANGED vars
    BY <2>1 DEF Open, Discard, Save, vars, TypeOK
  <2>2. ASSUME NEW port \in Accepted, AddPort(port) PROVE TypeOK'
    <3>1. port \in Port /\ work \in Seq(Port) /\ work' = Append(work, port)
      BY <2>2, AcceptedPorts DEF AddPort, TypeOK
    <3>2. work' \in Seq(Port) /\ Len(work') = Len(work) + 1
      BY <3>1
    <3>. QED  BY <2>2, <3>1, <3>2 DEF AddPort, TypeOK
  <2>3. ASSUME NEW port \in Accepted, NEW i \in 1 .. MaxPorts, EditPort(i, port)
        PROVE  TypeOK'
    <3>1. /\ port \in Port /\ work \in Seq(Port) /\ i \in 1 .. Len(work)
          /\ work' = [work EXCEPT ![i] = port]
      BY <2>3, AcceptedPorts DEF EditPort, ReplaceAt, TypeOK
    <3>2. work' \in Seq(Port) /\ Len(work') = Len(work)
      BY <3>1
    <3>. QED  BY <2>3, <3>2 DEF EditPort, TypeOK
  <2>4. ASSUME NEW i \in 1 .. MaxPorts, DeletePort(i) PROVE TypeOK'
    <3>1. /\ work \in Seq(Port) /\ i \in 1 .. Len(work)
          /\ work' = SubSeq(work, 1, i - 1) \o SubSeq(work, i + 1, Len(work))
      BY <2>4 DEF DeletePort, RemoveAt, TypeOK
    <3> DEFINE front == SubSeq(work, 1, i - 1)
               back == SubSeq(work, i + 1, Len(work))
    <3>2. /\ front \in Seq(Port) /\ Len(front) = i - 1
          /\ back \in Seq(Port) /\ Len(back) = Len(work) - i
      BY <3>1
    <3> HIDE DEF front, back
    <3>3. front \o back \in Seq(Port) /\ Len(front \o back) = Len(front) + Len(back)
      BY <3>2
    <3>4. Len(work) <= MaxPorts /\ Len(work) \in Nat
      BY <2>4 DEF DeletePort, TypeOK
    <3>5. (i - 1) + (Len(work) - i) <= MaxPorts
      BY <3>1, <3>4
    <3>6. work' \in Seq(Port) /\ Len(work') <= MaxPorts
      BY <3>1, <3>2, <3>3, <3>5 DEF front, back
    <3>. QED  BY <2>4, <3>6 DEF DeletePort, TypeOK
  <2>5. ASSUME NEW imported \in PortList, ImportReplacing(imported) PROVE TypeOK'
    BY <2>5, ListsOfPorts DEF ImportReplacing, TypeOK
  <2>6. ASSUME NEW imported \in PortList, ImportMerging(imported) PROVE TypeOK'
    <3>1. work \in Seq(Port) /\ imported \in Seq(Port)
      BY <2>6, ListsOfPorts DEF ImportMerging, TypeOK
    <3>2. Merged(work, imported) \in Seq(Port)
      BY <3>1, MergedIsUpsert DEF IsUpsert
    <3>. QED  BY <2>6, <3>2 DEF ImportMerging, TypeOK
  <2>. QED  BY <2>1, <2>2, <2>3, <2>4, <2>5, <2>6 DEF Next
<1>. QED  BY <1>1, <1>2, PTL DEF Spec

(* _merge_ports is an upsert by label: a list without duplicates gets none,*)
(* loses no label and no port that was not imported, and takes the last    *)
(* port of each label of the import.                                       *)
THEOREM MergesAsUpsert == Spec => MergeIsUpsert
<1> DEFINE Upsert ==
             work # NoDialog /\ Distinct(work) =>
               \A imported \in PortList : ImportMerging(imported) =>
                 /\ Distinct(work')
                 /\ LabelsOf(work') = LabelsOf(work) \cup LabelsOf(imported)
                 /\ \A p \in ToSet(work') :
                      IF p.label \in LabelsOf(imported)
                        THEN p = imported[PlaceOf(p, imported)]
                        ELSE p \in ToSet(work)
<1>1. TypeOK => Upsert
  <2> SUFFICES ASSUME TypeOK, work # NoDialog, Distinct(work),
                      NEW imported \in PortList, ImportMerging(imported)
               PROVE  /\ Distinct(work')
                      /\ LabelsOf(work') = LabelsOf(work) \cup LabelsOf(imported)
                      /\ \A p \in ToSet(work') :
                           IF p.label \in LabelsOf(imported)
                             THEN p = imported[PlaceOf(p, imported)]
                             ELSE p \in ToSet(work)
    OBVIOUS
  <2> DEFINE new == Merged(work, imported)
             n == Len(imported)
  <2>0. work' = new
    BY DEF ImportMerging
  <2>1. work \in Seq(Port) /\ imported \in Seq(Port) /\ n \in Nat
    BY ListsOfPorts DEF TypeOK
  <2>2. Injective(work)
    BY <2>1, DistinctIsInjective
  <2>3. IsUpsert(work, imported, n, new)
    BY <2>1, MergedIsUpsert
  <2> HIDE DEF new
  <2>4. LabelsOf(imported) = {imported[i].label : i \in 1 .. n}
    BY <2>1 DEF LabelsOf, ToSet
  <2>5. Distinct(new) /\ LabelsOf(new) = LabelsOf(work) \cup LabelsOf(imported)
    BY <2>2, <2>3, <2>4, DistinctIsInjective DEF IsUpsert
  <2>6. ASSUME NEW p \in ToSet(new)
        PROVE  IF p.label \in LabelsOf(imported)
                 THEN p = imported[PlaceOf(p, imported)]
                 ELSE p \in ToSet(work)
    <3>1. CASE \E i \in 1 .. n : IsLastOf(imported, n, p.label, i) /\ p = imported[i]
      <4>1. PICK i \in 1 .. n : IsLastOf(imported, n, p.label, i) /\ p = imported[i]
        BY <3>1
      <4> DEFINE at == {j \in 1 .. n : imported[j].label = p.label}
                 k == PlaceOf(p, imported)
      <4>2. i \in at /\ \A j \in at : j <= i
        BY <4>1 DEF IsLastOf
      <4>3. k \in at /\ \A j \in at : j <= k
        BY <2>1, <4>2, PlaceIsLast
      <4>4. k \in 1 .. n /\ k <= i /\ i <= k
        BY <4>2, <4>3
      <4> HIDE DEF k
      <4>5. k = i
        BY <2>1, <4>4
      <4>. QED  BY <2>4, <4>1, <4>5 DEF k
    <3>2. CASE p \in ToSet(work) /\ \A i \in 1 .. n : imported[i].label # p.label
      BY <2>4, <3>2
    <3>. QED  BY <2>2, <2>3, <3>1, <3>2 DEF IsUpsert
  <2>. QED  BY <2>0, <2>5, <2>6
<1>2. TypeOK /\ [Next]_vars => [Upsert]_vars
  BY <1>1
<1>. QED  BY <1>2, TypeCorrect, PTL DEF Spec, MergeIsUpsert
=============================================================================
