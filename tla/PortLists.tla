------------------------------ MODULE PortLists ------------------------------
(***************************************************************************)
(* The flat list of PoE ports in the options of the entry: what the form   *)
(* and the import accept (config_flow_helpers/schemas.py).                 *)
(*                                                                         *)
(* Of a port this keeps its label, the entity that switches it and reads   *)
(* its status, and in how many ways it tells the id of its device.         *)
(***************************************************************************)
EXTENDS Naturals, Sequences, FiniteSets, SequencesExt

CONSTANTS Labels,       \* the labels that users give ports
          PortEntities, \* entities of ports
          MaxPorts      \* bound: longest list (the code has no limit)

ASSUME PortListsAssumption == MaxPorts \in Nat \ {0}

LabelsOf(list) == {p.label : p \in ToSet(list)}

(* No two ports of the list have a label in common. *)
Distinct(list) == Cardinality(LabelsOf(list)) = Len(list)

-----------------------------------------------------------------------------
(* What the form and the import accept, by the fields given for the id.    *)

IdFields == SUBSET {"id_entity", "id_attribute", "id_static"}

(* Mutant: a port may tell its id by an entity and by a fixed value.       *)
ValidIdentityLax(fields) ==
  "id_attribute" \in fields => "id_entity" \in fields

(* _validate_port_identity: one way, and no attribute of nothing.          *)
ValidIdentity(fields) ==
  /\ ~ {"id_static", "id_entity"} \subseteq fields
  /\ "id_attribute" \in fields => "id_entity" \in fields

(* The ports that pass, in stored shape. *)
Accepted ==
  {[label |-> l, entity |-> e,
    ways |-> Cardinality(fields \ {"id_attribute"})] :
     l \in Labels, e \in PortEntities,
     fields \in {f \in IdFields : ValidIdentity(f)}}

(* Nobody's id can be told in two ways at once. *)
Port == [label : Labels, entity : PortEntities, ways : 0 .. 1]

(* The lists that the dialog can come to. *)
PortList == SeqOf(Accepted, MaxPorts)
=============================================================================
