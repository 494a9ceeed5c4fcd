----------------------------- MODULE PortOptions -----------------------------
(***************************************************************************)
(* The options dialog that edits the list of PoE ports (config_flow.py     *)
(* NecromancerOptionsFlow).  It works on a copy: adds, edits, deletes,     *)
(* imports; a save writes the whole copy to the entry's options.           *)
(***************************************************************************)
EXTENDS PortLists

CONSTANT NoDialog \* no options dialog is open

VARIABLES ports, \* the list in the entry's options
          work   \* the list that the open dialog works on

vars == <<ports, work>>

-----------------------------------------------------------------------------
(* _merge_ports *)

(* The place of the last port of the list with the label of this one, or 0.*)
PlaceOf(port, list) == SelectLastInSeq(list, LAMBDA q : q.label = port.label)

(* Mutant: a label that this very import appended is not remembered.       *)
MergedForgetful(list, imported) ==
  LET Upsert(to, port) == IF PlaceOf(port, list) = 0 THEN Append(to, port)
                          ELSE ReplaceAt(to, PlaceOf(port, list), port)
  IN  FoldLeft(Upsert, list, imported)

(* Each imported port replaces the last one of its label, or is appended.  *)
Merged(list, imported) ==
  LET Upsert(to, port) == IF PlaceOf(port, to) = 0 THEN Append(to, port)
                          ELSE ReplaceAt(to, PlaceOf(port, to), port)
  IN  FoldLeft(Upsert, list, imported)

-----------------------------------------------------------------------------
(* The dialog.  A rejected port or import shows the form again and changes *)
(* nothing; an export changes nothing.                                     *)

Open ==
  /\ work = NoDialog
  /\ work' = ports
  /\ UNCHANGED ports

AddPort(port) ==
  /\ work # NoDialog /\ Len(work) < MaxPorts
  /\ work' = Append(work, port)
  /\ UNCHANGED ports

EditPort(i, port) ==
  /\ work # NoDialog /\ i \in DOMAIN work
  /\ work' = ReplaceAt(work, i, port)
  /\ UNCHANGED ports

DeletePort(i) ==
  /\ work # NoDialog /\ i \in DOMAIN work
  /\ work' = RemoveAt(work, i)
  /\ UNCHANGED ports

ImportReplacing(imported) ==
  /\ work # NoDialog
  /\ work' = imported
  /\ UNCHANGED ports

ImportMerging(imported) ==
  /\ work # NoDialog
  /\ work' = Merged(work, imported)
  /\ Len(work') <= MaxPorts
  /\ UNCHANGED ports

Discard ==
  /\ work # NoDialog
  /\ work' = NoDialog
  /\ UNCHANGED ports

Save ==
  /\ work # NoDialog
  /\ ports' = work
  /\ work' = NoDialog

Init == ports = << >> /\ work = NoDialog

Next ==
  \/ Open \/ Discard \/ Save
  \/ \E port \in Accepted :
       AddPort(port) \/ \E i \in 1 .. MaxPorts : EditPort(i, port)
  \/ \E i \in 1 .. MaxPorts : DeletePort(i)
  \/ \E imported \in PortList : ImportReplacing(imported) \/ ImportMerging(imported)

Spec == Init /\ [][Next]_vars

-----------------------------------------------------------------------------
(* A stored port tells the id of its device in one way at most; the fabric *)
(* ignores one that has two (poe.py:137).                                  *)
TypeOK ==
  /\ ports \in Seq(Port) /\ Len(ports) <= MaxPorts
  /\ work # NoDialog => work \in Seq(Port) /\ Len(work) <= MaxPorts

(* docs/arch/testing.md:70: an import merges as an upsert by label.  A list*)
(* without duplicates gets none, keeps every label it had and every port   *)
(* that was not imported, and has what was imported last of each label     *)
(* (NecromancerOptionsFlow._merge_ports).                                  *)
MergeIsUpsert ==
  [][work # NoDialog /\ Distinct(work) =>
       \A imported \in PortList : ImportMerging(imported) =>
         /\ Distinct(work')
         /\ LabelsOf(work') = LabelsOf(work) \cup LabelsOf(imported)
         /\ \A p \in ToSet(work') :
              IF p.label \in LabelsOf(imported)
                THEN p = imported[PlaceOf(p, imported)]
                ELSE p \in ToSet(work)]_vars
=============================================================================
