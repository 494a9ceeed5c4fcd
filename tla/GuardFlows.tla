------------------------------ MODULE GuardFlows ------------------------------
(***************************************************************************)
(* The guards of an entry as the user configures them: the dialogs that    *)
(* add and reconfigure guards (config_flow.py DeviceSubentryFlow), the     *)
(* subentries they write, and the reload that makes engines of them        *)
(* (__init__.py).  Several dialogs may be open; what a form offers is what *)
(* was there when it was shown.                                            *)
(*                                                                         *)
(* Of the data of a guard this keeps what it means to other guards:        *)
(* whether it recovers and whom it links.  The steps before the last form  *)
(* only decide which form that is; the checks that show a form again       *)
(* (names, own devices, missing actions) and the device registry are left  *)
(* out.                                                                    *)
(***************************************************************************)
EXTENDS LinkGroups

CONSTANTS Guards,   \* the ids a subentry can get
          Dialogs,  \* dialogs that may be open together
          Fallible, \* guards whose set-up may raise
          Unused,   \* an id that no subentry has had yet
          Deleted,  \* an id whose subentry is gone: it is not given again
          NoForm,   \* no dialog
          NoEngine, \* no engine
          NoGuard   \* the guard of a dialog that adds one

Data == [recover : BOOLEAN, links : SUBSET Guards]

Form == [guard : Guards \cup {NoGuard}, recover : BOOLEAN,
         offered : SUBSET Guards]

Engine == [partners : SUBSET Guards, allowsRecovery : BOOLEAN]

ASSUME GuardFlowsAssumption ==
  /\ IsFiniteSet(Guards)
  /\ Fallible \subseteq Guards /\ NoGuard \notin Guards
  /\ Unused # Deleted /\ {Unused, Deleted} \cap Data = {}
  /\ NoForm \notin Form /\ NoEngine \notin Engine

VARIABLES stored, \* stored[g]: the data of the subentry
          form,   \* form[d]: the last form of a dialog, as it was shown
          engine, \* engine[g]: what set-up gave the engine of a guard
          phase,  \* "up" or "unloaded"
          reload, \* the update listener has asked for a reload
          parted  \* history: pairs of guards that a form took apart

vars == <<stored, form, engine, phase, reload, parted>>

(* Every variable has its type; no guard links itself, a notify-only guard *)
(* links nobody, no form offers a guard to itself or one that never was.   *)
TypeOK ==
  /\ stored \in [Guards -> Data \cup {Unused, Deleted}]
  /\ form \in [Dialogs -> Form \cup {NoForm}]
  /\ engine \in [Guards -> Engine \cup {NoEngine}]
  /\ phase \in {"up", "unloaded"} /\ reload \in BOOLEAN
  /\ parted \subseteq SUBSET Guards
  /\ \A g \in Guards : stored[g] \in Data =>
       g \notin stored[g].links /\ (stored[g].recover \/ stored[g].links = {})
  /\ \A d \in Dialogs : form[d] # NoForm =>
       /\ form[d].guard \notin form[d].offered
       /\ form[d].recover \/ form[d].offered = {}
       /\ \A g \in form[d].offered : stored[g] # Unused

-----------------------------------------------------------------------------
(* What is stored *)

Exists(g) == stored[g] \notin {Unused, Deleted}

(* _recover_guards and _is_recover *)
RecoverGuards == {g \in Guards : Exists(g) /\ stored[g].recover}

DeclaredLinks == [g \in RecoverGuards |-> stored[g].links]

Group(g) == GroupOf(DeclaredLinks, RecoverGuards, g)

-----------------------------------------------------------------------------
(* The dialogs *)

(* Mutant: the guard itself is offered as well. *)
ShowFormWithItself(d, g, recover) ==
  /\ form[d] = NoForm
  /\ g # NoGuard => Exists(g)
  /\ form' = [form EXCEPT ![d] =
                [guard |-> g, recover |-> recover,
                 offered |-> IF recover THEN RecoverGuards ELSE {}]]
  /\ UNCHANGED <<stored, engine, phase, reload, parted>>

(* The steps up to the strategy, and the form of that strategy: the other  *)
(* recover guards are offered.                                             *)
ShowForm(d, g, recover) ==
  /\ form[d] = NoForm
  /\ g # NoGuard => Exists(g)
  /\ form' = [form EXCEPT ![d] =
                [guard |-> g, recover |-> recover,
                 offered |-> IF recover THEN RecoverGuards \ {g} ELSE {}]]
  /\ UNCHANGED <<stored, engine, phase, reload, parted>>

(* The dialog is closed, or ends because its guard was deleted. *)
Close(d) ==
  /\ form[d] # NoForm
  /\ form' = [form EXCEPT ![d] = NoForm]
  /\ UNCHANGED <<stored, engine, phase, reload, parted>>

(* Mutant: only guards that come or go ask for a reload. *)
NotifiedOfComings ==
  reload' = (reload \/ (phase = "up" /\ \E g \in Guards : Exists(g)' # Exists(g)))

(* The update listener: there while the entry is up, called on a change. *)
Notified == reload' = (reload \/ (phase = "up" /\ stored' # stored))

(* Pairs that a submission puts together are not parted any more. *)
PartedAfter(g, links, apart) ==
  (parted \cup {{g, h} : h \in apart}) \ {{g, h} : h \in links}

(* Adding leaves the data of the partners alone. *)
FinishAdding(d) ==
  /\ form[d] # NoForm /\ form[d].guard = NoGuard
  /\ \E g \in Guards, links \in SUBSET form[d].offered :
       /\ stored[g] = Unused
       /\ stored' = [stored EXCEPT ![g] =
                       [recover |-> form[d].recover, links |-> links]]
       /\ parted' = PartedAfter(g, links, {})
  /\ form' = [form EXCEPT ![d] = NoForm]
  /\ Notified
  /\ UNCHANGED <<engine, phase>>

(* Mutant: the partners keep their own link to the guard. *)
UpdatedOneSided(g, data) == [stored EXCEPT ![g] = data]

(* _apply_link_removals, then the update: whoever is in the guard's group  *)
(* at this moment, and was not submitted, gives up its link to the guard.  *)
Updated(g, data) ==
  [h \in Guards |->
     CASE h = g -> data
       [] h # g /\ h \in Group(g) \ data.links ->
            [stored[h] EXCEPT !.links = @ \ {g}]
       [] OTHER -> stored[h]]

(* Whom a submission takes the guard apart from: those that the form       *)
(* showed and that were not submitted, everybody when the guard turns      *)
(* notify-only.  One that was notify-only takes nobody apart: it was in no *)
(* group.                                                                  *)
TakenApart(f, links) ==
  CASE ~stored[f.guard].recover -> {}
    [] stored[f.guard].recover /\ f.recover -> f.offered \ links
    [] OTHER -> Guards \ {f.guard}

FinishReconfiguring(d) ==
  LET g == form[d].guard
  IN  /\ form[d] # NoForm /\ g # NoGuard
      /\ Exists(g)
      /\ \E links \in SUBSET form[d].offered :
           /\ stored' = Updated(g, [recover |-> form[d].recover, links |-> links])
           /\ parted' = PartedAfter(g, links, TakenApart(form[d], links))
      /\ form' = [form EXCEPT ![d] = NoForm]
      /\ Notified
      /\ UNCHANGED <<engine, phase>>

(* The user deletes a guard. *)
Delete(g) ==
  /\ Exists(g)
  /\ stored' = [stored EXCEPT ![g] = Deleted]
  /\ Notified
  /\ UNCHANGED <<form, engine, phase, parted>>

-----------------------------------------------------------------------------
(* The reload *)

(* async_unload_entry; the listener goes with it. *)
Unload ==
  /\ phase = "up" /\ reload
  /\ phase' = "unloaded" /\ reload' = FALSE
  /\ engine' = [g \in Guards |-> NoEngine]
  /\ UNCHANGED <<stored, form, parted>>

(* async_setup_entry once the Store is loaded: the subentries are read and *)
(* the listener is added without a pause between.  A guard that raises is  *)
(* skipped, its partners keep its id.                                      *)
SetUp ==
  /\ phase = "unloaded"
  /\ phase' = "up"
  /\ \E failing \in SUBSET Fallible :
       engine' = [g \in Guards |->
                    IF Exists(g) /\ g \notin failing
                      THEN [partners |-> Group(g),
                            allowsRecovery |-> stored[g].recover]
                      ELSE NoEngine]
  /\ UNCHANGED <<stored, form, reload, parted>>

-----------------------------------------------------------------------------
Init ==
  /\ stored = [g \in Guards |-> Unused]
  /\ form = [d \in Dialogs |-> NoForm]
  /\ engine = [g \in Guards |-> NoEngine]
  /\ phase = "unloaded" /\ reload = FALSE
  /\ parted = {}

DialogSteps(d) ==
  \/ \E g \in Guards \cup {NoGuard}, recover \in BOOLEAN : ShowForm(d, g, recover)
  \/ Close(d) \/ FinishAdding(d) \/ FinishReconfiguring(d)

Next ==
  \/ \E d \in Dialogs : DialogSteps(d)
  \/ \E g \in Guards : Delete(g)
  \/ Unload \/ SetUp

Spec == Init /\ [][Next]_vars

-----------------------------------------------------------------------------
(* Properties *)

(* testing.md:36-38: two guards that a form took apart - it showed the one *)
(* for the other and came back without it - are linked at neither end      *)
(* until a form puts them together again, whatever forms were open, and    *)
(* shown before that, at the same time.                                    *)
PartedStayApart ==
  \A g, h \in Guards :
    {g, h} \in parted /\ Exists(g) => h \notin stored[g].links

(* The engines that run together agree on their groups: nobody is its own  *)
(* partner, partners are partners of each other and share the others, and  *)
(* none is notify-only.  This is what link coordination rests on.          *)
EnginesAgree ==
  \A g, h \in {x \in Guards : engine[x] # NoEngine} :
    h \in engine[g].partners =>
      /\ h # g /\ engine[h].allowsRecovery
      /\ engine[h].partners = (engine[g].partners \ {h}) \cup {g}

(* No change of the links is lost between an unload and a set-up: with no  *)
(* reload asked for, the engines have the groups of the stored links.      *)
EnginesAreCurrent ==
  phase = "up" /\ ~reload =>
    \A g \in Guards : engine[g] # NoEngine =>
      /\ Exists(g)
      /\ engine[g].partners = Group(g)
      /\ engine[g].allowsRecovery = stored[g].recover

(* The search of links.py:45-59 finds, from any guard of a group, exactly  *)
(* the guards that the declared links connect it with.                     *)
SearchFindsGroup ==
  \A g \in RecoverGuards :
    Explore(DeclaredLinks, RecoverGuards, g) \ {g} = Group(g)
=============================================================================
