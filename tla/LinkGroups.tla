------------------------------ MODULE LinkGroups ------------------------------
(***************************************************************************)
(* The groups of linked guards (core/links.py).  Each guard declares a set *)
(* of partners; the groups are the connected components of the declared    *)
(* links, whichever end declared them, over the guards that may be linked. *)
(* Component says what a group is, Explore is the search of                *)
(* link_components that finds it.                                          *)
(***************************************************************************)
EXTENDS FiniteSets

(* Mutant: a link counts only for the guard that declares it. *)
JoinedOneSided(links, valid, g, h) ==
  g # h /\ {g, h} \subseteq valid /\ h \in links[g]

(* The links of a guard that exists, from either end. *)
Joined(links, valid, g, h) ==
  /\ g # h /\ {g, h} \subseteq valid
  /\ h \in links[g] \/ g \in links[h]

ClosedUnder(S, links, valid) ==
  \A g \in S, h \in valid : Joined(links, valid, g, h) => h \in S

(* The guards that no closed set can part from g. *)
Component(links, valid, g) ==
  {h \in valid :
     \A S \in SUBSET valid :
       g \in S /\ ClosedUnder(S, links, valid) => h \in S}

(* group_of: the partners of a guard, itself left out. *)
GroupOf(links, valid, g) ==
  IF g \in valid THEN Component(links, valid, g) \ {g} ELSE {}

-----------------------------------------------------------------------------
(* link_components.  Which guard is popped next is left to CHOOSE. *)

(* Mutant: only the declaring end gets the edge. *)
AdjacencyOneSided(links, valid) ==
  [g \in valid |-> (links[g] \cap valid) \ {g}]

Adjacency(links, valid) == [g \in valid |-> {h \in valid : Joined(links, valid, g, h)}]

(* The loop of one group: group holds the nodes seen, stack the nodes to   *)
(* visit.                                                                  *)
Explore(links, valid, start) ==
  LET adj == Adjacency(links, valid)
      visit[s \in [group : SUBSET valid, stack : SUBSET valid]] ==
        IF s.stack = {} THEN s.group
        ELSE LET node == CHOOSE n \in s.stack : TRUE
                 rest == s.stack \ {node}
             IN  IF node \in s.group
                   THEN visit[[group |-> s.group, stack |-> rest]]
                   ELSE visit[[group |-> s.group \cup {node},
                               stack |-> rest \cup (adj[node] \ s.group)]]
  IN  visit[[group |-> {}, stack |-> {start}]]
=============================================================================
