----------------------------- MODULE QueryGraph -----------------------------
(***************************************************************************)
(* The visible graph as the query protocol walks it                        *)
(* (src/protocol/traversal.rs): relations masked by the request, and the   *)
(* neighbours of a node in a fixed order.                                  *)
(***************************************************************************)
EXTENDS Orders

CONSTANTS
  Node,       \* dense node ids
  Relation,   \* relation kinds, numbered by their order
  None        \* Rust's None

ASSUME NodeAssumption == Node \subseteq Nat /\ IsFiniteSet(Node)
ASSUME RelationAssumption == Relation \subseteq Nat /\ IsFiniteSet(Relation)
ASSUME NoneAssumption ==
  None \notin Nat /\ None \notin [nodes : Seq(Nat), relations : Seq(Nat)]

(* Places of three kinds in the order of RelationKind.                     *)
References == 2
Calls == 4
PossibleCalls == 5

GraphEdge == [source : Node, relation : Relation, target : Node]

Direction == {"outgoing", "incoming"}

(* An unmasked request allows every relation.                              *)
CallRelations(possible) == IF possible THEN {Calls, PossibleCalls} ELSE {Calls}
ImpactRelations == {Calls, PossibleCalls, References}

Below(m, n) == m < n

(* The neighbours of a node over the relations allowed, each with the      *)
(* relation that leads there.                                              *)
Adjacent(graph, n, direction, allowed) ==
  {<<IF direction = "outgoing" THEN e.target ELSE e.source, e.relation>> :
     e \in {x \in graph : /\ x.relation \in allowed
                          /\ n = IF direction = "outgoing" THEN x.source ELSE x.target}}

AdjacentNodes(graph, n, direction, allowed) ==
  {a[1] : a \in Adjacent(graph, n, direction, allowed)}

(* Neighbours are visited by node, then by relation.                       *)
AdjacentBefore(a, b) == a[1] < b[1] \/ (a[1] = b[1] /\ a[2] < b[2])

(* The least relation that leads from one node to another.                 *)
FirstRelation(graph, n, m, direction, allowed) ==
  CHOOSE r \in Relation :
    /\ <<m, r>> \in Adjacent(graph, n, direction, allowed)
    /\ \A s \in Relation : <<m, s>> \in Adjacent(graph, n, direction, allowed) => r <= s
=============================================================================
