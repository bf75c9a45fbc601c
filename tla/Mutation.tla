------------------------------ MODULE Mutation ------------------------------
(***************************************************************************)
(* Planned changes of a synthetic graph (src/synthetic/mutation), and the  *)
(* five that the mutation benchmark plans (src/benchmark/mutation_plan.rs).*)
(***************************************************************************)
EXTENDS Synthetic

Touches(e, from, to) == Source(e) \in from..(to - 1) \/ Target(e) \in from..(to - 1)

(* incident_indices: where the edges are that touch a range of nodes.      *)
IncidentIndices(graph, from, to) ==
  Ordered({i \in DOMAIN graph.edges : Touches(graph.edges[i], from, to)}, <)

(* The nodes that a scenario is about, from the first to before the last.  *)
Scope(graph, scenario) ==
  CASE scenario.of = "single_node" -> <<scenario.node, scenario.node + 1>>
    [] scenario.of = "local_range" -> <<scenario.start, scenario.start + scenario.nodeCount>>
    [] scenario.of = "hub" -> <<0, scenario.hubs>>
    [] scenario.of \in {"scattered", "percentage"} -> <<0, graph.nodeCount>>

(* What is wrong with a scenario itself.                                   *)
ScenarioError(graph, scenario) ==
  CASE scenario.of = "single_node" ->
         IF scenario.node >= graph.nodeCount THEN "invalid_node" ELSE "none"
    [] scenario.of = "local_range" ->
         IF \/ scenario.nodeCount = 0 \/ scenario.start >= graph.nodeCount
            \/ scenario.nodeCount > graph.nodeCount - scenario.start
           THEN "invalid_range"
         ELSE IF scenario.edgeCount = 0 THEN "zero_requested" ELSE "none"
    [] scenario.of = "scattered" -> IF scenario.edgeCount = 0 THEN "zero_requested" ELSE "none"
    [] scenario.of = "hub" ->
         IF scenario.hubs = 0 \/ scenario.hubs > graph.nodeCount THEN "invalid_hubs"
         ELSE IF scenario.edgeCount = 0 THEN "zero_requested" ELSE "none"
    [] scenario.of = "percentage" ->
         IF scenario.basisPoints = 0 \/ scenario.basisPoints > BASIS_POINTS
           THEN "invalid_percentage" ELSE "none"

Candidates(graph, scenario) ==
  LET scope == Scope(graph, scenario) IN IncidentIndices(graph, scope[1], scope[2])

(* How many edges are replaced; a percentage is rounded up.                *)
Requested(graph, scenario) ==
  CASE scenario.of = "single_node" -> Len(Candidates(graph, scenario))
    [] scenario.of \in {"local_range", "scattered", "hub"} -> scenario.edgeCount
    [] scenario.of = "percentage" ->
         (Len(graph.edges) * scenario.basisPoints + BASIS_POINTS - 1) \div BASIS_POINTS

(* selected_indices, in the order of the edges.                            *)
Selected(graph, scenario, draw) ==
  LET candidates == Candidates(graph, scenario)
      order == Permutation(Len(candidates), draw)
      taken == {candidates[order[i] + 1] : i \in 1..Requested(graph, scenario)}
  IN  Ordered(taken, <)

PairOf(e) == <<Source(e), Target(e)>>
OccupiedPairs(graph) == {PairOf(e) : e \in Elements(graph.edges)}

(* (altered) the pairs of the removed edges count as free                  *)
OccupiedByRetained(graph, gone) ==
  {PairOf(e) : e \in Elements(graph.edges) \ Elements(gone)}

(* contains_pair, in replacement_edges: no pair of the graph is used.      *)
Occupied(graph, gone) == OccupiedPairs(graph)

(* replacement_edges: as many unused pairs, in the order drawn, each with  *)
(* the kind of a removed edge.                                             *)
ReplacementEdges(graph, gone, draw) ==
  LET n == graph.nodeCount
      all == [o \in 0..(Pairs(n) - 1) |-> DirectedPair(o, 0, n)]
      free == Drawn(all, Occupied(graph, gone), Len(gone), draw)
  IN  SortedEdges([i \in DOMAIN free |-> EdgeOf(free[i][1], free[i][2], Kind(gone[i]))])

(* plan_mutation: why there is no plan, ...                                *)
PlanError(graph, scenario) ==
  LET candidates == Len(Candidates(graph, scenario))
      requested == Requested(graph, scenario)
  IN  IF ScenarioError(graph, scenario) # "none" THEN ScenarioError(graph, scenario)
      ELSE IF candidates = 0 THEN "no_matching"
      ELSE IF requested > candidates THEN "exceeds_candidates"
      ELSE IF requested > Pairs(graph.nodeCount) - Cardinality(OccupiedPairs(graph))
             THEN "no_capacity"
      ELSE "none"

(* ... or the plan.                                                        *)
Planned(graph, scenario, draws) ==
  LET indices == Selected(graph, scenario, draws[1])
      gone == [i \in DOMAIN indices |-> graph.edges[indices[i]]]
  IN  [removed |-> gone, added |-> ReplacementEdges(graph, gone, draws[2])]

(* apply_mutation, to a sorted graph: why it is refused, ...               *)
ApplyError(graph, mutation) ==
  LET pairs == [i \in DOMAIN mutation.added |-> PairOf(mutation.added[i])]
      invalid(e) == \/ Source(e) = Target(e)
                    \/ Source(e) >= graph.nodeCount \/ Target(e) >= graph.nodeCount
                    \/ PairOf(e) \in OccupiedPairs(graph)
  IN  IF Len(mutation.removed) # Len(mutation.added) THEN "count_mismatch"
      ELSE IF ~Distinct(mutation.removed) THEN "duplicate_removed"
      ELSE IF ~(Elements(mutation.removed) \subseteq Elements(graph.edges)) THEN "missing"
      ELSE IF ~Distinct(pairs) THEN "duplicate_added"
      ELSE IF \E e \in Elements(mutation.added) : invalid(e) THEN "invalid_added"
      ELSE "none"

(* ... or the graph it makes.                                              *)
Applied(graph, mutation) ==
  LET kept == Filtered(graph.edges, Elements(graph.edges) \ Elements(mutation.removed))
  IN  [nodeCount |-> graph.nodeCount, edges |-> SortedEdges(kept \o mutation.added)]

-----------------------------------------------------------------------------
(* hottest_node: the first of the nodes with the most edge ends.           *)
Degree(graph, n) ==
  Cardinality({i \in DOMAIN graph.edges : Source(graph.edges[i]) = n})
    + Cardinality({i \in DOMAIN graph.edges : Target(graph.edges[i]) = n})

HottestNode(graph) ==
  CHOOSE n \in 0..(graph.nodeCount - 1) : \A m \in 0..(graph.nodeCount - 1) :
    IF m < n THEN Degree(graph, m) < Degree(graph, n)
             ELSE Degree(graph, m) <= Degree(graph, n)

(* standard_mutations: the scenarios of the benchmark.                     *)
StandardScenarios(graph) ==
  LET most(a, b) == IF a > b THEN a ELSE b
      n == graph.nodeCount
      target == most(Len(graph.edges) \div 1000, 1)
      hot == HottestNode(graph)
      width == most(n \div 100, 1)
      start == AtMost(hot, n - width)
      hubs == AtMost(most(most(n \div 1000, 1), hot + 1), n)
      local == Len(IncidentIndices(graph, start, start + width))
      hub == Len(IncidentIndices(graph, 0, hubs))
  IN  {[of |-> "single_node", node |-> hot],
       [of |-> "local_range", start |-> start, nodeCount |-> width,
        edgeCount |-> most(AtMost(target, local), 1)],
       [of |-> "scattered", edgeCount |-> AtMost(target, Len(graph.edges))],
       [of |-> "hub", hubs |-> hubs, edgeCount |-> most(AtMost(target, hub), 1)],
       [of |-> "percentage", basisPoints |-> 100]}
=============================================================================
