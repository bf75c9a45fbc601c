------------------------- MODULE MCMutationBenchmark -------------------------
(***************************************************************************)
(* Instances of MutationBenchmark for TLC: all graphs over a few edges and *)
(* all changes of them; each topology at several sizes, with the mutations *)
(* planned for it.                                                         *)
(***************************************************************************)
EXTENDS MutationBenchmark

(* Parallel edges of two kinds, both directions, and a loop.               *)
EdgePool == {<<0, 0, 1>>, <<0, 1, 0>>, <<0, 1, 1>>, <<1, 0, 0>>}

(* Lists in the opposite order, which the code has to sort.                *)
After(d, e) == EdgeBefore(e, d)
Lists == {Ordered(S, After) : S \in SUBSET EdgePool}

(* A list with an edge twice, and one with an edge to nowhere.             *)
OddLists == {<<<<0, 1, 0>>, <<0, 1, 0>>>>, <<<<0, 2, 0>>>>}

SmallDatasets ==
  {[nodeCount |-> 2, edges |-> s] : s \in Lists \cup OddLists}
  \cup {[nodeCount |-> 0, edges |-> <<>>]}

SmallChanges ==
  {[added |-> a, removed |-> r] : a \in Lists, r \in Lists}
  \cup {[added |-> a, removed |-> <<>>] : a \in OddLists}
  \cup {[added |-> <<>>, removed |-> r] : r \in OddLists}

(* Classes that run over, groups of unequal size and of one node, hubs     *)
(* that are not a multiple of the groups, a graph with every pair, and     *)
(* what is refused.                                                        *)
SmallSpecs ==
  {[topology |-> "modular", clusters |-> 2, crossRatio |-> 2500, nodeCount |-> 4, edgeCount |-> 6],
   [topology |-> "modular", clusters |-> 3, crossRatio |-> 5000, nodeCount |-> 4, edgeCount |-> 5],
   [topology |-> "modular", clusters |-> 2, crossRatio |-> 10000, nodeCount |-> 3, edgeCount |-> 6],
   [topology |-> "entangled", clusters |-> 2, hubs |-> 1, nodeCount |-> 4, edgeCount |-> 7],
   [topology |-> "entangled", clusters |-> 2, hubs |-> 1, nodeCount |-> 5, edgeCount |-> 6],
   [topology |-> "entangled", clusters |-> 3, hubs |-> 3, nodeCount |-> 3, edgeCount |-> 4],
   [topology |-> "hub_heavy", hubs |-> 1, nodeCount |-> 4, edgeCount |-> 8],
   [topology |-> "hub_heavy", hubs |-> 2, nodeCount |-> 4, edgeCount |-> 4],
   [topology |-> "layered", layers |-> 2, nodeCount |-> 4, edgeCount |-> 7],
   [topology |-> "layered", layers |-> 3, nodeCount |-> 4, edgeCount |-> 4],
   [topology |-> "dense", dense |-> 2, nodeCount |-> 4, edgeCount |-> 6],
   [topology |-> "dense", dense |-> 3, nodeCount |-> 4, edgeCount |-> 9],
   [topology |-> "modular", clusters |-> 2, crossRatio |-> 0, nodeCount |-> 5, edgeCount |-> 8],
   [topology |-> "layered", layers |-> 3, nodeCount |-> 5, edgeCount |-> 8]}

RefusedSpecs ==
  {[topology |-> "layered", layers |-> 1, nodeCount |-> 2, edgeCount |-> 1],
   [topology |-> "dense", dense |-> 3, nodeCount |-> 2, edgeCount |-> 1],
   [topology |-> "modular", clusters |-> 1, crossRatio |-> 10001, nodeCount |-> 2, edgeCount |-> 1],
   [topology |-> "hub_heavy", hubs |-> 0, nodeCount |-> 2, edgeCount |-> 1],
   [topology |-> "hub_heavy", hubs |-> 1, nodeCount |-> 2, edgeCount |-> 3],
   [topology |-> "hub_heavy", hubs |-> 1, nodeCount |-> 1, edgeCount |-> 1],
   [topology |-> "hub_heavy", hubs |-> 1, nodeCount |-> 0, edgeCount |-> 0]}

MCSpecs == SmallSpecs \cup RefusedSpecs

(* Several edges at once, and what cannot be planned.                      *)
MCScenarios ==
  {[of |-> "scattered", edgeCount |-> 3], [of |-> "percentage", basisPoints |-> 5000],
   [of |-> "local_range", start |-> 1, nodeCount |-> 2, edgeCount |-> 2],
   [of |-> "hub", hubs |-> 9, edgeCount |-> 1], [of |-> "single_node", node |-> 9]}

MCDraws ==
  {<<<<0, 0>>, <<3, 2>>, <<1, 5>>>>, <<<<5, 4>>, <<7, 9>>, <<2, 0>>>>,
   <<<<11, 3>>, <<2, 6>>, <<4, 7>>>>}
=============================================================================
