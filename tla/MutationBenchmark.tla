-------------------------- MODULE MutationBenchmark --------------------------
(***************************************************************************)
(* The mutation benchmark (src/benchmark/mutation_runner.rs): a generated  *)
(* graph is packed and opened, changes of it are planned, and the overlay  *)
(* that records them is compared with a graph packed afresh.  VisibleGraph *)
(* takes the steps of packing, validating, hashing and querying; a         *)
(* behaviour may also lay any changes over any dataset, as a caller of the *)
(* storage does.                                                           *)
(***************************************************************************)
EXTENDS VisibleGraph, Mutation

CONSTANTS
  Specs,      \* specifications of graphs
  Scenarios,  \* scenarios of mutations, beside the standard ones
  Draws       \* lists of draws, one draw for each permutation of a call

(* What a specification and a scenario may ask for.                        *)
GraphSpec ==
  [topology : {"modular"}, clusters : Nat, crossRatio : Nat, nodeCount : Nat, edgeCount : Nat]
    \cup [topology : {"entangled"}, clusters : Nat, hubs : Nat, nodeCount : Nat, edgeCount : Nat]
    \cup [topology : {"hub_heavy"}, hubs : Nat, nodeCount : Nat, edgeCount : Nat]
    \cup [topology : {"layered"}, layers : Nat, nodeCount : Nat, edgeCount : Nat]
    \cup [topology : {"dense"}, dense : Nat, nodeCount : Nat, edgeCount : Nat]

Scenario ==
  [of : {"single_node"}, node : Nat]
    \cup [of : {"local_range"}, start : Nat, nodeCount : Nat, edgeCount : Nat]
    \cup [of : {"scattered"}, edgeCount : Nat]
    \cup [of : {"hub"}, hubs : Nat, edgeCount : Nat]
    \cup [of : {"percentage"}, basisPoints : Nat]

ASSUME SpecsAssumption == Specs \subseteq GraphSpec
ASSUME ScenariosAssumption == Scenarios \subseteq Scenario
ASSUME DrawsAssumption == Draws \subseteq [1..3 -> Nat \X Nat]

VARIABLES
  stage,      \* "given"; or "generate", "base", "overlay", "failed"
  graphSpec,  \* the specification of the dataset
  why,        \* why the benchmark failed, "none"
  rebuilt     \* the changed graph, packed afresh

benchVars == <<stage, graphSpec, why, rebuilt>>
allVars == <<vars, benchVars>>

NoDataset == [nodeCount |-> 0, edges |-> <<>>]
NoChanges == [added |-> <<>>, removed |-> <<>>]

(* What generate, plan_mutation and apply_mutation return depends on their *)
(* arguments alone: the graphs, ...                                        *)
Generations ==
  {[spec |-> spec, dataset |-> Generated(spec, draws)] :
     spec \in {s \in Specs : SpecError(s) = "none"}, draws \in Draws}

(* ... and the plans of a scenario, one of the standard five or another,   *)
(* with the changed graph packed afresh, ...                               *)
PlanOf(graph, s, draws) ==
  LET planned == Planned(graph, s, draws)
      applied == Applied(graph, planned)
      refused == ApplyError(graph, planned)
  IN  [error |-> refused, changes |-> planned,
       rebuilt |-> IF refused # "none" THEN NoFile
                   ELSE Encode(applied.nodeCount, applied.edges, Reversed(applied.edges))]

(* ... or why there is none.                                               *)
NoPlan(cause) == [error |-> cause, changes |-> NoChanges, rebuilt |-> NoFile]

Plans ==
  UNION {LET standard == StandardScenarios(g.dataset)
         IN  {[dataset |-> g.dataset, standard |-> s \in standard,
               result |-> IF PlanError(g.dataset, s) = "none" THEN PlanOf(g.dataset, s, draws)
                          ELSE NoPlan(PlanError(g.dataset, s))] :
                s \in standard \cup Scenarios, draws \in Draws} : g \in Generations}

BenchInit ==
  /\ graphSpec \in Specs
  /\ dataset = NoDataset /\ changes = NoChanges
  /\ pc = "pack" /\ error = "none" /\ file = NoFile
  /\ adds = <<>> /\ dels = <<>> /\ addAt = 1 /\ delAt = 1
  /\ source = 0 /\ hashed = <<>> /\ query = <<0, "forward">> /\ answer = <<>>
  /\ MergeIdle
  /\ stage = "generate"

AllInit ==
  /\ \/ Init /\ stage = "given" /\ graphSpec = <<>>
     \/ BenchInit
  /\ why = "none" /\ rebuilt = NoFile

Fail(reason) ==
  /\ stage' = "failed" /\ why' = reason
  /\ UNCHANGED <<vars, graphSpec, rebuilt>>

(* generate.                                                               *)
RefuseSpec ==
  /\ stage = "generate" /\ SpecError(graphSpec) # "none"
  /\ Fail(SpecError(graphSpec))

Generate ==
  /\ stage = "generate" /\ SpecError(graphSpec) = "none"
  /\ \E g \in Generations : g.spec = graphSpec /\ dataset' = g.dataset
  /\ stage' = "base"
  /\ UNCHANGED <<changes, pc, error, file, adds, dels, addAt, delAt, source, hashed, query,
                 answer, mergeVars, graphSpec, why, rebuilt>>

(* The errors of apply_mutation.                                           *)
ApplyErrors == {"count_mismatch", "duplicate_removed", "missing", "duplicate_added",
                "invalid_added"}

(* The base graph is open.                                                 *)
BaseOpened == stage = "base" /\ pc = "changes"

(* plan_mutation and apply_mutation, and the result packed afresh; the     *)
(* overlay of the changes is VisibleGraph's to write.                      *)
PlansHere == {p \in Plans : p.dataset = dataset}

Plan(plan) ==
  /\ plan.result.error = "none"
  /\ changes' = plan.result.changes
  /\ rebuilt' = plan.result.rebuilt
  /\ stage' = "overlay"
  /\ UNCHANGED <<dataset, pc, error, file, adds, dels, addAt, delAt, source, hashed, query,
                 answer, mergeVars, graphSpec, why>>

(* standard_mutations: one that fails, fails them all.                     *)
PlanStandard(plans) ==
  /\ \A p \in plans : p.standard => p.result.error = "none"
  /\ \E p \in plans : p.standard /\ Plan(p)

(* Any other caller's scenario.                                            *)
PlanOther(plans) == \E p \in plans : ~p.standard /\ Plan(p)

RefusePlan(plans) == \E p \in plans : p.result.error # "none" /\ Fail(p.result.error)

Mutate ==
  /\ BaseOpened
  /\ \E plans \in {PlansHere} :
       PlanStandard(plans) \/ PlanOther(plans) \/ RefusePlan(plans)

(* The steps of the storage.                                               *)
Store ==
  /\ stage \in {"given", "base", "overlay"} /\ ~BaseOpened
  /\ Next
  /\ UNCHANGED benchVars

AllNext ==
  \/ RefuseSpec \/ Generate
  \/ Mutate
  \/ Store

BenchSpec == AllInit /\ [][AllNext]_allVars /\ WF_allVars(AllNext)

-----------------------------------------------------------------------------
(* The kind that a topology gives the edge between two nodes.              *)
KindBetween(s, t) ==
  LET g == graphSpec
  IN  CASE g.topology = "modular" -> IF s % g.clusters = t % g.clusters THEN 0 ELSE 1
        [] g.topology = "entangled" ->
             IF s < g.hubs \/ t < g.hubs THEN 2
             ELSE IF s % g.clusters = t % g.clusters THEN 0 ELSE 1
        [] g.topology = "hub_heavy" -> IF s < g.hubs \/ t < g.hubs THEN 2 ELSE 0
        [] g.topology = "layered" -> IF t % g.layers = (s % g.layers) + 1 THEN 3 ELSE 4
        [] g.topology = "dense" -> IF s < g.dense /\ t < g.dense THEN 5 ELSE 0

(* The share of the edges that are promised a kind, in basis points.       *)
ShareOf(kind) ==
  LET g == graphSpec
  IN  CASE g.topology = "modular" -> IF kind = 0 THEN BASIS_POINTS - g.crossRatio ELSE g.crossRatio
        [] g.topology = "entangled" -> (CASE kind = 2 -> 4000 [] kind = 1 -> 4500 [] kind = 0 -> 1500)
        [] g.topology = "hub_heavy" -> IF kind = 2 THEN 7000 ELSE 3000
        [] g.topology = "layered" -> IF kind = 3 THEN 8000 ELSE 2000
        [] g.topology = "dense" -> IF kind = 5 THEN 7000 ELSE 3000

(* A specification that is accepted is met: as many edges as asked for,    *)
(* sorted, no two of them between the same nodes, none a loop, each of the *)
(* kind its nodes call for, and of each kind its share, or all there are:  *)
(* however the pairs are drawn, the loops that pass over pairs find enough.*)
GeneratedExact ==
  stage = "base" =>
    \A edges \in {dataset.edges}, nodes \in {0..(graphSpec.nodeCount - 1)} :
      \A possible \in {{p \in nodes \X nodes : p[1] # p[2]}} :
        /\ dataset.nodeCount = graphSpec.nodeCount
        /\ Len(edges) = graphSpec.edgeCount
        /\ \A i \in DOMAIN edges : i > 1 => EdgeBefore(edges[i - 1], edges[i])
        /\ Cardinality(OccupiedPairs(dataset)) = Len(edges)
        /\ \A e \in Elements(edges) :
             PairOf(e) \in possible /\ Kind(e) = KindBetween(Source(e), Target(e))
        /\ \A k \in {KindBetween(p[1], p[2]) : p \in possible} :
             Cardinality({e \in Elements(edges) : Kind(e) = k})
               >= AtMost((Len(edges) * ShareOf(k)) \div BASIS_POINTS,
                         Cardinality({p \in possible : KindBetween(p[1], p[2]) = k}))

(* A mutation that is planned applies, the overlay accepts it, and the two *)
(* give one graph: the same identity, the same neighbours of every node,   *)
(* the number of edges as before.  The benchmark's comparison never fails. *)
RebuiltAgrees ==
  /\ why \notin ApplyErrors
  /\ stage = "overlay" =>
       /\ error \in {"none", "node"}
       /\ pc \in {"query", "merge", "done"} =>
            VisibleChecksum = rebuilt.checksum /\ VisibleCount = Len(dataset.edges)
       /\ pc = "done" => answer = PackedNeighbors(rebuilt, query[1], query[2])

(* A benchmark or a call comes to its end.                                 *)
Ended == <>(pc \in {"done", "refused"} \/ stage = "failed")
=============================================================================
