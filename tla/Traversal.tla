------------------------------ MODULE Traversal ------------------------------
(***************************************************************************)
(* The breadth-first queries of a protocol session                         *)
(* (src/protocol/traversal.rs and analysis_queries.rs): reachability,      *)
(* impact, dead symbols, shortest call chain and operational role.  The    *)
(* graph and the request are given; a step takes one node from the queue.  *)
(***************************************************************************)
EXTENDS QueryGraph

(* A request that has been parsed, with its limits bounded.  "target" is   *)
(* node_id of impact and operational_role and to_node_id of a chain;       *)
(* "symbols" are the nodes of the kinds that dead_symbols asks for.  A      *)
(* "summary" is an operational_role without entry_node_ids, which asks for *)
(* no chain.                                                               *)
SearchOps == {"reachability", "impact", "dead_symbols", "chain", "role", "summary"}

Request ==
  {r \in [op : SearchOps,
          entries : SUBSET Nat, target : Nat, possible : BOOLEAN,
          mask : {None} \cup SUBSET Relation, symbols : SUBSET Node,
          depth : Nat, limit : Nat] :
     r.op = "summary" => r.entries = {}}

VARIABLES
  graph,
  request,
  pc,         \* "start", "search", "found", "done", "refused"
  pending,    \* entries of an operational role still to be searched from
  start,      \* the entry the chain is searched from
  distances,  \* [Node -> distance \cup {None}]
  parent,     \* [Node -> <<node, relation>> it was reached by, None]
  queue,
  chain       \* the best chain so far, None

vars == <<graph, request, pc, pending, start, distances, parent, queue, chain>>

Chains == request.op \in {"chain", "role", "summary"}

SearchDirection == IF request.op = "impact" THEN "incoming" ELSE "outgoing"

Allowed ==
  IF request.op = "impact"
    THEN IF request.mask = None THEN ImpactRelations ELSE request.mask
    ELSE CallRelations(request.possible)

-----------------------------------------------------------------------------
Init ==
  /\ pc = "start"
  /\ pending = <<>>
  /\ start = None
  /\ distances = [n \in Node |-> None]
  /\ parent = [n \in Node |-> None]
  /\ queue = <<>>
  /\ chain = None

(* (altered) node ids are not looked up in the catalogue                   *)
AcceptUnchecked == TRUE

(* require_node, require_entries.                                          *)
Acceptable ==
  /\ request.op \in {"impact", "chain", "role", "summary"} => request.target \in Node
  /\ request.op # "impact" => request.entries \subseteq Node
  /\ request.op \in {"reachability", "dead_symbols", "role"} => request.entries # {}
  /\ request.op = "chain" => Cardinality(request.entries) = 1

RefuseRequest ==
  /\ pc = "start" /\ ~Acceptable
  /\ pc' = "refused"
  /\ UNCHANGED <<graph, request, pending, start, distances, parent, queue, chain>>

Fresh(S) == [n \in Node |-> IF n \in S THEN 0 ELSE None]

(* bfs_distances: every start at once.                                     *)
StartDistances ==
  /\ pc = "start" /\ Acceptable /\ ~Chains
  /\ LET starts == IF request.op = "impact" THEN {request.target} ELSE request.entries
     IN  /\ distances' = Fresh(starts)
         /\ queue' = Ordered(starts, Below)
  /\ pc' = "search"
  /\ UNCHANGED <<graph, request, pending, start, parent, chain>>

(* shortest_path from the next entry; a chain is a role with one entry.    *)
SearchFrom(n, rest) ==
  /\ pending' = rest
  /\ start' = n
  /\ distances' = Fresh({n})
  /\ parent' = [m \in Node |-> None]
  /\ queue' = <<n>>
  /\ pc' = IF n = request.target THEN "found" ELSE "search"

StartChains ==
  /\ pc = "start" /\ Acceptable /\ Chains
  /\ LET entries == Ordered(request.entries, Below)
     IN  IF entries = <<>>
           THEN pc' = "done" /\ UNCHANGED <<pending, start, distances, parent, queue>>
           ELSE SearchFrom(Head(entries), Tail(entries))
  /\ UNCHANGED <<graph, request, chain>>

-----------------------------------------------------------------------------
(* The neighbours of the head of the queue that have no distance yet.      *)
Discovered ==
  {m \in AdjacentNodes(graph, Head(queue), SearchDirection, Allowed) :
     distances[m] = None}

(* (altered) nodes at the depth limit stay at the head of the queue        *)
SkipDeeper ==
  /\ pc = "search" /\ queue # <<>>
  /\ distances[Head(queue)] > request.depth
  /\ queue' = Tail(queue)
  /\ UNCHANGED <<graph, request, pc, pending, start, distances, parent, chain>>

(* Nodes at the depth limit are taken from the queue and not expanded.     *)
SkipDeep ==
  /\ pc = "search" /\ queue # <<>>
  /\ distances[Head(queue)] >= request.depth
  /\ queue' = Tail(queue)
  /\ UNCHANGED <<graph, request, pc, pending, start, distances, parent, chain>>

(* (altered) a node's distance is set whenever it is met                   *)
VisitAgain ==
  /\ pc = "search" /\ queue # <<>>
  /\ distances[Head(queue)] < request.depth
  /\ distances' = [m \in Node |->
       IF m \in AdjacentNodes(graph, Head(queue), SearchDirection, Allowed)
         THEN distances[Head(queue)] + 1 ELSE distances[m]]
  /\ queue' = Tail(queue) \o Ordered(Discovered, Below)
  /\ UNCHANGED <<graph, request, pc, pending, start, parent, chain>>

(* (altered) new nodes go to the front of the queue                        *)
VisitDepthFirst ==
  /\ pc = "search" /\ queue # <<>>
  /\ distances[Head(queue)] < request.depth
  /\ distances' = [m \in Node |->
       IF m \in Discovered THEN distances[Head(queue)] + 1 ELSE distances[m]]
  /\ queue' = Ordered(Discovered, Below) \o Tail(queue)
  /\ UNCHANGED <<graph, request, pc, pending, start, parent, chain>>

(* The search of a chain stops as soon as it meets the target: what it     *)
(* labels after the target is never read, nor are the parents of a search  *)
(* for distances.                                                          *)
Visit ==
  /\ pc = "search" /\ queue # <<>>
  /\ distances[Head(queue)] < request.depth
  /\ LET node == Head(queue)
     IN  /\ distances' = [m \in Node |->
              IF m \in Discovered THEN distances[node] + 1 ELSE distances[m]]
         /\ parent' = [m \in Node |->
              IF m \in Discovered
                THEN <<node, FirstRelation(graph, node, m, SearchDirection, Allowed)>>
                ELSE parent[m]]
         /\ queue' = Tail(queue) \o Ordered(Discovered, Below)
  /\ pc' = IF Chains /\ request.target \in Discovered THEN "found" ELSE "search"
  /\ UNCHANGED <<graph, request, pending, start, chain>>

(* reconstruct_path: back from the target along the parents.               *)
Reconstructed ==
  LET depth == distances[request.target]
      back[i \in 0..depth] ==
        IF i = 0 THEN request.target ELSE parent[back[i - 1]][1]
  IN  [nodes |-> [i \in 1..(depth + 1) |-> back[depth + 1 - i]],
       relations |-> [i \in 1..depth |-> parent[back[depth - i]][2]]]

(* (altered) a later chain of the same length replaces the best one        *)
BetterOrEqual(c) == chain = None \/ Len(c.relations) <= Len(chain.relations)

(* A later entry's chain replaces the best one only if it is shorter.      *)
Better(c) == chain = None \/ Len(c.relations) < Len(chain.relations)

(* A search has ended with or without its target.                          *)
NextEntry ==
  /\ Chains /\ (pc = "found" \/ (pc = "search" /\ queue = <<>>))
  /\ chain' = IF pc = "found" /\ Better(Reconstructed) THEN Reconstructed ELSE chain
  /\ IF pending = <<>>
       THEN pc' = "done" /\ UNCHANGED <<pending, start, distances, parent, queue>>
       ELSE SearchFrom(Head(pending), Tail(pending))
  /\ UNCHANGED <<graph, request>>

FinishDistances ==
  /\ ~Chains /\ pc = "search" /\ queue = <<>>
  /\ pc' = "done"
  /\ UNCHANGED <<graph, request, pending, start, distances, parent, queue, chain>>

Next ==
  \/ RefuseRequest \/ StartDistances \/ StartChains \/ SkipDeep \/ Visit
  \/ NextEntry \/ FinishDistances

-----------------------------------------------------------------------------
(* The answers.                                                            *)
(* (altered) a node is listed among its own dependents                     *)
ListedAll == {n \in Node : distances[n] # None}

(* A node is not among its own dependents.                                 *)
Listed == {n \in Node : distances[n] # None}
            \ (IF request.op = "impact" THEN {request.target} ELSE {})

(* Reachable or impacted nodes by distance, then by id.                    *)
NearerBefore(m, n) ==
  distances[m] < distances[n] \/ (distances[m] = distances[n] /\ m < n)

Matches ==
  IF request.op = "dead_symbols"
    THEN Ordered({n \in request.symbols : distances[n] = None}, Below)
    ELSE Ordered(Listed, NearerBefore)

LeastOf(a, b) == IF a < b THEN a ELSE b

Answer ==
  LET returned == SubSeq(Matches, 1, LeastOf(request.limit, Len(Matches)))
  IN  [count |-> Len(Matches), returned |-> returned,
       truncated |-> Len(Matches) > Len(returned)]

-----------------------------------------------------------------------------
(* Reference: the nodes within d relations of a set of starts.             *)
Within(starts, depth) ==
  LET ball[d \in 0..depth] ==
        IF d = 0 THEN starts
        ELSE ball[d - 1] \cup
               UNION {AdjacentNodes(graph, n, SearchDirection, Allowed) : n \in ball[d - 1]}
  IN  ball

RefStarts == IF request.op = "impact" THEN {request.target} ELSE request.entries

(* The variables have their types.                                         *)
TypeOK ==
  /\ graph \in SUBSET GraphEdge
  /\ request \in Request
  /\ pc \in {"start", "search", "found", "done", "refused"}
  /\ pending \in Seq(Node)
  /\ start \in Node \cup {None}
  /\ distances \in [Node -> Nat \cup {None}]
  /\ parent \in [Node -> (Node \X Relation) \cup {None}]
  /\ queue \in Seq(Node)
  /\ chain = None \/ (chain.nodes \in Seq(Node) /\ chain.relations \in Seq(Relation))

(* A finished search has labelled exactly the nodes within the depth limit *)
(* of its starts, each with its least distance: cycles, several starts,    *)
(* parallel relations and a limit of zero included.                        *)
DistancesExact ==
  pc = "done" /\ ~Chains =>
    LET ball == Within(RefStarts, request.depth)
    IN  \A n \in Node :
          /\ distances[n] = None <=> n \notin ball[request.depth]
          /\ distances[n] # None =>
               /\ n \in ball[distances[n]]
               /\ distances[n] > 0 => n \notin ball[distances[n] - 1]

(* An answer that does not say "truncated" is complete, and what a cut one *)
(* leaves out is not nearer than what it returns; the same entries and     *)
(* symbols are never both reachable and dead.                              *)
AnswerHonest ==
  pc = "done" /\ ~Chains =>
    LET ball == Within(RefStarts, request.depth)[request.depth]
        want == CASE request.op = "reachability" -> ball
                  [] request.op = "impact" -> ball \ {request.target}
                  [] OTHER -> request.symbols \ ball
        got == {Answer.returned[i] : i \in DOMAIN Answer.returned}
    IN  /\ got \subseteq want
        /\ Answer.count = Cardinality(want)
        /\ Answer.truncated <=> got # want
        /\ Len(Answer.returned) = Cardinality(got)
        /\ request.op # "dead_symbols" =>
             \A n \in got, m \in want \ got : distances[n] <= distances[m]

(* The chain of an answer is a walk over allowed relations from the entry  *)
(* to the target, of least length over all entries and within the limit,   *)
(* from the least entry that attains it; there is none only if the target  *)
(* is farther than the limit from every entry.                             *)
ChainShortest ==
  pc = "done" /\ Chains =>
    LET reach(n) == Within({n}, request.depth)
        near == {n \in request.entries : request.target \in reach(n)[request.depth]}
    IN  IF chain = None
          THEN near = {}
          ELSE LET length == Len(chain.relations)
                   first == chain.nodes[1]
               IN  /\ Len(chain.nodes) = length + 1
                   /\ chain.nodes[length + 1] = request.target
                   /\ \A i \in 1..length :
                        /\ chain.relations[i] \in Allowed
                        /\ [source |-> chain.nodes[i], relation |-> chain.relations[i],
                            target |-> chain.nodes[i + 1]] \in graph
                   /\ first \in near
                   /\ \A n \in near :
                        /\ length > 0 => request.target \notin reach(n)[length - 1]
                        /\ request.target \in reach(n)[length] => first <= n

(* What makes a queue enough: the distances along it never decrease and    *)
(* differ by at most one, and every labelled node that has left it and is  *)
(* above the limit has only labelled neighbours.                           *)
QueueMonotone ==
  pc = "search" =>
    /\ \A i, j \in DOMAIN queue : i <= j =>
         /\ distances[queue[i]] <= distances[queue[j]]
         /\ distances[queue[j]] <= distances[queue[i]] + 1
    /\ \A n \in Node :
         distances[n] # None /\ distances[n] < request.depth
           /\ n \notin {queue[i] : i \in DOMAIN queue} =>
         \A m \in AdjacentNodes(graph, n, SearchDirection, Allowed) :
           distances[m] # None /\ distances[m] <= distances[n] + 1
=============================================================================
