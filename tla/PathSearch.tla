----------------------------- MODULE PathSearch -----------------------------
(***************************************************************************)
(* The enumeration of paths of the query protocol                          *)
(* (src/protocol/path_queries.rs): a depth-first walk over simple paths    *)
(* with a limit on their length and on their number.  A frame of the       *)
(* stack is what walk still has to visit; one step is one call of walk or  *)
(* one turn of its loop.                                                   *)
(***************************************************************************)
EXTENDS QueryGraph

(* A parsed request; the limits are bounded and may be zero.               *)
Request == [op : {"paths"}, from : Nat, to : Nat, mask : SUBSET Relation, depth : Nat, limit : Nat]

VARIABLES
  graph,
  request,
  pc,         \* "start", "walk", "loop", "done", "refused"
  frames,     \* neighbours still to be tried, of each node on the path
  nodes,      \* the path being walked
  relations,  \* the relations along it
  visited,    \* nodes that the walk must not enter
  paths,      \* the paths found, in order
  truncated

vars == <<graph, request, pc, frames, nodes, relations, visited, paths, truncated>>

Init ==
  /\ pc = "start"
  /\ frames = <<>> /\ nodes = <<>> /\ relations = <<>> /\ visited = {}
  /\ paths = <<>> /\ truncated = FALSE

(* require_node, for both ends.                                            *)
Acceptable == {request.from, request.to} \subseteq Node

RefuseRequest ==
  /\ pc = "start" /\ ~Acceptable
  /\ pc' = "refused"
  /\ UNCHANGED <<graph, request, frames, nodes, relations, visited, paths, truncated>>

Start ==
  /\ pc = "start" /\ Acceptable
  /\ pc' = "walk"
  /\ nodes' = <<request.from>>
  /\ visited' = {request.from}
  /\ UNCHANGED <<graph, request, frames, relations, paths, truncated>>

-----------------------------------------------------------------------------
Current == nodes[Len(nodes)]

LimitReached == Len(paths) >= request.limit

(* walk is called for the last node of the path, and returns at once ...   *)
Return == pc' = "loop" /\ frames' = Append(frames, <<>>)

(* ... because the limit is reached,                                       *)
WalkCut ==
  /\ pc = "walk" /\ LimitReached
  /\ truncated' = TRUE
  /\ Return
  /\ UNCHANGED <<graph, request, nodes, relations, visited, paths>>

(* ... because the target is,                                              *)
WalkFound ==
  /\ pc = "walk" /\ ~LimitReached /\ Current = request.to
  /\ paths' = Append(paths, [nodes |-> nodes, relations |-> relations])
  /\ Return
  /\ UNCHANGED <<graph, request, nodes, relations, visited, truncated>>

(* ... because the path is as long as it may be.                           *)
WalkDeep ==
  /\ pc = "walk" /\ ~LimitReached /\ Current # request.to
  /\ Len(relations) >= request.depth
  /\ Return
  /\ UNCHANGED <<graph, request, nodes, relations, visited, paths, truncated>>

(* Otherwise its loop starts.                                              *)
Neighbors ==
  Ordered(Adjacent(graph, Current, "outgoing", request.mask), AdjacentBefore)

WalkNeighbors ==
  /\ pc = "walk" /\ ~LimitReached /\ Current # request.to
  /\ Len(relations) < request.depth
  /\ pc' = "loop"
  /\ frames' = Append(frames, Neighbors)
  /\ UNCHANGED <<graph, request, nodes, relations, visited, paths, truncated>>

-----------------------------------------------------------------------------
Top == frames[Len(frames)]
WithTop(rest) == [frames EXCEPT ![Len(frames)] = rest]

(* (altered) the rest of the neighbours is dropped without a word          *)
LoopCutSilently ==
  /\ pc = "loop" /\ Top # <<>> /\ LimitReached
  /\ frames' = WithTop(<<>>)
  /\ UNCHANGED <<graph, request, pc, nodes, relations, visited, paths, truncated>>

LoopCut ==
  /\ pc = "loop" /\ Top # <<>> /\ LimitReached
  /\ truncated' = TRUE
  /\ frames' = WithTop(<<>>)
  /\ UNCHANGED <<graph, request, pc, nodes, relations, visited, paths>>

LoopSkip ==
  /\ pc = "loop" /\ Top # <<>> /\ ~LimitReached
  /\ Head(Top)[1] \in visited
  /\ frames' = WithTop(Tail(Top))
  /\ UNCHANGED <<graph, request, pc, nodes, relations, visited, paths, truncated>>

LoopEnter ==
  /\ pc = "loop" /\ Top # <<>> /\ ~LimitReached
  /\ Head(Top)[1] \notin visited
  /\ visited' = visited \cup {Head(Top)[1]}
  /\ nodes' = Append(nodes, Head(Top)[1])
  /\ relations' = Append(relations, Head(Top)[2])
  /\ frames' = WithTop(Tail(Top))
  /\ pc' = "walk"
  /\ UNCHANGED <<graph, request, paths, truncated>>

ButLast(s) == SubSeq(s, 1, Len(s) - 1)

(* (altered) a node stays visited after the walk has left it               *)
LoopExitVisited ==
  /\ pc = "loop" /\ Top = <<>>
  /\ frames' = ButLast(frames)
  /\ IF Len(frames) = 1
       THEN pc' = "done" /\ UNCHANGED <<nodes, relations, visited>>
       ELSE /\ nodes' = ButLast(nodes)
            /\ relations' = ButLast(relations)
            /\ UNCHANGED <<pc, visited>>
  /\ UNCHANGED <<graph, request, paths, truncated>>

(* walk returns, and its caller takes the node back.                       *)
LoopExit ==
  /\ pc = "loop" /\ Top = <<>>
  /\ frames' = ButLast(frames)
  /\ IF Len(frames) = 1
       THEN pc' = "done" /\ UNCHANGED <<nodes, relations, visited>>
       ELSE /\ nodes' = ButLast(nodes)
            /\ relations' = ButLast(relations)
            /\ visited' = visited \ {Current}
            /\ UNCHANGED pc
  /\ UNCHANGED <<graph, request, paths, truncated>>

Next ==
  \/ RefuseRequest \/ Start
  \/ WalkCut \/ WalkFound \/ WalkDeep \/ WalkNeighbors
  \/ LoopCut \/ LoopSkip \/ LoopEnter \/ LoopExit

-----------------------------------------------------------------------------
(* Reference: the paths from a node, as sequences of <<node, relation>>    *)
(* after it, that repeat no node and end where the target is first met.    *)
SimplePaths ==
  LET step == UNION {Adjacent(graph, n, "outgoing", request.mask) : n \in Node}
      at(p, i) == IF i = 0 THEN request.from ELSE p[i][1]
      walks == UNION {[1..k -> step] : k \in 0..request.depth}
  IN  {p \in walks :
         /\ \A i \in 1..Len(p) :
              p[i] \in Adjacent(graph, at(p, i - 1), "outgoing", request.mask)
         /\ \A i, j \in 0..Len(p) : at(p, i) = at(p, j) => i = j
         /\ \A i \in 0..Len(p) : at(p, i) = request.to <=> i = Len(p)}

Steps(path) ==
  [i \in 1..Len(path.relations) |-> <<path.nodes[i + 1], path.relations[i]>>]

Found == {Steps(paths[i]) : i \in DOMAIN paths}

PathBefore(p, q) ==
  \E i \in 1..Len(q) :
    /\ \A j \in 1..(i - 1) : j <= Len(p) => p[j] = q[j]
    /\ i > Len(p) \/ AdjacentBefore(p[i], q[i])

(* The variables have their types.                                         *)
TypeOK ==
  /\ graph \in SUBSET GraphEdge
  /\ request \in Request
  /\ pc \in {"start", "walk", "loop", "done", "refused"}
  /\ frames \in Seq(Seq(Node \X Relation))
  /\ nodes \in Seq(Node)
  /\ relations \in Seq(Relation)
  /\ visited \subseteq Node
  /\ paths \in Seq([nodes : Seq(Node), relations : Seq(Relation)])
  /\ truncated \in BOOLEAN

(* The walk backtracks exactly: what is marked visited is what is on the   *)
(* path, one relation and one frame lie between neighbours of the path.    *)
Backtracks ==
  pc \in {"walk", "loop"} =>
    /\ visited = {nodes[i] : i \in DOMAIN nodes}
    /\ Cardinality(visited) = Len(nodes)
    /\ Len(relations) = Len(nodes) - 1
    /\ Len(frames) = Len(nodes) - (IF pc = "walk" THEN 1 ELSE 0)

(* An answer that is not truncated has every simple path within the depth  *)
(* limit; a truncated one has as many as were asked for, and the first in  *)
(* the order of their nodes and relations; none is listed twice.           *)
PathsComplete ==
  pc = "done" =>
    /\ Found \subseteq SimplePaths
    /\ Cardinality(Found) = Len(paths)
    /\ IF truncated
         THEN /\ Len(paths) = request.limit
              /\ \A p \in Found, q \in SimplePaths \ Found : PathBefore(p, q)
         ELSE Found = SimplePaths
=============================================================================
