------------------------------- MODULE Session -------------------------------
(***************************************************************************)
(* A protocol session (src/protocol/session.rs, server.rs): a repository   *)
(* snapshot is opened once, and every request is answered from it by the   *)
(* one thread of the session.  Answering changes nothing, so a behaviour   *)
(* answers one request: a search by the steps of Traversal, an enumeration *)
(* of paths by those of PathSearch, anything else at once by NodeQueries.  *)
(***************************************************************************)
EXTENDS NodeQueries

CONSTANT Sessions   \* [graphs, catalogues, requests]: what may be asked of what

VARIABLES
  graph,      \* the visible graph of the snapshot
  catalogue,  \* its catalogue entries and unresolved references
  request,
  pc,         \* "start", a stage of a search, "done" or "refused"
  pending, start, distances, parent, queue, chain,        \* Traversal's
  frames, nodes, relations, visited, paths, truncated     \* PathSearch's

search == <<pending, start, distances, parent, queue, chain>>
walk == <<frames, nodes, relations, visited, paths, truncated>>
vars == <<graph, catalogue, request, pc, search, walk>>

T == INSTANCE Traversal
P == INSTANCE PathSearch

SnapshotOf(c, g) == [entries |-> c.entries, unresolved |-> c.unresolved, graph |-> g]

(* Requests are parsed, and a snapshot has been checked, before a query    *)
(* runs.                                                                   *)
ASSUME SessionsAssumption ==
  \A s \in Sessions :
    /\ s.graphs \subseteq SUBSET GraphEdge
    /\ \A r \in s.requests :
         \/ r.op \in T!SearchOps /\ r \in T!Request
         \/ r.op = "paths" /\ r \in P!Request
         \/ /\ r.op \in LookupOps /\ LookupParsed(r)
            /\ \A c \in s.catalogues, g \in s.graphs : Opened(SnapshotOf(c, g))

Snapshot == SnapshotOf(catalogue, graph)

Init ==
  /\ \E s \in Sessions :
       graph \in s.graphs /\ catalogue \in s.catalogues /\ request \in s.requests
  /\ T!Init /\ P!Init

(* One step of reachability, impact, dead_symbols, shortest_call_chain or  *)
(* operational_role.                                                       *)
Search ==
  /\ request.op \in T!SearchOps
  /\ T!Next
  /\ UNCHANGED <<catalogue, walk>>

(* One step of paths.                                                      *)
Walk ==
  /\ request.op = "paths"
  /\ P!Next
  /\ UNCHANGED <<catalogue, search>>

LookUp ==
  /\ request.op \in LookupOps /\ pc = "start"
  /\ pc' = "done"
  /\ UNCHANGED <<graph, catalogue, request, search, walk>>

Next == Search \/ Walk \/ LookUp

(* A request is executed by the one thread of its session.                 *)
Spec == Init /\ [][Next]_vars /\ WF_vars(Next)

-----------------------------------------------------------------------------
(* The answer to a look-up; what fails is refused by its code.             *)
Answer == LookedUp(Snapshot, request)

(* The variables have their types.                                         *)
TypeOK ==
  /\ request.op \in T!SearchOps => T!TypeOK
  /\ request.op = "paths" => P!TypeOK
  /\ request.op \in LookupOps =>
       /\ pc \in {"start", "done"} /\ catalogue.entries \in Seq(Entry)
       /\ pc = "done" => Answer.ok \in BOOLEAN

Searched == request.op \in T!SearchOps
Walked == request.op = "paths"

(* Traversal's and PathSearch's properties of a search, see there.         *)
DistancesExact == Searched => T!DistancesExact
AnswerHonest == Searched => T!AnswerHonest
ChainShortest == Searched => T!ChainShortest
QueueMonotone == Searched => T!QueueMonotone
Backtracks == Walked => P!Backtracks
PathsComplete == Walked => P!PathsComplete

(* Every request is answered, cycles and self-calls notwithstanding.       *)
Answered == <>(pc \in {"done", "refused"})

-----------------------------------------------------------------------------
(* What a request asks of a node, without the indexes: names and kinds are *)
(* equal, a path is equal or, for list_nodes, begins with the components   *)
(* of the prefix.  The prefix "." asks for nodes of the path "." only.     *)
Asked(entry) ==
  /\ request.op = "resolve_symbol" => entry.name = request.name
  /\ request.op = "resolve_file" => entry.kind = FileKind
  /\ request.op # "resolve_file" /\ request.kind # None => entry.kind = request.kind
  /\ request.path # None =>
       LET path == Normalized[request.path]
       IN  IF request.op = "list_nodes"
             THEN IsPrefix(Components(path), Components(entry.path))
             ELSE entry.path = path

(* A listing has every node that is asked for and no other, once, in the   *)
(* order of the ids, and is cut only where it says so: the bounded range   *)
(* of paths loses no descendant although "-" and "." sort before "/", and  *)
(* the walk over two sorted lists loses no common id.                      *)
ListsExact ==
  pc = "done" /\ request.op \in {"resolve_symbol", "resolve_file", "list_nodes"} =>
    \A answer \in {Answer} : answer.ok =>
      LET want == Ordered({id \in Ids(Snapshot) : Asked(EntryOf(Snapshot, id))}, Below)
          result == answer.result
      IN  /\ result.count = Len(want)
          /\ IsPrefix(result.returned, want)
          /\ result.truncated <=> result.returned # want
          /\ result.truncated => Len(result.returned) = BoundedLimit(request.limit)

(* The relations of a snapshot, by the keys of its nodes.                  *)
LogicalGraph(s) ==
  {<<EntryOf(s, e.source).key, e.relation, EntryOf(s, e.target).key>> : e \in s.graph}

(* A comparison that finds no change compares equal snapshots, whatever    *)
(* their ids, and one that finds a change compares different ones; a node  *)
(* counts as changed when it leads to other keys.  Without a change of the *)
(* graph the packed datasets are the same, too.                            *)
DiffExact ==
  pc = "done" /\ request.op = "diff" /\ request.other # Malformed =>
    \A result \in {Answer.result} :
    LET other == request.other
        sameGraph == /\ KeysOf(Snapshot) = KeysOf(other)
                     /\ LogicalGraph(Snapshot) = LogicalGraph(other)
        Leaving(s, k) == {e \in LogicalGraph(s) : e[1] = k}
        rewired == {k \in KeysOf(Snapshot) \cap KeysOf(other) :
                      Leaving(Snapshot, k) # Leaving(other, k)}
    IN  /\ result.graphChanged <=> ~ sameGraph
        /\ result.snapshotChanged <=>
             ~ (sameGraph /\ Elements(Snapshot.entries) = Elements(other.entries))
        /\ result.counts.relationship = Cardinality(rewired)
        /\ ~ result.graphChanged => ~ result.checksumChanged
        /\ result.truncated <=>
             \E l \in DOMAIN result.counts : result.counts[l] > Len(result.nodes[l])

(* A request that restricts nothing.                                       *)
Unrestricted ==
  [op |-> "stats", name |-> None, kind |-> None, path |-> None, node |-> None,
   direction |-> "outgoing", relation |-> None, reason |-> None, limit |-> None,
   other |-> None]

(* What the statistics count is what the other queries list: by kind, by   *)
(* relation at either end, by reason and by the source of a reference.     *)
StatsAgree ==
  pc = "done" /\ request.op = "stats" =>
    \A stats \in {Answer.result} :
    LET Ending(n, r) ==
          Len(Neighbors(Snapshot, [Unrestricted EXCEPT !.node = n, !.relation = r,
                                                       !.direction = "incoming"]).result)
        Of(n) == QueryUnresolved(Snapshot, [Unrestricted EXCEPT !.node = n]).result.count
    IN  /\ \A k \in Kind :
             stats.byKind[k] = ListNodes(Snapshot, [Unrestricted EXCEPT !.kind = k]).result.count
        /\ \A r \in Relation :
             stats.byRelation[r] = Total([n \in Ids(Snapshot) |-> Ending(n, r)], Ids(Snapshot))
        /\ stats.edges = Total(stats.byRelation, Relation)
        /\ \A w \in Reason :
             stats.byReason[w] =
               QueryUnresolved(Snapshot, [Unrestricted EXCEPT !.reason = w]).result.count
        /\ stats.unresolved = Total([n \in Ids(Snapshot) |-> Of(n)], Ids(Snapshot))
=============================================================================
