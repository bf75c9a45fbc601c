---------------------------- MODULE NodeQueries ----------------------------
(***************************************************************************)
(* The look-ups of a protocol session: the indexes of the catalogue        *)
(* (src/repository/catalogue.rs), the queries that list nodes and          *)
(* unresolved references (src/protocol/queries.rs), statistics (stats.rs)  *)
(* and the comparison with another snapshot (diff.rs).                     *)
(*                                                                         *)
(* A snapshot is a list of catalogue entries, the one of node id n at      *)
(* n + 1, the visible graph over the ids and the list of unresolved        *)
(* references.  Nodes are answered by their ids.                           *)
(***************************************************************************)
EXTENDS QueryGraph, Texts

CONSTANTS
  Kind,          \* node kinds
  FileKind,      \* the kind of files
  Reason,        \* reasons why a reference is unresolved
  DefaultLimit,  \* DEFAULT_LIMIT and MAX_LIMIT
  MaxLimit

ASSUME KindAssumption ==
  FileKind \in Kind /\ None \notin Kind \cup Reason \cup Text \cup {Malformed}
ASSUME LimitAssumption == DefaultLimit \in Nat /\ MaxLimit \in Nat
ASSUME PlacesAssumption == Relation \subseteq 0..18

Entry == [key : Nat, kind : Kind, path : Text, name : Text]

Ids(s) == 0..(Len(s.entries) - 1)
EntryOf(s, id) == s.entries[id + 1]

IdOfKey(s, key) == CHOOSE id \in Ids(s) : EntryOf(s, id).key = key

(* The indexes, filled in the order of the ids.                            *)
IdsByName(s, name) == Ordered({id \in Ids(s) : EntryOf(s, id).name = name}, Below)
IdsByPath(s, path) == Ordered({id \in Ids(s) : EntryOf(s, id).path = path}, Below)
IdsByKind(s, kind) == Ordered({id \in Ids(s) : EntryOf(s, id).kind = kind}, Below)

(* (altered) every path of the range begins with the prefix                *)
IdsByWholeRange(s, prefix) ==
  LET InRange(path) == ~ TextBefore(path, prefix) /\ TextBefore(path, Append(prefix, Zero))
  IN  Ordered({id \in Ids(s) : InRange(EntryOf(s, id).path)}, Below)

(* The paths from the prefix up to, and without, the prefix followed by    *)
(* "0", the successor of "/"; of these the prefix and what it contains.    *)
IdsByPathPrefix(s, prefix) ==
  LET InRange(path) == ~ TextBefore(path, prefix) /\ TextBefore(path, Append(prefix, Zero))
      Under(path) == path = prefix \/ IsPrefix(Append(prefix, Slash), path)
  IN  Ordered({id \in Ids(s) : InRange(EntryOf(s, id).path) /\ Under(EntryOf(s, id).path)},
              Below)

(* intersect_sorted_ids: a loop over two sorted lists.                     *)
Intersection(left, right) ==
  LET from[p \in (1..(Len(left) + 1)) \X (1..(Len(right) + 1))] ==
        LET i == p[1]
            j == p[2]
        IN  IF i > Len(left) \/ j > Len(right) THEN <<>>
            ELSE IF left[i] < right[j] THEN from[<<i + 1, j>>]
            ELSE IF left[i] > right[j] THEN from[<<i, j + 1>>]
            ELSE <<left[i]>> \o from[<<i + 1, j + 1>>]
  IN  from[<<1, 1>>]

-----------------------------------------------------------------------------
(* Requests and answers.  An optional field is None or a value; of kinds,  *)
(* relations and reasons the value may be unknown.                         *)
Failure(code) == [ok |-> FALSE, code |-> code]
Success(result) == [ok |-> TRUE, result |-> result]

Unknown(value, known) == value # None /\ value \notin known

NormalPath(path) == IF path = None THEN None ELSE Normalized[path]

LeastNat(a, b) == IF a < b THEN a ELSE b

BoundedLimit(limit) == LeastNat(IF limit = None THEN DefaultLimit ELSE limit, MaxLimit)

(* The references of a list that satisfy a condition, in its order.        *)
Where(s, Condition(_)) == Filtered(s, {u \in Elements(s) : Condition(u)})

(* The beginning of a list, and whether anything is left out.              *)
Listing(items, limit) ==
  LET returned == SubSeq(items, 1, LeastNat(BoundedLimit(limit), Len(items)))
  IN  [count |-> Len(items), returned |-> returned, truncated |-> Len(items) > Len(returned)]

ResolveSymbol(s, r) ==
  LET named == IdsByName(s, r.name)
      ofKind == IF r.kind = None THEN named ELSE Intersection(named, IdsByKind(s, r.kind))
      path == NormalPath(r.path)
      matches == IF path = None THEN ofKind ELSE Intersection(ofKind, IdsByPath(s, path))
  IN  IF Unknown(r.kind, Kind) THEN Failure("invalid_node_kind")
      ELSE IF path = Malformed THEN Failure("invalid_path")
      ELSE Success(Listing(matches, r.limit))

ResolveFile(s, r) ==
  LET path == Normalized[r.path]
  IN  IF path = Malformed THEN Failure("invalid_path")
      ELSE Success(Listing(Intersection(IdsByPath(s, path), IdsByKind(s, FileKind)), r.limit))

ListNodes(s, r) ==
  LET prefix == NormalPath(r.path)
      matches ==
        IF r.kind = None
          THEN IF prefix = None THEN Ordered(Ids(s), Below) ELSE IdsByPathPrefix(s, prefix)
          ELSE IF prefix = None THEN IdsByKind(s, r.kind)
          ELSE Intersection(IdsByPathPrefix(s, prefix), IdsByKind(s, r.kind))
  IN  IF Unknown(r.kind, Kind) THEN Failure("invalid_node_kind")
      ELSE IF prefix = Malformed THEN Failure("invalid_path")
      ELSE Success(Listing(matches, r.limit))

(* The code of a relation in the graph: five runs of RelationKind's order. *)
EdgeKindCode(relation) ==
  CASE relation \in 0..4 -> relation + 1      \* Contains to Calls
    [] relation \in 5..6 -> relation + 8      \* PossibleCalls, ConvertsTo
    [] relation \in 7..8 -> relation - 1      \* Implements, Extends
    [] relation \in 9..13 -> relation + 6     \* UsesTrait to Annotates
    [] relation \in 14..18 -> relation - 6    \* Includes to Generates

(* The order in which the graph holds the neighbours of a node, in which   *)
(* they are answered; traversals sort them by AdjacentBefore.              *)
StoredBefore(a, b) ==
  a[1] < b[1] \/ (a[1] = b[1] /\ EdgeKindCode(a[2]) < EdgeKindCode(b[2]))

Neighbors(s, r) ==
  LET allowed == IF r.relation = None THEN Relation ELSE {r.relation}
  IN  IF r.node \notin Ids(s) THEN Failure("unknown_node")
      ELSE IF Unknown(r.relation, Relation) THEN Failure("invalid_relation")
      ELSE Success(Ordered(Adjacent(s.graph, r.node, r.direction, allowed), StoredBefore))

(* The references of a node are found by an index, all others filtered.    *)
QueryUnresolved(s, r) ==
  LET path == NormalPath(r.path)
      Wanted(u) ==
        /\ r.node = None \/ u.source = EntryOf(s, r.node).key
        /\ r.reason = None \/ u.reason = r.reason
        /\ r.relation = None \/ u.relation = r.relation
        /\ path = None \/ EntryOf(s, IdOfKey(s, u.source)).path = path
  IN  IF Unknown(r.node, Ids(s)) THEN Failure("unknown_node")
      ELSE IF path = Malformed THEN Failure("invalid_path")
      ELSE IF Unknown(r.reason, Reason) THEN Failure("invalid_unresolved_reason")
      ELSE IF Unknown(r.relation, Relation) THEN Failure("invalid_relation")
      ELSE Success(Listing(Where(s.unresolved, Wanted), r.limit))

-----------------------------------------------------------------------------
(* The sum of what is counted at the members of a set.                     *)
Total(counts, S) == FoldSet(LAMBDA x, sum : sum + counts[x], 0, S)

(* (altered) a node that can be reached counts once for each relation      *)
RelationTotalOfTargets(s, relation) ==
  Cardinality(UNION {Adjacent(s.graph, n, "outgoing", {relation}) : n \in Ids(s)})

(* What a loop over a list counts.                                         *)
CountOf(list, Condition(_)) == Cardinality({i \in DOMAIN list : Condition(list[i])})

(* The relations are counted at the nodes that they leave.                 *)
RelationTotal(s, relation) ==
  Total([n \in Ids(s) |-> Cardinality(Adjacent(s.graph, n, "outgoing", {relation}))], Ids(s))

Stats(s) ==
  Success([nodes |-> Len(s.entries), edges |-> Cardinality(s.graph),
           unresolved |-> Len(s.unresolved),
           byKind |-> [k \in Kind |-> CountOf(s.entries, LAMBDA e : e.kind = k)],
           byRelation |-> [r \in Relation |-> RelationTotal(s, r)],
           byReason |-> [w \in Reason |-> CountOf(s.unresolved, LAMBDA u : u.reason = w)],
           unresolvedCalls |-> CountOf(s.unresolved, LAMBDA u : u.relation = Calls)])

KeysOf(s) == {EntryOf(s, id).key : id \in Ids(s)}
EntryOfKey(s, key) == EntryOf(s, IdOfKey(s, key))

(* (altered) neighbours are compared by their ids                          *)
OutgoingIds(s, key) == Adjacent(s.graph, IdOfKey(s, key), "outgoing", Relation)

(* Where the relations of a node lead, by key: ids differ between          *)
(* snapshots.                                                              *)
LogicalOutgoing(s, key) ==
  {<<EntryOf(s, a[1]).key, a[2]>> :
     a \in Adjacent(s.graph, IdOfKey(s, key), "outgoing", Relation)}

(* The checksum of the packed dataset, which knows ids and not keys.       *)
DatasetChecksum(s) == <<Len(s.entries), s.graph>>

(* Lists are in the order of the keys.                                     *)
DiffSnapshot(s, r) ==
  LET o == r.other
      added == KeysOf(s) \ KeysOf(o)
      removed == KeysOf(o) \ KeysOf(s)
      common == KeysOf(s) \cap KeysOf(o)
      metadata == {k \in common : EntryOfKey(s, k) # EntryOfKey(o, k)}
      relationship == {k \in common : LogicalOutgoing(s, k) # LogicalOutgoing(o, k)}
      graphChanged == added \cup removed \cup relationship # {}
      lists == [added |-> added, removed |-> removed, metadata |-> metadata,
                relationship |-> relationship]
  IN  IF o = Malformed THEN Failure("snapshot_open_failed")
      ELSE Success(
        [snapshotChanged |-> graphChanged \/ metadata # {},
         graphChanged |-> graphChanged,
         checksumChanged |-> DatasetChecksum(s) # DatasetChecksum(o),
         counts |-> [l \in DOMAIN lists |-> Cardinality(lists[l])],
         truncated |-> \E l \in DOMAIN lists : Cardinality(lists[l]) > BoundedLimit(r.limit),
         nodes |-> [l \in DOMAIN lists |->
                      Listing(Ordered(lists[l], Below), r.limit).returned]])

-----------------------------------------------------------------------------
LookupOps == {"resolve_symbol", "resolve_file", "list_nodes", "neighbors", "unresolved",
              "stats", "diff"}

(* A snapshot as it is opened: the catalogue is in the order of the keys,   *)
(* and the graph and the references are about its nodes.                   *)
Opened(s) ==
  /\ s.entries \in Seq(Entry)
  /\ \A i, j \in DOMAIN s.entries : i < j => s.entries[i].key < s.entries[j].key
  /\ s.graph \subseteq {e \in GraphEdge : {e.source, e.target} \subseteq Ids(s)}
  /\ s.unresolved \in Seq([source : KeysOf(s), relation : Relation, reason : Reason])

(* The fields of a look-up as they are parsed.                             *)
LookupParsed(r) ==
  /\ r.op \in {"resolve_symbol", "resolve_file", "list_nodes", "diff"} =>
       r.limit \in Nat \cup {None}
  /\ r.op \in {"resolve_symbol", "list_nodes"} => r.path \in Text \cup {None}
  /\ r.op = "resolve_file" => r.path \in Text
  /\ r.op = "diff" => r.other = Malformed \/ Opened(r.other)

(* ProtocolSnapshot::execute, as far as it answers at once.                *)
LookedUp(s, r) ==
  CASE r.op = "resolve_symbol" -> ResolveSymbol(s, r)
    [] r.op = "resolve_file" -> ResolveFile(s, r)
    [] r.op = "list_nodes" -> ListNodes(s, r)
    [] r.op = "neighbors" -> Neighbors(s, r)
    [] r.op = "unresolved" -> QueryUnresolved(s, r)
    [] r.op = "stats" -> Stats(s)
    [] r.op = "diff" -> DiffSnapshot(s, r)
=============================================================================
