--------------------------- MODULE RepositoryFacts ---------------------------
(***************************************************************************)
(* Repository facts, who owns them, and the graph they compile to.         *)
(*                                                                         *)
(* Models src/repository/ownership.rs (partitions and file-scoped          *)
(* replacement), src/repository/compiler.rs (dense graph) and              *)
(* src/repository/incremental.rs (the plan of an overlay).  A fact vector  *)
(* is a set: the code sorts and deduplicates every vector it partitions,   *)
(* merges, compiles or writes.  Paths are already normalized, as they are  *)
(* when a fact leaves the Lexicon reader.                                  *)
(***************************************************************************)
EXTENDS Naturals, FiniteSets

CONSTANTS
  NodeKey,    \* 64-bit node keys
  Path,       \* repository-relative file paths
  NoPath,     \* a fact without span, or a fact no file owns
  Relation,   \* relation kinds; each has an edge kind code of its own
  Detail      \* the rest of a fact: names, spans' positions, content ids

ASSUME KeyAssumption == NodeKey \subseteq Nat /\ IsFiniteSet(NodeKey)
ASSUME PathAssumption == NoPath \notin Path

-----------------------------------------------------------------------------
(* Facts                                                                   *)

\* A node is structural when its kind is Repository, Directory, Module or
\* Namespace, or when its path has no extension.
Node == [key: NodeKey, path: Path, structural: BOOLEAN,
         span: Path \union {NoPath}, detail: Detail]

EdgeFact == [source: NodeKey, target: NodeKey, relation: Relation,
             span: Path \union {NoPath}, detail: Detail]

Unresolved == [source: NodeKey, span: Path \union {NoPath}, detail: Detail]

Facts == [nodes: SUBSET Node, edges: SUBSET EdgeFact,
          unresolved: SUBSET Unresolved]

\* Appending the facts of several partitions or objects.
FactUnion(S) ==
  [nodes      |-> UNION {f.nodes : f \in S},
   edges      |-> UNION {f.edges : f \in S},
   unresolved |-> UNION {f.unresolved : f \in S}]

-----------------------------------------------------------------------------
(* Ownership                                                               *)

NodeOwner(n) ==
  IF n.span # NoPath THEN n.span
  ELSE IF n.structural THEN NoPath ELSE n.path

\* The files that own a node with this key.
KeyOwners(f, key) ==
  {NodeOwner(n) : n \in {m \in f.nodes : m.key = key}} \ {NoPath}

\* DuplicateNodeOwner is the error of partition_facts.
Partitionable(f) ==
  \A n, m \in f.nodes :
    n.key = m.key /\ NodeOwner(n) # NoPath /\ NodeOwner(m) # NoPath
      => NodeOwner(n) = NodeOwner(m)

KeyOwner(f, key) ==
  IF KeyOwners(f, key) = {} THEN NoPath
  ELSE CHOOSE p \in KeyOwners(f, key) : TRUE

EdgeOwner(f, e) ==
  IF e.span # NoPath THEN e.span
  ELSE IF KeyOwner(f, e.source) # NoPath THEN KeyOwner(f, e.source)
  ELSE KeyOwner(f, e.target)

UnresolvedOwner(f, u) ==
  IF u.span # NoPath THEN u.span ELSE KeyOwner(f, u.source)

\* The partitions of some owners; that of NoPath is the shared partition.
OwnedBy(f, owners) ==
  [nodes      |-> {n \in f.nodes : NodeOwner(n) \in owners},
   edges      |-> {e \in f.edges : EdgeOwner(f, e) \in owners},
   unresolved |-> {u \in f.unresolved : UnresolvedOwner(f, u) \in owners}]

\* Shared facts come from the replacement, unchanged files from the base,
\* changed files from the replacement (which may no longer have them).
ReplaceChangedFiles(base, replacement, changed) ==
  FactUnion({OwnedBy(replacement, {NoPath} \union changed),
             OwnedBy(base, Path \ changed)})

-----------------------------------------------------------------------------
(* Compilation                                                             *)

Keys(f) == {n.key : n \in f.nodes}

UniqueNodes(f) == \A n, m \in f.nodes : n.key = m.key => n = m

Compiles(f) ==
  /\ UniqueNodes(f)
  /\ \A e \in f.edges : e.source \in Keys(f) /\ e.target \in Keys(f)
  /\ \A u \in f.unresolved : u.source \in Keys(f)

\* Dense ids follow the order of the keys.
NodeIds(f) ==
  [k \in Keys(f) |-> Cardinality({j \in Keys(f) : j < k})]

\* Occurrences of a relation between two nodes collapse to one edge.
Dataset(f) ==
  [nodeCount |-> Cardinality(Keys(f)),
   edges     |-> {[source |-> NodeIds(f)[e.source],
                   target |-> NodeIds(f)[e.target],
                   kind   |-> e.relation] : e \in f.edges}]

-----------------------------------------------------------------------------
(* The plan of an incremental update                                       *)

\* (altered) only the number of nodes has to agree
PlanCounted(current, replacement, changed, base) ==
  LET merged == ReplaceChangedFiles(current, replacement, changed)
  IN  /\ Partitionable(current)
      /\ Partitionable(replacement)
      /\ Compiles(current)
      /\ Compiles(merged)
      /\ base.nodeCount = Dataset(merged).nodeCount

\* An overlay over the packed base can express the replacement: both sides
\* partition and compile, no dense id moves, and the base has those nodes.
PlanAccepted(current, replacement, changed, base) ==
  LET merged == ReplaceChangedFiles(current, replacement, changed)
  IN  /\ Partitionable(current)
      /\ Partitionable(replacement)
      /\ Compiles(current)
      /\ Compiles(merged)
      /\ NodeIds(current) = NodeIds(merged)
      /\ base.nodeCount = Dataset(merged).nodeCount

\* (altered) removed edges get no tombstone
AdditionsOnly(base, visible) == [added |-> visible \ base, removed |-> {}]

OverlayChanges(base, visible) ==
  [added |-> visible \ base, removed |-> base \ visible]
=============================================================================
