-------------------------- MODULE ArcanaSyncProofs ---------------------------
(***************************************************************************)
(* Safety of `arcana sync` for any number of processes, Lexicon snapshots, *)
(* publications and faults.                                                *)
(*                                                                         *)
(* The inductive invariant says what each stage of a run already knows: a  *)
(* run past the lock is alone; the publication it read is not older than   *)
(* CURRENT's; the directory it builds does not exist yet, the one it       *)
(* publishes is complete.  Every directory that kept its content is        *)
(* complete, which is what makes removing an incomplete one harmless.      *)
(***************************************************************************)
EXTENDS ArcanaSync, FiniteSetTheorems, TLAPS

-----------------------------------------------------------------------------
(* What file-scoped replacement and overlays compute, for every snapshot.  *)
(* First, owners.                                                          *)

LEMMA NodeOwnerType ==
  ASSUME NEW f \in Facts, NEW n \in f.nodes
  PROVE  NodeOwner(n) \in Path \union {NoPath}
BY DEF Facts, Node, NodeOwner

LEMMA KeyOwnerType ==
  ASSUME NEW f \in Facts, NEW key
  PROVE  KeyOwner(f, key) \in Path \union {NoPath}
<1>1. CASE KeyOwners(f, key) = {}
  BY <1>1 DEF KeyOwner
<1>2. CASE KeyOwners(f, key) # {}
  <2>1. KeyOwner(f, key) \in KeyOwners(f, key)
    BY <1>2 DEF KeyOwner
  <2> QED BY <2>1, NodeOwnerType DEF KeyOwners
<1> QED BY <1>1, <1>2

\* A key owned by a file is owned by that file alone.
LEMMA KeyOwnerUnique ==
  ASSUME NEW f, Partitionable(f), NEW key, NEW p \in KeyOwners(f, key)
  PROVE  KeyOwner(f, key) = p
<1>1. \A q \in KeyOwners(f, key) : q = p
  BY DEF KeyOwners, Partitionable
<1>2. KeyOwner(f, key) \in KeyOwners(f, key)
  BY DEF KeyOwner
<1> QED BY <1>1, <1>2

LEMMA EdgeOwnerType ==
  ASSUME NEW f \in Facts, NEW e \in f.edges
  PROVE  EdgeOwner(f, e) \in Path \union {NoPath}
<1>1. e.span \in Path \union {NoPath}
  BY DEF Facts, EdgeFact
<1> QED BY <1>1, KeyOwnerType DEF EdgeOwner

LEMMA UnresolvedOwnerType ==
  ASSUME NEW f \in Facts, NEW u \in f.unresolved
  PROVE  UnresolvedOwner(f, u) \in Path \union {NoPath}
<1>1. u.span \in Path \union {NoPath}
  BY DEF Facts, Unresolved
<1> QED BY <1>1, KeyOwnerType DEF UnresolvedOwner

-----------------------------------------------------------------------------
(* Types of composed facts                                                 *)

LEMMA FactUnionType ==
  ASSUME NEW S, S \subseteq Facts
  PROVE  FactUnion(S) \in Facts
BY DEF FactUnion, Facts

LEMMA FactsOfType ==
  ASSUME NEW s, IsSnapshot(s)
  PROVE  FactsOf(s) \in Facts
<1>1. SharedObjects(s) \union FileObjects(s) \subseteq Facts
  BY DEF IsSnapshot, SharedObjects, FileObjects
<1> QED BY <1>1, FactUnionType DEF FactsOf

LEMMA ReplaceType ==
  ASSUME NEW base \in Facts, NEW replacement \in Facts, NEW changed
  PROVE  ReplaceChangedFiles(base, replacement, changed) \in Facts
<1>1. \A f \in Facts : \A owners : OwnedBy(f, owners) \in Facts
  BY DEF OwnedBy, Facts
<1> QED BY <1>1, FactUnionType DEF ReplaceChangedFiles

LEMMA ChangedPathsType ==
  ASSUME NEW s, IsSnapshot(s), NEW earlier, IsSnapshot(earlier)
  PROVE  ChangedPaths(s, earlier) \subseteq Path
BY DEF ChangedPaths, IsSnapshot

-----------------------------------------------------------------------------
(* Unchanged files                                                         *)

\* A file whose object is the same in two snapshots.
Unchanged(s, t, path) ==
  \A l \in Language :
    /\ <<l, path>> \in DOMAIN s.files <=> <<l, path>> \in DOMAIN t.files
    /\ <<l, path>> \in DOMAIN s.files =>
         s.files[<<l, path>>] = t.files[<<l, path>>]

LEMMA UnchangedPaths ==
  ASSUME NEW s, IsSnapshot(s), NEW t, IsSnapshot(t),
         NEW path \in Path \ ChangedPaths(s, t)
  PROVE  Unchanged(s, t, path) /\ Unchanged(t, s, path)
<1>1. \A k \in DOMAIN s.files :
        k[2] = path => k \in DOMAIN t.files /\ t.files[k] = s.files[k]
  BY DEF ChangedPaths
<1>2. \A k \in DOMAIN t.files : k[2] = path => k \in DOMAIN s.files
  BY DEF ChangedPaths
<1> QED BY <1>1, <1>2 DEF Unchanged

\* The object an unchanged file's record comes from is in both snapshots.
LEMMA SameFileObject ==
  ASSUME NEW s, IsSnapshot(s), NEW t, NEW path, Unchanged(s, t, path),
         NEW k \in DOMAIN s.files, k[2] = path
  PROVE  s.files[k] \in SharedObjects(t) \union FileObjects(t)
<1>1. PICK l \in Language, q \in Path : k = <<l, q>>
  BY DEF IsSnapshot
<1>2. k = <<l, path>>
  BY <1>1
<1>3. k \in DOMAIN t.files /\ t.files[k] = s.files[k]
  BY <1>2 DEF Unchanged
<1> QED BY <1>3 DEF FileObjects

LEMMA ObjectFacts ==
  ASSUME NEW t, NEW o \in SharedObjects(t) \union FileObjects(t)
  PROVE  /\ o.nodes \subseteq FactsOf(t).nodes
         /\ o.edges \subseteq FactsOf(t).edges
         /\ o.unresolved \subseteq FactsOf(t).unresolved
BY DEF FactsOf, FactUnion

\* Where a record of a snapshot comes from.
LEMMA RecordObject ==
  ASSUME NEW s
  PROVE  /\ \A n \in FactsOf(s).nodes :
              \/ \E o \in SharedObjects(s) : n \in o.nodes
              \/ \E k \in DOMAIN s.files : n \in s.files[k].nodes
         /\ \A e \in FactsOf(s).edges :
              \/ \E o \in SharedObjects(s) : e \in o.edges
              \/ \E k \in DOMAIN s.files : e \in s.files[k].edges
         /\ \A u \in FactsOf(s).unresolved :
              \/ \E o \in SharedObjects(s) : u \in o.unresolved
              \/ \E k \in DOMAIN s.files : u \in s.files[k].unresolved
BY DEF FactsOf, FactUnion, FileObjects

LEMMA NodesStay ==
  ASSUME NEW s, IsSnapshot(s), Aligned(s), NEW t, s.shared = t.shared,
         NEW path \in Path, Unchanged(s, t, path),
         NEW n \in FactsOf(s).nodes, NodeOwner(n) = path
  PROVE  n \in FactsOf(t).nodes
<1>1. CASE \E o \in SharedObjects(s) : n \in o.nodes
  <2>1. SharedObjects(s) = SharedObjects(t)
    BY DEF SharedObjects
  <2> QED BY <1>1, <2>1, ObjectFacts
<1>2. CASE \E k \in DOMAIN s.files : n \in s.files[k].nodes
  <2>1. PICK k \in DOMAIN s.files : n \in s.files[k].nodes
    BY <1>2
  <2>2. NodeOwner(n) \in {k[2], NoPath}
    BY <2>1 DEF Aligned, FileAligned
  <2>3. k[2] = path
    BY <2>2, PathAssumption
  <2> QED BY <2>1, <2>3, SameFileObject, ObjectFacts
<1> QED BY <1>1, <1>2, RecordObject

LEMMA KeysStay ==
  ASSUME NEW s, IsSnapshot(s), Aligned(s), NEW t, s.shared = t.shared,
         Partitionable(FactsOf(t)), NEW path \in Path, Unchanged(s, t, path),
         NEW key, KeyOwner(FactsOf(s), key) = path
  PROVE  KeyOwner(FactsOf(t), key) = path
<1>1. path \in KeyOwners(FactsOf(s), key)
  BY PathAssumption DEF KeyOwner
<1>2. PICK n \in FactsOf(s).nodes : n.key = key /\ NodeOwner(n) = path
  BY <1>1 DEF KeyOwners
<1>3. n \in FactsOf(t).nodes
  BY <1>2, NodesStay
<1>4. path \in KeyOwners(FactsOf(t), key)
  BY <1>2, <1>3, PathAssumption DEF KeyOwners
<1> QED BY <1>4, KeyOwnerUnique

\* The same edge can only be owned by its file or by nobody in the other
\* snapshot, and its owner there is not nobody.
LEMMA EdgesStay ==
  ASSUME NEW s, IsSnapshot(s), Aligned(s),
         NEW t, IsSnapshot(t), Aligned(t), s.shared = t.shared,
         Partitionable(FactsOf(t)), NEW path \in Path, Unchanged(s, t, path),
         NEW e \in FactsOf(s).edges, EdgeOwner(FactsOf(s), e) = path
  PROVE  e \in FactsOf(t).edges /\ EdgeOwner(FactsOf(t), e) = path
<1>1. CASE \E o \in SharedObjects(s) : e \in o.edges
  <2>1. SharedObjects(s) = SharedObjects(t)
    BY DEF SharedObjects
  <2>2. PICK o \in SharedObjects(s) : e \in o.edges
    BY <1>1
  <2>3. e.span = path
    BY <2>2, PathAssumption DEF Aligned, SharedAligned
  <2>4. EdgeOwner(FactsOf(t), e) = path
    BY <2>3, PathAssumption DEF EdgeOwner
  <2> QED BY <2>1, <2>2, <2>4, ObjectFacts
<1>2. CASE \E k \in DOMAIN s.files : e \in s.files[k].edges
  <2>1. PICK k \in DOMAIN s.files : e \in s.files[k].edges
    BY <1>2
  <2>2. EdgeOwner(FactsOf(s), e) \in {k[2], NoPath}
    BY <2>1 DEF Aligned, FileAligned
  <2>3. k[2] = path
    BY <2>2, PathAssumption
  <2>4. PICK l \in Language, q \in Path : k = <<l, q>>
    BY DEF IsSnapshot
  <2>5. k \in DOMAIN t.files /\ e \in t.files[k].edges
    BY <2>1, <2>3, <2>4 DEF Unchanged
  <2>6. e \in FactsOf(t).edges
    BY <2>5, ObjectFacts DEF FileObjects
  <2>7. EdgeOwner(FactsOf(t), e) \in {path, NoPath}
    BY <2>3, <2>5 DEF Aligned, FileAligned
  <2>8. EdgeOwner(FactsOf(t), e) # NoPath
    <3>1. CASE e.span # NoPath
      BY <3>1 DEF EdgeOwner
    <3>2. CASE e.span = NoPath /\ KeyOwner(FactsOf(s), e.source) # NoPath
      <4>1. KeyOwner(FactsOf(s), e.source) = path
        BY <3>2 DEF EdgeOwner
      <4>2. KeyOwner(FactsOf(t), e.source) = path
        BY <4>1, KeysStay
      <4> QED BY <3>2, <4>2, PathAssumption DEF EdgeOwner
    <3>3. CASE e.span = NoPath /\ KeyOwner(FactsOf(s), e.source) = NoPath
      <4>1. KeyOwner(FactsOf(s), e.target) = path
        BY <3>3 DEF EdgeOwner
      <4>2. KeyOwner(FactsOf(t), e.target) = path
        BY <4>1, KeysStay
      <4> QED BY <3>3, <4>2, PathAssumption DEF EdgeOwner
    <3> QED BY <3>1, <3>2, <3>3
  <2> QED BY <2>6, <2>7, <2>8
<1> QED BY <1>1, <1>2, RecordObject

LEMMA UnresolvedStays ==
  ASSUME NEW s, IsSnapshot(s), Aligned(s),
         NEW t, IsSnapshot(t), s.shared = t.shared,
         Partitionable(FactsOf(t)), NEW path \in Path, Unchanged(s, t, path),
         NEW u \in FactsOf(s).unresolved, UnresolvedOwner(FactsOf(s), u) = path
  PROVE  u \in FactsOf(t).unresolved /\ UnresolvedOwner(FactsOf(t), u) = path
<1>1. u \in FactsOf(t).unresolved
  <2>1. CASE \E o \in SharedObjects(s) : u \in o.unresolved
    <3>1. SharedObjects(s) = SharedObjects(t)
      BY DEF SharedObjects
    <3> QED BY <2>1, <3>1, ObjectFacts
  <2>2. CASE \E k \in DOMAIN s.files : u \in s.files[k].unresolved
    <3>1. PICK k \in DOMAIN s.files : u \in s.files[k].unresolved
      BY <2>2
    <3>2. UnresolvedOwner(FactsOf(s), u) \in {k[2], NoPath}
      BY <3>1 DEF Aligned, FileAligned
    <3>3. k[2] = path
      BY <3>2, PathAssumption
    <3> QED BY <3>1, <3>3, SameFileObject, ObjectFacts
  <2> QED BY <2>1, <2>2, RecordObject
<1>2. CASE u.span # NoPath
  BY <1>1, <1>2 DEF UnresolvedOwner
<1>3. CASE u.span = NoPath
  <2>1. KeyOwner(FactsOf(s), u.source) = path
    BY <1>3 DEF UnresolvedOwner
  <2>2. KeyOwner(FactsOf(t), u.source) = path
    BY <2>1, KeysStay
  <2> QED BY <1>1, <1>3, <2>2 DEF UnresolvedOwner
<1> QED BY <1>2, <1>3

-----------------------------------------------------------------------------
(* Replacement                                                             *)

\* Replacing the changed files of one aligned snapshot by those of another
\* with the same shared objects yields exactly the facts of the other: no
\* stale fact survives and none is lost (replace_changed_files, called by
\* write_snapshot with the paths of changed objects).
THEOREM ReplacementExact ==
  ASSUME NEW s, IsSnapshot(s), Aligned(s), Partitionable(FactsOf(s)),
         NEW t, IsSnapshot(t), Aligned(t), Partitionable(FactsOf(t)),
         ~ SharedObjectsChanged(t, s)
  PROVE  ReplaceChangedFiles(FactsOf(s), FactsOf(t), ChangedPaths(t, s))
           = FactsOf(t)
<1> DEFINE changed == ChangedPaths(t, s)
           M == ReplaceChangedFiles(FactsOf(s), FactsOf(t), changed)
           taken == {NoPath} \union changed
           kept == Path \ changed
<1>1. s.shared = t.shared
  BY DEF SharedObjectsChanged
<1>2. \A p \in kept : Unchanged(s, t, p) /\ Unchanged(t, s, p)
  BY UnchangedPaths
<1>3. FactsOf(s) \in Facts /\ FactsOf(t) \in Facts
  BY FactsOfType
<1>4. M.nodes = OwnedBy(FactsOf(t), taken).nodes \union OwnedBy(FactsOf(s), kept).nodes
  BY DEF ReplaceChangedFiles, FactUnion
<1>5. M.edges = OwnedBy(FactsOf(t), taken).edges \union OwnedBy(FactsOf(s), kept).edges
  BY DEF ReplaceChangedFiles, FactUnion
<1>6. M.unresolved = OwnedBy(FactsOf(t), taken).unresolved
                       \union OwnedBy(FactsOf(s), kept).unresolved
  BY DEF ReplaceChangedFiles, FactUnion
<1>7. M.nodes = FactsOf(t).nodes
  <2>1. ASSUME NEW n \in FactsOf(t).nodes  PROVE n \in M.nodes
    <3>1. CASE NodeOwner(n) \in taken
      BY <3>1, <1>4 DEF OwnedBy
    <3>2. CASE NodeOwner(n) \in kept
      <4>1. n \in FactsOf(s).nodes
        BY <3>2, <1>1, <1>2, NodesStay
      <4> QED BY <3>2, <4>1, <1>4 DEF OwnedBy
    <3> QED BY <3>1, <3>2, <1>3, NodeOwnerType
  <2>2. ASSUME NEW n \in M.nodes  PROVE n \in FactsOf(t).nodes
    <3>1. CASE n \in OwnedBy(FactsOf(t), taken).nodes
      BY <3>1 DEF OwnedBy
    <3>2. CASE n \in OwnedBy(FactsOf(s), kept).nodes
      <4>1. n \in FactsOf(s).nodes /\ NodeOwner(n) \in kept
        BY <3>2 DEF OwnedBy
      <4> QED BY <4>1, <1>1, <1>2, NodesStay
    <3> QED BY <2>2, <3>1, <3>2, <1>4
  <2> QED BY <2>1, <2>2
<1>8. M.edges = FactsOf(t).edges
  <2>1. ASSUME NEW e \in FactsOf(t).edges  PROVE e \in M.edges
    <3>1. CASE EdgeOwner(FactsOf(t), e) \in taken
      BY <3>1, <1>5 DEF OwnedBy
    <3>2. CASE EdgeOwner(FactsOf(t), e) \in kept
      <4>1. e \in FactsOf(s).edges /\ EdgeOwner(FactsOf(s), e) \in kept
        BY <3>2, <1>1, <1>2, EdgesStay
      <4> QED BY <4>1, <1>5 DEF OwnedBy
    <3> QED BY <3>1, <3>2, <1>3, EdgeOwnerType
  <2>2. ASSUME NEW e \in M.edges  PROVE e \in FactsOf(t).edges
    <3>1. CASE e \in OwnedBy(FactsOf(t), taken).edges
      BY <3>1 DEF OwnedBy
    <3>2. CASE e \in OwnedBy(FactsOf(s), kept).edges
      <4>1. e \in FactsOf(s).edges /\ EdgeOwner(FactsOf(s), e) \in kept
        BY <3>2 DEF OwnedBy
      <4> QED BY <4>1, <1>1, <1>2, EdgesStay
    <3> QED BY <2>2, <3>1, <3>2, <1>5
  <2> QED BY <2>1, <2>2
<1>9. M.unresolved = FactsOf(t).unresolved
  <2>1. ASSUME NEW u \in FactsOf(t).unresolved  PROVE u \in M.unresolved
    <3>1. CASE UnresolvedOwner(FactsOf(t), u) \in taken
      BY <3>1, <1>6 DEF OwnedBy
    <3>2. CASE UnresolvedOwner(FactsOf(t), u) \in kept
      <4>1. /\ u \in FactsOf(s).unresolved
            /\ UnresolvedOwner(FactsOf(s), u) \in kept
        BY <3>2, <1>1, <1>2, UnresolvedStays
      <4> QED BY <4>1, <1>6 DEF OwnedBy
    <3> QED BY <3>1, <3>2, <1>3, UnresolvedOwnerType
  <2>2. ASSUME NEW u \in M.unresolved  PROVE u \in FactsOf(t).unresolved
    <3>1. CASE u \in OwnedBy(FactsOf(t), taken).unresolved
      BY <3>1 DEF OwnedBy
    <3>2. CASE u \in OwnedBy(FactsOf(s), kept).unresolved
      <4>1. /\ u \in FactsOf(s).unresolved
            /\ UnresolvedOwner(FactsOf(s), u) \in kept
        BY <3>2 DEF OwnedBy
      <4> QED BY <4>1, <1>1, <1>2, UnresolvedStays
    <3> QED BY <2>2, <3>1, <3>2, <1>6
  <2> QED BY <2>1, <2>2
<1>10. M \in Facts
  BY <1>3, ReplaceType
<1> QED BY <1>3, <1>7, <1>8, <1>9, <1>10 DEF Facts

-----------------------------------------------------------------------------
(* Generations                                                             *)

LEMMA LexiconFactsType ==
  ASSUME NEW id \in Id
  PROVE  LexiconFacts[id] \in Facts /\ Compiles(LexiconFacts[id])
<1>1. LexiconFacts[id] = FactsOf(Lexicon[id])
  BY DEF LexiconFacts
<1> QED BY <1>1, LexiconAssumption, FactsOfType DEF Loadable

LEMMA NodeIdsType ==
  ASSUME NEW f \in Facts, NEW k \in Keys(f)
  PROVE  NodeIds(f)[k] \in Nat
<1>1. {j \in Keys(f) : j < k} \subseteq NodeKey
  BY DEF Keys, Facts, Node
<1>2. IsFiniteSet({j \in Keys(f) : j < k})
  BY <1>1, KeyAssumption, FS_Subset
<1>3. Cardinality({j \in Keys(f) : j < k}) \in Nat
  BY <1>2, FS_CardinalityType
<1> QED BY <1>3 DEF NodeIds

LEMMA DatasetType ==
  ASSUME NEW f \in Facts, Compiles(f)
  PROVE  /\ Dataset(f) \in [nodeCount: Nat, edges: SUBSET GraphEdge]
         /\ Dataset(f) = [nodeCount |-> Dataset(f).nodeCount,
                          edges |-> Dataset(f).edges]
<1>1. Keys(f) \subseteq NodeKey
  BY DEF Keys, Facts, Node
<1>2. Cardinality(Keys(f)) \in Nat
  BY <1>1, KeyAssumption, FS_Subset, FS_CardinalityType
<1>3. ASSUME NEW e \in f.edges
      PROVE  [source |-> NodeIds(f)[e.source], target |-> NodeIds(f)[e.target],
              kind |-> e.relation] \in GraphEdge
  <2>1. e.source \in Keys(f) /\ e.target \in Keys(f)
    BY DEF Compiles
  <2>2. NodeIds(f)[e.source] \in Nat /\ NodeIds(f)[e.target] \in Nat
    BY <2>1, NodeIdsType
  <2>3. e.relation \in Relation
    BY DEF Facts, EdgeFact
  <2> QED BY <2>2, <2>3 DEF GraphEdge
<1> QED BY <1>2, <1>3 DEF Dataset

LEMMA GenerationProper ==
  ASSUME NEW g \in Generation
  PROVE  g # Absent /\ g # Torn
BY DirectoryAssumption

\* A full compile of a Lexicon snapshot opens.
LEMMA RebuiltOpens ==
  ASSUME NEW id \in Id
  PROVE  /\ Rebuilt(id) \in Generation
         /\ Opens(Rebuilt(id))
         /\ Rebuilt(id).facts = LexiconFacts[id]
         /\ Rebuilt(id).baseKeys = Keys(Rebuilt(id).facts)
<1> DEFINE f == LexiconFacts[id]
           g == Rebuilt(id)
<1>1. f \in Facts /\ Compiles(f)
  BY LexiconFactsType
<1>2. LexiconGraph[id] = Dataset(f)
  BY DEF LexiconGraph
<1>3. Dataset(f) \in [nodeCount: Nat, edges: SUBSET GraphEdge]
  BY <1>1, DatasetType
<1>4. Keys(f) \subseteq NodeKey
  BY <1>1 DEF Keys, Facts, Node
<1>5. g \in Generation
  BY <1>1, <1>2, <1>3, <1>4 DEF Rebuilt, Generation
<1>6. Visible(g) = Dataset(f)
  <2>1. Visible(g) = [nodeCount |-> Dataset(f).nodeCount,
                      edges |-> Dataset(f).edges]
    BY <1>2 DEF Visible, Rebuilt
  <2> QED BY <2>1, <1>1, DatasetType
<1>7. g.facts = f /\ g.baseKeys = Keys(f)
  BY DEF Rebuilt
<1>8. Opens(g)
  BY <1>1, <1>5, <1>6, <1>7, GenerationProper DEF Opens
<1> QED BY <1>5, <1>7, <1>8

\* A generation with the sidecar written, or removed.
Named(g, id) == [g EXCEPT !.source = id]

LEMMA NamedGeneration ==
  ASSUME NEW g \in Generation, NEW id \in Id \union {NoId}
  PROVE  /\ Named(g, id) \in Generation
         /\ Named(g, id).source = id
         /\ Named(g, id).facts = g.facts
         /\ Named(g, id).baseKeys = g.baseKeys
         /\ Visible(Named(g, id)) = Visible(g)
         /\ Opens(g) => Opens(Named(g, id))
<1> DEFINE h == Named(g, id)
<1>1. h = [source |-> id, facts |-> g.facts, base |-> g.base,
           added |-> g.added, removed |-> g.removed, baseKeys |-> g.baseKeys]
  BY DEF Named, Generation
<1>2. h \in Generation
  BY <1>1 DEF Generation
<1>3. /\ h.source = id /\ h.facts = g.facts /\ h.base = g.base
      /\ h.added = g.added /\ h.removed = g.removed
      /\ h.baseKeys = g.baseKeys
  BY <1>1
<1>4. Visible(h) = Visible(g)
  BY <1>3 DEF Visible
<1>5. Opens(g) => Opens(h)
  BY <1>2, <1>3, <1>4, GenerationProper DEF Opens
<1> QED BY <1>2, <1>3, <1>4, <1>5

\* An accepted plan yields an overlay that opens, over the same node ids.
LEMMA OverlaidOpens ==
  ASSUME NEW id \in Id, NEW prior \in Generation, NEW changed,
         PlanAccepted(prior.facts, LexiconFacts[id], changed, prior.base)
  PROVE  /\ Overlaid(prior, id, changed) \in Generation
         /\ Opens(Overlaid(prior, id, changed))
         /\ Overlaid(prior, id, changed).facts
              = ReplaceChangedFiles(prior.facts, LexiconFacts[id], changed)
         /\ prior.baseKeys = Keys(prior.facts) =>
              Overlaid(prior, id, changed).baseKeys
                = Keys(Overlaid(prior, id, changed).facts)
<1> DEFINE merged == ReplaceChangedFiles(prior.facts, LexiconFacts[id], changed)
           g == Overlaid(prior, id, changed)
           B == prior.base.edges
           V == Dataset(merged).edges
<1>1. prior.facts \in Facts /\ merged \in Facts
  BY ReplaceType, LexiconFactsType DEF Generation
<1>2. /\ Compiles(merged)
      /\ NodeIds(prior.facts) = NodeIds(merged)
      /\ prior.base.nodeCount = Dataset(merged).nodeCount
  BY DEF PlanAccepted
<1>3. Dataset(merged) \in [nodeCount: Nat, edges: SUBSET GraphEdge]
  BY <1>1, <1>2, DatasetType
<1>4. /\ g.facts = merged
      /\ g.source = NoId
      /\ g.base = prior.base
      /\ g.added = V \ B
      /\ g.removed = B \ V
      /\ g.baseKeys = prior.baseKeys
      /\ g = [source |-> NoId, facts |-> merged, base |-> prior.base,
              added |-> V \ B, removed |-> B \ V, baseKeys |-> prior.baseKeys]
  BY DEF Overlaid, OverlayChanges
<1>5. g \in Generation
  <2>1. B \in SUBSET GraphEdge /\ prior.base \in [nodeCount: Nat, edges: SUBSET GraphEdge]
        /\ prior.baseKeys \in SUBSET NodeKey
    BY DEF Generation
  <2>2. V \in SUBSET GraphEdge
    BY <1>3
  <2>3. V \ B \in SUBSET GraphEdge /\ B \ V \in SUBSET GraphEdge
    BY <2>1, <2>2
  <2> HIDE DEF B, V, merged, g
  <2> QED BY <1>1, <1>4, <2>1, <2>3 DEF Generation
<1>6. Visible(g) = Dataset(merged)
  <2>1. (B \ (B \ V)) \union (V \ B) = V
    OBVIOUS
  <2>2. Visible(g) = [nodeCount |-> prior.base.nodeCount,
                      edges |-> (B \ (B \ V)) \union (V \ B)]
    BY <1>4 DEF Visible
  <2> QED BY <2>1, <2>2, <1>1, <1>2, DatasetType
<1>7. Opens(g)
  BY <1>2, <1>4, <1>5, <1>6, GenerationProper DEF Opens
<1>8. Keys(prior.facts) = Keys(merged)
  <2>1. DOMAIN NodeIds(prior.facts) = Keys(prior.facts)
    BY DEF NodeIds
  <2>2. DOMAIN NodeIds(merged) = Keys(merged)
    BY DEF NodeIds
  <2> QED BY <2>1, <2>2, <1>2
<1> QED BY <1>4, <1>5, <1>7, <1>8

-----------------------------------------------------------------------------
(* The inductive invariant                                                 *)

\* The stages in which a run has read Lexicon's CURRENT.
Reading == Stage \ {"idle", "locked"}

\* A run past the lock holds it.
HoldsLock == \A p \in Proc : pc[p] # "idle" => lock = p

\* What a run read is a publication, not older than the one it replaces.
TargetRead ==
  \A p \in Proc :
    pc[p] \in Reading => target[p] \in 1 .. Len(lexLog) /\ currentAt <= target[p]

\* What a run knows of the directory it removes, builds or publishes.
OutputKnown ==
  \A p \in Proc :
    /\ pc[p] = "remove" => ~ Complete(TargetId(p)) \/ TargetId(p) \in misread
    /\ pc[p] \in {"prepare", "write", "sidecar", "rename"} =>
         snapshots[TargetId(p)] = Absent
    /\ pc[p] \in {"publish", "replace"} => Complete(TargetId(p))

\* A written draft opens, and is named by its sidecar before its rename.
DraftWritten ==
  \A p \in Proc :
    /\ pc[p] \in {"sidecar", "rename"} =>
         /\ draft[p] \in Generation
         /\ Opens(draft[p])
         /\ draft[p].baseKeys = Keys(draft[p].facts)
    /\ pc[p] = "rename" => draft[p].source = TargetId(p)

\* A directory that kept its content, except perhaps its sidecar, opens.
DirectoriesWhole ==
  \A id \in Id :
    snapshots[id] \in Generation =>
      /\ Opens(snapshots[id])
      /\ snapshots[id].baseKeys = Keys(snapshots[id].facts)

\* CURRENT holds the id of the publication it was read from.
CurrentPublished ==
  /\ currentAt = 0 => current = NoId
  /\ currentAt > 0 => current = lexLog[currentAt]

SyncInv ==
  /\ TypeOK
  /\ HoldsLock
  /\ TargetRead
  /\ OutputKnown
  /\ DraftWritten
  /\ DirectoriesWhole
  /\ CurrentPublished
  /\ CurrentServed

-----------------------------------------------------------------------------
(* Who moves                                                               *)

LEMMA TargetType ==
  ASSUME TypeOK, TargetRead, NEW p \in Proc, pc[p] \in Reading
  PROVE  TargetId(p) \in Id
<1>1. target[p] \in 1 .. Len(lexLog) /\ lexLog \in Seq(Id)
  BY DEF TargetRead, TypeOK
<1> QED BY <1>1 DEF TargetId

\* While one run moves, every other is idle and stays so.
LEMMA OthersIdle ==
  ASSUME TypeOK, HoldsLock, NEW p \in Proc,
         Run(p) \/ Misread(p) \/ Fail(p) \/ Crash(p),
         NEW q \in Proc, q # p
  PROVE  pc[q] = "idle" /\ pc'[q] = "idle"
<1>1. pc \in [Proc -> Stage] /\ p # NoProc /\ q # NoProc
  BY ProcAssumption DEF TypeOK
<1>2. pc[q] = "idle"
  <2>1. CASE pc[p] = "idle"
    <3>1. Acquire(p)
      BY <2>1 DEF Run, Acquire, ReadLexiconCurrent, LoadLexicon,
        LexiconUnavailable, Inspect, RemoveSome, RemoveOutput, PrepareTemp,
        WriteOverlay,
        WriteRebuild, WriteSidecar, RenameTemp, CreateFileTemp, FileTempExists,
        ReplaceSteps, ReplaceCurrent, ReplaceConsumer, Misread, MisreadOutput,
        MisreadPrevious, Fail, Crash, Step
    <3>2. lock = NoProc
      BY <3>1 DEF Acquire
    <3> QED BY <1>1, <3>2 DEF HoldsLock
  <2>2. CASE pc[p] # "idle"
    BY <1>1, <2>2 DEF HoldsLock
  <2> QED BY <2>1, <2>2
<1>3. pc'[q] = pc[q]
  BY <1>1 DEF Run, Acquire, ReadLexiconCurrent, LoadLexicon,
    LexiconUnavailable, Inspect, RemoveSome, RemoveOutput, PrepareTemp,
    WriteOverlay,
    WriteRebuild, WriteSidecar, RenameTemp, CreateFileTemp, FileTempExists,
    ReplaceSteps, ReplaceCurrent, ReplaceConsumer, Misread, MisreadOutput,
    MisreadPrevious, Fail, Crash, Step, Return
<1> QED BY <1>2, <1>3

-----------------------------------------------------------------------------
(* Each conjunct is preserved                                              *)

LEMMA InitInv ==
  ASSUME Init
  PROVE  SyncInv
<1>1. TypeOK
  <2>1. lexLog \in Seq(Id) /\ currentAt \in 0 .. Len(lexLog)
    BY DEF Init
  <2>2. target \in [Proc -> 0 .. Len(lexLog)]
    BY DEF Init
  <2>3. snapshots \in [Id -> Generation \union {Absent, Torn}]
    BY DEF Init
  <2>4. pc \in [Proc -> Stage] /\ draft \in [Proc -> Generation \union {Absent}]
    BY DEF Init, Stage
  <2>5. lock \in Proc \union {NoProc} /\ current \in Id \union {NoId}
        /\ previous \in [Proc -> Id \union {NoId}] /\ faults \in Nat
    BY DEF Init
  <2>6. /\ lexStore \in SUBSET Id /\ temps \in SUBSET (Id \X Proc)
        /\ fileTemps \in SUBSET (File \X Proc) /\ registered \in BOOLEAN
        /\ unsynced \in SUBSET Id /\ damaged \in SUBSET Id
        /\ misread \in SUBSET Id
    BY DEF Init
  <2> QED BY <2>1, <2>2, <2>3, <2>4, <2>5, <2>6 DEF TypeOK
<1>2. \A p \in Proc : pc[p] = "idle"
  BY DEF Init
<1>3. \A id \in Id : snapshots[id] \notin Generation
  BY DirectoryAssumption DEF Init
<1>4. current = NoId /\ currentAt = 0
  BY DEF Init
<1> QED BY <1>1, <1>2, <1>3, <1>4 DEF SyncInv, HoldsLock, TargetRead, Reading,
          OutputKnown, DraftWritten, DirectoriesWhole, CurrentPublished,
          CurrentServed

LEMMA LockStep ==
  ASSUME TypeOK, HoldsLock, [Next]_vars
  PROVE  HoldsLock'
<1>1. CASE \E p \in Proc : Run(p) \/ Misread(p) \/ Fail(p) \/ Crash(p)
  <2>1. PICK p \in Proc : Run(p) \/ Misread(p) \/ Fail(p) \/ Crash(p)
    BY <1>1
  <2>2. \A q \in Proc : q # p => pc'[q] = "idle"
    BY <2>1, OthersIdle
  <2>3. pc'[p] # "idle" => lock' = p
    BY <2>1 DEF TypeOK, HoldsLock, Run, Acquire, ReadLexiconCurrent,
      LoadLexicon, LexiconUnavailable, Inspect, RemoveSome, RemoveOutput,
      PrepareTemp,
      WriteOverlay, WriteRebuild, WriteSidecar, RenameTemp, CreateFileTemp,
      FileTempExists, ReplaceSteps, ReplaceCurrent, ReplaceConsumer, Misread,
      MisreadOutput,
      MisreadPrevious, Fail, Crash, Step, Return
  <2> QED BY <2>2, <2>3 DEF HoldsLock
<1>2. CASE \E id \in Id : Scan(id) \/ Prune(id) \/ WriteBack(id)
  BY <1>2 DEF HoldsLock, Scan, Prune, WriteBack, runVars
<1>3. CASE PowerFailure
  BY <1>3 DEF HoldsLock, PowerFailure
<1>4. CASE UNCHANGED vars
  BY <1>4 DEF HoldsLock, vars
<1> QED BY <1>1, <1>2, <1>3, <1>4 DEF Next

LEMMA LogStep ==
  ASSUME TypeOK, [Next]_vars
  PROVE  /\ lexLog' \in Seq(Id)
         /\ Len(lexLog) <= Len(lexLog')
         /\ \A i \in 1 .. Len(lexLog) : lexLog'[i] = lexLog[i]
         /\ (\E p \in Proc : pc'[p] # pc[p]) => lexLog' = lexLog
<1>1. CASE \E id \in Id : Scan(id)
  BY <1>1 DEF TypeOK, Scan, runVars
<1>2. CASE ~ \E id \in Id : Scan(id)
  <2>1. lexLog' = lexLog
    BY <1>2 DEF Next, vars, Prune, WriteBack, PowerFailure, Run, Acquire,
      ReadLexiconCurrent, LoadLexicon, LexiconUnavailable, Inspect,
      RemoveSome, RemoveOutput, PrepareTemp, WriteOverlay, WriteRebuild,
      WriteSidecar,
      RenameTemp, CreateFileTemp, FileTempExists, ReplaceCurrent,
      ReplaceConsumer, Misread, MisreadOutput, MisreadPrevious, Fail, Crash,
      lexVars
  <2> QED BY <2>1 DEF TypeOK
<1> QED BY <1>1, <1>2

LEMMA ReturnType ==
  ASSUME TypeOK, NEW p \in Proc, Return(p)
  PROVE  /\ lock' \in Proc \union {NoProc}
         /\ pc' \in [Proc -> Stage]
         /\ target' \in [Proc -> 0 .. Len(lexLog)]
         /\ previous' \in [Proc -> Id \union {NoId}]
         /\ draft' \in [Proc -> Generation \union {Absent}]
<1>1. 0 \in 0 .. Len(lexLog)
  BY DEF TypeOK
<1>2. "idle" \in Stage
  BY DEF Stage
<1> QED BY <1>1, <1>2 DEF TypeOK, Return

LEMMA TypeStep ==
  ASSUME TypeOK, TargetRead, DraftWritten, DirectoriesWhole, [Next]_vars
  PROVE  TypeOK'
<1>1. CASE \E id \in Id : Scan(id) \/ Prune(id) \/ WriteBack(id)
  <2>1. PICK id \in Id : Scan(id) \/ Prune(id) \/ WriteBack(id)
    BY <1>1
  <2>2. CASE Scan(id)
    <3>1. lexLog' \in Seq(Id) /\ Len(lexLog') = Len(lexLog) + 1
      BY <2>2 DEF TypeOK, Scan
    <3>2. 0 .. Len(lexLog) \subseteq 0 .. Len(lexLog')
      BY <3>1 DEF TypeOK
    <3> QED BY <2>2, <3>1, <3>2 DEF TypeOK, Scan, currentVars, diskVars, runVars
  <2>3. CASE Prune(id) \/ WriteBack(id)
    BY <2>3 DEF TypeOK, Prune, WriteBack, lexVars, currentVars, diskVars,
      runVars
  <2> QED BY <2>1, <2>2, <2>3
<1>2. ASSUME NEW p \in Proc, Run(p)
      PROVE  TypeOK'
  <2>1. CASE Acquire(p)
    BY <2>1 DEF TypeOK, Step, Return, Stage, lexVars, currentVars, diskVars,
      runVars, Acquire
  <2>2. CASE ReadLexiconCurrent(p)
    BY <2>2 DEF TypeOK, Step, Return, Stage, lexVars, currentVars, diskVars,
      runVars, ReadLexiconCurrent
  <2>3. CASE LoadLexicon(p)
    BY <2>3 DEF TypeOK, Step, Return, Stage, lexVars, currentVars, diskVars,
      runVars, LoadLexicon
  <2>4. CASE LexiconUnavailable(p)
    BY <2>4 DEF TypeOK, Step, Return, Stage, lexVars, currentVars, diskVars,
      runVars, LexiconUnavailable
  <2>5. CASE Inspect(p)
    BY <2>5 DEF TypeOK, Step, Return, Stage, lexVars, currentVars, diskVars,
      runVars, Inspect
  <2>6. CASE RemoveOutput(p)
    BY <2>6 DEF TypeOK, Step, Return, Stage, lexVars, currentVars, diskVars,
      runVars, RemoveOutput
  <2>16. CASE RemoveSome(p)
    <3> DEFINE id == TargetId(p)
               unnamed == Named(snapshots[id], NoId)
    <3>1. id \in Id
      BY <2>16, TargetType DEF RemoveSome, Reading, Stage
    <3>2. snapshots[id] \in Generation
      BY <2>16, <3>1 DEF TypeOK, RemoveSome
    <3>3. unnamed \in Generation
      BY <3>2, NamedGeneration
    <3>4. PICK left \in {Torn, unnamed} :
            snapshots' = [snapshots EXCEPT ![id] = left]
      BY <2>16 DEF RemoveSome, Named
    <3>5. snapshots' \in [Id -> Generation \union {Absent, Torn}]
      BY <3>3, <3>4 DEF TypeOK
    <3> QED BY <2>16, <3>5 DEF TypeOK, RemoveSome, lexVars, currentVars, runVars
  <2>7. CASE PrepareTemp(p)
    <3>1. TargetId(p) \in Id
      BY <2>7, TargetType DEF PrepareTemp, Step, Reading, Stage
    <3>2. temps' \in SUBSET (Id \X Proc)
      BY <2>7, <3>1 DEF TypeOK, PrepareTemp
    <3> QED BY <2>7, <3>2 DEF TypeOK, PrepareTemp, Step, Stage, lexVars,
              currentVars
  <2>8. CASE WriteOverlay(p)
    <3> DEFINE prior == snapshots[previous[p]]
               changed == ChangedPaths(Lexicon[TargetId(p)], Lexicon[previous[p]])
    <3>1. TargetId(p) \in Id
      BY <2>8, TargetType DEF WriteOverlay, Step, Reading, Stage
    <3>2. prior \in Generation
      BY <2>8 DEF TypeOK, WriteOverlay, OverlayPlanned, Opens
    <3>3. PlanAccepted(prior.facts, LexiconFacts[TargetId(p)], changed, prior.base)
      BY <2>8 DEF WriteOverlay, OverlayPlanned
    <3>4. Overlaid(prior, TargetId(p), changed) \in Generation
      BY <3>1, <3>2, <3>3, OverlaidOpens
    <3>5. draft' = [draft EXCEPT ![p] = Overlaid(prior, TargetId(p), changed)]
      BY <2>8 DEF WriteOverlay
    <3>6. draft' \in [Proc -> Generation \union {Absent}]
      BY <3>4, <3>5 DEF TypeOK
    <3> QED BY <2>8, <3>6 DEF TypeOK, WriteOverlay, Step, Stage, lexVars,
              currentVars, diskVars
  <2>9. CASE WriteRebuild(p)
    <3>1. TargetId(p) \in Id
      BY <2>9, TargetType DEF WriteRebuild, Step, Reading, Stage
    <3>2. Rebuilt(TargetId(p)) \in Generation
      BY <3>1, RebuiltOpens
    <3>3. draft' \in [Proc -> Generation \union {Absent}]
      BY <2>9, <3>2 DEF TypeOK, WriteRebuild
    <3> QED BY <2>9, <3>3 DEF TypeOK, WriteRebuild, Step, Stage, lexVars,
              currentVars, diskVars
  <2>10. CASE WriteSidecar(p)
    <3>1. draft' = [draft EXCEPT ![p] = Named(draft[p], TargetId(p))]
      BY <2>10 DEF WriteSidecar, Named
    <3>2. TargetId(p) \in Id /\ draft[p] \in Generation
      BY <2>10, TargetType DEF WriteSidecar, Step, Reading, Stage, DraftWritten
    <3>3. Named(draft[p], TargetId(p)) \in Generation
      BY <3>2, NamedGeneration
    <3>4. draft' \in [Proc -> Generation \union {Absent}]
      BY <3>1, <3>3 DEF TypeOK
    <3> QED BY <2>10, <3>4 DEF TypeOK, WriteSidecar, Step, Stage, lexVars,
              currentVars, diskVars
  <2>11. CASE RenameTemp(p)
    <3>1. TargetId(p) \in Id /\ draft[p] \in Generation
      BY <2>11, TargetType DEF RenameTemp, Step, Reading, Stage, DraftWritten
    <3>2. /\ snapshots' \in [Id -> Generation \union {Absent, Torn}]
          /\ draft' \in [Proc -> Generation \union {Absent}]
          /\ unsynced' \in SUBSET Id
      BY <2>11, <3>1 DEF TypeOK, RenameTemp
    <3>3. temps' \in SUBSET (Id \X Proc) /\ damaged' \in SUBSET Id
      BY <2>11 DEF TypeOK, RenameTemp
    <3> QED BY <2>11, <3>2, <3>3 DEF TypeOK, RenameTemp, Step, Stage, lexVars,
              currentVars
  <2>12. CASE CreateFileTemp(p)
    <3>1. fileTemps' \in SUBSET (File \X Proc) /\ pc' \in [Proc -> Stage]
      BY <2>12 DEF TypeOK, CreateFileTemp, ReplaceSteps, File, Step, Stage
    <3> QED BY <2>12, <3>1 DEF TypeOK, CreateFileTemp, lexVars, currentVars,
              diskVars
  <2>13. CASE FileTempExists(p)
    BY <2>13 DEF TypeOK, Step, Return, Stage, lexVars, currentVars, diskVars,
      runVars, FileTempExists
  <2>14. CASE ReplaceCurrent(p)
    <3>1. TargetId(p) \in Id /\ target[p] \in 0 .. Len(lexLog)
      BY <2>14, TargetType DEF TypeOK, ReplaceCurrent, Reading, Stage
    <3>2. fileTemps' \in SUBSET (File \X Proc)
      BY <2>14 DEF TypeOK, ReplaceCurrent
    <3>3. current' \in Id \union {NoId} /\ currentAt' \in 0 .. Len(lexLog)
      BY <2>14, <3>1 DEF ReplaceCurrent
    <3>4. /\ lock' \in Proc \union {NoProc}
          /\ pc' \in [Proc -> Stage]
          /\ target' \in [Proc -> 0 .. Len(lexLog)]
          /\ previous' \in [Proc -> Id \union {NoId}]
          /\ draft' \in [Proc -> Generation \union {Absent}]
      BY <2>14, ReturnType DEF TypeOK, ReplaceCurrent, Stage
    <3> QED BY <2>14, <3>2, <3>3, <3>4 DEF TypeOK, ReplaceCurrent, lexVars,
              diskVars
  <2>15. CASE ReplaceConsumer(p)
    BY <2>15 DEF TypeOK, Step, Return, Stage, lexVars, currentVars, diskVars,
      runVars, ReplaceConsumer
  <2> QED BY <1>2, <2>1, <2>2, <2>3, <2>4, <2>5, <2>6, <2>7, <2>8, <2>9,
            <2>10, <2>11, <2>12, <2>13, <2>14, <2>15, <2>16 DEF Run
<1>6. ASSUME NEW p \in Proc, Misread(p)
      PROVE  TypeOK'
  <2>1. TargetId(p) \in Id
    BY <1>6, TargetType DEF Misread, MisreadOutput, MisreadPrevious, Step,
       Reading, Stage
  <2>2. CASE MisreadOutput(p)
    BY <2>1, <2>2 DEF TypeOK, MisreadOutput, Step, Stage, lexVars, currentVars
  <2>3. CASE MisreadPrevious(p)
    <3>1. Rebuilt(TargetId(p)) \in Generation
      BY <2>1, RebuiltOpens
    <3>2. draft' \in [Proc -> Generation \union {Absent}]
      BY <2>3, <3>1 DEF TypeOK, MisreadPrevious
    <3> QED BY <2>3, <3>2 DEF TypeOK, MisreadPrevious, Step, Stage, lexVars,
              currentVars, diskVars
  <2> QED BY <1>6, <2>2, <2>3 DEF Misread
<1>3. ASSUME NEW p \in Proc, Fail(p) \/ Crash(p)
      PROVE  TypeOK'
  <2>1. temps' \in SUBSET (Id \X Proc) /\ fileTemps' \in SUBSET (File \X Proc)
    BY <1>3 DEF TypeOK, Fail, Crash, diskVars
  <2>2. /\ lock' \in Proc \union {NoProc}
        /\ pc' \in [Proc -> Stage]
        /\ target' \in [Proc -> 0 .. Len(lexLog)]
        /\ previous' \in [Proc -> Id \union {NoId}]
        /\ draft' \in [Proc -> Generation \union {Absent}]
    BY <1>3, ReturnType DEF Fail, Crash
  <2>3. faults' \in Nat
    BY <1>3 DEF TypeOK, Fail, Crash
  <2> QED BY <1>3, <2>1, <2>2, <2>3 DEF TypeOK, Fail, Crash, lexVars,
            currentVars, diskVars
<1>4. CASE PowerFailure
  BY <1>4 DEF TypeOK, PowerFailure, Stage, lexVars, currentVars
<1>5. CASE UNCHANGED vars
  BY <1>5 DEF TypeOK, vars
<1> QED BY <1>1, <1>2, <1>3, <1>4, <1>5, <1>6 DEF Next

\* Lexicon only appends, so what a run read keeps its meaning.
LEMMA TargetKept ==
  ASSUME TypeOK, TargetRead, [Next]_vars, NEW p \in Proc, pc[p] \in Reading,
         target'[p] = target[p]
  PROVE  TargetId(p)' = TargetId(p)
<1>1. target[p] \in 1 .. Len(lexLog)
  BY DEF TargetRead
<1> QED BY <1>1, LogStep DEF TargetId

\* Steps outside the runs leave the runs and the directories alone.
LEMMA OutsideStep ==
  ASSUME NEW id \in Id, Scan(id) \/ Prune(id) \/ WriteBack(id)
  PROVE  /\ UNCHANGED <<pc, target, previous, draft, lock, current, currentAt,
                        snapshots, damaged, misread>>
BY DEF Scan, Prune, WriteBack, runVars, diskVars, currentVars

LEMMA TargetStep ==
  ASSUME TypeOK, HoldsLock, TargetRead, [Next]_vars
  PROVE  TargetRead'
<1>1. ASSUME NEW p \in Proc, Run(p) \/ Misread(p) \/ Fail(p) \/ Crash(p)
      PROVE  TargetRead'
  <2>1. \A q \in Proc : q # p => pc'[q] \notin Reading
    BY <1>1, OthersIdle DEF Reading
  <2>2. CASE Acquire(p) \/ Fail(p) \/ Crash(p) \/ LexiconUnavailable(p)
             \/ FileTempExists(p) \/ ReplaceConsumer(p)
    <3>1. pc'[p] \notin Reading
      BY <2>2 DEF TypeOK, Reading, Step, Return, Acquire, Fail, Crash,
        LexiconUnavailable, FileTempExists, ReplaceConsumer
    <3> QED BY <2>1, <3>1 DEF TargetRead
  <2>3. CASE ReadLexiconCurrent(p)
    <3>1. Len(lexLog) > 0
      BY <2>3 DEF TypeOK, ReadLexiconCurrent
    <3>2. target'[p] = Len(lexLog)
      BY <2>3 DEF TypeOK, ReadLexiconCurrent
    <3>3. currentAt' = currentAt /\ currentAt <= Len(lexLog) /\ lexLog' = lexLog
      BY <2>3 DEF TypeOK, ReadLexiconCurrent, currentVars, lexVars
    <3> QED BY <2>1, <3>1, <3>2, <3>3 DEF TypeOK, TargetRead
  <2>4. CASE ReplaceCurrent(p)
    <3>1. target[p] \in 1 .. Len(lexLog)
      BY <2>4 DEF ReplaceCurrent, TargetRead, Reading, Stage
    <3>2. currentAt' = target[p] /\ lexLog' = lexLog
      BY <2>4 DEF ReplaceCurrent, lexVars
    <3>3. pc'[p] \in Reading => target'[p] = target[p]
      BY <2>4 DEF TypeOK, ReplaceCurrent, Return, Reading
    <3> QED BY <2>1, <3>1, <3>2, <3>3 DEF TypeOK, TargetRead
  <2>5. CASE LoadLexicon(p) \/ Inspect(p) \/ RemoveOutput(p) \/ PrepareTemp(p)
             \/ WriteOverlay(p) \/ WriteRebuild(p) \/ WriteSidecar(p)
             \/ RenameTemp(p) \/ CreateFileTemp(p) \/ RemoveSome(p)
             \/ MisreadOutput(p) \/ MisreadPrevious(p)
    <3>1. pc[p] \in Reading
      BY <2>5 DEF LoadLexicon, Inspect, RemoveSome, RemoveOutput, PrepareTemp,
        WriteOverlay, WriteRebuild, WriteSidecar, RenameTemp, CreateFileTemp,
        MisreadOutput, MisreadPrevious, ReplaceSteps, Step, Reading, Stage
    <3>2. UNCHANGED <<target, currentAt, lexLog>>
      BY <2>5 DEF LoadLexicon, Inspect, RemoveSome, RemoveOutput, PrepareTemp,
        WriteOverlay, WriteRebuild, WriteSidecar, RenameTemp, CreateFileTemp,
        MisreadOutput, MisreadPrevious, lexVars, currentVars, runVars
    <3> QED BY <2>1, <3>1, <3>2 DEF TargetRead
  <2> QED BY <1>1, <2>2, <2>3, <2>4, <2>5 DEF Run, Misread
<1>2. CASE \E id \in Id : Scan(id) \/ Prune(id) \/ WriteBack(id)
  <2>1. UNCHANGED <<pc, target, currentAt>>
    BY <1>2, OutsideStep
  <2> QED BY <2>1, LogStep DEF TypeOK, TargetRead
<1>3. CASE PowerFailure
  BY <1>3 DEF PowerFailure, TargetRead, Reading
<1>4. CASE UNCHANGED vars
  BY <1>4 DEF vars, TargetRead
<1> QED BY <1>1, <1>2, <1>3, <1>4 DEF Next

LEMMA DraftStep ==
  ASSUME TypeOK, HoldsLock, TargetRead, DraftWritten, DirectoriesWhole,
         [Next]_vars
  PROVE  DraftWritten'
<1> DEFINE Building == {"sidecar", "rename"}
<1>1. ASSUME NEW p \in Proc, Run(p) \/ Misread(p) \/ Fail(p) \/ Crash(p)
      PROVE  DraftWritten'
  <2>1. \A q \in Proc : q # p => pc'[q] \notin Building
    BY <1>1, OthersIdle
  <2>2. CASE WriteOverlay(p)
    <3> DEFINE prior == snapshots[previous[p]]
               changed == ChangedPaths(Lexicon[TargetId(p)], Lexicon[previous[p]])
               g == Overlaid(prior, TargetId(p), changed)
    <3>1. TargetId(p) \in Id
      BY <2>2, TargetType DEF WriteOverlay, Step, Reading, Stage
    <3>2. prior \in Generation /\ previous[p] \in Id
      BY <2>2 DEF TypeOK, WriteOverlay, OverlayPlanned, Opens
    <3>3. PlanAccepted(prior.facts, LexiconFacts[TargetId(p)], changed, prior.base)
      BY <2>2 DEF WriteOverlay, OverlayPlanned
    <3>4. prior.baseKeys = Keys(prior.facts)
      BY <3>2 DEF DirectoriesWhole
    <3>5. g \in Generation /\ Opens(g) /\ g.baseKeys = Keys(g.facts)
      BY <3>1, <3>2, <3>3, <3>4, OverlaidOpens
    <3>6. draft' = [draft EXCEPT ![p] = g] /\ pc'[p] = "sidecar"
      BY <2>2 DEF TypeOK, WriteOverlay, Step
    <3>7. draft'[p] = g
      BY <3>6 DEF TypeOK
    <3> HIDE DEF g
    <3> QED BY <2>1, <3>5, <3>6, <3>7 DEF DraftWritten
  <2>3. CASE WriteRebuild(p) \/ MisreadPrevious(p)
    <3> DEFINE g == Rebuilt(TargetId(p))
    <3>1. TargetId(p) \in Id
      BY <2>3, TargetType DEF WriteRebuild, MisreadPrevious, Step, Reading,
         Stage
    <3>2. g \in Generation /\ Opens(g) /\ g.baseKeys = Keys(g.facts)
      BY <3>1, RebuiltOpens
    <3>3. draft'[p] = g /\ pc'[p] = "sidecar"
      BY <2>3 DEF TypeOK, WriteRebuild, MisreadPrevious, Step
    <3> HIDE DEF g
    <3> QED BY <2>1, <3>2, <3>3 DEF DraftWritten
  <2>4. CASE WriteSidecar(p)
    <3> DEFINE g == Named(draft[p], TargetId(p))
    <3>1. pc[p] = "sidecar" /\ pc'[p] = "rename"
      BY <2>4 DEF TypeOK, WriteSidecar, Step
    <3>2. TargetId(p) \in Id
      BY <3>1, TargetType DEF Reading, Stage
    <3>3. /\ g \in Generation /\ Opens(g) /\ g.baseKeys = Keys(g.facts)
          /\ g.source = TargetId(p)
      BY <3>1, <3>2, NamedGeneration DEF DraftWritten
    <3>4. draft' = [draft EXCEPT ![p] = g]
      BY <2>4 DEF WriteSidecar, Named
    <3>5. draft'[p] = g
      BY <3>4 DEF TypeOK
    <3>6. target' = target
      BY <2>4 DEF WriteSidecar
    <3>7. TargetId(p)' = TargetId(p)
      BY <3>1, <3>6, TargetKept DEF Reading, Stage
    <3> HIDE DEF g
    <3> QED BY <2>1, <3>1, <3>3, <3>5, <3>7 DEF DraftWritten
  <2>5. CASE pc'[p] \notin Building
    BY <2>1, <2>5 DEF DraftWritten
  <2>6. pc'[p] \in Building =>
          \/ WriteOverlay(p) \/ WriteRebuild(p) \/ MisreadPrevious(p)
          \/ WriteSidecar(p)
    BY <1>1 DEF TypeOK, Run, Acquire, ReadLexiconCurrent, LoadLexicon,
      LexiconUnavailable, Inspect, RemoveSome, RemoveOutput, PrepareTemp,
      RenameTemp, CreateFileTemp, FileTempExists, ReplaceSteps,
      ReplaceCurrent, ReplaceConsumer, Misread, MisreadOutput, Fail, Crash,
      Step, Return, runVars
  <2> QED BY <2>2, <2>3, <2>4, <2>5, <2>6
<1>2. CASE \E id \in Id : Scan(id) \/ Prune(id) \/ WriteBack(id)
  <2>1. UNCHANGED <<pc, target, draft>>
    BY <1>2, OutsideStep
  <2>2. \A p \in Proc : pc[p] = "rename" => TargetId(p)' = TargetId(p)
    BY <2>1, TargetKept DEF Reading, Stage
  <2> QED BY <2>1, <2>2 DEF DraftWritten
<1>3. CASE PowerFailure
  BY <1>3 DEF PowerFailure, DraftWritten
<1>4. CASE UNCHANGED vars
  BY <1>4 DEF vars, DraftWritten, TargetId
<1> QED BY <1>1, <1>2, <1>3, <1>4 DEF Next

\* What remove_dir_all leaves of a directory on the way.
Remains(g) ==
  {Absent, Torn} \union (IF g \in Generation THEN {Named(g, NoId)} ELSE {})

\* A run removes its output directory, or some of it.
Removal(p) ==
  LET id == TargetId(p)
  IN  /\ pc[p] = "remove"
      /\ id \in Id
      /\ ~ Complete(id) \/ id \in misread
      /\ \E left \in Remains(snapshots[id]) :
           snapshots' = [snapshots EXCEPT ![id] = left]
      /\ UNCHANGED <<damaged, misread, target>>

\* What each step does to the directories.
LEMMA DirectoryStep ==
  ASSUME TypeOK, TargetRead, DraftWritten, OutputKnown, [Next]_vars
  PROVE  \/ UNCHANGED <<snapshots, damaged>>
         \/ /\ PowerFailure
            /\ damaged \subseteq damaged'
            /\ \A id \in Id :
                 \/ snapshots'[id] = snapshots[id]
                 \/ id \in damaged' /\ snapshots'[id] \in {Absent, Torn}
         \/ \E p \in Proc : Removal(p)
         \/ \E p \in Proc :
              /\ RenameTemp(p)
              /\ TargetId(p) \in Id
              /\ snapshots[TargetId(p)] = Absent
              /\ draft[p] \in Generation
              /\ snapshots' = [snapshots EXCEPT ![TargetId(p)] = draft[p]]
              /\ damaged' = damaged \ {TargetId(p)}
              /\ target' = target
<1>1. ASSUME NEW p \in Proc, RemoveSome(p) \/ RemoveOutput(p)
      PROVE  Removal(p)
  <2>1. pc[p] = "remove" /\ UNCHANGED <<damaged, misread, target>>
    BY <1>1 DEF RemoveSome, RemoveOutput, Step, runVars
  <2>2. TargetId(p) \in Id
    BY <2>1, TargetType DEF Reading, Stage
  <2>3. ~ Complete(TargetId(p)) \/ TargetId(p) \in misread
    BY <2>1 DEF OutputKnown
  <2>4. \E left \in Remains(snapshots[TargetId(p)]) :
          snapshots' = [snapshots EXCEPT ![TargetId(p)] = left]
    <3>1. CASE RemoveOutput(p)
      BY <3>1 DEF RemoveOutput, Remains
    <3>2. CASE RemoveSome(p)
      <4>1. snapshots[TargetId(p)] \in Generation
        BY <2>2, <3>2 DEF TypeOK, RemoveSome
      <4> QED BY <3>2, <4>1 DEF RemoveSome, Remains, Named
    <3> QED BY <1>1, <3>1, <3>2
  <2> QED BY <2>1, <2>2, <2>3, <2>4 DEF Removal
<1>2. ASSUME NEW p \in Proc, RenameTemp(p)
      PROVE  /\ TargetId(p) \in Id
             /\ snapshots[TargetId(p)] = Absent
             /\ draft[p] \in Generation
             /\ snapshots' = [snapshots EXCEPT ![TargetId(p)] = draft[p]]
             /\ damaged' = damaged \ {TargetId(p)}
             /\ target' = target
  BY <1>2, TargetType DEF RenameTemp, Step, Reading, Stage, OutputKnown,
     DraftWritten
<1>3. ASSUME PowerFailure
      PROVE  /\ damaged \subseteq damaged'
             /\ \A id \in Id :
                  \/ snapshots'[id] = snapshots[id]
                  \/ id \in damaged' /\ snapshots'[id] \in {Absent, Torn}
  <2>1. PICK lost \in SUBSET unsynced, gone \in SUBSET unsynced :
          /\ gone \subseteq lost
          /\ snapshots' = [id \in Id |-> IF id \in gone THEN Absent
                                         ELSE IF id \in lost THEN Torn
                                         ELSE snapshots[id]]
          /\ damaged' = damaged \union lost
    BY <1>3 DEF PowerFailure
  <2> QED BY <2>1
<1>4. ASSUME NEW p \in Proc, Run(p) \/ Misread(p) \/ Fail(p) \/ Crash(p),
             ~ RemoveSome(p), ~ RemoveOutput(p), ~ RenameTemp(p)
      PROVE  UNCHANGED <<snapshots, damaged>>
  BY <1>4 DEF Run, Acquire, ReadLexiconCurrent, LoadLexicon,
    LexiconUnavailable, Inspect, PrepareTemp, WriteOverlay, WriteRebuild,
    WriteSidecar, CreateFileTemp, FileTempExists, ReplaceCurrent,
    ReplaceConsumer, Misread, MisreadOutput, MisreadPrevious, Fail, Crash,
    diskVars
<1>5. ASSUME NEW id \in Id, Scan(id) \/ Prune(id) \/ WriteBack(id)
      PROVE  UNCHANGED <<snapshots, damaged>>
  BY <1>5, OutsideStep
<1>6. CASE UNCHANGED vars
  BY <1>6 DEF vars
<1>7. CASE \E p \in Proc : RemoveSome(p) \/ RemoveOutput(p)
  BY <1>1, <1>7
<1>8. CASE \E p \in Proc : RenameTemp(p)
  BY <1>2, <1>8
<1>9. CASE PowerFailure
  BY <1>3, <1>9
<1>10. CASE /\ \E p \in Proc : Run(p) \/ Misread(p) \/ Fail(p) \/ Crash(p)
            /\ ~ \E p \in Proc :
                   RemoveSome(p) \/ RemoveOutput(p) \/ RenameTemp(p)
  BY <1>4, <1>10
<1>11. CASE \E id \in Id : Scan(id) \/ Prune(id) \/ WriteBack(id)
  BY <1>5, <1>11
<1> QED BY <1>6, <1>7, <1>8, <1>9, <1>10, <1>11 DEF Next

\* The renamed directory is complete.
LEMMA RenamedComplete ==
  ASSUME TypeOK, TargetRead, DraftWritten, NEW p \in Proc, RenameTemp(p)
  PROVE  /\ TargetId(p)' = TargetId(p)
         /\ snapshots'[TargetId(p)] = draft[p]
         /\ Opens(draft[p]) /\ draft[p].source = TargetId(p)
         /\ draft[p].baseKeys = Keys(draft[p].facts)
<1>1. pc[p] = "rename" /\ target' = target /\ lexLog' = lexLog
  BY DEF RenameTemp, Step, lexVars
<1>2. TargetId(p) \in Id /\ TargetId(p)' = TargetId(p)
  BY <1>1, TargetType DEF Reading, Stage, TargetId
<1>3. snapshots'[TargetId(p)] = draft[p]
  BY <1>2 DEF RenameTemp, TypeOK
<1>4. /\ Opens(draft[p]) /\ draft[p].source = TargetId(p)
      /\ draft[p].baseKeys = Keys(draft[p].facts)
  BY <1>1 DEF DraftWritten
<1> QED BY <1>2, <1>3, <1>4

\* A directory that changes and keeps its content was renamed into place, or
\* lost its sidecar.
LEMMA ChangedDirectory ==
  ASSUME SyncInv, [Next]_vars, NEW id \in Id, snapshots'[id] \in Generation,
         snapshots'[id] # snapshots[id]
  PROVE  \/ \E p \in Proc : RenameTemp(p) /\ id = TargetId(p)
         \/ /\ snapshots[id] \in Generation
            /\ snapshots'[id] = Named(snapshots[id], NoId)
<1>1. snapshots'[id] # Absent /\ snapshots'[id] # Torn
  BY GenerationProper
<1>2. ASSUME NEW p \in Proc, Removal(p)
      PROVE  /\ snapshots[id] \in Generation
             /\ snapshots'[id] = Named(snapshots[id], NoId)
  <2>1. PICK left \in Remains(snapshots[TargetId(p)]) :
          snapshots' = [snapshots EXCEPT ![TargetId(p)] = left]
    BY <1>2 DEF Removal
  <2>2. id = TargetId(p) /\ snapshots'[id] = left
    BY <2>1 DEF SyncInv, TypeOK
  <2>3. left \in Remains(snapshots[id]) /\ left # Absent /\ left # Torn
    BY <1>1, <2>1, <2>2
  <2> QED BY <2>2, <2>3 DEF Remains
<1> QED BY <1>1, <1>2, DirectoryStep DEF SyncInv, TypeOK

LEMMA DirectoriesStep ==
  ASSUME SyncInv, [Next]_vars
  PROVE  DirectoriesWhole'
<1> SUFFICES ASSUME NEW id \in Id, snapshots'[id] \in Generation
             PROVE  /\ Opens(snapshots'[id])
                    /\ snapshots'[id].baseKeys = Keys(snapshots'[id].facts)
  BY DEF DirectoriesWhole
<1>1. CASE snapshots'[id] = snapshots[id]
  BY <1>1 DEF SyncInv, DirectoriesWhole
<1>2. CASE \E p \in Proc : RenameTemp(p) /\ id = TargetId(p)
  BY <1>2, RenamedComplete DEF SyncInv
<1>3. CASE /\ snapshots[id] \in Generation
           /\ snapshots'[id] = Named(snapshots[id], NoId)
  BY <1>3, NamedGeneration DEF SyncInv, DirectoriesWhole
<1> QED BY <1>1, <1>2, <1>3, ChangedDirectory

LEMMA OutputStep ==
  ASSUME SyncInv, [Next]_vars
  PROVE  OutputKnown'
<1> DEFINE Known == {"remove", "prepare", "write", "sidecar", "rename",
                     "publish", "replace"}
<1> USE DEF SyncInv
<1>1. ASSUME NEW p \in Proc, Run(p) \/ Misread(p) \/ Fail(p) \/ Crash(p)
      PROVE  OutputKnown'
  <2>1. \A q \in Proc : q # p => pc'[q] \notin Known
    BY <1>1, OthersIdle
  <2>2. CASE Inspect(p)
    <3>1. UNCHANGED <<lexLog, target, snapshots>>
      BY <2>2 DEF Inspect, lexVars, diskVars
    <3>2. pc'[p] = IF Complete(TargetId(p)) THEN "publish"
                   ELSE IF snapshots[TargetId(p)] = Absent THEN "prepare"
                   ELSE "remove"
      BY <2>2 DEF Inspect, TypeOK
    <3> QED BY <2>1, <3>1, <3>2 DEF OutputKnown, TargetId, Complete
  <2>3. CASE RemoveOutput(p)
    <3>1. UNCHANGED <<lexLog, target>> /\ pc'[p] = "prepare"
      BY <2>3 DEF RemoveOutput, Step, lexVars, TypeOK
    <3>2. TargetId(p) \in Id
      BY <2>3, TargetType DEF RemoveOutput, Step, Reading, Stage
    <3>3. snapshots'[TargetId(p)] = Absent
      BY <2>3, <3>2 DEF RemoveOutput, TypeOK
    <3> QED BY <2>1, <3>1, <3>3 DEF OutputKnown, TargetId
  <2>9. CASE RemoveSome(p)
    <3> DEFINE id == TargetId(p)
    <3>1. UNCHANGED <<lexLog, target, pc>> /\ pc[p] = "remove"
      BY <2>9 DEF RemoveSome, lexVars, runVars
    <3>2. id \in Id /\ id # NoId
      BY <3>1, TargetType, IdAssumption DEF Reading, Stage
    <3>3. snapshots[id] \in Generation
      BY <2>9, <3>2 DEF RemoveSome, TypeOK
    <3>4. snapshots'[id] \in {Torn, Named(snapshots[id], NoId)}
      BY <2>9, <3>2 DEF RemoveSome, TypeOK, Named
    <3>5. Named(snapshots[id], NoId).source = NoId
      BY <3>3, NamedGeneration
    <3>6. ~ (Opens(snapshots'[id]) /\ snapshots'[id].source = id)
      BY <3>2, <3>4, <3>5 DEF Opens
    <3> QED BY <2>1, <3>1, <3>6 DEF OutputKnown, TargetId, Complete
  <2>10. CASE MisreadOutput(p)
    <3>1. /\ UNCHANGED <<lexLog, target>> /\ pc'[p] = "remove"
          /\ TargetId(p) \in misread'
      BY <2>10 DEF MisreadOutput, Step, lexVars, TypeOK
    <3> QED BY <2>1, <3>1 DEF OutputKnown, TargetId
  <2>4. CASE RenameTemp(p)
    <3>1. pc'[p] = "publish"
      BY <2>4 DEF RenameTemp, Step, TypeOK
    <3> QED BY <2>1, <2>4, <3>1, RenamedComplete DEF OutputKnown, Complete
  <2>5. CASE PrepareTemp(p) \/ WriteOverlay(p) \/ WriteRebuild(p)
             \/ MisreadPrevious(p) \/ WriteSidecar(p)
    <3>1. UNCHANGED <<lexLog, target, snapshots>>
      BY <2>5 DEF PrepareTemp, WriteOverlay, WriteRebuild, MisreadPrevious,
        WriteSidecar, lexVars, diskVars
    <3>2. /\ pc[p] \in {"prepare", "write", "sidecar"}
          /\ pc'[p] \in {"write", "sidecar", "rename"}
      BY <2>5 DEF PrepareTemp, WriteOverlay, WriteRebuild, MisreadPrevious,
        WriteSidecar, Step, TypeOK
    <3> QED BY <2>1, <3>1, <3>2 DEF OutputKnown, TargetId
  <2>6. CASE CreateFileTemp(p)
    <3>1. UNCHANGED <<lexLog, target, snapshots>>
      BY <2>6 DEF CreateFileTemp, lexVars, diskVars
    <3>2. pc'[p] \in Known => pc[p] = "publish" /\ pc'[p] = "replace"
      BY <2>6 DEF CreateFileTemp, ReplaceSteps, Step, TypeOK
    <3> QED BY <2>1, <3>1, <3>2 DEF OutputKnown, TargetId, Complete
  <2>7. pc'[p] \in Known =>
          \/ Inspect(p) \/ RemoveSome(p) \/ RemoveOutput(p) \/ PrepareTemp(p)
          \/ WriteOverlay(p) \/ WriteRebuild(p) \/ WriteSidecar(p)
          \/ RenameTemp(p) \/ CreateFileTemp(p) \/ Misread(p)
    BY <1>1 DEF TypeOK, Run, Acquire, ReadLexiconCurrent, LoadLexicon,
      LexiconUnavailable, FileTempExists, ReplaceCurrent, ReplaceConsumer,
      Fail, Crash, Step, Return
  <2>8. CASE pc'[p] \notin Known
    BY <2>1, <2>8 DEF OutputKnown
  <2> QED BY <2>2, <2>3, <2>4, <2>5, <2>6, <2>7, <2>8, <2>9, <2>10 DEF Misread
<1>2. CASE \E id \in Id : Scan(id) \/ Prune(id) \/ WriteBack(id)
  <2>1. UNCHANGED <<pc, target, snapshots, misread>>
    BY <1>2, OutsideStep
  <2>2. \A p \in Proc : pc[p] \in Known => TargetId(p)' = TargetId(p)
    BY <2>1, TargetKept DEF Reading, Stage
  <2> QED BY <2>1, <2>2 DEF OutputKnown, Complete
<1>3. CASE PowerFailure
  BY <1>3 DEF PowerFailure, OutputKnown
<1>4. CASE UNCHANGED vars
  BY <1>4 DEF vars, OutputKnown, TargetId, Complete
<1> QED BY <1>1, <1>2, <1>3, <1>4 DEF Next

\* What each step does to CURRENT.
LEMMA CurrentStep ==
  ASSUME SyncInv, [Next]_vars
  PROVE  \/ UNCHANGED <<current, currentAt>>
         \/ \E p \in Proc :
              /\ ReplaceCurrent(p)
              /\ lock = p
              /\ current' = TargetId(p)
              /\ currentAt' = target[p]
              /\ target[p] \in 1 .. Len(lexLog)
              /\ currentAt <= target[p]
              /\ TargetId(p) \in Id
              /\ Complete(TargetId(p))
              /\ UNCHANGED <<lexLog, snapshots, damaged>>
<1>1. ASSUME NEW p \in Proc, ReplaceCurrent(p)
      PROVE  /\ lock = p
             /\ current' = TargetId(p)
             /\ currentAt' = target[p]
             /\ target[p] \in 1 .. Len(lexLog)
             /\ currentAt <= target[p]
             /\ TargetId(p) \in Id
             /\ Complete(TargetId(p))
             /\ UNCHANGED <<lexLog, snapshots, damaged>>
  <2>1. pc[p] = "replace"
    BY <1>1 DEF ReplaceCurrent
  <2>2. /\ lock = p /\ target[p] \in 1 .. Len(lexLog) /\ currentAt <= target[p]
        /\ TargetId(p) \in Id /\ Complete(TargetId(p))
    BY <2>1, TargetType DEF SyncInv, HoldsLock, TargetRead, OutputKnown,
       Reading, Stage
  <2> QED BY <1>1, <2>1, <2>2 DEF ReplaceCurrent, lexVars, diskVars
<1>2. ASSUME NEW p \in Proc, Run(p) \/ Misread(p) \/ Fail(p) \/ Crash(p),
             ~ ReplaceCurrent(p)
      PROVE  UNCHANGED <<current, currentAt>>
  BY <1>2 DEF Run, Acquire, ReadLexiconCurrent, LoadLexicon,
    LexiconUnavailable, Inspect, RemoveSome, RemoveOutput, PrepareTemp,
    WriteOverlay,
    WriteRebuild, WriteSidecar, RenameTemp, CreateFileTemp, FileTempExists,
    ReplaceConsumer, Misread, MisreadOutput, MisreadPrevious, Fail, Crash,
    currentVars
<1>3. CASE \E id \in Id : Scan(id) \/ Prune(id) \/ WriteBack(id)
  BY <1>3, OutsideStep
<1>4. CASE PowerFailure \/ UNCHANGED vars
  BY <1>4 DEF PowerFailure, vars, currentVars
<1>5. CASE \E p \in Proc : ReplaceCurrent(p)
  BY <1>1, <1>5
<1>6. CASE /\ \E p \in Proc : Run(p) \/ Misread(p) \/ Fail(p) \/ Crash(p)
           /\ ~ \E p \in Proc : ReplaceCurrent(p)
  BY <1>2, <1>6
<1> QED BY <1>3, <1>4, <1>5, <1>6 DEF Next

LEMMA CurrentPublishedStep ==
  ASSUME SyncInv, [Next]_vars
  PROVE  CurrentPublished'
<1>1. CASE UNCHANGED <<current, currentAt>>
  <2>1. currentAt > 0 => lexLog'[currentAt] = lexLog[currentAt]
    BY LogStep DEF SyncInv, TypeOK
  <2> QED BY <1>1, <2>1 DEF SyncInv, CurrentPublished
<1>2. CASE ~ UNCHANGED <<current, currentAt>>
  <2>1. PICK p \in Proc :
          /\ current' = TargetId(p) /\ currentAt' = target[p]
          /\ target[p] \in 1 .. Len(lexLog) /\ UNCHANGED lexLog
    BY <1>2, CurrentStep
  <2> QED BY <2>1 DEF CurrentPublished, TargetId
<1> QED BY <1>1, <1>2

\* A directory that was taken for incomplete stays marked until it is rebuilt
\* or found whole.
LEMMA MisreadStep ==
  ASSUME [Next]_vars, NEW id \in misread, id \notin misread'
  PROVE  \/ \E p \in Proc : RenameTemp(p) /\ TargetId(p) = id
         \/ Complete(id) /\ UNCHANGED <<snapshots, damaged>>
<1>1. ASSUME NEW p \in Proc, Run(p) \/ Misread(p) \/ Fail(p) \/ Crash(p)
      PROVE  \/ RenameTemp(p) /\ TargetId(p) = id
             \/ Complete(id) /\ UNCHANGED <<snapshots, damaged>>
  <2>1. CASE RenameTemp(p)
    BY <2>1 DEF RenameTemp
  <2>2. CASE Inspect(p)
    BY <2>2 DEF Inspect
  <2>3. CASE ~ RenameTemp(p) /\ ~ Inspect(p)
    BY <1>1, <2>3 DEF Run, Acquire, ReadLexiconCurrent, LoadLexicon,
      LexiconUnavailable, RemoveSome, RemoveOutput, PrepareTemp, WriteOverlay,
      WriteRebuild, WriteSidecar, CreateFileTemp, FileTempExists,
      ReplaceCurrent, ReplaceConsumer, Misread, MisreadOutput,
      MisreadPrevious, Fail, Crash, diskVars
  <2> QED BY <2>1, <2>2, <2>3
<1>2. ASSUME NEW i \in Id, Scan(i) \/ Prune(i) \/ WriteBack(i)
      PROVE  FALSE
  BY <1>2, OutsideStep
<1>3. CASE PowerFailure \/ UNCHANGED vars
  BY <1>3 DEF PowerFailure, vars
<1> QED BY <1>1, <1>2, <1>3 DEF Next

LEMMA CurrentServedStep ==
  ASSUME SyncInv, [Next]_vars
  PROVE  CurrentServed'
<1> SUFFICES ASSUME current' # NoId, current' \notin damaged',
                    current' \notin misread'
             PROVE  /\ Opens(snapshots'[current'])
                    /\ snapshots'[current'].source = current'
  BY DEF CurrentServed, Complete
<1>1. CASE UNCHANGED <<current, currentAt>>
  <2>1. current \in Id
    BY <1>1 DEF SyncInv, TypeOK
  <2>2. CASE \E p \in Proc : RenameTemp(p) /\ TargetId(p) = current
    BY <1>1, <2>2, RenamedComplete DEF SyncInv
  <2>3. CASE ~ \E p \in Proc : RenameTemp(p) /\ TargetId(p) = current
    <3>1. current \notin damaged
      BY <1>1, <2>1, <2>3, DirectoryStep DEF SyncInv, Removal
    <3>2. CASE current \in misread
      <4>1. Complete(current) /\ UNCHANGED snapshots
        BY <1>1, <2>3, <3>2, MisreadStep
      <4> QED BY <1>1, <4>1 DEF Complete
    <3>3. CASE current \notin misread
      <4>1. Complete(current)
        BY <1>1, <3>1, <3>3 DEF SyncInv, CurrentServed
      <4>2. \A p \in Proc : Removal(p) => TargetId(p) # current
        BY <3>3, <4>1 DEF Removal
      <4>3. snapshots'[current] = snapshots[current]
        BY <1>1, <2>1, <2>3, <4>2, DirectoryStep DEF SyncInv, TypeOK, Removal
      <4> QED BY <1>1, <4>1, <4>3 DEF Complete
    <3> QED BY <3>2, <3>3
  <2> QED BY <2>2, <2>3
<1>2. CASE ~ UNCHANGED <<current, currentAt>>
  <2>1. PICK p \in Proc : current' = TargetId(p) /\ Complete(TargetId(p))
                          /\ UNCHANGED snapshots
    BY <1>2, CurrentStep
  <2> QED BY <2>1 DEF Complete
<1> QED BY <1>1, <1>2

-----------------------------------------------------------------------------
(* Theorems                                                                *)

LEMMA SyncInvStep ==
  ASSUME SyncInv, [Next]_vars
  PROVE  SyncInv'
<1>1. TypeOK' /\ HoldsLock' /\ TargetRead' /\ DraftWritten'
  BY TypeStep, LockStep, TargetStep, DraftStep DEF SyncInv
<1>2. OutputKnown' /\ DirectoriesWhole' /\ CurrentPublished' /\ CurrentServed'
  BY OutputStep, DirectoriesStep, CurrentPublishedStep, CurrentServedStep
<1> QED BY <1>1, <1>2 DEF SyncInv

\* The inductive invariant holds in every state of every instance.
THEOREM SyncInvariant == Spec => []SyncInv
<1>1. Init => SyncInv
  BY InitInv
<1>2. SyncInv /\ [Next]_vars => SyncInv'
  BY SyncInvStep
<1> QED BY <1>1, <1>2, PTL DEF Spec

\* Every variable keeps its type, in particular what a run read is a
\* publication of Lexicon (the values run_sync passes between its steps).
THEOREM TypeCorrect == Spec => []TypeOK
<1>1. SyncInv => TypeOK
  BY DEF SyncInv
<1> QED BY <1>1, SyncInvariant, PTL

\* CURRENT always names a snapshot that opens, unless a power failure hit
\* that snapshot's directory or an inspection of it met an error (run_sync's
\* order of steps).
THEOREM CurrentAlwaysServed == Spec => []CurrentServed
<1>1. SyncInv => CurrentServed
  BY DEF SyncInv
<1> QED BY <1>1, SyncInvariant, PTL

\* However many overlays were laid over one packed base, the facts' nodes are
\* those the base was packed for (plan_file_update's NodeSetChanged).
THEOREM NodeIdsKept == Spec => []OverlayKeepsNodeIds
<1>1. SyncInv => OverlayKeepsNodeIds
  BY DEF SyncInv, TypeOK, DirectoriesWhole, OverlayKeepsNodeIds
<1> QED BY <1>1, SyncInvariant, PTL

\* CURRENT never returns to an older publication of Lexicon (the lock is taken
\* before Lexicon's CURRENT is read).
THEOREM CurrentNeverBackwards == Spec => NeverBackwards
<1>1. SyncInv /\ [Next]_vars => [currentAt' >= currentAt]_vars
  <2> SUFFICES ASSUME SyncInv, [Next]_vars
               PROVE  currentAt' >= currentAt
    OBVIOUS
  <2>1. currentAt \in Nat
    BY DEF SyncInv, TypeOK
  <2> QED BY <2>1, CurrentStep
<1> QED BY <1>1, SyncInvariant, PTL DEF Spec, NeverBackwards

\* A snapshot that opens is never rewritten, and removed by a sync only if
\* that sync's own inspection of it met an error (remove_dir_all is reached
\* only past complete_snapshot).
THEOREM SnapshotsImmutable == Spec => CompleteSnapshotsImmutable
<1>1. SyncInv /\ [Next]_vars =>
        [\A id \in Id :
           Complete(id) /\ snapshots'[id] # snapshots[id] =>
             \/ id \in damaged'
             \/ /\ id \in misread
                /\ \E p \in Proc : pc[p] = "remove" /\ TargetId(p) = id]_vars
  <2> SUFFICES ASSUME SyncInv, [Next]_vars, NEW id \in Id, Complete(id),
                      snapshots'[id] # snapshots[id], id \notin damaged'
               PROVE  /\ id \in misread
                      /\ \E p \in Proc : pc[p] = "remove" /\ TargetId(p) = id
    OBVIOUS
  <2>1. snapshots[id] # Absent
    BY DEF Complete, Opens
  <2>2. PICK p \in Proc : Removal(p)
    BY <2>1, DirectoryStep DEF SyncInv, TypeOK
  <2>3. TargetId(p) = id
    BY <2>2 DEF SyncInv, TypeOK, Removal
  <2> QED BY <2>2, <2>3 DEF Removal
<1> QED BY <1>1, SyncInvariant, PTL DEF Spec, CompleteSnapshotsImmutable

\* CURRENT is replaced under the lock, by the id of a snapshot that opens
\* (publish_current comes after the rename and the check).
THEOREM CurrentReplacedAfterVerified == Spec => ReplacedAfterVerified
<1>1. SyncInv /\ [Next]_vars =>
        [current' # current => lock # NoProc /\ Complete(current')]_vars
  <2> SUFFICES ASSUME SyncInv, [Next]_vars, current' # current
               PROVE  /\ lock # NoProc
                      /\ Opens(snapshots[current'])
                      /\ snapshots[current'].source = current'
    BY DEF Complete
  <2>1. PICK p \in Proc : lock = p /\ current' = TargetId(p)
                          /\ Complete(TargetId(p))
    BY CurrentStep
  <2> QED BY <2>1, ProcAssumption DEF Complete
<1> QED BY <1>1, SyncInvariant, PTL DEF Spec, ReplacedAfterVerified

-----------------------------------------------------------------------------
(* Content                                                                 *)

\* Every snapshot Lexicon publishes follows the ownership convention.
Conventional == \A id \in Id : Aligned(Lexicon[id])

\* Published and drafted facts are those of the Lexicon snapshot.
FactsExact ==
  /\ \A id \in Id :
       snapshots[id] \in Generation => snapshots[id].facts = LexiconFacts[id]
  /\ \A p \in Proc :
       pc[p] \in {"sidecar", "rename"} =>
         draft[p].facts = LexiconFacts[TargetId(p)]

\* The facts an accepted overlay merges are those of the new snapshot.
LEMMA OverlayExact ==
  ASSUME Conventional, SyncInv, FactsExact, NEW p \in Proc, WriteOverlay(p)
  PROVE  draft'[p].facts = LexiconFacts[TargetId(p)]
<1> DEFINE id == TargetId(p)
           old == previous[p]
           changed == ChangedPaths(Lexicon[id], Lexicon[old])
<1>1. id \in Id
  BY TargetType DEF SyncInv, WriteOverlay, Step, Reading, Stage
<1>2. old \in Id /\ snapshots[old] \in Generation
  BY DEF SyncInv, TypeOK, WriteOverlay, OverlayPlanned, Opens
<1>3. snapshots[old].facts = FactsOf(Lexicon[old])
  BY <1>2 DEF FactsExact, LexiconFacts
<1>4. LexiconFacts[id] = FactsOf(Lexicon[id])
  BY <1>1 DEF LexiconFacts
<1>5. /\ ~ SharedObjectsChanged(Lexicon[id], Lexicon[old])
      /\ PlanAccepted(snapshots[old].facts, LexiconFacts[id], changed,
                      snapshots[old].base)
  BY DEF WriteOverlay, OverlayPlanned
<1>6. Partitionable(FactsOf(Lexicon[old])) /\ Partitionable(FactsOf(Lexicon[id]))
  BY <1>3, <1>4, <1>5 DEF PlanAccepted
<1>7. /\ IsSnapshot(Lexicon[old]) /\ IsSnapshot(Lexicon[id])
      /\ Aligned(Lexicon[old]) /\ Aligned(Lexicon[id])
  BY <1>1, <1>2, LexiconAssumption DEF Conventional
<1>8. ReplaceChangedFiles(snapshots[old].facts, LexiconFacts[id], changed)
        = LexiconFacts[id]
  BY <1>3, <1>4, <1>5, <1>6, <1>7, ReplacementExact
<1>9. Overlaid(snapshots[old], id, changed).facts = LexiconFacts[id]
  BY <1>1, <1>2, <1>5, <1>8, OverlaidOpens
<1>10. draft'[p] = Overlaid(snapshots[old], id, changed)
  BY DEF SyncInv, TypeOK, WriteOverlay
<1> QED BY <1>9, <1>10

LEMMA FactsExactStep ==
  ASSUME Conventional, SyncInv, FactsExact, [Next]_vars
  PROVE  FactsExact'
<1> DEFINE Building == {"sidecar", "rename"}
<1>1. ASSUME NEW id \in Id, snapshots'[id] \in Generation
      PROVE  snapshots'[id].facts = LexiconFacts[id]
  <2>1. CASE snapshots'[id] = snapshots[id]
    BY <1>1, <2>1 DEF FactsExact
  <2>2. CASE snapshots'[id] # snapshots[id]
    <3>1. CASE \E p \in Proc : RenameTemp(p) /\ id = TargetId(p)
      <4>1. PICK p \in Proc : RenameTemp(p) /\ id = TargetId(p)
        BY <3>1
      <4>2. pc[p] = "rename"
        BY <4>1 DEF RenameTemp, Step
      <4> QED BY <4>1, <4>2, RenamedComplete DEF SyncInv, FactsExact
    <3>2. CASE /\ snapshots[id] \in Generation
               /\ snapshots'[id] = Named(snapshots[id], NoId)
      BY <3>2, NamedGeneration DEF FactsExact
    <3> QED BY <1>1, <2>2, <3>1, <3>2, ChangedDirectory
  <2> QED BY <2>1, <2>2
<1>2. ASSUME NEW p \in Proc, Run(p) \/ Misread(p) \/ Fail(p) \/ Crash(p),
             NEW q \in Proc, pc'[q] \in Building
      PROVE  draft'[q].facts = LexiconFacts[TargetId(q)']
  <2>1. q = p
    BY <1>2, OthersIdle DEF SyncInv
  <2>2. \/ WriteOverlay(p) \/ WriteRebuild(p) \/ MisreadPrevious(p)
        \/ WriteSidecar(p)
    BY <1>2, <2>1 DEF SyncInv, TypeOK, Run, Acquire, ReadLexiconCurrent,
      LoadLexicon, LexiconUnavailable, Inspect, RemoveSome, RemoveOutput,
      PrepareTemp, RenameTemp, CreateFileTemp, FileTempExists, ReplaceSteps,
      ReplaceCurrent, ReplaceConsumer, Misread, MisreadOutput, Fail, Crash,
      Step, Return, runVars
  <2>3. pc[p] \in {"write", "sidecar"} /\ UNCHANGED <<target, lexLog>>
    BY <2>2 DEF WriteOverlay, WriteRebuild, MisreadPrevious, WriteSidecar,
       Step, lexVars
  <2>4. TargetId(p)' = TargetId(p) /\ TargetId(p) \in Id
    BY <2>3, TargetType DEF SyncInv, TargetId, Reading, Stage
  <2>5. CASE WriteOverlay(p)
    BY <2>1, <2>4, <2>5, OverlayExact
  <2>6. CASE WriteRebuild(p) \/ MisreadPrevious(p)
    <3>1. draft'[p] = Rebuilt(TargetId(p))
      BY <2>6 DEF SyncInv, TypeOK, WriteRebuild, MisreadPrevious
    <3> QED BY <2>1, <2>4, <3>1, RebuiltOpens
  <2>7. CASE WriteSidecar(p)
    <3>1. pc[p] = "sidecar"
      BY <2>7 DEF WriteSidecar, Step
    <3>2. draft[p] \in Generation /\ draft[p].facts = LexiconFacts[TargetId(p)]
      BY <3>1 DEF SyncInv, DraftWritten, FactsExact
    <3>3. draft'[p] = Named(draft[p], TargetId(p))
      BY <2>7 DEF SyncInv, TypeOK, WriteSidecar, Named
    <3> QED BY <2>1, <2>4, <3>2, <3>3, NamedGeneration
  <2> QED BY <2>2, <2>5, <2>6, <2>7
<1>3. ASSUME UNCHANGED <<pc, target, draft>>, NEW q \in Proc,
             pc'[q] \in Building
      PROVE  draft'[q].facts = LexiconFacts[TargetId(q)']
  <2>1. pc[q] \in Building
    BY <1>3
  <2>2. TargetId(q)' = TargetId(q)
    BY <1>3, <2>1, TargetKept DEF SyncInv, Reading, Stage
  <2> QED BY <1>3, <2>1, <2>2 DEF FactsExact
<1>4. \/ \E p \in Proc : Run(p) \/ Misread(p) \/ Fail(p) \/ Crash(p)
      \/ UNCHANGED <<pc, target, draft>>
      \/ \A q \in Proc : pc'[q] \notin Building
  BY OutsideStep DEF Next, PowerFailure, vars
<1>5. \A q \in Proc :
        pc'[q] \in Building => draft'[q].facts = LexiconFacts[TargetId(q)']
  BY <1>2, <1>3, <1>4
<1> QED BY <1>1, <1>5 DEF FactsExact

\* When Lexicon's objects follow the ownership convention, every published
\* directory holds exactly its snapshot's facts and graph, after any chain of
\* overlays, rebuilds, failures and crashes (write_snapshot).
THEOREM ContentExact ==
  ASSUME Conventional
  PROVE  Spec => []ContentMatchesLexicon
<1>1. Init => FactsExact
  BY DirectoryAssumption DEF Init, FactsExact
<1>2. SyncInv /\ FactsExact /\ [Next]_vars => FactsExact'
  BY FactsExactStep
<1>3. SyncInv /\ FactsExact => ContentMatchesLexicon
  <2> SUFFICES ASSUME SyncInv, FactsExact, NEW id \in Id,
                      snapshots[id] \notin {Absent, Torn}
               PROVE  /\ snapshots[id].facts = LexiconFacts[id]
                      /\ Visible(snapshots[id]) = LexiconGraph[id]
    BY DEF ContentMatchesLexicon
  <2>1. snapshots[id] \in Generation
    BY DEF SyncInv, TypeOK
  <2>2. snapshots[id].facts = LexiconFacts[id]
    BY <2>1 DEF FactsExact
  <2>3. Dataset(snapshots[id].facts) = Visible(snapshots[id])
    BY <2>1 DEF SyncInv, DirectoriesWhole, Complete, Opens
  <2> QED BY <2>2, <2>3 DEF LexiconGraph
<1> QED BY <1>1, <1>2, <1>3, SyncInvariant, PTL DEF Spec

-----------------------------------------------------------------------------
(* Implementation of the promise                                           *)

\* What opening CURRENT yields; the refinement mapping's answer.
Answer ==
  IF current = NoId THEN NoId
  ELSE IF Complete(current) THEN Visible(snapshots[current])
  ELSE Torn

LEMMA AnswerMeaning ==
  ASSUME SyncInv, FactsExact, current # NoId
  PROVE  /\ current \in Id
         /\ currentAt \in 1 .. Len(lexLog)
         /\ current = lexLog[currentAt]
         /\ Complete(current) => Answer = LexiconGraph[lexLog[currentAt]]
         /\ ~ Complete(current) => Answer = Torn
<1>1. current \in Id /\ currentAt \in 0 .. Len(lexLog)
  BY DEF SyncInv, TypeOK
<1>2. currentAt \in 1 .. Len(lexLog) /\ current = lexLog[currentAt]
  BY <1>1 DEF SyncInv, CurrentPublished
<1>3. ASSUME Complete(current)
      PROVE  Visible(snapshots[current]) = LexiconGraph[current]
  <2>1. Opens(snapshots[current]) /\ snapshots[current] \in Generation
    BY <1>1, <1>3 DEF SyncInv, TypeOK, Complete, Opens
  <2>2. snapshots[current].facts = LexiconFacts[current]
    BY <1>1, <2>1 DEF FactsExact
  <2> QED BY <1>1, <2>1, <2>2 DEF Opens, LexiconGraph
<1> QED BY <1>1, <1>2, <1>3 DEF Answer

\* A step that leaves the log and CURRENT alone stutters, serves the same
\* publication again, or loses it.
LEMMA SamePublicationStep ==
  ASSUME SyncInv, FactsExact, SyncInv', FactsExact', [Next]_vars,
         UNCHANGED <<lexLog, current, currentAt>>
  PROVE  \/ Answer' = Answer
         \/ Answer' = Torn /\ currentAt > 0
         \/ /\ currentAt \in 1 .. Len(lexLog)
            /\ Answer' = LexiconGraph[lexLog[currentAt]]
<1>1. CASE current = NoId
  BY <1>1 DEF Answer
<1>2. CASE current # NoId
  <2>1. current \in Id /\ currentAt \in 1 .. Len(lexLog)
    BY <1>2, AnswerMeaning
  <2>2. CASE Complete(current)'
    <3>1. Answer' = Visible(snapshots'[current])
      BY <1>2, <2>2 DEF Answer
    <3>2. /\ snapshots'[current] \in Generation
          /\ Opens(snapshots'[current])
      BY <2>1, <2>2 DEF SyncInv, TypeOK, Complete, Opens
    <3>3. snapshots'[current].facts = LexiconFacts[current]
      BY <2>1, <3>2 DEF FactsExact
    <3>4. Answer' = LexiconGraph[current]
      BY <2>1, <3>1, <3>2, <3>3 DEF Opens, LexiconGraph
    <3>5. current = lexLog[currentAt]
      BY <1>2, AnswerMeaning
    <3> QED BY <2>1, <3>4, <3>5
  <2>3. CASE ~ Complete(current)'
    <3>1. Answer' = Torn
      BY <1>2, <2>3 DEF Answer
    <3> QED BY <2>1, <3>1
  <2> QED BY <2>2, <2>3
<1> QED BY <1>1, <1>2

LEMMA PromiseStep ==
  ASSUME SyncInv, FactsExact, SyncInv', FactsExact', [Next]_vars
  PROVE  [Promise!Next]_(Promise!vars)
<1>1. Promise!vars = <<lexLog, currentAt, Answer>>
  BY DEF Promise!vars, Answer
<1>2. Promise!vars' = <<lexLog', currentAt', Answer'>>
  BY DEF Promise!vars, Answer
<1>3. ASSUME NEW id \in Id, Scan(id)
      PROVE  Promise!Scan
  <2>1. UNCHANGED <<current, currentAt, snapshots>>
    BY <1>3, OutsideStep
  <2>2. Answer' = Answer
    BY <2>1 DEF Answer, Complete
  <2>3. lexLog' = Append(lexLog, id)
    BY <1>3 DEF Scan
  <2> QED BY <2>1, <2>2, <2>3 DEF Promise!Scan, Answer
<1>4. ASSUME ~ UNCHANGED <<current, currentAt>>
      PROVE  Promise!Serve
  <2>1. PICK p \in Proc :
          /\ current' = TargetId(p) /\ currentAt' = target[p]
          /\ target[p] \in 1 .. Len(lexLog) /\ currentAt <= target[p]
          /\ TargetId(p) \in Id /\ Complete(TargetId(p))
          /\ UNCHANGED <<lexLog, snapshots>>
    BY <1>4, CurrentStep
  <2>2. current' # NoId /\ Complete(current)'
    BY <2>1, IdAssumption DEF Complete
  <2>3. Answer' = LexiconGraph[lexLog'[currentAt']]
    <3>1. Answer' = Visible(snapshots'[current'])
      BY <2>2 DEF Answer
    <3>2. snapshots'[current'] \in Generation /\ Opens(snapshots'[current'])
      BY <2>1, <2>2 DEF SyncInv, TypeOK, Complete, Opens
    <3>3. snapshots'[current'].facts = LexiconFacts[current']
      BY <2>1, <3>2 DEF FactsExact
    <3> QED BY <2>1, <3>1, <3>2, <3>3 DEF Opens, LexiconGraph, TargetId
  <2>4. currentAt' \in currentAt .. Len(lexLog) /\ currentAt' > 0
    BY <2>1 DEF SyncInv, TypeOK
  <2> QED BY <2>1, <2>3, <2>4 DEF Promise!Serve, Answer
<1>5. ASSUME UNCHANGED <<lexLog, current, currentAt>>
      PROVE  Promise!Serve \/ Promise!Lose \/ UNCHANGED Promise!vars
  <2>1. CASE Answer' = Answer
    BY <1>1, <1>2, <1>5, <2>1
  <2>2. CASE Answer' = Torn /\ currentAt > 0
    BY <1>5, <2>2 DEF Promise!Lose, Answer
  <2>3. CASE /\ currentAt \in 1 .. Len(lexLog)
             /\ Answer' = LexiconGraph[lexLog[currentAt]]
    <3>1. currentAt \in currentAt .. Len(lexLog) /\ currentAt > 0
      BY <2>3 DEF SyncInv, TypeOK
    <3> QED BY <1>5, <2>3, <3>1 DEF Promise!Serve, Answer
  <2> QED BY <1>5, <2>1, <2>2, <2>3, SamePublicationStep
<1>6. \/ \E id \in Id : Scan(id)
      \/ ~ UNCHANGED <<current, currentAt>>
      \/ UNCHANGED <<lexLog, current, currentAt>>
  BY DEF Next, Prune, WriteBack, PowerFailure, Run, Acquire,
    ReadLexiconCurrent, LoadLexicon, LexiconUnavailable, Inspect,
    RemoveSome, RemoveOutput, PrepareTemp, WriteOverlay, WriteRebuild,
    WriteSidecar,
    RenameTemp, CreateFileTemp, FileTempExists, ReplaceCurrent,
    ReplaceConsumer, Misread, MisreadOutput, MisreadPrevious, Fail, Crash,
    lexVars, vars
<1> QED BY <1>3, <1>4, <1>5, <1>6 DEF Promise!Next

\* Concurrent, failing and dying syncs implement the promise that followers
\* of CURRENT rely on, when Lexicon's objects follow the ownership convention
\* (run_sync as a whole).
THEOREM PromiseKept ==
  ASSUME Conventional
  PROVE  Spec => KeepsPromise
<1>1. Init => SyncInv /\ FactsExact
  BY InitInv, DirectoryAssumption DEF Init, FactsExact
<1>2. SyncInv /\ FactsExact /\ [Next]_vars => SyncInv' /\ FactsExact'
  BY SyncInvStep, FactsExactStep
<1>3. Init => Promise!Init
  BY DEF Init, Promise!Init
<1>4. SyncInv /\ FactsExact /\ SyncInv' /\ FactsExact' /\ [Next]_vars
        => [Promise!Next]_(Promise!vars)
  BY PromiseStep
<1> QED BY <1>1, <1>2, <1>3, <1>4, PTL DEF Spec, KeepsPromise, Promise!Spec

=============================================================================
