---------------------------- MODULE VisibleGraph ----------------------------
(***************************************************************************)
(* A packed graph, an overlay on it, and what a reader sees                *)
(* (src/storage, src/snapshot/{overlay_validation,graph}.rs).  A behaviour *)
(* packs a dataset, opens the file, validates changes of it the way        *)
(* write_overlay and GraphOverlay::open both do, and answers one query for *)
(* neighbours.                                                             *)
(***************************************************************************)
EXTENDS PackedFile

CONSTANTS
  Datasets,     \* the datasets to pack: node count and edges, in any order
  ChangeSets    \* the changes to lay over them, in any order

Edges == Seq(Nat \X Nat \X Nat)
Dataset == [nodeCount : Nat, edges : Edges]
OverlayChanges == [added : Edges, removed : Edges]

ASSUME DatasetsAssumption == Datasets \subseteq Dataset
ASSUME ChangeSetsAssumption == ChangeSets \subseteq OverlayChanges

VARIABLES
  dataset, changes,
  pc,         \* "pack", "open", "changes", "conflicts", "members", "hash", "hashing",
              \* "query", "merge", "done", "refused"
  error,      \* why the caller was refused, "none"
  file,       \* the packed graph
  adds, dels, \* the canonical changes
  addAt, delAt,
  source,     \* the node whose merged neighbours are hashed next
  hashed,     \* the edges hashed so far
  query,      \* the node and direction asked for
  answer      \* its neighbours

outer == <<dataset, changes, pc, error, file, adds, dels, addAt, delAt, source, hashed, query, answer>>
vars == <<outer, mergeVars>>

NoFile == Encode(0, <<>>, <<>>)

Init ==
  /\ dataset \in Datasets /\ changes \in ChangeSets
  /\ pc = "pack" /\ error = "none"
  /\ file = NoFile
  /\ adds = <<>> /\ dels = <<>> /\ addAt = 1 /\ delAt = 1
  /\ source = 0 /\ hashed = <<>> /\ query = <<0, "forward">> /\ answer = <<>>
  /\ MergeIdle

Refuse(why) ==
  /\ pc' = "refused" /\ error' = why
  /\ UNCHANGED <<dataset, changes, file, adds, dels, addAt, delAt, source, hashed, query,
                 answer, mergeVars>>

Goto(place) == pc' = place /\ UNCHANGED error

-----------------------------------------------------------------------------
RefuseDataset ==
  /\ pc = "pack" /\ CanonicalError(dataset.nodeCount, dataset.edges) # "none"
  /\ Refuse(CanonicalError(dataset.nodeCount, dataset.edges))

WritePacked ==
  /\ pc = "pack" /\ CanonicalError(dataset.nodeCount, dataset.edges) = "none"
  /\ \E edges \in {Canonical(dataset.edges)}, reversed \in {Reversed(dataset.edges)} :
       file' = Encode(dataset.nodeCount, edges, reversed)
  /\ Goto("open")
  /\ UNCHANGED <<dataset, changes, adds, dels, addAt, delAt, source, hashed, query, answer, mergeVars>>

OpenPacked ==
  /\ pc = "open" /\ ValidFile(file)
  /\ Goto("changes")
  /\ UNCHANGED <<dataset, changes, file, adds, dels, addAt, delAt, source, hashed, query,
                 answer, mergeVars>>

-----------------------------------------------------------------------------
(* validate_changes: added edges are looked at before removed ones.        *)
ChangesError ==
  LET first == CanonicalError(file.nodeCount, changes.added)
  IN  IF first # "none" THEN first ELSE CanonicalError(file.nodeCount, changes.removed)

RefuseChanges ==
  /\ pc = "changes" /\ ChangesError # "none"
  /\ Refuse(ChangesError)

AcceptChanges ==
  /\ pc = "changes" /\ ChangesError = "none"
  /\ adds' = Canonical(changes.added)
  /\ dels' = Canonical(changes.removed)
  /\ Goto("conflicts")
  /\ UNCHANGED <<dataset, changes, file, addAt, delAt, source, hashed, query, answer, mergeVars>>

(* reject_conflicts: two places move through the two lists.                *)
Comparing == pc = "conflicts" /\ addAt <= Len(adds) /\ delAt <= Len(dels)

AdvanceAdded ==
  /\ Comparing /\ EdgeBefore(adds[addAt], dels[delAt])
  /\ addAt' = addAt + 1
  /\ UNCHANGED <<dataset, changes, pc, error, file, adds, dels, delAt, source, hashed, query,
                 answer, mergeVars>>

(* (altered) both places move                                              *)
AdvanceBoth ==
  /\ Comparing /\ EdgeBefore(dels[delAt], adds[addAt])
  /\ addAt' = addAt + 1 /\ delAt' = delAt + 1
  /\ UNCHANGED <<dataset, changes, pc, error, file, adds, dels, source, hashed, query,
                 answer, mergeVars>>

AdvanceRemoved ==
  /\ Comparing /\ EdgeBefore(dels[delAt], adds[addAt])
  /\ delAt' = delAt + 1
  /\ UNCHANGED <<dataset, changes, pc, error, file, adds, dels, addAt, source, hashed, query,
                 answer, mergeVars>>

RefuseConflict == Comparing /\ adds[addAt] = dels[delAt] /\ Refuse("conflict")

(* (altered) the comparison goes on until both lists are used up           *)
NoConflictInBoth ==
  /\ pc = "conflicts" /\ addAt > Len(adds) /\ delAt > Len(dels)
  /\ Goto("members")
  /\ UNCHANGED <<dataset, changes, file, adds, dels, addAt, delAt, source, hashed, query,
                 answer, mergeVars>>

NoConflict ==
  /\ pc = "conflicts" /\ (addAt > Len(adds) \/ delAt > Len(dels))
  /\ Goto("members")
  /\ UNCHANGED <<dataset, changes, file, adds, dels, addAt, delAt, source, hashed, query,
                 answer, mergeVars>>

(* base_contains: a search in the sorted neighbours of the source.         *)
BaseContains(e) ==
  <<Target(e), Kind(e)>> \in Elements(PackedNeighbors(file, Source(e), "forward"))

(* validate_membership: removed edges first.                               *)
RefuseMissing ==
  /\ pc = "members" /\ \E e \in Elements(dels) : ~BaseContains(e)
  /\ Refuse("missing")

RefusePresent ==
  /\ pc = "members" /\ \A e \in Elements(dels) : BaseContains(e)
  /\ \E e \in Elements(adds) : BaseContains(e)
  /\ Refuse("present")

AcceptMembers ==
  /\ pc = "members"
  /\ \A e \in Elements(dels) : BaseContains(e)
  /\ \A e \in Elements(adds) : ~BaseContains(e)
  /\ Goto("hash")
  /\ UNCHANGED <<dataset, changes, file, adds, dels, addAt, delAt, source, hashed, query,
                 answer, mergeVars>>

-----------------------------------------------------------------------------
(* OperationIndex: the operations of a node, in the order of the edges.    *)
Operations(edges, n, direction) ==
  LET pushed[i \in 0..Len(edges)] ==
        IF i = 0 THEN <<>>
        ELSE IF Owner(edges[i], direction) = n
               THEN Append(pushed[i - 1], <<Other(edges[i], direction), Kind(edges[i])>>)
        ELSE pushed[i - 1]
  IN  pushed[Len(edges)]

(* visible_checksum: the merged neighbours of every node, in turn.         *)
HashNode ==
  /\ pc = "hash" /\ source < file.nodeCount
  /\ StartMerge(PackedNeighbors(file, source, "forward"),
                Operations(dels, source, "forward"), Operations(adds, source, "forward"))
  /\ Goto("hashing")
  /\ UNCHANGED <<dataset, changes, file, adds, dels, addAt, delAt, source, hashed, query,
                 answer>>

Merge ==
  /\ pc \in {"hashing", "merge"}
  /\ MergeStep
  /\ UNCHANGED outer

HashMerged ==
  /\ pc = "hashing" /\ phase = "done"
  /\ hashed' = hashed \o [i \in DOMAIN merged |-> EdgeOf(source, merged[i][1], merged[i][2])]
  /\ source' = source + 1
  /\ Goto("hash")
  /\ UNCHANGED <<dataset, changes, file, adds, dels, addAt, delAt, query, answer, mergeVars>>

Hashed ==
  /\ pc = "hash" /\ source = file.nodeCount
  /\ Goto("query")
  /\ UNCHANGED <<dataset, changes, file, adds, dels, addAt, delAt, source, hashed, query,
                 answer, mergeVars>>

(* (altered) removed edges are still counted                               *)
VisibleCountGrown == file.edgeCount + Len(adds)

(* The number of visible edges.                                            *)
VisibleCount == file.edgeCount - Len(dels) + Len(adds)

(* What the overlay's header says of the visible graph.                    *)
VisibleChecksum == [nodes |-> file.nodeCount, count |-> VisibleCount, edges |-> hashed]

-----------------------------------------------------------------------------
(* A node that the graph does not have.                                    *)
RefuseNode == pc = "query" /\ Refuse("node")

(* (altered) a node without removals is not merged                         *)
UntouchedByRemovals(del, add) == del = <<>>

(* merge_owned: a node without operations is not merged.                   *)
Untouched(del, add) == del = <<>> /\ add = <<>>

(* neighbors_iter and neighbors_owned.                                     *)
Query(n, direction) ==
  LET list == PackedNeighbors(file, n, direction)
      del == Operations(dels, n, direction)
      add == Operations(adds, n, direction)
  IN  /\ pc = "query"
      /\ query' = <<n, direction>>
      /\ IF Untouched(del, add)
           THEN answer' = list /\ Goto("done") /\ UNCHANGED mergeVars
           ELSE StartMerge(list, del, add) /\ Goto("merge") /\ UNCHANGED answer
      /\ UNCHANGED <<dataset, changes, file, adds, dels, addAt, delAt, source, hashed>>

Answer ==
  /\ pc = "merge" /\ phase = "done"
  /\ answer' = merged
  /\ Goto("done")
  /\ UNCHANGED <<dataset, changes, file, adds, dels, addAt, delAt, source, hashed, query,
                 mergeVars>>

Next ==
  \/ RefuseDataset \/ WritePacked \/ OpenPacked
  \/ RefuseChanges \/ AcceptChanges
  \/ AdvanceAdded \/ AdvanceRemoved \/ RefuseConflict \/ NoConflict
  \/ RefuseMissing \/ RefusePresent \/ AcceptMembers
  \/ HashNode \/ Merge \/ HashMerged \/ Hashed
  \/ RefuseNode \/ (\E n \in 0..(file.nodeCount - 1), d \in Direction : Query(n, d)) \/ Answer

Spec == Init /\ [][Next]_vars

-----------------------------------------------------------------------------
Packed == Elements(dataset.edges)
Visible == (Packed \ Elements(changes.removed)) \cup Elements(changes.added)

(* The variables have their types.                                         *)
TypeOK ==
  /\ dataset \in Dataset /\ changes \in OverlayChanges
  /\ pc \in {"pack", "open", "changes", "conflicts", "members", "hash", "hashing",
             "query", "merge", "done", "refused"}
  /\ error \in {"none", "range", "duplicate", "conflict", "missing", "present", "node"}
  /\ adds \in Edges /\ dels \in Edges /\ hashed \in Edges
  /\ addAt \in 1..(Len(adds) + 1) /\ delAt \in 1..(Len(dels) + 1)
  /\ source \in 0..file.nodeCount
  /\ query \in Nat \X Direction
  /\ phase \in {"idle", "drop", "merge", "done"}
  /\ {base, removed, added, retained, merged, answer} \subseteq Seq(Neighbor)
  /\ at \in 1..(Len(base) + 1) /\ removedAt \in 1..(Len(removed) + 1)
  /\ left \in 1..(Len(retained) + 1) /\ right \in 1..(Len(added) + 1)

(* Changes are accepted if and only if they turn the packed edges into     *)
(* others: nothing added that is there, nothing removed that is not, each  *)
(* once, and an edge both added and removed is called a conflict whether   *)
(* it is there or not.                                                     *)
ChangesExact ==
  LET legal(edges) == InRange(dataset.nodeCount, edges) /\ Distinct(edges)
      both == Elements(changes.added) \cap Elements(changes.removed)
      fit == /\ legal(changes.added) /\ legal(changes.removed)
             /\ Elements(changes.removed) \subseteq Packed
             /\ Elements(changes.added) \cap Packed = {}
  IN  /\ pc \in {"hash", "hashing", "query", "merge", "done"} => legal(dataset.edges) /\ fit
      /\ pc = "refused" /\ error # "node" => ~(legal(dataset.edges) /\ fit)
      /\ error = "conflict" => both # {}
      /\ error \in {"missing", "present"} => both = {}

(* The checksum and count of the visible graph, computed by merging, are   *)
(* those that packing the visible edges afresh would give: a rebuilt graph *)
(* and a chain of overlays have one identity.                              *)
ChecksumOfVisible ==
  pc \in {"query", "merge", "done"} =>
    VisibleChecksum
      = DatasetChecksum(dataset.nodeCount, Ordered(Visible, EdgeBefore))

(* The neighbours of a node, in either direction, are those of the visible *)
(* edges, in the order of node and kind.                                   *)
NeighborsExact ==
  pc = "done" =>
    answer = Ordered({<<Other(e, query[2]), Kind(e)>> :
                        e \in {x \in Visible : Owner(x, query[2]) = query[1]}}, Less)
=============================================================================
