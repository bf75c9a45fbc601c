----------------------------- MODULE PackedFile -----------------------------
(***************************************************************************)
(* The packed graph file (src/storage): canonical edges, offset tables,    *)
(* and adjacency sections in both directions.  A checksum is what it is    *)
(* computed from, in that order.                                           *)
(***************************************************************************)
EXTENDS NeighborMerge

(* An edge is its source, its target and its kind, compared in this order. *)
EdgeOf(from, to, kind) == <<from, to, kind>>
Source(e) == e[1]
Target(e) == e[2]
Kind(e) == e[3]

EdgeBefore(d, e) ==
  \/ d[1] < e[1]
  \/ d[1] = e[1] /\ Less(<<d[2], d[3]>>, <<e[2], e[3]>>)

ReverseBefore(d, e) ==
  EdgeBefore(<<d[2], d[1], d[3]>>, <<e[2], e[1], e[3]>>)

(* canonical_edges: the edges in order, or an error.                       *)
InRange(nodeCount, edges) ==
  \A e \in Elements(edges) : Source(e) < nodeCount /\ Target(e) < nodeCount

Distinct(edges) == Cardinality(Elements(edges)) = Len(edges)

CanonicalError(nodeCount, edges) ==
  IF ~InRange(nodeCount, edges) THEN "range"
  ELSE IF ~Distinct(edges) THEN "duplicate" ELSE "none"

Canonical(edges) == Ordered(Elements(edges), EdgeBefore)

(* dataset_checksum.                                                       *)
DatasetChecksum(nodeCount, edges) ==
  [nodes |-> nodeCount, count |-> Len(edges), edges |-> edges]

-----------------------------------------------------------------------------
(* Layout: where the sections of a file are, each at a multiple of eight.  *)
(* Sizes beyond 64 bits, which the code refuses, are left out.             *)
HeaderLen == 128
OffsetBytes(nodeCount) == (nodeCount + 1) * 8
NodeBytes(edgeCount) == edgeCount * 4
KindBytes(edgeCount) == edgeCount * 2

SectionEnd(start, length) == ((start + length + 7) \div 8) * 8

LayoutFor(nodeCount, edgeCount) ==
  LET forwardTargets == SectionEnd(HeaderLen, OffsetBytes(nodeCount))
      forwardKinds == SectionEnd(forwardTargets, NodeBytes(edgeCount))
      reverseOffsets == SectionEnd(forwardKinds, KindBytes(edgeCount))
      reverseSources == SectionEnd(reverseOffsets, OffsetBytes(nodeCount))
      reverseKinds == SectionEnd(reverseSources, NodeBytes(edgeCount))
  IN  [forwardOffsets |-> HeaderLen, forwardTargets |-> forwardTargets,
       forwardKinds |-> forwardKinds, reverseOffsets |-> reverseOffsets,
       reverseSources |-> reverseSources, reverseKinds |-> reverseKinds,
       fileLen |-> SectionEnd(reverseKinds, KindBytes(edgeCount))]

-----------------------------------------------------------------------------
Direction == {"forward", "reverse"}

Owner(e, direction) == IF direction = "forward" THEN Source(e) ELSE Target(e)
Other(e, direction) == IF direction = "forward" THEN Target(e) ELSE Source(e)

(* offsets: how many edges belong to the nodes below each one.             *)
Offsets(edges, nodeCount, direction) ==
  LET count(n) == Cardinality({i \in DOMAIN edges : Owner(edges[i], direction) = n})
      sum[n \in 0..nodeCount] == IF n = 0 THEN 0 ELSE sum[n - 1] + count(n - 1)
  IN  sum

(* write_direction.                                                        *)
Section(edges, nodeCount, direction) ==
  [offsets |-> Offsets(edges, nodeCount, direction),
   nodes |-> [i \in DOMAIN edges |-> Other(edges[i], direction)],
   kinds |-> [i \in DOMAIN edges |-> Kind(edges[i])]]

(* The same edges, sorted by target, source and kind.                      *)
Reversed(edges) == Ordered(Elements(edges), ReverseBefore)

(* write_packed, of canonical edges and the same edges the other way round.*)
Encode(nodeCount, edges, reversed) ==
  [nodeCount |-> nodeCount, edgeCount |-> Len(edges),
   checksum |-> DatasetChecksum(nodeCount, edges),
   forward |-> Section(edges, nodeCount, "forward"),
   reverse |-> Section(reversed, nodeCount, "reverse")]

-----------------------------------------------------------------------------
(* neighbors_iter: the slice of a section that the offsets give a node.    *)
Slice(section, n) ==
  LET start == section.offsets[n]
  IN  [i \in 1..(section.offsets[n + 1] - start) |->
         <<section.nodes[start + i], section.kinds[start + i]>>]

PackedNeighbors(packed, n, direction) == Slice(packed[direction], n)

(* materialize_base_dataset, and the edges that validation hashes.         *)
NodeEdges(packed, n) ==
  LET list == PackedNeighbors(packed, n, "forward")
  IN  [i \in DOMAIN list |-> EdgeOf(n, list[i][1], list[i][2])]

Materialized(packed) ==
  LET all[n \in 0..packed.nodeCount] ==
        IF n = 0 THEN <<>> ELSE all[n - 1] \o NodeEdges(packed, n - 1)
  IN  all[packed.nodeCount]

(* validate_direction: offsets run from zero to the number of edges        *)
(* without going back, neighbours exist and ascend.                        *)
ValidSection(section, nodeCount, edgeCount) ==
  /\ section.offsets[0] = 0 /\ section.offsets[nodeCount] = edgeCount
  /\ \A n \in 0..(nodeCount - 1) :
       /\ section.offsets[n] <= section.offsets[n + 1]
       /\ section.offsets[n + 1] <= edgeCount
       /\ Sorted(Slice(section, n))
       /\ \A m \in Elements(Slice(section, n)) : m[1] < nodeCount

(* validate_file.                                                          *)
ValidFile(packed) ==
  /\ ValidSection(packed.forward, packed.nodeCount, packed.edgeCount)
  /\ DatasetChecksum(packed.nodeCount, Materialized(packed)) = packed.checksum
  /\ ValidSection(packed.reverse, packed.nodeCount, packed.edgeCount)
=============================================================================
