------------------------------ MODULE Synthetic ------------------------------
(***************************************************************************)
(* Synthetic graphs and the mutations planned for them (src/synthetic).    *)
(* A dataset is a number of nodes and a sorted list of edges.  What the    *)
(* generator of random numbers yields is an input: a draw is a start and a *)
(* step, any two numbers.                                                  *)
(***************************************************************************)
EXTENDS PackedFile, TLC

BASIS_POINTS == 10000

AtMost(a, b) == IF a < b THEN a ELSE b

(* The sums of the first numbers of a list.                                *)
Sums(s) == LET sum[i \in 0..Len(s)] == IF i = 0 THEN 0 ELSE sum[i - 1] + s[i] IN sum

Total(s) == Sums(s)[Len(s)]

(* How many pairs of distinct nodes there are among n.                     *)
Pairs(n) == n * (n - 1)

SortedEdges(s) == SortedBy(s, EdgeBefore)

(* (altered) what a class has no room for is left out                      *)
AllocateWithoutSpill(total, weights, capacities) ==
  [i \in DOMAIN weights |-> AtMost((total * weights[i]) \div BASIS_POINTS, capacities[i])]

(* allocate_counts: every class of edges its share of the total, the last  *)
(* the rest; what exceeds a capacity goes to the first classes with room.  *)
AllocateCounts(total, weights, capacities) ==
  LET last == Len(weights)
      share == [i \in 1..(last - 1) |-> (total * weights[i]) \div BASIS_POINTS]
      asked == Append(share, total - Total(share))
      given == [i \in 1..last |-> AtMost(asked[i], capacities[i])]
      room == [i \in 1..last |-> capacities[i] - given[i]]
      spare == total - Total(given)
      over(i) == spare - AtMost(spare, Total(SubSeq(room, 1, i - 1)))
  IN  [i \in 1..last |-> given[i] + AtMost(room[i], over(i))]

(* directed_pair_in_range: the pairs of distinct nodes, counted from zero. *)
DirectedPair(ordinal, first, nodeCount) ==
  LET row == ordinal \div (nodeCount - 1)
      offset == ordinal % (nodeCount - 1)
  IN  <<first + row, first + IF offset >= row THEN offset + 1 ELSE offset>>

HubIncidentPair(ordinal, nodeCount, hubs) ==
  LET local == ordinal - hubs * (nodeCount - 1)
  IN  IF local < 0 THEN DirectedPair(ordinal, 0, nodeCount)
      ELSE <<hubs + (local \div hubs), local % hubs>>

HubIncidentCapacity(nodeCount, hubs) == hubs * (nodeCount - 1) + (nodeCount - hubs) * hubs

(* modulo_group_ranges: the nodes whose number has the same remainder, and *)
(* the ordinals of the pairs between them.                                 *)
GroupRanges(first, nodeCount, groups) ==
  LET end == first + nodeCount
      from(g) == first + ((g + groups - (first % groups)) % groups)
      size(g) == IF from(g) >= end THEN 0 ELSE ((end - 1 - from(g)) \div groups) + 1
      sums == Sums([g \in 1..groups |-> Pairs(size(g - 1))])
  IN  [g \in 0..(groups - 1) |->
         [first |-> from(g), size |-> size(g), edgeStart |-> sums[g], edgeEnd |-> sums[g + 1]]]

(* The range an ordinal lies in; ranges without pairs are passed over.     *)
RangeOf(ordinal, ranges) ==
  CHOOSE g \in DOMAIN ranges :
    ranges[g].edgeEnd > ordinal /\ \A h \in DOMAIN ranges : h < g => ranges[h].edgeEnd <= ordinal

ModuloGroupPair(ordinal, ranges, groups) ==
  LET range == ranges[RangeOf(ordinal, ranges)]
      local == DirectedPair(ordinal - range.edgeStart, 0, range.size)
  IN  <<range.first + local[1] * groups, range.first + local[2] * groups>>

(* greatest_common_divisor: the turns of its loop, at most as many as the  *)
(* second number counts.                                                   *)
DivisorTurn(pair) == IF pair[2] = 0 THEN pair ELSE <<pair[2], pair[1] % pair[2]>>

GreatestCommonDivisor(a, b) ==
  LET turn[k \in 0..b] == IF k = 0 THEN <<a, b>> ELSE DivisorTurn(turn[k - 1])
  IN  turn[b][1]

(* The first step from the one drawn on, around, that is prime to the size.*)
Stride(size, drawn) ==
  LET first == IF drawn % size = 0 THEN 1 ELSE drawn % size
      around == [k \in 0..(size - 2) |-> 1 + ((first - 1 + k) % (size - 1))]
      prime(k) == GreatestCommonDivisor(around[k], size) = 1
  IN  around[CHOOSE k \in DOMAIN around : prime(k) /\ \A j \in 0..(k - 1) : ~prime(j)]

(* Permutation: the ordinals below size, in an order that a draw decides.  *)
Permutation(size, draw) ==
  IF size <= 1 THEN [i \in 1..size |-> 0]
  ELSE LET stride == Stride(size, draw[2])
       IN  [i \in 1..size |-> (stride * (i - 1) + draw[1]) % size]

-----------------------------------------------------------------------------
(* validate: the first complaint about a specification, or "none".         *)
SpecError(spec) ==
  LET parts == CASE spec.topology = "modular" -> <<spec.clusters>>
                 [] spec.topology = "entangled" -> <<spec.clusters, spec.hubs>>
                 [] spec.topology = "hub_heavy" -> <<spec.hubs>>
                 [] spec.topology = "layered" -> <<spec.layers>>
                 [] spec.topology = "dense" -> <<spec.dense>>
      least == IF spec.topology \in {"entangled", "layered", "dense"} THEN 2 ELSE 1
      partError(value) == IF value = 0 THEN "zero_partition"
                          ELSE IF value > spec.nodeCount THEN "partition" ELSE "none"
  IN  IF spec.nodeCount = 0 THEN "zero_nodes"
      ELSE IF spec.nodeCount = 1 /\ spec.edgeCount > 0 THEN "self_edges"
      ELSE IF spec.edgeCount > spec.nodeCount * (spec.nodeCount - 1) THEN "capacity"
      ELSE IF partError(parts[1]) # "none" THEN partError(parts[1])
      ELSE IF spec.topology = "modular" /\ spec.crossRatio > BASIS_POINTS THEN "ratio"
      ELSE IF parts[1] < least THEN "too_small"
      ELSE partError(parts[Len(parts)])

(* A class of edges: its kind, its share, how many pairs it may use, the   *)
(* pairs that are drawn from, and those of them that are passed over.      *)
Class(kind, weight, capacity, size, pair(_)) ==
  [kind |-> kind, weight |-> weight, capacity |-> capacity,
   pairs |-> [o \in 0..(size - 1) |-> pair(o)], skipped |-> {}]

Skipping(class, Skip(_, _)) ==
  [class EXCEPT !.skipped = {p \in {class.pairs[o] : o \in DOMAIN class.pairs} : Skip(p[1], p[2])}]

ModularClasses(spec) ==
  LET n == spec.nodeCount
      c == spec.clusters
      ranges == GroupRanges(0, n, c)
      within == ranges[c - 1].edgeEnd
  IN  <<Class(0, BASIS_POINTS - spec.crossRatio, within, within,
              LAMBDA o : ModuloGroupPair(o, ranges, c)),
        Skipping(Class(1, spec.crossRatio, Pairs(n) - within, Pairs(n),
                       LAMBDA o : DirectedPair(o, 0, n)),
                 LAMBDA s, t : s % c = t % c)>>

EntangledClasses(spec) ==
  LET c == spec.clusters
      regular == spec.nodeCount - spec.hubs
      ranges == GroupRanges(spec.hubs, regular, c)
      within == ranges[c - 1].edgeEnd
      hub == HubIncidentCapacity(spec.nodeCount, spec.hubs)
  IN  <<Class(2, 4000, hub, hub, LAMBDA o : HubIncidentPair(o, spec.nodeCount, spec.hubs)),
        Skipping(Class(1, 4500, Pairs(regular) - within, Pairs(regular),
                       LAMBDA o : DirectedPair(o, spec.hubs, regular)),
                 LAMBDA s, t : s % c = t % c),
        Class(0, 1500, within, within, LAMBDA o : ModuloGroupPair(o, ranges, c))>>

HubHeavyClasses(spec) ==
  LET regular == spec.nodeCount - spec.hubs
      hub == HubIncidentCapacity(spec.nodeCount, spec.hubs)
  IN  <<Class(2, 7000, hub, hub, LAMBDA o : HubIncidentPair(o, spec.nodeCount, spec.hubs)),
        Class(0, 3000, Pairs(regular), Pairs(regular),
              LAMBDA o : DirectedPair(o, spec.hubs, regular))>>

(* adjacent_spans: the pairs from each layer to the next.                  *)
AdjacentSpans(nodeCount, layers) ==
  LET size(l) == ((nodeCount - 1 - l) \div layers) + 1
      sums == Sums([l \in 1..(layers - 1) |-> size(l - 1) * size(l)])
  IN  [l \in 0..(layers - 2) |->
         [targetSize |-> size(l + 1), edgeStart |-> sums[l], edgeEnd |-> sums[l + 1]]]

AdjacentPair(ordinal, spans, layers) ==
  LET l == RangeOf(ordinal, spans)
      local == ordinal - spans[l].edgeStart
  IN  <<l + (local \div spans[l].targetSize) * layers,
        l + 1 + (local % spans[l].targetSize) * layers>>

LayeredClasses(spec) ==
  LET n == spec.nodeCount
      k == spec.layers
      spans == AdjacentSpans(n, k)
      forward == spans[k - 2].edgeEnd
  IN  <<Class(3, 8000, forward, forward, LAMBDA o : AdjacentPair(o, spans, k)),
        Skipping(Class(4, 2000, Pairs(n) - forward, Pairs(n), LAMBDA o : DirectedPair(o, 0, n)),
                 LAMBDA s, t : t % k = (s % k) + 1)>>

(* other_pair: from the dense nodes to the sparse ones, back, and between  *)
(* sparse ones.                                                            *)
OtherPair(ordinal, dense, sparse) ==
  LET across == dense * sparse
      back == ordinal - across
  IN  IF ordinal < across THEN <<ordinal \div sparse, dense + (ordinal % sparse)>>
      ELSE IF back < across THEN <<dense + (back \div dense), back % dense>>
      ELSE DirectedPair(back - across, dense, sparse)

DenseClasses(spec) ==
  LET dense == spec.dense
      sparse == spec.nodeCount - dense
      other == dense * sparse * 2 + Pairs(sparse)
  IN  <<Class(5, 7000, Pairs(dense), Pairs(dense), LAMBDA o : DirectedPair(o, 0, dense)),
        Class(0, 3000, other, other, LAMBDA o : OtherPair(o, dense, sparse))>>

Classes(spec) ==
  CASE spec.topology = "modular" -> ModularClasses(spec)
    [] spec.topology = "entangled" -> EntangledClasses(spec)
    [] spec.topology = "hub_heavy" -> HubHeavyClasses(spec)
    [] spec.topology = "layered" -> LayeredClasses(spec)
    [] spec.topology = "dense" -> DenseClasses(spec)

(* The first pairs of a permutation that are not passed over.              *)
Drawn(pairs, skipped, count, draw) ==
  LET order == Permutation(Cardinality(DOMAIN pairs), draw)
      drawn == [i \in DOMAIN order |-> pairs[order[i]]]
      kept == Filtered(drawn, Elements(drawn) \ skipped)
  IN  SubSeq(kept, 1, AtMost(count, Len(kept)))

(* generate, of a valid specification, with one draw for each class.       *)
Generated(spec, draws) ==
  LET classes == Classes(spec)
      counts == AllocateCounts(spec.edgeCount, [i \in DOMAIN classes |-> classes[i].weight],
                               [i \in DOMAIN classes |-> classes[i].capacity])
      pairs == [i \in DOMAIN classes |->
                  Drawn(classes[i].pairs, classes[i].skipped, counts[i], draws[i])]
      edges[i \in 0..Len(classes)] ==
        IF i = 0 THEN <<>>
        ELSE edges[i - 1] \o [j \in DOMAIN pairs[i] |->
                                EdgeOf(pairs[i][j][1], pairs[i][j][2], classes[i].kind)]
  IN  [nodeCount |-> spec.nodeCount, edges |-> SortedEdges(edges[Len(classes)])]
=============================================================================
