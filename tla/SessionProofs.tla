---------------------------- MODULE SessionProofs ----------------------------
(***************************************************************************)
(* A protocol session, for any snapshot and request: the steps of a search *)
(* are those of TraversalProofs, those of an enumeration of paths those of *)
(* PathSearchProofs, and what holds of them holds in the session.          *)
(***************************************************************************)
EXTENDS Session, OrdersProofs

TT == INSTANCE TraversalProofs
PP == INSTANCE PathSearchProofs

(* One of the two searches is on, or a look-up of a snapshot that has been *)
(* checked.                                                                *)
SessionInv ==
  /\ Searched \/ Walked \/ request.op \in LookupOps
  /\ Searched => TT!SearchInv
  /\ Walked => PP!PathInv
  /\ request.op \in LookupOps =>
       pc \in {"start", "done"} /\ Opened(Snapshot) /\ LookupParsed(request)

-----------------------------------------------------------------------------
\* What the two searches assume of their constants is what the session does.
LEMMA SameAssumptions ==
  /\ Node \subseteq Nat /\ TT!IsFiniteSet(Node) /\ PP!IsFiniteSet(Node)
  /\ Relation \subseteq Nat /\ TT!IsFiniteSet(Relation) /\ PP!IsFiniteSet(Relation)
  /\ None \notin Nat /\ None \notin [nodes : Seq(Nat), relations : Seq(Nat)]
BY NodeAssumption, RelationAssumption, NoneAssumption
DEF IsFiniteSet, TT!IsFiniteSet, PP!IsFiniteSet

\* The operations are searched, walked or looked up, and no two of these.
LEMMA Operations ==
  /\ ~ (Searched /\ Walked)
  /\ ~ (Searched /\ request.op \in LookupOps)
  /\ ~ (Walked /\ request.op \in LookupOps)
BY DEF Searched, Walked, LookupOps, T!SearchOps

\* A session begins with a request that has been parsed.
LEMMA SessionBegins ==
  ASSUME Init
  PROVE  SessionInv
<1>1. PICK s \in Sessions :
        graph \in s.graphs /\ catalogue \in s.catalogues /\ request \in s.requests
  BY DEF Init
<1>2. /\ graph \in SUBSET GraphEdge
      /\ \/ Searched /\ request \in T!Request
         \/ Walked /\ request \in P!Request
         \/ request.op \in LookupOps /\ Opened(Snapshot) /\ LookupParsed(request)
  BY <1>1, SessionsAssumption DEF Searched, Walked, Snapshot
<1>3. T!Init /\ P!Init  BY DEF Init
<1>4. Searched => TT!SearchInv
  <2> SUFFICES ASSUME Searched  PROVE TT!SearchInv
    OBVIOUS
  <2>1. request \in T!Request  BY <1>2, Operations
  <2>2. TT!SearchOps = T!SearchOps /\ TT!GraphEdge = GraphEdge
    BY DEF TT!SearchOps, T!SearchOps, TT!GraphEdge, GraphEdge
  <2>3. TT!Request = T!Request  BY <2>2 DEF TT!Request, T!Request
  <2>4. TT!Given  BY <1>2, <2>1, <2>2, <2>3 DEF TT!Given
  <2>5. TT!Init  BY <1>3 DEF TT!Init, T!Init
  <2> QED
    BY <2>4, <2>5, TT!SearchBegins, SameAssumptions
<1>5. Walked => PP!PathInv
  <2> SUFFICES ASSUME Walked  PROVE PP!PathInv
    OBVIOUS
  <2>1. request \in P!Request  BY <1>2, Operations
  <2>2. PP!GraphEdge = GraphEdge /\ PP!Request = P!Request
    BY DEF PP!GraphEdge, GraphEdge, PP!Request, P!Request
  <2>3. PP!Given  BY <1>2, <2>1, <2>2 DEF PP!Given
  <2>4. PP!Init  BY <1>3 DEF PP!Init, P!Init
  <2> QED
    BY <2>3, <2>4, PP!PathsBegin, SameAssumptions
<1>6. pc = "start"  BY <1>3 DEF T!Init
<1> QED  BY <1>2, <1>4, <1>5, <1>6, Operations DEF SessionInv

-----------------------------------------------------------------------------
(* The session's searches are instances of the modules that are proved     *)
(* about: their definitions are the same, word by word.                    *)

\* The steps of a search.
LEMMA SameSearch ==
  ASSUME T!Next
  PROVE  TT!Next
BY DEF T!Next, TT!Next, T!RefuseRequest, TT!RefuseRequest, T!StartDistances,
    TT!StartDistances, T!StartChains, TT!StartChains, T!SkipDeep, TT!SkipDeep,
    T!Visit, TT!Visit, T!NextEntry, TT!NextEntry, T!FinishDistances,
    TT!FinishDistances, T!Acceptable, TT!Acceptable, T!Chains, TT!Chains,
    T!Fresh, TT!Fresh, T!Ordered, TT!Ordered, T!Below, TT!Below, T!SearchFrom,
    TT!SearchFrom, T!Discovered, TT!Discovered, T!FirstRelation,
    TT!FirstRelation, T!SearchDirection, TT!SearchDirection, T!Allowed,
    TT!Allowed, T!Better, TT!Better, T!Reconstructed, TT!Reconstructed,
    T!Cardinality, TT!Cardinality, T!Ranked, TT!Ranked, T!AdjacentNodes,
    TT!AdjacentNodes, T!Adjacent, TT!Adjacent, T!ImpactRelations,
    TT!ImpactRelations, T!CallRelations, TT!CallRelations, T!AtPlace,
    TT!AtPlace, T!Calls, TT!Calls, T!PossibleCalls, TT!PossibleCalls,
    T!References, TT!References

\* The properties of a search.
LEMMA SameSearchProperties ==
  /\ TT!TypeOK => T!TypeOK
  /\ TT!QueueMonotone => T!QueueMonotone
  /\ TT!DistancesExact => T!DistancesExact
  /\ TT!AnswerHonest => T!AnswerHonest
  /\ TT!ChainShortest => T!ChainShortest
BY DEF T!TypeOK, TT!TypeOK, T!QueueMonotone, TT!QueueMonotone, T!DistancesExact,
    TT!DistancesExact, T!AnswerHonest, TT!AnswerHonest, T!ChainShortest,
    TT!ChainShortest, T!GraphEdge, TT!GraphEdge, T!Request, TT!Request,
    T!AdjacentNodes, TT!AdjacentNodes, T!SearchDirection, TT!SearchDirection,
    T!Allowed, TT!Allowed, T!Chains, TT!Chains, T!Within, TT!Within,
    T!RefStarts, TT!RefStarts, T!Answer, TT!Answer, T!Cardinality,
    TT!Cardinality, T!SearchOps, TT!SearchOps, T!Adjacent, TT!Adjacent,
    T!ImpactRelations, TT!ImpactRelations, T!CallRelations, TT!CallRelations,
    T!Matches, TT!Matches, T!LeastOf, TT!LeastOf, T!Calls, TT!Calls,
    T!PossibleCalls, TT!PossibleCalls, T!References, TT!References, T!Ordered,
    TT!Ordered, T!Below, TT!Below, T!Listed, TT!Listed, T!NearerBefore,
    TT!NearerBefore, T!Ranked, TT!Ranked, T!AtPlace, TT!AtPlace

\* The steps of an enumeration of paths.
LEMMA SameWalk ==
  ASSUME P!Next
  PROVE  PP!Next
BY DEF P!Next, PP!Next, P!RefuseRequest, PP!RefuseRequest, P!Start, PP!Start,
    P!WalkCut, PP!WalkCut, P!WalkFound, PP!WalkFound, P!WalkDeep, PP!WalkDeep,
    P!WalkNeighbors, PP!WalkNeighbors, P!LoopCut, PP!LoopCut, P!LoopSkip,
    PP!LoopSkip, P!LoopEnter, PP!LoopEnter, P!LoopExit, PP!LoopExit,
    P!Acceptable, PP!Acceptable, P!LimitReached, PP!LimitReached, P!Return,
    PP!Return, P!Current, PP!Current, P!Neighbors, PP!Neighbors, P!Top,
    PP!Top, P!WithTop, PP!WithTop, P!ButLast, PP!ButLast, P!Ordered,
    PP!Ordered, P!Adjacent, PP!Adjacent, P!AdjacentBefore, PP!AdjacentBefore,
    P!Ranked, PP!Ranked, P!Cardinality, PP!Cardinality, P!AtPlace, PP!AtPlace

\* The properties of an enumeration of paths.
LEMMA SameWalkProperties ==
  /\ PP!TypeOK => P!TypeOK
  /\ PP!Backtracks => P!Backtracks
  /\ PP!PathsComplete => P!PathsComplete
BY DEF P!TypeOK, PP!TypeOK, P!Backtracks, PP!Backtracks, P!PathsComplete,
    PP!PathsComplete, P!GraphEdge, PP!GraphEdge, P!Request, PP!Request,
    P!Cardinality, PP!Cardinality, P!Found, PP!Found, P!SimplePaths,
    PP!SimplePaths, P!PathBefore, PP!PathBefore, P!Steps, PP!Steps,
    P!Adjacent, PP!Adjacent, P!AdjacentBefore, PP!AdjacentBefore

-----------------------------------------------------------------------------
(* The invariant.                                                          *)

\* Nothing changes what is asked, or of which graph.
LEMMA AskedOnce ==
  ASSUME Next
  PROVE  UNCHANGED <<graph, request>>
<1>1. T!Next => UNCHANGED <<graph, request>>
  BY DEF T!Next, T!RefuseRequest, T!StartDistances, T!StartChains, T!SkipDeep, T!Visit,
         T!NextEntry, T!FinishDistances
<1>2. P!Next => UNCHANGED <<graph, request>>
  BY DEF P!Next, P!RefuseRequest, P!Start, P!WalkCut, P!WalkFound, P!WalkDeep,
         P!WalkNeighbors, P!LoopCut, P!LoopSkip, P!LoopEnter, P!LoopExit
<1> QED  BY <1>1, <1>2 DEF Next, Search, Walk, LookUp

\* A step of the session is one of its search, of its walk, or the look-up.
LEMMA SessionGoesOn ==
  ASSUME SessionInv, Next
  PROVE  SessionInv'
<1>1. UNCHANGED <<graph, request>>  BY AskedOnce
<1>2. (Searched' <=> Searched) /\ (Walked' <=> Walked)
  BY <1>1 DEF Searched, Walked
<1>3. CASE Search
  <2>1. Searched /\ T!Next  BY <1>3 DEF Search, Searched
  <2>2. TT!SearchInv /\ TT!Next  BY <2>1, SameSearch DEF SessionInv
  <2>3. TT!SearchInv'  BY <2>2, TT!SearchGoesOn, SameAssumptions
  <2>4. ~ Walked /\ request.op \notin LookupOps  BY <2>1, Operations
  <2> QED  BY <1>1, <1>2, <2>1, <2>3, <2>4 DEF SessionInv
<1>4. CASE Walk
  <2>1. Walked /\ P!Next  BY <1>4 DEF Walk, Walked
  <2>2. PP!PathInv /\ PP!Next  BY <2>1, SameWalk DEF SessionInv
  <2>3. PP!PathInv'  BY <2>2, PP!PathsGoOn, SameAssumptions
  <2>4. ~ Searched /\ request.op \notin LookupOps  BY <2>1, Operations
  <2> QED  BY <1>1, <1>2, <2>1, <2>3, <2>4 DEF SessionInv
<1>5. CASE LookUp
  <2>1. request.op \in LookupOps /\ pc' = "done" /\ catalogue' = catalogue
    BY <1>5 DEF LookUp
  <2>2. ~ Searched /\ ~ Walked  BY <2>1, Operations
  <2>3. Snapshot' = Snapshot  BY <1>1, <2>1 DEF Snapshot
  <2>4. (Opened(Snapshot) /\ LookupParsed(request))'
    <3>1. PICK s : s = Snapshot  OBVIOUS
    <3>2. PICK r : r = request  OBVIOUS
    <3>3. Opened(s) /\ LookupParsed(r)  BY <2>1, <3>1, <3>2 DEF SessionInv
    <3>4. Snapshot' = s /\ request' = r  BY <1>1, <2>3, <3>1, <3>2
    <3> QED  BY <3>3, <3>4
  <2> QED  BY <1>1, <1>2, <2>1, <2>2, <2>4 DEF SessionInv
<1> QED  BY <1>3, <1>4, <1>5 DEF Next

\* A step that leaves the session alone keeps the invariant.
LEMMA SessionStays ==
  ASSUME SessionInv, UNCHANGED vars
  PROVE  SessionInv'
<1>1. /\ UNCHANGED <<graph, catalogue, request, pc>>
      /\ UNCHANGED <<pending, start, distances, parent, queue, chain>>
      /\ UNCHANGED <<frames, nodes, relations, visited, paths, truncated>>
  BY DEF vars, search, walk
<1>2. (Searched' <=> Searched) /\ (Walked' <=> Walked)
  BY <1>1 DEF Searched, Walked
<1>3. Searched => TT!SearchInv'
  <2>1. UNCHANGED TT!vars  BY <1>1 DEF TT!vars
  <2> QED  BY <2>1, TT!SearchStays, SameAssumptions DEF SessionInv
<1>4. Walked => PP!PathInv'
  <2>1. UNCHANGED PP!vars  BY <1>1 DEF PP!vars
  <2> QED  BY <2>1, PP!PathsStay, SameAssumptions DEF SessionInv
<1>5. request.op \in LookupOps =>
        pc' \in {"start", "done"} /\ (Opened(Snapshot) /\ LookupParsed(request))'
  <2>1. PICK s : s = Snapshot  OBVIOUS
  <2>2. PICK r : r = request  OBVIOUS
  <2>3. r.op \in LookupOps => pc \in {"start", "done"} /\ Opened(s) /\ LookupParsed(r)
    BY <2>1, <2>2 DEF SessionInv
  <2>4. Snapshot' = s  BY <1>1, <2>1 DEF Snapshot
  <2>5. request' = r /\ pc' = pc  BY <1>1, <2>2
  <2> QED  BY <2>2, <2>3, <2>4, <2>5
<1> QED  BY <1>1, <1>2, <1>3, <1>4, <1>5 DEF SessionInv

\* The invariant of a session.
THEOREM SessionInvariant == Spec => []SessionInv
<1>1. Init => SessionInv  BY SessionBegins
<1>2. SessionInv /\ [Next]_vars => SessionInv'
  BY SessionGoesOn, SessionStays
<1> QED  BY <1>1, <1>2, PTL DEF Spec

-----------------------------------------------------------------------------
(* What a session promises.                                                *)

\* Whatever is looked up is answered or refused.
LEMMA LookUpsAnswered ==
  ASSUME request.op \in LookupOps
  PROVE  Answer.ok \in BOOLEAN
<1>1. \A x : Success(x).ok \in BOOLEAN /\ Failure(x).ok \in BOOLEAN
  BY DEF Success, Failure
<1> DEFINE s == Snapshot
           r == request
<1>2. Answer = LookedUp(s, r)  BY DEF Answer
<1> HIDE DEF s, r
<1> USE <1>1
<1>3. ResolveSymbol(s, r).ok \in BOOLEAN  BY DEF ResolveSymbol
<1>4. ResolveFile(s, r).ok \in BOOLEAN  BY DEF ResolveFile
<1>5. ListNodes(s, r).ok \in BOOLEAN  BY DEF ListNodes
<1>6. Neighbors(s, r).ok \in BOOLEAN  BY DEF Neighbors
<1>7. QueryUnresolved(s, r).ok \in BOOLEAN  BY DEF QueryUnresolved
<1>8. Stats(s).ok \in BOOLEAN  BY DEF Stats
<1>9. DiffSnapshot(s, r).ok \in BOOLEAN  BY DEF DiffSnapshot
<1>10. r.op \in LookupOps  BY DEF r
<1>11. LookedUp(s, r).ok \in BOOLEAN
  BY <1>3, <1>4, <1>5, <1>6, <1>7, <1>8, <1>9, <1>10 DEF LookedUp, LookupOps
<1> QED  BY <1>2, <1>11

\* What the invariant gives at every moment.
LEMMA SessionPromises ==
  ASSUME SessionInv
  PROVE  /\ TypeOK /\ QueueMonotone /\ DistancesExact /\ AnswerHonest /\ ChainShortest
         /\ Backtracks /\ PathsComplete
<1>1. ASSUME Searched
      PROVE  T!TypeOK /\ T!QueueMonotone /\ T!DistancesExact /\ T!AnswerHonest /\ T!ChainShortest
  <2>1. TT!SearchInv  BY <1>1 DEF SessionInv
  <2>2. TT!TypeOK  BY <2>1 DEF TT!SearchInv
  <2>3. TT!QueueMonotone  BY <2>1, TT!SearchMonotone, SameAssumptions
  <2>4. TT!DistancesExact  BY <2>1, TT!SearchExact, SameAssumptions
  <2>5. TT!AnswerHonest  BY <2>1, TT!SearchHonest, SameAssumptions
  <2>6. TT!ChainShortest  BY <2>1, TT!SearchShortest, SameAssumptions
  <2> QED  BY <2>2, <2>3, <2>4, <2>5, <2>6, SameSearchProperties
<1>2. ASSUME Walked  PROVE P!TypeOK /\ P!Backtracks /\ P!PathsComplete
  <2>1. PP!PathInv  BY <1>2 DEF SessionInv
  <2>2. PP!TypeOK  BY <2>1 DEF PP!PathInv
  <2>3. PP!Backtracks  BY <2>1, PP!PathsBacktrack, SameAssumptions
  <2>4. PP!PathsComplete  BY <2>1, PP!PathsAllFound, SameAssumptions
  <2> QED  BY <2>2, <2>3, <2>4, SameWalkProperties
<1>3. request.op \in LookupOps => catalogue.entries \in Seq(Entry)
  <2>1. Snapshot.entries = catalogue.entries  BY DEF Snapshot, SnapshotOf
  <2> QED  BY <2>1 DEF SessionInv, Opened
<1>4. TypeOK
  BY <1>1, <1>2, <1>3, LookUpsAnswered DEF TypeOK, SessionInv, Searched, Walked
<1> QED
  BY <1>1, <1>2, <1>4
  DEF QueueMonotone, DistancesExact, AnswerHonest, ChainShortest, Backtracks, PathsComplete

\* The variables keep their types, and a look-up is answered or refused.
THEOREM TypeCorrect == Spec => []TypeOK
<1>1. SessionInv => TypeOK  BY SessionPromises
<1> QED  BY <1>1, SessionInvariant, PTL

\* Along the queue of a search the distances never decrease, and differ by
\* at most one; what has left the queue has labelled neighbours.
THEOREM QueuesInOrder == Spec => []QueueMonotone
<1>1. SessionInv => QueueMonotone  BY SessionPromises
<1> QED  BY <1>1, SessionInvariant, PTL

\* A finished search has labelled the nodes within the limit, and no other,
\* with their least distances.
THEOREM DistancesLeast == Spec => []DistancesExact
<1>1. SessionInv => DistancesExact  BY SessionPromises
<1> QED  BY <1>1, SessionInvariant, PTL

\* An answer that does not say it is cut is complete, and a cut one returns
\* the nearest nodes.
THEOREM AnswersHonest == Spec => []AnswerHonest
<1>1. SessionInv => AnswerHonest  BY SessionPromises
<1> QED  BY <1>1, SessionInvariant, PTL

\* A chain is a shortest one over all entries, from the least entry that has
\* one, and there is none only if no entry has one within the limit.
THEOREM ChainsShortest == Spec => []ChainShortest
<1>1. SessionInv => ChainShortest  BY SessionPromises
<1> QED  BY <1>1, SessionInvariant, PTL

\* The walk over paths takes back exactly what it has visited.
THEOREM WalksBacktrack == Spec => []Backtracks
<1>1. SessionInv => Backtracks  BY SessionPromises
<1> QED  BY <1>1, SessionInvariant, PTL

\* The paths of an answer are the first of all simple paths within the limit,
\* in their order, and all of them unless the answer says that it is cut.
THEOREM PathsAllListed == Spec => []PathsComplete
<1>1. SessionInv => PathsComplete  BY SessionPromises
<1> QED  BY <1>1, SessionInvariant, PTL

-----------------------------------------------------------------------------
(* Counting.                                                               *)

\* Two sets that share nothing have together as many as both.
LEMMA DisjointCount ==
  ASSUME NEW A, IsFiniteSet(A), NEW B, IsFiniteSet(B), A \cap B = {}
  PROVE  IsFiniteSet(A \cup B) /\ Cardinality(A \cup B) = Cardinality(A) + Cardinality(B)
<1>1. /\ IsFiniteSet(A \cup B)
      /\ Cardinality(A \cup B) = Cardinality(A) + Cardinality(B) - Cardinality(A \cap B)
  BY FS_Union
<1>2. Cardinality(A \cap B) = 0  BY FS_EmptySet
<1>3. Cardinality(A) \in Nat /\ Cardinality(B) \in Nat  BY FS_CardinalityType
<1> QED  BY <1>1, <1>2, <1>3

(* The recursion that Total folds with.                                    *)
Summing(counts, S, it) ==
  it = [s \in SUBSET S |->
          IF s = {} THEN 0
          ELSE it[s \ {CHOOSE x \in s : TRUE}] + counts[CHOOSE x \in s : TRUE]]

\* A total is what some recursion has at the set.
LEMMA TotalUnfolded ==
  ASSUME NEW S, NEW counts
  PROVE  Total(counts, S) = (CHOOSE it : Summing(counts, S, it))[S]
BY DEF Total, FoldSet, MapThenFoldSet, Summing

\* The numbers from one to n are n.
LEMMA CountedNumbers ==
  ASSUME NEW n \in Nat
  PROVE  IsFiniteSet(1..n) /\ Cardinality(1..n) = n
<1>1. /\ IsFiniteSet(1..n)
      /\ Cardinality(1..n) = IF 1 > n THEN 0 ELSE n - 1 + 1
  <2>1. 1 \in Int /\ n \in Int  OBVIOUS
  <2> QED  BY <2>1, FS_Interval
<1>2. (IF 1 > n THEN 0 ELSE n - 1 + 1) = n  OBVIOUS
<1> QED  BY <1>1, <1>2

(* Those that a function maps to x.                                        *)
Fibre(E, g, x) == {e \in E : g[e] = x}

\* When each member of a set counts those that belong to it, the total counts
\* them all.
LEMMA Counted ==
  ASSUME NEW S, IsFiniteSet(S), NEW E, IsFiniteSet(E), NEW g \in [E -> S], NEW counts,
         \A x \in S : counts[x] = Cardinality(Fibre(E, g, x))
  PROVE  Total(counts, S) = Cardinality(E)
<1> DEFINE Of(s) == {e \in E : g[e] \in s}
           w == [s \in SUBSET S |-> Cardinality(Of(s))]
           n == Cardinality(S)
<1>1. \A s \in SUBSET S : IsFiniteSet(Of(s)) /\ Cardinality(Of(s)) \in Nat
  <2> TAKE s \in SUBSET S
  <2>1. Of(s) \in SUBSET E  OBVIOUS
  <2> QED  BY <2>1, FS_Subset, FS_CardinalityType
<1>2. w[{}] = 0
  <2>1. Of({}) = {}  OBVIOUS
  <2> QED  BY <2>1, FS_EmptySet
<1>3. ASSUME NEW s \in SUBSET S, NEW x \in s
      PROVE  w[s] = w[s \ {x}] + counts[x]
  <2> DEFINE A == Of(s \ {x})
             B == {e \in E : g[e] = x}
  <2>1. Of(s) = A \cup B /\ A \cap B = {}  OBVIOUS
  <2>2. A \in SUBSET E /\ B \in SUBSET E  OBVIOUS
  <2>3. w[s] = Cardinality(Of(s)) /\ w[s \ {x}] = Cardinality(A)  OBVIOUS
  <2>4. counts[x] = Cardinality(B)  BY DEF Fibre
  <2> HIDE DEF A, B, w, Of
  <2>5. IsFiniteSet(A) /\ IsFiniteSet(B)  BY <2>2, FS_Subset
  <2>6. Cardinality(A \cup B) = Cardinality(A) + Cardinality(B)
    BY <2>1, <2>5, DisjointCount
  <2> QED  BY <2>1, <2>3, <2>4, <2>6
<1>4. w[S] = Cardinality(E)
  <2>1. Of(S) = E  OBVIOUS
  <2> QED  BY <2>1
<1>5. w = [s \in SUBSET S |-> w[s]]  OBVIOUS
<1>6. \A s \in SUBSET S : w[s] \in Nat  BY <1>1
<1> HIDE DEF w, Of
<1>7. Summing(counts, S, w)
  <2>1. ASSUME NEW s \in SUBSET S, s # {}
        PROVE  w[s] = w[s \ {CHOOSE x \in s : TRUE}] + counts[CHOOSE x \in s : TRUE]
    <3>1. (CHOOSE x \in s : TRUE) \in s  BY <2>1
    <3> QED  BY <3>1, <1>3
  <2> QED  BY <2>1, <1>2, <1>5 DEF Summing
<1> DEFINE it == CHOOSE f : Summing(counts, S, f)
<1>8. Summing(counts, S, it)  BY <1>7
<1> HIDE DEF it
<1> DEFINE G == {k \in 0..n : \A s \in SUBSET S : Cardinality(s) = k => it[s] = w[s]}
<1>9. n \in Nat /\ \A s \in SUBSET S : IsFiniteSet(s) /\ Cardinality(s) \in 0..n
  <2>1. n \in Nat  BY FS_CardinalityType
  <2>2. ASSUME NEW s \in SUBSET S  PROVE IsFiniteSet(s) /\ Cardinality(s) \in 0..n
    <3>1. IsFiniteSet(s) /\ Cardinality(s) <= n  BY FS_Subset
    <3>2. Cardinality(s) \in Nat  BY <3>1, FS_CardinalityType
    <3> QED  BY <2>1, <3>1, <3>2
  <2> QED  BY <2>1, <2>2
<1>10. 0..n \subseteq G
  <2>1. 0 \in G
    <3>1. ASSUME NEW s \in SUBSET S, Cardinality(s) = 0  PROVE it[s] = w[s]
      <4>1. s = {}  BY <3>1, <1>9, FS_EmptySet
      <4> QED  BY <4>1, <1>2, <1>8 DEF Summing
    <3> QED  BY <3>1, <1>9
  <2>2. ASSUME NEW k \in 0..(n - 1), k \in G  PROVE k + 1 \in G
    <3>1. ASSUME NEW s \in SUBSET S, Cardinality(s) = k + 1  PROVE it[s] = w[s]
      <4>1. s # {}
        <5>1. Cardinality({}) = 0  BY FS_EmptySet
        <5>2. k + 1 # 0  OBVIOUS
        <5> QED  BY <3>1, <5>1, <5>2
      <4> DEFINE x == CHOOSE y \in s : TRUE
      <4>2. x \in s  BY <4>1
      <4>3. it[s] = it[s \ {x}] + counts[x]  BY <4>1, <1>8 DEF Summing
      <4> HIDE DEF x
      <4>4. Cardinality(s \ {x}) = k
        <5>1. IsFiniteSet(s)  BY <1>9
        <5>2. Cardinality(s \ {x}) = Cardinality(s) - 1  BY <4>2, <5>1, FS_RemoveElement
        <5> QED  BY <3>1, <5>2
      <4>5. it[s \ {x}] = w[s \ {x}]  BY <4>4, <2>2
      <4> QED  BY <4>2, <4>3, <4>5, <1>3
    <3> QED  BY <3>1, <1>9
  <2> HIDE DEF G
  <2> QED  BY <2>1, <2>2, <1>9, UpTo
<1>11. it[S] = w[S]
  <2>1. n \in G  BY <1>9, <1>10
  <2> QED  BY <2>1
<1> QED  BY <1>4, <1>11, TotalUnfolded DEF it

-----------------------------------------------------------------------------
(* Snapshots.                                                              *)

\* The ids of a snapshot are the numbers below its length, and the keys tell
\* them apart.
LEMMA OpenedIds ==
  ASSUME NEW s, Opened(s)
  PROVE  /\ Ids(s) \in SUBSET Nat /\ IsFiniteSet(Ids(s)) /\ Len(s.entries) \in Nat
         /\ Cardinality(Ids(s)) = Len(s.entries)
         /\ \A id \in Ids(s) : EntryOf(s, id) \in Entry
         /\ \A m, n \in Ids(s) : m < n => EntryOf(s, m).key < EntryOf(s, n).key
         /\ \A m, n \in Ids(s) : EntryOf(s, m).key = EntryOf(s, n).key => m = n
         /\ \A id \in Ids(s) : /\ EntryOf(s, id).key \in KeysOf(s)
                               /\ IdOfKey(s, EntryOf(s, id).key) = id
         /\ \A k \in KeysOf(s) : /\ IdOfKey(s, k) \in Ids(s)
                                 /\ EntryOf(s, IdOfKey(s, k)).key = k
<1> DEFINE es == s.entries
<1>1. /\ es \in Seq(Entry) /\ Len(es) \in Nat /\ DOMAIN es = 1..Len(es)
      /\ \A i, j \in DOMAIN es : i < j => es[i].key < es[j].key
  BY DEF Opened
<1>2. \A i \in 1..Len(es) : es[i] \in Entry  BY <1>1
<1> HIDE DEF es
<1>3. Ids(s) = 0..(Len(es) - 1)  BY DEF Ids, es
<1>4. \A id : EntryOf(s, id) = es[id + 1]  BY DEF EntryOf, es
<1>5. \A id \in Ids(s) : id + 1 \in 1..Len(es) /\ id \in Nat  BY <1>1, <1>3
<1>6. IsFiniteSet(Ids(s)) /\ Cardinality(Ids(s)) = Len(es)
  <2>1. Len(es) \in Nat  BY <1>1
  <2> PICK n : n = Len(es)  OBVIOUS
  <2>2. n \in Nat /\ n - 1 \in Int /\ 0 \in Int  BY <2>1
  <2>3. /\ IsFiniteSet(0..(n - 1))
        /\ Cardinality(0..(n - 1)) = IF 0 > n - 1 THEN 0 ELSE (n - 1) - 0 + 1
    BY <2>2, FS_Interval
  <2>4. (IF 0 > n - 1 THEN 0 ELSE (n - 1) - 0 + 1) = n  BY <2>2
  <2> QED  BY <2>3, <2>4, <1>3
<1>7. \A id \in Ids(s) : EntryOf(s, id) \in Entry  BY <1>2, <1>4, <1>5
<1>8. ASSUME NEW m \in Ids(s), NEW n \in Ids(s), m < n
      PROVE  EntryOf(s, m).key < EntryOf(s, n).key
  <2>1. m + 1 \in DOMAIN es /\ n + 1 \in DOMAIN es /\ m + 1 < n + 1
    BY <1>1, <1>5, <1>8
  <2> QED  BY <2>1, <1>1, <1>4
<1>9. ASSUME NEW m \in Ids(s), NEW n \in Ids(s), EntryOf(s, m).key = EntryOf(s, n).key
      PROVE  m = n
  <2>1. EntryOf(s, m).key \in Nat  BY <1>7 DEF Entry
  <2>2. ~ (m < n) /\ ~ (n < m)  BY <2>1, <1>8, <1>9
  <2> QED  BY <2>2, <1>5
<1>10. \A k \in KeysOf(s) : \E id \in Ids(s) : EntryOf(s, id).key = k  BY DEF KeysOf
<1>11. \A id \in Ids(s) : EntryOf(s, id).key \in KeysOf(s)  BY DEF KeysOf
<1>12. \A k \in KeysOf(s) : IdOfKey(s, k) \in Ids(s) /\ EntryOf(s, IdOfKey(s, k)).key = k
  BY <1>10 DEF IdOfKey
<1>13. \A id \in Ids(s) : IdOfKey(s, EntryOf(s, id).key) = id
  <2> TAKE id \in Ids(s)
  <2> DEFINE m == IdOfKey(s, EntryOf(s, id).key)
  <2>1. m \in Ids(s) /\ EntryOf(s, m).key = EntryOf(s, id).key  BY <1>11, <1>12
  <2> HIDE DEF m
  <2>2. m = id  BY <2>1, <1>9
  <2> QED  BY <2>2 DEF m
<1> QED  BY <1>1, <1>3, <1>5, <1>6, <1>7, <1>8, <1>9, <1>11, <1>12, <1>13 DEF es

\* The graph of a snapshot is finite and leads from ids to ids.
LEMMA OpenedGraph ==
  ASSUME NEW s, Opened(s)
  PROVE  /\ IsFiniteSet(s.graph)
         /\ \A e \in s.graph :
              /\ e.source \in Ids(s) /\ e.target \in Ids(s) /\ e.relation \in Relation
              /\ e = [source |-> e.source, relation |-> e.relation, target |-> e.target]
<1>1. \A e \in s.graph : e \in GraphEdge /\ e.source \in Ids(s) /\ e.target \in Ids(s)
  BY DEF Opened
<1> DEFINE R == (Node \X Relation) \X Node
           f == [e \in s.graph |-> <<<<e.source, e.relation>>, e.target>>]
<1>2. IsFiniteSet(R)  BY NodeAssumption, RelationAssumption, FS_Product
<1>3. f \in [s.graph -> R]  BY <1>1 DEF GraphEdge
<1>4. ASSUME NEW d \in s.graph, NEW e \in s.graph, f[d] = f[e]  PROVE d = e
  <2>1. d.source = e.source /\ d.relation = e.relation /\ d.target = e.target  BY <1>4
  <2>2. d \in GraphEdge /\ e \in GraphEdge  BY <1>1
  <2> QED  BY <2>1, <2>2 DEF GraphEdge
<1> HIDE DEF f, R
<1>5. f \in Injection(s.graph, R)  BY <1>3, <1>4 DEF Injection, IsInjective
<1>6. IsFiniteSet(s.graph)  BY <1>2, <1>5, FS_Injection
<1> QED  BY <1>1, <1>6 DEF GraphEdge

(* The relations of a snapshot that leave a node, that arrive there and    *)
(* that have a kind, and where its references have a source.               *)
Leaving(s, n, allowed) == {e \in s.graph : e.relation \in allowed /\ e.source = n}
Arriving(s, n, allowed) == {e \in s.graph : e.relation \in allowed /\ e.target = n}
OfRelation(s, r) == {e \in s.graph : e.relation = r}
SourcePlaces(s, n) ==
  {i \in DOMAIN s.unresolved : s.unresolved[i].source = EntryOf(s, n).key}

\* A node has a neighbour for each of its relations.
LEMMA AdjacentCount ==
  ASSUME NEW s, Opened(s), NEW n, NEW allowed
  PROVE  /\ Cardinality(Adjacent(s.graph, n, "outgoing", allowed))
              = Cardinality(Leaving(s, n, allowed))
         /\ Cardinality(Adjacent(s.graph, n, "incoming", allowed))
              = Cardinality(Arriving(s, n, allowed))
<1>1. /\ IsFiniteSet(s.graph)
      /\ \A e \in s.graph :
           e = [source |-> e.source, relation |-> e.relation, target |-> e.target]
  BY OpenedGraph
<1> DEFINE A == {e \in s.graph : e.relation \in allowed /\ e.source = n}
           B == {e \in s.graph : e.relation \in allowed /\ e.target = n}
           f == [e \in A |-> <<e.target, e.relation>>]
           g == [e \in B |-> <<e.source, e.relation>>]
           SA == {<<e.target, e.relation>> : e \in A}
           SB == {<<e.source, e.relation>> : e \in B}
<1>2. Adjacent(s.graph, n, "outgoing", allowed) = SA  BY DEF Adjacent
<1>3. Adjacent(s.graph, n, "incoming", allowed) = SB  BY DEF Adjacent
<1>4. IsFiniteSet(A) /\ IsFiniteSet(B)
  <2>1. A \in SUBSET s.graph /\ B \in SUBSET s.graph  OBVIOUS
  <2> QED  BY <1>1, <2>1, FS_Subset
<1>5. Cardinality(SA) = Cardinality(A)
  <2>1. f \in [A -> SA] /\ \A x \in SA : \E e \in A : f[e] = x  OBVIOUS
  <2>2. ASSUME NEW d \in A, NEW e \in A, f[d] = f[e]  PROVE d = e
    <3>1. d.target = e.target /\ d.relation = e.relation /\ d.source = e.source  BY <2>2
    <3> QED  BY <3>1, <1>1
  <2> HIDE DEF f, A, SA
  <2>3. f \in Bijection(A, SA)
    BY <2>1, <2>2 DEF Bijection, Injection, Surjection, IsInjective
  <2> QED  BY <1>4, <2>3, FS_Bijection DEF ExistsBijection
<1>6. Cardinality(SB) = Cardinality(B)
  <2>1. g \in [B -> SB] /\ \A x \in SB : \E e \in B : g[e] = x  OBVIOUS
  <2>2. ASSUME NEW d \in B, NEW e \in B, g[d] = g[e]  PROVE d = e
    <3>1. d.target = e.target /\ d.relation = e.relation /\ d.source = e.source  BY <2>2
    <3> QED  BY <3>1, <1>1
  <2> HIDE DEF g, B, SB
  <2>3. g \in Bijection(B, SB)
    BY <2>1, <2>2 DEF Bijection, Injection, Surjection, IsInjective
  <2> QED  BY <1>4, <2>3, FS_Bijection DEF ExistsBijection
<1>7. A = Leaving(s, n, allowed) /\ B = Arriving(s, n, allowed)  BY DEF Leaving, Arriving
<1> QED  BY <1>2, <1>3, <1>5, <1>6, <1>7

\* No two relations have the same code in the graph (relation_to_edge_kind).
LEMMA CodesDiffer ==
  ASSUME NEW q \in Relation, NEW r \in Relation
  PROVE  EdgeKindCode(q) \in Nat /\ (EdgeKindCode(q) = EdgeKindCode(r) => q = r)
<1>1. q \in 0..18 /\ r \in 0..18  BY PlacesAssumption
<1>2. ASSUME NEW k \in 0..18
      PROVE  \/ k \in 0..4 /\ EdgeKindCode(k) = k + 1
             \/ k \in 5..6 /\ EdgeKindCode(k) = k + 8
             \/ k \in 7..8 /\ EdgeKindCode(k) = k - 1
             \/ k \in 9..13 /\ EdgeKindCode(k) = k + 6
             \/ k \in 14..18 /\ EdgeKindCode(k) = k - 6
  <2>1. CASE k \in 0..4  BY <2>1 DEF EdgeKindCode
  <2>2. CASE k \in 5..6  BY <2>2 DEF EdgeKindCode
  <2>3. CASE k \in 7..8  BY <2>3 DEF EdgeKindCode
  <2>4. CASE k \in 9..13  BY <2>4 DEF EdgeKindCode
  <2>5. CASE k \in 14..18  BY <2>5 DEF EdgeKindCode
  <2> QED  BY <2>1, <2>2, <2>3, <2>4, <2>5
<1> QED  BY <1>1, <1>2

\* The graph has the neighbours of a node in a total order.
LEMMA StoredOrdered ==
  ASSUME NEW S \in SUBSET (Nat \X Relation)
  PROVE  TotalOrder({p \in S \X S : StoredBefore(p[1], p[2])}, S)
<1> DEFINE R == {p \in S \X S : StoredBefore(p[1], p[2])}
<1>1. \A x, y \in S : <<x, y>> \in R <=> StoredBefore(x, y)
  OBVIOUS
<1>2. \A x \in S : x[1] \in Nat /\ EdgeKindCode(x[2]) \in Nat /\ x = <<x[1], x[2]>>
  BY CodesDiffer
<1>3. \A x, y \in S : EdgeKindCode(x[2]) = EdgeKindCode(y[2]) => x[2] = y[2]
  BY CodesDiffer
<1> HIDE DEF R
<1>4. \A x \in S : ~ StoredBefore(x, x)  BY <1>2 DEF StoredBefore
<1>5. \A x, y, z \in S : StoredBefore(x, y) /\ StoredBefore(y, z) => StoredBefore(x, z)
  BY <1>2 DEF StoredBefore
<1>6. \A x, y \in S : x # y => StoredBefore(x, y) \/ StoredBefore(y, x)
  BY <1>2, <1>3 DEF StoredBefore
<1> QED  BY <1>1, <1>4, <1>5, <1>6 DEF TotalOrder, R

\* The list of the neighbours of a node has them all.
LEMMA NeighborsListed ==
  ASSUME NEW s, Opened(s), NEW n, NEW direction, NEW allowed
  PROVE  Len(Ordered(Adjacent(s.graph, n, direction, allowed), StoredBefore))
           = Cardinality(Adjacent(s.graph, n, direction, allowed))
<1> DEFINE S == Adjacent(s.graph, n, direction, allowed)
           R == {p \in S \X S : StoredBefore(p[1], p[2])}
<1>1. S \in SUBSET (Ids(s) \X Relation)
  BY OpenedGraph DEF Adjacent
<1>2. IsFiniteSet(S)
  <2>1. IsFiniteSet(Ids(s) \X Relation)  BY OpenedIds, RelationAssumption, FS_Product
  <2> QED  BY <1>1, <2>1, FS_Subset
<1>3. S \in SUBSET (Nat \X Relation)
  BY <1>1, OpenedIds
<1>4. Ordered(S, StoredBefore) = Ranked(S, R)  BY DEF Ordered
<1> HIDE DEF S
<1>5. TotalOrder(R, S)  BY <1>3, StoredOrdered
<1> HIDE DEF R
<1>6. Len(Ranked(S, R)) = Cardinality(S)  BY <1>2, <1>5, RankedLists
<1> QED  BY <1>4, <1>6 DEF S

-----------------------------------------------------------------------------
(* Statistics.                                                             *)

\* The filtered references are as many as there are places for them.
LEMMA WhereCount ==
  ASSUME NEW s, Opened(s), NEW keep
  PROVE  Len(Filtered(s.unresolved, keep)) = Cardinality(PlacesOf(s.unresolved, keep))
<1> PICK X : X = [source : KeysOf(s), relation : Relation, reason : Reason]  OBVIOUS
<1>1. s.unresolved \in Seq(X)  BY DEF Opened
<1> QED  BY <1>1, FilteredList

\* The relations of a kind are counted where they leave.
LEMMA RelationsLeave ==
  ASSUME NEW s, Opened(s), NEW r
  PROVE  RelationTotal(s, r) = Cardinality(OfRelation(s, r))
<1> DEFINE E == OfRelation(s, r)
           g == [e \in E |-> e.source]
           counts == [n \in Ids(s) |-> Cardinality(Adjacent(s.graph, n, "outgoing", {r}))]
<1>1. IsFiniteSet(E) /\ g \in [E -> Ids(s)]
  <2>1. E \in SUBSET s.graph  BY DEF OfRelation
  <2> QED  BY <2>1, OpenedGraph, FS_Subset
<1>2. ASSUME NEW n \in Ids(s)  PROVE counts[n] = Cardinality(Fibre(E, g, n))
  <2>1. Fibre(E, g, n) = Leaving(s, n, {r})  BY DEF Fibre, Leaving, OfRelation
  <2>2. counts[n] = Cardinality(Adjacent(s.graph, n, "outgoing", {r}))  OBVIOUS
  <2> HIDE DEF E, g, counts
  <2> QED  BY <2>1, <2>2, AdjacentCount
<1>3. IsFiniteSet(Ids(s))  BY OpenedIds
<1> HIDE DEF E, g, counts
<1>4. Total(counts, Ids(s)) = Cardinality(E)  BY <1>1, <1>2, <1>3, Counted
<1> QED  BY <1>4 DEF RelationTotal, counts, E

(* What is counted at each node.                                           *)
CountsArriving(s, r, counts) ==
  \A n \in Ids(s) : counts[n] = Cardinality(Adjacent(s.graph, n, "incoming", {r}))
CountsSources(s, counts) == \A n \in Ids(s) : counts[n] = Cardinality(SourcePlaces(s, n))

\* They are as many where they arrive.
LEMMA RelationsArrive ==
  ASSUME NEW s, Opened(s), NEW r, NEW counts, CountsArriving(s, r, counts)
  PROVE  Total(counts, Ids(s)) = Cardinality(OfRelation(s, r))
<1> DEFINE E == OfRelation(s, r)
           g == [e \in E |-> e.target]
<1>1. IsFiniteSet(E) /\ g \in [E -> Ids(s)]
  <2>1. E \in SUBSET s.graph  BY DEF OfRelation
  <2> QED  BY <2>1, OpenedGraph, FS_Subset
<1>2. ASSUME NEW n \in Ids(s)  PROVE counts[n] = Cardinality(Fibre(E, g, n))
  <2>1. Fibre(E, g, n) = Arriving(s, n, {r})  BY DEF Fibre, Arriving, OfRelation
  <2>2. counts[n] = Cardinality(Adjacent(s.graph, n, "incoming", {r}))
    BY DEF CountsArriving
  <2> HIDE DEF E, g
  <2> QED  BY <2>1, <2>2, AdjacentCount
<1>3. IsFiniteSet(Ids(s))  BY OpenedIds
<1> HIDE DEF E, g
<1>4. Total(counts, Ids(s)) = Cardinality(E)  BY <1>1, <1>2, <1>3, Counted
<1> QED  BY <1>4 DEF E

\* The relations of all kinds together are the graph.
LEMMA RelationsTogether ==
  ASSUME NEW s, Opened(s), NEW counts,
         \A r \in Relation : counts[r] = Cardinality(OfRelation(s, r))
  PROVE  Total(counts, Relation) = Cardinality(s.graph)
<1> DEFINE E == s.graph
           g == [e \in E |-> e.relation]
<1>1. IsFiniteSet(E) /\ g \in [E -> Relation]  BY OpenedGraph
<1>2. ASSUME NEW r \in Relation  PROVE counts[r] = Cardinality(Fibre(E, g, r))
  <2>1. Fibre(E, g, r) = OfRelation(s, r)  BY DEF Fibre, OfRelation
  <2> QED  BY <2>1
<1>3. IsFiniteSet(Relation)  BY RelationAssumption
<1> HIDE DEF E, g
<1>4. Total(counts, Relation) = Cardinality(E)  BY <1>1, <1>2, <1>3, Counted
<1> QED  BY <1>4 DEF E

\* Every reference is listed for one node, its source.
LEMMA ReferencesTogether ==
  ASSUME NEW s, Opened(s), NEW counts, CountsSources(s, counts)
  PROVE  Total(counts, Ids(s)) = Len(s.unresolved)
<1> DEFINE us == s.unresolved
           D == DOMAIN us
           g == [i \in D |-> IdOfKey(s, us[i].source)]
<1> PICK X : X = [source : KeysOf(s), relation : Relation, reason : Reason]  OBVIOUS
<1>1. us \in Seq(X)  BY DEF Opened
<1>2. ASSUME NEW i \in D  PROVE us[i].source \in KeysOf(s)
  <2>1. us[i] \in X
    <3> HIDE DEF us
    <3> QED  BY <1>1, Member
  <2> HIDE DEF us
  <2> QED  BY <2>1
<1>3. IsFiniteSet(D) /\ Cardinality(D) = Len(us)
  <2> HIDE DEF us
  <2> PICK n : n = Len(us)  OBVIOUS
  <2>1. n \in Nat /\ D = 1..n  BY <1>1
  <2>2. IsFiniteSet(1..n) /\ Cardinality(1..n) = n  BY <2>1, CountedNumbers
  <2> QED  BY <2>1, <2>2
<1>4. g \in [D -> Ids(s)]
  <2> HIDE DEF us, D
  <2>1. \A i \in D : IdOfKey(s, us[i].source) \in Ids(s)  BY <1>2, OpenedIds
  <2> QED  BY <2>1
<1>5. ASSUME NEW n \in Ids(s)  PROVE counts[n] = Cardinality(Fibre(D, g, n))
  <2>1. \A i \in D : g[i] = n <=> us[i].source = EntryOf(s, n).key
    <3> HIDE DEF us, D
    <3> TAKE i \in D
    <3>1. us[i].source \in KeysOf(s) /\ g[i] = IdOfKey(s, us[i].source)  BY <1>2
    <3> HIDE DEF g
    <3> QED  BY <3>1, OpenedIds
  <2>2. Fibre(D, g, n) = SourcePlaces(s, n)
    <3> HIDE DEF g
    <3> QED  BY <2>1 DEF Fibre, SourcePlaces
  <2> HIDE DEF us, D, g
  <2> QED  BY <2>2 DEF CountsSources
<1>6. IsFiniteSet(Ids(s))  BY OpenedIds
<1> HIDE DEF us, D, g
<1>7. Total(counts, Ids(s)) = Cardinality(D)  BY <1>3, <1>4, <1>5, <1>6, Counted
<1> QED  BY <1>3, <1>7 DEF us

(* The number of references with a reason, and of nodes of a kind.         *)
WithReason(s, w) == Cardinality({i \in DOMAIN s.unresolved : s.unresolved[i].reason = w})
OfKind(s, k) == Cardinality({i \in DOMAIN s.entries : s.entries[i].kind = k})

\* The index by kind has an id for every entry of the kind.
LEMMA KindIndexed ==
  ASSUME NEW s, Opened(s), NEW k
  PROVE  Len(IdsByKind(s, k)) = OfKind(s, k)
<1> DEFINE K == {id \in Ids(s) : EntryOf(s, id).kind = k}
           D == {i \in DOMAIN s.entries : s.entries[i].kind = k}
           f == [id \in K |-> id + 1]
<1>1. /\ Len(s.entries) \in Nat /\ DOMAIN s.entries = 1..Len(s.entries)
      /\ Ids(s) = 0..(Len(s.entries) - 1)
  BY OpenedIds DEF Opened, Ids
<1>2. \A id : EntryOf(s, id) = s.entries[id + 1]  BY DEF EntryOf
<1>3. K \in SUBSET Nat /\ IsFiniteSet(K)
  <2>1. K \in SUBSET Ids(s)  OBVIOUS
  <2> QED  BY <2>1, OpenedIds, FS_Subset
<1>4. f \in [K -> D]  BY <1>1, <1>2
<1>5. \A m, n \in K : f[m] = f[n] => m = n  BY <1>3
<1>6. \A i \in D : \E id \in K : f[id] = i
  <2> TAKE i \in D
  <2>1. i - 1 \in Ids(s) /\ (i - 1) + 1 = i  BY <1>1
  <2>2. i - 1 \in K  BY <1>2, <2>1
  <2> QED  BY <2>1, <2>2
<1>7. IdsByKind(s, k) = Ascending(K)  BY DEF IdsByKind, Ordered, Ascending, Below
<1> HIDE DEF K, D, f
<1>8. f \in Bijection(K, D)
  BY <1>4, <1>5, <1>6 DEF Bijection, Injection, Surjection, IsInjective
<1>9. Cardinality(K) = Cardinality(D)  BY <1>3, <1>8, FS_Bijection DEF ExistsBijection
<1>10. Len(Ascending(K)) = Cardinality(K)  BY <1>3, AscendingList
<1> QED  BY <1>7, <1>9, <1>10 DEF OfKind, D

\* What is asked of a snapshot without restriction but one.
LEMMA RestrictedOnce ==
  ASSUME NEW s, Opened(s)
  PROVE  /\ \A k \in Kind :
              ListNodes(s, [Unrestricted EXCEPT !.kind = k]).result.count = Len(IdsByKind(s, k))
         /\ \A n \in Ids(s), r \in Relation :
              Len(Neighbors(s, [Unrestricted EXCEPT !.node = n, !.relation = r,
                                                    !.direction = "incoming"]).result)
                = Cardinality(Adjacent(s.graph, n, "incoming", {r}))
         /\ \A w \in Reason :
              QueryUnresolved(s, [Unrestricted EXCEPT !.reason = w]).result.count
                = WithReason(s, w)
         /\ \A n \in Ids(s) :
              QueryUnresolved(s, [Unrestricted EXCEPT !.node = n]).result.count
                = Cardinality(SourcePlaces(s, n))
<1>1. /\ None \notin Kind /\ None \notin Reason /\ None \notin Nat /\ None # Malformed
      /\ Ids(s) \subseteq Nat /\ Relation \subseteq Nat
  BY KindAssumption, NoneAssumption, RelationAssumption, OpenedIds
<1>2. \A items, limit : Success(Listing(items, limit)).result.count = Len(items)
  BY DEF Success, Listing
<1>3. ASSUME NEW k \in Kind
      PROVE  ListNodes(s, [Unrestricted EXCEPT !.kind = k]).result.count = Len(IdsByKind(s, k))
  <2> DEFINE q == [Unrestricted EXCEPT !.kind = k]
  <2>1. q.kind = k /\ q.path = None  BY DEF Unrestricted
  <2> HIDE DEF q
  <2>2. NormalPath(q.path) = None /\ ~ Unknown(q.kind, Kind) /\ q.kind # None
    BY <2>1, <1>1 DEF NormalPath, Unknown
  <2>3. ListNodes(s, q) = Success(Listing(IdsByKind(s, k), q.limit))
    BY <2>1, <2>2, <1>1 DEF ListNodes
  <2> QED  BY <2>3, <1>2 DEF q
<1>4. ASSUME NEW n \in Ids(s), NEW r \in Relation
      PROVE  Len(Neighbors(s, [Unrestricted EXCEPT !.node = n, !.relation = r,
                                                   !.direction = "incoming"]).result)
               = Cardinality(Adjacent(s.graph, n, "incoming", {r}))
  <2> DEFINE q == [Unrestricted EXCEPT !.node = n, !.relation = r, !.direction = "incoming"]
  <2>1. q.node = n /\ q.relation = r /\ q.direction = "incoming"  BY DEF Unrestricted
  <2> HIDE DEF q
  <2>2. q.relation # None /\ ~ Unknown(q.relation, Relation)
    BY <2>1, <1>1 DEF Unknown
  <2>3. Neighbors(s, q).result = Ordered(Adjacent(s.graph, n, "incoming", {r}), StoredBefore)
    BY <2>1, <2>2 DEF Neighbors, Success
  <2> QED  BY <2>3, NeighborsListed DEF q
<1>5. ASSUME NEW w \in Reason
      PROVE  QueryUnresolved(s, [Unrestricted EXCEPT !.reason = w]).result.count
               = WithReason(s, w)
  <2> DEFINE q == [Unrestricted EXCEPT !.reason = w]
             kept == {u \in Elements(s.unresolved) : u.reason = w}
             places == {i \in DOMAIN s.unresolved : s.unresolved[i].reason = w}
  <2>1. q.reason = w /\ q.node = None /\ q.relation = None /\ q.path = None
    BY DEF Unrestricted
  <2> HIDE DEF q
  <2>2. /\ q.reason # None /\ ~ Unknown(q.reason, Reason) /\ NormalPath(q.path) = None
        /\ ~ Unknown(q.node, Ids(s)) /\ ~ Unknown(q.relation, Relation)
    BY <2>1, <1>1 DEF Unknown, NormalPath
  <2>3. QueryUnresolved(s, q) = Success(Listing(Filtered(s.unresolved, kept), q.limit))
    BY <2>1, <2>2, <1>1 DEF QueryUnresolved, Where
  <2>4. PlacesOf(s.unresolved, kept) = places
    BY DEF Elements, PlacesOf
  <2> HIDE DEF kept
  <2>5. Len(Filtered(s.unresolved, kept)) = Cardinality(PlacesOf(s.unresolved, kept))
    BY WhereCount
  <2> QED  BY <2>3, <2>4, <2>5, <1>2 DEF q, WithReason
<1>6. ASSUME NEW n \in Ids(s)
      PROVE  QueryUnresolved(s, [Unrestricted EXCEPT !.node = n]).result.count
               = Cardinality(SourcePlaces(s, n))
  <2> DEFINE q == [Unrestricted EXCEPT !.node = n]
             kept == {u \in Elements(s.unresolved) : u.source = EntryOf(s, n).key}
  <2>1. q.node = n /\ q.reason = None /\ q.relation = None /\ q.path = None
    BY DEF Unrestricted
  <2> HIDE DEF q
  <2>2. /\ q.node # None /\ ~ Unknown(q.reason, Reason) /\ NormalPath(q.path) = None
        /\ ~ Unknown(q.node, Ids(s)) /\ ~ Unknown(q.relation, Relation)
    BY <2>1, <1>1 DEF Unknown, NormalPath
  <2>3. QueryUnresolved(s, q) = Success(Listing(Filtered(s.unresolved, kept), q.limit))
    BY <2>1, <2>2, <1>1 DEF QueryUnresolved, Where
  <2>4. PlacesOf(s.unresolved, kept) = SourcePlaces(s, n)
    BY DEF Elements, PlacesOf, SourcePlaces
  <2> HIDE DEF kept
  <2>5. Len(Filtered(s.unresolved, kept)) = Cardinality(PlacesOf(s.unresolved, kept))
    BY WhereCount
  <2> QED  BY <2>3, <2>4, <2>5, <1>2 DEF q
<1> QED  BY <1>3, <1>4, <1>5, <1>6

\* What the statistics of a snapshot count is what the other queries list.
LEMMA StatisticsAgree ==
  ASSUME NEW s, s = Snapshot, Opened(s), pc = "done", request.op = "stats"
  PROVE  StatsAgree
<1> DEFINE stats == Answer.result
           arriving(r) == [n \in Ids(s) |->
             Len(Neighbors(s, [Unrestricted EXCEPT !.node = n, !.relation = r,
                                                   !.direction = "incoming"]).result)]
           sources == [n \in Ids(s) |->
             QueryUnresolved(s, [Unrestricted EXCEPT !.node = n]).result.count]
<1>1. Answer = Stats(s)  BY DEF Answer, LookedUp
<1>2. /\ stats.edges = Cardinality(s.graph) /\ stats.unresolved = Len(s.unresolved)
      /\ stats.byRelation = [r \in Relation |-> RelationTotal(s, r)]
      /\ \A k \in Kind : stats.byKind[k] = OfKind(s, k)
      /\ \A w \in Reason : stats.byReason[w] = WithReason(s, w)
  BY <1>1 DEF Stats, Success, WithReason, OfKind, CountOf
<1> HIDE DEF stats
<1>3. ASSUME NEW r \in Relation
      PROVE  stats.byRelation[r] = Total(arriving(r), Ids(s))
  <2>1. stats.byRelation[r] = Cardinality(OfRelation(s, r))  BY <1>2, RelationsLeave
  <2>2. CountsArriving(s, r, arriving(r))  BY RestrictedOnce DEF CountsArriving
  <2> HIDE DEF arriving
  <2> QED  BY <2>1, <2>2, RelationsArrive
<1>4. stats.edges = Total(stats.byRelation, Relation)
  <2>1. \A r \in Relation : stats.byRelation[r] = Cardinality(OfRelation(s, r))
    BY <1>2, RelationsLeave
  <2> QED  BY <2>1, <1>2, RelationsTogether
<1>5. stats.unresolved = Total(sources, Ids(s))
  <2>1. CountsSources(s, sources)  BY RestrictedOnce DEF CountsSources
  <2> HIDE DEF sources
  <2> QED  BY <2>1, <1>2, ReferencesTogether
<1>6. \A k \in Kind :
        stats.byKind[k] = ListNodes(s, [Unrestricted EXCEPT !.kind = k]).result.count
  <2>1. \A k \in Kind : stats.byKind[k] = Len(IdsByKind(s, k))  BY <1>2, KindIndexed
  <2>2. \A k \in Kind :
          ListNodes(s, [Unrestricted EXCEPT !.kind = k]).result.count = Len(IdsByKind(s, k))
    BY RestrictedOnce
  <2> QED  BY <2>1, <2>2
<1>7. \A w \in Reason :
        stats.byReason[w] = QueryUnresolved(s, [Unrestricted EXCEPT !.reason = w]).result.count
  <2>1. \A w \in Reason : stats.byReason[w] = WithReason(s, w)  BY <1>2
  <2>2. \A w \in Reason :
          QueryUnresolved(s, [Unrestricted EXCEPT !.reason = w]).result.count = WithReason(s, w)
    BY RestrictedOnce
  <2> QED  BY <2>1, <2>2
<1> QED  BY <1>3, <1>4, <1>5, <1>6, <1>7 DEF StatsAgree, stats

-----------------------------------------------------------------------------
(* Listings and comparisons.                                               *)

\* A limit is a number.
LEMMA LimitBounds ==
  ASSUME NEW limit \in Nat \cup {None}
  PROVE  BoundedLimit(limit) \in Nat
BY LimitAssumption DEF BoundedLimit, LeastNat

\* A listing is the beginning of its items, cut at the limit.
LEMMA ListingCut ==
  ASSUME NEW X, NEW items \in Seq(X), NEW limit \in Nat \cup {None}
  PROVE  LET l == Listing(items, limit)
         IN  /\ l.count = Len(items)
             /\ IsPrefix(l.returned, items)
             /\ Len(l.returned) = LeastNat(BoundedLimit(limit), Len(items))
             /\ l.truncated <=> l.returned # items
             /\ l.truncated <=> Len(items) > BoundedLimit(limit)
<1> DEFINE n == LeastNat(BoundedLimit(limit), Len(items))
           part == SubSeq(items, 1, n)
           l == Listing(items, limit)
<1>1. BoundedLimit(limit) \in Nat /\ Len(items) \in Nat  BY LimitBounds
<1>2. n \in 0..Len(items) /\ (n < Len(items) <=> BoundedLimit(limit) < Len(items))
  BY <1>1 DEF LeastNat
<1>3. l.count = Len(items) /\ l.returned = part /\ l.truncated = (Len(items) > Len(part))
  BY DEF Listing
<1> HIDE DEF n, l
<1>4. part \in Seq(X) /\ Len(part) = n /\ \A i \in 1..n : part[i] = items[i]
  BY <1>2
<1>5. n = Len(items) => part = items  BY <1>4
<1>6. n < Len(items) => part # items  BY <1>1, <1>2, <1>4
<1> HIDE DEF part
<1>7. IsPrefix(part, items)
  <2>1. Len(part) <= Len(items)  BY <1>1, <1>2, <1>4
  <2>2. \A i \in 1..Len(part) : part[i] = items[i]  BY <1>4
  <2>3. SubSeq(part, 1, Len(part)) = part /\ SubSeq(items, 1, Len(part)) = part
    BY <1>2, <1>4 DEF part
  <2> QED  BY <2>1, <2>2, <2>3 DEF IsPrefix
<1>8. n = Len(items) \/ n < Len(items)  BY <1>1, <1>2
<1>9. l.truncated <=> n < Len(items)  BY <1>1, <1>2, <1>3, <1>4
<1>10. l.truncated <=> l.returned # items  BY <1>3, <1>5, <1>6, <1>8, <1>9
<1>11. l.truncated <=> Len(items) > BoundedLimit(limit)  BY <1>1, <1>2, <1>9
<1>12. Len(l.returned) = n  BY <1>3, <1>4
<1> QED  BY <1>3, <1>7, <1>10, <1>11, <1>12 DEF l, n

\* The keys of a snapshot, in the order of the ids, are in their own order.
LEMMA KeysInOrder ==
  ASSUME NEW s, Opened(s)
  PROVE  /\ Len(s.entries) = Len(Ascending(KeysOf(s)))
         /\ \A id \in Ids(s) : EntryOf(s, id).key = Ascending(KeysOf(s))[id + 1]
<1> DEFINE ks == [i \in 1..Len(s.entries) |-> EntryOf(s, i - 1).key]
<1>1. Len(s.entries) \in Nat  BY OpenedIds
<1>2. \A i \in 1..Len(s.entries) : i - 1 \in Ids(s)  BY <1>1 DEF Ids
<1>3. \A id \in Ids(s) : id + 1 \in 1..Len(s.entries) /\ (id + 1) - 1 = id
  BY <1>1 DEF Ids
<1>4. ks \in Seq(Nat) /\ Len(ks) = Len(s.entries)
  <2>1. \A i \in 1..Len(s.entries) : EntryOf(s, i - 1).key \in Nat
    BY <1>2, OpenedIds DEF Entry
  <2> QED  BY <1>1, <2>1
<1>5. \A i, j \in DOMAIN ks : i < j => ks[i] < ks[j]
  <2> SUFFICES ASSUME NEW i \in DOMAIN ks, NEW j \in DOMAIN ks, i < j
               PROVE  ks[i] < ks[j]
    OBVIOUS
  <2>1. i - 1 \in Ids(s) /\ j - 1 \in Ids(s) /\ i - 1 < j - 1  BY <1>1, <1>2
  <2> QED  BY <2>1, OpenedIds
<1>6. Elements(ks) = KeysOf(s)
  <2>1. \A i \in DOMAIN ks : ks[i] \in KeysOf(s)  BY <1>2, OpenedIds
  <2>2. ASSUME NEW k \in KeysOf(s)  PROVE \E i \in DOMAIN ks : ks[i] = k
    <3>1. PICK id \in Ids(s) : EntryOf(s, id).key = k  BY DEF KeysOf
    <3>2. id + 1 \in DOMAIN ks /\ ks[id + 1] = k  BY <1>3, <3>1
    <3> QED  BY <3>2
  <2> QED  BY <2>1, <2>2 DEF Elements
<1>7. \A id \in Ids(s) : ks[id + 1] = EntryOf(s, id).key  BY <1>3
<1> HIDE DEF ks
<1>8. ks = Ascending(KeysOf(s))  BY <1>4, <1>5, <1>6, AscendingUnique
<1> QED  BY <1>4, <1>7, <1>8

\* A relation between keys is one between their ids.
LEMMA LogicalEdge ==
  ASSUME NEW s, Opened(s)
  PROVE  /\ \A l \in LogicalGraph(s) : /\ l = <<l[1], l[2], l[3]>> /\ l[2] \in Relation
                                       /\ l[1] \in KeysOf(s) /\ l[3] \in KeysOf(s)
         /\ \A r : \A m, n \in Ids(s) :
              <<EntryOf(s, m).key, r, EntryOf(s, n).key>> \in LogicalGraph(s)
                <=> [source |-> m, relation |-> r, target |-> n] \in s.graph
         /\ \A x, r : \A k \in KeysOf(s) :
              <<x, r>> \in LogicalOutgoing(s, k) <=> <<k, r, x>> \in LogicalGraph(s)
<1> USE OpenedIds, OpenedGraph
<1>1. \A l \in LogicalGraph(s) : /\ l = <<l[1], l[2], l[3]>> /\ l[2] \in Relation
                                 /\ l[1] \in KeysOf(s) /\ l[3] \in KeysOf(s)
  BY DEF LogicalGraph
<1>2. ASSUME NEW m \in Ids(s), NEW n \in Ids(s), NEW r
      PROVE  <<EntryOf(s, m).key, r, EntryOf(s, n).key>> \in LogicalGraph(s)
               <=> [source |-> m, relation |-> r, target |-> n] \in s.graph
  <2>1. ASSUME <<EntryOf(s, m).key, r, EntryOf(s, n).key>> \in LogicalGraph(s)
        PROVE  [source |-> m, relation |-> r, target |-> n] \in s.graph
    <3>1. PICK e \in s.graph :
            /\ EntryOf(s, e.source).key = EntryOf(s, m).key /\ e.relation = r
            /\ EntryOf(s, e.target).key = EntryOf(s, n).key
      BY <2>1 DEF LogicalGraph
    <3>2. e.source \in Ids(s) /\ e.target \in Ids(s)  OBVIOUS
    <3>3. e.source = m /\ e.target = n  BY <3>1, <3>2
    <3> QED  BY <3>1, <3>3
  <2>2. ASSUME [source |-> m, relation |-> r, target |-> n] \in s.graph
        PROVE  <<EntryOf(s, m).key, r, EntryOf(s, n).key>> \in LogicalGraph(s)
    <3> DEFINE e == [source |-> m, relation |-> r, target |-> n]
    <3>1. e.source = m /\ e.relation = r /\ e.target = n  OBVIOUS
    <3>2. e \in s.graph  BY <2>2
    <3> HIDE DEF e
    <3> QED  BY <3>1, <3>2 DEF LogicalGraph
  <2> QED  BY <2>1, <2>2
<1>3. ASSUME NEW k \in KeysOf(s), NEW x, NEW r
      PROVE  <<x, r>> \in LogicalOutgoing(s, k) <=> <<k, r, x>> \in LogicalGraph(s)
  <2> DEFINE A == Adjacent(s.graph, IdOfKey(s, k), "outgoing", Relation)
  <2>1. IdOfKey(s, k) \in Ids(s) /\ EntryOf(s, IdOfKey(s, k)).key = k  OBVIOUS
  <2>2. ASSUME <<x, r>> \in LogicalOutgoing(s, k)  PROVE <<k, r, x>> \in LogicalGraph(s)
    <3>1. PICK a \in A : <<x, r>> = <<EntryOf(s, a[1]).key, a[2]>>
      BY <2>2 DEF LogicalOutgoing
    <3>2. PICK e \in s.graph : e.source = IdOfKey(s, k) /\ a = <<e.target, e.relation>>
      BY <3>1 DEF Adjacent
    <3> QED  BY <2>1, <3>1, <3>2 DEF LogicalGraph
  <2>3. ASSUME <<k, r, x>> \in LogicalGraph(s)  PROVE <<x, r>> \in LogicalOutgoing(s, k)
    <3>1. PICK e \in s.graph :
            /\ EntryOf(s, e.source).key = k /\ e.relation = r
            /\ EntryOf(s, e.target).key = x
      BY <2>3 DEF LogicalGraph
    <3>2. e.source = IdOfKey(s, k) /\ e.relation \in Relation
      BY <2>1, <3>1
    <3>3. <<e.target, r>> \in A  BY <3>1, <3>2 DEF Adjacent
    <3>4. <<x, r>> = <<EntryOf(s, (<<e.target, r>>)[1]).key, (<<e.target, r>>)[2]>>
      BY <3>1
    <3> HIDE DEF A
    <3>5. \E a \in A : <<x, r>> = <<EntryOf(s, a[1]).key, a[2]>>
      BY <3>3, <3>4
    <3> QED  BY <3>5 DEF LogicalOutgoing, A
  <2> QED  BY <2>2, <2>3
<1> QED  BY <1>1, <1>2, <1>3

\* A node leads to other keys exactly when other relations leave its key.
LEMMA OutgoingLeaves ==
  ASSUME NEW s, Opened(s), NEW o, Opened(o), NEW k \in KeysOf(s) \cap KeysOf(o)
  PROVE  LogicalOutgoing(s, k) # LogicalOutgoing(o, k)
           <=> {l \in LogicalGraph(s) : l[1] = k} # {l \in LogicalGraph(o) : l[1] = k}
<1>1. \A x, r : /\ <<x, r>> \in LogicalOutgoing(s, k) <=> <<k, r, x>> \in LogicalGraph(s)
                /\ <<x, r>> \in LogicalOutgoing(o, k) <=> <<k, r, x>> \in LogicalGraph(o)
  BY LogicalEdge
<1>2. /\ \A l \in LogicalGraph(s) : l = <<l[1], l[2], l[3]>>
      /\ \A l \in LogicalGraph(o) : l = <<l[1], l[2], l[3]>>
  BY LogicalEdge
<1>3. /\ \A a \in LogicalOutgoing(s, k) : a = <<a[1], a[2]>>
      /\ \A a \in LogicalOutgoing(o, k) : a = <<a[1], a[2]>>
  BY DEF LogicalOutgoing
<1>4. ASSUME LogicalOutgoing(s, k) = LogicalOutgoing(o, k)
      PROVE  {l \in LogicalGraph(s) : l[1] = k} = {l \in LogicalGraph(o) : l[1] = k}
  <2>1. \A r, x : <<k, r, x>> \in LogicalGraph(s) <=> <<k, r, x>> \in LogicalGraph(o)
    BY <1>1, <1>4
  <2>2. ASSUME NEW l \in LogicalGraph(s), l[1] = k  PROVE l \in LogicalGraph(o)
    <3>1. l = <<k, l[2], l[3]>>  BY <1>2, <2>2
    <3> QED  BY <3>1, <2>1
  <2>3. ASSUME NEW l \in LogicalGraph(o), l[1] = k  PROVE l \in LogicalGraph(s)
    <3>1. l = <<k, l[2], l[3]>>  BY <1>2, <2>3
    <3> QED  BY <3>1, <2>1
  <2> QED  BY <2>2, <2>3
<1>5. ASSUME {l \in LogicalGraph(s) : l[1] = k} = {l \in LogicalGraph(o) : l[1] = k}
      PROVE  LogicalOutgoing(s, k) = LogicalOutgoing(o, k)
  <2>1. \A r, x : <<k, r, x>> \in LogicalGraph(s) <=> <<k, r, x>> \in LogicalGraph(o)
    <3> TAKE r, x
    <3>1. (<<k, r, x>>)[1] = k  OBVIOUS
    <3> QED  BY <3>1, <1>5
  <2>2. ASSUME NEW a \in LogicalOutgoing(s, k)  PROVE a \in LogicalOutgoing(o, k)
    <3> PICK x, q : a = <<x, q>>  BY <1>3
    <3>1. <<k, q, x>> \in LogicalGraph(s)  BY <1>1
    <3>2. <<k, q, x>> \in LogicalGraph(o)  BY <2>1, <3>1
    <3> QED  BY <1>1, <3>2
  <2>3. ASSUME NEW a \in LogicalOutgoing(o, k)  PROVE a \in LogicalOutgoing(s, k)
    <3> PICK x, q : a = <<x, q>>  BY <1>3
    <3>1. <<k, q, x>> \in LogicalGraph(o)  BY <1>1
    <3>2. <<k, q, x>> \in LogicalGraph(s)  BY <2>1, <3>1
    <3> QED  BY <1>1, <3>2
  <2> QED  BY <2>2, <2>3
<1> QED  BY <1>4, <1>5

\* Snapshots with the same keys have the same ids, and with the same relations
\* between keys the same graph.
LEMMA SameDatasets ==
  ASSUME NEW s, Opened(s), NEW o, Opened(o),
         KeysOf(s) = KeysOf(o), LogicalGraph(s) = LogicalGraph(o)
  PROVE  DatasetChecksum(s) = DatasetChecksum(o)
<1>1. Len(s.entries) = Len(o.entries)  BY KeysInOrder
<1>2. Ids(s) = Ids(o)  BY <1>1 DEF Ids
<1>3. \A id \in Ids(s) : EntryOf(s, id).key = EntryOf(o, id).key
  BY <1>2, KeysInOrder
<1>4. ASSUME NEW e \in s.graph  PROVE e \in o.graph
  <2>1. /\ e.source \in Ids(s) /\ e.target \in Ids(s)
        /\ e = [source |-> e.source, relation |-> e.relation, target |-> e.target]
    BY OpenedGraph
  <2>2. <<EntryOf(s, e.source).key, e.relation, EntryOf(s, e.target).key>> \in LogicalGraph(s)
    BY DEF LogicalGraph
  <2>3. <<EntryOf(o, e.source).key, e.relation, EntryOf(o, e.target).key>> \in LogicalGraph(o)
    BY <2>1, <2>2, <1>3
  <2>4. [source |-> e.source, relation |-> e.relation, target |-> e.target] \in o.graph
    BY <2>1, <2>3, <1>2, LogicalEdge
  <2> QED  BY <2>1, <2>4
<1>5. ASSUME NEW e \in o.graph  PROVE e \in s.graph
  <2>1. /\ e.source \in Ids(s) /\ e.target \in Ids(s)
        /\ e = [source |-> e.source, relation |-> e.relation, target |-> e.target]
    BY <1>2, OpenedGraph
  <2>2. <<EntryOf(o, e.source).key, e.relation, EntryOf(o, e.target).key>> \in LogicalGraph(o)
    BY DEF LogicalGraph
  <2>3. <<EntryOf(s, e.source).key, e.relation, EntryOf(s, e.target).key>> \in LogicalGraph(s)
    BY <2>1, <2>2, <1>3
  <2>4. [source |-> e.source, relation |-> e.relation, target |-> e.target] \in s.graph
    BY <2>1, <2>3, LogicalEdge
  <2> QED  BY <2>1, <2>4
<1>6. s.graph = o.graph  BY <1>4, <1>5
<1> QED  BY <1>1, <1>6 DEF DatasetChecksum

\* The catalogues have the same entries when they have the same keys and for
\* every key the same entry.
LEMMA SameEntries ==
  ASSUME NEW s, Opened(s), NEW o, Opened(o), KeysOf(s) = KeysOf(o)
  PROVE  Elements(s.entries) = Elements(o.entries)
           <=> \A k \in KeysOf(s) : EntryOfKey(s, k) = EntryOfKey(o, k)
<1>1. ASSUME NEW t, Opened(t)
      PROVE  /\ \A k \in KeysOf(t) : EntryOfKey(t, k) \in Elements(t.entries)
                                     /\ EntryOfKey(t, k).key = k
             /\ \A x \in Elements(t.entries) : x.key \in KeysOf(t) /\ EntryOfKey(t, x.key) = x
  <2>1. /\ DOMAIN t.entries = 1..Len(t.entries) /\ Len(t.entries) \in Nat
    BY <1>1 DEF Opened
  <2>2. \A i \in DOMAIN t.entries : i - 1 \in Ids(t) /\ EntryOf(t, i - 1) = t.entries[i]
    BY <2>1 DEF Ids, EntryOf
  <2>3. \A id \in Ids(t) : id + 1 \in DOMAIN t.entries /\ EntryOf(t, id) = t.entries[id + 1]
    BY <2>1 DEF Ids, EntryOf
  <2>4. ASSUME NEW k \in KeysOf(t)
        PROVE  EntryOfKey(t, k) \in Elements(t.entries) /\ EntryOfKey(t, k).key = k
    <3>1. IdOfKey(t, k) \in Ids(t) /\ EntryOf(t, IdOfKey(t, k)).key = k
      BY <1>1, OpenedIds
    <3> QED  BY <3>1, <2>3 DEF EntryOfKey, Elements
  <2>5. ASSUME NEW x \in Elements(t.entries)
        PROVE  x.key \in KeysOf(t) /\ EntryOfKey(t, x.key) = x
    <3>1. PICK i \in DOMAIN t.entries : x = t.entries[i]  BY DEF Elements
    <3>2. x = EntryOf(t, i - 1) /\ i - 1 \in Ids(t)  BY <3>1, <2>2
    <3>3. EntryOf(t, i - 1).key \in KeysOf(t) /\ IdOfKey(t, EntryOf(t, i - 1).key) = i - 1
      BY <1>1, <3>2, OpenedIds
    <3> QED  BY <3>2, <3>3 DEF EntryOfKey
  <2> QED  BY <2>4, <2>5
<1>2. ASSUME Elements(s.entries) = Elements(o.entries), NEW k \in KeysOf(s)
      PROVE  EntryOfKey(s, k) = EntryOfKey(o, k)
  <2> DEFINE x == EntryOfKey(s, k)
  <2>1. x \in Elements(s.entries) /\ x.key = k  BY <1>1
  <2>2. x \in Elements(o.entries)  BY <1>2, <2>1
  <2> HIDE DEF x
  <2>3. EntryOfKey(o, x.key) = x  BY <1>1, <2>2
  <2> QED  BY <2>1, <2>3 DEF x
<1>3. ASSUME \A k \in KeysOf(s) : EntryOfKey(s, k) = EntryOfKey(o, k)
      PROVE  Elements(s.entries) = Elements(o.entries)
  <2>1. ASSUME NEW x \in Elements(s.entries)  PROVE x \in Elements(o.entries)
    <3>1. x.key \in KeysOf(s) /\ EntryOfKey(s, x.key) = x  BY <1>1
    <3>2. EntryOfKey(o, x.key) = x  BY <3>1, <1>3
    <3>3. EntryOfKey(o, x.key) \in Elements(o.entries)  BY <3>1, <1>1
    <3> QED  BY <3>2, <3>3
  <2>2. ASSUME NEW x \in Elements(o.entries)  PROVE x \in Elements(s.entries)
    <3>1. x.key \in KeysOf(o) /\ EntryOfKey(o, x.key) = x  BY <1>1
    <3>2. EntryOfKey(s, x.key) = x  BY <3>1, <1>3
    <3>3. EntryOfKey(s, x.key) \in Elements(s.entries)  BY <3>1, <1>1
    <3> QED  BY <3>2, <3>3
  <2> QED  BY <2>1, <2>2
<1> QED  BY <1>2, <1>3

\* What a comparison answers, and how much of it it lists.
LEMMA DiffListed ==
  ASSUME NEW r, NEW K, IsFiniteSet(K), K \in SUBSET Nat, r.limit \in Nat \cup {None}
  PROVE  Cardinality(K) > BoundedLimit(r.limit)
           <=> Cardinality(K) > Len(Listing(Ordered(K, Below), r.limit).returned)
<1> DEFINE a == Ascending(K)
<1>1. Ordered(K, Below) = a  BY DEF Ordered, Ascending, Below
<1>2. a \in Seq(K) /\ Len(a) = Cardinality(K)  BY AscendingList
<1>3. Len(Listing(a, r.limit).returned) = LeastNat(BoundedLimit(r.limit), Len(a))
  BY <1>2, ListingCut
<1> HIDE DEF a
<1>4. BoundedLimit(r.limit) \in Nat /\ Len(a) \in Nat
  <2>1. Len(a) \in Nat  BY <1>2
  <2> QED  BY <2>1, LimitBounds
<1> QED  BY <1>1, <1>2, <1>3, <1>4 DEF LeastNat

\* A comparison finds what differs.
LEMMA ComparisonExact ==
  ASSUME NEW s, s = Snapshot, Opened(s), LookupParsed(request),
         pc = "done", request.op = "diff"
  PROVE  DiffExact
<1> SUFFICES ASSUME request.other # Malformed  PROVE DiffExact
  BY DEF DiffExact
<1> DEFINE o == request.other
           KS == KeysOf(s)
           KO == KeysOf(o)
           GS == LogicalGraph(s)
           GO == LogicalGraph(o)
           metadata == {k \in KS \cap KO : EntryOfKey(s, k) # EntryOfKey(o, k)}
           relationship == {k \in KS \cap KO : LogicalOutgoing(s, k) # LogicalOutgoing(o, k)}
           rewired == {k \in KS \cap KO : {l \in GS : l[1] = k} # {l \in GO : l[1] = k}}
           lists == [added |-> KS \ KO, removed |-> KO \ KS, metadata |-> metadata,
                     relationship |-> relationship]
           changed == (KS \ KO) \cup (KO \ KS) \cup relationship # {}
           result == Answer.result
           sameGraph == KS = KO /\ GS = GO
<1>1. Opened(o) /\ request.limit \in Nat \cup {None}  BY DEF LookupParsed
<1>2. Answer = DiffSnapshot(s, request)  BY DEF Answer, LookedUp
<1>3. /\ result.snapshotChanged = (changed \/ metadata # {})
      /\ result.graphChanged = changed
      /\ result.checksumChanged = (DatasetChecksum(s) # DatasetChecksum(o))
      /\ result.counts = [l \in DOMAIN lists |-> Cardinality(lists[l])]
      /\ result.truncated =
           (\E l \in DOMAIN lists : Cardinality(lists[l]) > BoundedLimit(request.limit))
      /\ result.nodes = [l \in DOMAIN lists |->
                           Listing(Ordered(lists[l], Below), request.limit).returned]
  BY <1>2 DEF DiffSnapshot, Success
<1> HIDE DEF result
<1>4. \A l \in GS : l[1] \in KS  BY LogicalEdge
<1>5. \A l \in GO : l[1] \in KO  BY <1>1, LogicalEdge
<1>6. relationship = rewired  BY <1>1, OutgoingLeaves
<1> HIDE DEF relationship
<1>7. changed <=> ~ sameGraph
  <2>1. ASSUME ~ changed  PROVE sameGraph
    <3>1. KS = KO /\ rewired = {}  BY <2>1, <1>6
    <3>2. \A k \in KS : {l \in GS : l[1] = k} = {l \in GO : l[1] = k}  BY <3>1
    <3>3. \A l \in GS : l \in GO  BY <3>2, <1>4
    <3>4. \A l \in GO : l \in GS  BY <3>1, <3>2, <1>5
    <3> QED  BY <3>1, <3>3, <3>4
  <2>2. ASSUME sameGraph  PROVE ~ changed
    <3>1. rewired = {}  BY <2>2
    <3> QED  BY <2>2, <3>1, <1>6
  <2> QED  BY <2>1, <2>2
<1>8. (changed \/ metadata # {})
        <=> ~ (sameGraph /\ Elements(s.entries) = Elements(o.entries))
  <2>1. ASSUME sameGraph
        PROVE  metadata # {} <=> Elements(s.entries) # Elements(o.entries)
    <3>1. KS = KO  BY <2>1
    <3>2. metadata # {} <=> ~ \A k \in KS : EntryOfKey(s, k) = EntryOfKey(o, k)  BY <3>1
    <3> QED  BY <3>1, <3>2, <1>1, SameEntries
  <2> QED  BY <2>1, <1>7
<1>9. ~ changed => ~ (DatasetChecksum(s) # DatasetChecksum(o))
  BY <1>1, <1>7, SameDatasets
<1>10. \A l \in DOMAIN lists : lists[l] \in SUBSET Nat /\ IsFiniteSet(lists[l])
  <2>1. ASSUME NEW t, Opened(t)  PROVE KeysOf(t) \in SUBSET Nat /\ IsFiniteSet(KeysOf(t))
    <3> DEFINE f == [id \in Ids(t) |-> EntryOf(t, id).key]
    <3>1. f \in Surjection(Ids(t), KeysOf(t))
      BY <2>1, OpenedIds DEF Surjection, KeysOf
    <3>2. IsFiniteSet(KeysOf(t))  BY <2>1, <3>1, OpenedIds, FS_Surjection
    <3>3. KeysOf(t) \in SUBSET Nat  BY <2>1, OpenedIds DEF KeysOf, Entry
    <3> QED  BY <3>2, <3>3
  <2>2. /\ KS \in SUBSET Nat /\ IsFiniteSet(KS)
        /\ KO \in SUBSET Nat /\ IsFiniteSet(KO)
    BY <2>1, <1>1
  <2>3. /\ KS \ KO \in SUBSET KS /\ KO \ KS \in SUBSET KO
        /\ metadata \in SUBSET KS /\ relationship \in SUBSET KS
    BY <1>6
  <2>4. /\ IsFiniteSet(KS \ KO) /\ IsFiniteSet(KO \ KS)
        /\ IsFiniteSet(metadata) /\ IsFiniteSet(relationship)
    BY <2>2, <2>3, FS_Subset
  <2> HIDE DEF KS, KO, metadata
  <2>5. /\ KS \ KO \in SUBSET Nat /\ KO \ KS \in SUBSET Nat
        /\ metadata \in SUBSET Nat /\ relationship \in SUBSET Nat
    BY <2>2, <2>3
  <2>6. \A l \in DOMAIN lists : lists[l] \in {KS \ KO, KO \ KS, metadata, relationship}
    OBVIOUS
  <2> QED  BY <2>4, <2>5, <2>6
<1>11. result.counts.relationship = Cardinality(rewired)
  BY <1>3, <1>6
<1> HIDE DEF lists
<1>12. result.truncated <=>
         \E l \in DOMAIN result.counts : result.counts[l] > Len(result.nodes[l])
  <2>1. \A l \in DOMAIN lists :
          Cardinality(lists[l]) > BoundedLimit(request.limit)
            <=> Cardinality(lists[l])
                  > Len(Listing(Ordered(lists[l], Below), request.limit).returned)
    BY <1>1, <1>10, DiffListed
  <2> QED  BY <2>1, <1>3
<1> HIDE DEF metadata, changed
<1> QED
  BY <1>3, <1>7, <1>8, <1>9, <1>11, <1>12 DEF DiffExact, result

-----------------------------------------------------------------------------
(* What two lists have in common.                                          *)

(* The recursion of Intersection.                                          *)
Meeting(left, right, from) ==
  from = [p \in (1..(Len(left) + 1)) \X (1..(Len(right) + 1)) |->
            IF p[1] > Len(left) \/ p[2] > Len(right) THEN <<>>
            ELSE IF left[p[1]] < right[p[2]] THEN from[<<p[1] + 1, p[2]>>]
            ELSE IF left[p[1]] > right[p[2]] THEN from[<<p[1], p[2] + 1>>]
            ELSE <<left[p[1]]>> \o from[<<p[1] + 1, p[2] + 1>>]]

\* An intersection is what some recursion has at the beginning of both lists.
LEMMA IntersectionUnfolded ==
  ASSUME NEW left, NEW right
  PROVE  Intersection(left, right) = (CHOOSE from : Meeting(left, right, from))[<<1, 1>>]
BY DEF Intersection, Meeting

(* What a list holds from a place on.                                      *)
From(s, i) == {s[k] : k \in i..Len(s)}

\* A least number comes first.
LEMMA AscendingFirst ==
  ASSUME NEW U \in SUBSET Nat, IsFiniteSet(U), NEW x \in Nat, \A y \in U : x < y
  PROVE  Ascending({x} \cup U) = <<x>> \o Ascending(U)
<1> DEFINE a == Ascending(U)
           n == Len(a)
           c == <<x>> \o a
<1>1. /\ a \in Seq(U) /\ Elements(a) = U
      /\ \A i, j \in DOMAIN a : i < j => a[i] < a[j]
  BY AscendingList
<1> HIDE DEF a
<1>2. \A i : i \in DOMAIN a <=> i \in 1..n  BY <1>1
<1>3. n \in Nat /\ a \in Seq(Nat) /\ \A i \in 1..n : a[i] \in U
  <2>1. \A i \in DOMAIN a : a[i] \in U  BY <1>1, Member
  <2>2. n \in Nat  BY <1>1
  <2>3. a \in Seq(Nat)
    <3>1. a = [i \in 1..n |-> a[i]]  BY <1>1
    <3>2. \A i \in 1..n : a[i] \in Nat  BY <2>1, <1>2
    <3> HIDE DEF n
    <3> QED  BY <2>2, <3>1, <3>2
  <2> QED  BY <2>1, <2>2, <2>3, <1>2
<1>4. \A i, j \in 1..n : i < j => a[i] < a[j]  BY <1>1, <1>2
<1>5. c \in Seq(Nat) /\ Len(c) = 1 + n /\ c[1] = x /\ \A i \in 1..n : c[1 + i] = a[i]
  BY <1>3, Prepended
<1> HIDE DEF c
<1>6. \A i : i \in DOMAIN c <=> i \in 1..(1 + n)  BY <1>5
<1> HIDE DEF n
<1>7. \A i \in 1..(1 + n) : i = 1 \/ \E k \in 1..n : i = 1 + k
  <2> TAKE i \in 1..(1 + n)
  <2>1. i # 1 => i - 1 \in 1..n /\ i = 1 + (i - 1)  BY <1>3
  <2> QED  BY <2>1
<1>8. 1 \in 1..(1 + n) /\ \A k \in 1..n : 1 + k \in 1..(1 + n)  BY <1>3
<1>9. ASSUME NEW i \in DOMAIN c, NEW j \in DOMAIN c, i < j  PROVE c[i] < c[j]
  <2>1. i \in 1..(1 + n) /\ j \in 1..(1 + n) /\ j # 1  BY <1>3, <1>6, <1>9
  <2>2. PICK l \in 1..n : j = 1 + l  BY <2>1, <1>7
  <2>3. c[j] = a[l] /\ a[l] \in U  BY <2>2, <1>3, <1>5
  <2>4. CASE i = 1  BY <2>3, <2>4, <1>5
  <2>5. CASE i # 1
    <3>1. PICK k \in 1..n : i = 1 + k  BY <2>1, <2>5, <1>7
    <3>2. c[i] = a[k]  BY <3>1, <1>5
    <3>3. k < l  BY <3>1, <2>2, <1>3, <1>9
    <3> QED  BY <3>2, <3>3, <2>3, <1>4
  <2> QED  BY <2>4, <2>5
<1>10. Elements(c) = {x} \cup U
  <2>1. ASSUME NEW i \in DOMAIN c  PROVE c[i] \in {x} \cup U
    <3>1. CASE i = 1  BY <3>1, <1>5
    <3>2. CASE i # 1
      <4>1. PICK k \in 1..n : i = 1 + k  BY <3>2, <1>6, <1>7
      <4> QED  BY <4>1, <1>3, <1>5
    <3> QED  BY <3>1, <3>2
  <2>2. ASSUME NEW y \in U  PROVE \E i \in DOMAIN c : c[i] = y
    <3>1. PICK k \in DOMAIN a : a[k] = y  BY <1>1 DEF Elements
    <3>2. 1 + k \in DOMAIN c /\ c[1 + k] = y  BY <3>1, <1>2, <1>5, <1>6, <1>8
    <3> QED  BY <3>2
  <2>3. 1 \in DOMAIN c /\ c[1] = x  BY <1>5, <1>6, <1>8
  <2> QED  BY <2>1, <2>2, <2>3 DEF Elements
<1>11. c = Ascending(Elements(c))  BY <1>5, <1>9, AscendingUnique
<1> QED  BY <1>10, <1>11 DEF c, a

\* The walk over two sorted lists finds what they have in common, in order.
LEMMA IntersectionExact ==
  ASSUME NEW A \in SUBSET Nat, IsFiniteSet(A), NEW B \in SUBSET Nat, IsFiniteSet(B)
  PROVE  Intersection(Ascending(A), Ascending(B)) = Ascending(A \cap B)
<1> DEFINE l == Ascending(A)
           r == Ascending(B)
           m == Len(l)
           n == Len(r)
           D == (1..(m + 1)) \X (1..(n + 1))
           w == [p \in D |-> Ascending(From(l, p[1]) \cap From(r, p[2]))]
<1>1. /\ l \in Seq(A) /\ Elements(l) = A /\ \A i, j \in DOMAIN l : i < j => l[i] < l[j]
      /\ r \in Seq(B) /\ Elements(r) = B /\ \A i, j \in DOMAIN r : i < j => r[i] < r[j]
  BY AscendingList
<1> HIDE DEF l, r
<1>18. /\ \A i : i \in DOMAIN l <=> i \in 1..m
       /\ \A i : i \in DOMAIN r <=> i \in 1..n
  BY <1>1
<1>2. /\ m \in Nat /\ \A i \in 1..m : i \in DOMAIN l /\ l[i] \in A /\ l[i] \in Nat
      /\ n \in Nat /\ \A i \in 1..n : i \in DOMAIN r /\ r[i] \in B /\ r[i] \in Nat
  <2>1. m \in Nat /\ n \in Nat  BY <1>1
  <2>2. \A i \in DOMAIN l : l[i] \in A  BY <1>1, Member
  <2>3. \A i \in DOMAIN r : r[i] \in B  BY <1>1, Member
  <2> QED  BY <2>1, <2>2, <2>3, <1>18
<1>3. From(l, 1) = A /\ From(r, 1) = B
  <2>1. A = {l[i] : i \in DOMAIN l} /\ B = {r[i] : i \in DOMAIN r}  BY <1>1 DEF Elements
  <2> QED  BY <2>1, <1>18 DEF From
<1>4. From(l, m + 1) = {} /\ From(r, n + 1) = {}
  <2>1. (m + 1)..Len(l) = {} /\ (n + 1)..Len(r) = {}  BY <1>2
  <2> QED  BY <2>1 DEF From
<1>5. ASSUME NEW i \in 1..m
      PROVE  /\ From(l, i) = {l[i]} \cup From(l, i + 1)
             /\ \A x \in From(l, i + 1) : l[i] < x
             /\ From(l, i) \subseteq A /\ From(l, i + 1) \subseteq A
  <2>1. i..Len(l) = {i} \cup ((i + 1)..Len(l))  BY <1>2
  <2>2. \A k \in (i + 1)..Len(l) : k \in DOMAIN l /\ i \in DOMAIN l /\ i < k  BY <1>2
  <2>3. \A k \in (i + 1)..Len(l) : l[i] < l[k]  BY <2>2, <1>1
  <2> QED  BY <2>1, <2>2, <2>3, <1>2 DEF From
<1>6. ASSUME NEW j \in 1..n
      PROVE  /\ From(r, j) = {r[j]} \cup From(r, j + 1)
             /\ \A x \in From(r, j + 1) : r[j] < x
             /\ From(r, j) \subseteq B /\ From(r, j + 1) \subseteq B
  <2>1. j..Len(r) = {j} \cup ((j + 1)..Len(r))  BY <1>2
  <2>2. \A k \in (j + 1)..Len(r) : k \in DOMAIN r /\ j \in DOMAIN r /\ j < k  BY <1>2
  <2>3. \A k \in (j + 1)..Len(r) : r[j] < r[k]  BY <2>2, <1>1
  <2> QED  BY <2>1, <2>2, <2>3, <1>2 DEF From
<1>7. w = [p \in D |-> w[p]] /\ \A p \in D : w[p] = Ascending(From(l, p[1]) \cap From(r, p[2]))
  OBVIOUS
<1>8. \A p \in D : p = <<p[1], p[2]>> /\ p[1] \in 1..(m + 1) /\ p[2] \in 1..(n + 1)
  OBVIOUS
<1>9. \A i \in 1..(m + 1), j \in 1..(n + 1) :
        <<i, j>> \in D /\ (<<i, j>>)[1] = i /\ (<<i, j>>)[2] = j
  OBVIOUS
<1> HIDE DEF w, D
<1>10. ASSUME NEW p \in D
       PROVE  w[p] = IF p[1] > m \/ p[2] > n THEN <<>>
                     ELSE IF l[p[1]] < r[p[2]] THEN w[<<p[1] + 1, p[2]>>]
                     ELSE IF l[p[1]] > r[p[2]] THEN w[<<p[1], p[2] + 1>>]
                     ELSE <<l[p[1]]>> \o w[<<p[1] + 1, p[2] + 1>>]
  <2> DEFINE i == p[1]
             j == p[2]
  <2>1. i \in 1..(m + 1) /\ j \in 1..(n + 1)  BY <1>8
  <2>2. w[p] = Ascending(From(l, i) \cap From(r, j))  BY <1>7
  <2> HIDE DEF i, j
  <2>3. CASE i > m \/ j > n
    <3>1. i = m + 1 \/ j = n + 1
      <4>1. m \in Nat /\ n \in Nat  BY <1>2
      <4> HIDE DEF m, n
      <4> QED  BY <4>1, <2>1, <2>3
    <3>2. From(l, i) \cap From(r, j) = {}  BY <3>1, <1>4
    <3>3. Ascending({}) = <<>>
      <4>1. Ascending({}) \in Seq({}) /\ Len(Ascending({})) = 0  BY AscendingList, FS_EmptySet
      <4> QED  BY <4>1
    <3> QED  BY <2>2, <2>3, <3>2, <3>3 DEF i, j
  <2>4. CASE ~ (i > m \/ j > n)
    <3>1. /\ i \in 1..m /\ j \in 1..n /\ i + 1 \in 1..(m + 1) /\ j + 1 \in 1..(n + 1)
          /\ l[i] \in Nat /\ r[j] \in Nat
      BY <2>1, <2>4, <1>2
    <3>2. /\ From(l, i) = {l[i]} \cup From(l, i + 1)
          /\ From(l, i) \subseteq A /\ From(l, i + 1) \subseteq A
          /\ \A x \in From(l, i + 1) : l[i] < x /\ x \in Nat
          /\ From(r, j) = {r[j]} \cup From(r, j + 1)
          /\ From(r, j) \subseteq B /\ From(r, j + 1) \subseteq B
          /\ \A x \in From(r, j + 1) : r[j] < x /\ x \in Nat
      BY <3>1, <1>5, <1>6
    <3>3. /\ w[<<i + 1, j>>] = Ascending(From(l, i + 1) \cap From(r, j))
          /\ w[<<i, j + 1>>] = Ascending(From(l, i) \cap From(r, j + 1))
          /\ w[<<i + 1, j + 1>>] = Ascending(From(l, i + 1) \cap From(r, j + 1))
      BY <2>1, <3>1, <1>7, <1>9
    <3>4. CASE l[i] < r[j]
      <4>1. l[i] \notin From(r, j)  BY <3>1, <3>2, <3>4
      <4>2. From(l, i) \cap From(r, j) = From(l, i + 1) \cap From(r, j)  BY <3>2, <4>1
      <4> QED  BY <2>2, <2>4, <3>3, <3>4, <4>2 DEF i, j
    <3>5. CASE l[i] > r[j]
      <4>1. r[j] \notin From(l, i)  BY <3>1, <3>2, <3>5
      <4>2. From(l, i) \cap From(r, j) = From(l, i) \cap From(r, j + 1)  BY <3>2, <4>1
      <4>3. ~ (l[i] < r[j])  BY <3>1, <3>5
      <4> QED  BY <2>2, <2>4, <3>3, <3>5, <4>2, <4>3 DEF i, j
    <3>6. CASE l[i] = r[j]
      <4> DEFINE U == From(l, i + 1) \cap From(r, j + 1)
      <4>1. From(l, i) \cap From(r, j) = {l[i]} \cup U  BY <3>1, <3>2, <3>6
      <4>2. U \in SUBSET A /\ U \in SUBSET Nat /\ \A x \in U : l[i] < x  BY <3>2
      <4>3. IsFiniteSet(U)  BY <4>2, FS_Subset
      <4>4. w[<<i + 1, j + 1>>] = Ascending(U)  BY <3>3
      <4> HIDE DEF U
      <4>5. Ascending({l[i]} \cup U) = <<l[i]>> \o Ascending(U)
        BY <3>1, <4>2, <4>3, AscendingFirst
      <4>6. ~ (l[i] < r[j]) /\ ~ (l[i] > r[j])  BY <3>1, <3>6
      <4> QED  BY <2>2, <2>4, <4>1, <4>4, <4>5, <4>6 DEF i, j
    <3> QED  BY <3>1, <3>4, <3>5, <3>6
  <2> QED  BY <2>3, <2>4
<1>11. Meeting(l, r, w)
  <2>1. D = (1..(Len(l) + 1)) \X (1..(Len(r) + 1))  BY DEF D
  <2> QED  BY <2>1, <1>7, <1>10 DEF Meeting
<1> DEFINE it == CHOOSE f : Meeting(l, r, f)
<1>12. Meeting(l, r, it)  BY <1>11
<1> HIDE DEF it
<1>13. ASSUME NEW p \in D
       PROVE  it[p] = IF p[1] > m \/ p[2] > n THEN <<>>
                      ELSE IF l[p[1]] < r[p[2]] THEN it[<<p[1] + 1, p[2]>>]
                      ELSE IF l[p[1]] > r[p[2]] THEN it[<<p[1], p[2] + 1>>]
                      ELSE <<l[p[1]]>> \o it[<<p[1] + 1, p[2] + 1>>]
  BY <1>12 DEF Meeting, D
<1> DEFINE far(p) == (m + 1 - p[1]) + (n + 1 - p[2])
           G == {k \in 0..(m + n) : \A p \in D : far(p) <= k => it[p] = w[p]}
<1>14. 0 \in G
  <2>1. ASSUME NEW p \in D, far(p) <= 0  PROVE it[p] = w[p]
    <3>1. p[1] > m \/ p[2] > n  BY <2>1, <1>2, <1>8
    <3> QED  BY <3>1, <1>10, <1>13
  <2> QED  BY <2>1, <1>2
<1>15. ASSUME NEW k \in 0..((m + n) - 1), k \in G  PROVE k + 1 \in G
  <2>1. ASSUME NEW p \in D, far(p) <= k + 1  PROVE it[p] = w[p]
    <3> DEFINE i == p[1]
               j == p[2]
    <3>1. CASE i > m \/ j > n  BY <3>1, <1>10, <1>13
    <3>2. CASE ~ (i > m \/ j > n)
      <4>1. /\ i \in 1..(m + 1) /\ i + 1 \in 1..(m + 1)
            /\ j \in 1..(n + 1) /\ j + 1 \in 1..(n + 1)
        BY <3>2, <1>2, <1>8
      <4>2. /\ <<i + 1, j>> \in D /\ far(<<i + 1, j>>) <= k
            /\ <<i, j + 1>> \in D /\ far(<<i, j + 1>>) <= k
            /\ <<i + 1, j + 1>> \in D /\ far(<<i + 1, j + 1>>) <= k
        <5>2. /\ <<i + 1, j>> \in D /\ <<i, j + 1>> \in D /\ <<i + 1, j + 1>> \in D
          BY <4>1, <1>9
        <5>3. far(<<i + 1, j>>) = (m + 1 - (i + 1)) + (n + 1 - j)  BY <4>1
        <5>4. far(<<i, j + 1>>) = (m + 1 - i) + (n + 1 - (j + 1))  BY <4>1
        <5>5. far(<<i + 1, j + 1>>) = (m + 1 - (i + 1)) + (n + 1 - (j + 1))  BY <4>1
        <5>6. (m + 1 - i) + (n + 1 - j) <= k + 1  BY <2>1
        <5> HIDE DEF far, i, j
        <5>7. m \in Nat /\ n \in Nat /\ i \in Nat /\ j \in Nat /\ k \in Nat
          BY <4>1, <1>2
        <5> HIDE DEF m, n
        <5> QED  BY <5>2, <5>3, <5>4, <5>5, <5>6, <5>7
      <4>3. /\ it[<<i + 1, j>>] = w[<<i + 1, j>>] /\ it[<<i, j + 1>>] = w[<<i, j + 1>>]
            /\ it[<<i + 1, j + 1>>] = w[<<i + 1, j + 1>>]
        BY <4>2, <1>15
      <4> HIDE DEF far
      <4> QED  BY <4>3, <1>10, <1>13
    <3> QED  BY <3>1, <3>2
  <2> QED  BY <2>1, <1>2
<1>16. m + n \in G
  <2> HIDE DEF G
  <2>1. m + n \in Nat /\ m + n \in 0..(m + n)  BY <1>2
  <2> QED  BY <2>1, <1>14, <1>15, UpTo
<1>17. it[<<1, 1>>] = w[<<1, 1>>]
  <2>1. 1 \in 1..(m + 1) /\ 1 \in 1..(n + 1)  BY <1>2
  <2>2. <<1, 1>> \in D /\ far(<<1, 1>>) <= m + n  BY <2>1, <1>2, <1>9
  <2> QED  BY <2>2, <1>16
<1>20. w[<<1, 1>>] = Ascending(A \cap B)
  <2>1. 1 \in 1..(m + 1) /\ 1 \in 1..(n + 1)  BY <1>2
  <2>2. <<1, 1>> \in D /\ (<<1, 1>>)[1] = 1 /\ (<<1, 1>>)[2] = 1  BY <2>1, <1>9
  <2> QED  BY <2>2, <1>3, <1>7
<1>19. Intersection(l, r) = it[<<1, 1>>]  BY IntersectionUnfolded DEF it
<1> QED  BY <1>17, <1>20, <1>19 DEF l, r

-----------------------------------------------------------------------------
(* Listings of nodes.                                                      *)

\* The normal form of a path is a path.
LEMMA NormalTyped ==
  ASSUME NEW path \in Text
  PROVE  Normalized[path] \in Text \cup {Malformed} /\ Normalized[path] # None
<1> DEFINE slashed == [i \in DOMAIN path |-> IF path[i] = Backslash THEN Slash ELSE path[i]]
           parts == Parts(slashed, Slash)
           names == Filtered(parts, Elements(parts) \ {<<>>, <<Dot>>})
<1>1. slashed \in Text
  <2>1. \A i \in DOMAIN path : path[i] \in Nat  BY DEF Text
  <2>2. DOMAIN path = 1..Len(path) /\ Len(path) \in Nat  BY DEF Text
  <2> QED  BY <2>1, <2>2 DEF Text, Slash
<1>2. Slashed[path] = slashed  BY DEF Slashed
<1>3. Names[slashed] = names  BY <1>1 DEF Names, Components
<1> HIDE DEF slashed
<1>4. parts \in Seq(Seq(Nat \ {Slash}))
  <2>1. Between(Nat, slashed, Slash)  BY <1>1, PartsBetween DEF Text
  <2> QED  BY <2>1, Zenon DEF Between
<1> HIDE DEF parts
<1>5. names \in Seq(Seq(Nat \ {Slash}))
  <2>1. names \in Seq(Seq(Nat \ {Slash}) \cap (Elements(parts) \ {<<>>, <<Dot>>}))
    BY <1>4, FilteredList
  <2> HIDE DEF names
  <2> QED  BY <2>1
<1> HIDE DEF names
<1>6. names # <<>> => Joined(names) \in Text
  <2> SUFFICES ASSUME names # <<>>  PROVE Joined(names) \in Text
    OBVIOUS
  <2>1. Slash \in Nat  BY DEF Slash
  <2> PICK X : X = Seq(Nat \ {Slash})  OBVIOUS
  <2>2. Len(names) # 0
    <3>1. names \in Seq(X)  BY <1>5
    <3> QED  BY <3>1
  <2>3. Separable(Nat, Slash, names)  BY <1>5, <2>1, <2>2 DEF Separable
  <2> QED  BY <2>3, JoinedParts DEF Joined, Text
<1>7. Normalized[path] \in {Malformed, <<Dot>>} \/ (names # <<>> /\ Normalized[path] = Joined(names))
  BY <1>2, <1>3 DEF Normalized
<1>8. <<Dot>> \in Text  BY DEF Dot, Text
<1> QED  BY <1>6, <1>7, <1>8, KindAssumption

\* What a path contains lies in the range that is searched for it.
LEMMA UnderInRange ==
  ASSUME NEW prefix \in Text, NEW path \in Text,
         path = prefix \/ IsPrefix(Append(prefix, Slash), path)
  PROVE  ~ TextBefore(path, prefix) /\ TextBefore(path, Append(prefix, Zero))
<1> DEFINE n == Len(prefix)
           a == Append(prefix, Slash)
           z == Append(prefix, Zero)
<1>1. /\ n \in Nat /\ DOMAIN prefix = 1..n /\ DOMAIN path = 1..Len(path) /\ Len(path) \in Nat
      /\ \A i \in 1..n : prefix[i] \in Nat
  BY DEF Text
<1>2. /\ DOMAIN z = 1..(n + 1) /\ z[n + 1] = 48 /\ \A i \in 1..n : z[i] = prefix[i]
  BY DEF Zero, Text
<1>3. /\ a \in Seq(Nat) /\ Len(a) = n + 1 /\ a[n + 1] = 47 /\ \A i \in 1..n : a[i] = prefix[i]
  BY DEF Slash, Text
<1> HIDE DEF a, z
<1>4. /\ n <= Len(path) /\ \A i \in 1..n : path[i] = prefix[i]
      /\ n + 1 \in DOMAIN path => path[n + 1] = 47
  <2>1. CASE path = prefix  BY <2>1, <1>1
  <2>2. CASE IsPrefix(a, path)
    <3>1. Len(a) <= Len(path) /\ \A i \in 1..Len(a) : a[i] = path[i]
      <4>1. a \in Seq(Nat) /\ path \in Seq(Nat)  BY <1>3 DEF Text
      <4>2. Begins(a, path)  BY <2>2, <4>1, PrefixAgrees
      <4> QED  BY <4>2 DEF Begins
    <3>2. n + 1 \in 1..Len(a) /\ \A i \in 1..n : i \in 1..Len(a)  BY <1>1, <1>3
    <3> QED  BY <3>1, <3>2, <1>1, <1>3
  <2> QED  BY <2>1, <2>2 DEF a
<1>5. ~ TextBefore(path, prefix)
  <2>1. \A i \in DOMAIN prefix : i \in DOMAIN path /\ ~ (path[i] < prefix[i])
    BY <1>1, <1>4
  <2> QED  BY <2>1 DEF TextBefore
<1>6. TextBefore(path, z)
  <2>1. n + 1 \in DOMAIN z /\ (n + 1) - 1 = n  BY <1>1, <1>2
  <2>2. \A j \in 1..n : j \in DOMAIN path /\ path[j] = z[j]  BY <1>1, <1>2, <1>4
  <2>3. n + 1 \in DOMAIN path => path[n + 1] < z[n + 1]  BY <1>2, <1>4
  <2> HIDE DEF n
  <2> QED  BY <2>1, <2>2, <2>3 DEF TextBefore
<1> QED  BY <1>5, <1>6 DEF z

\* The index of paths has what begins with the components of a prefix, and
\* nothing else.
LEMMA PrefixListed ==
  ASSUME NEW s, Opened(s), NEW prefix \in Text
  PROVE  IdsByPathPrefix(s, prefix)
           = Ascending({id \in Ids(s) :
               IsPrefix(Components(prefix), Components(EntryOf(s, id).path))})
<1> DEFINE in(p) == ~ TextBefore(p, prefix) /\ TextBefore(p, Append(prefix, Zero))
           under(p) == p = prefix \/ IsPrefix(Append(prefix, Slash), p)
           found == {id \in Ids(s) : in(EntryOf(s, id).path) /\ under(EntryOf(s, id).path)}
           want == {id \in Ids(s) : IsPrefix(Components(prefix), Components(EntryOf(s, id).path))}
<1>1. \A id \in Ids(s) : EntryOf(s, id).path \in Text  BY OpenedIds DEF Entry
<1>2. \A p \in Text : IsPrefix(Components(prefix), Components(p)) <=> under(p)
  <2> TAKE p \in Text
  <2>1. Slash \in Nat /\ prefix \in Seq(Nat) /\ p \in Seq(Nat)  BY DEF Slash, Text
  <2>2. IsPrefix(Parts(prefix, Slash), Parts(p, Slash))
          <=> p = prefix \/ IsPrefix(Append(prefix, Slash), p)
    BY <2>1, PartsPrefix
  <2> QED  BY <2>2 DEF Components
<1>3. \A p \in Text : under(p) => in(p)  BY UnderInRange
<1>4. IdsByPathPrefix(s, prefix) = Ascending(found)
  BY DEF IdsByPathPrefix, Ordered, Ascending, Below
<1> HIDE DEF in, under
<1>5. found = want  BY <1>1, <1>2, <1>3
<1> QED  BY <1>4, <1>5

\* Ids that satisfy something, as a list.
LEMMA IdsListed ==
  ASSUME NEW s, Opened(s), NEW W \in SUBSET Ids(s)
  PROVE  W \in SUBSET Nat /\ IsFiniteSet(W) /\ Ascending(W) \in Seq(W)
<1>1. W \in SUBSET Nat /\ IsFiniteSet(W)  BY OpenedIds, FS_Subset
<1> QED  BY <1>1, AscendingList

\* A symbol is resolved to what has the name, and the kind and the path.
LEMMA SymbolsListed ==
  ASSUME NEW s, Opened(s), LookupParsed(request), request.op = "resolve_symbol",
         NEW answer, answer = ResolveSymbol(s, request), answer.ok
  PROVE  answer = Success(Listing(Ascending({id \in Ids(s) : Asked(EntryOf(s, id))}),
                                  request.limit))
<1> DEFINE r == request
           N == {id \in Ids(s) : EntryOf(s, id).name = r.name}
           K == {id \in Ids(s) : EntryOf(s, id).kind = r.kind}
           Q == {id \in Ids(s) : EntryOf(s, id).path = Normalized[r.path]}
           NK == IF r.kind = None THEN N ELSE N \cap K
           W == IF r.path = None THEN NK ELSE NK \cap Q
           want == {id \in Ids(s) : Asked(EntryOf(s, id))}
           ofKind == IF r.kind = None THEN IdsByName(s, r.name)
                     ELSE Intersection(IdsByName(s, r.name), IdsByKind(s, r.kind))
           matches == IF NormalPath(r.path) = None THEN ofKind
                      ELSE Intersection(ofKind, IdsByPath(s, NormalPath(r.path)))
<1>1. r.path = None \/ (r.path \in Text /\ Normalized[r.path] # None)
  BY NormalTyped DEF LookupParsed
<1>2. /\ NormalPath(r.path) = None <=> r.path = None
      /\ r.path # None => NormalPath(r.path) = Normalized[r.path]
  BY <1>1 DEF NormalPath
<1>3. /\ IdsByName(s, r.name) = Ascending(N)
      /\ IdsByKind(s, r.kind) = Ascending(K)
      /\ r.path # None => IdsByPath(s, NormalPath(r.path)) = Ascending(Q)
  BY <1>2 DEF IdsByName, IdsByKind, IdsByPath, Ordered, Ascending, Below
<1>4. want = W
  BY DEF Asked
<1>5. answer = Success(Listing(matches, r.limit))
  BY DEF ResolveSymbol, Failure
<1>6. N \in SUBSET Ids(s) /\ K \in SUBSET Ids(s) /\ Q \in SUBSET Ids(s) /\ NK \in SUBSET Ids(s)
  OBVIOUS
<1> HIDE DEF N, K, Q, matches, ofKind, want
<1>7. ofKind = Ascending(NK)
  BY <1>3, <1>6, IdsListed, IntersectionExact DEF ofKind
<1> HIDE DEF NK
<1>8. matches = Ascending(W)
  BY <1>2, <1>3, <1>6, <1>7, IdsListed, IntersectionExact DEF matches
<1> HIDE DEF W
<1> QED  BY <1>4, <1>5, <1>8 DEF want

\* A file is found by its path and kind.
LEMMA FilesListed ==
  ASSUME NEW s, Opened(s), request.op = "resolve_file", LookupParsed(request),
         NEW answer, answer = ResolveFile(s, request), answer.ok
  PROVE  answer = Success(Listing(Ascending({id \in Ids(s) : Asked(EntryOf(s, id))}),
                                  request.limit))
<1> DEFINE r == request
           K == {id \in Ids(s) : EntryOf(s, id).kind = FileKind}
           Q == {id \in Ids(s) : EntryOf(s, id).path = Normalized[r.path]}
           want == {id \in Ids(s) : Asked(EntryOf(s, id))}
           matches == Intersection(IdsByPath(s, Normalized[r.path]), IdsByKind(s, FileKind))
<1>1. /\ IdsByKind(s, FileKind) = Ascending(K)
      /\ IdsByPath(s, Normalized[r.path]) = Ascending(Q)
  BY DEF IdsByKind, IdsByPath, Ordered, Ascending, Below
<1>2. want = Q \cap K
  <2>1. r.path # None  BY KindAssumption DEF LookupParsed
  <2> QED  BY <2>1 DEF Asked
<1>3. answer = Success(Listing(matches, r.limit))
  BY DEF ResolveFile, Failure
<1>4. K \in SUBSET Ids(s) /\ Q \in SUBSET Ids(s)  OBVIOUS
<1> HIDE DEF K, Q
<1>5. matches = Ascending(Q \cap K)  BY <1>1, <1>4, IdsListed, IntersectionExact
<1> HIDE DEF matches, want
<1> QED  BY <1>2, <1>3, <1>5 DEF want

\* Nodes are listed by kind and by what their paths begin with.
LEMMA NodesListed ==
  ASSUME NEW s, Opened(s), LookupParsed(request), request.op = "list_nodes",
         NEW answer, answer = ListNodes(s, request), answer.ok
  PROVE  answer = Success(Listing(Ascending({id \in Ids(s) : Asked(EntryOf(s, id))}),
                                  request.limit))
<1> DEFINE r == request
           prefix == NormalPath(r.path)
           K == {id \in Ids(s) : EntryOf(s, id).kind = r.kind}
           U == {id \in Ids(s) :
                   IsPrefix(Components(Normalized[r.path]), Components(EntryOf(s, id).path))}
           want == {id \in Ids(s) : Asked(EntryOf(s, id))}
           W == IF r.kind = None THEN IF r.path = None THEN Ids(s) ELSE U
                ELSE IF r.path = None THEN K ELSE U \cap K
           matches ==
             IF r.kind = None
               THEN IF prefix = None THEN Ordered(Ids(s), Below) ELSE IdsByPathPrefix(s, prefix)
               ELSE IF prefix = None THEN IdsByKind(s, r.kind)
               ELSE Intersection(IdsByPathPrefix(s, prefix), IdsByKind(s, r.kind))
<1>1. r.path = None \/ (r.path \in Text /\ Normalized[r.path] \in Text \cup {Malformed}
                        /\ Normalized[r.path] # None)
  BY NormalTyped DEF LookupParsed
<1>2. /\ prefix = None <=> r.path = None
      /\ r.path # None => prefix = Normalized[r.path]
  BY <1>1 DEF NormalPath
<1> HIDE DEF prefix
<1>3. answer = Success(Listing(matches, r.limit)) /\ prefix # Malformed
  BY DEF ListNodes, Failure, prefix
<1>4. /\ IdsByKind(s, r.kind) = Ascending(K)
      /\ Ordered(Ids(s), Below) = Ascending(Ids(s))
  BY DEF IdsByKind, Ordered, Ascending, Below
<1>5. r.path # None => IdsByPathPrefix(s, prefix) = Ascending(U)
  BY <1>1, <1>2, <1>3, PrefixListed
<1>6. want = W  BY DEF Asked
<1>7. K \in SUBSET Ids(s) /\ U \in SUBSET Ids(s)  OBVIOUS
<1> HIDE DEF K, U, want
<1>8. matches = Ascending(W)
  BY <1>2, <1>4, <1>5, <1>7, IdsListed, IntersectionExact
<1> HIDE DEF W, matches
<1> QED  BY <1>3, <1>6, <1>8 DEF want

\* A listing has what is asked for.
LEMMA ListingsExact ==
  ASSUME NEW s, s = Snapshot, Opened(s), LookupParsed(request)
  PROVE  ListsExact
<1> DEFINE want == {id \in Ids(s) : Asked(EntryOf(s, id))}
           a == Ascending(want)
           cut == Listing(a, request.limit)
           answer == Answer
<1> SUFFICES ASSUME pc = "done", answer.ok,
                    request.op \in {"resolve_symbol", "resolve_file", "list_nodes"}
             PROVE  /\ answer.result.count = Len(a)
                    /\ IsPrefix(answer.result.returned, a)
                    /\ answer.result.truncated <=> answer.result.returned # a
                    /\ answer.result.truncated =>
                         Len(answer.result.returned) = BoundedLimit(request.limit)
  BY DEF ListsExact, Ordered, Ascending, Below
<1>1. answer = LookedUp(s, request)  BY DEF Answer
<1>2. answer = Success(cut)
  <2>1. CASE request.op = "resolve_symbol"
    <3>1. answer = ResolveSymbol(s, request)  BY <1>1, <2>1 DEF LookedUp
    <3> HIDE DEF answer
    <3> QED  BY <2>1, <3>1, SymbolsListed
  <2>2. CASE request.op = "resolve_file"
    <3>1. answer = ResolveFile(s, request)  BY <1>1, <2>2 DEF LookedUp
    <3> HIDE DEF answer
    <3> QED  BY <2>2, <3>1, FilesListed
  <2>3. CASE request.op = "list_nodes"
    <3>1. answer = ListNodes(s, request)  BY <1>1, <2>3 DEF LookedUp
    <3> HIDE DEF answer
    <3> QED  BY <2>3, <3>1, NodesListed
  <2> QED  BY <2>1, <2>2, <2>3
<1>3. answer.result = cut  BY <1>2 DEF Success
<1>4. request.limit \in Nat \cup {None}  BY DEF LookupParsed
<1>5. a \in Seq(want)
  <2>1. want \in SUBSET Ids(s)  OBVIOUS
  <2> HIDE DEF want
  <2> QED  BY <2>1, IdsListed
<1> HIDE DEF a, want, answer
<1>6. /\ cut.count = Len(a) /\ IsPrefix(cut.returned, a)
      /\ Len(cut.returned) = LeastNat(BoundedLimit(request.limit), Len(a))
      /\ cut.truncated <=> cut.returned # a
      /\ cut.truncated <=> Len(a) > BoundedLimit(request.limit)
  BY <1>4, <1>5, ListingCut
<1> HIDE DEF cut
<1>7. BoundedLimit(request.limit) \in Nat /\ Len(a) \in Nat
  <2>1. Len(a) \in Nat  BY <1>5
  <2> QED  BY <2>1, <1>4, LimitBounds
<1> QED  BY <1>3, <1>6, <1>7 DEF LeastNat

-----------------------------------------------------------------------------
(* What the look-ups of a session promise.                                 *)

\* A look-up that has been answered is exact.
LEMMA LookUpsExact ==
  ASSUME SessionInv
  PROVE  ListsExact /\ DiffExact /\ StatsAgree
<1>1. PICK s : s = Snapshot  OBVIOUS
<1>2. ASSUME request.op \in LookupOps  PROVE Opened(s) /\ LookupParsed(request)
  BY <1>1, <1>2 DEF SessionInv
<1>3. ListsExact
  <2>1. CASE request.op \in {"resolve_symbol", "resolve_file", "list_nodes"}
    <3>1. request.op \in LookupOps  BY <2>1 DEF LookupOps
    <3> QED  BY <1>1, <1>2, <3>1, ListingsExact
  <2>2. CASE request.op \notin {"resolve_symbol", "resolve_file", "list_nodes"}
    BY <2>2 DEF ListsExact
  <2> QED  BY <2>1, <2>2
<1>4. DiffExact
  <2>1. CASE pc = "done" /\ request.op = "diff"
    <3>1. request.op \in LookupOps  BY <2>1 DEF LookupOps
    <3> QED  BY <1>1, <1>2, <2>1, <3>1, ComparisonExact
  <2>2. CASE ~ (pc = "done" /\ request.op = "diff")
    BY <2>2 DEF DiffExact
  <2> QED  BY <2>1, <2>2
<1>5. StatsAgree
  <2>1. CASE pc = "done" /\ request.op = "stats"
    <3>1. request.op \in LookupOps  BY <2>1 DEF LookupOps
    <3> QED  BY <1>1, <1>2, <2>1, <3>1, StatisticsAgree
  <2>2. CASE ~ (pc = "done" /\ request.op = "stats")
    BY <2>2 DEF StatsAgree
  <2> QED  BY <2>1, <2>2
<1> QED  BY <1>3, <1>4, <1>5

\* A listing of nodes has every node that is asked for and no other, once, in
\* the order of the ids, and is cut at the limit only, and says so: the range
\* of paths that is searched has all that a prefix contains, and the walk over
\* two sorted lists of ids loses none that both have.
THEOREM ListingsComplete == Spec => []ListsExact
<1>1. SessionInv => ListsExact  BY LookUpsExact
<1> QED  BY <1>1, SessionInvariant, PTL

\* A comparison of two snapshots finds a change exactly when their nodes or
\* relations, by key, differ; without a change of the graph their datasets
\* have the same checksum, although ids are not keys.
THEOREM ComparisonsExact == Spec => []DiffExact
<1>1. SessionInv => DiffExact  BY LookUpsExact
<1> QED  BY <1>1, SessionInvariant, PTL

\* The statistics count what the other queries list: nodes by kind, relations
\* at either end, references by reason and by source.
THEOREM StatisticsExact == Spec => []StatsAgree
<1>1. SessionInv => StatsAgree  BY LookUpsExact
<1> QED  BY <1>1, SessionInvariant, PTL
=============================================================================
