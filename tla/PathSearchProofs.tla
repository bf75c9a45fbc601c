-------------------------- MODULE PathSearchProofs --------------------------
(***************************************************************************)
(* The enumeration of paths, for any graph, request and limits.            *)
(*                                                                         *)
(* At every moment each simple path within the depth limit is either       *)
(* found, or pending, or was cut off and then the answer says so.  A path  *)
(* is pending if it leaves the path being walked by a neighbour that is    *)
(* still in a frame, or if the walk is about to look at it.  Frames are    *)
(* sorted and follow what was taken from them, so what is found precedes   *)
(* what is pending.                                                        *)
(***************************************************************************)
EXTENDS PathSearch, OrdersProofs

(* What the walk is given.                                                 *)
Given == graph \in SUBSET GraphEdge /\ request \in Request

Out(n) == Adjacent(graph, n, "outgoing", request.mask)

(* The step of the walked path from its i-th node.                         *)
Taken(i) == <<nodes[i + 1], relations[i]>>

Walking == pc \in {"walk", "loop"}

(* The path being walked is simple, and met the target at its end at most. *)
OnPath ==
  Walking =>
    /\ Acceptable
    /\ Len(nodes) >= 1 /\ nodes[1] = request.from
    /\ visited = Elements(nodes)
    /\ \A i, j \in DOMAIN nodes : nodes[i] = nodes[j] => i = j
    /\ Len(relations) = Len(nodes) - 1
    /\ Len(relations) <= request.depth
    /\ Len(frames) = Len(nodes) - (IF pc = "walk" THEN 1 ELSE 0)
    /\ \A i \in DOMAIN relations : Taken(i) \in Out(nodes[i]) /\ nodes[i] # request.to

(* A frame holds neighbours of its node in order, after the one taken.     *)
InOrder ==
  Walking =>
    \A i \in DOMAIN frames :
      /\ Elements(frames[i]) \subseteq Out(nodes[i])
      /\ \A k, l \in DOMAIN frames[i] : k < l => AdjacentBefore(frames[i][k], frames[i][l])
      /\ i \in DOMAIN relations =>
           \A k \in DOMAIN frames[i] : AdjacentBefore(Taken(i), frames[i][k])
      /\ frames[i] # <<>> => nodes[i] # request.to /\ i <= request.depth

(* A path that begins with the first n steps of the one being walked.      *)
Follows(p, n) == n <= Len(p) /\ \A j \in 1..n : p[j] = Taken(j)

(* A path that leaves the one being walked by what the i-th frame holds.   *)
InFrame(p, i) == Follows(p, i - 1) /\ i <= Len(p) /\ p[i] \in Elements(frames[i])

Pending(p) ==
  \/ pc = "start"
  \/ pc = "walk" /\ Follows(p, Len(relations))
  \/ Walking /\ \E i \in DOMAIN frames : InFrame(p, i)

(* What is found, pending and cut.                                         *)
Accounted ==
  /\ Found \subseteq SimplePaths
  /\ \A i, j \in DOMAIN paths : Steps(paths[i]) = Steps(paths[j]) => i = j
  /\ \A p \in SimplePaths : truncated \/ p \in Found \/ Pending(p) \/ pc = "refused"
  /\ \A p \in SimplePaths : ~ (p \in Found /\ Pending(p))
  /\ \A p \in Found, q \in SimplePaths \ Found : PathBefore(p, q)
  /\ Len(paths) <= request.limit
  /\ truncated => Len(paths) = request.limit
  /\ pc = "start" => paths = <<>> /\ frames = <<>> /\ relations = <<>>

PathInv == TypeOK /\ OnPath /\ InOrder /\ Accounted

-----------------------------------------------------------------------------
(* Sets and lists of neighbours.                                           *)

\* Pairs of numbers are totally ordered by AdjacentBefore.
LEMMA AdjacentOrdered ==
  ASSUME NEW S \in SUBSET (Nat \X Nat)
  PROVE  TotalOrder({p \in S \X S : AdjacentBefore(p[1], p[2])}, S)
<1> DEFINE R == {p \in S \X S : AdjacentBefore(p[1], p[2])}
<1>1. \A x, y \in S : <<x, y>> \in R <=> AdjacentBefore(x, y)
  OBVIOUS
<1>2. \A x \in S : x[1] \in Nat /\ x[2] \in Nat /\ x = <<x[1], x[2]>>
  OBVIOUS
<1> HIDE DEF R
<1>3. \A x \in S : ~ AdjacentBefore(x, x)  BY <1>2 DEF AdjacentBefore
<1>4. \A x, y, z \in S : AdjacentBefore(x, y) /\ AdjacentBefore(y, z) => AdjacentBefore(x, z)
  BY <1>2 DEF AdjacentBefore
<1>5. \A x, y \in S : x # y => AdjacentBefore(x, y) \/ AdjacentBefore(y, x)
  BY <1>2 DEF AdjacentBefore
<1> QED  BY <1>1, <1>3, <1>4, <1>5 DEF TotalOrder, R

\* The neighbours of a node are finitely many pairs of a node and a relation.
LEMMA OutFinite ==
  ASSUME Given, NEW n
  PROVE  /\ Out(n) \subseteq Node \X Relation
         /\ Out(n) \in SUBSET (Nat \X Nat)
         /\ IsFiniteSet(Out(n))
<1>1. Out(n) \subseteq Node \X Relation
  <2>1. \A e \in graph : e.target \in Node /\ e.relation \in Relation
    BY DEF Given, GraphEdge
  <2> QED  BY <2>1 DEF Out, Adjacent
<1>2. IsFiniteSet(Node \X Relation)
  BY NodeAssumption, RelationAssumption, FS_Product
<1>3. IsFiniteSet(Out(n))  BY <1>1, <1>2, FS_Subset
<1>4. Out(n) \in SUBSET (Nat \X Nat)  BY <1>1, NodeAssumption, RelationAssumption
<1> QED  BY <1>1, <1>3, <1>4

\* A frame starts as the list of all neighbours of the last node.
LEMMA NeighborsListed ==
  ASSUME Given
  PROVE  /\ Neighbors \in Seq(Node \X Relation)
         /\ Elements(Neighbors) = Out(Current)
         /\ \A i, j \in DOMAIN Neighbors :
              i < j => AdjacentBefore(Neighbors[i], Neighbors[j])
<1> DEFINE S == Out(Current)
           R == {p \in S \X S : AdjacentBefore(p[1], p[2])}
<1>1. S \subseteq Node \X Relation /\ IsFiniteSet(S) /\ S \in SUBSET (Nat \X Nat)
  BY OutFinite
<1>2. TotalOrder(R, S)  BY <1>1, AdjacentOrdered
<1>3. Neighbors = Ranked(S, R)  BY DEF Neighbors, Ordered, Out
<1> HIDE DEF S, R
<1>4. Lists(Neighbors, S, R)  BY <1>1, <1>2, <1>3, RankedLists
<1>5. /\ Neighbors \in Seq(S) /\ Elements(Neighbors) = S
      /\ \A i, j \in DOMAIN Neighbors : i < j => <<Neighbors[i], Neighbors[j]>> \in R
  BY <1>4 DEF Lists
<1>6. Neighbors \in Seq(Node \X Relation)  BY <1>1, <1>5
<1> QED  BY <1>5, <1>6 DEF S, R

-----------------------------------------------------------------------------
(* Simple paths, step by step.                                             *)

(* The node after i steps.                                                 *)
At(p, i) == IF i = 0 THEN request.from ELSE p[i][1]

SimplePath(p) ==
  /\ p \in Seq(Node \X Relation) /\ Len(p) <= request.depth
  /\ \A i \in 1..Len(p) : p[i] \in Out(At(p, i - 1))
  /\ \A i, j \in 0..Len(p) : At(p, i) = At(p, j) => i = j
  /\ \A i \in 0..Len(p) : At(p, i) = request.to <=> i = Len(p)

\* What the set of simple paths is.
LEMMA SimpleMeans ==
  ASSUME Given, request.from \in Node, NEW p
  PROVE  p \in SimplePaths <=> SimplePath(p)
<1> DEFINE step == UNION {Out(n) : n \in Node}
           walks == UNION {[1..k -> step] : k \in 0..request.depth}
<1>1. request.depth \in Nat  BY DEF Given, Request
<1>2. \A n : Out(n) \subseteq Node \X Relation  BY OutFinite
<1>3. p \in SimplePaths <=>
        /\ p \in walks
        /\ \A i \in 1..Len(p) : p[i] \in Out(At(p, i - 1))
        /\ \A i, j \in 0..Len(p) : At(p, i) = At(p, j) => i = j
        /\ \A i \in 0..Len(p) : At(p, i) = request.to <=> i = Len(p)
  BY DEF SimplePaths, At, Out
<1>4. ASSUME p \in walks
      PROVE  p \in Seq(Node \X Relation) /\ Len(p) <= request.depth
  <2>1. PICK k \in 0..request.depth : p \in [1..k -> step]  BY <1>4
  <2>2. step \subseteq Node \X Relation  BY <1>2
  <2>3. p \in [1..k -> Node \X Relation] /\ k \in Nat /\ k <= request.depth
    BY <1>1, <2>1, <2>2
  <2> QED  BY <2>3
<1>5. ASSUME p \in Seq(Node \X Relation), Len(p) <= request.depth,
             \A i \in 1..Len(p) : p[i] \in Out(At(p, i - 1))
      PROVE  p \in walks
  <2>1. \A i \in 1..Len(p) : p[i] \in step
    <3> TAKE i \in 1..Len(p)
    <3>1. At(p, i - 1) \in Node  BY <1>5 DEF At
    <3> QED  BY <1>5, <3>1
  <2>2. p \in [1..Len(p) -> step]  BY <1>5, <2>1
  <2>3. Len(p) \in 0..request.depth  BY <1>1, <1>5
  <2> QED  BY <2>2, <2>3
<1> QED  BY <1>3, <1>4, <1>5 DEF SimplePath

-----------------------------------------------------------------------------
(* Types.                                                                  *)

\* In the loop there is a frame, and it holds neighbours.
LEMMA TopType ==
  ASSUME TypeOK, OnPath, pc = "loop"
  PROVE  /\ Len(frames) \in Nat /\ Len(frames) = Len(nodes) /\ Len(frames) >= 1
         /\ Len(frames) \in DOMAIN frames /\ DOMAIN frames = 1..Len(frames)
         /\ Top \in Seq(Node \X Relation)
         /\ Top # <<>> => /\ Head(Top) \in Node \X Relation
                          /\ Tail(Top) \in Seq(Node \X Relation)
<1>1. Len(frames) = Len(nodes) /\ Len(nodes) >= 1  BY DEF OnPath, Walking
<1>2. frames \in Seq(Seq(Node \X Relation)) /\ Len(frames) \in Nat  BY DEF TypeOK
<1>3. Len(frames) \in DOMAIN frames /\ DOMAIN frames = 1..Len(frames)  BY <1>1, <1>2
<1>4. Top \in Seq(Node \X Relation)  BY <1>2, <1>3 DEF Top
<1>5. Top # <<>> => /\ Head(Top) \in Node \X Relation
                    /\ Tail(Top) \in Seq(Node \X Relation)
  BY <1>4
<1> QED  BY <1>1, <1>2, <1>3, <1>4, <1>5

\* What is left of a frame after a change of the last one.
LEMMA WithTopType ==
  ASSUME TypeOK, OnPath, pc = "loop", NEW rest \in Seq(Node \X Relation)
  PROVE  /\ WithTop(rest) \in Seq(Seq(Node \X Relation))
         /\ Len(WithTop(rest)) = Len(frames)
         /\ WithTop(rest)[Len(frames)] = rest
         /\ \A i \in 1..(Len(frames) - 1) : WithTop(rest)[i] = frames[i]
<1>1. frames \in Seq(Seq(Node \X Relation))  BY DEF TypeOK
<1>2. Len(frames) \in DOMAIN frames  BY TopType
<1> QED  BY <1>1, <1>2 DEF WithTop

\* A list without its last element.
LEMMA ButLastType ==
  ASSUME NEW S, NEW s \in Seq(S), Len(s) >= 1
  PROVE  /\ ButLast(s) \in Seq(S)
         /\ Len(ButLast(s)) = Len(s) - 1
         /\ \A i \in 1..(Len(s) - 1) : ButLast(s)[i] = s[i]
<1>1. Len(s) \in Nat /\ DOMAIN s = 1..Len(s) /\ Len(s) - 1 \in Nat
  OBVIOUS
<1>2. \A i \in 1..(Len(s) - 1) : ButLast(s)[i] = s[i]
  BY <1>1 DEF ButLast
<1>3. Len(ButLast(s)) = Len(s) - 1
  BY <1>1 DEF ButLast
<1>4. ButLast(s) \in Seq(S)
  BY <1>1 DEF ButLast
<1> QED  BY <1>2, <1>3, <1>4

\* A list with one more element.
LEMMA AppendType ==
  ASSUME NEW S, NEW s \in Seq(S), NEW e \in S
  PROVE  /\ Append(s, e) \in Seq(S)
         /\ Len(Append(s, e)) = Len(s) + 1
         /\ DOMAIN Append(s, e) = 1..(Len(s) + 1)
         /\ \A i \in 1..Len(s) : Append(s, e)[i] = s[i]
         /\ Append(s, e)[Len(s) + 1] = e
OBVIOUS

\* The variables keep their types.
LEMMA TypeKept ==
  ASSUME TypeOK, OnPath, Next
  PROVE  TypeOK'
<1>0. Given  BY DEF TypeOK, Given
<1> USE DEF TypeOK
<1>1. CASE RefuseRequest  BY <1>1 DEF RefuseRequest
<1>2. CASE Start
  <2>1. request.from \in Node  BY <1>2 DEF Start, Acceptable
  <2> QED  BY <1>2, <2>1 DEF Start
<1>3. CASE WalkCut
  <2>1. frames' \in Seq(Seq(Node \X Relation))  BY <1>3 DEF WalkCut, Return
  <2> QED  BY <1>3, <2>1 DEF WalkCut, Return
<1>4. CASE WalkFound
  <2>1. frames' \in Seq(Seq(Node \X Relation))  BY <1>4 DEF WalkFound, Return
  <2>2. paths' \in Seq([nodes : Seq(Node), relations : Seq(Relation)])
    BY <1>4 DEF WalkFound
  <2> QED  BY <1>4, <2>1, <2>2 DEF WalkFound, Return
<1>5. CASE WalkDeep
  <2>1. frames' \in Seq(Seq(Node \X Relation))  BY <1>5 DEF WalkDeep, Return
  <2> QED  BY <1>5, <2>1 DEF WalkDeep, Return
<1>6. CASE WalkNeighbors
  <2>1. frames' \in Seq(Seq(Node \X Relation))
    BY <1>0, <1>6, NeighborsListed DEF WalkNeighbors
  <2> QED  BY <1>6, <2>1 DEF WalkNeighbors
<1>7. CASE LoopCut
  <2>1. frames' \in Seq(Seq(Node \X Relation))
    <3>1. <<>> \in Seq(Node \X Relation)  OBVIOUS
    <3> QED  BY <1>7, <3>1, WithTopType DEF LoopCut
  <2> QED  BY <1>7, <2>1 DEF LoopCut
<1>8. CASE LoopSkip
  <2>1. frames' \in Seq(Seq(Node \X Relation))
    BY <1>8, WithTopType, TopType DEF LoopSkip
  <2> QED  BY <1>8, <2>1 DEF LoopSkip
<1>9. CASE LoopEnter
  <2>1. frames' \in Seq(Seq(Node \X Relation))
    BY <1>9, WithTopType, TopType DEF LoopEnter
  <2>2. Head(Top)[1] \in Node /\ Head(Top)[2] \in Relation
    BY <1>9, TopType DEF LoopEnter
  <2> QED  BY <1>9, <2>1, <2>2 DEF LoopEnter
<1>10. CASE LoopExit
  <2>1. Len(frames) >= 1 /\ Len(nodes) = Len(frames) /\ Len(relations) = Len(nodes) - 1
    BY <1>10, TopType DEF LoopExit, OnPath, Walking
  <2>2. frames' \in Seq(Seq(Node \X Relation))
    BY <1>10, <2>1, ButLastType DEF LoopExit
  <2>3. CASE Len(frames) = 1  BY <1>10, <2>2, <2>3 DEF LoopExit
  <2>4. CASE Len(frames) # 1
    <3>1. Len(nodes) >= 1 /\ Len(relations) >= 1  BY <2>1, <2>4
    <3>2. ButLast(nodes) \in Seq(Node) /\ ButLast(relations) \in Seq(Relation)
      BY <3>1, ButLastType
    <3> QED  BY <1>10, <2>2, <2>4, <3>2 DEF LoopExit
  <2> QED  BY <2>3, <2>4
<1> QED
  BY <1>1, <1>2, <1>3, <1>4, <1>5, <1>6, <1>7, <1>8, <1>9, <1>10 DEF Next

-----------------------------------------------------------------------------
(* The path being walked.                                                  *)

\* The path stays as it is while frames change.
LEMMA PathStays ==
  ASSUME TypeOK, OnPath, Walking, pc' = "loop", Len(frames') = Len(nodes),
         UNCHANGED <<graph, request, nodes, relations, visited>>
  PROVE  OnPath'
<1>1. /\ Acceptable
      /\ Len(nodes) >= 1 /\ nodes[1] = request.from
      /\ visited = Elements(nodes)
      /\ \A i, j \in DOMAIN nodes : nodes[i] = nodes[j] => i = j
      /\ Len(relations) = Len(nodes) - 1
      /\ Len(relations) <= request.depth
      /\ \A i \in DOMAIN relations : Taken(i) \in Out(nodes[i]) /\ nodes[i] # request.to
  BY DEF OnPath
<1>2. /\ Acceptable' <=> Acceptable
      /\ Elements(nodes)' = Elements(nodes)
      /\ \A i : Taken(i)' = Taken(i) /\ Out(nodes[i])' = Out(nodes[i])
  BY DEF Acceptable, Elements, Taken, Out
<1>3. Len(frames') = Len(nodes') - (IF pc' = "walk" THEN 1 ELSE 0)
  BY DEF TypeOK
<1> QED  BY <1>1, <1>2, <1>3 DEF OnPath

\* walk returns at once: a frame without neighbours is added.
LEMMA ReturnKept ==
  ASSUME TypeOK, OnPath, InOrder, pc = "walk", Return,
         UNCHANGED <<graph, request, nodes, relations, visited>>
  PROVE  OnPath' /\ InOrder'
<1>1. /\ pc' = "loop" /\ frames' = Append(frames, <<>>)
      /\ Len(frames') = Len(frames) + 1
      /\ \A i \in DOMAIN frames : frames'[i] = frames[i]
      /\ frames'[Len(frames) + 1] = <<>>
      /\ DOMAIN frames' = 1..(Len(frames) + 1) /\ DOMAIN frames = 1..Len(frames)
      /\ Len(frames) \in Nat
  BY DEF Return, TypeOK
<1>2. OnPath'  BY <1>1, PathStays DEF OnPath, Walking
<1>3. ASSUME NEW i \in DOMAIN frames'
      PROVE  \/ i \in DOMAIN frames /\ frames'[i] = frames[i]
             \/ frames'[i] = <<>>
  BY <1>1
<1>4. InOrder'
  <2> SUFFICES ASSUME NEW i \in DOMAIN frames'
        PROVE  /\ Elements(frames'[i]) \subseteq Out(nodes[i])
               /\ \A k, l \in DOMAIN frames'[i] :
                    k < l => AdjacentBefore(frames'[i][k], frames'[i][l])
               /\ i \in DOMAIN relations =>
                    \A k \in DOMAIN frames'[i] : AdjacentBefore(Taken(i), frames'[i][k])
               /\ frames'[i] # <<>> => nodes[i] # request.to /\ i <= request.depth
    BY <1>1 DEF InOrder, Taken, Out, Elements
  <2>1. CASE i \in DOMAIN frames /\ frames'[i] = frames[i]
    BY <2>1 DEF InOrder, Walking
  <2>2. CASE frames'[i] = <<>>
    <3>1. DOMAIN frames'[i] = {}  BY <2>2
    <3> QED  BY <2>2, <3>1 DEF Elements
  <2> QED  BY <1>3, <2>1, <2>2
<1> QED  BY <1>2, <1>4

\* The neighbours of the last node become a frame.
LEMMA NeighborsKept ==
  ASSUME TypeOK, OnPath, InOrder, WalkNeighbors
  PROVE  OnPath' /\ InOrder'
<1>0. Given  BY DEF TypeOK, Given
<1> DEFINE n == Len(frames) + 1
<1>1. /\ pc = "walk" /\ pc' = "loop" /\ frames' = Append(frames, Neighbors)
      /\ Len(frames) \in Nat /\ Len(relations) \in Nat
      /\ UNCHANGED <<graph, request, nodes, relations, visited>>
      /\ Current # request.to /\ Len(relations) < request.depth
      /\ Neighbors \in Seq(Node \X Relation) /\ frames \in Seq(Seq(Node \X Relation))
  BY <1>0, NeighborsListed DEF WalkNeighbors, TypeOK
<1>2. /\ Len(frames') = n /\ DOMAIN frames' = 1..n /\ DOMAIN frames = 1..Len(frames)
      /\ \A i \in DOMAIN frames : frames'[i] = frames[i]
      /\ frames'[n] = Neighbors
  BY <1>1
<1>3. n = Len(nodes) /\ Len(relations) = n - 1 /\ nodes[n] = Current
  BY <1>1 DEF OnPath, Walking, Current
<1>4. OnPath'  BY <1>1, <1>2, <1>3, PathStays DEF Walking
<1>5. InOrder'
  <2> SUFFICES ASSUME NEW i \in DOMAIN frames'
        PROVE  /\ Elements(frames'[i]) \subseteq Out(nodes[i])
               /\ \A k, l \in DOMAIN frames'[i] :
                    k < l => AdjacentBefore(frames'[i][k], frames'[i][l])
               /\ i \in DOMAIN relations =>
                    \A k \in DOMAIN frames'[i] : AdjacentBefore(Taken(i), frames'[i][k])
               /\ frames'[i] # <<>> => nodes[i] # request.to /\ i <= request.depth
    BY <1>1 DEF InOrder, Taken, Out, Elements
  <2>1. CASE i \in DOMAIN frames
    BY <1>1, <1>2, <2>1 DEF InOrder, Walking
  <2>2. CASE i = n
    <3>1. frames'[i] = Neighbors  BY <1>2, <2>2
    <3>2. i \notin DOMAIN relations  BY <1>1, <1>3, <2>2 DEF TypeOK
    <3>3. i <= request.depth /\ nodes[i] # request.to
      BY <1>0, <1>1, <1>3, <2>2 DEF Given, Request
    <3>4. Elements(Neighbors) = Out(nodes[i])  BY <1>0, <1>3, <2>2, NeighborsListed
    <3> QED  BY <1>0, <3>1, <3>2, <3>3, <3>4, NeighborsListed
  <2> QED  BY <1>2, <2>1, <2>2
<1> QED  BY <1>4, <1>5

\* Only the last frame changes.
LEMMA TopChanged ==
  ASSUME TypeOK, OnPath, pc = "loop", NEW n \in Nat, n = Len(frames),
         NEW rest \in Seq(Node \X Relation), frames' = WithTop(rest)
  PROVE  /\ Len(frames') = n /\ DOMAIN frames' = 1..n
         /\ frames'[n] = rest
         /\ \A i \in 1..(n - 1) : frames'[i] = frames[i]
<1> DEFINE w == WithTop(rest)
<1>1. w \in Seq(Seq(Node \X Relation)) /\ Len(w) = n  BY WithTopType
<1>2. w[n] = rest  BY WithTopType
<1>3. \A i \in 1..(n - 1) : w[i] = frames[i]
  <2>1. \A i \in 1..(Len(frames) - 1) : w[i] = frames[i]  BY WithTopType
  <2> QED  BY <2>1
<1>4. frames' = w  OBVIOUS
<1> HIDE DEF w
<1>5. DOMAIN w = 1..n  BY <1>1
<1>6. Len(w) = n /\ DOMAIN w = 1..n /\ w[n] = rest /\ \A i \in 1..(n - 1) : w[i] = frames[i]
  BY <1>1, <1>2, <1>3, <1>5
<1> QED  BY <1>4, <1>6, Zenon

\* The rest of a frame is in order as the frame was.
LEMMA RestKept ==
  ASSUME TypeOK, OnPath, InOrder, pc = "loop", pc' = "loop",
         NEW rest \in Seq(Node \X Relation), frames' = WithTop(rest),
         rest = <<>> \/ (Top # <<>> /\ rest = Tail(Top)),
         UNCHANGED <<graph, request, nodes, relations, visited>>
  PROVE  OnPath' /\ InOrder'
<1> DEFINE n == Len(frames)
<1>1. /\ n \in Nat /\ n \in DOMAIN frames /\ Top = frames[n] /\ n = Len(nodes)
      /\ frames \in Seq(Seq(Node \X Relation)) /\ DOMAIN frames = 1..n
      /\ Top \in Seq(Node \X Relation)
  BY TopType DEF Top, TypeOK
<1>2. /\ Len(frames') = n /\ DOMAIN frames' = 1..n
      /\ frames'[n] = rest /\ \A i \in 1..(n - 1) : frames'[i] = frames[i]
  BY <1>1, TopChanged
<1>3. OnPath'  BY <1>1, <1>2, PathStays DEF Walking
<1>4. InOrder'
  <2> SUFFICES ASSUME NEW i \in DOMAIN frames'
        PROVE  /\ Elements(frames'[i]) \subseteq Out(nodes[i])
               /\ \A k, l \in DOMAIN frames'[i] :
                    k < l => AdjacentBefore(frames'[i][k], frames'[i][l])
               /\ i \in DOMAIN relations =>
                    \A k \in DOMAIN frames'[i] : AdjacentBefore(Taken(i), frames'[i][k])
               /\ frames'[i] # <<>> => nodes[i] # request.to /\ i <= request.depth
    BY DEF InOrder, Taken, Out, Elements
  <2>1. CASE i \in 1..(n - 1)
    BY <1>1, <1>2, <2>1 DEF InOrder, Walking
  <2>2. CASE i = n /\ rest = <<>>
    <3>1. DOMAIN frames'[i] = {} /\ frames'[i] = <<>>  BY <1>2, <2>2
    <3> QED  BY <3>1 DEF Elements
  <2>3. CASE i = n /\ Top # <<>> /\ rest = Tail(Top)
    <3>1. \A k \in DOMAIN rest :
            k \in Nat /\ k + 1 \in DOMAIN Top /\ rest[k] = Top[k + 1]
      BY <1>1, <2>3
    <3>2. /\ Elements(Top) \subseteq Out(nodes[i])
          /\ \A k, l \in DOMAIN Top : k < l => AdjacentBefore(Top[k], Top[l])
          /\ i \in DOMAIN relations =>
               \A k \in DOMAIN Top : AdjacentBefore(Taken(i), Top[k])
          /\ nodes[i] # request.to /\ i <= request.depth
      BY <1>1, <2>3 DEF InOrder, Walking
    <3>3. Elements(rest) \subseteq Elements(Top)  BY <3>1 DEF Elements
    <3>4. \A k, l \in DOMAIN rest : k < l => AdjacentBefore(rest[k], rest[l])
      BY <3>1, <3>2
    <3>5. frames'[i] = rest  BY <1>2, <2>3
    <3> QED  BY <3>1, <3>2, <3>3, <3>4, <3>5
  <2> QED  BY <1>1, <1>2, <2>1, <2>2, <2>3
<1> QED  BY <1>3, <1>4

\* The walk enters the first neighbour of the last frame.
LEMMA Entered ==
  ASSUME TypeOK, OnPath, LoopEnter
  PROVE  \E n \in Nat :
           /\ n = Len(frames) /\ n >= 1 /\ n = Len(nodes) /\ Len(relations) = n - 1
           /\ DOMAIN frames = 1..n /\ DOMAIN nodes = 1..n /\ DOMAIN relations = 1..(n - 1)
           /\ Top = frames[n] /\ Top # <<>> /\ 1 \in DOMAIN Top
           /\ Top[1][1] \notin visited /\ visited' = visited \cup {Top[1][1]}
           /\ Len(frames') = n /\ DOMAIN frames' = 1..n
           /\ frames'[n] = Tail(Top) /\ \A i \in 1..(n - 1) : frames'[i] = frames[i]
           /\ \A k \in DOMAIN Tail(Top) :
                k \in Nat \ {0} /\ k + 1 \in DOMAIN Top /\ Tail(Top)[k] = Top[k + 1]
           /\ \A k \in DOMAIN Top : k = 1 \/ (k - 1 \in DOMAIN Tail(Top) /\ Top[k] = Tail(Top)[k - 1])
           /\ Len(nodes') = n + 1 /\ DOMAIN nodes' = 1..(n + 1)
           /\ \A i \in 1..n : nodes'[i] = nodes[i]
           /\ nodes'[n + 1] = Top[1][1]
           /\ Len(relations') = n /\ DOMAIN relations' = 1..n
           /\ \A i \in 1..(n - 1) : Taken(i)' = Taken(i)
           /\ Taken(n)' = Top[1]
           /\ pc = "loop" /\ pc' = "walk" /\ UNCHANGED <<graph, request, paths, truncated>>
<1> USE DEF Out, Taken
<1>0. PICK n \in Nat : n = Len(frames)  BY TopType DEF LoopEnter
<1> DEFINE m == Head(Top)[1]
           r == Head(Top)[2]
           rest == Tail(Top)
<1>1. /\ n \in Nat /\ n \in DOMAIN frames /\ Top = frames[n] /\ n = Len(nodes) /\ n >= 1
      /\ frames \in Seq(Seq(Node \X Relation)) /\ DOMAIN frames = 1..n
      /\ Top \in Seq(Node \X Relation) /\ Top # <<>>
      /\ pc = "loop" /\ pc' = "walk"
  BY <1>0, TopType DEF Top, TypeOK, LoopEnter
<1>2. /\ m \in Node /\ r \in Relation /\ Head(Top) = <<m, r>> /\ Head(Top) = Top[1]
      /\ rest \in Seq(Node \X Relation)
      /\ 1 \in DOMAIN Top
      /\ \A k \in DOMAIN rest : k \in Nat \ {0} /\ k + 1 \in DOMAIN Top /\ rest[k] = Top[k + 1]
      /\ \A k \in DOMAIN Top : k = 1 \/ (k - 1 \in DOMAIN rest /\ Top[k] = rest[k - 1])
  BY <1>1
<1> HIDE DEF rest
<1>3. /\ frames' = WithTop(rest) /\ m \notin visited
      /\ visited' = visited \cup {m}
      /\ nodes' = Append(nodes, m) /\ relations' = Append(relations, r)
      /\ UNCHANGED <<graph, request, paths, truncated>>
  BY DEF LoopEnter, rest
<1> HIDE DEF m, r
<1>4. /\ Len(frames') = n /\ DOMAIN frames' = 1..n
      /\ frames'[n] = rest /\ \A i \in 1..(n - 1) : frames'[i] = frames[i]
  BY <1>0, <1>1, <1>2, <1>3, TopChanged
<1>5. /\ n \in Nat /\ n >= 1 /\ n = Len(nodes) /\ Len(relations) = n - 1
      /\ DOMAIN frames = 1..n /\ DOMAIN nodes = 1..n /\ DOMAIN relations = 1..(n - 1)
  BY <1>1 DEF TypeOK, OnPath, Walking
<1>6. /\ Len(nodes') = n + 1 /\ DOMAIN nodes' = 1..(n + 1)
      /\ \A i \in 1..n : nodes'[i] = nodes[i]
      /\ nodes'[n + 1] = m
  <2>1. nodes \in Seq(Node)  BY DEF TypeOK
  <2> QED  BY <1>2, <1>3, <1>5, <2>1, AppendType
<1>7. /\ Len(relations') = n /\ DOMAIN relations' = 1..n
      /\ \A i \in 1..(n - 1) : relations'[i] = relations[i]
      /\ relations'[n] = r
  <2>1. relations \in Seq(Relation)  BY DEF TypeOK
  <2>2. /\ Len(relations') = Len(relations) + 1
        /\ DOMAIN relations' = 1..(Len(relations) + 1)
        /\ \A i \in 1..Len(relations) : relations'[i] = relations[i]
        /\ relations'[Len(relations) + 1] = r
    BY <1>2, <1>3, <2>1, AppendType
  <2> QED  BY <1>5, <2>2
<1>8. /\ \A i \in 1..(n - 1) : Taken(i)' = Taken(i)
      /\ Taken(n)' = Top[1]
  <2>1. \A i \in 1..(n - 1) : i \in 1..n /\ i + 1 \in 1..n  OBVIOUS
  <2>2. Top[1] = <<m, r>>  BY <1>2
  <2> QED  BY <1>6, <1>7, <2>1, <2>2
<1>9. m = Top[1][1]  BY <1>2
<1> QED  BY <1>0, <1>1, <1>2, <1>3, <1>4, <1>5, <1>6, <1>7, <1>8, <1>9 DEF rest

\* The walk enters a node that is not on the path.
LEMMA EnterKept ==
  ASSUME TypeOK, OnPath, InOrder, LoopEnter
  PROVE  OnPath' /\ InOrder'
<1> USE DEF Taken
<1>1. PICK n \in Nat :
        /\ n = Len(frames) /\ n >= 1 /\ n = Len(nodes) /\ Len(relations) = n - 1
        /\ DOMAIN frames = 1..n /\ DOMAIN nodes = 1..n /\ DOMAIN relations = 1..(n - 1)
        /\ Top = frames[n] /\ Top # <<>> /\ 1 \in DOMAIN Top
        /\ Top[1][1] \notin visited /\ visited' = visited \cup {Top[1][1]}
        /\ Len(frames') = n /\ DOMAIN frames' = 1..n
        /\ frames'[n] = Tail(Top) /\ \A i \in 1..(n - 1) : frames'[i] = frames[i]
        /\ \A k \in DOMAIN Tail(Top) :
             k \in Nat \ {0} /\ k + 1 \in DOMAIN Top /\ Tail(Top)[k] = Top[k + 1]
        /\ Len(nodes') = n + 1 /\ DOMAIN nodes' = 1..(n + 1)
        /\ \A i \in 1..n : nodes'[i] = nodes[i]
        /\ nodes'[n + 1] = Top[1][1]
        /\ Len(relations') = n /\ DOMAIN relations' = 1..n
        /\ \A i \in 1..(n - 1) : Taken(i)' = Taken(i)
        /\ Taken(n)' = Top[1]
        /\ pc = "loop" /\ pc' = "walk" /\ UNCHANGED <<graph, request>>
  BY Entered
<1> DEFINE m == Top[1][1]
           rest == Tail(Top)
<1>3. m \notin visited /\ visited' = visited \cup {m} /\ UNCHANGED <<graph, request>>
  BY <1>1
<1>4. /\ Len(frames') = n /\ DOMAIN frames' = 1..n
      /\ frames'[n] = rest /\ \A i \in 1..(n - 1) : frames'[i] = frames[i]
  BY <1>1
<1>5. /\ n \in Nat /\ n >= 1 /\ n = Len(nodes) /\ Len(relations) = n - 1
      /\ DOMAIN frames = 1..n /\ DOMAIN nodes = 1..n /\ DOMAIN relations = 1..(n - 1)
  BY <1>1
<1>6. /\ Len(nodes') = n + 1 /\ DOMAIN nodes' = 1..(n + 1)
      /\ \A i \in 1..n : nodes'[i] = nodes[i]
      /\ nodes'[n + 1] = m
  BY <1>1
<1>7. Len(relations') = n /\ DOMAIN relations' = 1..n
  BY <1>1
<1>8. /\ \A i \in 1..(n - 1) : Taken(i)' = Taken(i)
      /\ Taken(n)' = Top[1]
  BY <1>1
<1>2. /\ 1 \in DOMAIN Top
      /\ \A k \in DOMAIN rest : k \in Nat \ {0} /\ k + 1 \in DOMAIN Top /\ rest[k] = Top[k + 1]
  BY <1>1
<1> HIDE DEF m, rest
<1>9. /\ Elements(Top) \subseteq Out(nodes[n])
      /\ \A k, l \in DOMAIN Top : k < l => AdjacentBefore(Top[k], Top[l])
      /\ nodes[n] # request.to /\ n <= request.depth
  <2>1. Walking /\ n \in DOMAIN frames  BY <1>1 DEF Walking
  <2>2. frames[n] = Top /\ Top # <<>>  BY <1>1
  <2> QED  BY <2>1, <2>2 DEF InOrder
<1>10. \A x : Out(x)' = Out(x)  BY <1>3 DEF Out
<1>11. OnPath'
  <2>1. /\ Acceptable /\ nodes[1] = request.from /\ visited = Elements(nodes)
        /\ \A i, j \in DOMAIN nodes : nodes[i] = nodes[j] => i = j
        /\ \A i \in DOMAIN relations : Taken(i) \in Out(nodes[i]) /\ nodes[i] # request.to
    BY <1>1 DEF OnPath, Walking
  <2>2. Acceptable'  BY <1>3, <2>1 DEF Acceptable
  <2>3. visited' = Elements(nodes')
    <3>1. Elements(nodes) = {nodes[i] : i \in 1..n}  BY <1>5 DEF Elements
    <3>2. Elements(nodes') = {nodes'[i] : i \in 1..(n + 1)}  BY <1>6 DEF Elements
    <3>3. \A i \in 1..(n + 1) : i \in 1..n \/ i = n + 1  BY <1>5
    <3>4. \A i \in 1..n : i \in 1..(n + 1)  BY <1>5
    <3>5. n + 1 \in 1..(n + 1)  BY <1>5
    <3> QED  BY <1>3, <1>6, <2>1, <3>1, <3>2, <3>3, <3>4, <3>5
  <2>4. \A i \in 1..n : nodes[i] # m  BY <1>3, <1>5, <2>1 DEF Elements
  <2>5. \A i, j \in DOMAIN nodes' : nodes'[i] = nodes'[j] => i = j
    <3>1. \A i \in 1..(n + 1) : i \in 1..n \/ i = n + 1  BY <1>5
    <3> QED  BY <1>5, <1>6, <2>1, <2>4, <3>1
  <2>6. Top[1] \in Out(nodes[n])  BY <1>2, <1>9 DEF Elements
  <2>7. \A i \in 1..n : Taken(i)' \in Out(nodes[i]) /\ nodes[i] # request.to
    <3> TAKE i \in 1..n
    <3>1. CASE i = n
      <4>1. Taken(n)' \in Out(nodes[n]) /\ nodes[n] # request.to  BY <1>8, <1>9, <2>6
      <4> QED  BY <3>1, <4>1
    <3>2. CASE i \in 1..(n - 1)  BY <1>5, <1>8, <2>1, <3>2
    <3>3. i \in 1..(n - 1) \/ i = n  OBVIOUS
    <3> QED  BY <3>1, <3>2, <3>3
  <2>8. \A i \in DOMAIN relations' :
          Taken(i)' \in Out(nodes[i])' /\ nodes'[i] # request.to
    BY <1>6, <1>7, <1>10, <2>7
  <2>9. Len(nodes') >= 1 /\ nodes'[1] = request.from  BY <1>1, <1>6, <2>1
  <2>10. Len(frames') = Len(nodes') - 1 /\ Len(relations') = Len(nodes') - 1
    BY <1>1, <1>4, <1>6, <1>7
  <2>11. Len(relations') <= request.depth  BY <1>7, <1>9
  <2>12. request' = request  BY <1>3
  <2> QED
    BY <1>1, <2>2, <2>3, <2>5, <2>8, <2>9, <2>10, <2>11, <2>12 DEF OnPath
<1>12. InOrder'
  <2>1. ASSUME NEW i \in 1..n
        PROVE  /\ Elements(frames'[i]) \subseteq Out(nodes[i])
               /\ \A k, l \in DOMAIN frames'[i] :
                    k < l => AdjacentBefore(frames'[i][k], frames'[i][l])
               /\ \A k \in DOMAIN frames'[i] : AdjacentBefore(Taken(i)', frames'[i][k])
               /\ frames'[i] # <<>> => nodes[i] # request.to /\ i <= request.depth
    <3>1. CASE i \in 1..(n - 1)
      BY <1>1, <1>4, <1>5, <1>8, <3>1 DEF InOrder, Walking
    <3>2. CASE i = n
      <4>1. Elements(rest) \subseteq Elements(Top)  BY <1>2 DEF Elements
      <4>2. \A k, l \in DOMAIN rest : k < l => AdjacentBefore(rest[k], rest[l])
        BY <1>2, <1>9
      <4>3. \A k \in DOMAIN rest : AdjacentBefore(Top[1], rest[k])
        <5> TAKE k \in DOMAIN rest
        <5>1. k + 1 \in DOMAIN Top /\ 1 < k + 1
          BY <1>1, <1>2
        <5> QED  BY <1>2, <1>9, <5>1
      <4>4. frames'[i] = rest /\ Taken(i)' = Top[1]  BY <1>2, <1>4, <1>8, <3>2
      <4> QED  BY <1>9, <3>2, <4>1, <4>2, <4>3, <4>4
    <3>3. i \in 1..(n - 1) \/ i = n  OBVIOUS
    <3> QED  BY <3>1, <3>2, <3>3
  <2>2. \A i \in 1..n : nodes'[i] = nodes[i]  BY <1>6
  <2>3. request' = request  BY <1>3
  <2> QED  BY <1>4, <1>7, <1>10, <2>1, <2>2, <2>3 DEF InOrder, Elements
<1> QED  BY <1>11, <1>12

\* The walk leaves the last node of the path for the one before.
LEMMA Left ==
  ASSUME TypeOK, OnPath, LoopExit, Len(frames) # 1
  PROVE  \E n \in Nat :
           /\ n = Len(frames) /\ n >= 2 /\ Len(relations) = n - 1
           /\ DOMAIN frames = 1..n /\ DOMAIN nodes = 1..n /\ DOMAIN relations = 1..(n - 1)
           /\ frames[n] = <<>> /\ visited' = visited \ {nodes[n]}
           /\ Len(frames') = n - 1 /\ DOMAIN frames' = 1..(n - 1)
           /\ \A i \in 1..(n - 1) : frames'[i] = frames[i]
           /\ Len(nodes') = n - 1 /\ DOMAIN nodes' = 1..(n - 1)
           /\ \A i \in 1..(n - 1) : nodes'[i] = nodes[i]
           /\ Len(relations') = n - 2 /\ DOMAIN relations' = 1..(n - 2)
           /\ \A i \in 1..(n - 2) : Taken(i)' = Taken(i)
           /\ pc = "loop" /\ pc' = "loop" /\ UNCHANGED <<graph, request, paths, truncated>>
<1>0. PICK n \in Nat : n = Len(frames)  BY TopType DEF LoopExit
<1>1. /\ n \in Nat /\ n = Len(nodes) /\ n >= 1 /\ pc = "loop"
      /\ frames \in Seq(Seq(Node \X Relation)) /\ DOMAIN frames = 1..n
      /\ nodes \in Seq(Node) /\ relations \in Seq(Relation)
      /\ Len(relations) = n - 1 /\ DOMAIN nodes = 1..n /\ DOMAIN relations = 1..(n - 1)
      /\ frames' = ButLast(frames)
      /\ UNCHANGED <<graph, request>>
  BY <1>0, TopType DEF TypeOK, OnPath, Walking, LoopExit
<1>a. /\ n \in Nat /\ n >= 1 /\ Len(relations) = n - 1
      /\ DOMAIN frames = 1..n /\ DOMAIN nodes = 1..n /\ DOMAIN relations = 1..(n - 1)
  BY <1>1
<1>4. /\ nodes' = ButLast(nodes) /\ relations' = ButLast(relations)
      /\ visited' = visited \ {nodes[n]} /\ pc' = "loop" /\ n >= 2
  BY <1>0, <1>1 DEF LoopExit, Current
<1>5. /\ Len(frames') = n - 1 /\ DOMAIN frames' = 1..(n - 1)
      /\ \A i \in 1..(n - 1) : frames'[i] = frames[i]
  <2>1. ButLast(frames) \in Seq(Seq(Node \X Relation)) /\ Len(ButLast(frames)) = n - 1
    BY <1>1, ButLastType
  <2>2. \A i \in 1..(Len(frames) - 1) : ButLast(frames)[i] = frames[i]
    <3>1. frames \in Seq(Seq(Node \X Relation)) /\ Len(frames) >= 1  BY <1>0, <1>1
    <3> QED  BY <3>1, ButLastType
  <2> QED  BY <1>0, <1>1, <2>1, <2>2
<1>6. /\ Len(nodes') = n - 1 /\ DOMAIN nodes' = 1..(n - 1)
      /\ \A i \in 1..(n - 1) : nodes'[i] = nodes[i]
  <2>1. ButLast(nodes) \in Seq(Node) /\ Len(ButLast(nodes)) = n - 1
    BY <1>1, ButLastType
  <2>2. \A i \in 1..(n - 1) : ButLast(nodes)[i] = nodes[i]  BY <1>1, ButLastType
  <2> QED  BY <1>1, <1>4, <2>1, <2>2
<1>7. /\ Len(relations') = n - 2 /\ DOMAIN relations' = 1..(n - 2)
      /\ \A i \in 1..(n - 2) : relations'[i] = relations[i]
  <2>1. Len(relations) >= 1  BY <1>1, <1>4
  <2>2. ButLast(relations) \in Seq(Relation) /\ Len(ButLast(relations)) = n - 2
    <3>1. relations \in Seq(Relation)  BY <1>1
    <3>2. Len(ButLast(relations)) = Len(relations) - 1  BY <2>1, <3>1, ButLastType
    <3>3. ButLast(relations) \in Seq(Relation)  BY <2>1, <3>1, ButLastType
    <3> QED  BY <1>a, <3>2, <3>3
  <2>3. \A i \in 1..(Len(relations) - 1) : ButLast(relations)[i] = relations[i]
    BY <2>1, <1>1, ButLastType
  <2> QED  BY <1>1, <1>4, <2>2, <2>3
<1>8. \A i \in 1..(n - 2) : Taken(i)' = Taken(i)
  <2>1. \A i \in 1..(n - 2) : i \in 1..(n - 1) /\ i + 1 \in 1..(n - 1)  BY <1>a
  <2> QED  BY <1>6, <1>7, <2>1 DEF Taken
<1>9. frames[n] = <<>> /\ UNCHANGED <<graph, request, paths, truncated>>
  BY <1>0 DEF LoopExit, Top
<1> QED  BY <1>0, <1>a, <1>1, <1>4, <1>5, <1>6, <1>7, <1>8, <1>9

\* What is known of the path holds of the path without its last node.
LEMMA ExitKept ==
  ASSUME TypeOK, OnPath, InOrder, LoopExit
  PROVE  OnPath' /\ InOrder'
<1>2. CASE Len(frames) = 1
  BY <1>2 DEF LoopExit, OnPath, InOrder, Walking
<1>3. CASE Len(frames) # 1
  <2>1. PICK n \in Nat :
          /\ n = Len(frames) /\ n >= 2 /\ Len(relations) = n - 1
          /\ DOMAIN frames = 1..n /\ DOMAIN nodes = 1..n /\ DOMAIN relations = 1..(n - 1)
          /\ visited' = visited \ {nodes[n]}
          /\ Len(frames') = n - 1 /\ DOMAIN frames' = 1..(n - 1)
          /\ \A i \in 1..(n - 1) : frames'[i] = frames[i]
          /\ Len(nodes') = n - 1 /\ DOMAIN nodes' = 1..(n - 1)
          /\ \A i \in 1..(n - 1) : nodes'[i] = nodes[i]
          /\ Len(relations') = n - 2 /\ DOMAIN relations' = 1..(n - 2)
          /\ \A i \in 1..(n - 2) : Taken(i)' = Taken(i)
          /\ pc = "loop" /\ pc' = "loop" /\ UNCHANGED <<graph, request>>
    BY <1>3, Left
  <2>6. /\ \A x : Out(x)' = Out(x)
        /\ request' = request
    BY <2>1 DEF Out
  <2>7. OnPath'
    <3>1. /\ Acceptable /\ nodes[1] = request.from /\ visited = Elements(nodes)
          /\ \A i, j \in DOMAIN nodes : nodes[i] = nodes[j] => i = j
          /\ \A i \in DOMAIN relations : Taken(i) \in Out(nodes[i]) /\ nodes[i] # request.to
          /\ Len(relations) <= request.depth
      BY <2>1 DEF OnPath, Walking
    <3>2. Acceptable'  BY <2>1, <3>1 DEF Acceptable
    <3>3. visited' = Elements(nodes')
      <4>1. \A i \in 1..(n - 1) : nodes[i] # nodes[n]  BY <2>1, <3>1
      <4>2. \A x \in Elements(nodes) \ {nodes[n]} : \E i \in 1..(n - 1) : x = nodes[i]
        BY <2>1 DEF Elements
      <4>3. \A i \in 1..(n - 1) : nodes[i] \in Elements(nodes)  BY <2>1 DEF Elements
      <4>4. Elements(nodes') = {nodes[i] : i \in 1..(n - 1)}  BY <2>1 DEF Elements
      <4> QED  BY <2>1, <3>1, <4>1, <4>2, <4>3, <4>4
    <3>4. \A i, j \in DOMAIN nodes' : nodes'[i] = nodes'[j] => i = j
      BY <2>1, <3>1
    <3>5. \A i \in 1..(n - 2) : Taken(i) \in Out(nodes[i]) /\ nodes[i] # request.to
      BY <2>1, <3>1
    <3>6. \A i \in 1..(n - 2) : i \in 1..(n - 1)  BY <2>1
    <3>7. \A i \in DOMAIN relations' :
            Taken(i)' \in Out(nodes[i])' /\ nodes'[i] # request'.to
      <4> TAKE i \in DOMAIN relations'
      <4>1. i \in 1..(n - 2) /\ nodes'[i] = nodes[i]  BY <2>1, <3>6
      <4>2. Taken(i)' = Taken(i) /\ Out(nodes[i])' = Out(nodes[i])  BY <2>1, <2>6, <4>1
      <4> QED  BY <2>6, <3>5, <4>1, <4>2
    <3>8. request.depth \in Nat  BY DEF TypeOK, Request
    <3>9. /\ Len(nodes') >= 1 /\ nodes'[1] = request'.from
          /\ Len(relations') = Len(nodes') - 1 /\ Len(relations') <= request'.depth
          /\ Len(frames') = Len(nodes')
      <4>1. n >= 2  BY <2>1
      <4> QED  BY <2>1, <2>6, <3>1, <3>8, <4>1
    <3>10. pc' = "loop" /\ Len(frames') = Len(nodes') - 0  BY <2>1
    <3> QED  BY <3>2, <3>3, <3>4, <3>7, <3>9, <3>10 DEF OnPath
  <2>8. InOrder'
    <3>1. ASSUME NEW i \in 1..(n - 1)
          PROVE  /\ Elements(frames[i]) \subseteq Out(nodes[i])
                 /\ \A k, l \in DOMAIN frames[i] :
                      k < l => AdjacentBefore(frames[i][k], frames[i][l])
                 /\ \A k \in DOMAIN frames[i] : AdjacentBefore(Taken(i), frames[i][k])
                 /\ frames[i] # <<>> => nodes[i] # request.to /\ i <= request.depth
      <4>1. i \in DOMAIN frames /\ i \in DOMAIN relations  BY <2>1
      <4>2. Walking  BY <2>1 DEF Walking
      <4> QED  BY <4>1, <4>2 DEF InOrder
    <3>2. \A i \in 1..(n - 2) : i \in 1..(n - 1)  BY <2>1
    <3>3. \A i \in DOMAIN relations' : Taken(i)' = Taken(i) /\ i \in 1..(n - 1)
      BY <2>1, <3>2
    <3> SUFFICES ASSUME NEW i \in 1..(n - 1)
          PROVE  /\ Elements(frames'[i]) \subseteq Out(nodes[i])'
                 /\ \A k, l \in DOMAIN frames'[i] :
                      k < l => AdjacentBefore(frames'[i][k], frames'[i][l])
                 /\ i \in DOMAIN relations' =>
                      \A k \in DOMAIN frames'[i] : AdjacentBefore(Taken(i)', frames'[i][k])
                 /\ frames'[i] # <<>> => nodes'[i] # request'.to /\ i <= request'.depth
      BY <2>1 DEF InOrder, Elements
    <3> QED  BY <2>1, <2>6, <3>1, <3>3
  <2> QED  BY <2>7, <2>8
<1> QED  BY <1>2, <1>3

\* Every step keeps what is known of the path and its frames.
LEMMA PathKept ==
  ASSUME TypeOK, OnPath, InOrder, Accounted, Next
  PROVE  OnPath' /\ InOrder'
<1>1. CASE RefuseRequest  BY <1>1 DEF RefuseRequest, OnPath, InOrder, Walking
<1>2. CASE Start
  <2>1. /\ pc = "start" /\ Acceptable /\ pc' = "walk"
        /\ nodes' = <<request.from>> /\ visited' = {request.from}
        /\ UNCHANGED <<graph, request, frames, relations>>
        /\ frames = <<>> /\ relations = <<>>
    BY <1>2 DEF Start, Accounted
  <2>2. Len(nodes') = 1 /\ DOMAIN nodes' = {1} /\ nodes'[1] = request.from
    BY <2>1
  <2>3. Elements(nodes') = {request.from}  BY <2>2 DEF Elements
  <2>4. DOMAIN frames' = {} /\ DOMAIN relations' = {} /\ Len(frames') = 0 /\ Len(relations') = 0
    BY <2>1
  <2>5. 0 <= request.depth  BY DEF TypeOK, Request
  <2>6. OnPath'
    BY <2>1, <2>2, <2>3, <2>4, <2>5 DEF OnPath, Walking, Acceptable
  <2>7. InOrder'  BY <2>4 DEF InOrder
  <2> QED  BY <2>6, <2>7
<1>3. CASE WalkCut  BY <1>3, ReturnKept DEF WalkCut
<1>4. CASE WalkFound  BY <1>4, ReturnKept DEF WalkFound
<1>5. CASE WalkDeep  BY <1>5, ReturnKept DEF WalkDeep
<1>6. CASE WalkNeighbors  BY <1>6, NeighborsKept
<1>7. CASE LoopCut
  <2>1. <<>> \in Seq(Node \X Relation)  OBVIOUS
  <2> QED  BY <1>7, <2>1, RestKept DEF LoopCut
<1>8. CASE LoopSkip
  <2>1. Tail(Top) \in Seq(Node \X Relation)  BY <1>8, TopType DEF LoopSkip
  <2> QED  BY <1>8, <2>1, RestKept DEF LoopSkip
<1>9. CASE LoopEnter  BY <1>9, EnterKept
<1>10. CASE LoopExit  BY <1>10, ExitKept
<1> QED
  BY <1>1, <1>2, <1>3, <1>4, <1>5, <1>6, <1>7, <1>8, <1>9, <1>10 DEF Next

-----------------------------------------------------------------------------
(* What is found, pending and cut.                                         *)

\* Which paths are simple depends on the graph and the request.
LEMMA SimpleSame ==
  ASSUME UNCHANGED <<graph, request>>
  PROVE  SimplePaths' = SimplePaths
BY DEF SimplePaths

\* A path that follows the one being walked goes through its nodes.
LEMMA FollowsAt ==
  ASSUME TypeOK, OnPath, Walking, NEW p, NEW k \in 0..Len(relations), Follows(p, k)
  PROVE  \A i \in 0..k : At(p, i) = nodes[i + 1]
<1> TAKE i \in 0..k
<1>1. CASE i = 0  BY <1>1 DEF At, OnPath
<1>2. CASE i # 0
  <2>1. Len(relations) \in Nat  BY DEF TypeOK
  <2>2. i \in 1..k  BY <1>2, <2>1
  <2>3. p[i] = Taken(i)  BY <2>2 DEF Follows
  <2> QED  BY <1>2, <2>3 DEF At, Taken
<1> QED  BY <1>1, <1>2

\* The account stays as long as nothing is found.
LEMMA AccountKept ==
  ASSUME Accounted, UNCHANGED <<graph, request, paths>>, pc' # "start",
         \A p \in SimplePaths : Pending(p)' => Pending(p),
         \A p \in SimplePaths : Pending(p) => Pending(p)' \/ truncated' \/ pc' = "refused",
         pc = "refused" => pc' = "refused",
         truncated => truncated',
         truncated' => Len(paths) = request.limit
  PROVE  Accounted'
<1>1. SimplePaths' = SimplePaths  BY SimpleSame
<1>2. Found' = Found  BY DEF Found
<1>3. \A p \in SimplePaths :
        /\ truncated' \/ p \in Found \/ Pending(p)' \/ pc' = "refused"
        /\ ~ (p \in Found /\ Pending(p)')
  BY DEF Accounted
<1>4. /\ Found \subseteq SimplePaths
      /\ \A i, j \in DOMAIN paths : Steps(paths[i]) = Steps(paths[j]) => i = j
      /\ \A p \in Found, q \in SimplePaths \ Found : PathBefore(p, q)
      /\ Len(paths) <= request.limit
  BY DEF Accounted
<1> QED  BY <1>1, <1>2, <1>3, <1>4 DEF Accounted

\* walk returns at once: frames are as they were but for an empty one.
LEMMA ReturnPending ==
  ASSUME TypeOK, OnPath, pc = "walk", Return, UNCHANGED <<nodes, relations>>, NEW p
  PROVE  /\ Pending(p)' <=> \E i \in DOMAIN frames : InFrame(p, i)
         /\ Pending(p) <=> Follows(p, Len(relations)) \/ Pending(p)'
<1>0. PICK n \in Nat : n = Len(frames) + 1  BY DEF TypeOK
<1>1. /\ pc' = "loop" /\ frames' = Append(frames, <<>>)
      /\ \A i \in DOMAIN frames : frames'[i] = frames[i]
      /\ frames'[n] = <<>>
      /\ DOMAIN frames' = 1..n /\ DOMAIN frames = 1..(n - 1)
  BY <1>0 DEF Return, TypeOK
<1>2. \A i : Follows(p, i)' <=> Follows(p, i)  BY DEF Follows, Taken
<1>3. \A i \in DOMAIN frames : InFrame(p, i)' <=> InFrame(p, i)
  BY <1>1, <1>2 DEF InFrame, Elements
<1>4. ~ InFrame(p, n)'  BY <1>1 DEF InFrame, Elements
<1>5. \A i \in DOMAIN frames' : i \in DOMAIN frames \/ i = n  BY <1>1
<1>6. \A i \in DOMAIN frames : i \in DOMAIN frames'  BY <1>1
<1>7. Pending(p)' <=> \E i \in DOMAIN frames' : InFrame(p, i)'
  BY <1>1 DEF Pending, Walking
<1>8. Pending(p) <=> Follows(p, Len(relations)) \/ \E i \in DOMAIN frames : InFrame(p, i)
  BY DEF Pending, Walking
<1> QED  BY <1>3, <1>4, <1>5, <1>6, <1>7, <1>8

\* A simple path that begins with the whole of the one being walked ends
\* there if that is the target, and otherwise goes on to a neighbour.
LEMMA FollowsWhole ==
  ASSUME TypeOK, OnPath, Walking, NEW p \in SimplePaths, NEW k \in Nat,
         k = Len(relations), Follows(p, k)
  PROVE  /\ SimplePath(p)
         /\ Current = request.to <=> Len(p) = k
         /\ Len(p) # k => k + 1 \in 1..Len(p) /\ p[k + 1] \in Out(Current)
         /\ Len(p) <= request.depth
<1>1. SimplePath(p)  BY SimpleMeans DEF TypeOK, Given, OnPath, Acceptable
<1>2. Current = nodes[k + 1]
  <2>1. Len(nodes) = k + 1  BY DEF TypeOK, OnPath
  <2> QED  BY <2>1 DEF Current
<1>3. At(p, k) = Current
  <2>1. k \in 0..k  OBVIOUS
  <2> QED  BY <1>2, <2>1, FollowsAt
<1>4. Len(p) \in Nat /\ k <= Len(p)  BY <1>1 DEF SimplePath, Follows
<1>5. At(p, k) = request.to <=> k = Len(p)
  <2>1. k \in 0..Len(p)  BY <1>4
  <2> QED  BY <1>1, <2>1 DEF SimplePath
<1>6. ASSUME Len(p) # k  PROVE k + 1 \in 1..Len(p) /\ p[k + 1] \in Out(Current)
  <2>1. k + 1 \in 1..Len(p)  BY <1>4, <1>6
  <2>2. p[k + 1] \in Out(At(p, (k + 1) - 1))  BY <1>1, <2>1 DEF SimplePath
  <2>3. (k + 1) - 1 = k  OBVIOUS
  <2> QED  BY <1>3, <2>1, <2>2, <2>3
<1> QED  BY <1>1, <1>3, <1>5, <1>6 DEF SimplePath

\* At the start every path is pending; when a request is refused none matters.
LEMMA StartAccount ==
  ASSUME TypeOK, Accounted, Start \/ RefuseRequest
  PROVE  Accounted'
<1>1. CASE Start
  <2>1. /\ pc = "start" /\ pc' = "walk" /\ relations = <<>> /\ relations' = <<>>
        /\ UNCHANGED <<graph, request, paths, truncated>>
    BY <1>1 DEF Start, Accounted
  <2>2. ASSUME NEW p \in SimplePaths  PROVE Pending(p)'
    <3>1. request.from \in Node /\ Given
      BY <1>1 DEF Start, Acceptable, TypeOK, Given
    <3>2. Len(p) \in Nat  BY <3>1, SimpleMeans DEF SimplePath
    <3>3. Len(relations') = 0  BY <2>1
    <3>4. Follows(p, Len(relations))'  BY <3>2, <3>3 DEF Follows
    <3> QED  BY <2>1, <3>4 DEF Pending
  <2>3. \A p \in SimplePaths : Pending(p)  BY <2>1 DEF Pending
  <2>4. truncated => Len(paths) = request.limit  BY DEF Accounted
  <2> QED  BY <2>1, <2>2, <2>3, <2>4, AccountKept
<1>2. CASE RefuseRequest
  <2>1. /\ pc = "start" /\ pc' = "refused"
        /\ UNCHANGED <<graph, request, paths, truncated>>
    BY <1>2 DEF RefuseRequest
  <2>2. \A p \in SimplePaths : Pending(p)  BY <2>1 DEF Pending
  <2>3. truncated => Len(paths) = request.limit  BY DEF Accounted
  <2> QED  BY <2>1, <2>2, <2>3, AccountKept
<1> QED  BY <1>1, <1>2

\* A walk that the limit ends is reported.
LEMMA WalkCutAccount ==
  ASSUME TypeOK, OnPath, Accounted, WalkCut
  PROVE  Accounted'
<1>1. /\ pc = "walk" /\ pc' = "loop" /\ truncated' = TRUE /\ Return
      /\ UNCHANGED <<graph, request, nodes, relations, paths>>
  BY DEF WalkCut, Return
<1>2. \A p \in SimplePaths : Pending(p)' => Pending(p)  BY <1>1, ReturnPending
<1>3. Len(paths) = request.limit
  <2>1. Len(paths) \in Nat /\ request.limit \in Nat  BY DEF TypeOK, Request
  <2> QED  BY <2>1 DEF WalkCut, LimitReached, Accounted
<1> QED  BY <1>1, <1>2, <1>3, AccountKept

\* No path within the limit goes on from a node at the limit.
LEMMA WalkDeepAccount ==
  ASSUME TypeOK, OnPath, Accounted, WalkDeep
  PROVE  Accounted'
<1>1. /\ pc = "walk" /\ pc' = "loop" /\ Return
      /\ Current # request.to /\ Len(relations) >= request.depth
      /\ UNCHANGED <<graph, request, nodes, relations, paths, truncated>>
  BY DEF WalkDeep, Return
<1>2. \A p \in SimplePaths : Pending(p)' => Pending(p)  BY <1>1, ReturnPending
<1>3. PICK k \in Nat : k = Len(relations)  BY DEF TypeOK
<1>4. ASSUME NEW p \in SimplePaths, Follows(p, k)  PROVE FALSE
  <2>1. Walking  BY <1>1 DEF Walking
  <2>2. SimplePath(p) /\ Len(p) # k /\ k + 1 \in 1..Len(p) /\ Len(p) <= request.depth
    BY <1>1, <1>3, <1>4, <2>1, FollowsWhole
  <2>3. Len(p) \in Nat /\ request.depth \in Nat  BY <2>2 DEF SimplePath, TypeOK, Request
  <2> QED  BY <1>1, <1>3, <2>2, <2>3
<1>5. \A p \in SimplePaths : Pending(p) => Pending(p)'
  BY <1>1, <1>3, <1>4, ReturnPending
<1>6. truncated => Len(paths) = request.limit  BY DEF Accounted
<1> QED  BY <1>1, <1>2, <1>5, <1>6, AccountKept

\* What began with the path leaves it by one of the new frame's neighbours.
LEMMA WalkNeighborsAccount ==
  ASSUME TypeOK, OnPath, Accounted, WalkNeighbors
  PROVE  Accounted'
<1>1. /\ pc = "walk" /\ pc' = "loop" /\ Current # request.to
      /\ frames' = Append(frames, Neighbors)
      /\ UNCHANGED <<graph, request, nodes, relations, paths, truncated>>
  BY DEF WalkNeighbors
<1>2. PICK k \in Nat : k = Len(relations)  BY DEF TypeOK
<1>3. Len(frames) = k /\ Walking  BY <1>1, <1>2 DEF OnPath, Walking, TypeOK
<1>4. Neighbors \in Seq(Node \X Relation) /\ Elements(Neighbors) = Out(Current)
  BY NeighborsListed DEF TypeOK, Given
<1>5. /\ \A i \in DOMAIN frames : frames'[i] = frames[i]
      /\ frames'[k + 1] = Neighbors
      /\ DOMAIN frames' = 1..(k + 1) /\ DOMAIN frames = 1..k
  BY <1>1, <1>3, <1>4 DEF TypeOK
<1>6. ASSUME NEW p \in SimplePaths
      PROVE  Pending(p)' <=> Pending(p)
  <2>1. \A i : Follows(p, i)' <=> Follows(p, i)  BY <1>1 DEF Follows, Taken
  <2>2. \A i \in DOMAIN frames : InFrame(p, i)' <=> InFrame(p, i)
    BY <1>5, <2>1 DEF InFrame, Elements
  <2>3. InFrame(p, k + 1)' <=> Follows(p, k)
    <3>1. Elements(frames[k + 1])' = Out(Current)  BY <1>4, <1>5 DEF Elements
    <3>2. (k + 1) - 1 = k  OBVIOUS
    <3>3. Follows(p, k) => k + 1 <= Len(p) /\ p[k + 1] \in Out(Current)
      BY <1>1, <1>2, <1>3, FollowsWhole
    <3> QED  BY <2>1, <3>1, <3>2, <3>3 DEF InFrame
  <2>4. \A i \in DOMAIN frames' : i \in DOMAIN frames \/ i = k + 1  BY <1>5
  <2>5. (\A i \in DOMAIN frames : i \in DOMAIN frames') /\ k + 1 \in DOMAIN frames'
    BY <1>5
  <2>6. Pending(p)' <=> \E i \in DOMAIN frames' : InFrame(p, i)'
    BY <1>1 DEF Pending, Walking
  <2>7. Pending(p) <=> Follows(p, k) \/ \E i \in DOMAIN frames : InFrame(p, i)
    BY <1>1, <1>2 DEF Pending, Walking
  <2> QED  BY <2>2, <2>3, <2>4, <2>5, <2>6, <2>7
<1>7. truncated => Len(paths) = request.limit  BY DEF Accounted
<1> QED  BY <1>1, <1>6, <1>7, AccountKept

\* Where the target is met, the path being walked is simple and new, and it
\* precedes all that are still pending.
LEMMA WalkFoundAccount ==
  ASSUME TypeOK, OnPath, InOrder, Accounted, WalkFound
  PROVE  Accounted'
<1> DEFINE path == [nodes |-> nodes, relations |-> relations]
<1>0. PICK c : c = Steps(path)  OBVIOUS
<1>1. /\ pc = "walk" /\ pc' = "loop" /\ Return /\ Current = request.to
      /\ Len(paths) < request.limit /\ paths' = Append(paths, path)
      /\ UNCHANGED <<graph, request, nodes, relations, truncated>>
  <2>1. Len(paths) \in Nat /\ request.limit \in Nat  BY DEF TypeOK, Request
  <2> QED  BY <2>1 DEF WalkFound, Return, LimitReached
<1>2. PICK k \in Nat : k = Len(relations)  BY DEF TypeOK
<1>3. Walking  BY <1>1 DEF Walking
<1>4. /\ Len(c) = k /\ DOMAIN c = 1..k
      /\ \A i \in 1..k : c[i] = Taken(i) /\ c[i][1] = nodes[i + 1]
  BY <1>0, <1>2 DEF Steps, Taken
<1>5. Follows(c, k)  BY <1>4 DEF Follows
<1>6. /\ Len(nodes) = k + 1 /\ nodes[k + 1] = request.to
      /\ DOMAIN nodes = 1..(k + 1) /\ DOMAIN relations = 1..k
  BY <1>1, <1>2, <1>3 DEF OnPath, TypeOK, Current
<1>7. c \in SimplePaths
  <2>1. \A i \in 0..k : At(c, i) = nodes[i + 1]  BY <1>2, <1>3, <1>5, FollowsAt
  <2>2. \A i \in 1..k : c[i] \in Out(nodes[i]) /\ nodes[i] # request.to
    <3> TAKE i \in 1..k
    <3>1. i \in DOMAIN relations  BY <1>6
    <3>2. Taken(i) \in Out(nodes[i]) /\ nodes[i] # request.to  BY <1>3, <3>1 DEF OnPath
    <3> QED  BY <1>4, <3>2
  <2>3. c \in Seq(Node \X Relation)
    <3>1. Given  BY DEF TypeOK, Given
    <3>2. \A i \in 1..k : c[i] \in Node \X Relation  BY <2>2, <3>1, OutFinite
    <3>3. c = [i \in 1..k |-> c[i]]  BY <1>0, <1>4 DEF Steps
    <3>4. c \in [1..k -> Node \X Relation]  BY <3>2, <3>3
    <3> QED  BY <3>4
  <2>4. \A i \in 1..k : c[i] \in Out(At(c, i - 1))
    <3> TAKE i \in 1..k
    <3>1. i - 1 \in 0..k /\ (i - 1) + 1 = i  OBVIOUS
    <3>2. At(c, i - 1) = nodes[i]  BY <2>1, <3>1
    <3> QED  BY <2>2, <3>2
  <2>5. \A i, j \in 0..k : At(c, i) = At(c, j) => i = j
    <3> SUFFICES ASSUME NEW i \in 0..k, NEW j \in 0..k, At(c, i) = At(c, j)
                 PROVE  i = j
      OBVIOUS
    <3>1. nodes[i + 1] = nodes[j + 1]  BY <2>1
    <3>2. i + 1 \in DOMAIN nodes /\ j + 1 \in DOMAIN nodes  BY <1>6
    <3>3. i + 1 = j + 1  BY <1>3, <3>1, <3>2 DEF OnPath
    <3> QED  BY <3>3
  <2>6. \A i \in 0..k : At(c, i) = request.to <=> i = k
    <3> TAKE i \in 0..k
    <3>1. i # k => i + 1 \in 1..k  OBVIOUS
    <3> QED  BY <1>6, <2>1, <2>2, <3>1
  <2>7. SimplePath(c)
    <3>1. k <= request.depth  BY <1>2, <1>3 DEF OnPath
    <3> QED  BY <1>4, <2>3, <2>4, <2>5, <2>6, <3>1 DEF SimplePath
  <2> QED  BY <1>3, <2>7, SimpleMeans DEF TypeOK, Given, OnPath, Acceptable
<1>8. c \notin Found
  <2>1. Pending(c)  BY <1>1, <1>2, <1>5 DEF Pending
  <2> QED  BY <1>7, <2>1 DEF Accounted
<1>9. /\ Len(paths') = Len(paths) + 1 /\ DOMAIN paths' = 1..(Len(paths) + 1)
      /\ DOMAIN paths = 1..Len(paths) /\ Len(paths) \in Nat
      /\ \A i \in 1..Len(paths) : paths'[i] = paths[i]
      /\ paths'[Len(paths) + 1] = path
  BY <1>1 DEF TypeOK
<1>10. \A i \in DOMAIN paths' : i \in DOMAIN paths \/ i = Len(paths) + 1  BY <1>9
<1>11. /\ \A i \in DOMAIN paths : Steps(paths'[i]) = Steps(paths[i]) /\ i \in DOMAIN paths'
       /\ Steps(paths'[Len(paths) + 1]) = c
       /\ Len(paths) + 1 \in DOMAIN paths'
  BY <1>0, <1>9
<1>12. Found' = Found \cup {c}
  <2>1. Found' = {Steps(paths'[i]) : i \in DOMAIN paths'}  BY DEF Found
  <2> QED  BY <1>10, <1>11, <2>1 DEF Found
<1>13. SimplePaths' = SimplePaths  BY <1>1, SimpleSame
<1>14. ASSUME NEW q \in SimplePaths, q # c, Pending(q)
       PROVE  Pending(q)' /\ \E i \in DOMAIN frames : InFrame(q, i)
  <2>1. ~ Follows(q, k)
    <3>1. SUFFICES ASSUME Follows(q, k)  PROVE q = c
      BY <1>14
    <3>2. Len(q) = k /\ q \in Seq(Node \X Relation)
      BY <1>1, <1>2, <1>3, <3>1, FollowsWhole DEF SimplePath
    <3>3. \A i \in 1..k : q[i] = c[i]  BY <1>4, <3>1 DEF Follows
    <3>4. q = [i \in 1..k |-> q[i]] /\ c = [i \in 1..k |-> c[i]]
      BY <1>0, <1>4, <3>2 DEF Steps
    <3> QED  BY <3>3, <3>4
  <2> QED  BY <1>1, <1>2, <1>14, <2>1, ReturnPending
<1>15. \A q \in SimplePaths : Pending(q)' => Pending(q)  BY <1>1, ReturnPending
<1>16. ~ Pending(c)'
  <2>1. SUFFICES ASSUME NEW i \in DOMAIN frames, InFrame(c, i)  PROVE FALSE
    BY <1>1, ReturnPending
  <2>2. Len(frames) = k  BY <1>1, <1>3, <1>6 DEF OnPath, TypeOK
  <2>3. i \in 1..k  BY <2>1, <2>2 DEF TypeOK
  <2>4. c[i] = Taken(i) /\ i \in DOMAIN relations  BY <1>4, <1>6, <2>3
  <2>5. PICK j \in DOMAIN frames[i] : frames[i][j] = c[i]
    BY <2>1 DEF InFrame, Elements
  <2>6. AdjacentBefore(Taken(i), Taken(i))  BY <1>3, <2>1, <2>4, <2>5 DEF InOrder
  <2>7. nodes[i + 1] \in Nat /\ relations[i] \in Nat
    <3>1. i + 1 \in DOMAIN nodes  BY <1>6, <2>3
    <3>2. nodes \in Seq(Node) /\ relations \in Seq(Relation)  BY DEF TypeOK
    <3>3. nodes[i + 1] \in Node  BY <3>1, <3>2
    <3>4. relations[i] \in Relation  BY <2>4, <3>2
    <3> QED  BY <3>3, <3>4, NodeAssumption, RelationAssumption
  <2> QED  BY <2>6, <2>7 DEF AdjacentBefore, Taken
<1>17. ~ truncated  BY <1>1 DEF Accounted, TypeOK
<1>18. ASSUME NEW q \in SimplePaths \ (Found \cup {c})
       PROVE  PathBefore(c, q)
  <2>1. Pending(q) /\ q # c  BY <1>1, <1>17 DEF Accounted
  <2>2. PICK i \in DOMAIN frames : InFrame(q, i)  BY <1>14, <2>1
  <2>3. Len(frames) = k  BY <1>1, <1>3, <1>6 DEF OnPath, TypeOK
  <2>4. i \in 1..k  BY <2>2, <2>3 DEF TypeOK
  <2>5. Follows(q, i - 1) /\ i <= Len(q) /\ q[i] \in Elements(frames[i])
    BY <2>2 DEF InFrame
  <2>6. AdjacentBefore(c[i], q[i])
    <3>1. PICK j \in DOMAIN frames[i] : frames[i][j] = q[i]  BY <2>5 DEF Elements
    <3>2. i \in DOMAIN relations /\ c[i] = Taken(i)  BY <1>4, <1>6, <2>4
    <3> QED  BY <1>3, <2>2, <3>1, <3>2 DEF InOrder
  <2>7. \A j \in 1..(i - 1) : c[j] = q[j]
    <3> TAKE j \in 1..(i - 1)
    <3>1. j \in 1..k  BY <2>4
    <3> QED  BY <1>4, <2>5, <3>1 DEF Follows
  <2>8. Len(q) \in Nat
    BY <1>3, SimpleMeans DEF SimplePath, TypeOK, Given, OnPath, Acceptable
  <2>9. i \in 1..Len(q)  BY <2>4, <2>5, <2>8
  <2> QED  BY <2>6, <2>7, <2>9 DEF PathBefore
<1>19. Found' \subseteq SimplePaths'  BY <1>7, <1>12, <1>13 DEF Accounted
<1>20. \A i, j \in DOMAIN paths' : Steps(paths'[i]) = Steps(paths'[j]) => i = j
  <2>1. \A i \in DOMAIN paths : Steps(paths[i]) # c  BY <1>8 DEF Found
  <2>2. \A i, j \in DOMAIN paths : Steps(paths[i]) = Steps(paths[j]) => i = j
    BY DEF Accounted
  <2> QED  BY <1>10, <1>11, <2>1, <2>2
<1>21. \A p \in SimplePaths :
         truncated' \/ p \in Found' \/ Pending(p)' \/ pc' = "refused"
  BY <1>1, <1>12, <1>14, <1>17 DEF Accounted
<1>22. \A p \in SimplePaths : ~ (p \in Found' /\ Pending(p)')
  BY <1>12, <1>15, <1>16 DEF Accounted
<1>23. \A p \in Found', q \in SimplePaths \ Found' : PathBefore(p, q)
  BY <1>12, <1>18 DEF Accounted
<1>24. Len(paths') <= request'.limit /\ ~ truncated'
  BY <1>1, <1>9, <1>17 DEF TypeOK, Request
<1> QED
  BY <1>1, <1>13, <1>19, <1>20, <1>21, <1>22, <1>23, <1>24 DEF Accounted

\* A turn of the loop that changes the last frame keeps the account if what
\* leaves the frame is on no simple path, or if the answer is cut.
LEMMA RestAccount ==
  ASSUME TypeOK, OnPath, Accounted, pc = "loop", pc' = "loop", Top # <<>>,
         UNCHANGED <<graph, request, nodes, relations, paths>>,
         \/ LimitReached /\ truncated' = TRUE /\ frames' = WithTop(<<>>)
         \/ /\ Head(Top)[1] \in visited /\ UNCHANGED truncated
            /\ frames' = WithTop(Tail(Top))
  PROVE  Accounted'
<1>1. PICK n \in Nat : n = Len(frames) /\ n = Len(nodes) /\ n >= 1  BY TopType
<1>2. /\ Top \in Seq(Node \X Relation) /\ Top = frames[n]
      /\ <<>> \in Seq(Node \X Relation) /\ Tail(Top) \in Seq(Node \X Relation)
      /\ DOMAIN frames = 1..n /\ Walking
  <2>1. Top \in Seq(Node \X Relation) /\ Tail(Top) \in Seq(Node \X Relation)
    BY TopType
  <2>2. DOMAIN frames = 1..n  BY <1>1, TopType
  <2>3. Top = frames[n] /\ Walking  BY <1>1 DEF Top, Walking
  <2> QED  BY <2>1, <2>2, <2>3
<1>3. ASSUME NEW p
      PROVE  Pending(p) <=>
               \/ \E i \in 1..(n - 1) : InFrame(p, i)
               \/ Follows(p, n - 1) /\ n <= Len(p) /\ p[n] \in Elements(Top)
  <2>1. Pending(p) <=> \E i \in 1..n : InFrame(p, i)  BY <1>2 DEF Pending
  <2>2. InFrame(p, n) <=> Follows(p, n - 1) /\ n <= Len(p) /\ p[n] \in Elements(Top)
    BY <1>2 DEF InFrame
  <2>3. n \in 1..n /\ \A i \in 1..n : i = n \/ i \in 1..(n - 1)  BY <1>1
  <2>4. \A i \in 1..(n - 1) : i \in 1..n  OBVIOUS
  <2> QED  BY <2>1, <2>2, <2>3, <2>4
<1>4. ASSUME NEW p, NEW rest \in Seq(Node \X Relation), frames' = WithTop(rest)
      PROVE  Pending(p)' <=>
               \/ \E i \in 1..(n - 1) : InFrame(p, i)
               \/ Follows(p, n - 1) /\ n <= Len(p) /\ p[n] \in Elements(rest)
  <2>1. /\ DOMAIN frames' = 1..n /\ frames'[n] = rest
        /\ \A i \in 1..(n - 1) : frames'[i] = frames[i]
    BY <1>1, <1>4, TopChanged
  <2>2. \A i : Follows(p, i)' <=> Follows(p, i)  BY DEF Follows, Taken
  <2>3. Pending(p)' <=> \E i \in 1..n : InFrame(p, i)'  BY <2>1 DEF Pending, Walking
  <2>4. InFrame(p, n)' <=> Follows(p, n - 1) /\ n <= Len(p) /\ p[n] \in Elements(rest)
    BY <2>1, <2>2 DEF InFrame, Elements
  <2>5. \A i \in 1..(n - 1) : InFrame(p, i)' <=> InFrame(p, i)
    BY <2>1, <2>2 DEF InFrame, Elements
  <2>6. n \in 1..n /\ \A i \in 1..n : i = n \/ i \in 1..(n - 1)  BY <1>1
  <2>7. \A i \in 1..(n - 1) : i \in 1..n  OBVIOUS
  <2> QED  BY <2>3, <2>4, <2>5, <2>6, <2>7
<1>5. truncated => Len(paths) = request.limit  BY DEF Accounted
<1>6. CASE LimitReached /\ truncated' = TRUE /\ frames' = WithTop(<<>>)
  <2>1. Elements(<<>>) = {}  BY DEF Elements
  <2>2. \A p : Pending(p)' => Pending(p)  BY <1>2, <1>3, <1>4, <1>6, <2>1
  <2>3. Len(paths) = request.limit
    <3>1. Len(paths) \in Nat /\ request.limit \in Nat  BY DEF TypeOK, Request
    <3> QED  BY <1>6, <3>1 DEF LimitReached, Accounted
  <2> QED  BY <1>6, <2>2, <2>3, AccountKept
<1>7. CASE /\ Head(Top)[1] \in visited /\ UNCHANGED truncated
           /\ frames' = WithTop(Tail(Top))
  <2>1. 1 \in DOMAIN Top /\ Head(Top) = Top[1]  BY <1>2
  <2>2. Elements(Top) = {Top[1]} \cup Elements(Tail(Top))  BY <1>2, <2>1, ElementsTail
  <2>3. PICK j \in 1..n : nodes[j] = Top[1][1]
    BY <1>1, <1>2, <1>7, <2>1 DEF OnPath, Elements, TypeOK
  <2>4. ASSUME NEW p \in SimplePaths, Follows(p, n - 1), n <= Len(p), p[n] = Top[1]
        PROVE  FALSE
    <3>1. SimplePath(p)  BY <1>2, SimpleMeans DEF TypeOK, Given, OnPath, Acceptable
    <3>2. Len(relations) = n - 1  BY <1>1, <1>2 DEF OnPath
    <3>3. n - 1 \in 0..Len(relations) /\ j - 1 \in 0..(n - 1) /\ (j - 1) + 1 = j
      BY <1>1, <2>3, <3>2
    <3>4. At(p, j - 1) = nodes[j]  BY <1>2, <2>4, <3>3, FollowsAt
    <3>5. At(p, n) = Top[1][1]  BY <1>1, <2>4 DEF At
    <3>6. Len(p) \in Nat  BY <3>1 DEF SimplePath
    <3>7. n \in 0..Len(p) /\ j - 1 \in 0..Len(p) /\ j - 1 # n  BY <1>1, <2>3, <2>4, <3>6
    <3> QED  BY <2>3, <3>1, <3>4, <3>5, <3>7 DEF SimplePath
  <2>5. \A p \in SimplePaths : Pending(p)' <=> Pending(p)
    BY <1>2, <1>3, <1>4, <1>7, <2>2, <2>4
  <2> QED  BY <1>5, <1>7, <2>5, AccountKept
<1> QED  BY <1>6, <1>7

\* Paths that go on by the neighbour entered now begin with the path.
LEMMA EnterAccount ==
  ASSUME TypeOK, OnPath, Accounted, LoopEnter
  PROVE  Accounted'
<1> USE DEF Taken
<1>1. PICK n \in Nat :
        /\ n >= 1 /\ DOMAIN frames = 1..n
        /\ Top = frames[n] /\ 1 \in DOMAIN Top
        /\ DOMAIN frames' = 1..n
        /\ frames'[n] = Tail(Top) /\ \A i \in 1..(n - 1) : frames'[i] = frames[i]
        /\ \A k \in DOMAIN Tail(Top) :
             k \in Nat \ {0} /\ k + 1 \in DOMAIN Top /\ Tail(Top)[k] = Top[k + 1]
        /\ \A k \in DOMAIN Top :
             k = 1 \/ (k - 1 \in DOMAIN Tail(Top) /\ Top[k] = Tail(Top)[k - 1])
        /\ Len(relations') = n
        /\ \A i \in 1..(n - 1) : Taken(i)' = Taken(i)
        /\ Taken(n)' = Top[1]
        /\ pc = "loop" /\ pc' = "walk" /\ UNCHANGED <<graph, request, paths, truncated>>
  BY Entered
<1>2. Elements(Top) = {Top[1]} \cup Elements(Tail(Top))
  <2>1. /\ Top \in Seq(Node \X Relation) /\ Top # <<>>
        /\ Head(Top) = Top[1]
    BY TopType DEF LoopEnter
  <2> QED  BY <2>1, ElementsTail
<1>3. n \in 1..n /\ \A i \in 1..n : i = n \/ i \in 1..(n - 1)  BY <1>1
<1>4. \A i \in 1..(n - 1) : i \in 1..n  OBVIOUS
<1>5. ASSUME NEW p \in SimplePaths
      PROVE  Pending(p)' <=> Pending(p)
  <2>0. Len(p) \in Nat
    BY <1>1, SimpleMeans DEF SimplePath, TypeOK, Given, OnPath, Acceptable, Walking
  <2>1. \A i \in 0..(n - 1) : Follows(p, i)' <=> Follows(p, i)
    <3> TAKE i \in 0..(n - 1)
    <3>1. \A j \in 1..i : j \in 1..(n - 1)  OBVIOUS
    <3>2. \A j \in 1..i : Taken(j)' = Taken(j)  BY <1>1, <3>1
    <3> HIDE DEF Taken
    <3> QED  BY <3>2 DEF Follows
  <2>2. Follows(p, n)' <=> Follows(p, n - 1) /\ n <= Len(p) /\ p[n] = Top[1]
    <3>1. Follows(p, n)' <=>
            n <= Len(p) /\ (\A j \in 1..(n - 1) : p[j] = Taken(j)) /\ p[n] = Top[1]
      <4> HIDE DEF Taken
      <4>1. Follows(p, n)' <=> n <= Len(p) /\ \A j \in 1..n : p[j] = Taken(j)'
        BY DEF Follows
      <4> QED  BY <1>1, <1>3, <1>4, <4>1
    <3>2. n <= Len(p) => n - 1 <= Len(p)  BY <2>0
    <3> QED  BY <3>1, <3>2 DEF Follows
  <2>3. \A i \in 1..(n - 1) : InFrame(p, i)' <=> InFrame(p, i)
    <3> TAKE i \in 1..(n - 1)
    <3>1. i - 1 \in 0..(n - 1)  OBVIOUS
    <3> QED  BY <1>1, <2>1, <3>1 DEF InFrame, Elements
  <2>4. InFrame(p, n)' <=> Follows(p, n - 1) /\ n <= Len(p) /\ p[n] \in Elements(Tail(Top))
    <3>1. n - 1 \in 0..(n - 1)  BY <1>1
    <3> QED  BY <1>1, <2>1, <3>1 DEF InFrame, Elements
  <2>5. InFrame(p, n) <=> Follows(p, n - 1) /\ n <= Len(p) /\ p[n] \in Elements(Top)
    BY <1>1 DEF InFrame
  <2>6. Pending(p)' <=> Follows(p, n)' \/ \E i \in 1..n : InFrame(p, i)'
    BY <1>1 DEF Pending, Walking
  <2>7. Pending(p) <=> \E i \in 1..n : InFrame(p, i)
    BY <1>1 DEF Pending, Walking
  <2> QED  BY <1>2, <1>3, <1>4, <2>2, <2>3, <2>4, <2>5, <2>6, <2>7
<1>6. truncated => Len(paths) = request.limit  BY DEF Accounted
<1> QED  BY <1>1, <1>5, <1>6, AccountKept

\* Nothing is pending in the frame that is left.
LEMMA ExitAccount ==
  ASSUME TypeOK, OnPath, Accounted, LoopExit
  PROVE  Accounted'
<1>1. truncated => Len(paths) = request.limit  BY DEF Accounted
<1>2. CASE Len(frames) = 1
  <2>1. /\ pc = "loop" /\ pc' = "done" /\ Top = <<>> /\ Top = frames[1]
        /\ UNCHANGED <<graph, request, paths, truncated>>
    BY <1>2 DEF LoopExit, Top
  <2>2. DOMAIN frames = {1}  BY <1>2 DEF TypeOK
  <2>3. Elements(frames[1]) = {}  BY <2>1 DEF Elements
  <2>4. \A p : ~ Pending(p)  BY <2>1, <2>2, <2>3 DEF Pending, InFrame
  <2>5. \A p : ~ Pending(p)'  BY <2>1 DEF Pending, Walking
  <2> QED  BY <1>1, <2>1, <2>4, <2>5, AccountKept
<1>3. CASE Len(frames) # 1
  <2> USE DEF Taken
  <2>1. PICK n \in Nat :
          /\ n >= 2 /\ DOMAIN frames = 1..n /\ frames[n] = <<>>
          /\ DOMAIN frames' = 1..(n - 1)
          /\ \A i \in 1..(n - 1) : frames'[i] = frames[i]
          /\ \A i \in 1..(n - 2) : Taken(i)' = Taken(i)
          /\ pc = "loop" /\ pc' = "loop" /\ UNCHANGED <<graph, request, paths, truncated>>
    BY <1>3, Left
  <2> HIDE DEF Taken
  <2>2. ASSUME NEW p  PROVE Pending(p)' <=> Pending(p)
    <3>1. \A i \in 1..(n - 1) : Follows(p, i - 1)' <=> Follows(p, i - 1)
      <4> TAKE i \in 1..(n - 1)
      <4>1. \A j \in 1..(i - 1) : j \in 1..(n - 2)  OBVIOUS
      <4>2. \A j \in 1..(i - 1) : Taken(j)' = Taken(j)  BY <2>1, <4>1
      <4> QED  BY <4>2 DEF Follows
    <3>2. \A i \in 1..(n - 1) : InFrame(p, i)' <=> InFrame(p, i)
      BY <2>1, <3>1 DEF InFrame, Elements
    <3>3. ~ InFrame(p, n)  BY <2>1 DEF InFrame, Elements
    <3>4. \A i \in 1..n : i = n \/ i \in 1..(n - 1)  BY <2>1
    <3>5. \A i \in 1..(n - 1) : i \in 1..n  BY <2>1
    <3>6. Pending(p)' <=> \E i \in 1..(n - 1) : InFrame(p, i)'  BY <2>1 DEF Pending, Walking
    <3>7. Pending(p) <=> \E i \in 1..n : InFrame(p, i)  BY <2>1 DEF Pending, Walking
    <3> QED  BY <3>2, <3>3, <3>4, <3>5, <3>6, <3>7
  <2> QED  BY <1>1, <2>1, <2>2, AccountKept
<1> QED  BY <1>2, <1>3

\* Every step keeps the account of found, pending and cut paths.
LEMMA AccountsKept ==
  ASSUME TypeOK, OnPath, InOrder, Accounted, Next
  PROVE  Accounted'
<1>1. CASE RefuseRequest \/ Start  BY <1>1, StartAccount
<1>2. CASE WalkCut  BY <1>2, WalkCutAccount
<1>3. CASE WalkFound  BY <1>3, WalkFoundAccount
<1>4. CASE WalkDeep  BY <1>4, WalkDeepAccount
<1>5. CASE WalkNeighbors  BY <1>5, WalkNeighborsAccount
<1>6. CASE LoopCut \/ LoopSkip
  <2>1. pc = "loop" /\ pc' = "loop"  BY <1>6 DEF LoopCut, LoopSkip
  <2> QED  BY <1>6, <2>1, RestAccount DEF LoopCut, LoopSkip
<1>7. CASE LoopEnter  BY <1>7, EnterAccount
<1>8. CASE LoopExit  BY <1>8, ExitAccount
<1> QED
  BY <1>1, <1>2, <1>3, <1>4, <1>5, <1>6, <1>7, <1>8 DEF Next

-----------------------------------------------------------------------------
(* The enumeration as a whole.                                             *)

\* A walk that starts on a given graph satisfies the invariant, ...
LEMMA PathsBegin ==
  ASSUME Given, Init
  PROVE  PathInv
<1>1. /\ pc = "start" /\ frames = <<>> /\ nodes = <<>> /\ relations = <<>>
      /\ visited = {} /\ paths = <<>> /\ truncated = FALSE
  BY DEF Init
<1>2. TypeOK
  <2>1. /\ frames \in Seq(Seq(Node \X Relation)) /\ nodes \in Seq(Node)
        /\ relations \in Seq(Relation)
    BY <1>1
  <2>2. paths \in Seq([nodes : Seq(Node), relations : Seq(Relation)])
    BY <1>1
  <2> QED  BY <1>1, <2>1, <2>2 DEF TypeOK, Given
<1>3. OnPath /\ InOrder  BY <1>1 DEF OnPath, InOrder, Walking
<1>4. Found = {} /\ DOMAIN paths = {} /\ Len(paths) = 0  BY <1>1 DEF Found
<1>5. 0 <= request.limit  BY DEF Given, Request
<1>6. Accounted  BY <1>1, <1>4, <1>5 DEF Accounted, Pending
<1> QED  BY <1>2, <1>3, <1>6 DEF PathInv

\* ... every step keeps it, ...
LEMMA PathsGoOn ==
  ASSUME PathInv, Next
  PROVE  PathInv'
BY TypeKept, PathKept, AccountsKept DEF PathInv

\* ... and so does a step that leaves the walk alone.
LEMMA PathsStay ==
  ASSUME PathInv, UNCHANGED vars
  PROVE  PathInv'
<1>1. /\ UNCHANGED <<graph, request, pc, frames, nodes, relations, visited>>
      /\ UNCHANGED <<paths, truncated>>
  BY DEF vars
<1>2. TypeOK'  BY <1>1 DEF PathInv, TypeOK
<1>3. OnPath'  BY <1>1 DEF PathInv, OnPath, Walking, Acceptable, Taken, Out
<1>4. InOrder'  BY <1>1 DEF PathInv, InOrder, Walking, Taken, Out
<1>5. \A p : Pending(p)' <=> Pending(p)
  BY <1>1 DEF Pending, Walking, InFrame, Follows, Taken
<1>6. SimplePaths' = SimplePaths  BY <1>1, SimpleSame
<1>7. Accounted'  BY <1>1, <1>5, <1>6 DEF PathInv, Accounted, Found
<1> QED  BY <1>2, <1>3, <1>4, <1>7 DEF PathInv

\* The walk backtracks exactly.
LEMMA PathsBacktrack ==
  ASSUME PathInv
  PROVE  Backtracks
<1> SUFFICES ASSUME pc \in {"walk", "loop"}  PROVE Backtracks
  BY DEF Backtracks
<1>1. /\ visited = Elements(nodes) /\ nodes \in Seq(Node)
      /\ \A i, j \in DOMAIN nodes : nodes[i] = nodes[j] => i = j
      /\ Len(relations) = Len(nodes) - 1
      /\ Len(frames) = Len(nodes) - (IF pc = "walk" THEN 1 ELSE 0)
  BY DEF PathInv, TypeOK, OnPath, Walking
<1>2. Cardinality(visited) = Len(nodes)  BY <1>1, DistinctCount
<1> QED  BY <1>1, <1>2 DEF Backtracks, Elements

\* The answer is complete, or cut and as long as it may be.
LEMMA PathsAllFound ==
  ASSUME PathInv
  PROVE  PathsComplete
<1> SUFFICES ASSUME pc = "done"  PROVE PathsComplete
  BY DEF PathsComplete
<1>1. \A p : ~ Pending(p)  BY DEF Pending, Walking
<1>2. /\ Found \subseteq SimplePaths
      /\ \A i, j \in DOMAIN paths : Steps(paths[i]) = Steps(paths[j]) => i = j
      /\ \A p \in SimplePaths : truncated \/ p \in Found
      /\ \A p \in Found, q \in SimplePaths \ Found : PathBefore(p, q)
      /\ truncated => Len(paths) = request.limit
  BY <1>1 DEF PathInv, Accounted
<1>3. Cardinality(Found) = Len(paths)
  <2> DEFINE s == [i \in 1..Len(paths) |-> Steps(paths[i])]
  <2>1. DOMAIN paths = 1..Len(paths) /\ Len(paths) \in Nat  BY DEF PathInv, TypeOK
  <2>2. s \in [1..Len(paths) -> Found]  BY <2>1 DEF Found
  <2>3. s \in Seq(Found) /\ DOMAIN s = 1..Len(paths) /\ Len(s) = Len(paths)
    BY <2>1, <2>2
  <2>4. \A i, j \in DOMAIN s : s[i] = s[j] => i = j  BY <1>2, <2>1
  <2>5. Elements(s) = Found  BY <2>1 DEF Elements, Found
  <2> HIDE DEF s
  <2> QED  BY <2>3, <2>4, <2>5, DistinctCount
<1>4. ~ truncated => Found = SimplePaths  BY <1>2
<1> QED  BY <1>2, <1>3, <1>4 DEF PathsComplete
=============================================================================
