--------------------------- MODULE TraversalProofs ---------------------------
(***************************************************************************)
(* The breadth-first queries, for any graph, request and limits.           *)
(*                                                                         *)
(* A node is labelled with its distance d only when it is within d         *)
(* relations of the starts and not within d - 1; when the head of the      *)
(* queue has the distance d, all nodes within d relations are labelled.    *)
(* A chain is walked back along parents, whose distances decrease by one.  *)
(***************************************************************************)
EXTENDS Traversal, OrdersProofs

(* What a search is given.                                                 *)
Given == graph \in SUBSET GraphEdge /\ request \in Request

Onward(n) == AdjacentNodes(graph, n, SearchDirection, Allowed)

(* The nodes within d relations of some starts.                            *)
Balls == [S \in SUBSET Node |-> Within(S, request.depth)]

Ball(S, d) == Balls[S][d]

Starts == IF Chains THEN {start} ELSE RefStarts

Labelled(n) == distances[n] # None

(* A search is on, or has ended and left its labels.                       *)
Searching == pc \in {"search", "found"} \/ (pc = "done" /\ ~Chains)

(* A label is the least distance from the starts.                          *)
Labels ==
  Searching =>
    /\ Acceptable
    /\ Chains => start \in request.entries
    /\ \A n \in Starts : distances[n] = 0
    /\ \A n \in Node : Labelled(n) =>
         /\ distances[n] <= request.depth
         /\ n \in Ball(Starts, distances[n])
         /\ distances[n] > 0 => n \notin Ball(Starts, distances[n] - 1)

(* The queue is in the order of the labels, and a node that has left it    *)
(* has labelled neighbours unless it is at the limit.                      *)
Queued ==
  pc = "search" \/ (pc = "done" /\ ~Chains) =>
    /\ \A i \in DOMAIN queue : Labelled(queue[i])
    /\ \A i, j \in DOMAIN queue : i <= j =>
         /\ distances[queue[i]] <= distances[queue[j]]
         /\ distances[queue[j]] <= distances[queue[i]] + 1
    /\ \A n \in Node \ Elements(queue) :
         Labelled(n) /\ distances[n] < request.depth =>
           \A m \in Onward(n) : Labelled(m) /\ distances[m] <= distances[n] + 1
    /\ pc = "done" => queue = <<>>

(* A node other than the start was met from its parent, one relation away. *)
IsParent(n, r, m) ==
  /\ parent[m] = <<n, r>>
  /\ n \in Node /\ r \in Allowed
  /\ [source |-> n, relation |-> r, target |-> m] \in graph
  /\ Labelled(n) /\ distances[m] = distances[n] + 1

Parents ==
  Chains /\ pc \in {"search", "found"} =>
    /\ pc = "found" <=> Labelled(request.target)
    /\ \A m \in Node : Labelled(m) /\ distances[m] > 0 =>
         \E n \in Node, r \in Relation : IsParent(n, r, m)

(* The entries that have been searched from.                               *)
Tried ==
  {n \in request.entries : n \notin Elements(pending) /\ (pc # "done" => n # start)}

Answering == Chains /\ pc \in {"search", "found", "done"}

(* Entries are searched from in their order.                               *)
InTurn ==
  Answering =>
    /\ Acceptable
    /\ Elements(pending) \subseteq request.entries
    /\ \A i, j \in DOMAIN pending : i < j => pending[i] < pending[j]
    /\ pc # "done" => \A n \in Elements(pending) : start < n
    /\ \A n \in Tried, m \in request.entries \ Tried : n < m
    /\ pc = "done" => pending = <<>>

(* A shortest chain from an entry to the target.                           *)
ChainFrom(c, n) ==
  LET length == Len(c.relations)
  IN  /\ c \in [nodes : Seq(Node), relations : Seq(Relation)]
      /\ Len(c.nodes) = length + 1
      /\ c.nodes[1] = n /\ c.nodes[length + 1] = request.target
      /\ \A i \in 1..length :
           /\ c.relations[i] \in Allowed
           /\ [source |-> c.nodes[i], relation |-> c.relations[i],
               target |-> c.nodes[i + 1]] \in graph
      /\ length <= request.depth
      /\ request.target \in Ball({n}, length)

(* No chain from n is shorter than c, or as long if n is a lower entry.     *)
AtLeast(c, n) ==
  /\ Len(c.relations) > 0 => request.target \notin Ball({n}, Len(c.relations) - 1)
  /\ request.target \in Ball({n}, Len(c.relations)) => c.nodes[1] <= n

(* The chain is the best of the entries that have been tried.              *)
Best ==
  Answering =>
    \A c \in {chain} :
      IF c = None
        THEN \A n \in Tried : request.target \notin Ball({n}, request.depth)
        ELSE /\ c.nodes[1] \in Tried /\ ChainFrom(c, c.nodes[1])
             /\ \A n \in Tried : AtLeast(c, n)

SearchInv ==
  /\ TypeOK /\ Labels /\ Queued /\ Parents /\ InTurn /\ Best
  /\ pc = "start" => chain = None /\ pending = <<>>

-----------------------------------------------------------------------------
(* Lists of nodes.                                                         *)

\* What a list of numbers in the order of the numbers is.
LEMMA BelowLists ==
  ASSUME NEW S \in SUBSET Nat, IsFiniteSet(S)
  PROVE  /\ Ordered(S, Below) \in Seq(S)
         /\ Elements(Ordered(S, Below)) = S
         /\ Len(Ordered(S, Below)) = Cardinality(S)
         /\ \A i, j \in DOMAIN Ordered(S, Below) :
              i < j => Ordered(S, Below)[i] < Ordered(S, Below)[j]
<1> DEFINE s == Ordered(S, Below)
           R == {p \in S \X S : p[1] < p[2]}
<1>1. s = Ranked(S, R)  BY DEF Ordered, Below
<1>2. TotalOrder(R, S)  BY NumbersOrdered
<1>3. Lists(s, S, R) /\ Len(s) = Cardinality(S)  BY <1>1, <1>2, RankedLists
<1> HIDE DEF s
<1>4. /\ s \in Seq(S) /\ Elements(s) = S
      /\ \A i, j \in DOMAIN s : i < j => <<s[i], s[j]>> \in R
  BY <1>3 DEF Lists
<1>5. \A i, j \in DOMAIN s : i < j => s[i] < s[j]  BY <1>4
<1> QED  BY <1>3, <1>4, <1>5 DEF s

-----------------------------------------------------------------------------
(* Nodes within some distance.                                             *)

\* The neighbours of a node are nodes.
LEMMA OnwardNodes ==
  ASSUME Given, NEW n
  PROVE  Onward(n) \subseteq Node
<1>1. \A e \in graph : e.source \in Node /\ e.target \in Node
  BY DEF Given, GraphEdge
<1> QED  BY <1>1 DEF Onward, AdjacentNodes, Adjacent

(* What is met from some nodes.                                            *)
Farther(B) == B \cup UNION {Onward(n) : n \in B}

\* The reference exists, whatever the starts and the limit.
LEMMA BallMeans ==
  ASSUME Given, NEW S \in SUBSET Node
  PROVE  /\ Ball(S, 0) = S
         /\ \A d \in 1..request.depth : Ball(S, d) = Farther(Ball(S, d - 1))
         /\ \A d \in 0..request.depth : Ball(S, d) \in SUBSET Node
<1> DEFINE D == request.depth
           Rec(f) == [d \in 0..D |->
             IF d = 0 THEN S
             ELSE f[d - 1] \cup
                    UNION {AdjacentNodes(graph, n, SearchDirection, Allowed) : n \in f[d - 1]}]
           step == [B \in SUBSET Node |-> Farther(B)]
<1>1. D \in Nat  BY DEF Given, Request
<1>2. \A B \in SUBSET Node : Farther(B) \in SUBSET Node
  BY OnwardNodes DEF Farther
<1>3. step \in [SUBSET Node -> SUBSET Node] /\ \A B \in SUBSET Node : step[B] = Farther(B)
  BY <1>2
<1> HIDE DEF step
<1>4. PICK f \in [0..D -> SUBSET Node] : f[0] = S /\ \A i \in 1..D : f[i] = step[f[i - 1]]
  <2> DEFINE X == SUBSET Node
  <2>1. S \in X /\ step \in [X -> X]  BY <1>3
  <2> HIDE DEF D, X
  <2>2. Runs(X, S, step, D) # {}  BY <1>1, <2>1, Iterated
  <2>3. PICK f \in Runs(X, S, step, D) : TRUE  BY <2>2
  <2>4. f \in [0..D -> X] /\ f[0] = S /\ \A i \in 1..D : f[i] = step[f[i - 1]]
    BY <2>3 DEF Runs
  <2> QED  BY <2>4 DEF X
<1>5. \A d \in 0..D : d # 0 => d \in 1..D /\ d - 1 \in 0..D  BY <1>1
<1>6. \A d \in 0..D :
        f[d] = IF d = 0 THEN S ELSE f[d - 1] \cup UNION {Onward(n) : n \in f[d - 1]}
  BY <1>3, <1>4, <1>5 DEF Farther
<1>7. f = Rec(f)  BY <1>4, <1>6 DEF Onward
<1>8. Within(S, D) = CHOOSE g : g = Rec(g)  BY DEF Within
<1> DEFINE w == Within(S, D)
<1>9. w = Rec(w)  BY <1>7, <1>8
<1> HIDE DEF w
<1>10. /\ w[0] = S
       /\ \A d \in 1..D : w[d] = Farther(w[d - 1])
  <2>1. 0 \in 0..D  BY <1>1
  <2>2. \A d \in 1..D : d \in 0..D /\ d # 0  BY <1>1
  <2>3. w[0] = S  BY <1>9, <2>1
  <2>4. \A d \in 1..D : w[d] = w[d - 1] \cup
          UNION {AdjacentNodes(graph, n, SearchDirection, Allowed) : n \in w[d - 1]}
    BY <1>9, <2>2
  <2> QED  BY <2>3, <2>4 DEF Farther, Onward
<1>11. \A d \in 0..D : w[d] \in SUBSET Node
  <2> DEFINE G == {d \in 0..D : w[d] \in SUBSET Node}
  <2>1. 0 \in G  BY <1>1, <1>10
  <2>2. ASSUME NEW k \in 0..(D - 1), k \in G  PROVE k + 1 \in G
    <3>1. k + 1 \in 1..D /\ k + 1 \in 0..D /\ (k + 1) - 1 = k  BY <1>1
    <3>2. w[k + 1] = Farther(w[k])  BY <1>10, <3>1
    <3> QED  BY <1>2, <2>2, <3>1, <3>2
  <2> HIDE DEF G
  <2>3. 0..D \subseteq G  BY <1>1, <2>1, <2>2, UpTo
  <2> QED  BY <2>3 DEF G
<1>12. Balls[S] = w  BY DEF Balls, w
<1> QED  BY <1>10, <1>11, <1>12 DEF Ball

\* A larger limit takes nothing away.
LEMMA BallGrows ==
  ASSUME Given, NEW S \in SUBSET Node, NEW j \in 0..request.depth, NEW i \in 0..j
  PROVE  Ball(S, i) \subseteq Ball(S, j)
<1> DEFINE D == request.depth
           G == {d \in 0..(D - i) : Ball(S, i) \subseteq Ball(S, i + d)}
<1>1. D \in Nat /\ i \in Nat /\ i <= j /\ j <= D /\ j \in Nat  BY DEF Given, Request
<1>2. 0 \in G  BY <1>1
<1>3. ASSUME NEW k \in 0..(D - i - 1), k \in G  PROVE k + 1 \in G
  <2>1. /\ k + 1 \in 0..(D - i) /\ i + (k + 1) \in 1..D
        /\ (i + (k + 1)) - 1 = i + k
    BY <1>1
  <2>2. Ball(S, i + (k + 1)) = Farther(Ball(S, i + k))  BY <2>1, BallMeans
  <2> QED  BY <1>3, <2>1, <2>2 DEF Farther
<1> HIDE DEF G
<1>4. D - i \in Nat  BY <1>1
<1>5. 0..(D - i) \subseteq G  BY <1>2, <1>3, <1>4, UpTo
<1>6. j - i \in 0..(D - i) /\ i + (j - i) = j  BY <1>1
<1>7. j - i \in G  BY <1>5, <1>6
<1> QED  BY <1>6, <1>7 DEF G

\* The reference depends on the graph and the request.
LEMMA BallsSame ==
  ASSUME UNCHANGED <<graph, request>>
  PROVE  /\ Balls' = Balls
         /\ \A n : Onward(n)' = Onward(n)
         /\ Allowed' = Allowed
BY DEF Balls, Within, Onward, SearchDirection, Allowed

-----------------------------------------------------------------------------
(* Labels and the queue.                                                   *)

\* A search starts from nodes.
LEMMA StartsNodes ==
  ASSUME TypeOK, Labels, Searching
  PROVE  Starts \in SUBSET Node
<1>1. Acceptable /\ (Chains => start \in request.entries)  BY DEF Labels
<1>2. request.op \in SearchOps  BY DEF TypeOK, Request
<1> QED  BY <1>1, <1>2 DEF Starts, RefStarts, Acceptable, Chains, SearchOps

\* All nodes not farther than anything in the queue are labelled.
LEMMA NearLabelled ==
  ASSUME TypeOK, Labels, Queued, pc = "search" \/ (pc = "done" /\ ~Chains),
         NEW d \in 0..request.depth, \A i \in DOMAIN queue : d <= distances[queue[i]]
  PROVE  \A n \in Ball(Starts, d) : Labelled(n) /\ distances[n] <= d
<1> DEFINE G == {k \in 0..d : \A n \in Ball(Starts, k) : Labelled(n) /\ distances[n] <= k}
<1>1. Searching /\ Given /\ request.depth \in Nat  BY DEF Searching, Given, TypeOK, Request
<1>2. Starts \in SUBSET Node  BY <1>1, StartsNodes
<1>3. \A n \in Node : Labelled(n) => distances[n] \in Nat  BY DEF TypeOK, Labelled
<1>4. 0 \in G
  <2>1. Ball(Starts, 0) = Starts  BY <1>1, <1>2, BallMeans
  <2>2. \A n \in Starts : distances[n] = 0  BY <1>1 DEF Labels
  <2>3. 0 # None  BY NoneAssumption
  <2> QED  BY <1>1, <2>1, <2>2, <2>3 DEF Labelled
<1>5. ASSUME NEW k \in 0..(d - 1), k \in G  PROVE k + 1 \in G
  <2>1. /\ k \in Nat /\ k < d /\ k < request.depth
        /\ k + 1 \in 0..d /\ k + 1 \in 1..request.depth /\ k \in 0..request.depth
        /\ (k + 1) - 1 = k
    BY <1>1
  <2>2. Ball(Starts, k + 1) = Farther(Ball(Starts, k))  BY <1>1, <1>2, <2>1, BallMeans
  <2>3. \A n \in Ball(Starts, k) : n \in Node /\ Labelled(n) /\ distances[n] <= k
    BY <1>1, <1>2, <1>5, <2>1, BallMeans
  <2>4. ASSUME NEW n \in Ball(Starts, k), NEW m \in Onward(n)
        PROVE  Labelled(m) /\ distances[m] <= k + 1
    <3>1. n \in Node /\ Labelled(n) /\ distances[n] \in Nat /\ distances[n] <= k
      BY <1>3, <2>3
    <3>2. n \notin Elements(queue)
      <4>1. SUFFICES ASSUME NEW i \in DOMAIN queue, n = queue[i]  PROVE FALSE
        BY DEF Elements
      <4>2. d <= distances[n] /\ d \in Nat  BY <4>1, <1>1
      <4> QED  BY <2>1, <3>1, <4>2
    <3>3. distances[n] < request.depth  BY <1>1, <2>1, <3>1
    <3>4. Labelled(m) /\ distances[m] <= distances[n] + 1
      BY <3>1, <3>2, <3>3 DEF Queued
    <3>5. m \in Node  BY <1>1, OnwardNodes
    <3>6. distances[m] \in Nat  BY <1>3, <3>4, <3>5
    <3> QED  BY <2>1, <3>1, <3>4, <3>6
  <2>5. \A n \in Ball(Starts, k) : Labelled(n) /\ distances[n] <= k + 1
    BY <1>3, <2>1, <2>3
  <2> QED  BY <2>1, <2>2, <2>4, <2>5 DEF Farther
<1> HIDE DEF G
<1>6. d \in Nat  BY <1>1
<1>7. 0..d \subseteq G  BY <1>4, <1>5, <1>6, UpTo
<1>8. d \in G  BY <1>6, <1>7
<1> QED  BY <1>8 DEF G

-----------------------------------------------------------------------------
(* How a search starts.                                                    *)

\* What a fresh search has labelled.
LEMMA FreshLabels ==
  ASSUME NEW S \in SUBSET Node, NEW n \in Node
  PROVE  /\ Fresh(S) \in [Node -> Nat \cup {None}]
         /\ Fresh(S)[n] # None <=> n \in S
         /\ n \in S => Fresh(S)[n] = 0
BY NoneAssumption DEF Fresh

\* A search for distances starts from all its starts at once.
LEMMA StartDistancesKept ==
  ASSUME SearchInv, StartDistances
  PROVE  SearchInv'
<1> USE DEF SearchInv
<1>1. PICK S : S = IF request.op = "impact" THEN {request.target} ELSE request.entries
  OBVIOUS
<1>2. /\ pc = "start" /\ Acceptable /\ ~Chains /\ pc' = "search"
      /\ distances' = Fresh(S) /\ queue' = Ordered(S, Below)
      /\ UNCHANGED <<graph, request, pending, start, parent, chain>>
  BY <1>1 DEF StartDistances
<1>3. /\ S \in SUBSET Node /\ request.depth \in Nat /\ Given
      /\ request.op \in SearchOps
  BY <1>1, <1>2 DEF Acceptable, TypeOK, Request, Given
<1>4. S \in SUBSET Nat /\ IsFiniteSet(S)  BY <1>3, NodeAssumption, FS_Subset
<1>5. queue' \in Seq(S) /\ Elements(queue') = S  BY <1>2, <1>4, BelowLists
<1>6. Starts' = S /\ ~Chains' /\ Acceptable' /\ Balls' = Balls
  BY <1>1, <1>2, BallsSame DEF Starts, RefStarts, Chains, Acceptable
<1>7. /\ distances' \in [Node -> Nat \cup {None}]
      /\ \A n \in Node : distances'[n] # None => n \in S /\ distances'[n] = 0
      /\ \A n \in S : distances'[n] = 0 /\ distances'[n] # None
  <2> HIDE DEF SearchInv
  <2>1. S \subseteq Node  BY <1>3
  <2> QED  BY <1>2, <2>1, NoneAssumption DEF Fresh
<1>8. TypeOK'
  <2>1. queue' \in Seq(Node)  BY <1>3, <1>5
  <2> QED  BY <1>2, <1>7, <2>1 DEF TypeOK
<1>9. Labels'
  <2>1. Ball(S, 0) = S  BY <1>3, BallMeans
  <2> QED
    BY <1>2, <1>3, <1>6, <1>7, <2>1 DEF Labels, Labelled, Ball
<1>10. Queued'
  <2>1. \A i \in DOMAIN queue' : queue'[i] \in S  BY <1>5 DEF Elements
  <2>2. \A i \in DOMAIN queue' : distances'[queue'[i]] = 0 /\ distances'[queue'[i]] # None
    BY <1>7, <2>1
  <2>3. \A n \in Node \ Elements(queue') : distances'[n] = None
    BY <1>5, <1>7
  <2> QED  BY <1>2, <2>2, <2>3 DEF Queued, Labelled, Elements
<1>11. Parents' /\ InTurn' /\ Best'
  BY <1>6 DEF Parents, InTurn, Best, Answering
<1> QED  BY <1>2, <1>8, <1>9, <1>10, <1>11

\* The search for a chain starts from the next entry.
LEMMA SearchFromKept ==
  ASSUME TypeOK, Acceptable, Chains, NEW n \in request.entries, NEW rest \in Seq(Node),
         SearchFrom(n, rest), UNCHANGED <<graph, request>>
  PROVE  /\ pending' = rest /\ start' = n /\ pc' \in {"search", "found"}
         /\ start' \in Node /\ pending' \in Seq(Node)
         /\ distances' \in [Node -> Nat \cup {None}]
         /\ parent' \in [Node -> (Node \X Relation) \cup {None}]
         /\ queue' \in Seq(Node)
         /\ Labels' /\ Queued' /\ Parents'
<1>1. /\ pending' = rest /\ start' = n
      /\ distances' = Fresh({n}) /\ parent' = [m \in Node |-> None]
      /\ queue' = <<n>> /\ pc' = (IF n = request.target THEN "found" ELSE "search")
  BY DEF SearchFrom
<1>2. /\ request.target \in Node /\ request.depth \in Nat /\ n \in Node /\ Given
  BY DEF Acceptable, Chains, TypeOK, Request, Given
<1>3. /\ Starts' = {n} /\ Chains' /\ Acceptable' /\ Balls' = Balls
      /\ \A m : Onward(m)' = Onward(m)
  BY <1>1, BallsSame DEF Starts, Chains, Acceptable
<1>4. /\ distances' \in [Node -> Nat \cup {None}]
      /\ \A m \in Node : distances'[m] # None <=> m = n
      /\ distances'[n] = 0
  BY <1>1, <1>2, FreshLabels
<1>5. Labels'
  <2>1. Ball({n}, 0) = {n}  BY <1>2, BallMeans
  <2>2. start' \in request'.entries  BY <1>1
  <2>3. \A m \in Node : distances'[m] # None => distances'[m] = 0 /\ m \in {n}
    BY <1>4
  <2>4. 0 <= request.depth /\ ~ (0 > 0)  BY <1>2
  <2>5. request' = request  OBVIOUS
  <2> QED  BY <1>3, <1>4, <2>1, <2>2, <2>3, <2>4, <2>5 DEF Labels, Labelled, Ball
<1>6. queue' \in Seq(Node) /\ DOMAIN queue' = {1} /\ queue'[1] = n
  BY <1>1, <1>2
<1>7. Queued'
  <2>1. Elements(queue') = {n}  BY <1>6 DEF Elements
  <2>2. \A m \in Node \ Elements(queue') : distances'[m] = None  BY <1>4, <2>1
  <2>3. \A i \in DOMAIN queue' : distances'[queue'[i]] = 0 /\ distances'[queue'[i]] # None
    BY <1>2, <1>4, <1>6
  <2>4. pc' # "done"  BY <1>1
  <2> QED  BY <2>2, <2>3, <2>4 DEF Queued, Labelled, Elements
<1>8. Parents'
  <2>1. request' = request  OBVIOUS
  <2>2. pc' = "found" <=> distances'[request.target] # None  BY <1>1, <1>2, <1>4
  <2>3. \A m \in Node : distances'[m] # None => distances'[m] = 0  BY <1>4
  <2> QED  BY <2>1, <2>2, <2>3 DEF Parents, Labelled
<1>9. parent' \in [Node -> (Node \X Relation) \cup {None}]  BY <1>1
<1> QED  BY <1>1, <1>2, <1>4, <1>5, <1>6, <1>7, <1>8, <1>9

-----------------------------------------------------------------------------
(* How it goes on.                                                         *)

\* The head of the queue is a node with the least label in the queue.
LEMMA HeadNearest ==
  ASSUME TypeOK, Queued, pc = "search", queue # <<>>
  PROVE  /\ Head(queue) \in Node /\ Tail(queue) \in Seq(Node)
         /\ Elements(queue) = {Head(queue)} \cup Elements(Tail(queue))
         /\ Labelled(Head(queue)) /\ distances[Head(queue)] \in Nat
         /\ \A i \in DOMAIN queue :
              /\ queue[i] \in Node /\ Labelled(queue[i]) /\ distances[queue[i]] \in Nat
              /\ distances[Head(queue)] <= distances[queue[i]]
              /\ distances[queue[i]] <= distances[Head(queue)] + 1
         /\ \A i \in DOMAIN Tail(queue) :
              i + 1 \in DOMAIN queue /\ Tail(queue)[i] = queue[i + 1]
<1>1. queue \in Seq(Node)  BY DEF TypeOK
<1>2. /\ Head(queue) \in Node /\ Tail(queue) \in Seq(Node)
      /\ 1 \in DOMAIN queue /\ Head(queue) = queue[1]
      /\ \A i \in DOMAIN queue : queue[i] \in Node /\ 1 <= i
      /\ \A i \in DOMAIN Tail(queue) :
           i + 1 \in DOMAIN queue /\ Tail(queue)[i] = queue[i + 1]
  BY <1>1
<1>3. Elements(queue) = {Head(queue)} \cup Elements(Tail(queue))  BY <1>1, ElementsTail
<1>4. \A n \in Node : Labelled(n) => distances[n] \in Nat  BY DEF TypeOK, Labelled
<1>5. \A i \in DOMAIN queue :
        /\ Labelled(queue[i])
        /\ distances[queue[1]] <= distances[queue[i]]
        /\ distances[queue[i]] <= distances[queue[1]] + 1
  BY <1>2 DEF Queued
<1> QED  BY <1>2, <1>3, <1>4, <1>5

\* Labels stay what they are while the distances do.
LEMMA LabelsStay ==
  ASSUME Labels, Searching, UNCHANGED <<graph, request, start, distances>>
  PROVE  Labels'
<1>1. /\ Balls' = Balls /\ Starts' = Starts /\ (Chains' <=> Chains)
      /\ (Acceptable' <=> Acceptable) /\ distances' = distances /\ request' = request
      /\ start' = start
  BY BallsSame DEF Starts, RefStarts, Chains, Acceptable
<1>2. /\ Acceptable
      /\ Chains => start \in request.entries
      /\ \A n \in Starts : distances[n] = 0
      /\ \A n \in Node : distances[n] # None =>
           /\ distances[n] <= request.depth
           /\ n \in Balls[Starts][distances[n]]
           /\ distances[n] > 0 => n \notin Balls[Starts][distances[n] - 1]
  BY DEF Labels, Labelled, Ball
<1> QED  BY <1>1, <1>2 DEF Labels, Labelled, Ball

\* What a chain is depends on the graph and the request.
LEMMA ChainFromSame ==
  ASSUME UNCHANGED <<graph, request>>
  PROVE  \A c, n : /\ ChainFrom(c, n)' <=> ChainFrom(c, n)
                   /\ AtLeast(c, n)' <=> AtLeast(c, n)
<1>1. Balls' = Balls /\ Allowed' = Allowed  BY BallsSame
<1> QED  BY <1>1 DEF ChainFrom, AtLeast, Ball

\* The entries that have been tried, and what came of them, stay the same
\* during a search.
LEMMA BestStays ==
  ASSUME InTurn, Best, pc = "search", pc' \in {"search", "found"},
         UNCHANGED <<graph, request, pending, start, chain>>
  PROVE  InTurn' /\ Best'
<1>1. /\ Tried' = Tried /\ (Answering' <=> Answering) /\ (Acceptable' <=> Acceptable)
      /\ pc # "done" /\ pc' # "done" /\ Balls' = Balls
      /\ Elements(pending)' = Elements(pending)
  BY BallsSame DEF Tried, Answering, Chains, Acceptable, Elements
<1>2. InTurn'  BY <1>1 DEF InTurn
<1>3. Best'  BY <1>1, ChainFromSame DEF Best, Ball
<1> QED  BY <1>2, <1>3

\* A node at the limit leaves the queue.
LEMMA SkipKept ==
  ASSUME SearchInv, SkipDeep
  PROVE  SearchInv'
<1>0. TypeOK /\ Labels /\ Queued /\ Parents /\ InTurn /\ Best  BY DEF SearchInv
<1>1. /\ pc = "search" /\ pc' = "search" /\ queue # <<>> /\ queue' = Tail(queue)
      /\ distances[Head(queue)] >= request.depth
      /\ UNCHANGED <<graph, request, pending, start, distances, parent, chain>>
  BY DEF SkipDeep
<1>2. TypeOK'
  <2>1. Tail(queue) \in Seq(Node)  BY <1>0, <1>1, HeadNearest
  <2> QED  BY <1>0, <1>1, <2>1 DEF TypeOK
<1>3. Labels'  BY <1>0, <1>1, LabelsStay DEF Searching
<1>4. Queued'
  <2>1. \A i \in DOMAIN queue' : i + 1 \in DOMAIN queue /\ queue'[i] = queue[i + 1]
    BY <1>0, <1>1, HeadNearest
  <2>2. Elements(queue) = {Head(queue)} \cup Elements(queue')
    BY <1>0, <1>1, HeadNearest
  <2>3. \A n : Onward(n)' = Onward(n)  BY <1>1, BallsSame
  <2>4. \A i, j \in DOMAIN queue' : i <= j => i + 1 <= j + 1
    BY <1>0, <1>1, HeadNearest
  <2>5. /\ \A i \in DOMAIN queue : distances[queue[i]] # None
        /\ \A i, j \in DOMAIN queue : i <= j =>
             /\ distances[queue[i]] <= distances[queue[j]]
             /\ distances[queue[j]] <= distances[queue[i]] + 1
    BY <1>0, <1>1 DEF Queued, Labelled
  <2>6. /\ \A i \in DOMAIN queue' : distances[queue'[i]] # None
        /\ \A i, j \in DOMAIN queue' : i <= j =>
             /\ distances[queue'[i]] <= distances[queue'[j]]
             /\ distances[queue'[j]] <= distances[queue'[i]] + 1
    BY <2>1, <2>4, <2>5
  <2>7. ASSUME NEW n \in Node \ Elements(queue'), distances[n] # None,
               distances[n] < request.depth, NEW m \in Onward(n)
        PROVE  distances[m] # None /\ distances[m] <= distances[n] + 1
    <3>1. distances[Head(queue)] \in Nat /\ request.depth \in Nat
      BY <1>0, <1>1, HeadNearest DEF TypeOK, Request
    <3>2. n # Head(queue)  BY <1>1, <2>7, <3>1
    <3>3. n \in Node \ Elements(queue)  BY <2>2, <3>2
    <3> QED  BY <1>0, <1>1, <2>7, <3>3 DEF Queued, Labelled
  <2> QED  BY <1>1, <2>3, <2>6, <2>7 DEF Queued, Labelled, Elements
<1>5. Parents'
  BY <1>0, <1>1, BallsSame DEF Parents, IsParent, Labelled, Chains
<1>6. InTurn' /\ Best'  BY <1>0, <1>1, BestStays
<1> QED  BY <1>1, <1>2, <1>3, <1>4, <1>5, <1>6 DEF SearchInv

\* A neighbour has a least relation that leads to it.
LEMMA FirstExists ==
  ASSUME Given, NEW n, NEW m \in Onward(n)
  PROVE  LET r == FirstRelation(graph, n, m, SearchDirection, Allowed)
         IN  r \in Relation /\ <<m, r>> \in Adjacent(graph, n, SearchDirection, Allowed)
<1> DEFINE A == Adjacent(graph, n, SearchDirection, Allowed)
           T == {r \in Relation : <<m, r>> \in A}
<1>1. T \in SUBSET Nat  BY RelationAssumption
<1>2. PICK a \in A : a[1] = m  BY DEF Onward, AdjacentNodes
<1>3. a[2] \in Relation /\ a = <<m, a[2]>>
  <2>1. \A e \in graph : e.relation \in Relation  BY DEF Given, GraphEdge
  <2> QED  BY <1>2, <2>1 DEF Adjacent
<1>4. a[2] \in T  BY <1>2, <1>3
<1> HIDE DEF T
<1>5. PICK r \in T : \A k \in T : r <= k  BY <1>1, <1>4, LeastNumber
<1>6. /\ r \in Relation /\ <<m, r>> \in A
      /\ \A s \in Relation : <<m, s>> \in A => r <= s
  BY <1>5 DEF T
<1> HIDE DEF A
<1>7. FirstRelation(graph, n, m, SearchDirection, Allowed) =
        CHOOSE x \in Relation :
          <<m, x>> \in A /\ \A s \in Relation : <<m, s>> \in A => x <= s
  BY DEF FirstRelation, A
<1> QED  BY <1>6, <1>7 DEF A

\* What a visit changes.
LEMMA Visited ==
  ASSUME SearchInv, Visit,
         NEW v, v = Head(queue), NEW d, d = distances[v], NEW N, N = Discovered
  PROVE  /\ v \in Node /\ d \in Nat /\ d < request.depth /\ N \in SUBSET Node
         /\ \A m : m \in N <=> m \in Onward(v) /\ distances[m] = None
         /\ \A m \in Node : distances'[m] = IF m \in N THEN d + 1 ELSE distances[m]
         /\ \A m \in Node \ N : parent'[m] = parent[m]
         /\ \A m \in N :
              parent'[m] = <<v, FirstRelation(graph, v, m, SearchDirection, Allowed)>>
         /\ queue' = Tail(queue) \o Ordered(N, Below)
         /\ pc = "search" /\ queue # <<>>
         /\ pc' = IF Chains /\ request.target \in N THEN "found" ELSE "search"
         /\ distances' \in [Node -> Nat \cup {None}]
         /\ parent' \in [Node -> (Node \X Relation) \cup {None}]
         /\ UNCHANGED <<graph, request, pending, start, chain>>
<1>0. TypeOK /\ Queued /\ Given  BY DEF SearchInv, TypeOK, Given
<1>1. /\ pc = "search" /\ queue # <<>> /\ distances[Head(queue)] < request.depth
      /\ distances' = [m \in Node |->
           IF m \in Discovered THEN distances[Head(queue)] + 1 ELSE distances[m]]
      /\ parent' = [m \in Node |->
           IF m \in Discovered
             THEN <<Head(queue), FirstRelation(graph, Head(queue), m, SearchDirection, Allowed)>>
             ELSE parent[m]]
      /\ queue' = Tail(queue) \o Ordered(Discovered, Below)
      /\ pc' = IF Chains /\ request.target \in Discovered THEN "found" ELSE "search"
  BY DEF Visit
<1>2. v \in Node /\ v = Head(queue)  BY <1>0, <1>1, HeadNearest
<1>3. d \in Nat /\ d = distances[v]  BY <1>0, <1>1, HeadNearest
<1>4. N = Discovered  OBVIOUS
<1>5. \A m : m \in N <=> m \in Onward(v) /\ distances[m] = None
  BY <1>2, <1>4 DEF Discovered, Onward
<1>6. N \in SUBSET Node  BY <1>0, <1>5, OnwardNodes
<1>7. \A m \in Node : distances'[m] = IF m \in N THEN d + 1 ELSE distances[m]
  BY <1>1, <1>2, <1>3, <1>4
<1>8. \A m \in N :
        parent'[m] = <<v, FirstRelation(graph, v, m, SearchDirection, Allowed)>>
  BY <1>1, <1>2, <1>4, <1>6
<1>9. \A m \in Node \ N : parent'[m] = parent[m]  BY <1>1, <1>4
<1>10. distances' \in [Node -> Nat \cup {None}]
  <2>1. \A m \in Node : distances[m] \in Nat \cup {None}  BY <1>0 DEF TypeOK
  <2> QED  BY <1>1, <1>2, <1>3, <2>1
<1>11. parent' \in [Node -> (Node \X Relation) \cup {None}]
  <2>1. \A m \in Node : parent[m] \in (Node \X Relation) \cup {None}  BY <1>0 DEF TypeOK
  <2>2. \A m \in Node : parent'[m] \in (Node \X Relation) \cup {None}
    <3> TAKE m \in Node
    <3>1. CASE m \in N
      <4>1. m \in Onward(v)  BY <1>5, <3>1
      <4>2. FirstRelation(graph, v, m, SearchDirection, Allowed) \in Relation
        BY <1>0, <4>1, FirstExists
      <4> QED  BY <1>2, <1>8, <3>1, <4>2
    <3>2. CASE m \notin N  BY <1>9, <2>1, <3>2
    <3> QED  BY <3>1, <3>2
  <2>3. parent' = [m \in Node |-> parent'[m]]  BY <1>1
  <2> QED  BY <2>2, <2>3
<1>12. queue' = Tail(queue) \o Ordered(N, Below)  BY <1>1, <1>4
<1>13. pc' = IF Chains /\ request.target \in N THEN "found" ELSE "search"
  BY <1>1, <1>4
<1>14. /\ d < request.depth /\ pc = "search" /\ queue # <<>>
       /\ UNCHANGED <<graph, request, pending, start, chain>>
  BY <1>1, <1>2, <1>3 DEF Visit
<1> QED
  BY <1>2, <1>3, <1>4, <1>5, <1>6, <1>7, <1>8, <1>9, <1>10, <1>11, <1>12, <1>13, <1>14

\* A list followed by another holds what both hold.
LEMMA Joined ==
  ASSUME NEW S, NEW s \in Seq(S), NEW t \in Seq(S)
  PROVE  /\ s \o t \in Seq(S)
         /\ \A i \in DOMAIN (s \o t) :
              \/ i \in DOMAIN s /\ (s \o t)[i] = s[i]
              \/ \E k \in DOMAIN t : i = Len(s) + k /\ (s \o t)[i] = t[k]
         /\ \A i \in DOMAIN s : i \in DOMAIN (s \o t) /\ (s \o t)[i] = s[i] /\ i <= Len(s)
         /\ \A k \in DOMAIN t : Len(s) + k \in DOMAIN (s \o t) /\ (s \o t)[Len(s) + k] = t[k]
         /\ Elements(s \o t) = Elements(s) \cup Elements(t)
<1>1. s \o t \in Seq(S)  OBVIOUS
<1>2. DOMAIN (s \o t) = 1..(Len(s) + Len(t)) /\ DOMAIN s = 1..Len(s) /\ DOMAIN t = 1..Len(t)
  OBVIOUS
<1>3. Len(s) \in Nat /\ Len(t) \in Nat  OBVIOUS
<1>4. \A i \in DOMAIN s : i \in DOMAIN (s \o t) /\ (s \o t)[i] = s[i] /\ i <= Len(s)
  BY <1>2, <1>3
<1>5. ASSUME NEW k \in DOMAIN t
      PROVE  Len(s) + k \in DOMAIN (s \o t) /\ (s \o t)[Len(s) + k] = t[k]
  <2>1. Len(s) + k \in 1..(Len(s) + Len(t)) /\ k \in 1..Len(t)  BY <1>2, <1>3
  <2> QED  BY <1>2, <1>3, <2>1
<1>6. ASSUME NEW i \in DOMAIN (s \o t)
      PROVE  \/ i \in DOMAIN s /\ (s \o t)[i] = s[i]
             \/ \E k \in DOMAIN t : i = Len(s) + k /\ (s \o t)[i] = t[k]
  <2>1. CASE i <= Len(s)
    <3>1. i \in DOMAIN s  BY <1>2, <1>3, <2>1
    <3> QED  BY <1>4, <3>1
  <2>2. CASE ~ (i <= Len(s))
    <3>1. i - Len(s) \in DOMAIN t /\ i = Len(s) + (i - Len(s))  BY <1>2, <1>3, <2>2
    <3> QED  BY <1>5, <3>1
  <2> QED  BY <2>1, <2>2
<1>7. Elements(s \o t) = Elements(s) \cup Elements(t)
  <2>1. \A i \in DOMAIN (s \o t) : (s \o t)[i] \in Elements(s) \cup Elements(t)
    BY <1>6 DEF Elements
  <2>2. \A i \in DOMAIN s : s[i] \in Elements(s \o t)
    <3> TAKE i \in DOMAIN s
    <3>1. i \in DOMAIN (s \o t) /\ (s \o t)[i] = s[i]  BY <1>4
    <3> QED  BY <3>1 DEF Elements
  <2>3. \A k \in DOMAIN t : t[k] \in Elements(s \o t)
    <3> TAKE k \in DOMAIN t
    <3>1. Len(s) + k \in DOMAIN (s \o t) /\ (s \o t)[Len(s) + k] = t[k]  BY <1>5
    <3> QED  BY <3>1 DEF Elements
  <2>4. Elements(s \o t) \subseteq Elements(s) \cup Elements(t)
    BY <2>1 DEF Elements
  <2>5. Elements(s) \subseteq Elements(s \o t) /\ Elements(t) \subseteq Elements(s \o t)
    BY <2>2, <2>3 DEF Elements
  <2> QED  BY <2>4, <2>5
<1> QED  BY <1>1, <1>4, <1>5, <1>6, <1>7

\* A visit labels the neighbours that are one relation farther.
LEMMA VisitKept ==
  ASSUME SearchInv, Visit
  PROVE  SearchInv'
<1>0. TypeOK /\ Labels /\ Queued /\ Parents /\ InTurn /\ Best /\ Given
  BY DEF SearchInv, TypeOK, Given
<1>1. PICK v, d, N : v = Head(queue) /\ d = distances[v] /\ N = Discovered
  OBVIOUS
<1>2. /\ v \in Node /\ d \in Nat /\ d < request.depth /\ N \in SUBSET Node
      /\ \A m : m \in N <=> m \in Onward(v) /\ distances[m] = None
      /\ \A m \in Node : distances'[m] = IF m \in N THEN d + 1 ELSE distances[m]
      /\ pc = "search" /\ queue # <<>>
      /\ UNCHANGED <<graph, request, pending, start, chain>>
  BY <1>1, Visited
<1>3. /\ queue' = Tail(queue) \o Ordered(N, Below)
      /\ pc' = IF Chains /\ request.target \in N THEN "found" ELSE "search"
      /\ distances' \in [Node -> Nat \cup {None}]
      /\ parent' \in [Node -> (Node \X Relation) \cup {None}]
  BY <1>1, Visited
<1>3a. \A m \in N : \E r \in Relation :
         /\ parent'[m] = <<v, r>>
         /\ <<m, r>> \in Adjacent(graph, v, SearchDirection, Allowed)
  <2> TAKE m \in N
  <2>1. parent'[m] = <<v, FirstRelation(graph, v, m, SearchDirection, Allowed)>>
    BY <1>1, Visited
  <2>2. m \in Onward(v)  BY <1>2
  <2> QED  BY <1>0, <2>1, <2>2, FirstExists
<1>4. /\ Starts \in SUBSET Node /\ request.depth \in Nat /\ Searching
      /\ \A m \in Node : distances[m] # None => distances[m] \in Nat
      /\ \A m \in Node : distances[m] # None =>
           /\ distances[m] <= request.depth
           /\ m \in Ball(Starts, distances[m])
           /\ distances[m] > 0 => m \notin Ball(Starts, distances[m] - 1)
  <2>1. Searching  BY <1>2 DEF Searching
  <2>2. Starts \in SUBSET Node  BY <1>0, <2>1, StartsNodes
  <2> QED  BY <1>0, <2>1, <2>2 DEF Labels, Labelled, TypeOK, Request
<1>5. d \in 0..request.depth /\ d + 1 \in 1..request.depth /\ (d + 1) - 1 = d
      /\ d + 1 \in 0..request.depth /\ d + 1 \in Nat
  BY <1>2, <1>4
<1>6. Ball(Starts, d + 1) = Farther(Ball(Starts, d))  BY <1>0, <1>4, <1>5, BallMeans
<1>7. \A m \in Ball(Starts, d) : distances[m] # None
  <2>1. \A i \in DOMAIN queue : d <= distances[queue[i]]
    BY <1>0, <1>1, <1>2, HeadNearest
  <2> QED  BY <1>0, <1>2, <1>5, <2>1, NearLabelled DEF Labelled
<1>8. Labelled(v)  BY <1>0, <1>1, <1>2, HeadNearest
<1>9. \A m \in Onward(v) : m \in Node /\ m \in Ball(Starts, d + 1)
  <2>1. v \in Ball(Starts, d)  BY <1>1, <1>2, <1>4, <1>8 DEF Labelled
  <2> QED  BY <1>0, <1>6, <2>1, OnwardNodes DEF Farther
<1>10. \A m \in N : m \in Ball(Starts, d + 1) /\ m \notin Ball(Starts, d)
  BY <1>2, <1>7, <1>9
<1>11. ASSUME NEW m \in Onward(v)
       PROVE  distances'[m] # None /\ distances'[m] <= d + 1
  <2>1. m \in Node /\ m \in Ball(Starts, d + 1)  BY <1>9
  <2>2. CASE m \in N  BY <1>2, <1>5, <2>1, <2>2, NoneAssumption
  <2>3. CASE m \notin N
    <3>1. distances'[m] = distances[m] /\ distances[m] # None  BY <1>2, <2>1, <2>3
    <3>2. PICK e \in Nat : e = distances[m]  BY <1>4, <2>1, <3>1
    <3>3. /\ e <= request.depth /\ (e > 0 => m \notin Ball(Starts, e - 1))
      BY <1>4, <2>1, <3>1, <3>2
    <3>4. ASSUME e > d + 1  PROVE FALSE
      <4>1. e - 1 \in 0..request.depth /\ d + 1 \in 0..(e - 1) /\ e > 0
        BY <1>2, <1>4, <3>2, <3>3, <3>4
      <4>2. Ball(Starts, d + 1) \subseteq Ball(Starts, e - 1)
        BY <1>0, <1>4, <4>1, BallGrows
      <4> QED  BY <2>1, <3>3, <4>1, <4>2
    <3> QED  BY <1>2, <3>1, <3>2, <3>4
  <2> QED  BY <2>2, <2>3
<1>12. IsFiniteSet(N) /\ N \in SUBSET Nat
  BY <1>2, NodeAssumption, FS_Subset
<1>13. PICK s, t : s = Tail(queue) /\ t = Ordered(N, Below)  OBVIOUS
<1>14. s \in Seq(Node) /\ t \in Seq(Node) /\ Elements(t) = N /\ queue' = s \o t
  <2>1. s \in Seq(Node)  BY <1>0, <1>2, <1>13, HeadNearest
  <2>2. t \in Seq(N) /\ Elements(t) = N  BY <1>12, <1>13, BelowLists
  <2> QED  BY <1>2, <1>3, <1>13, <2>1, <2>2
<1>15. TypeOK'
  <2>1. queue' \in Seq(Node)  BY <1>14, Joined
  <2>2. pc' \in {"search", "found"}  BY <1>3
  <2> QED  BY <1>0, <1>2, <1>3, <2>1, <2>2 DEF TypeOK
<1>16. Starts' = Starts /\ Balls' = Balls /\ (Chains' <=> Chains) /\ (Acceptable' <=> Acceptable)
       /\ (\A n : Onward(n)' = Onward(n)) /\ Allowed' = Allowed /\ request' = request
  BY <1>2, BallsSame DEF Starts, RefStarts, Chains, Acceptable
<1>17. Labels'
  <2>1. Acceptable /\ (Chains => start \in request.entries) /\ \A n \in Starts : distances[n] = 0
    BY <1>0, <1>4 DEF Labels
  <2>2. \A n \in Starts : distances'[n] = 0
    <3>1. 0 # None  BY NoneAssumption
    <3> QED  BY <1>2, <1>4, <2>1, <3>1
  <2>3. ASSUME NEW n \in Node, distances'[n] # None
        PROVE  /\ distances'[n] <= request.depth
               /\ n \in Ball(Starts, distances'[n])
               /\ distances'[n] > 0 => n \notin Ball(Starts, distances'[n] - 1)
    <3>1. CASE n \in N
      <4>1. distances'[n] = d + 1  BY <1>2, <3>1
      <4> QED  BY <1>5, <1>10, <3>1, <4>1
    <3>2. CASE n \notin N
      <4>1. distances'[n] = distances[n]  BY <1>2, <3>2
      <4> QED  BY <1>4, <2>3, <4>1
    <3> QED  BY <3>1, <3>2
  <2> QED  BY <1>2, <1>16, <2>1, <2>2, <2>3 DEF Labels, Labelled, Ball
<1>18. /\ \A i \in DOMAIN s :
            /\ s[i] \in Node /\ distances'[s[i]] = distances[s[i]] /\ distances[s[i]] \in Nat
            /\ distances[s[i]] # None
            /\ d <= distances[s[i]] /\ distances[s[i]] <= d + 1
       /\ \A i, j \in DOMAIN s : i <= j =>
            /\ distances[s[i]] <= distances[s[j]]
            /\ distances[s[j]] <= distances[s[i]] + 1
  <2>1. \A i \in DOMAIN s : i + 1 \in DOMAIN queue /\ s[i] = queue[i + 1]
    BY <1>0, <1>2, <1>13, HeadNearest
  <2>2. \A i \in DOMAIN queue :
          /\ queue[i] \in Node /\ distances[queue[i]] # None /\ distances[queue[i]] \in Nat
          /\ d <= distances[queue[i]] /\ distances[queue[i]] <= d + 1
    BY <1>0, <1>1, <1>2, HeadNearest DEF Labelled
  <2>3. \A i \in DOMAIN queue : queue[i] \notin N  BY <1>2, <2>2
  <2>4. \A i, j \in DOMAIN s : i <= j => i + 1 <= j + 1  BY <1>14
  <2>5. \A i, j \in DOMAIN queue : i <= j =>
          /\ distances[queue[i]] <= distances[queue[j]]
          /\ distances[queue[j]] <= distances[queue[i]] + 1
    BY <1>0, <1>2 DEF Queued
  <2> QED  BY <1>2, <2>1, <2>2, <2>3, <2>4, <2>5
<1>19. \A k \in DOMAIN t : t[k] \in N /\ distances'[t[k]] = d + 1
  <2>1. \A k \in DOMAIN t : t[k] \in N  BY <1>14 DEF Elements
  <2> QED  BY <1>2, <2>1
<1>20. /\ \A i \in DOMAIN queue' :
            \/ i \in DOMAIN s /\ queue'[i] = s[i]
            \/ \E k \in DOMAIN t : i = Len(s) + k /\ queue'[i] = t[k]
       /\ \A i \in DOMAIN s : i <= Len(s) /\ i \in Nat
       /\ \A k \in DOMAIN t : k >= 1 /\ k \in Nat
       /\ Len(s) \in Nat
       /\ Elements(queue') = Elements(s) \cup N
  BY <1>14, Joined
<1>21. Queued'
  <2>1. \A i \in DOMAIN queue' : distances'[queue'[i]] # None
    <3> TAKE i \in DOMAIN queue'
    <3>1. d + 1 # None  BY <1>5, NoneAssumption
    <3>2. CASE i \in DOMAIN s /\ queue'[i] = s[i]  BY <1>18, <3>2
    <3>3. CASE \E k \in DOMAIN t : queue'[i] = t[k]  BY <1>19, <3>1, <3>3
    <3> QED  BY <1>20, <3>2, <3>3
  <2>2. ASSUME NEW i \in DOMAIN queue', NEW j \in DOMAIN queue', i <= j
        PROVE  /\ distances'[queue'[i]] <= distances'[queue'[j]]
               /\ distances'[queue'[j]] <= distances'[queue'[i]] + 1
    <3>1. CASE i \in DOMAIN s /\ queue'[i] = s[i] /\ j \in DOMAIN s /\ queue'[j] = s[j]
      BY <1>18, <2>2, <3>1
    <3>2. CASE /\ i \in DOMAIN s /\ queue'[i] = s[i]
               /\ \E k \in DOMAIN t : j = Len(s) + k /\ queue'[j] = t[k]
      <4>1. distances'[queue'[j]] = d + 1  BY <1>19, <3>2
      <4>2. PICK e \in Nat : e = distances'[queue'[i]] /\ d <= e /\ e <= d + 1
        BY <1>18, <3>2
      <4> QED  BY <1>2, <4>1, <4>2
    <3>3. CASE \E k \in DOMAIN t : i = Len(s) + k /\ queue'[i] = t[k]
      <4>1. distances'[queue'[i]] = d + 1  BY <1>19, <3>3
      <4>2. j \notin DOMAIN s  BY <1>20, <2>2, <3>3
      <4>3. distances'[queue'[j]] = d + 1  BY <1>19, <1>20, <4>2
      <4> QED  BY <1>2, <4>1, <4>3
    <3> QED  BY <1>20, <3>1, <3>2, <3>3
  <2>3. ASSUME NEW n \in Node \ Elements(queue'), distances'[n] # None,
               distances'[n] < request.depth, NEW m \in Onward(n)
        PROVE  distances'[m] # None /\ distances'[m] <= distances'[n] + 1
    <3>1. n \notin N /\ n \notin Elements(s)  BY <1>20
    <3>2. distances'[n] = distances[n]  BY <1>2, <3>1
    <3>3. CASE n = v  BY <1>1, <1>11, <3>2, <3>3
    <3>4. CASE n # v
      <4>1. Elements(queue) = {v} \cup Elements(s)  BY <1>0, <1>1, <1>2, <1>13, HeadNearest
      <4>2. n \in Node \ Elements(queue)  BY <3>1, <3>4, <4>1
      <4>3. distances[m] # None /\ distances[m] <= distances[n] + 1
        BY <1>0, <1>2, <2>3, <3>2, <4>2 DEF Queued, Labelled
      <4>4. m \in Node  BY <1>0, OnwardNodes
      <4>5. m \notin N  BY <1>2, <4>3
      <4> QED  BY <1>2, <3>2, <4>3, <4>4, <4>5
    <3> QED  BY <3>3, <3>4
  <2>4. pc' # "done"  BY <1>3
  <2> QED  BY <1>16, <2>1, <2>2, <2>3, <2>4 DEF Queued, Labelled, Elements
<1>22. Parents'
  <2> SUFFICES ASSUME Chains  PROVE Parents'
    BY <1>16 DEF Parents
  <2>1. request.target \in Node
    <3>1. Acceptable  BY <1>0, <1>4 DEF Labels
    <3> QED  BY <3>1 DEF Acceptable, Chains
  <2>2. distances[request.target] = None  BY <1>0, <1>2 DEF Parents, Labelled
  <2>3. pc' = "found" <=> distances'[request.target] # None
    BY <1>2, <1>3, <1>5, <2>1, <2>2, NoneAssumption
  <2>4. ASSUME NEW m \in Node, distances'[m] # None, distances'[m] > 0
        PROVE  \E n \in Node, r \in Relation : IsParent(n, r, m)'
    <3>1. CASE m \in N
      <4>1. PICK r \in Relation :
              parent'[m] = <<v, r>> /\ <<m, r>> \in Adjacent(graph, v, SearchDirection, Allowed)
        BY <1>3a, <3>1
      <4>2. SearchDirection = "outgoing"  BY DEF SearchDirection, Chains
      <4>3. PICK e \in graph :
              e.relation \in Allowed /\ v = e.source /\ <<m, r>> = <<e.target, e.relation>>
        BY <4>1, <4>2 DEF Adjacent
      <4>4. e = [source |-> v, relation |-> r, target |-> m]
        BY <1>0, <4>3 DEF Given, GraphEdge
      <4>5. r \in Allowed  BY <4>3
      <4>6. distances'[v] = d /\ d # None /\ distances'[m] = d + 1
        <5>1. v \notin N  BY <1>1, <1>2, <1>8 DEF Labelled
        <5> QED  BY <1>1, <1>2, <3>1, <5>1, NoneAssumption
      <4>7. IsParent(v, r, m)'
        BY <1>2, <1>16, <4>1, <4>3, <4>4, <4>5, <4>6 DEF IsParent, Labelled
      <4> QED  BY <1>2, <4>7
    <3>2. CASE m \notin N
      <4>1. distances'[m] = distances[m]  BY <1>2, <3>2
      <4>2. PICK n \in Node, r \in Relation : IsParent(n, r, m)
        BY <1>0, <1>2, <2>4, <4>1 DEF Parents, Labelled
      <4>3. n \notin N  BY <1>2, <4>2 DEF IsParent, Labelled
      <4>4. distances'[n] = distances[n]  BY <1>2, <4>3
      <4>5. parent'[m] = parent[m]  BY <1>1, <3>2, Visited
      <4>6. IsParent(n, r, m)'
        BY <1>2, <1>16, <4>1, <4>2, <4>4, <4>5 DEF IsParent, Labelled
      <4> QED  BY <4>6
    <3> QED  BY <3>1, <3>2
  <2> QED  BY <1>16, <2>3, <2>4 DEF Parents, Labelled
<1>23. pc' \in {"search", "found"}  BY <1>3
<1>24. InTurn' /\ Best'  BY <1>0, <1>2, <1>23, BestStays
<1> QED  BY <1>15, <1>17, <1>21, <1>22, <1>23, <1>24 DEF SearchInv

-----------------------------------------------------------------------------
(* How a chain is answered.                                                *)

\* A list of some things is a list of more.
LEMMA SeqOfMore ==
  ASSUME NEW T, NEW S \in SUBSET T, NEW s \in Seq(S)
  PROVE  s \in Seq(T)
OBVIOUS

\* What is walked back from a target that was met is a shortest chain from
\* the start.
LEMMA ReconstructedChain ==
  ASSUME TypeOK, Labels, Parents, Chains, pc = "found"
  PROVE  /\ ChainFrom(Reconstructed, start) /\ start \in Node
         /\ Reconstructed # None /\ Reconstructed.nodes[1] = start
         /\ Len(Reconstructed.relations) > 0 =>
              request.target \notin Ball({start}, Len(Reconstructed.relations) - 1)
<1> DEFINE D == distances[request.target]
           Rec(f) == [i \in 0..D |->
             IF i = 0 THEN request.target ELSE parent[f[i - 1]][1]]
           step == [m \in Node |->
             IF Labelled(m) /\ distances[m] > 0 THEN parent[m][1] ELSE m]
<1>1. /\ Given /\ Searching /\ Acceptable /\ Starts = {start} /\ start \in request.entries
      /\ request.depth \in Nat
  BY DEF Given, TypeOK, Request, Searching, Labels, Starts
<1>2. request.target \in Node /\ start \in Node
  BY <1>1 DEF Acceptable, Chains, TypeOK, Request
<1>3. /\ Labelled(request.target)
      /\ \A m \in Node : Labelled(m) /\ distances[m] > 0 =>
           \E n \in Node, r \in Relation : IsParent(n, r, m)
  BY DEF Parents
<1>4. \A n \in Node : Labelled(n) => distances[n] \in Nat  BY DEF TypeOK, Labelled
<1>5. D \in Nat /\ D <= request.depth  BY <1>1, <1>2, <1>3, <1>4 DEF Labels
<1>6. \A m \in Node : Labelled(m) /\ distances[m] > 0 =>
        IsParent(parent[m][1], parent[m][2], m) /\ parent[m][2] \in Relation
  <2> SUFFICES ASSUME NEW m \in Node, Labelled(m), distances[m] > 0
               PROVE  IsParent(parent[m][1], parent[m][2], m) /\ parent[m][2] \in Relation
    OBVIOUS
  <2>1. PICK n \in Node, r \in Relation : IsParent(n, r, m)  BY <1>3
  <2>2. parent[m][1] = n /\ parent[m][2] = r  BY <2>1 DEF IsParent
  <2> QED  BY <2>1, <2>2
<1>7. \A n, r, m : IsParent(n, r, m) =>
        /\ n \in Node /\ Labelled(n) /\ distances[m] = distances[n] + 1
        /\ r \in Allowed /\ [source |-> n, relation |-> r, target |-> m] \in graph
  BY DEF IsParent
<1>8. step \in [Node -> Node]  BY <1>6, <1>7
<1>9. \A m \in Node : Labelled(m) /\ distances[m] > 0 => step[m] = parent[m][1]
  OBVIOUS
<1> HIDE DEF step
<1> DEFINE Back(f) == /\ f[0] = request.target
                      /\ \A i \in 1..D : Labelled(f[i - 1]) /\ f[i - 1] \in Node
                                           /\ distances[f[i - 1]] > 0
                                         => f[i] = parent[f[i - 1]][1]
           At(f, i) == f[i] \in Node /\ Labelled(f[i]) /\ distances[f[i]] = D - i
<1>10. ASSUME NEW f, Back(f)  PROVE \A i \in 0..D : At(f, i)
  <2> DEFINE G == {i \in 0..D : At(f, i)}
  <2>1. 0 \in G  BY <1>2, <1>3, <1>5, <1>10
  <2>2. ASSUME NEW k \in 0..(D - 1), k \in G  PROVE k + 1 \in G
    <3>1. k + 1 \in 1..D /\ k + 1 \in 0..D /\ (k + 1) - 1 = k /\ D - k > 0  BY <1>5
    <3>2. f[k] \in Node /\ Labelled(f[k]) /\ distances[f[k]] = D - k  BY <2>2
    <3>3. f[k + 1] = parent[f[k]][1]  BY <1>10, <3>1, <3>2
    <3>4. IsParent(f[k + 1], parent[f[k]][2], f[k])  BY <1>6, <3>1, <3>2, <3>3
    <3>5. /\ f[k + 1] \in Node /\ Labelled(f[k + 1])
          /\ distances[f[k]] = distances[f[k + 1]] + 1
      BY <1>7, <3>4
    <3>6. distances[f[k + 1]] \in Nat  BY <1>4, <3>5
    <3>7. distances[f[k + 1]] = D - (k + 1)  BY <1>5, <3>2, <3>5, <3>6
    <3> QED  BY <3>1, <3>5, <3>7
  <2> HIDE DEF G
  <2>3. 0..D \subseteq G  BY <1>5, <2>1, <2>2, UpTo
  <2> QED  BY <2>3 DEF G
<1>11. \A i \in 0..D : i # 0 => i \in 1..D /\ i - 1 \in 0..D /\ D - (i - 1) > 0  BY <1>5
<1>12. PICK f \in [0..D -> Node] : f = Rec(f)
  <2>1. PICK g \in Runs(Node, request.target, step, D) : TRUE
    <3> HIDE DEF D
    <3> QED  BY <1>2, <1>5, <1>8, Iterated
  <2>2. /\ g \in [0..D -> Node] /\ g[0] = request.target
        /\ \A i \in 1..D : g[i] = step[g[i - 1]]
    BY <2>1 DEF Runs
  <2>3. Back(g)  BY <1>9, <2>2
  <2>4. \A i \in 0..D : At(g, i)  BY <1>10, <2>3
  <2>5. \A i \in 0..D : i # 0 => g[i] = parent[g[i - 1]][1]
    <3> TAKE i \in 0..D
    <3> HAVE i # 0
    <3>1. i \in 1..D /\ i - 1 \in 0..D /\ D - (i - 1) > 0  BY <1>11
    <3>2. At(g, i - 1)  BY <2>4, <3>1
    <3> QED  BY <2>3, <3>1, <3>2
  <2> QED  BY <2>2, <2>5
<1> DEFINE w == CHOOSE g : g = Rec(g)
<1>13. w = Rec(w)  BY <1>12
<1>14. Reconstructed = [nodes |-> [i \in 1..(D + 1) |-> w[D + 1 - i]],
                        relations |-> [i \in 1..D |-> parent[w[D - i]][2]]]
  BY DEF Reconstructed
<1> HIDE DEF w
<1>15. w[0] = request.target /\ \A i \in 1..D : w[i] = parent[w[i - 1]][1]
  <2>1. 0 \in 0..D /\ \A i \in 1..D : i \in 0..D /\ i # 0  BY <1>5
  <2> QED  BY <1>13, <2>1
<1>16. \A i \in 0..D : At(w, i)  BY <1>10, <1>15
<1>17. \A i \in 1..D :
         IsParent(w[i], parent[w[i - 1]][2], w[i - 1]) /\ parent[w[i - 1]][2] \in Relation
  <2> TAKE i \in 1..D
  <2>1. i - 1 \in 0..D /\ D - (i - 1) > 0  BY <1>5
  <2>2. At(w, i - 1)  BY <1>16, <2>1
  <2> QED  BY <1>6, <1>15, <2>1, <2>2
<1>18. w[D] = start
  <2>1. D \in 0..D /\ D - D = 0  BY <1>5
  <2>2. w[D] \in Node /\ Labelled(w[D]) /\ distances[w[D]] = 0  BY <1>16, <2>1
  <2>3. w[D] \in Ball(Starts, 0)  BY <1>1, <2>2 DEF Labels
  <2>4. Ball({start}, 0) = {start}  BY <1>1, <1>2, BallMeans
  <2> QED  BY <1>1, <2>3, <2>4
<1> DEFINE c == Reconstructed
<1>19. c.nodes = [i \in 1..(D + 1) |-> w[D + 1 - i]]
  BY <1>14
<1>20. c.relations = [i \in 1..D |-> parent[w[D - i]][2]]
  BY <1>14
<1>21. c = [nodes |-> c.nodes, relations |-> c.relations]  BY <1>14, <1>19, <1>20
<1> HIDE DEF c, D
<1>22. c.nodes \in Seq(Node) /\ Len(c.nodes) = D + 1
  <2>1. \A i \in 1..(D + 1) : w[D + 1 - i] \in Node
    <3> TAKE i \in 1..(D + 1)
    <3>1. D + 1 - i \in 0..D  BY <1>5
    <3> QED  BY <1>16, <3>1
  <2> QED  BY <1>5, <1>19, <2>1
<1>23. c.relations \in Seq(Relation) /\ Len(c.relations) = D
  <2>1. \A i \in 1..D : parent[w[D - i]][2] \in Relation
    <3> TAKE i \in 1..D
    <3>1. D - i + 1 \in 1..D /\ (D - i + 1) - 1 = D - i  BY <1>5
    <3> QED  BY <1>17, <3>1
  <2> QED  BY <1>5, <1>20, <2>1
<1>24. c.nodes[1] = start /\ c.nodes[D + 1] = request.target
  <2>1. 1 \in 1..(D + 1) /\ D + 1 \in 1..(D + 1) /\ D + 1 - 1 = D /\ D + 1 - (D + 1) = 0
    BY <1>5
  <2> QED  BY <1>15, <1>18, <1>19, <2>1
<1>25. \A i \in 1..D :
         /\ c.relations[i] \in Allowed
         /\ [source |-> c.nodes[i], relation |-> c.relations[i],
             target |-> c.nodes[i + 1]] \in graph
  <2> TAKE i \in 1..D
  <2>1. /\ D - i + 1 \in 1..D /\ (D - i + 1) - 1 = D - i
        /\ i \in 1..(D + 1) /\ i + 1 \in 1..(D + 1)
        /\ D + 1 - i = D - i + 1 /\ D + 1 - (i + 1) = D - i
    BY <1>5
  <2>2. IsParent(w[D - i + 1], parent[w[D - i]][2], w[D - i])  BY <1>17, <2>1
  <2>3. /\ c.relations[i] = parent[w[D - i]][2]
        /\ c.nodes[i] = w[D - i + 1] /\ c.nodes[i + 1] = w[D - i]
    BY <1>19, <1>20, <2>1
  <2> QED  BY <1>7, <2>2, <2>3
<1>26. /\ request.target \in Ball({start}, D)
       /\ D > 0 => request.target \notin Ball({start}, D - 1)
  BY <1>1, <1>2, <1>3 DEF Labels, D
<1>27. c \in [nodes : Seq(Node), relations : Seq(Relation)]  BY <1>21, <1>22, <1>23
<1>28. ChainFrom(c, start)
  BY <1>5, <1>22, <1>23, <1>24, <1>25, <1>26, <1>27 DEF ChainFrom
<1>29. c # None
  <2>1. c.nodes \in Seq(Nat)  BY <1>22, NodeAssumption, SeqOfMore
  <2>2. c.relations \in Seq(Nat)  BY <1>23, RelationAssumption, SeqOfMore
  <2>3. c \in [nodes : Seq(Nat), relations : Seq(Nat)]  BY <1>21, <2>1, <2>2
  <2> QED  BY <2>3, NoneAssumption
<1> QED  BY <1>2, <1>23, <1>24, <1>26, <1>28, <1>29 DEF c

-----------------------------------------------------------------------------
(* From one entry to the next.                                             *)

\* The next entry is the least of those that are left.
LEMMA NextInTurn ==
  ASSUME NEW s \in Seq(Node), s # <<>>, \A i, j \in DOMAIN s : i < j => s[i] < s[j]
  PROVE  /\ Head(s) \in Node /\ Tail(s) \in Seq(Node)
         /\ Elements(s) = {Head(s)} \cup Elements(Tail(s))
         /\ \A i, j \in DOMAIN Tail(s) : i < j => Tail(s)[i] < Tail(s)[j]
         /\ \A n \in Elements(Tail(s)) : Head(s) < n
<1>1. /\ Head(s) \in Node /\ Tail(s) \in Seq(Node) /\ Head(s) = s[1] /\ 1 \in DOMAIN s
      /\ \A i \in DOMAIN Tail(s) : i + 1 \in DOMAIN s /\ Tail(s)[i] = s[i + 1]
      /\ \A i \in DOMAIN Tail(s) : 1 < i + 1
      /\ \A i, j \in DOMAIN Tail(s) : i < j => i + 1 < j + 1
  OBVIOUS
<1>2. Elements(s) = {Head(s)} \cup Elements(Tail(s))  BY ElementsTail
<1>3. \A i, j \in DOMAIN Tail(s) : i < j => Tail(s)[i] < Tail(s)[j]  BY <1>1
<1>4. \A i \in DOMAIN Tail(s) : Head(s) < Tail(s)[i]  BY <1>1
<1>5. \A n \in Elements(Tail(s)) : Head(s) < n  BY <1>4 DEF Elements
<1> QED  BY <1>1, <1>2, <1>3, <1>5

\* The search of a chain starts from the least entry.
LEMMA StartChainsKept ==
  ASSUME SearchInv, StartChains
  PROVE  SearchInv'
<1>0. TypeOK /\ chain = None /\ pending = <<>> /\ pc = "start"
  BY DEF SearchInv, StartChains
<1>1. PICK s : s = Ordered(request.entries, Below)  OBVIOUS
<1>2. /\ Acceptable /\ Chains /\ UNCHANGED <<graph, request, chain>>
      /\ IF s = <<>>
           THEN pc' = "done" /\ UNCHANGED <<pending, start, distances, parent, queue>>
           ELSE SearchFrom(Head(s), Tail(s))
  BY <1>1 DEF StartChains
<1>3. request.entries \subseteq Node
  BY <1>2 DEF Acceptable, Chains
<1>4. request.entries \in SUBSET Nat /\ IsFiniteSet(request.entries)
  BY <1>3, NodeAssumption, FS_Subset
<1>5. /\ s \in Seq(Node) /\ Elements(s) = request.entries
      /\ \A i, j \in DOMAIN s : i < j => s[i] < s[j]
  <2>1. s \in Seq(request.entries)  BY <1>1, <1>4, BelowLists
  <2>2. s \in Seq(Node)  BY <1>3, <2>1, SeqOfMore
  <2> QED  BY <1>1, <1>4, <2>2, BelowLists
<1>6. /\ Chains' /\ Acceptable' /\ Balls' = Balls /\ request' = request
  BY <1>2, BallsSame DEF Chains, Acceptable
<1>7. CASE s = <<>>
  <2>1. /\ pc' = "done" /\ request.entries = {}
        /\ UNCHANGED <<pending, start, distances, parent, queue>>
    BY <1>2, <1>5, <1>7, ElementsEmpty
  <2>2. TypeOK'  BY <1>0, <1>2, <2>1 DEF TypeOK
  <2>3. Labels' /\ Queued' /\ Parents'
    BY <1>6, <2>1 DEF Labels, Searching, Queued, Parents
  <2>4. Tried' = {}  BY <1>6, <2>1 DEF Tried
  <2>5. InTurn'
    <3>1. Elements(pending)' = {} /\ pending' = <<>>
      BY <1>0, <2>1, ElementsEmpty DEF Elements
    <3>2. \A i \in DOMAIN pending' : FALSE  BY <3>1
    <3> QED  BY <1>6, <2>1, <2>4, <3>1, <3>2 DEF InTurn
  <2>6. Best'  BY <1>0, <1>2, <2>4 DEF Best
  <2> QED  BY <2>1, <2>2, <2>3, <2>5, <2>6 DEF SearchInv
<1>8. CASE s # <<>>
  <2>1. PICK n, rest : n = Head(s) /\ rest = Tail(s)  OBVIOUS
  <2>2. /\ n \in Node /\ rest \in Seq(Node)
        /\ request.entries = {n} \cup Elements(rest)
        /\ \A i, j \in DOMAIN rest : i < j => rest[i] < rest[j]
        /\ \A m \in Elements(rest) : n < m
    BY <1>5, <1>8, <2>1, NextInTurn
  <2>3. SearchFrom(n, rest) /\ n \in request.entries  BY <1>2, <1>8, <2>1, <2>2
  <2>4. /\ pending' = rest /\ start' = n /\ pc' \in {"search", "found"}
        /\ start' \in Node /\ pending' \in Seq(Node)
        /\ distances' \in [Node -> Nat \cup {None}]
        /\ parent' \in [Node -> (Node \X Relation) \cup {None}]
        /\ queue' \in Seq(Node)
        /\ Labels' /\ Queued' /\ Parents'
    BY <1>0, <1>2, <2>2, <2>3, SearchFromKept
  <2>5. TypeOK'  BY <1>0, <1>2, <2>4 DEF TypeOK
  <2>6. Tried' = {}
    BY <1>6, <2>2, <2>4 DEF Tried, Elements
  <2>7. InTurn'
    <3>1. Elements(pending)' = Elements(rest)  BY <2>4 DEF Elements
    <3>2. pc' # "done"  BY <2>4
    <3> QED  BY <1>6, <2>2, <2>4, <2>6, <3>1, <3>2 DEF InTurn
  <2>8. Best'  BY <1>0, <1>2, <2>6 DEF Best
  <2>9. pc' # "start"  BY <2>4
  <2> QED  BY <2>4, <2>5, <2>7, <2>8, <2>9 DEF SearchInv
<1> QED  BY <1>7, <1>8

(* The best chain from some entries.                                       *)
BestOf(c, U) ==
  IF c = None
    THEN \A n \in U : request.target \notin Ball({n}, request.depth)
    ELSE /\ c.nodes[1] \in U /\ ChainFrom(c, c.nodes[1])
         /\ \A n \in U : AtLeast(c, n)

\* When a search has ended, the chain it leaves is the best of the entries
\* that have been tried, its own included.
LEMMA BestWithStart ==
  ASSUME SearchInv, NextEntry
  PROVE  /\ BestOf(chain', Tried \cup {start})
         /\ chain' = None \/ chain' = chain \/ ChainFrom(chain', start)
<1>0. TypeOK /\ Labels /\ Queued /\ Parents /\ InTurn /\ Best /\ Given
  BY DEF SearchInv, TypeOK, Given
<1>1. /\ Chains /\ (pc = "found" \/ (pc = "search" /\ queue = <<>>))
      /\ chain' = IF pc = "found" /\ Better(Reconstructed) THEN Reconstructed ELSE chain
  BY DEF NextEntry
<1>2. Searching /\ Answering /\ Acceptable /\ Starts = {start} /\ pc # "done"
      /\ start \in request.entries
  BY <1>0, <1>1 DEF Searching, Answering, Labels, Starts
<1>3. /\ request.target \in Node /\ start \in Node /\ request.depth \in Nat
      /\ request.entries \subseteq Node /\ Tried \subseteq request.entries
      /\ start \notin Tried
  BY <1>0, <1>1, <1>2 DEF Acceptable, Chains, TypeOK, Request, Tried
<1>4. Node \subseteq Nat  BY NodeAssumption
<1>5. BestOf(chain, Tried)  BY <1>0, <1>2 DEF Best, BestOf
<1>6. \A n \in Tried : n < start  BY <1>0, <1>2, <1>3 DEF InTurn
<1>7. ASSUME NEW n \in Node, NEW j \in 0..request.depth, NEW i \in 0..j,
             request.target \notin Ball({n}, j)
      PROVE  request.target \notin Ball({n}, i)
  BY <1>0, <1>7, BallGrows
<1>8. chain # None =>
        /\ Len(chain.relations) \in 0..request.depth
        /\ chain.nodes[1] \in Tried /\ ChainFrom(chain, chain.nodes[1])
  <2> SUFFICES ASSUME chain # None
               PROVE  /\ Len(chain.relations) \in 0..request.depth
                      /\ chain.nodes[1] \in Tried /\ ChainFrom(chain, chain.nodes[1])
    OBVIOUS
  <2>1. chain.nodes[1] \in Tried /\ ChainFrom(chain, chain.nodes[1])  BY <1>5 DEF BestOf
  <2>2. chain.relations \in Seq(Relation) /\ Len(chain.relations) <= request.depth
    BY <2>1 DEF ChainFrom
  <2>3. Len(chain.relations) \in Nat  BY <2>2
  <2> QED  BY <1>3, <2>1, <2>2, <2>3
<1>9. CASE pc = "search"
  <2>1. ~ Labelled(request.target)  BY <1>0, <1>1, <1>9 DEF Parents
  <2>2. queue = <<>> /\ chain' = chain  BY <1>1, <1>9
  <2>3. request.target \notin Ball({start}, request.depth)
    <3>1. request.depth \in 0..request.depth  BY <1>3
    <3>2. \A i \in DOMAIN queue : request.depth <= distances[queue[i]]  BY <2>2
    <3> QED  BY <1>0, <1>2, <1>9, <2>1, <3>1, <3>2, NearLabelled
  <2>4. CASE chain = None  BY <1>5, <2>2, <2>3, <2>4 DEF BestOf
  <2>5. CASE chain # None
    <3>1. PICK L \in 0..request.depth : L = Len(chain.relations)  BY <1>8, <2>5
    <3>2. request.depth \in 0..request.depth /\ (L > 0 => L - 1 \in 0..request.depth)
      BY <1>3, <3>1
    <3>3. request.target \notin Ball({start}, L)
      BY <1>3, <1>7, <2>3, <3>1, <3>2
    <3>4. L > 0 => request.target \notin Ball({start}, L - 1)
      BY <1>3, <1>7, <2>3, <3>2
    <3>5. AtLeast(chain, start)  BY <3>1, <3>3, <3>4 DEF AtLeast
    <3> QED  BY <1>5, <2>2, <2>5, <3>5 DEF BestOf
  <2> QED  BY <2>2, <2>4, <2>5
<1>10. CASE pc = "found"
  <2>1. PICK R : R = Reconstructed  OBVIOUS
  <2>2. /\ ChainFrom(R, start) /\ R # None /\ R.nodes[1] = start
        /\ Len(R.relations) > 0 => request.target \notin Ball({start}, Len(R.relations) - 1)
    BY <1>0, <1>1, <1>10, <2>1, ReconstructedChain
  <2>3. PICK L \in 0..request.depth : L = Len(R.relations)
    <3>1. R.relations \in Seq(Relation) /\ Len(R.relations) <= request.depth
      BY <2>2 DEF ChainFrom
    <3>2. Len(R.relations) \in Nat  BY <3>1
    <3> QED  BY <1>3, <3>1, <3>2
  <2>4. AtLeast(R, start)  BY <1>3, <1>4, <2>2 DEF AtLeast
  <2>5. CASE Better(R)
    <3>1. chain' = R  BY <1>1, <1>10, <2>1, <2>5
    <3>2. ASSUME NEW n \in Tried  PROVE AtLeast(R, n)
      <4>1. n \in Node  BY <1>3
      <4>2. PICK j \in 0..request.depth : L <= j /\ request.target \notin Ball({n}, j)
        <5>1. CASE chain = None
          <6>1. request.target \notin Ball({n}, request.depth)  BY <1>5, <5>1 DEF BestOf
          <6> QED  BY <1>3, <2>3, <6>1
        <5>2. CASE chain # None
          <6>1. PICK M \in 0..request.depth : M = Len(chain.relations)  BY <1>8, <5>2
          <6>2. L < M  BY <2>3, <2>5, <5>2, <6>1 DEF Better
          <6>3. M > 0 /\ M - 1 \in 0..request.depth /\ L <= M - 1
            BY <1>3, <2>3, <6>1, <6>2
          <6>4. AtLeast(chain, n)  BY <1>5, <5>2 DEF BestOf
          <6>5. request.target \notin Ball({n}, M - 1)  BY <6>1, <6>3, <6>4 DEF AtLeast
          <6> QED  BY <6>3, <6>5
        <5> QED  BY <5>1, <5>2
      <4>3. L \in 0..j /\ (L > 0 => L - 1 \in 0..j)  BY <2>3, <4>2
      <4>4. request.target \notin Ball({n}, L)  BY <1>7, <4>1, <4>2, <4>3
      <4>5. L > 0 => request.target \notin Ball({n}, L - 1)  BY <1>7, <4>1, <4>2, <4>3
      <4> QED  BY <2>3, <4>4, <4>5 DEF AtLeast
    <3> QED  BY <2>2, <2>4, <3>1, <3>2 DEF BestOf
  <2>6. CASE ~ Better(R)
    <3>1. chain' = chain /\ chain # None  BY <1>1, <1>10, <2>1, <2>6 DEF Better
    <3>2. PICK M \in 0..request.depth : M = Len(chain.relations)  BY <1>8, <3>1
    <3>3. M <= L /\ M \in Nat /\ L \in Nat /\ L <= request.depth
      BY <1>3, <2>3, <2>6, <3>2 DEF Better
    <3>4. M > 0 => request.target \notin Ball({start}, M - 1)
      <4> SUFFICES ASSUME M > 0  PROVE request.target \notin Ball({start}, M - 1)
        OBVIOUS
      <4>1. L > 0 /\ L - 1 \in 0..request.depth /\ M - 1 \in 0..(L - 1)
        BY <1>3, <3>3
      <4>2. request.target \notin Ball({start}, L - 1)  BY <2>2, <2>3, <4>1
      <4> QED  BY <1>3, <1>7, <4>1, <4>2
    <3>5. chain.nodes[1] < start  BY <1>6, <1>8, <3>1
    <3>6. chain.nodes[1] \in Nat /\ start \in Nat  BY <1>3, <1>4, <1>8, <3>1
    <3>7. AtLeast(chain, start)  BY <3>2, <3>4, <3>5, <3>6 DEF AtLeast
    <3> QED  BY <1>5, <3>1, <3>7 DEF BestOf
  <2> QED  BY <2>5, <2>6
<1> QED  BY <1>1, <1>9, <1>10

\* The search goes on with the next entry, or ends with the last one.
LEMMA NextEntryKept ==
  ASSUME SearchInv, NextEntry
  PROVE  SearchInv'
<1>0. TypeOK /\ InTurn /\ Given /\ Labels
  BY DEF SearchInv, TypeOK, Given
<1>1. /\ Chains /\ pc \in {"search", "found"} /\ UNCHANGED <<graph, request>>
      /\ IF pending = <<>>
           THEN pc' = "done" /\ UNCHANGED <<pending, start, distances, parent, queue>>
           ELSE SearchFrom(Head(pending), Tail(pending))
  BY DEF NextEntry
<1>2. /\ Answering /\ Acceptable /\ start \in request.entries
      /\ request.entries \subseteq Node /\ pc # "done"
  BY <1>0, <1>1 DEF Answering, InTurn, Labels, Searching, Acceptable, Chains
<1>3. PICK U : U = Tried \cup {start}  OBVIOUS
<1>4. U = {n \in request.entries : n \notin Elements(pending)}
  <2>1. \A n \in Elements(pending) : start < n  BY <1>0, <1>2 DEF InTurn
  <2>2. start \in Nat  BY <1>2, NodeAssumption
  <2>3. start \notin Elements(pending)  BY <2>1, <2>2
  <2> QED  BY <1>2, <1>3, <2>3 DEF Tried
<1>5. \A n \in U, m \in request.entries \ U : n < m
  <2>1. \A m \in request.entries \ U : m \in Elements(pending)  BY <1>4
  <2>2. \A m \in Elements(pending) : start < m  BY <1>0, <1>2 DEF InTurn
  <2>3. \A n \in Tried, m \in request.entries \ Tried : n < m  BY <1>0, <1>2 DEF InTurn
  <2> QED  BY <1>3, <2>1, <2>2, <2>3
<1>6. PICK c : c = chain'  OBVIOUS
<1>7. /\ BestOf(c, U)
      /\ c = None \/ c = chain \/ ChainFrom(c, start)
  BY <1>3, <1>6, BestWithStart
<1>8. c = None \/ (c.nodes \in Seq(Node) /\ c.relations \in Seq(Relation))
  BY <1>0, <1>7 DEF TypeOK, ChainFrom
<1>9. /\ Chains' /\ Acceptable' /\ Balls' = Balls /\ request' = request
  BY <1>1, <1>2, BallsSame DEF Chains, Acceptable
<1>10. ASSUME Tried' = U  PROVE Best'
  <2>1. IF c = None
          THEN \A n \in U : request.target \notin Balls[{n}][request.depth]
          ELSE /\ c.nodes[1] \in U /\ ChainFrom(c, c.nodes[1])
               /\ \A n \in U : AtLeast(c, n)
    BY <1>7 DEF BestOf, Ball
  <2> QED  BY <1>1, <1>6, <1>9, <1>10, <2>1, ChainFromSame DEF Best, Ball
<1>11. pending \in Seq(Node) /\ \A i, j \in DOMAIN pending : i < j => pending[i] < pending[j]
  BY <1>0, <1>2 DEF TypeOK, InTurn
<1>12. CASE pending = <<>>
  <2>1. pc' = "done" /\ UNCHANGED <<pending, start, distances, parent, queue>>
    BY <1>1, <1>12
  <2>2. TypeOK'  BY <1>0, <1>1, <1>6, <1>8, <2>1 DEF TypeOK
  <2>3. Labels' /\ Queued' /\ Parents'
    BY <1>9, <2>1 DEF Labels, Searching, Queued, Parents
  <2>4. Elements(pending)' = {} /\ pending' = <<>>
    BY <1>12, <2>1, ElementsEmpty DEF Elements
  <2>5. U = request.entries  BY <1>4, <1>12, ElementsEmpty
  <2>6. Tried' = U  BY <1>9, <2>1, <2>4, <2>5 DEF Tried
  <2>7. InTurn'
    <3>1. \A i \in DOMAIN pending' : FALSE  BY <2>4
    <3> QED  BY <1>5, <1>9, <2>1, <2>4, <2>6, <3>1 DEF InTurn
  <2>8. Best'  BY <1>10, <2>6
  <2> QED  BY <2>1, <2>2, <2>3, <2>7, <2>8 DEF SearchInv
<1>13. CASE pending # <<>>
  <2>1. PICK n, rest : n = Head(pending) /\ rest = Tail(pending)  OBVIOUS
  <2>2. /\ n \in Node /\ rest \in Seq(Node)
        /\ Elements(pending) = {n} \cup Elements(rest)
        /\ \A i, j \in DOMAIN rest : i < j => rest[i] < rest[j]
        /\ \A m \in Elements(rest) : n < m
    BY <1>11, <1>13, <2>1, NextInTurn
  <2>3. Elements(pending) \subseteq request.entries  BY <1>0, <1>2 DEF InTurn
  <2>4. SearchFrom(n, rest) /\ n \in request.entries  BY <1>1, <1>13, <2>1, <2>2, <2>3
  <2>5. /\ pending' = rest /\ start' = n /\ pc' \in {"search", "found"}
        /\ start' \in Node /\ pending' \in Seq(Node)
        /\ distances' \in [Node -> Nat \cup {None}]
        /\ parent' \in [Node -> (Node \X Relation) \cup {None}]
        /\ queue' \in Seq(Node)
        /\ Labels' /\ Queued' /\ Parents'
    BY <1>0, <1>1, <1>2, <2>2, <2>4, SearchFromKept
  <2>6. TypeOK'  BY <1>0, <1>1, <1>6, <1>8, <2>5 DEF TypeOK
  <2>7. Elements(pending)' = Elements(rest) /\ pc' # "done"  BY <2>5 DEF Elements
  <2>8. Tried' = U  BY <1>4, <1>9, <2>2, <2>5, <2>7 DEF Tried
  <2>9. InTurn'
    BY <1>5, <1>9, <2>2, <2>3, <2>5, <2>7, <2>8 DEF InTurn
  <2>10. Best'  BY <1>10, <2>8
  <2>11. pc' # "start"  BY <2>5
  <2> QED  BY <2>5, <2>6, <2>9, <2>10, <2>11 DEF SearchInv
<1> QED  BY <1>12, <1>13

\* The end of a search for distances leaves what the search has found.
LEMMA FinishKept ==
  ASSUME SearchInv, FinishDistances
  PROVE  SearchInv'
<1>0. TypeOK /\ Labels /\ Queued  BY DEF SearchInv
<1>1. /\ ~Chains /\ pc = "search" /\ queue = <<>> /\ pc' = "done"
      /\ UNCHANGED <<graph, request, pending, start, distances, parent, queue, chain>>
  BY DEF FinishDistances
<1>2. TypeOK'  BY <1>0, <1>1 DEF TypeOK
<1>3. Labels'  BY <1>0, <1>1, LabelsStay DEF Searching
<1>4. /\ ~Chains' /\ Elements(queue)' = Elements(queue)
      /\ \A n : Onward(n)' = Onward(n)
  BY <1>1, BallsSame DEF Chains, Elements
<1>5. Queued'  BY <1>0, <1>1, <1>4 DEF Queued, Labelled
<1>6. Parents' /\ InTurn' /\ Best'  BY <1>4 DEF Parents, InTurn, Best, Answering
<1> QED  BY <1>1, <1>2, <1>3, <1>5, <1>6 DEF SearchInv

\* A request that is refused is not searched for.
LEMMA RefuseKept ==
  ASSUME SearchInv, RefuseRequest
  PROVE  SearchInv'
<1>1. /\ pc' = "refused"
      /\ UNCHANGED <<graph, request, pending, start, distances, parent, queue, chain>>
  BY DEF RefuseRequest
<1>2. TypeOK'  BY <1>1 DEF SearchInv, TypeOK
<1>3. Labels' /\ Queued' /\ Parents' /\ InTurn' /\ Best'
  BY <1>1 DEF Labels, Searching, Queued, Parents, InTurn, Best, Answering
<1> QED  BY <1>1, <1>2, <1>3 DEF SearchInv

-----------------------------------------------------------------------------
(* What a search promises.                                                 *)

\* A search begins with the invariant, ...
LEMMA SearchBegins ==
  ASSUME Given, Init
  PROVE  SearchInv
<1>1. /\ pc = "start" /\ pending = <<>> /\ start = None /\ queue = <<>> /\ chain = None
      /\ distances = [n \in Node |-> None] /\ parent = [n \in Node |-> None]
  BY DEF Init
<1>2. TypeOK  BY <1>1 DEF TypeOK, Given
<1>3. Labels /\ Queued /\ Parents /\ InTurn /\ Best
  BY <1>1 DEF Labels, Searching, Queued, Parents, InTurn, Best, Answering
<1> QED  BY <1>1, <1>2, <1>3 DEF SearchInv

\* ... every step keeps it, ...
LEMMA SearchGoesOn ==
  ASSUME SearchInv, Next
  PROVE  SearchInv'
BY RefuseKept, StartDistancesKept, StartChainsKept, SkipKept, VisitKept, NextEntryKept,
   FinishKept DEF Next

\* ... and so does a step that leaves the search alone.
LEMMA SearchStays ==
  ASSUME SearchInv, UNCHANGED vars
  PROVE  SearchInv'
<1>0. TypeOK /\ Labels /\ Queued /\ Parents /\ InTurn /\ Best  BY DEF SearchInv
<1>1. UNCHANGED <<graph, request, pc, pending, start, distances, parent, queue, chain>>
  BY DEF vars
<1>2. /\ Balls' = Balls /\ Starts' = Starts /\ (Chains' <=> Chains)
      /\ (Acceptable' <=> Acceptable) /\ Elements(queue)' = Elements(queue)
      /\ Elements(pending)' = Elements(pending) /\ Allowed' = Allowed
      /\ (Searching' <=> Searching) /\ (Answering' <=> Answering) /\ Tried' = Tried
      /\ \A n : Onward(n)' = Onward(n)
  BY <1>1, BallsSame
  DEF Starts, RefStarts, Chains, Acceptable, Searching, Answering, Tried, Elements
<1>3. TypeOK'  BY <1>0, <1>1 DEF TypeOK
<1>4. Labels'
  <2>1. CASE Searching  BY <1>0, <1>1, <2>1, LabelsStay
  <2>2. CASE ~ Searching  BY <1>2, <2>2 DEF Labels
  <2> QED  BY <2>1, <2>2
<1>5. Queued'  BY <1>0, <1>1, <1>2 DEF Queued, Labelled
<1>6. Parents'  BY <1>0, <1>1, <1>2 DEF Parents, IsParent, Labelled
<1>7. InTurn'  BY <1>0, <1>1, <1>2 DEF InTurn
<1>8. Best'  BY <1>0, <1>1, <1>2, ChainFromSame DEF Best, Ball
<1> QED  BY <1>1, <1>3, <1>4, <1>5, <1>6, <1>7, <1>8 DEF SearchInv

\* The queue is in the order of the distances.
LEMMA SearchMonotone ==
  ASSUME SearchInv
  PROVE  QueueMonotone
<1> SUFFICES ASSUME pc = "search"  PROVE QueueMonotone
  BY DEF QueueMonotone
<1>1. Queued  BY DEF SearchInv
<1> QED  BY <1>1 DEF Queued, QueueMonotone, Labelled, Elements, Onward

\* What a finished search for distances has labelled.
LEMMA LabelledNear ==
  ASSUME SearchInv, pc = "done", ~Chains
  PROVE  /\ Given /\ RefStarts \in SUBSET Node /\ request.depth \in Nat
         /\ Starts = RefStarts
         /\ Ball(RefStarts, request.depth) = {n \in Node : Labelled(n)}
<1>0. TypeOK /\ Labels /\ Queued /\ Given  BY DEF SearchInv, TypeOK, Given
<1>1. Searching /\ Starts = RefStarts /\ queue = <<>>
  BY <1>0 DEF Searching, Starts, Queued
<1>2. RefStarts \in SUBSET Node  BY <1>0, <1>1, StartsNodes
<1>3. request.depth \in Nat /\ request.depth \in 0..request.depth
  BY <1>0 DEF Given, Request
<1>4. \A n \in Ball(RefStarts, request.depth) : Labelled(n)
  <2>1. \A i \in DOMAIN queue : request.depth <= distances[queue[i]]  BY <1>1
  <2> QED  BY <1>0, <1>1, <1>3, <2>1, NearLabelled
<1>5. Ball(RefStarts, request.depth) \subseteq Node  BY <1>0, <1>2, <1>3, BallMeans
<1>6. ASSUME NEW n \in Node, Labelled(n)  PROVE n \in Ball(RefStarts, request.depth)
  <2>1. distances[n] <= request.depth /\ n \in Ball(RefStarts, distances[n])
    BY <1>0, <1>1, <1>6 DEF Labels
  <2>2. distances[n] \in Nat  BY <1>0, <1>6 DEF TypeOK, Labelled
  <2>3. distances[n] \in 0..request.depth  BY <1>3, <2>1, <2>2
  <2> QED  BY <1>0, <1>2, <1>3, <2>1, <2>3, BallGrows
<1> QED  BY <1>0, <1>1, <1>2, <1>3, <1>4, <1>5, <1>6

\* The labels of a finished search are least distances.
LEMMA SearchExact ==
  ASSUME SearchInv
  PROVE  DistancesExact
<1> SUFFICES ASSUME pc = "done", ~Chains  PROVE DistancesExact
  BY DEF DistancesExact
<1>1. /\ RefStarts \in SUBSET Node /\ Starts = RefStarts
      /\ Ball(RefStarts, request.depth) = {n \in Node : Labelled(n)}
  BY LabelledNear
<1>2. \A n \in Node : Labelled(n) =>
        /\ n \in Ball(RefStarts, distances[n])
        /\ distances[n] > 0 => n \notin Ball(RefStarts, distances[n] - 1)
  BY <1>1 DEF SearchInv, Labels, Searching
<1>3. PICK b : b = Within(RefStarts, request.depth)  OBVIOUS
<1>4. \A d : Ball(RefStarts, d) = b[d]  BY <1>1, <1>3 DEF Ball, Balls
<1>5. \A n \in Node :
        /\ distances[n] = None <=> n \notin b[request.depth]
        /\ distances[n] # None =>
             /\ n \in b[distances[n]]
             /\ distances[n] > 0 => n \notin b[distances[n] - 1]
  BY <1>1, <1>2, <1>4 DEF Labelled
<1> QED  BY <1>3, <1>5 DEF DistancesExact

\* Nodes by distance, then by id, are totally ordered.
LEMMA NearerOrdered ==
  ASSUME NEW S \in SUBSET Nat, \A n \in S : distances[n] \in Nat
  PROVE  TotalOrder({p \in S \X S : NearerBefore(p[1], p[2])}, S)
<1> DEFINE R == {p \in S \X S : NearerBefore(p[1], p[2])}
<1>1. \A x, y \in S : <<x, y>> \in R <=> NearerBefore(x, y)  OBVIOUS
<1>2. \A x \in S : x \in Nat /\ distances[x] \in Nat  OBVIOUS
<1> HIDE DEF R
<1>3. \A x \in S : ~ NearerBefore(x, x)  BY <1>2 DEF NearerBefore
<1>4. \A x, y, z \in S : NearerBefore(x, y) /\ NearerBefore(y, z) => NearerBefore(x, z)
  BY <1>2 DEF NearerBefore
<1>5. \A x, y \in S : x # y => NearerBefore(x, y) \/ NearerBefore(y, x)
  BY <1>2 DEF NearerBefore
<1> QED  BY <1>1, <1>3, <1>4, <1>5 DEF TotalOrder, R

\* What is wanted of a search is listed, nearer nodes first.
LEMMA MatchesListed ==
  ASSUME SearchInv, pc = "done", ~Chains,
         NEW W, W = CASE request.op = "reachability" -> Ball(RefStarts, request.depth)
                      [] request.op = "impact" ->
                           Ball(RefStarts, request.depth) \ {request.target}
                      [] OTHER -> request.symbols \ Ball(RefStarts, request.depth)
  PROVE  /\ Matches \in Seq(W) /\ Elements(Matches) = W /\ Len(Matches) = Cardinality(W)
         /\ \A i, j \in DOMAIN Matches : i < j => Matches[i] # Matches[j]
         /\ request.op # "dead_symbols" =>
              \A i, j \in DOMAIN Matches : i < j => distances[Matches[i]] <= distances[Matches[j]]
<1>0. TypeOK  BY DEF SearchInv
<1>1. Ball(RefStarts, request.depth) = {n \in Node : Labelled(n)}  BY LabelledNear
<1>2. request.op \in {"reachability", "impact", "dead_symbols"} /\ request.symbols \subseteq Node
  BY <1>0 DEF TypeOK, Request, SearchOps, Chains
<1>3. CASE request.op = "dead_symbols"
  <2>1. W = {n \in request.symbols : distances[n] = None}
    BY <1>1, <1>2, <1>3 DEF Labelled
  <2>2. Matches = Ordered(W, Below)  BY <1>3, <2>1 DEF Matches
  <2>3. W \in SUBSET Nat /\ IsFiniteSet(W)  BY <1>2, <2>1, NodeAssumption, FS_Subset
  <2>4. \A i, j \in DOMAIN Matches : i < j => Matches[i] < Matches[j]
    BY <2>2, <2>3, BelowLists
  <2>5. Matches \in Seq(W) /\ Elements(Matches) = W /\ Len(Matches) = Cardinality(W)
    BY <2>2, <2>3, BelowLists
  <2>6. \A i \in DOMAIN Matches : Matches[i] \in Nat  BY <2>3, <2>5
  <2>7. \A i, j \in DOMAIN Matches : i < j => Matches[i] # Matches[j]  BY <2>4, <2>6
  <2> QED  BY <1>3, <2>5, <2>7
<1>4. CASE request.op \in {"reachability", "impact"}
  <2>1. W = Listed  BY <1>1, <1>4 DEF Listed, Labelled
  <2> DEFINE R == {p \in W \X W : NearerBefore(p[1], p[2])}
             s == Matches
  <2>2. s = Ranked(W, R)  BY <1>4, <2>1 DEF Matches, Ordered
  <2>3. W \in SUBSET Node /\ \A n \in W : distances[n] # None
    BY <2>1 DEF Listed
  <2>4. \A n \in W : distances[n] \in Nat  BY <1>0, <2>3 DEF TypeOK
  <2>5. W \in SUBSET Nat /\ IsFiniteSet(W)  BY <2>3, NodeAssumption, FS_Subset
  <2>6. TotalOrder(R, W)  BY <2>4, <2>5, NearerOrdered
  <2>7. \A x, y : <<x, y>> \in R => NearerBefore(x, y)
    OBVIOUS
  <2> HIDE DEF R, s
  <2>8. Lists(s, W, R) /\ Len(s) = Cardinality(W)  BY <2>2, <2>5, <2>6, RankedLists
  <2>9. /\ s \in Seq(W) /\ Elements(s) = W
        /\ \A i, j \in DOMAIN s : i < j => <<s[i], s[j]>> \in R
    BY <2>8 DEF Lists
  <2>10. \A i, j \in DOMAIN s : i < j => NearerBefore(s[i], s[j])
    BY <2>7, <2>9
  <2>11. \A i \in DOMAIN s : s[i] \in Nat /\ distances[s[i]] \in Nat
    BY <2>4, <2>5, <2>9
  <2>12. \A i, j \in DOMAIN s : i < j => s[i] # s[j] /\ distances[s[i]] <= distances[s[j]]
    BY <2>10, <2>11 DEF NearerBefore
  <2> QED  BY <1>4, <2>8, <2>9, <2>12 DEF s
<1> QED  BY <1>2, <1>3, <1>4

\* An answer is honest about what it leaves out.
LEMMA SearchHonest ==
  ASSUME SearchInv
  PROVE  AnswerHonest
<1> SUFFICES ASSUME pc = "done", ~Chains  PROVE AnswerHonest
  BY DEF AnswerHonest
<1>1. PICK B : B = Within(RefStarts, request.depth)[request.depth]  OBVIOUS
<1>2. B = Ball(RefStarts, request.depth)
  <2>1. RefStarts \in SUBSET Node  BY LabelledNear
  <2> QED  BY <1>1, <2>1 DEF Ball, Balls
<1>3. PICK W : W = CASE request.op = "reachability" -> B
                     [] request.op = "impact" -> B \ {request.target}
                     [] OTHER -> request.symbols \ B
  OBVIOUS
<1>4. PICK s : s = Matches  OBVIOUS
<1>5. /\ s \in Seq(W) /\ Elements(s) = W /\ Len(s) = Cardinality(W)
      /\ \A i, j \in DOMAIN s : i < j => s[i] # s[j]
      /\ request.op # "dead_symbols" =>
           \A i, j \in DOMAIN s : i < j => distances[s[i]] <= distances[s[j]]
  BY <1>2, <1>3, <1>4, MatchesListed
<1>6. PICK L : L = LeastOf(request.limit, Len(s))  OBVIOUS
<1>7. L \in 0..Len(s) /\ Len(s) \in Nat
  <2>1. request.limit \in Nat  BY DEF SearchInv, TypeOK, Request
  <2> QED  BY <1>5, <1>6, <2>1 DEF LeastOf
<1>8. PICK r : r = SubSeq(s, 1, L)  OBVIOUS
<1>9. /\ r \in Seq(W) /\ Len(r) = L /\ DOMAIN r = 1..L /\ DOMAIN s = 1..Len(s)
      /\ \A i \in 1..L : r[i] = s[i] /\ i \in 1..Len(s)
  BY <1>5, <1>7, <1>8
<1>10. /\ Answer.count = Len(s) /\ Answer.returned = r
       /\ Answer.truncated <=> Len(s) > Len(r)
  BY <1>4, <1>6, <1>8 DEF Answer
<1>11. PICK got : got = {r[i] : i \in DOMAIN r}  OBVIOUS
<1>12. got = Elements(r)  BY <1>11 DEF Elements
<1>13. got \subseteq W  BY <1>9, <1>11
<1>14. Len(r) = Cardinality(got)
  <2>1. \A i, j \in DOMAIN r : r[i] = r[j] => i = j
    <3> SUFFICES ASSUME NEW i \in 1..L, NEW j \in 1..L, r[i] = r[j]  PROVE i = j
      BY <1>9
    <3>1. ~ (i < j) /\ ~ (j < i)  BY <1>5, <1>9
    <3> QED  BY <1>7, <3>1
  <2> QED  BY <1>9, <1>12, <2>1, DistinctCount
<1>15. (Len(s) > Len(r)) <=> got # W
  <2>0. PICK N \in Nat : N = Len(s) /\ L \in 0..N /\ DOMAIN s = 1..N
    BY <1>7, <1>9
  <2>1. CASE L = N
    <3>1. \A i \in DOMAIN s : s[i] \in got  BY <1>9, <1>11, <2>0, <2>1
    <3>2. W \subseteq got  BY <1>5, <3>1 DEF Elements
    <3>3. got = W  BY <1>13, <3>2
    <3> QED  BY <1>9, <2>0, <2>1, <3>3
  <2>2. CASE L # N
    <3>1. N > L /\ N \in DOMAIN s  BY <2>0, <2>2
    <3>2. s[N] \in W  BY <1>5, <3>1
    <3>3. \A i \in 1..L : i < N /\ i \in DOMAIN s  BY <2>0, <3>1
    <3>4. s[N] \notin got  BY <1>5, <1>9, <1>11, <3>1, <3>3
    <3> QED  BY <1>9, <2>0, <3>1, <3>2, <3>4
  <2> QED  BY <2>1, <2>2
<1>16. ASSUME request.op # "dead_symbols", NEW n \in got, NEW m \in W \ got
       PROVE  distances[n] <= distances[m]
  <2>1. PICK i \in 1..L : n = s[i]  BY <1>9, <1>11
  <2>2. PICK j \in DOMAIN s : m = s[j]  BY <1>5 DEF Elements
  <2>3. j \notin 1..L  BY <1>9, <1>11, <2>2
  <2>4. i < j /\ i \in DOMAIN s  BY <1>7, <1>9, <2>2, <2>3
  <2> QED  BY <1>5, <1>16, <2>1, <2>2, <2>4
<1>17. /\ got \subseteq W
       /\ Answer.count = Cardinality(W)
       /\ Answer.truncated <=> got # W
       /\ Len(Answer.returned) = Cardinality(got)
       /\ request.op # "dead_symbols" => \A n \in got, m \in W \ got : distances[n] <= distances[m]
  BY <1>5, <1>10, <1>13, <1>14, <1>15, <1>16
<1>18. got = {Answer.returned[i] : i \in DOMAIN Answer.returned}  BY <1>10, <1>11
<1> HIDE DEF Answer
<1> QED  BY <1>1, <1>3, <1>17, <1>18 DEF AnswerHonest

\* The chain of an answer is a shortest one, of the least entry.
LEMMA SearchShortest ==
  ASSUME SearchInv
  PROVE  ChainShortest
<1> SUFFICES ASSUME pc = "done", Chains  PROVE ChainShortest
  BY DEF ChainShortest
<1>0. TypeOK /\ InTurn /\ Best /\ Given /\ Answering
  BY DEF SearchInv, TypeOK, Given, Answering
<1>1. pending = <<>> /\ Acceptable  BY <1>0 DEF InTurn
<1>2. Tried = request.entries  BY <1>1, ElementsEmpty DEF Tried
<1>3. request.entries \subseteq Node /\ request.depth \in Nat
  BY <1>0, <1>1 DEF Acceptable, Chains, TypeOK, Request
<1>4. \A n \in request.entries : \A d : Within({n}, request.depth)[d] = Ball({n}, d)
  BY <1>3 DEF Ball, Balls
<1>5. PICK near : near = {n \in request.entries :
                            request.target \in Within({n}, request.depth)[request.depth]}
  OBVIOUS
<1>6. PICK c : c = chain  OBVIOUS
<1>7. CASE c = None
  <2>1. \A n \in request.entries : request.target \notin Ball({n}, request.depth)
    BY <1>0, <1>2, <1>6, <1>7 DEF Best
  <2>2. near = {}  BY <1>4, <1>5, <2>1
  <2> QED  BY <1>5, <1>6, <1>7, <2>2 DEF ChainShortest
<1>8. CASE c # None
  <2>1. /\ c.nodes[1] \in request.entries /\ ChainFrom(c, c.nodes[1])
        /\ \A n \in request.entries : AtLeast(c, n)
    BY <1>0, <1>2, <1>6, <1>8 DEF Best
  <2>2. PICK length : length = Len(c.relations)  OBVIOUS
  <2>3. /\ Len(c.nodes) = length + 1 /\ c.nodes[length + 1] = request.target
        /\ \A i \in 1..length :
             /\ c.relations[i] \in Allowed
             /\ [source |-> c.nodes[i], relation |-> c.relations[i],
                 target |-> c.nodes[i + 1]] \in graph
        /\ c.relations \in Seq(Relation) /\ length <= request.depth
        /\ request.target \in Ball({c.nodes[1]}, length)
    BY <2>1, <2>2 DEF ChainFrom
  <2>4. length \in 0..request.depth  BY <1>3, <2>2, <2>3
  <2>5. request.target \in Ball({c.nodes[1]}, request.depth)
    <3>1. request.depth \in 0..request.depth  BY <1>3
    <3> QED  BY <1>0, <1>3, <2>1, <2>3, <2>4, <3>1, BallGrows
  <2>6. c.nodes[1] \in near  BY <1>4, <1>5, <2>1, <2>5
  <2>7. \A n \in near :
          /\ length > 0 =>
               request.target \notin Within({n}, request.depth)[length - 1]
          /\ request.target \in Within({n}, request.depth)[length] => c.nodes[1] <= n
    <3> TAKE n \in near
    <3>1. n \in request.entries  BY <1>5
    <3>2. AtLeast(c, n)  BY <2>1, <3>1
    <3> QED  BY <1>4, <2>2, <3>1, <3>2 DEF AtLeast
  <2> QED  BY <1>5, <1>6, <1>8, <2>2, <2>3, <2>6, <2>7 DEF ChainShortest
<1> QED  BY <1>7, <1>8
=============================================================================
