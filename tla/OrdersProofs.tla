---------------------------- MODULE OrdersProofs ----------------------------
(***************************************************************************)
(* What sorting returns.  Every list of the model that the code sorts is   *)
(* Ordered(S, Before); the lemmas say that it holds the elements of S,     *)
(* each once, in that order, and that it is the only list that does.       *)
(***************************************************************************)
EXTENDS Orders, FiniteSetTheorems, TLAPS

(* A strict total order of a set.                                          *)
TotalOrder(before, S) ==
  /\ \A x \in S : <<x, x>> \notin before
  /\ \A x, y, z \in S : <<x, y>> \in before /\ <<y, z>> \in before => <<x, z>> \in before
  /\ \A x, y \in S : x # y => <<x, y>> \in before \/ <<y, x>> \in before

Preceding(S, before, x) == {y \in S : <<y, x>> \in before}

Rank(S, before, x) == Cardinality(Preceding(S, before, x))

(* What Ranked(S, before) is.                                              *)
Lists(s, S, before) ==
  /\ s \in Seq(S)
  /\ Elements(s) = S
  /\ \A i, j \in DOMAIN s : i < j => <<s[i], s[j]>> \in before

-----------------------------------------------------------------------------
\* Fewer elements precede one that is in the set than the set has.
LEMMA RankRange ==
  ASSUME NEW S, IsFiniteSet(S), NEW before, TotalOrder(before, S), NEW x \in S
  PROVE  Rank(S, before, x) \in 0..(Cardinality(S) - 1)
<1>1. Preceding(S, before, x) \in SUBSET (S \ {x})  BY DEF Preceding, TotalOrder
<1>2. IsFiniteSet(S \ {x}) /\ Cardinality(S \ {x}) = Cardinality(S) - 1
  BY FS_RemoveElement
<1>3. /\ IsFiniteSet(Preceding(S, before, x))
      /\ Cardinality(Preceding(S, before, x)) <= Cardinality(S \ {x})
  BY <1>1, <1>2, FS_Subset
<1>4. Cardinality(Preceding(S, before, x)) \in Nat /\ Cardinality(S) \in Nat
  BY <1>3, FS_CardinalityType
<1> QED  BY <1>2, <1>3, <1>4 DEF Rank

\* An element has a lower rank than those after it.
LEMMA RankGrows ==
  ASSUME NEW S, IsFiniteSet(S), NEW before, TotalOrder(before, S),
         NEW x \in S, NEW y \in S, <<x, y>> \in before
  PROVE  Rank(S, before, x) < Rank(S, before, y)
<1> DEFINE P == Preceding(S, before, x)
           Q == Preceding(S, before, y)
<1>1. P \in SUBSET Q /\ x \in Q /\ x \notin P  BY DEF Preceding, TotalOrder
<1>2. Q \in SUBSET S  BY DEF Preceding
<1>3. IsFiniteSet(Q)  BY <1>2, FS_Subset
<1>4. /\ IsFiniteSet(P) /\ Cardinality(P) <= Cardinality(Q)
      /\ Cardinality(Q) = Cardinality(P) => Q = P
  BY <1>1, <1>3, FS_Subset
<1>5. Cardinality(P) \in Nat /\ Cardinality(Q) \in Nat
  BY <1>3, <1>4, FS_CardinalityType
<1>6. Cardinality(P) # Cardinality(Q)  BY <1>1, <1>4
<1>7. Cardinality(P) < Cardinality(Q)  BY <1>4, <1>5, <1>6
<1> QED  BY <1>7 DEF Rank

\* Elements of one rank are one.
LEMMA RankInjective ==
  ASSUME NEW S, IsFiniteSet(S), NEW before, TotalOrder(before, S),
         NEW x \in S, NEW y \in S, Rank(S, before, x) = Rank(S, before, y)
  PROVE  x = y
<1>1. /\ Rank(S, before, x) \in Int
      /\ <<x, y>> \in before => Rank(S, before, x) < Rank(S, before, y)
      /\ <<y, x>> \in before => Rank(S, before, y) < Rank(S, before, x)
  BY RankGrows, RankRange
<1>2. ~ (Rank(S, before, x) < Rank(S, before, y))
  BY <1>1
<1>3. ~ (Rank(S, before, y) < Rank(S, before, x))
  BY <1>1
<1> QED  BY <1>1, <1>2, <1>3 DEF TotalOrder

\* Every rank below the size of the set is some element's.
LEMMA RankOnto ==
  ASSUME NEW S, IsFiniteSet(S), NEW before, TotalOrder(before, S),
         NEW k \in 0..(Cardinality(S) - 1)
  PROVE  \E x \in S : Rank(S, before, x) = k
<1> DEFINE N == 0..(Cardinality(S) - 1)
           f == [x \in S |-> Rank(S, before, x)]
<1>1. Cardinality(S) \in Nat  BY FS_CardinalityType
<1>2. IsFiniteSet(N) /\ Cardinality(N) = Cardinality(S)
  <2>1. 0 \in Int /\ Cardinality(S) - 1 \in Int  BY <1>1
  <2>2. /\ IsFiniteSet(N)
        /\ Cardinality(N) =
             IF 0 > Cardinality(S) - 1 THEN 0 ELSE Cardinality(S) - 1 - 0 + 1
    BY <2>1, FS_Interval
  <2> QED  BY <2>2, <1>1
<1>3. f \in [S -> N]  BY RankRange
<1>4. \A x, y \in S : f[x] = f[y] => x = y  BY RankInjective
<1>5. f \in Injection(S, N)  BY <1>3, <1>4 DEF Injection, IsInjective
<1>6. f \in Surjection(S, N)  BY <1>2, <1>5, FS_Injection
<1> HIDE DEF f
<1>7. \E x \in S : f[x] = k  BY <1>6 DEF Surjection
<1> QED  BY <1>7 DEF f

-----------------------------------------------------------------------------
\* A ranked list holds the elements of the set, in order.
LEMMA RankedLists ==
  ASSUME NEW S, IsFiniteSet(S), NEW before, TotalOrder(before, S)
  PROVE  /\ Lists(Ranked(S, before), S, before)
         /\ Len(Ranked(S, before)) = Cardinality(S)
<1> DEFINE s == Ranked(S, before)
           n == Cardinality(S)
<1>1. n \in Nat  BY FS_CardinalityType
<1>2. \A i \in 1..n : s[i] \in S /\ Rank(S, before, s[i]) = i - 1
  <2> TAKE i \in 1..n
  <2>1. i - 1 \in 0..(n - 1)  BY <1>1
  <2>2. \E x \in S : Rank(S, before, x) = i - 1  BY <2>1, RankOnto
  <2> DEFINE y == AtPlace(S, before, i - 1)
  <2>3. y \in S /\ Rank(S, before, y) = i - 1  BY <2>2 DEF AtPlace, Rank, Preceding
  <2>4. s[i] = y  BY DEF Ranked
  <2> QED  BY <2>3, <2>4
<1>3. s \in Seq(S) /\ DOMAIN s = 1..n /\ Len(s) = n
  <2>1. s = [i \in 1..n |-> s[i]]  BY DEF Ranked
  <2> HIDE DEF s
  <2>2. s \in [1..n -> S]  BY <2>1, <1>2
  <2> QED  BY <2>2, <1>1
<1> HIDE DEF s
<1>4. Elements(s) = S
  <2>1. ASSUME NEW x \in S  PROVE x \in Elements(s)
    <3>1. Rank(S, before, x) + 1 \in 1..n  BY RankRange, <1>1
    <3> DEFINE i == Rank(S, before, x) + 1
    <3>2. s[i] \in S /\ Rank(S, before, s[i]) = Rank(S, before, x)
      BY <1>2, <3>1, RankRange
    <3>3. s[i] = x  BY <3>2, RankInjective
    <3> QED  BY <3>1, <3>3, <1>3 DEF Elements
  <2> QED  BY <2>1, <1>2, <1>3 DEF Elements
<1>5. ASSUME NEW i \in DOMAIN s, NEW j \in DOMAIN s, i < j
      PROVE  <<s[i], s[j]>> \in before
  <2>1. /\ s[i] \in S /\ Rank(S, before, s[i]) = i - 1
        /\ s[j] \in S /\ Rank(S, before, s[j]) = j - 1
    BY <1>2, <1>3
  <2>2. s[i] # s[j] /\ ~ (Rank(S, before, s[j]) < Rank(S, before, s[i]))
    BY <2>1, <1>1, <1>3, <1>5
  <2>3. <<s[j], s[i]>> \notin before  BY <2>1, <2>2, RankGrows
  <2> QED  BY <2>1, <2>2, <2>3 DEF TotalOrder
<1> QED  BY <1>3, <1>4, <1>5 DEF Lists, s

\* No other list does.
LEMMA RankedUnique ==
  ASSUME NEW S, IsFiniteSet(S), NEW before, TotalOrder(before, S),
         NEW s, Lists(s, S, before)
  PROVE  s = Ranked(S, before)
<1> DEFINE n == Len(s)
<1>1. /\ s \in Seq(S) /\ Elements(s) = S
      /\ \A i, j \in DOMAIN s : i < j => <<s[i], s[j]>> \in before
  BY DEF Lists
<1>2. n \in Nat /\ DOMAIN s = 1..n /\ s \in [1..n -> S]
  BY <1>1
<1>3. \A i, j \in 1..n : <<s[i], s[j]>> \in before => i < j
  <2> SUFFICES ASSUME NEW i \in 1..n, NEW j \in 1..n, <<s[i], s[j]>> \in before
               PROVE  i < j
    OBVIOUS
  <2>1. s[i] \in S /\ s[j] \in S  BY <1>2
  <2>2. i # j  BY <2>1 DEF TotalOrder
  <2>3. ~ (j < i)  BY <2>1, <1>1, <1>2 DEF TotalOrder
  <2> QED  BY <2>2, <2>3, <1>2
<1>4. \A i, j \in 1..n : s[i] = s[j] => i = j
  <2> SUFFICES ASSUME NEW i \in 1..n, NEW j \in 1..n, s[i] = s[j], i # j
               PROVE  FALSE
    OBVIOUS
  <2>1. i < j \/ j < i  BY <1>2
  <2>2. <<s[i], s[j]>> \in before \/ <<s[j], s[i]>> \in before  BY <2>1, <1>1, <1>2
  <2> QED  BY <2>2, <1>2 DEF TotalOrder
<1>5. \A x \in S : \E i \in 1..n : s[i] = x  BY <1>1, <1>2 DEF Elements
<1>6. Cardinality(S) = n
  <2>1. s \in Bijection(1..n, S)
    BY <1>2, <1>4, <1>5 DEF Bijection, Injection, Surjection, IsInjective
  <2>2. ExistsBijection(1..n, S)  BY <2>1 DEF ExistsBijection
  <2> QED  BY <1>2, <2>2, FS_CountingElements
<1>7. ASSUME NEW i \in 1..n
      PROVE  Rank(S, before, s[i]) = i - 1
  <2> DEFINE P == Preceding(S, before, s[i])
             f == [k \in 1..(i - 1) |-> s[k]]
  <2>1. \A k \in 1..(i - 1) : k \in 1..n /\ s[k] \in P
    BY <1>1, <1>2 DEF Preceding
  <2>2. f \in [1..(i - 1) -> P]  BY <2>1
  <2>3. \A k, l \in 1..(i - 1) : f[k] = f[l] => k = l  BY <1>4, <2>1
  <2>4. ASSUME NEW x \in P  PROVE \E k \in 1..(i - 1) : f[k] = x
    <3>1. x \in S /\ <<x, s[i]>> \in before  BY DEF Preceding
    <3>2. PICK k \in 1..n : s[k] = x  BY <3>1, <1>5
    <3>3. k < i  BY <3>1, <3>2, <1>3
    <3>4. k \in 1..(i - 1)  BY <3>3, <1>2
    <3> QED  BY <3>2, <3>4
  <2>5. f \in Bijection(1..(i - 1), P)
    BY <2>2, <2>3, <2>4 DEF Bijection, Injection, Surjection, IsInjective
  <2>6. ExistsBijection(1..(i - 1), P)  BY <2>5 DEF ExistsBijection
  <2>7. i - 1 \in Nat  BY <1>2
  <2>8. Cardinality(P) = i - 1  BY <2>6, <2>7, FS_CountingElements
  <2> QED  BY <2>8 DEF Rank
<1>8. ASSUME NEW i \in 1..n  PROVE s[i] = Ranked(S, before)[i]
  <2> DEFINE y == AtPlace(S, before, i - 1)
  <2>1. s[i] \in S  BY <1>2
  <2>2. y \in S /\ Rank(S, before, y) = i - 1  BY <1>7, <2>1 DEF AtPlace, Rank, Preceding
  <2>3. y = s[i]  BY <1>7, <2>1, <2>2, RankInjective
  <2>4. Ranked(S, before)[i] = y  BY <1>6 DEF Ranked
  <2> QED  BY <2>3, <2>4
<1>9. s = [i \in 1..n |-> s[i]]  BY <1>2
<1>10. Ranked(S, before) = [i \in 1..n |-> Ranked(S, before)[i]]  BY <1>6 DEF Ranked
<1> QED  BY <1>8, <1>9, <1>10

-----------------------------------------------------------------------------
(* What lists hold.                                                        *)

\* A list that is not empty holds its head and what its tail holds.
LEMMA ElementsTail ==
  ASSUME NEW S, NEW s \in Seq(S), s # <<>>
  PROVE  Elements(s) = {Head(s)} \cup Elements(Tail(s))
<1>1. /\ 1 \in DOMAIN s /\ Head(s) = s[1]
      /\ \A k \in DOMAIN Tail(s) : k + 1 \in DOMAIN s /\ Tail(s)[k] = s[k + 1]
      /\ \A k \in DOMAIN s : k = 1 \/ (k - 1 \in DOMAIN Tail(s) /\ s[k] = Tail(s)[k - 1])
  OBVIOUS
<1>2. \A k \in DOMAIN s : s[k] \in {Head(s)} \cup Elements(Tail(s))
  BY <1>1 DEF Elements
<1>3. \A k \in DOMAIN Tail(s) : Tail(s)[k] \in Elements(s)
  <2> TAKE k \in DOMAIN Tail(s)
  <2>1. k + 1 \in DOMAIN s /\ Tail(s)[k] = s[k + 1]  BY <1>1
  <2> QED  BY <2>1 DEF Elements
<1>4. Head(s) \in Elements(s)  BY <1>1 DEF Elements
<1>5. Elements(s) \subseteq {Head(s)} \cup Elements(Tail(s))
  BY <1>2 DEF Elements
<1>6. Elements(Tail(s)) \subseteq Elements(s)
  BY <1>3 DEF Elements
<1> QED  BY <1>4, <1>5, <1>6

\* What a list of members holds is a member.
LEMMA Member ==
  ASSUME NEW X, NEW s \in Seq(X), NEW i \in DOMAIN s
  PROVE  s[i] \in X
OBVIOUS

\* An empty list holds nothing.
LEMMA ElementsEmpty == Elements(<<>>) = {}
BY DEF Elements

\* A list without repetitions holds as many as it is long.
LEMMA DistinctCount ==
  ASSUME NEW S, NEW s \in Seq(S), \A i, j \in DOMAIN s : s[i] = s[j] => i = j
  PROVE  Cardinality(Elements(s)) = Len(s)
<1> DEFINE n == Len(s)
<1>1. n \in Nat /\ DOMAIN s = 1..n /\ s \in [1..n -> S]  OBVIOUS
<1>2. s \in [1..n -> Elements(s)]  BY <1>1 DEF Elements
<1>3. \A x \in Elements(s) : \E i \in 1..n : s[i] = x  BY <1>1 DEF Elements
<1>4. s \in Bijection(1..n, Elements(s))
  BY <1>1, <1>2, <1>3 DEF Bijection, Injection, Surjection, IsInjective
<1>5. ExistsBijection(1..n, Elements(s))  BY <1>4 DEF ExistsBijection
<1> QED  BY <1>1, <1>5, FS_CountingElements

-----------------------------------------------------------------------------
(* Induction over numbers, for sets of numbers.                            *)

\* Below is a total order of numbers.
LEMMA NumbersOrdered ==
  ASSUME NEW S \in SUBSET Nat
  PROVE  TotalOrder({p \in S \X S : p[1] < p[2]}, S)
<1> DEFINE R == {p \in S \X S : p[1] < p[2]}
<1>1. \A x, y \in S : <<x, y>> \in R <=> x < y  OBVIOUS
<1>2. \A x \in S : x \in Nat  OBVIOUS
<1> HIDE DEF R
<1>3. TotalOrder(R, S)  BY <1>1, <1>2 DEF TotalOrder
<1> QED  BY <1>3 DEF R

\* A set of numbers has a least one.
LEMMA LeastNumber ==
  ASSUME NEW T \in SUBSET Nat, NEW n \in T
  PROVE  \E m \in T : \A k \in T : m <= k
<1> DEFINE S == {k \in T : k <= n}
           R == {p \in S \X S : p[1] < p[2]}
<1>1. IsFiniteSet(S)
  <2>1. IsFiniteSet(0..n)  BY FS_Interval
  <2>2. \A k \in S : k \in 0..n
    <3> TAKE k \in S
    <3>1. k \in Nat /\ n \in Nat /\ k <= n  OBVIOUS
    <3> QED  BY <3>1
  <2> QED  BY <2>1, <2>2, FS_Subset
<1>2. TotalOrder(R, S)  BY NumbersOrdered
<1>3. \A x, y \in S : x < y => <<x, y>> \in R  OBVIOUS
<1>4. n \in S /\ S \subseteq T /\ \A k \in T : k \in S \/ n < k  OBVIOUS
<1> HIDE DEF S, R
<1>5. 0 \in 0..(Cardinality(S) - 1)
  <2>1. Cardinality(S) \in Nat  BY <1>1, FS_CardinalityType
  <2>2. Cardinality(S) # 0  BY <1>1, <1>4, FS_EmptySet
  <2> QED  BY <2>1, <2>2
<1>6. PICK m \in S : Rank(S, R, m) = 0  BY <1>1, <1>2, <1>5, RankOnto
<1>7. \A k \in S : m <= k
  <2> SUFFICES ASSUME NEW k \in S, k < m  PROVE FALSE
    BY <1>4
  <2>1. k \in Preceding(S, R, m)  BY <1>3 DEF Preceding
  <2>2. Preceding(S, R, m) \in SUBSET S  BY DEF Preceding
  <2>3. IsFiniteSet(Preceding(S, R, m))  BY <1>1, <2>2, FS_Subset
  <2>4. Preceding(S, R, m) = {}  BY <1>6, <2>3, FS_EmptySet DEF Rank
  <2> QED  BY <2>1, <2>4
<1>8. \A k \in T : m <= k  BY <1>4, <1>7
<1> QED  BY <1>4, <1>8

\* A set of numbers that has zero, and with each number below d the next
\* one, has all numbers up to d.
LEMMA UpTo ==
  ASSUME NEW d \in Nat, NEW G, 0 \in G,
         \A k \in 0..(d - 1) : k \in G => k + 1 \in G
  PROVE  0..d \subseteq G
<1> DEFINE T == (0..d) \ G
<1> SUFFICES ASSUME NEW n \in T  PROVE FALSE
  OBVIOUS
<1>1. T \in SUBSET Nat  OBVIOUS
<1>2. PICK m \in T : \A k \in T : m <= k  BY <1>1, LeastNumber
<1>3. m # 0 /\ m \in 0..d /\ m \notin G  BY <1>2
<1>4. m - 1 \in 0..(d - 1) /\ (m - 1) + 1 = m /\ m - 1 \in 0..d  BY <1>3
<1>5. m - 1 \in G
  <2>1. ~ (m <= m - 1)  BY <1>3
  <2>2. m - 1 \notin T  BY <1>2, <2>1
  <2> QED  BY <1>4, <2>2
<1> QED  BY <1>3, <1>4, <1>5

(* What is reached from x by taking a step up to d times.                  *)
Runs(X, x, step, d) ==
  {f \in [0..d -> X] : f[0] = x /\ \A i \in 1..d : f[i] = step[f[i - 1]]}

\* A step can be taken any number of times.
LEMMA Iterated ==
  ASSUME NEW X, NEW x \in X, NEW step \in [X -> X], NEW d \in Nat
  PROVE  Runs(X, x, step, d) # {}
<1> USE DEF Runs
<1> DEFINE G == {k \in 0..d : Runs(X, x, step, k) # {}}
<1>1. 0 \in G
  <2> DEFINE f == [i \in 0..0 |-> x]
  <2>1. f \in Runs(X, x, step, 0)  OBVIOUS
  <2> QED  BY <2>1
<1>2. ASSUME NEW k \in 0..(d - 1), k \in G  PROVE k + 1 \in G
  <2>1. PICK f \in Runs(X, x, step, k) : TRUE  BY <1>2
  <2>2. f \in [0..k -> X] /\ f[0] = x /\ \A i \in 1..k : f[i] = step[f[i - 1]]
    BY <2>1
  <2> DEFINE g == [i \in 0..(k + 1) |-> IF i = k + 1 THEN step[f[k]] ELSE f[i]]
  <2>3. k \in Nat /\ k \in 0..k /\ k + 1 \in 0..d  BY <1>2
  <2>4. \A i \in 0..(k + 1) : i = k + 1 \/ i \in 0..k  BY <2>3
  <2>5. step[f[k]] \in X  BY <2>2, <2>3
  <2>6. g \in [0..(k + 1) -> X]  BY <2>2, <2>4, <2>5
  <2>7. (\A i \in 0..k : g[i] = f[i]) /\ g[k + 1] = step[f[k]]  BY <2>3
  <2> HIDE DEF g
  <2>8. g[0] = x
    <3>1. 0 \in 0..k  BY <2>3
    <3> QED  BY <2>2, <2>7, <3>1
  <2>9. ASSUME NEW i \in 1..(k + 1)  PROVE g[i] = step[g[i - 1]]
    <3>1. CASE i = k + 1
      <4>1. i - 1 = k  BY <2>3, <3>1
      <4> QED  BY <2>3, <2>7, <3>1, <4>1
    <3>2. CASE i \in 1..k
      <4>1. i \in 0..k /\ i - 1 \in 0..k  BY <3>2
      <4> QED  BY <2>2, <2>7, <3>2, <4>1
    <3> QED  BY <2>3, <3>1, <3>2
  <2>10. g \in Runs(X, x, step, k + 1)  BY <2>6, <2>8, <2>9
  <2> QED  BY <2>3, <2>10
<1> HIDE DEF G
<1>3. 0..d \subseteq G  BY <1>1, <1>2, UpTo
<1>4. d \in G  BY <1>3
<1> QED  BY <1>4 DEF G

(* What is reached from x by d steps, each of its turn.                    *)
Turns(X, x, step, d) ==
  {f \in [0..d -> X] : f[0] = x /\ \A i \in 1..d : f[i] = step[i][f[i - 1]]}

\* A step that depends on its turn can be taken for each of the turns.
LEMMA Folded ==
  ASSUME NEW X, NEW x \in X, NEW d \in Nat, NEW step, \A i \in 1..d : step[i] \in [X -> X]
  PROVE  Turns(X, x, step, d) # {}
<1> DEFINE Y == (0..d) \X X
           turn == [y \in Y |-> IF y[1] < d THEN <<y[1] + 1, step[y[1] + 1][y[2]]>> ELSE y]
<1>1. turn \in [Y -> Y]
  <2>1. ASSUME NEW y \in Y, y[1] < d  PROVE <<y[1] + 1, step[y[1] + 1][y[2]]>> \in Y
    <3>1. y[1] \in 0..d /\ y[2] \in X  OBVIOUS
    <3>2. y[1] + 1 \in 1..d /\ y[1] + 1 \in 0..d  BY <2>1, <3>1
    <3>3. step[y[1] + 1] \in [X -> X]  BY <3>2
    <3>4. step[y[1] + 1][y[2]] \in X  BY <3>1, <3>3
    <3> QED  BY <3>2, <3>4
  <2> QED  BY <2>1
<1>2. <<0, x>> \in Y  OBVIOUS
<1>3. \A y \in Y : y[1] < d => turn[y] = <<y[1] + 1, step[y[1] + 1][y[2]]>>  OBVIOUS
<1>4. \A y \in Y : y[1] \in 0..d /\ y[2] \in X  OBVIOUS
<1> HIDE DEF turn, Y
<1>5. PICK r \in Runs(Y, <<0, x>>, turn, d) : TRUE  BY <1>1, <1>2, Iterated
<1>6. r \in [0..d -> Y] /\ r[0] = <<0, x>> /\ \A i \in 1..d : r[i] = turn[r[i - 1]]
  BY <1>5 DEF Runs
<1> DEFINE G == {i \in 0..d : r[i][1] = i}
<1>7. 0..d \subseteq G
  <2>1. 0 \in G  BY <1>6
  <2>2. ASSUME NEW k \in 0..(d - 1), k \in G  PROVE k + 1 \in G
    <3>1. k \in 0..d /\ k + 1 \in 1..d /\ k + 1 \in 0..d /\ (k + 1) - 1 = k /\ k < d  OBVIOUS
    <3>2. r[k] \in Y /\ r[k][1] = k  BY <1>6, <2>2, <3>1
    <3>3. r[k + 1] = turn[r[k]]  BY <1>6, <3>1
    <3>4. turn[r[k]] = <<k + 1, step[k + 1][r[k][2]]>>  BY <1>3, <3>1, <3>2
    <3> QED  BY <3>1, <3>3, <3>4
  <2> HIDE DEF G
  <2> QED  BY <2>1, <2>2, UpTo
<1> DEFINE f == [i \in 0..d |-> r[i][2]]
<1>8. f \in [0..d -> X]  BY <1>4, <1>6
<1>9. f[0] = x  BY <1>6
<1>10. ASSUME NEW i \in 1..d  PROVE f[i] = step[i][f[i - 1]]
  <2>1. i \in 0..d /\ i - 1 \in 0..d /\ i - 1 < d /\ (i - 1) + 1 = i  OBVIOUS
  <2>2. r[i - 1] \in Y /\ r[i - 1][1] = i - 1  BY <1>6, <1>7, <2>1
  <2>3. r[i] = turn[r[i - 1]]  BY <1>6
  <2>4. turn[r[i - 1]] = <<(i - 1) + 1, step[(i - 1) + 1][r[i - 1][2]]>>  BY <1>3, <2>1, <2>2
  <2>5. r[i] = <<i, step[i][r[i - 1][2]]>>  BY <2>1, <2>3, <2>4
  <2> QED  BY <2>1, <2>5
<1>11. f \in Turns(X, x, step, d)  BY <1>8, <1>9, <1>10 DEF Turns
<1> QED  BY <1>11

-----------------------------------------------------------------------------
(* Sizes.                                                                  *)

\* A list holds finitely much.
LEMMA ElementsFinite ==
  ASSUME NEW S, NEW s \in Seq(S)
  PROVE  IsFiniteSet(Elements(s)) /\ Elements(s) \in SUBSET S
<1> DEFINE n == Len(s)
<1>1. n \in Nat /\ DOMAIN s = 1..n /\ s \in [1..n -> S]  OBVIOUS
<1>2. s \in [1..n -> Elements(s)] /\ Elements(s) \in SUBSET S  BY <1>1 DEF Elements
<1>3. \A x \in Elements(s) : \E i \in 1..n : s[i] = x  BY <1>1 DEF Elements
<1>4. s \in Surjection(1..n, Elements(s))  BY <1>2, <1>3 DEF Surjection
<1>5. IsFiniteSet(1..n)  BY <1>1, FS_Interval
<1> QED  BY <1>2, <1>4, <1>5, FS_Surjection

\* The numbers up to a place are as many as that place says.
LEMMA Beginning ==
  ASSUME NEW n \in Nat, NEW T \in SUBSET (1..n), \A i \in T : \A j \in 1..i : j \in T
  PROVE  Cardinality(T) \in 0..n /\ T = 1..Cardinality(T)
<1> DEFINE C == (1..(n + 1)) \ T
<1>1. C \in SUBSET Nat /\ n + 1 \in C  OBVIOUS
<1>2. PICK m \in C : \A k \in C : m <= k  BY <1>1, LeastNumber
<1>3. m \in 1..(n + 1) /\ m \notin T  BY <1>2
<1>4. \A k \in 1..(m - 1) : k \in T
  <2> TAKE k \in 1..(m - 1)
  <2>1. k \in 1..(n + 1) /\ ~ (m <= k)  BY <1>3
  <2>2. k \notin C  BY <1>2, <2>1
  <2> QED  BY <2>1, <2>2
<1>5. \A k \in T : k \in 1..(m - 1)
  <2> TAKE k \in T
  <2>1. k \in 1..n  OBVIOUS
  <2>2. m \notin 1..k  BY <1>3
  <2> QED  BY <1>3, <2>1, <2>2
<1>6. T = 1..(m - 1)  BY <1>4, <1>5
<1>7. Cardinality(1..(m - 1)) = m - 1  BY <1>3, FS_Interval
<1> QED  BY <1>3, <1>6, <1>7

-----------------------------------------------------------------------------
(* Numbers in turn, and what is left of a list.                            *)

(* A set of numbers as a list, Ordered by <.                               *)
Ascending(S) == Ranked(S, {p \in S \X S : p[1] < p[2]})

\* The list of a set of numbers holds these, and they grow along it.
LEMMA AscendingList ==
  ASSUME NEW S \in SUBSET Nat, IsFiniteSet(S)
  PROVE  /\ Ascending(S) \in Seq(S) /\ Elements(Ascending(S)) = S
         /\ Len(Ascending(S)) = Cardinality(S)
         /\ \A i, j \in DOMAIN Ascending(S) : i < j => Ascending(S)[i] < Ascending(S)[j]
<1> DEFINE R == {p \in S \X S : p[1] < p[2]}
<1>1. TotalOrder(R, S)  BY NumbersOrdered
<1>2. \A x, y : <<x, y>> \in R => x < y  OBVIOUS
<1>3. Ascending(S) = Ranked(S, R)  BY DEF Ascending
<1> HIDE DEF R
<1>4. Lists(Ascending(S), S, R) /\ Len(Ascending(S)) = Cardinality(S)
  BY <1>1, <1>3, RankedLists
<1> QED  BY <1>2, <1>4 DEF Lists

\* A list of numbers that grow is the list of what it holds.
LEMMA AscendingUnique ==
  ASSUME NEW s \in Seq(Nat), \A i, j \in DOMAIN s : i < j => s[i] < s[j]
  PROVE  s = Ascending(Elements(s))
<1> DEFINE S == Elements(s)
           R == {p \in S \X S : p[1] < p[2]}
<1>1. S \in SUBSET Nat /\ IsFiniteSet(S)  BY ElementsFinite
<1>2. \A i \in DOMAIN s : s[i] \in S  BY DEF Elements
<1>3. s \in Seq(S)
  <2>1. Len(s) \in Nat /\ DOMAIN s = 1..Len(s) /\ s = [i \in 1..Len(s) |-> s[i]]  OBVIOUS
  <2> HIDE DEF S
  <2> QED  BY <1>2, <2>1
<1>4. TotalOrder(R, S)  BY <1>1, NumbersOrdered
<1>5. \A i, j \in DOMAIN s : i < j => <<s[i], s[j]>> \in R  BY <1>2
<1>6. Ascending(S) = Ranked(S, R)  BY DEF Ascending
<1>7. Elements(s) = S  OBVIOUS
<1> HIDE DEF R, S
<1>8. Lists(s, S, R)  BY <1>3, <1>5, <1>7 DEF Lists
<1>9. s = Ranked(S, R)  BY <1>1, <1>4, <1>8, RankedUnique
<1> QED  BY <1>6, <1>7, <1>9

(* Where a list has members of a set.                                      *)
PlacesOf(s, keep) == {i \in DOMAIN s : s[i] \in keep}

\* What is filtered out of a list is as long as there are places for it, and
\* holds what the list does of the set.
LEMMA FilteredList ==
  ASSUME NEW X, NEW s \in Seq(X), NEW keep
  PROVE  /\ Filtered(s, keep) \in Seq(X \cap keep)
         /\ Len(Filtered(s, keep)) = Cardinality(PlacesOf(s, keep))
         /\ Elements(Filtered(s, keep)) = Elements(s) \cap keep
<1> DEFINE D == {i \in DOMAIN s : s[i] \in keep}
           c == Ascending(D)
<1>1. DOMAIN s = 1..Len(s) /\ Len(s) \in Nat /\ \A i \in DOMAIN s : s[i] \in X  OBVIOUS
<1>2. D \in SUBSET Nat /\ IsFiniteSet(D)
  <2>1. IsFiniteSet(1..Len(s))  BY <1>1, FS_Interval
  <2>2. D \in SUBSET (1..Len(s))  BY <1>1
  <2> QED  BY <2>1, <2>2, FS_Subset
<1>3. Filtered(s, keep) = AtPlaces(s, c)  BY DEF Filtered, Ordered, Ascending
<1>4. \A i \in D : i \in DOMAIN s /\ s[i] \in X \cap keep  BY <1>1
<1>5. \A i \in DOMAIN s : s[i] \in keep => i \in D  OBVIOUS
<1> HIDE DEF D
<1>6. c \in Seq(D) /\ Elements(c) = D /\ Len(c) = Cardinality(D)  BY <1>2, AscendingList
<1> HIDE DEF c
<1>7. DOMAIN c = 1..Len(c) /\ Len(c) \in Nat /\ \A k \in DOMAIN c : c[k] \in D  BY <1>6
<1>8. AtPlaces(s, c) \in Seq(X \cap keep) /\ Len(AtPlaces(s, c)) = Len(c)
  BY <1>4, <1>7 DEF AtPlaces
<1>9. Elements(AtPlaces(s, c)) = Elements(s) \cap keep
  <2>1. ASSUME NEW x \in Elements(AtPlaces(s, c))  PROVE x \in Elements(s) \cap keep
    <3>1. PICK k \in DOMAIN c : x = s[c[k]]  BY DEF Elements, AtPlaces
    <3> QED  BY <3>1, <1>4, <1>7 DEF Elements
  <2>2. ASSUME NEW x \in Elements(s), x \in keep  PROVE x \in Elements(AtPlaces(s, c))
    <3>1. PICK i \in DOMAIN s : x = s[i]  BY DEF Elements
    <3>2. i \in Elements(c)  BY <1>5, <1>6, <2>2, <3>1
    <3>3. PICK k \in DOMAIN c : c[k] = i  BY <3>2 DEF Elements
    <3>4. DOMAIN AtPlaces(s, c) = DOMAIN c /\ AtPlaces(s, c)[k] = x
      BY <3>1, <3>3 DEF AtPlaces
    <3> QED  BY <3>3, <3>4 DEF Elements
  <2> QED  BY <2>1, <2>2
<1>10. D = PlacesOf(s, keep)  BY DEF D, PlacesOf
<1> QED  BY <1>3, <1>6, <1>8, <1>9, <1>10

\* A list of which all is kept stays as it is.
LEMMA FilteredAll ==
  ASSUME NEW X, NEW s \in Seq(X), NEW keep, Elements(s) \subseteq keep
  PROVE  Filtered(s, keep) = s
<1> DEFINE n == Len(s)
           f == [i \in 1..n |-> i]
<1>1. n \in Nat  OBVIOUS
<1>2. s = [i \in 1..n |-> s[i]] /\ DOMAIN s = 1..n  OBVIOUS
<1>3. {i \in DOMAIN s : s[i] \in keep} = 1..n  BY <1>2 DEF Elements
<1>4. Filtered(s, keep) = AtPlaces(s, Ascending(1..n))
  BY <1>3 DEF Filtered, Ordered, Ascending
<1> HIDE DEF n
<1>5. f \in Seq(Nat) /\ DOMAIN f = 1..n /\ \A i \in 1..n : f[i] = i  BY <1>1
<1> HIDE DEF f
<1>6. \A i, j \in DOMAIN f : i < j => f[i] < f[j]  BY <1>5
<1>7. Elements(f) = 1..n  BY <1>5 DEF Elements
<1>8. f = Ascending(1..n)  BY <1>5, <1>6, <1>7, AscendingUnique
<1>9. AtPlaces(s, f) = [i \in 1..n |-> s[i]]  BY <1>5 DEF AtPlaces
<1> QED  BY <1>2, <1>4, <1>8, <1>9

-----------------------------------------------------------------------------
(* Splitting and joining.                                                  *)

(* Where the parts of a list begin, less one, and where they end.          *)
Cuts(s, separator) == Ascending({0} \cup {i \in DOMAIN s : s[i] = separator})

CutEnd(s, separator, k) ==
  IF k = Len(Cuts(s, separator)) THEN Len(s) + 1 ELSE Cuts(s, separator)[k + 1]

\* The cuts of a list are zero and the places of the separator, in turn.
LEMMA CutPlaces ==
  ASSUME NEW S, NEW s \in Seq(S), NEW separator
  PROVE  LET c == Cuts(s, separator)
         IN  /\ c \in Seq(Nat) /\ Len(c) \in Nat \ {0} /\ c[1] = 0
             /\ \A i, j \in DOMAIN c : i < j => c[i] < c[j]
             /\ Elements(c) = {0} \cup {i \in DOMAIN s : s[i] = separator}
             /\ \A k \in DOMAIN c : c[k] \in 0..Len(s)
             /\ \A k \in DOMAIN c : k # 1 => c[k] \in DOMAIN s /\ s[c[k]] = separator
<1> DEFINE D == {0} \cup {i \in DOMAIN s : s[i] = separator}
           c == Ascending(D)
<1>1. Len(s) \in Nat  OBVIOUS
<1>2. D \in SUBSET Nat /\ IsFiniteSet(D) /\ 0 \in D /\ D \in SUBSET (0..Len(s))
  <2>1. D \in SUBSET (0..Len(s)) /\ D \in SUBSET Nat /\ 0 \in D  BY <1>1
  <2> HIDE DEF D
  <2>2. IsFiniteSet(0..Len(s))  BY <1>1, FS_Interval
  <2>3. IsFiniteSet(D)  BY <2>1, <2>2, FS_Subset
  <2> QED  BY <2>1, <2>3
<1>3. \A x \in D : x = 0 \/ (x \in DOMAIN s /\ s[x] = separator)  OBVIOUS
<1> HIDE DEF D
<1>4. /\ c \in Seq(D) /\ Elements(c) = D
      /\ \A i, j \in DOMAIN c : i < j => c[i] < c[j]
  BY <1>2, AscendingList
<1> HIDE DEF c
<1>5. /\ Len(c) \in Nat /\ \A k \in DOMAIN c : c[k] \in D
      /\ c \in Seq(Nat)
  <2>1. Len(c) \in Nat /\ \A k \in DOMAIN c : c[k] \in D  BY <1>4
  <2>2. \A k \in 1..Len(c) : c[k] \in Nat
    <3>1. \A x \in D : x \in Nat  BY <1>2
    <3> QED  BY <3>1, <1>4
  <2>3. c = [k \in 1..Len(c) |-> c[k]]  BY <1>4
  <2>4. c \in Seq(Nat)  BY <2>1, <2>2, <2>3
  <2> QED  BY <2>1, <2>4
<1>6. PICK z \in DOMAIN c : c[z] = 0  BY <1>2, <1>4 DEF Elements
<1>7. Len(c) # 0 /\ 1 \in DOMAIN c  BY <1>5, <1>6
<1>8. c[1] = 0
  <2>1. c[1] \in Nat  BY <1>2, <1>5, <1>7
  <2>2. z # 1 => c[1] < c[z]  BY <1>4, <1>5, <1>6, <1>7
  <2> QED  BY <2>1, <2>2, <1>6
<1>9. \A k \in DOMAIN c : k # 1 => c[k] # 0
  <2> SUFFICES ASSUME NEW k \in DOMAIN c, k # 1  PROVE c[k] # 0
    OBVIOUS
  <2>1. 1 < k  BY <1>5
  <2> QED  BY <2>1, <1>4, <1>7, <1>8
<1>10. \A k \in DOMAIN c : c[k] \in 0..Len(s)  BY <1>2, <1>5
<1>11. \A k \in DOMAIN c : k # 1 => c[k] \in DOMAIN s /\ s[c[k]] = separator
  BY <1>3, <1>5, <1>9
<1>12. Cuts(s, separator) = c  BY DEF Cuts, c, D
<1> QED  BY <1>4, <1>5, <1>7, <1>8, <1>10, <1>11, <1>12 DEF D

(* The parts of a list are what lies between the cuts, without separators. *)
Between(S, s, separator) ==
  LET c == Cuts(s, separator)
      e(k) == CutEnd(s, separator, k)
      p == Parts(s, separator)
  IN  /\ DOMAIN p = DOMAIN c /\ Len(p) = Len(c) /\ p \in Seq(Seq(S \ {separator}))
      /\ \A k \in DOMAIN c :
           /\ e(k) \in (c[k] + 1)..(Len(s) + 1) /\ Len(p[k]) = e(k) - c[k] - 1
           /\ \A i \in DOMAIN p[k] : c[k] + i \in DOMAIN s /\ p[k][i] = s[c[k] + i]
      /\ \A x \in DOMAIN s : s[x] # separator =>
           \E k \in DOMAIN c : x \in (c[k] + 1)..(e(k) - 1)

\* That is what the parts of a list are.
LEMMA PartsBetween ==
  ASSUME NEW S, NEW s \in Seq(S), NEW separator
  PROVE  Between(S, s, separator)
<1> DEFINE c == Cuts(s, separator)
           e(k) == CutEnd(s, separator, k)
           p == Parts(s, separator)
<1>1. /\ c \in Seq(Nat) /\ Len(c) \in Nat \ {0} /\ c[1] = 0
      /\ \A i, j \in DOMAIN c : i < j => c[i] < c[j]
      /\ Elements(c) = {0} \cup {i \in DOMAIN s : s[i] = separator}
      /\ \A k \in DOMAIN c : c[k] \in 0..Len(s)
  BY CutPlaces
<1>2. /\ Len(s) \in Nat
      /\ \A k : k \in DOMAIN c <=> k \in 1..Len(c)
      /\ \A x : x \in DOMAIN s <=> x \in 1..Len(s)
  <2> HIDE DEF c
  <2> QED  BY <1>1
<1>3. p = [k \in DOMAIN c |-> SubSeq(s, c[k] + 1, IF k = Len(c) THEN Len(s) ELSE c[k + 1] - 1)]
  BY DEF Parts, Cuts, Ordered, Ascending
<1>4. \A k : e(k) = IF k = Len(c) THEN Len(s) + 1 ELSE c[k + 1]  BY DEF CutEnd
<1> HIDE DEF c, e, p
<1>5. \A k \in DOMAIN c : p[k] = SubSeq(s, c[k] + 1, e(k) - 1) /\ e(k) \in (c[k] + 1)..(Len(s) + 1)
  <2> TAKE k \in DOMAIN c
  <2>1. CASE k = Len(c)
    <3>1. (Len(s) + 1) - 1 = Len(s) /\ c[k] \in 0..Len(s)  BY <1>1, <1>2
    <3> QED  BY <2>1, <3>1, <1>2, <1>3, <1>4
  <2>2. CASE k # Len(c)
    <3>1. k + 1 \in DOMAIN c /\ k < k + 1  BY <2>2, <1>1, <1>2
    <3>2. c[k] < c[k + 1] /\ c[k] \in 0..Len(s) /\ c[k + 1] \in 0..Len(s)
      BY <3>1, <1>1
    <3>3. e(k) = c[k + 1] /\ p[k] = SubSeq(s, c[k] + 1, c[k + 1] - 1)
      BY <2>2, <1>3, <1>4
    <3> QED  BY <3>2, <3>3
  <2> QED  BY <2>1, <2>2
<1>6. ASSUME NEW k \in DOMAIN c, NEW x \in (c[k] + 1)..(e(k) - 1)
      PROVE  x \in DOMAIN s /\ s[x] \in S \ {separator}
  <2>1. x \in DOMAIN s /\ x \in Nat \ {0} /\ c[k] \in Nat /\ e(k) \in Nat
        /\ c[k] < x /\ x < e(k)
    <3>1. c[k] \in 0..Len(s) /\ e(k) \in (c[k] + 1)..(Len(s) + 1)  BY <1>1, <1>5
    <3>2. x \in 1..Len(s) /\ c[k] \in Nat /\ e(k) \in Nat /\ c[k] < x /\ x < e(k)
      BY <3>1
    <3> QED  BY <3>2, <1>2
  <2>2. s[x] \in S  BY <2>1
  <2>3. ASSUME s[x] = separator  PROVE FALSE
    <3>1. x \in Elements(c)  BY <2>1, <2>3, <1>1
    <3>2. PICK j \in DOMAIN c : c[j] = x  BY <3>1 DEF Elements
    <3>3. k < j
      <4>1. j # k  BY <2>1, <3>2
      <4>2. ~ (j < k)  BY <2>1, <3>2, <1>1
      <4> QED  BY <4>1, <4>2, <1>2
    <3>4. k # Len(c) /\ k + 1 \in DOMAIN c /\ (k + 1 = j \/ k + 1 < j)
      BY <3>3, <1>1, <1>2
    <3>5. e(k) = c[k + 1]  BY <3>4, <1>4
    <3>6. k + 1 < j => c[k + 1] < c[j]  BY <3>4, <1>1
    <3> QED  BY <2>1, <3>2, <3>4, <3>5, <3>6
  <2> QED  BY <2>1, <2>2, <2>3
<1>7. ASSUME NEW k \in DOMAIN c
      PROVE  /\ p[k] \in Seq(S \ {separator}) /\ Len(p[k]) = e(k) - c[k] - 1
             /\ \A i \in DOMAIN p[k] : c[k] + i \in DOMAIN s /\ p[k][i] = s[c[k] + i]
  <2> DEFINE a == c[k]
             b == e(k)
             t == SubSeq(s, a + 1, b - 1)
  <2>1. a \in 0..Len(s) /\ b \in (a + 1)..(Len(s) + 1)  BY <1>1, <1>5
  <2>2. \A x \in (a + 1)..(b - 1) : x \in DOMAIN s /\ s[x] \in S \ {separator}  BY <1>6
  <2>3. p[k] = t  BY <1>5
  <2> HIDE DEF a, b
  <2>4. Len(t) = b - a - 1 /\ DOMAIN t = 1..(b - a - 1) /\ t \in Seq(S)
        /\ \A i \in 1..(b - a - 1) : t[i] = s[a + i]
    BY <2>1
  <2>5. \A i \in 1..(b - a - 1) : a + i \in (a + 1)..(b - 1)  BY <2>1, <1>2
  <2>6. \A i \in 1..(b - a - 1) : t[i] \in S \ {separator} /\ a + i \in DOMAIN s
    BY <2>2, <2>4, <2>5
  <2>7. b - a - 1 \in Nat  BY <2>1, <1>2
  <2>8. t \in Seq(S \ {separator})
    <3>1. t = [i \in 1..(b - a - 1) |-> t[i]]  BY <2>4
    <3> HIDE DEF t
    <3> QED  BY <2>6, <2>7, <3>1
  <2> QED  BY <2>3, <2>4, <2>6, <2>8 DEF a, b
<1>8. DOMAIN p = DOMAIN c /\ p \in Seq(Seq(S \ {separator})) /\ Len(p) = Len(c)
  <2>1. DOMAIN p = DOMAIN c /\ p = [k \in DOMAIN c |-> p[k]]  BY <1>3
  <2>2. DOMAIN c = 1..Len(c) /\ Len(c) \in Nat  BY <1>1
  <2>3. p = [k \in 1..Len(c) |-> p[k]] /\ \A k \in 1..Len(c) : p[k] \in Seq(S \ {separator})
    BY <2>1, <2>2, <1>7
  <2> QED  BY <2>1, <2>2, <2>3
<1>9. ASSUME NEW x \in DOMAIN s, s[x] # separator
      PROVE  \E k \in DOMAIN c : x \in (c[k] + 1)..(e(k) - 1)
  <2> DEFINE B == {k \in 1..Len(c) : c[k] < x}
             n == Cardinality(B)
  <2>1. x \in Nat \ {0} /\ x <= Len(s)  BY <1>2
  <2>2. ASSUME NEW i \in B, NEW j \in 1..i  PROVE j \in B
    <3>1. i \in DOMAIN c /\ j \in DOMAIN c /\ c[i] < x /\ c[j] \in Nat /\ c[i] \in Nat
      BY <1>1, <1>2
    <3>2. j = i \/ j < i  BY <3>1, <1>2
    <3>3. j < i => c[j] < c[i]  BY <3>1, <1>1
    <3> QED  BY <2>1, <3>1, <3>2, <3>3, <1>2
  <2>3. n \in 0..Len(c) /\ B = 1..n
    <3>1. B \in SUBSET (1..Len(c)) /\ Len(c) \in Nat  BY <1>1
    <3> HIDE DEF B
    <3> QED  BY <2>2, <3>1, Beginning
  <2>4. 1 \in B  BY <2>1, <1>1
  <2> HIDE DEF n
  <2>5. n \in DOMAIN c /\ c[n] < x
    <3>1. n \in 1..n /\ n \in 1..Len(c)
      <4> HIDE DEF B
      <4>1. 1 \in 1..n /\ n \in 0..Len(c) /\ Len(c) \in Nat  BY <2>3, <2>4, <1>1
      <4> QED  BY <4>1
    <3> QED  BY <2>3, <3>1, <1>2
  <2>6. x < e(n)
    <3>1. CASE n = Len(c)  BY <3>1, <2>1, <1>2, <1>4
    <3>2. CASE n # Len(c)
      <4>1. n + 1 \in DOMAIN c /\ n + 1 \notin B  BY <2>3, <3>2, <1>1, <1>2
      <4>2. ~ (c[n + 1] < x) /\ c[n + 1] \in Nat  BY <4>1, <1>1, <1>2
      <4>3. c[n + 1] # x
        <5>1. c[n + 1] \in Elements(c)  BY <4>1 DEF Elements
        <5> QED  BY <5>1, <1>1, <1>9, <2>1
      <4> QED  BY <2>1, <3>2, <4>2, <4>3, <1>4
    <3> QED  BY <3>1, <3>2
  <2>7. c[n] \in Nat /\ e(n) \in Nat  BY <2>5, <1>1, <1>5
  <2>8. x \in (c[n] + 1)..(e(n) - 1)  BY <2>1, <2>5, <2>6, <2>7
  <2> QED  BY <2>5, <2>8
<1> QED  BY <1>5, <1>7, <1>8, <1>9 DEF Between, c, e, p

(* No longer than another list, and the same as far as it goes.            *)
Begins(s, t) == Len(s) <= Len(t) /\ \A i \in 1..Len(s) : s[i] = t[i]

\* A list begins another one when it is no longer and agrees with it.
LEMMA PrefixAgrees ==
  ASSUME NEW X, NEW s \in Seq(X), NEW t \in Seq(X)
  PROVE  IsPrefix(s, t) <=> Begins(s, t)
<1> DEFINE a == SubSeq(s, 1, Len(s))
           b == SubSeq(t, 1, Len(s))
<1>1. SUFFICES ASSUME Len(s) <= Len(t)
               PROVE  a = b <=> \A i \in 1..Len(s) : s[i] = t[i]
  BY DEF IsPrefix, Begins
<1>2. Len(s) \in Nat /\ Len(t) \in Nat  OBVIOUS
<1>3. /\ DOMAIN a = 1..Len(s) /\ \A i \in 1..Len(s) : a[i] = s[i]
      /\ DOMAIN b = 1..Len(s) /\ \A i \in 1..Len(s) : b[i] = t[i]
  BY <1>1, <1>2
<1>4. a \in Seq(X) /\ b \in Seq(X)  BY <1>1, <1>2
<1> HIDE DEF a, b
<1>5. a = [i \in DOMAIN a |-> a[i]] /\ b = [i \in DOMAIN b |-> b[i]]  BY <1>4
<1>6. ASSUME \A i \in 1..Len(s) : s[i] = t[i]  PROVE a = b
  <2>1. \A i \in 1..Len(s) : a[i] = b[i]  BY <1>3, <1>6
  <2> QED  BY <2>1, <1>3, <1>5
<1> QED  BY <1>3, <1>6

\* Parts that begin those of another list are those of the same list or of one
\* that the other begins with, before a separator.
LEMMA PartsPrefix ==
  ASSUME NEW S, NEW separator \in S, NEW p \in Seq(S), NEW q \in Seq(S)
  PROVE  IsPrefix(Parts(p, separator), Parts(q, separator))
           <=> q = p \/ IsPrefix(Append(p, separator), q)
<1> DEFINE P == Parts(p, separator)
           Q == Parts(q, separator)
           c == Cuts(p, separator)
           d == Cuts(q, separator)
           e(k) == CutEnd(p, separator, k)
           h(k) == CutEnd(q, separator, k)
           m == Len(c)
<1>1. /\ c \in Seq(Nat) /\ m \in Nat \ {0} /\ c[1] = 0
      /\ \A i, j \in DOMAIN c : i < j => c[i] < c[j]
      /\ Elements(c) = {0} \cup {i \in DOMAIN p : p[i] = separator}
      /\ \A k \in DOMAIN c : c[k] \in 0..Len(p)
      /\ \A k \in DOMAIN c : k # 1 => c[k] \in DOMAIN p /\ p[c[k]] = separator
  BY CutPlaces
<1>2. /\ d \in Seq(Nat) /\ Len(d) \in Nat \ {0} /\ d[1] = 0
      /\ \A i, j \in DOMAIN d : i < j => d[i] < d[j]
      /\ Elements(d) = {0} \cup {i \in DOMAIN q : q[i] = separator}
      /\ \A k \in DOMAIN d : d[k] \in 0..Len(q)
      /\ \A k \in DOMAIN d : k # 1 => d[k] \in DOMAIN q /\ q[d[k]] = separator
  BY CutPlaces
<1>3. /\ DOMAIN P = DOMAIN c /\ Len(P) = m /\ P \in Seq(Seq(S \ {separator}))
      /\ \A k \in DOMAIN c :
           /\ e(k) \in (c[k] + 1)..(Len(p) + 1) /\ Len(P[k]) = e(k) - c[k] - 1
           /\ \A i \in DOMAIN P[k] : c[k] + i \in DOMAIN p /\ P[k][i] = p[c[k] + i]
      /\ \A x \in DOMAIN p : p[x] # separator =>
           \E k \in DOMAIN c : x \in (c[k] + 1)..(e(k) - 1)
  <2>1. Between(S, p, separator)  BY PartsBetween
  <2> QED  BY <2>1, Zenon DEF Between
<1>4. /\ DOMAIN Q = DOMAIN d /\ Len(Q) = Len(d) /\ Q \in Seq(Seq(S \ {separator}))
      /\ \A k \in DOMAIN d :
           /\ h(k) \in (d[k] + 1)..(Len(q) + 1) /\ Len(Q[k]) = h(k) - d[k] - 1
           /\ \A i \in DOMAIN Q[k] : d[k] + i \in DOMAIN q /\ Q[k][i] = q[d[k] + i]
  <2>1. Between(S, q, separator)  BY PartsBetween
  <2> QED  BY <2>1, Zenon DEF Between
<1>5. /\ \A k : e(k) = IF k = m THEN Len(p) + 1 ELSE c[k + 1]
      /\ \A k : h(k) = IF k = Len(d) THEN Len(q) + 1 ELSE d[k + 1]
  BY DEF CutEnd
<1>6. /\ Len(p) \in Nat /\ Len(q) \in Nat
      /\ p = [i \in 1..Len(p) |-> p[i]] /\ q = [i \in 1..Len(q) |-> q[i]]
  OBVIOUS
<1>7. IsPrefix(P, Q) <=> m <= Len(d) /\ \A k \in 1..m : P[k] = Q[k]
  <2>1. /\ P \in Seq(Seq(S \ {separator})) /\ Len(P) = m
        /\ Q \in Seq(Seq(S \ {separator})) /\ Len(Q) = Len(d)
    BY <1>3, <1>4
  <2> HIDE DEF P, Q, c, d
  <2>2. IsPrefix(P, Q) <=> Begins(P, Q)  BY <2>1, PrefixAgrees
  <2> QED  BY <2>1, <2>2 DEF Begins
<1>8. IsPrefix(Append(p, separator), q)
        <=> /\ Len(p) + 1 <= Len(q) /\ q[Len(p) + 1] = separator
            /\ \A x \in 1..Len(p) : p[x] = q[x]
  <2> DEFINE a == Append(p, separator)
  <2>1. /\ a \in Seq(S) /\ Len(a) = Len(p) + 1 /\ a[Len(p) + 1] = separator
        /\ \A x \in 1..Len(p) : a[x] = p[x]
    BY <1>6
  <2> HIDE DEF a
  <2>2. IsPrefix(a, q) <=> Len(a) <= Len(q) /\ \A i \in 1..Len(a) : a[i] = q[i]
    <3>1. IsPrefix(a, q) <=> Begins(a, q)  BY <2>1, PrefixAgrees
    <3> QED  BY <3>1 DEF Begins
  <2>3. (\A i \in 1..(Len(p) + 1) : a[i] = q[i])
          <=> a[Len(p) + 1] = q[Len(p) + 1] /\ \A x \in 1..Len(p) : a[x] = q[x]
    <3>1. 1..(Len(p) + 1) = (1..Len(p)) \cup {Len(p) + 1}  BY <1>6
    <3> HIDE DEF m, c, d
    <3> QED  BY <3>1
  <2>4. (\A i \in 1..Len(a) : a[i] = q[i])
          <=> q[Len(p) + 1] = separator /\ \A x \in 1..Len(p) : p[x] = q[x]
    BY <2>1, <2>3
  <2> QED  BY <2>1, <2>2, <2>4 DEF a
<1> HIDE DEF P, Q, c, d, e, h
<1>9. ASSUME IsPrefix(Append(p, separator), q)
      PROVE  IsPrefix(P, Q)
  <2>1. /\ Len(p) + 1 <= Len(q) /\ q[Len(p) + 1] = separator
        /\ \A x \in 1..Len(p) : p[x] = q[x]
    BY <1>8, <1>9
  <2> DEFINE B == {k \in 1..Len(d) : d[k] <= Len(p)}
             b == Cardinality(B)
             f == [k \in 1..b |-> d[k]]
  <2>2. ASSUME NEW i \in B, NEW j \in 1..i  PROVE j \in B
    <3>1. i \in DOMAIN d /\ j \in DOMAIN d /\ d[i] <= Len(p) /\ d[j] \in Nat /\ d[i] \in Nat
      BY <1>2
    <3>2. j = i \/ j < i  BY <3>1, <1>2
    <3>3. j < i => d[j] < d[i]  BY <3>1, <1>2
    <3> QED  BY <3>1, <3>2, <3>3, <1>2, <1>6
  <2>3. b \in 0..Len(d) /\ B = 1..b
    <3>1. B \in SUBSET (1..Len(d)) /\ Len(d) \in Nat  BY <1>2
    <3> HIDE DEF B
    <3> QED  BY <2>2, <3>1, Beginning
  <2>4. \A k \in 1..b : k \in DOMAIN d /\ d[k] \in 0..Len(p)
    <3> TAKE k \in 1..b
    <3>1. k \in B  BY <2>3
    <3>2. k \in 1..Len(d) /\ d[k] <= Len(p)  BY <3>1
    <3> QED  BY <3>2, <1>2, <1>6
  <2>5. \A k \in DOMAIN d : d[k] <= Len(p) => k \in 1..b
    <3>1. \A k \in DOMAIN d : d[k] <= Len(p) => k \in B  BY <1>2
    <3> QED  BY <2>3, <3>1
  <2> HIDE DEF B, b
  <2>6. f \in Seq(Nat) /\ Len(f) = b /\ DOMAIN f = 1..b /\ \A k \in 1..b : f[k] = d[k]
    <3>1. b \in Nat  BY <2>3, <1>2
    <3> QED  BY <2>4, <3>1, <1>2
  <2> HIDE DEF f
  <2>7. \A i, j \in DOMAIN f : i < j => f[i] < f[j]  BY <2>4, <2>6, <1>2
  <2>8. Elements(f) = Elements(c)
    <3>1. ASSUME NEW k \in 1..b  PROVE d[k] \in Elements(c)
      <4>1. d[k] \in Elements(d) /\ d[k] \in 0..Len(p)  BY <2>4 DEF Elements
      <4>2. d[k] = 0 \/ (d[k] \in DOMAIN q /\ q[d[k]] = separator)  BY <4>1, <1>2
      <4>3. d[k] # 0 => d[k] \in 1..Len(p)  BY <4>1, <1>6
      <4>4. d[k] = 0 \/ (d[k] \in DOMAIN p /\ p[d[k]] = separator)
        BY <4>2, <4>3, <2>1, <1>6
      <4> QED  BY <4>4, <1>1
    <3>2. ASSUME NEW x \in Elements(c)  PROVE \E k \in 1..b : d[k] = x
      <4>1. x = 0 \/ (x \in DOMAIN p /\ p[x] = separator)  BY <1>1
      <4>2. x = 0 \/ (x \in DOMAIN q /\ q[x] = separator)  BY <4>1, <2>1, <1>6
      <4>3. x \in Elements(d)  BY <4>2, <1>2
      <4>4. PICK k \in DOMAIN d : d[k] = x  BY <4>3 DEF Elements
      <4>5. x <= Len(p)  BY <4>1, <1>6
      <4> QED  BY <4>4, <4>5, <2>5
    <3>3. \A x \in Elements(f) : x \in Elements(c)
      BY <3>1, <2>6 DEF Elements
    <3>4. \A x \in Elements(c) : x \in Elements(f)
      <4> TAKE x \in Elements(c)
      <4>1. PICK k \in 1..b : d[k] = x  BY <3>2
      <4> QED  BY <4>1, <2>6 DEF Elements
    <3> QED  BY <3>3, <3>4
  <2>9. f = c
    <3>1. f = Ascending(Elements(f)) /\ c = Ascending(Elements(c))
      BY <2>6, <2>7, <1>1, AscendingUnique
    <3> QED  BY <2>8, <3>1
  <2>10. b = m /\ \A k \in 1..m : d[k] = c[k] /\ k \in DOMAIN d
    <3>1. b = m  BY <2>6, <2>9
    <3> QED  BY <3>1, <2>4, <2>6, <2>9
  <2>11. m + 1 \in DOMAIN d /\ d[m + 1] = Len(p) + 1
    <3>1. Len(p) + 1 \in DOMAIN q  BY <2>1, <1>6
    <3>2. Len(p) + 1 \in Elements(d)  BY <3>1, <2>1, <1>2
    <3>3. PICK j \in DOMAIN d : d[j] = Len(p) + 1  BY <3>2 DEF Elements
    <3>4. j > m
      <4>1. j \notin 1..b  BY <3>3, <2>4, <1>6
      <4> QED  BY <4>1, <2>10, <1>1, <1>2
    <3>5. m + 1 \in DOMAIN d /\ m + 1 \notin 1..b  BY <3>4, <2>10, <1>1, <1>2
    <3>6. ~ (d[m + 1] <= Len(p)) /\ d[m + 1] \in Nat  BY <3>5, <2>5, <1>2
    <3>7. m + 1 < j => d[m + 1] < d[j]  BY <3>5, <1>2
    <3>8. ~ (m + 1 < j)  BY <3>3, <3>6, <3>7, <1>6
    <3>9. m + 1 = j  BY <3>4, <3>8, <1>1, <1>2
    <3> QED  BY <3>3, <3>9
  <2>12. ASSUME NEW k \in 1..m  PROVE P[k] = Q[k]
    <3>1. k \in DOMAIN c /\ k \in DOMAIN d /\ d[k] = c[k] /\ k # Len(d)
      BY <2>10, <2>11, <1>1, <1>2
    <3>2. h(k) = d[k + 1]  BY <3>1, <1>5
    <3>3. e(k) = d[k + 1]
      <4>1. CASE k = m  BY <4>1, <2>11, <1>5
      <4>2. CASE k # m
        <5>1. k + 1 \in 1..m  BY <4>2, <1>1
        <5> QED  BY <4>2, <5>1, <2>10, <1>5
      <4> QED  BY <4>1, <4>2
    <3>4. P[k] \in Seq(S \ {separator}) /\ Q[k] \in Seq(S \ {separator})
      BY <3>1, <1>3, <1>4
    <3>5. Len(P[k]) = Len(Q[k])  BY <3>1, <3>2, <3>3, <1>3, <1>4
    <3>6. \A i \in 1..Len(P[k]) : P[k][i] = Q[k][i]
      <4> TAKE i \in 1..Len(P[k])
      <4>1. i \in DOMAIN P[k] /\ i \in DOMAIN Q[k]  BY <3>4, <3>5
      <4>2. c[k] + i \in DOMAIN p /\ P[k][i] = p[c[k] + i]  BY <3>1, <4>1, <1>3
      <4>3. Q[k][i] = q[c[k] + i]  BY <3>1, <4>1, <1>4
      <4> QED  BY <4>2, <4>3, <2>1, <1>6
    <3>7. /\ P[k] = [i \in 1..Len(P[k]) |-> P[k][i]]
          /\ Q[k] = [i \in 1..Len(Q[k]) |-> Q[k][i]]
      <4>1. \A t \in Seq(S \ {separator}) : t = [i \in 1..Len(t) |-> t[i]]  OBVIOUS
      <4> QED  BY <3>4, <4>1
    <3> QED  BY <3>5, <3>6, <3>7
  <2>13. m <= Len(d)  BY <2>11, <1>1, <1>2
  <2> QED  BY <2>12, <2>13, <1>7
<1>10. ASSUME q = p  PROVE IsPrefix(P, Q)
  <2>1. c = d /\ P = Q  BY <1>10 DEF c, d, P, Q
  <2>2. m <= Len(d)  BY <2>1, <1>1
  <2> QED  BY <2>1, <2>2, <1>7
<1>11. ASSUME IsPrefix(P, Q)
       PROVE  q = p \/ IsPrefix(Append(p, separator), q)
  <2>1. m <= Len(d) /\ \A k \in 1..m : P[k] = Q[k] /\ k \in DOMAIN d /\ k \in DOMAIN c
    BY <1>1, <1>2, <1>7, <1>11
  <2>2. ASSUME NEW k \in 1..m, d[k] = c[k]  PROVE h(k) = e(k)
    <3>1. Len(P[k]) = e(k) - c[k] - 1 /\ Len(Q[k]) = h(k) - d[k] - 1
          /\ e(k) \in Int /\ h(k) \in Int /\ c[k] \in Int
      <4>1. k \in DOMAIN c /\ k \in DOMAIN d  BY <2>1
      <4>2. e(k) \in (c[k] + 1)..(Len(p) + 1) /\ Len(P[k]) = e(k) - c[k] - 1  BY <4>1, <1>3
      <4>3. h(k) \in (d[k] + 1)..(Len(q) + 1) /\ Len(Q[k]) = h(k) - d[k] - 1  BY <4>1, <1>4
      <4>4. c[k] \in Int  BY <4>1, <1>1
      <4> HIDE DEF c, d, e, h, P, Q
      <4> QED  BY <4>2, <4>3, <4>4
    <3>2. P[k] = Q[k]  BY <2>1
    <3> QED  BY <2>2, <3>1, <3>2
  <2> DEFINE G == {k \in 0..(m - 1) : d[k + 1] = c[k + 1]}
  <2>3. 0..(m - 1) \subseteq G
    <3>1. 0 \in G  BY <1>1, <1>2
    <3>2. ASSUME NEW k \in 0..((m - 1) - 1), k \in G  PROVE k + 1 \in G
      <4>1. k + 1 \in 1..m /\ k + 1 # m /\ k + 1 # Len(d) /\ k + 1 \in 0..(m - 1)
        BY <2>1, <1>1, <1>2
      <4>2. d[k + 1] = c[k + 1]  BY <3>2
      <4>3. h(k + 1) = e(k + 1)  BY <4>1, <4>2, <2>2
      <4>4. h(k + 1) = d[(k + 1) + 1] /\ e(k + 1) = c[(k + 1) + 1]  BY <4>1, <1>5
      <4> QED  BY <4>1, <4>3, <4>4
    <3>3. m - 1 \in Nat  BY <1>1
    <3> HIDE DEF G, m
    <3> QED  BY <3>1, <3>2, <3>3, UpTo
  <2>4. \A k \in 1..m : d[k] = c[k] /\ h(k) = e(k)
    <3> TAKE k \in 1..m
    <3>1. k - 1 \in 0..(m - 1) /\ (k - 1) + 1 = k  BY <1>1
    <3>2. d[k] = c[k]
      <4>1. k - 1 \in G  BY <2>3, <3>1
      <4> QED  BY <3>1, <4>1
    <3> QED  BY <3>2, <2>2
  <2>5. m \in 1..m /\ h(m) = Len(p) + 1
    <3>1. m \in 1..m
      <4>1. m \in Nat \ {0}  BY <1>1
      <4> HIDE DEF m
      <4> QED  BY <4>1
    <3>2. e(m) = Len(p) + 1  BY <1>5
    <3> QED  BY <3>1, <3>2, <2>4
  <2>6. ASSUME NEW x \in 1..Len(p)  PROVE x \in DOMAIN q /\ q[x] = p[x]
    <3>1. CASE p[x] = separator
      <4>1. x \in Elements(c) /\ x # 0  BY <3>1, <1>1, <1>6
      <4>2. PICK k \in DOMAIN c : c[k] = x  BY <4>1 DEF Elements
      <4>3. k # 1  BY <4>1, <4>2, <1>1
      <4>4. k \in DOMAIN d /\ d[k] = x  BY <4>2, <2>1, <2>4, <1>1
      <4> QED  BY <3>1, <4>3, <4>4, <1>2
    <3>2. CASE p[x] # separator
      <4>1. PICK k \in DOMAIN c : x \in (c[k] + 1)..(e(k) - 1)  BY <3>2, <1>3, <1>6
      <4> DEFINE i == x - c[k]
      <4>2. k \in 1..m /\ c[k] \in Nat /\ e(k) \in Int /\ P[k] = Q[k] /\ d[k] = c[k]
            /\ P[k] \in Seq(S \ {separator}) /\ Len(P[k]) = e(k) - c[k] - 1
        <5>1. k \in 1..m /\ c[k] \in Nat  BY <1>1
        <5>2. P[k] = Q[k] /\ d[k] = c[k]  BY <5>1, <2>1, <2>4
        <5>3. e(k) \in (c[k] + 1)..(Len(p) + 1) /\ Len(P[k]) = e(k) - c[k] - 1  BY <1>3
        <5>4. P[k] \in Seq(S \ {separator})  BY <5>1, <1>3
        <5> HIDE DEF c, d, e, P, Q, m, i
        <5> QED  BY <5>1, <5>2, <5>3, <5>4
      <4>3. i \in 1..Len(P[k]) /\ c[k] + i = x  BY <4>1, <4>2
      <4>4. i \in DOMAIN P[k] /\ i \in DOMAIN Q[k]  BY <4>2, <4>3
      <4> HIDE DEF i
      <4>5. P[k][i] = p[x]  BY <4>1, <4>3, <4>4, <1>3
      <4>6. x \in DOMAIN q /\ Q[k][i] = q[x]  BY <4>2, <4>3, <4>4, <2>1, <1>4
      <4> QED  BY <4>2, <4>5, <4>6
    <3> QED  BY <3>1, <3>2
  <2>7. CASE m = Len(d)
    <3>1. Len(q) = Len(p)
      <4>1. h(m) = Len(q) + 1  BY <2>7, <1>5
      <4>2. Len(q) \in Nat /\ Len(p) \in Nat  OBVIOUS
      <4> QED  BY <4>1, <4>2, <2>5
    <3> QED  BY <3>1, <2>6, <1>6
  <2>8. CASE m # Len(d)
    <3>1. m + 1 \in DOMAIN d /\ m + 1 # 1  BY <2>1, <2>8, <1>1, <1>2
    <3>2. d[m + 1] = Len(p) + 1  BY <2>5, <2>8, <1>5
    <3>3. Len(p) + 1 \in DOMAIN q /\ q[Len(p) + 1] = separator  BY <3>1, <3>2, <1>2
    <3>4. Len(p) + 1 <= Len(q)  BY <3>3, <1>6
    <3> QED  BY <3>3, <3>4, <2>6, <1>8
  <2> QED  BY <2>7, <2>8
<1>12. IsPrefix(P, Q) <=> q = p \/ IsPrefix(Append(p, separator), q)
  BY <1>9, <1>10, <1>11
<1> QED  BY <1>12 DEF P, Q

(* The recursion of FlattenSeq.                                            *)
Flattening(seqs, f) ==
  f = [i \in 1..Len(seqs) |-> IF i = 1 THEN seqs[i] ELSE f[i - 1] \o seqs[i]]

\* Lists appended to each other are what some recursion has at the last one.
LEMMA FlattenUnfolded ==
  ASSUME NEW seqs
  PROVE  FlattenSeq(seqs) =
           IF Len(seqs) = 0 THEN seqs ELSE (CHOOSE f : Flattening(seqs, f))[Len(seqs)]
BY DEF FlattenSeq, Flattening

(* Where each of the lists ends in t.                                      *)
Laid(seqs, t, ends) ==
  /\ ends \in [0..Len(seqs) -> Nat] /\ ends[0] = 0 /\ ends[Len(seqs)] = Len(t)
  /\ \A k \in 1..Len(seqs) :
       /\ ends[k] = ends[k - 1] + Len(seqs[k])
       /\ \A i \in 1..Len(seqs[k]) : t[ends[k - 1] + i] = seqs[k][i]

\* Lists appended to each other lie behind each other.
LEMMA FlattenLays ==
  ASSUME NEW S, NEW seqs \in Seq(Seq(S))
  PROVE  FlattenSeq(seqs) \in Seq(S) /\ \E ends : Laid(seqs, FlattenSeq(seqs), ends)
<1> DEFINE n == Len(seqs)
           step == [i \in 1..n |-> [t \in Seq(S) |-> t \o seqs[i]]]
<1>1. n \in Nat /\ \A i \in 1..n : seqs[i] \in Seq(S)
  OBVIOUS
<1>2. \A i \in 1..n : step[i] \in [Seq(S) -> Seq(S)]
  <2>1. \A i \in 1..n : \A t \in Seq(S) : t \o seqs[i] \in Seq(S)  BY <1>1
  <2> QED  BY <2>1
<1>3. \A i \in 1..n : \A t \in Seq(S) : step[i][t] = t \o seqs[i]  OBVIOUS
<1>4. <<>> \in Seq(S)  OBVIOUS
<1> HIDE DEF step
<1>5. PICK f \in Turns(Seq(S), <<>>, step, n) : TRUE
  <2>1. PICK X : X = Seq(S)  OBVIOUS
  <2>2. n \in Nat /\ <<>> \in X /\ \A i \in 1..n : step[i] \in [X -> X]
    BY <2>1, <1>1, <1>2, <1>4
  <2> HIDE DEF n
  <2>3. Turns(X, <<>>, step, n) # {}  BY <2>2, Folded
  <2> QED  BY <2>1, <2>3
<1>6. f \in [0..n -> Seq(S)] /\ f[0] = <<>> /\ \A i \in 1..n : f[i] = step[i][f[i - 1]]
  BY <1>5 DEF Turns
<1>7. \A i \in 1..n : f[i] = f[i - 1] \o seqs[i] /\ f[i - 1] \in Seq(S) /\ f[i] \in Seq(S)
  <2> TAKE i \in 1..n
  <2>1. i - 1 \in 0..n /\ i \in 0..n  BY <1>1
  <2> QED  BY <2>1, <1>3, <1>6
<1>8. FlattenSeq(seqs) = f[n]
  <2>1. CASE n = 0
    <3>1. seqs = <<>>  BY <2>1
    <3> QED  BY <2>1, <3>1, <1>6, FlattenUnfolded
  <2>2. CASE n # 0
    <3> DEFINE g == [i \in 1..n |-> f[i]]
               it == CHOOSE h : Flattening(seqs, h)
    <3>1. Flattening(seqs, g)
      <4>1. ASSUME NEW i \in 1..n
            PROVE  g[i] = IF i = 1 THEN seqs[i] ELSE g[i - 1] \o seqs[i]
        <5>1. CASE i = 1
          <6>1. i - 1 = 0 /\ g[i] = f[i]  BY <5>1
          <6>2. f[i] = f[i - 1] \o seqs[i] /\ f[0] = <<>>  BY <1>6, <1>7
          <6>3. g[i] = <<>> \o seqs[i]  BY <6>1, <6>2
          <6> QED  BY <5>1, <6>3, <1>1
        <5>2. CASE i # 1
          <6>1. i - 1 \in 1..n  BY <5>2, <1>1
          <6> QED  BY <5>2, <6>1, <1>7
        <5> QED  BY <5>1, <5>2
      <4>2. g = [i \in 1..n |-> g[i]]  OBVIOUS
      <4> HIDE DEF g
      <4> QED  BY <4>1, <4>2 DEF Flattening
    <3>2. Flattening(seqs, it)  BY <3>1
    <3> HIDE DEF it
    <3>3. \A i \in 1..n : it[i] = IF i = 1 THEN seqs[i] ELSE it[i - 1] \o seqs[i]
      BY <3>2 DEF Flattening
    <3> DEFINE G == {k \in 0..(n - 1) : it[k + 1] = f[k + 1]}
    <3>4. 0..(n - 1) \subseteq G
      <4>1. 0 \in G
        <5>1. 1 \in 1..n /\ 1 - 1 = 0  BY <1>1, <2>2
        <5>2. it[1] = seqs[1]  BY <3>3, <5>1
        <5>3. f[1] = f[0] \o seqs[1]  BY <1>7, <5>1
        <5>4. f[1] = seqs[1]  BY <1>1, <1>6, <5>1, <5>3
        <5> QED  BY <5>2, <5>4, <1>1, <2>2
      <4>2. ASSUME NEW k \in 0..((n - 1) - 1), k \in G  PROVE k + 1 \in G
        <5>1. (k + 1) + 1 \in 1..n /\ (k + 1) + 1 # 1 /\ ((k + 1) + 1) - 1 = k + 1
              /\ k + 1 \in 0..(n - 1)
          BY <1>1
        <5>2. it[(k + 1) + 1] = it[k + 1] \o seqs[(k + 1) + 1]  BY <3>3, <5>1
        <5>3. f[(k + 1) + 1] = f[k + 1] \o seqs[(k + 1) + 1]  BY <1>7, <5>1
        <5> QED  BY <4>2, <5>1, <5>2, <5>3
      <4>3. n - 1 \in Nat  BY <1>1, <2>2
      <4> HIDE DEF G, n
      <4> QED  BY <4>1, <4>2, <4>3, UpTo
    <3>5. it[n] = f[n]
      <4>1. n - 1 \in 0..(n - 1) /\ (n - 1) + 1 = n  BY <1>1, <2>2
      <4>2. n - 1 \in G  BY <4>1, <3>4
      <4> QED  BY <4>1, <4>2
    <3> QED  BY <2>2, <3>5, FlattenUnfolded DEF it
  <2> QED  BY <2>1, <2>2
<1>9. ASSUME NEW k \in 1..n
      PROVE  /\ Len(f[k]) = Len(f[k - 1]) + Len(seqs[k])
             /\ \A i \in 1..Len(f[k - 1]) : i \in 1..Len(f[k]) /\ f[k][i] = f[k - 1][i]
             /\ \A i \in 1..Len(seqs[k]) :
                  Len(f[k - 1]) + i \in 1..Len(f[k]) /\ f[k][Len(f[k - 1]) + i] = seqs[k][i]
  <2> DEFINE a == f[k - 1]
             b == seqs[k]
  <2>1. f[k] = a \o b /\ a \in Seq(S) /\ b \in Seq(S)  BY <1>1, <1>7
  <2> HIDE DEF a, b
  <2>2. /\ Len(a \o b) = Len(a) + Len(b)
        /\ \A i \in 1..Len(a) : i \in 1..Len(a \o b) /\ (a \o b)[i] = a[i]
        /\ \A i \in 1..Len(b) : Len(a) + i \in 1..Len(a \o b) /\ (a \o b)[Len(a) + i] = b[i]
    BY <2>1
  <2> QED  BY <2>1, <2>2 DEF a, b
<1> DEFINE H == {k \in 0..n : \A i \in 1..Len(f[n - k]) :
                                i \in 1..Len(f[n]) /\ f[n][i] = f[n - k][i]}
<1>10. 0..n \subseteq H
  <2>1. 0 \in H  BY <1>1
  <2>2. ASSUME NEW k \in 0..(n - 1), k \in H  PROVE k + 1 \in H
    <3>1. n - k \in 1..n /\ (n - k) - 1 = n - (k + 1) /\ k + 1 \in 0..n  BY <1>1
    <3>2. \A i \in 1..Len(f[n - (k + 1)]) :
            i \in 1..Len(f[n - k]) /\ f[n - k][i] = f[n - (k + 1)][i]
      <4> DEFINE j == n - k
      <4>1. j \in 1..n /\ j - 1 = n - (k + 1)  BY <3>1
      <4> HIDE DEF j
      <4>2. \A i \in 1..Len(f[j - 1]) : i \in 1..Len(f[j]) /\ f[j][i] = f[j - 1][i]
        BY <4>1, <1>9
      <4> QED  BY <4>1, <4>2 DEF j
    <3>3. \A i \in 1..Len(f[n - k]) : i \in 1..Len(f[n]) /\ f[n][i] = f[n - k][i]
      BY <2>2
    <3> QED  BY <3>1, <3>2, <3>3
  <2> HIDE DEF H, n
  <2> QED  BY <2>1, <2>2, <1>1, UpTo
<1>11. ASSUME NEW k \in 0..n, NEW i \in 1..Len(f[k])  PROVE f[n][i] = f[k][i]
  <2>1. n - k \in 0..n /\ n - (n - k) = k  BY <1>1
  <2>2. n - k \in H  BY <2>1, <1>10
  <2> QED  BY <2>1, <2>2
<1> DEFINE ends == [k \in 0..n |-> Len(f[k])]
<1>12. Laid(seqs, f[n], ends)
  <2>1. ends \in [0..n -> Nat] /\ ends[0] = 0 /\ ends[n] = Len(f[n])
    <3>1. \A k \in 0..n : f[k] \in Seq(S)  BY <1>6
    <3> QED  BY <3>1, <1>1, <1>6
  <2>2. ASSUME NEW k \in 1..n
        PROVE  /\ ends[k] = ends[k - 1] + Len(seqs[k])
               /\ \A i \in 1..Len(seqs[k]) : f[n][ends[k - 1] + i] = seqs[k][i]
    <3>1. k - 1 \in 0..n /\ k \in 0..n  BY <1>1
    <3>2. ends[k] = Len(f[k]) /\ ends[k - 1] = Len(f[k - 1])  BY <3>1
    <3> HIDE DEF ends
    <3> QED  BY <3>1, <3>2, <1>9, <1>11
  <2> HIDE DEF ends
  <2> QED  BY <2>1, <2>2 DEF Laid
<1>13. f[n] \in Seq(S)  BY <1>1, <1>6
<1> HIDE DEF ends
<1> QED  BY <1>8, <1>12, <1>13

(* A place of t at which one of the lists lies.                            *)
Covered(seqs, ends, x) ==
  \E k \in 1..Len(seqs) : \E i \in 1..Len(seqs[k]) : x = ends[k - 1] + i

\* The ends grow, and every place belongs to one of the lists.
LEMMA LaidPlaces ==
  ASSUME NEW S, NEW seqs \in Seq(Seq(S)), NEW t \in Seq(S), NEW ends, Laid(seqs, t, ends)
  PROVE  /\ \A j, k \in 0..Len(seqs) : j <= k => ends[j] <= ends[k]
         /\ \A x \in 1..Len(t) : Covered(seqs, ends, x)
<1> DEFINE n == Len(seqs)
<1>1. n \in Nat /\ \A k \in 1..n : seqs[k] \in Seq(S) /\ Len(seqs[k]) \in Nat  OBVIOUS
<1>2. /\ ends \in [0..n -> Nat] /\ ends[0] = 0 /\ ends[n] = Len(t)
      /\ \A k \in 1..n : ends[k] = ends[k - 1] + Len(seqs[k])
  BY DEF Laid
<1> HIDE DEF n
<1>3. ASSUME NEW j \in 0..n, NEW k \in 0..n, j <= k  PROVE ends[j] <= ends[k]
  <2> DEFINE G == {x \in 0..(k - j) : ends[j] <= ends[j + x]}
  <2>1. 0 \in G  BY <1>1, <1>2, <1>3
  <2>2. ASSUME NEW x \in 0..((k - j) - 1), x \in G  PROVE x + 1 \in G
    <3>1. j + (x + 1) \in 1..n /\ (j + (x + 1)) - 1 = j + x /\ x + 1 \in 0..(k - j)
          /\ j + x \in 0..n /\ j + (x + 1) \in 0..n
      BY <1>1, <1>3
    <3>2. ends[j + (x + 1)] = ends[j + x] + Len(seqs[j + (x + 1)])  BY <3>1, <1>2
    <3>3. Len(seqs[j + (x + 1)]) \in Nat /\ ends[j + x] \in Nat /\ ends[j] \in Nat
      BY <3>1, <1>1, <1>2
    <3> QED  BY <2>2, <3>1, <3>2, <3>3
  <2>3. k - j \in Nat /\ j + (k - j) = k  BY <1>1, <1>3
  <2> HIDE DEF G
  <2>4. k - j \in G
    <3>1. 0..(k - j) \subseteq G  BY <2>1, <2>2, <2>3, UpTo
    <3> QED  BY <2>3, <3>1
  <2> QED  BY <2>3, <2>4 DEF G
<1>4. ASSUME NEW x \in 1..Len(t)
      PROVE  \E k \in 1..n : \E i \in 1..Len(seqs[k]) : x = ends[k - 1] + i
  <2> DEFINE C == {k \in 0..n : x <= ends[k]}
  <2>1. C \in SUBSET Nat /\ n \in C  BY <1>1, <1>2
  <2>2. PICK k \in C : \A l \in C : k <= l  BY <2>1, LeastNumber
  <2>3. k \in 1..n /\ k - 1 \in 0..n  BY <2>2, <1>1, <1>2
  <2>4. k - 1 \notin C  BY <2>2, <2>3
  <2>5. ends[k - 1] < x /\ x <= ends[k] /\ ends[k - 1] \in Nat /\ ends[k] \in Nat
    <3>1. x <= ends[k] /\ ~ (x <= ends[k - 1])  BY <2>2, <2>3, <2>4
    <3>2. k \in 0..n  BY <2>2
    <3>3. ends[k - 1] \in Nat /\ ends[k] \in Nat  BY <2>3, <3>2, <1>2
    <3> QED  BY <3>1, <3>3
  <2>6. ends[k] = ends[k - 1] + Len(seqs[k]) /\ Len(seqs[k]) \in Nat  BY <2>3, <1>1, <1>2
  <2>7. x - ends[k - 1] \in 1..Len(seqs[k]) /\ x = ends[k - 1] + (x - ends[k - 1])
    BY <2>5, <2>6
  <2> QED  BY <2>3, <2>7
<1> QED  BY <1>3, <1>4 DEF n, Covered

\* A list in which others lie behind each other is these, appended.
LEMMA LaidUnique ==
  ASSUME NEW S, NEW seqs \in Seq(Seq(S)), NEW t \in Seq(S), NEW ends, Laid(seqs, t, ends)
  PROVE  t = FlattenSeq(seqs)
<1> DEFINE n == Len(seqs)
           u == FlattenSeq(seqs)
<1>1. u \in Seq(S)  BY FlattenLays
<1>2. PICK at : Laid(seqs, u, at)  BY FlattenLays
<1>3. n \in Nat /\ \A k \in 1..n : seqs[k] \in Seq(S) /\ Len(seqs[k]) \in Nat  OBVIOUS
<1> HIDE DEF u
<1>4. /\ ends \in [0..n -> Nat] /\ ends[0] = 0 /\ ends[n] = Len(t)
      /\ \A k \in 1..n : /\ ends[k] = ends[k - 1] + Len(seqs[k])
                         /\ \A i \in 1..Len(seqs[k]) : t[ends[k - 1] + i] = seqs[k][i]
  BY DEF Laid
<1>5. /\ at \in [0..n -> Nat] /\ at[0] = 0 /\ at[n] = Len(u)
      /\ \A k \in 1..n : /\ at[k] = at[k - 1] + Len(seqs[k])
                         /\ \A i \in 1..Len(seqs[k]) : u[at[k - 1] + i] = seqs[k][i]
  BY <1>2 DEF Laid
<1> HIDE DEF n
<1> DEFINE G == {k \in 0..n : ends[k] = at[k]}
<1>6. 0..n \subseteq G
  <2>1. 0 \in G  BY <1>3, <1>4, <1>5
  <2>2. ASSUME NEW k \in 0..(n - 1), k \in G  PROVE k + 1 \in G
    <3>1. k + 1 \in 1..n /\ (k + 1) - 1 = k /\ k + 1 \in 0..n  BY <1>3
    <3> QED  BY <2>2, <3>1, <1>4, <1>5
  <2> HIDE DEF G
  <2> QED  BY <2>1, <2>2, <1>3, UpTo
<1>7. \A k \in 0..n : ends[k] = at[k]  BY <1>6
<1>8. Len(t) = Len(u)
  <2>1. n \in 0..n  BY <1>3
  <2> QED  BY <2>1, <1>4, <1>5, <1>7
<1>9. ASSUME NEW x \in 1..Len(t)  PROVE t[x] = u[x]
  <2>1. PICK k \in 1..n : \E i \in 1..Len(seqs[k]) : x = ends[k - 1] + i
    <3>1. Covered(seqs, ends, x)  BY LaidPlaces
    <3> QED  BY <3>1 DEF n, Covered
  <2>2. PICK i \in 1..Len(seqs[k]) : x = ends[k - 1] + i  BY <2>1
  <2>3. t[x] = seqs[k][i]  BY <2>2, <1>4
  <2>4. k - 1 \in 0..n  BY <1>3
  <2>5. at[k - 1] = ends[k - 1]  BY <2>4, <1>7
  <2>6. u[x] = seqs[k][i]  BY <2>2, <2>5, <1>5
  <2> QED  BY <2>3, <2>6
<1>10. t = [x \in 1..Len(t) |-> t[x]] /\ u = [x \in 1..Len(u) |-> u[x]]  BY <1>1
<1> HIDE DEF G
<1>11. t = u  BY <1>8, <1>9, <1>10
<1> QED  BY <1>11 DEF u

\* What a list with one more element in front holds.
LEMMA Prepended ==
  ASSUME NEW S, NEW c \in S, NEW t \in Seq(S)
  PROVE  /\ <<c>> \o t \in Seq(S) /\ Len(<<c>> \o t) = 1 + Len(t)
         /\ (<<c>> \o t)[1] = c
         /\ \A i \in 1..Len(t) : (<<c>> \o t)[1 + i] = t[i]
OBVIOUS

(* Parts, one at least, none of which has the separator.                   *)
Separable(S, separator, parts) ==
  /\ separator \in S
  /\ parts \in Seq(Seq(S \ {separator}))
  /\ Len(parts) # 0

\* Parts joined by a separator that none of them has are what the whole is
\* split into.
LEMMA JoinedParts ==
  ASSUME NEW S, NEW separator, NEW parts, Separable(S, separator, parts)
  PROVE  /\ JoinedBy(parts, separator) \in Seq(S)
         /\ Parts(JoinedBy(parts, separator), separator) = parts
<1> DEFINE n == Len(parts)
           seqs == [k \in DOMAIN parts |-> <<separator>> \o parts[k]]
           whole == FlattenSeq(seqs)
           s == Tail(whole)
<1>1. /\ n \in Nat \ {0} /\ separator \in S
      /\ \A k \in 1..n : parts[k] \in Seq(S \ {separator}) /\ Len(parts[k]) \in Nat
  BY DEF Separable
<1>0. DOMAIN parts = 1..n  BY DEF Separable
<1>25. parts = [k \in 1..n |-> parts[k]]  BY DEF Separable
<1> HIDE DEF n
<1>2. ASSUME NEW k \in 1..n
      PROVE  /\ seqs[k] \in Seq(S) /\ Len(seqs[k]) = 1 + Len(parts[k])
             /\ seqs[k][1] = separator
             /\ \A i \in 1..Len(parts[k]) : seqs[k][1 + i] = parts[k][i]
  <2> DEFINE a == parts[k]
  <2>1. a \in Seq(S)  BY <1>1
  <2>2. seqs[k] = <<separator>> \o a  BY <1>0
  <2> HIDE DEF a
  <2>3. /\ <<separator>> \o a \in Seq(S) /\ Len(<<separator>> \o a) = 1 + Len(a)
        /\ (<<separator>> \o a)[1] = separator
        /\ \A i \in 1..Len(a) : (<<separator>> \o a)[1 + i] = a[i]
    BY <1>1, <2>1, Prepended
  <2> QED  BY <2>2, <2>3 DEF a
<1>3. seqs \in Seq(Seq(S)) /\ Len(seqs) = n
  <2>1. seqs = [k \in 1..n |-> seqs[k]]  BY <1>0
  <2> HIDE DEF seqs
  <2> QED  BY <1>1, <1>2, <2>1
<1> HIDE DEF seqs
<1>4. whole \in Seq(S)  BY <1>3, FlattenLays
<1>5. PICK ends : Laid(seqs, whole, ends)  BY <1>3, FlattenLays
<1>6. /\ \A j, k \in 0..n : j <= k => ends[j] <= ends[k]
      /\ \A x \in 1..Len(whole) : Covered(seqs, ends, x)
  BY <1>3, <1>4, <1>5, LaidPlaces
<1> HIDE DEF whole
<1>7. /\ ends \in [0..n -> Nat] /\ ends[0] = 0 /\ ends[n] = Len(whole)
      /\ \A k \in 1..n : /\ ends[k] = ends[k - 1] + Len(seqs[k])
                         /\ \A i \in 1..Len(seqs[k]) : whole[ends[k - 1] + i] = seqs[k][i]
  BY <1>3, <1>5 DEF Laid
<1>8. \A k \in 0..n : ends[k] \in Nat /\ ends[k] <= ends[n]
  <2>1. n \in 0..n /\ \A k \in 0..n : k <= n  BY <1>1
  <2> QED  BY <2>1, <1>6, <1>7
<1>9. ASSUME NEW k \in 1..n
      PROVE  /\ ends[k] = ends[k - 1] + 1 + Len(parts[k])
             /\ ends[k - 1] \in Nat /\ ends[k] \in Nat /\ ends[k - 1] < ends[k]
             /\ ends[k] <= Len(whole)
             /\ whole[ends[k - 1] + 1] = separator
             /\ \A i \in 1..Len(parts[k]) : whole[ends[k - 1] + 1 + i] = parts[k][i]
  <2>1. k - 1 \in 0..n /\ k \in 0..n  BY <1>1
  <2>2. ends[k - 1] \in Nat /\ ends[k] \in Nat /\ ends[k] <= Len(whole)  BY <2>1, <1>7, <1>8
  <2>3. ends[k] = ends[k - 1] + 1 + Len(parts[k])
    <3>1. ends[k] = ends[k - 1] + Len(seqs[k])  BY <1>7
    <3>2. Len(seqs[k]) = 1 + Len(parts[k]) /\ Len(parts[k]) \in Nat  BY <1>1, <1>2
    <3> QED  BY <3>1, <3>2, <2>2
  <2>4. \A i \in 1..Len(seqs[k]) : whole[ends[k - 1] + i] = seqs[k][i]  BY <1>7
  <2>5. 1 \in 1..Len(seqs[k]) /\ \A i \in 1..Len(parts[k]) : 1 + i \in 1..Len(seqs[k])
    BY <1>1, <1>2
  <2>6. \A i \in 1..Len(parts[k]) : ends[k - 1] + 1 + i = ends[k - 1] + (1 + i)
    BY <2>2
  <2>7. whole[ends[k - 1] + 1] = separator  BY <2>4, <2>5, <1>2
  <2>8. \A i \in 1..Len(parts[k]) : whole[ends[k - 1] + 1 + i] = parts[k][i]
    BY <2>4, <2>5, <2>6, <1>2
  <2> QED  BY <2>2, <2>3, <2>7, <2>8, <1>1
<1>10. Len(whole) \in Nat \ {0} /\ whole # <<>>
  <2>1. 1 \in 1..n  BY <1>1
  <2>2. ends[1] \in Nat /\ ends[1 - 1] \in Nat /\ ends[1 - 1] < ends[1] /\ ends[1] <= Len(whole)
    BY <2>1, <1>9
  <2> QED  BY <2>2, <1>4
<1>11. /\ s \in Seq(S) /\ Len(s) = Len(whole) - 1
       /\ \A x \in DOMAIN s : s[x] = whole[x + 1]
  BY <1>4, <1>10
<1> HIDE DEF s
<1>12. ASSUME NEW k \in 1..n, NEW i \in 1..Len(parts[k])
       PROVE  ends[k - 1] + i \in DOMAIN s /\ s[ends[k - 1] + i] = parts[k][i]
  <2>1. ends[k - 1] + i \in 1..(Len(whole) - 1) /\ (ends[k - 1] + i) + 1 = ends[k - 1] + 1 + i
    <3>1. /\ ends[k] = ends[k - 1] + 1 + Len(parts[k]) /\ ends[k] <= Len(whole)
          /\ ends[k - 1] \in Nat /\ ends[k] \in Nat
      BY <1>9
    <3>2. Len(parts[k]) \in Nat /\ Len(whole) \in Nat  BY <1>1, <1>10
    <3>3. i \in Nat \ {0} /\ i <= Len(parts[k])  BY <3>2
    <3>4. ends[k - 1] + i >= 1 /\ (ends[k - 1] + i) + 1 = ends[k - 1] + 1 + i
      BY <3>1, <3>3
    <3>5. ends[k - 1] + i <= Len(whole) - 1  BY <3>1, <3>2, <3>3
    <3> QED  BY <3>1, <3>2, <3>3, <3>4, <3>5
  <2>2. ends[k - 1] + i \in DOMAIN s  BY <2>1, <1>11
  <2>3. s[ends[k - 1] + i] = whole[ends[k - 1] + 1 + i]  BY <2>1, <2>2, <1>11
  <2> QED  BY <2>2, <2>3, <1>9
<1>13. ASSUME NEW k \in 1..n, k # 1
       PROVE  ends[k - 1] \in DOMAIN s /\ s[ends[k - 1]] = separator
  <2>1. k - 1 \in 1..n  BY <1>1, <1>13
  <2>2. ends[(k - 1) - 1] < ends[k - 1] /\ ends[(k - 1) - 1] \in Nat  BY <2>1, <1>9
  <2>3. ends[k - 1] \in 1..(Len(whole) - 1)
    <3>1. ends[k - 1] \in Nat /\ ends[k] \in Nat /\ ends[k - 1] < ends[k]
          /\ ends[k] <= Len(whole)
      BY <1>9
    <3>2. Len(whole) \in Nat  BY <1>10
    <3> QED  BY <2>2, <3>1, <3>2
  <2>4. ends[k - 1] \in DOMAIN s  BY <2>3, <1>11
  <2>5. s[ends[k - 1]] = whole[ends[k - 1] + 1]  BY <2>4, <1>11
  <2> QED  BY <2>4, <2>5, <1>9
<1> DEFINE f == [k \in 1..n |-> ends[k - 1]]
           c == Cuts(s, separator)
<1>14. f \in Seq(Nat) /\ Len(f) = n /\ \A k \in 1..n : f[k] = ends[k - 1]
  <2>1. \A k \in 1..n : ends[k - 1] \in Nat  BY <1>9
  <2> QED  BY <2>1, <1>1
<1>24. \A k : k \in DOMAIN f <=> k \in 1..n  OBVIOUS
<1> HIDE DEF f
<1>15. \A j, k \in DOMAIN f : j < k => f[j] < f[k]
  <2> SUFFICES ASSUME NEW j \in 1..n, NEW k \in 1..n, j < k  PROVE ends[j - 1] < ends[k - 1]
    <3> TAKE j, k \in DOMAIN f
    <3>1. j \in 1..n /\ k \in 1..n /\ f[j] = ends[j - 1] /\ f[k] = ends[k - 1]
      BY <1>14, <1>24
    <3> QED  BY <3>1
  <2>1. j \in 0..n /\ k - 1 \in 0..n /\ j <= k - 1  BY <1>1
  <2>2. ends[j] <= ends[k - 1]  BY <2>1, <1>6
  <2>3. ends[j - 1] < ends[j] /\ ends[j - 1] \in Nat /\ ends[j] \in Nat /\ ends[k - 1] \in Nat
    BY <1>9
  <2> QED  BY <2>2, <2>3
<1>16. Elements(f) = {0} \cup {i \in DOMAIN s : s[i] = separator}
  <2>1. ASSUME NEW k \in 1..n
        PROVE  f[k] \in {0} \cup {i \in DOMAIN s : s[i] = separator}
    <3>1. CASE k = 1  BY <3>1, <1>7, <1>14
    <3>2. CASE k # 1  BY <3>2, <1>13, <1>14
    <3> QED  BY <3>1, <3>2
  <2>2. ASSUME NEW x \in DOMAIN s, s[x] = separator  PROVE \E k \in 1..n : f[k] = x
    <3>1. x + 1 \in 1..Len(whole) /\ whole[x + 1] = separator /\ x \in Nat
      BY <2>2, <1>10, <1>11
    <3>2. PICK k \in 1..n : \E i \in 1..Len(seqs[k]) : x + 1 = ends[k - 1] + i
      <4>1. Covered(seqs, ends, x + 1)  BY <3>1, <1>6
      <4> QED  BY <4>1, <1>3 DEF Covered
    <3>3. PICK i \in 1..Len(seqs[k]) : x + 1 = ends[k - 1] + i  BY <3>2
    <3>4. i = 1
      <4> SUFFICES ASSUME i # 1  PROVE FALSE
        OBVIOUS
      <4>1. i - 1 \in 1..Len(parts[k])  BY <3>3, <1>1, <1>2
      <4>2. ends[k - 1] + (i - 1) = x
        <5>1. ends[k - 1] \in Nat /\ i \in Nat  BY <1>2, <1>1, <1>9
        <5> QED  BY <5>1, <3>1, <3>3
      <4>3. s[x] = parts[k][i - 1]  BY <4>1, <4>2, <1>12
      <4>4. parts[k][i - 1] \in S \ {separator}  BY <4>1, <1>1
      <4> QED  BY <4>3, <4>4, <2>2
    <3>5. x = ends[k - 1]  BY <3>1, <3>3, <3>4, <1>9
    <3> QED  BY <3>5, <1>14
  <2>3. \E k \in 1..n : f[k] = 0
    <3>1. 1 \in 1..n /\ f[1] = 0  BY <1>1, <1>7, <1>14
    <3> QED  BY <3>1
  <2>4. Elements(f) = {f[k] : k \in 1..n}  BY <1>24 DEF Elements
  <2> QED  BY <2>1, <2>2, <2>3, <2>4
<1>17. c = f
  <2>1. f = Ascending(Elements(f))  BY <1>14, <1>15, AscendingUnique
  <2> QED  BY <2>1, <1>16 DEF Cuts
<1> DEFINE p == Parts(s, separator)
<1>18. /\ \A k \in 1..n :
            /\ p[k] \in Seq(S \ {separator})
            /\ Len(p[k]) = CutEnd(s, separator, k) - f[k] - 1
            /\ \A i \in DOMAIN p[k] : p[k][i] = s[f[k] + i]
       /\ p = [k \in 1..n |-> p[k]]
  <2>1. /\ DOMAIN p = DOMAIN c /\ p \in Seq(Seq(S \ {separator}))
        /\ \A k \in DOMAIN c :
             /\ Len(p[k]) = CutEnd(s, separator, k) - c[k] - 1
             /\ \A i \in DOMAIN p[k] : c[k] + i \in DOMAIN s /\ p[k][i] = s[c[k] + i]
    <3>1. Between(S, s, separator)  BY <1>11, PartsBetween
    <3> QED  BY <3>1, Zenon DEF Between
  <2>2. DOMAIN f = 1..n  BY DEF f
  <2>3. p = [k \in DOMAIN p |-> p[k]]  BY DEF Parts
  <2> HIDE DEF p, c
  <2>4. DOMAIN p = 1..n  BY <2>1, <2>2, <1>17
  <2>5. p = [k \in 1..n |-> p[k]]  BY <2>3, <2>4
  <2> PICK X : X = Seq(S \ {separator})  OBVIOUS
  <2>6. \A k \in DOMAIN p : p[k] \in X  BY <2>1
  <2>7. \A k \in 1..n : k \in DOMAIN p /\ k \in DOMAIN c  BY <2>1, <2>4
  <2>8. ASSUME NEW k \in 1..n
        PROVE  /\ p[k] \in Seq(S \ {separator})
               /\ Len(p[k]) = CutEnd(s, separator, k) - f[k] - 1
               /\ \A i \in DOMAIN p[k] : p[k][i] = s[f[k] + i]
    <3>1. p[k] \in Seq(S \ {separator})  BY <2>6, <2>7
    <3>2. Len(p[k]) = CutEnd(s, separator, k) - f[k] - 1  BY <2>1, <2>7, <1>17
    <3>3. \A i \in DOMAIN p[k] : p[k][i] = s[f[k] + i]  BY <2>1, <2>7, <1>17
    <3> QED  BY <3>1, <3>2, <3>3
  <2> QED  BY <2>5, <2>8
<1>19. \A k \in 1..n : CutEnd(s, separator, k) = ends[k]
  <2> TAKE k \in 1..n
  <2>1. CASE k = n
    <3>1. Len(s) + 1 = Len(whole)  BY <1>10, <1>11
    <3> QED  BY <2>1, <3>1, <1>7, <1>14, <1>17 DEF CutEnd
  <2>2. CASE k # n
    <3>1. k + 1 \in 1..n /\ (k + 1) - 1 = k  BY <2>2, <1>1
    <3> QED  BY <2>2, <3>1, <1>14, <1>17 DEF CutEnd
  <2> QED  BY <2>1, <2>2
<1> HIDE DEF p, c
<1>20. ASSUME NEW k \in 1..n  PROVE p[k] = parts[k]
  <2>1. p[k] \in Seq(S \ {separator})  BY <1>18
  <2>2. Len(p[k]) = Len(parts[k])
    <3>1. Len(p[k]) = ends[k] - ends[k - 1] - 1  BY <1>14, <1>18, <1>19
    <3>2. Len(parts[k]) \in Nat  BY <1>1
    <3>3. /\ ends[k] = ends[k - 1] + 1 + Len(parts[k])
          /\ ends[k - 1] \in Nat /\ ends[k] \in Nat
      BY <1>9
    <3> QED  BY <3>1, <3>2, <3>3
  <2>3. ASSUME NEW i \in 1..Len(parts[k])  PROVE p[k][i] = parts[k][i]
    <3>1. i \in DOMAIN p[k]  BY <2>1, <2>2
    <3>2. p[k][i] = s[f[k] + i]  BY <3>1, <1>18
    <3>3. f[k] = ends[k - 1]  BY <1>14
    <3>4. s[ends[k - 1] + i] = parts[k][i]  BY <1>12
    <3> QED  BY <3>2, <3>3, <3>4
  <2>4. /\ p[k] = [i \in 1..Len(p[k]) |-> p[k][i]]
        /\ parts[k] = [i \in 1..Len(parts[k]) |-> parts[k][i]]
    BY <2>1, <1>1
  <2> QED  BY <2>2, <2>3, <2>4
<1>21. p = [k \in 1..n |-> p[k]]  BY <1>18
<1>22. p = parts  BY <1>20, <1>21, <1>25
<1>23. JoinedBy(parts, separator) = s  BY DEF JoinedBy, s, whole, seqs
<1> QED  BY <1>11, <1>22, <1>23 DEF p
=============================================================================
