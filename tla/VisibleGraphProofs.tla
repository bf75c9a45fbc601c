------------------------- MODULE VisibleGraphProofs -------------------------
(***************************************************************************)
(* What readers of packed graphs and overlays see, for every dataset and   *)
(* every change of it: the merge of neighbours, the layout of a file, the  *)
(* validation of changes, checksums and queries.                           *)
(***************************************************************************)
EXTENDS MutationBenchmark, OrdersProofs

-----------------------------------------------------------------------------
(* merge_neighbors gives the visible neighbours, for all sorted lists.     *)

(* Every element of a list, from a place on.                               *)
From(s, k) == {s[i] : i \in k..Len(s)}
Before(s, k) == {s[i] : i \in 1..(k - 1)}

Precedes(S, T) == \A a \in S, b \in T : Less(a, b)

TypeInv ==
  /\ base \in Seq(Neighbor) /\ removed \in Seq(Neighbor) /\ added \in Seq(Neighbor)
  /\ retained \in Seq(Neighbor) /\ merged \in Seq(Neighbor)
  /\ phase \in {"idle", "drop", "merge", "done"}
  /\ at \in 1..(Len(base) + 1) /\ removedAt \in 1..(Len(removed) + 1)
  /\ left \in 1..(Len(retained) + 1) /\ right \in 1..(Len(added) + 1)

ArgInv == Legal(base, removed, added)

(* The first loop has decided about the base before "at", and passed only  *)
(* removals that are below the rest.                                       *)
DropInv ==
  phase = "drop" =>
    /\ Elements(retained) = Before(base, at) \ Elements(removed)
    /\ Precedes(Before(removed, removedAt), From(base, at))
    /\ Precedes(Elements(retained), From(base, at))
    /\ Sorted(retained)
    /\ left = 1 /\ right = 1 /\ merged = <<>>

(* The second loop has merged the elements before "left" and "right", and  *)
(* they are below the rest.                                                *)
MergeInv ==
  phase = "merge" =>
    /\ Elements(retained) = Elements(base) \ Elements(removed)
    /\ Sorted(retained)
    /\ Elements(merged) = Before(retained, left) \cup Before(added, right)
    /\ Precedes(Elements(merged), From(retained, left))
    /\ Precedes(Elements(merged), From(added, right))
    /\ Sorted(merged)

MergeIInv == TypeInv /\ ArgInv /\ DropInv /\ MergeInv /\ MergeExact

-----------------------------------------------------------------------------
(* The order of neighbours is a strict linear order.                       *)
LEMMA LessTransitive ==
  ASSUME NEW a \in Neighbor, NEW b \in Neighbor, NEW c \in Neighbor, Less(a, b), Less(b, c)
  PROVE  Less(a, c)
  BY DEF Neighbor, Less

LEMMA LessIrreflexive ==
  ASSUME NEW a \in Neighbor
  PROVE  ~Less(a, a)
  BY DEF Neighbor, Less

LEMMA LessTotal ==
  ASSUME NEW a \in Neighbor, NEW b \in Neighbor, ~Less(a, b), a # b
  PROVE  Less(b, a)
  BY DEF Neighbor, Less

(* What appending and concatenating do to the elements of a list.          *)
LEMMA ElementsAppend ==
  ASSUME NEW s \in Seq(Neighbor), NEW x \in Neighbor
  PROVE  /\ Append(s, x) \in Seq(Neighbor)
         /\ Elements(Append(s, x)) = Elements(s) \cup {x}
<1>1. /\ Append(s, x) \in Seq(Neighbor)
      /\ DOMAIN s = 1..Len(s) /\ DOMAIN Append(s, x) = 1..Len(s) \cup {Len(s) + 1}
      /\ \A i \in 1..Len(s) : Append(s, x)[i] = s[i]
      /\ Append(s, x)[Len(s) + 1] = x
  OBVIOUS
<1> QED  BY <1>1, Zenon DEF Elements

LEMMA ElementsConcat ==
  ASSUME NEW s \in Seq(Neighbor), NEW t \in Seq(Neighbor)
  PROVE  /\ s \o t \in Seq(Neighbor)
         /\ Elements(s \o t) = Elements(s) \cup Elements(t)
<1>1. s \o t \in Seq(Neighbor) /\ Len(s \o t) = Len(s) + Len(t)
  OBVIOUS
<1>2. Elements(s \o t) \subseteq Elements(s) \cup Elements(t)
  <2> SUFFICES ASSUME NEW x \in Elements(s \o t) PROVE x \in Elements(s) \cup Elements(t)
    OBVIOUS
  <2>1. PICK i \in 1..(Len(s) + Len(t)) : x = (s \o t)[i]
    BY <1>1 DEF Elements
  <2>2. CASE i <= Len(s)
    BY <2>1, <2>2 DEF Elements
  <2>3. CASE i > Len(s)
    <3>1. i - Len(s) \in 1..Len(t) /\ x = t[i - Len(s)]
      BY <2>1, <2>3
    <3> QED  BY <3>1 DEF Elements
  <2> QED  BY <2>1, <2>2, <2>3
<1>3. Elements(s) \subseteq Elements(s \o t)
  <2> SUFFICES ASSUME NEW x \in Elements(s) PROVE x \in Elements(s \o t)
    OBVIOUS
  <2>1. PICK i \in 1..Len(s) : x = s[i]
    BY DEF Elements
  <2>2. i \in 1..Len(s \o t) /\ x = (s \o t)[i]
    BY <2>1, <1>1
  <2> QED  BY <2>2, <1>1 DEF Elements
<1>4. Elements(t) \subseteq Elements(s \o t)
  <2> SUFFICES ASSUME NEW x \in Elements(t) PROVE x \in Elements(s \o t)
    OBVIOUS
  <2>1. PICK i \in 1..Len(t) : x = t[i]
    BY DEF Elements
  <2>2. i + Len(s) \in 1..Len(s \o t) /\ x = (s \o t)[i + Len(s)]
    BY <2>1, <1>1
  <2> QED  BY <2>2, <1>1 DEF Elements
<1> QED  BY <1>1, <1>2, <1>3, <1>4

(* Appending above everything, or concatenating above everything, sorts.   *)
LEMMA SortedAppend ==
  ASSUME NEW s \in Seq(Neighbor), NEW x \in Neighbor, Sorted(s), Precedes(Elements(s), {x})
  PROVE  Sorted(Append(s, x))
<1> SUFFICES ASSUME NEW i \in 1..(Len(s) + 1), NEW j \in 1..(Len(s) + 1), i < j
             PROVE  Less(Append(s, x)[i], Append(s, x)[j])
  BY DEF Sorted
<1>1. i \in 1..Len(s) /\ Append(s, x)[i] = s[i] /\ s[i] \in Elements(s)
  BY DEF Elements
<1>2. CASE j = Len(s) + 1
  <2>1. Append(s, x)[j] = x
    BY <1>2
  <2> QED  BY <1>1, <2>1 DEF Precedes
<1>3. CASE j # Len(s) + 1
  <2>1. j \in 1..Len(s) /\ Append(s, x)[j] = s[j]
    BY <1>3
  <2> QED  BY <1>1, <2>1 DEF Sorted
<1> QED  BY <1>2, <1>3

LEMMA SortedConcat ==
  ASSUME NEW s \in Seq(Neighbor), NEW t \in Seq(Neighbor), Sorted(s), Sorted(t),
         Precedes(Elements(s), Elements(t))
  PROVE  Sorted(s \o t)
<1>1. s \o t \in Seq(Neighbor) /\ Len(s \o t) = Len(s) + Len(t)
  OBVIOUS
<1> SUFFICES ASSUME NEW i \in 1..(Len(s) + Len(t)), NEW j \in 1..(Len(s) + Len(t)), i < j
             PROVE  Less((s \o t)[i], (s \o t)[j])
  BY <1>1 DEF Sorted
<1>2. CASE j <= Len(s)
  <2>1. i \in 1..Len(s) /\ j \in 1..Len(s) /\ (s \o t)[i] = s[i] /\ (s \o t)[j] = s[j]
    BY <1>2
  <2> QED  BY <2>1 DEF Sorted
<1>3. CASE i > Len(s)
  <2>1. /\ i - Len(s) \in 1..Len(t) /\ j - Len(s) \in 1..Len(t) /\ i - Len(s) < j - Len(s)
        /\ (s \o t)[i] = t[i - Len(s)] /\ (s \o t)[j] = t[j - Len(s)]
    BY <1>3
  <2> QED  BY <2>1 DEF Sorted
<1>4. CASE i <= Len(s) /\ j > Len(s)
  <2>1. /\ i \in 1..Len(s) /\ j - Len(s) \in 1..Len(t)
        /\ (s \o t)[i] = s[i] /\ (s \o t)[j] = t[j - Len(s)]
    BY <1>4
  <2>2. (s \o t)[i] \in Elements(s) /\ (s \o t)[j] \in Elements(t)
    BY <2>1 DEF Elements
  <2> QED  BY <2>2 DEF Precedes
<1> QED  BY <1>2, <1>3, <1>4

(* The rest of a list.                                                     *)
LEMMA RestOf ==
  ASSUME NEW s \in Seq(Neighbor), NEW k \in 1..(Len(s) + 1), Sorted(s)
  PROVE  /\ SubSeq(s, k, Len(s)) \in Seq(Neighbor)
         /\ Elements(SubSeq(s, k, Len(s))) = From(s, k)
         /\ Sorted(SubSeq(s, k, Len(s)))
<1> DEFINE r == SubSeq(s, k, Len(s))
<1>1. /\ r \in Seq(Neighbor) /\ Len(r) = Len(s) - k + 1
      /\ \A i \in 1..Len(r) : r[i] = s[k + i - 1] /\ k + i - 1 \in k..Len(s)
  OBVIOUS
<1>2. \A j \in k..Len(s) : j - k + 1 \in 1..Len(r) /\ r[j - k + 1] = s[j]
  BY <1>1
<1>3. DOMAIN r = 1..Len(r)
  BY <1>1
<1> HIDE DEF r
<1>4. Elements(r) = From(s, k)
  <2>1. ASSUME NEW x \in Elements(r) PROVE x \in From(s, k)
    <3>1. PICK i \in 1..Len(r) : x = r[i]
      BY <1>3 DEF Elements
    <3>2. x = s[k + i - 1] /\ k + i - 1 \in k..Len(s)
      BY <3>1, <1>1
    <3> QED  BY <3>2 DEF From
  <2>2. ASSUME NEW x \in From(s, k) PROVE x \in Elements(r)
    <3>1. PICK j \in k..Len(s) : x = s[j]
      BY DEF From
    <3>2. j - k + 1 \in 1..Len(r) /\ x = r[j - k + 1]
      BY <3>1, <1>2
    <3> QED  BY <3>2, <1>3 DEF Elements
  <2> QED  BY <2>1, <2>2
<1>5. Sorted(r)
  <2> SUFFICES ASSUME NEW i \in 1..Len(r), NEW j \in 1..Len(r), i < j
               PROVE  Less(r[i], r[j])
    BY <1>3 DEF Sorted
  <2>1. /\ k + i - 1 \in 1..Len(s) /\ k + j - 1 \in 1..Len(s) /\ k + i - 1 < k + j - 1
        /\ r[i] = s[k + i - 1] /\ r[j] = s[k + j - 1]
    BY <1>1
  <2> QED  BY <2>1 DEF Sorted
<1> QED  BY <1>1, <1>4, <1>5 DEF r

(* A place in a list splits it.                                            *)
LEMMA Split ==
  ASSUME NEW s \in Seq(Neighbor), NEW k \in 1..(Len(s) + 1)
  PROVE  /\ Elements(s) = Before(s, k) \cup From(s, k)
         /\ Before(s, 1) = {} /\ Before(s, Len(s) + 1) = Elements(s)
         /\ From(s, Len(s) + 1) = {}
         /\ Before(s, k) \subseteq Neighbor /\ From(s, k) \subseteq Neighbor
  BY DEF Elements, Before, From

LEMMA NextPlace ==
  ASSUME NEW s \in Seq(Neighbor), NEW k \in 1..Len(s), Sorted(s)
  PROVE  /\ s[k] \in Neighbor /\ s[k] \in From(s, k) /\ s[k] \in Elements(s)
         /\ k + 1 \in 1..(Len(s) + 1)
         /\ Before(s, k + 1) = Before(s, k) \cup {s[k]}
         /\ From(s, k) = {s[k]} \cup From(s, k + 1)
         /\ Precedes({s[k]}, From(s, k + 1))
         /\ Precedes(Before(s, k), {s[k]})
<1>1. s[k] \in Neighbor /\ s[k] \in From(s, k) /\ s[k] \in Elements(s) /\ k + 1 \in 1..(Len(s) + 1)
  BY DEF From, Elements
<1>2. 1..k = 1..(k - 1) \cup {k} /\ k..Len(s) = {k} \cup (k + 1)..Len(s)
  OBVIOUS
<1>3. Before(s, k + 1) = Before(s, k) \cup {s[k]}
  BY <1>2 DEF Before
<1>4. From(s, k) = {s[k]} \cup From(s, k + 1)
  BY <1>2 DEF From
<1>5. Precedes({s[k]}, From(s, k + 1)) /\ Precedes(Before(s, k), {s[k]})
  BY DEF Precedes, From, Before, Sorted
<1> QED  BY <1>1, <1>3, <1>4, <1>5
-----------------------------------------------------------------------------
(* One lemma per step: it preserves the inductive invariant.               *)
LEMMA StartKeeps ==
  ASSUME MergeIInv, NEW b \in Seq(Neighbor), NEW r \in Seq(Neighbor), NEW a \in Seq(Neighbor),
         Legal(b, r, a), StartMerge(b, r, a)
  PROVE  MergeIInv'
<1>1. TypeInv'
  BY DEF StartMerge, TypeInv
<1>2. ArgInv'
  BY DEF StartMerge, ArgInv
<1>3. DropInv'
  BY DEF StartMerge, DropInv, Elements, Before, From, Precedes, Sorted
<1>4. MergeInv' /\ MergeExact'
  BY DEF StartMerge, MergeInv, MergeExact
<1> QED  BY <1>1, <1>2, <1>3, <1>4 DEF MergeIInv

(* What the search for a removal establishes.                              *)
LEMMA Passed ==
  ASSUME MergeIInv, phase = "drop", at <= Len(base),
         NEW k \in removedAt..(Len(removed) + 1), PassedTo(k)
  PROVE  /\ k \in 1..(Len(removed) + 1)
         /\ Precedes(Before(removed, k), {base[at]})
         /\ Precedes(Before(removed, k), From(base, at + 1))
<1>1. /\ removed \in Seq(Neighbor) /\ base \in Seq(Neighbor) /\ Sorted(base) /\ Sorted(removed)
      /\ at \in 1..Len(base) /\ removedAt \in 1..(Len(removed) + 1)
      /\ Precedes(Before(removed, removedAt), From(base, at))
  BY DEF MergeIInv, TypeInv, ArgInv, Legal, DropInv
<1>2. k \in 1..(Len(removed) + 1)
  BY <1>1
<1>3. /\ base[at] \in Neighbor /\ base[at] \in From(base, at)
      /\ Precedes({base[at]}, From(base, at + 1))
      /\ From(base, at + 1) \subseteq Neighbor
  BY <1>1, NextPlace, Split
<1>4. ASSUME NEW i \in 1..(k - 1) PROVE removed[i] \in Neighbor /\ Less(removed[i], base[at])
  <2>1. removed[i] \in Neighbor
    BY <1>1, <1>2
  <2>2. CASE i < removedAt
    BY <2>1, <2>2, <1>1, <1>3 DEF Precedes, Before
  <2>3. CASE i >= removedAt
    BY <2>1, <2>3, <1>1 DEF PassedTo
  <2> QED  BY <2>2, <2>3, <1>1
<1>5. Precedes(Before(removed, k), {base[at]})
  BY <1>4 DEF Precedes, Before
<1>6. Precedes(Before(removed, k), From(base, at + 1))
  BY <1>3, <1>4, LessTransitive DEF Precedes, Before
<1> QED  BY <1>2, <1>5, <1>6

LEMMA DropKeeps ==
  ASSUME MergeIInv, Drop
  PROVE  MergeIInv'
<1>1. PICK k \in removedAt..Len(removed) :
        PassedTo(k) /\ removed[k] = base[at] /\ removedAt' = k + 1
  BY DEF Drop
<1>2. /\ phase = "drop" /\ at <= Len(base) /\ at' = at + 1
      /\ UNCHANGED <<base, removed, added, phase, retained, left, right, merged>>
  BY DEF Drop
<1>3. /\ base \in Seq(Neighbor) /\ removed \in Seq(Neighbor) /\ Sorted(base) /\ Sorted(removed)
      /\ at \in 1..Len(base) /\ removedAt \in 1..(Len(removed) + 1)
      /\ retained \in Seq(Neighbor)
  BY <1>2 DEF MergeIInv, TypeInv, ArgInv, Legal
<1>4. k \in 1..Len(removed)
  BY <1>1, <1>3
<1>5. Precedes(Before(removed, k), From(base, at + 1))
  BY <1>1, <1>2, <1>3, Passed
<1>6. /\ Before(base, at + 1) = Before(base, at) \cup {base[at]}
      /\ From(base, at) = {base[at]} \cup From(base, at + 1)
      /\ Precedes({base[at]}, From(base, at + 1))
      /\ Before(removed, k + 1) = Before(removed, k) \cup {removed[k]}
      /\ removed[k] \in Elements(removed)
  BY <1>3, <1>4, NextPlace
<1>7. TypeInv'
  BY <1>1, <1>2, <1>3, <1>4 DEF MergeIInv, TypeInv
<1>8. ArgInv' /\ MergeInv' /\ MergeExact'
  BY <1>2 DEF MergeIInv, ArgInv, MergeInv, MergeExact
<1>9. DropInv'
  <2>1. /\ Elements(retained) = Before(base, at) \ Elements(removed)
        /\ Precedes(Elements(retained), From(base, at))
        /\ Sorted(retained) /\ left = 1 /\ right = 1 /\ merged = <<>>
    BY <1>2 DEF MergeIInv, DropInv
  <2>2. Elements(retained) = Before(base, at + 1) \ Elements(removed)
    BY <2>1, <1>1, <1>6
  <2>3. Precedes(Before(removed, k + 1), From(base, at + 1))
    BY <1>1, <1>5, <1>6 DEF Precedes
  <2>4. Precedes(Elements(retained), From(base, at + 1))
    BY <2>1, <1>6 DEF Precedes
  <2> QED  BY <2>1, <2>2, <2>3, <2>4, <1>1, <1>2 DEF DropInv
<1> QED  BY <1>7, <1>8, <1>9 DEF MergeIInv

LEMMA RetainKeeps ==
  ASSUME MergeIInv, Retain
  PROVE  MergeIInv'
<1>1. PICK k \in removedAt..(Len(removed) + 1) :
        PassedTo(k) /\ (k <= Len(removed) => removed[k] # base[at]) /\ removedAt' = k
  BY DEF Retain
<1>2. /\ phase = "drop" /\ at <= Len(base) /\ at' = at + 1
      /\ retained' = Append(retained, base[at])
      /\ UNCHANGED <<base, removed, added, phase, left, right, merged>>
  BY DEF Retain
<1>3. /\ base \in Seq(Neighbor) /\ removed \in Seq(Neighbor) /\ Sorted(base) /\ Sorted(removed)
      /\ at \in 1..Len(base) /\ removedAt \in 1..(Len(removed) + 1)
      /\ retained \in Seq(Neighbor)
  BY <1>2 DEF MergeIInv, TypeInv, ArgInv, Legal
<1>4. /\ k \in 1..(Len(removed) + 1)
      /\ Precedes(Before(removed, k), {base[at]})
      /\ Precedes(Before(removed, k), From(base, at + 1))
  BY <1>1, <1>2, Passed
<1>5. /\ base[at] \in Neighbor
      /\ Before(base, at + 1) = Before(base, at) \cup {base[at]}
      /\ From(base, at) = {base[at]} \cup From(base, at + 1)
      /\ Precedes({base[at]}, From(base, at + 1))
  BY <1>3, NextPlace
<1>6. base[at] \notin Elements(removed)
  <2> SUFFICES ASSUME NEW i \in 1..Len(removed), removed[i] = base[at] PROVE FALSE
    BY <1>3 DEF Elements
  <2>1. CASE i < k
    BY <2>1, <1>3, <1>4, <1>5, LessIrreflexive DEF Precedes, Before
  <2>2. CASE i = k
    BY <2>2, <1>1
  <2>3. CASE i > k
    <3>1. k \in 1..Len(removed) /\ removed[k] \in Neighbor
      BY <2>3, <1>3, <1>4
    <3>2. ~Less(removed[k], base[at])
      BY <3>1, <1>1 DEF PassedTo
    <3>3. Less(removed[k], removed[i])
      BY <2>3, <3>1, <1>3 DEF Sorted
    <3> QED  BY <3>2, <3>3
  <2> QED  BY <2>1, <2>2, <2>3, <1>4
<1>7. /\ Elements(retained) = Before(base, at) \ Elements(removed)
      /\ Precedes(Elements(retained), From(base, at))
      /\ Sorted(retained) /\ left = 1 /\ right = 1 /\ merged = <<>>
  BY <1>2 DEF MergeIInv, DropInv
<1>8. retained' \in Seq(Neighbor) /\ Elements(retained') = Elements(retained) \cup {base[at]}
  BY <1>2, <1>3, <1>5, ElementsAppend
<1>9. TypeInv'
  BY <1>1, <1>2, <1>3, <1>4, <1>7, <1>8 DEF MergeIInv, TypeInv
<1>10. ArgInv' /\ MergeInv' /\ MergeExact'
  BY <1>2 DEF MergeIInv, ArgInv, MergeInv, MergeExact
<1>11. DropInv'
  <2>1. Elements(retained') = Before(base, at + 1) \ Elements(removed)
    BY <1>5, <1>6, <1>7, <1>8
  <2>2. Precedes(Elements(retained'), From(base, at + 1))
    BY <1>5, <1>7, <1>8 DEF Precedes
  <2>3. Precedes(Elements(retained), {base[at]})
    BY <1>5, <1>7 DEF Precedes
  <2>4. Sorted(retained')
    BY <2>3, <1>2, <1>3, <1>5, <1>7, SortedAppend
  <2> QED  BY <2>1, <2>2, <2>4, <1>1, <1>2, <1>4, <1>7 DEF DropInv
<1> QED  BY <1>9, <1>10, <1>11 DEF MergeIInv

LEMMA RetainedKeeps ==
  ASSUME MergeIInv, Retained
  PROVE  MergeIInv'
<1>1. /\ phase = "drop" /\ at > Len(base) /\ phase' = "merge"
      /\ UNCHANGED <<base, removed, added, at, removedAt, retained, left, right, merged>>
  BY DEF Retained
<1>2. /\ base \in Seq(Neighbor) /\ retained \in Seq(Neighbor) /\ added \in Seq(Neighbor)
      /\ at = Len(base) + 1
  BY <1>1 DEF MergeIInv, TypeInv
<1>3. /\ Elements(retained) = Before(base, at) \ Elements(removed)
      /\ Sorted(retained) /\ left = 1 /\ right = 1 /\ merged = <<>>
  BY <1>1 DEF MergeIInv, DropInv
<1>4. /\ Before(base, at) = Elements(base)
      /\ Before(retained, left) = {} /\ Before(added, right) = {}
  BY <1>2, <1>3, Split
<1>5. Elements(merged) = {} /\ Sorted(merged)
  BY <1>3 DEF Elements, Sorted
<1>6. MergeInv'
  BY <1>1, <1>3, <1>4, <1>5 DEF MergeInv, Precedes
<1>7. TypeInv' /\ ArgInv' /\ DropInv' /\ MergeExact'
  BY <1>1 DEF MergeIInv, TypeInv, ArgInv, DropInv, MergeExact
<1> QED  BY <1>6, <1>7 DEF MergeIInv

-----------------------------------------------------------------------------
(* What the second loop may rely on.                                       *)
LEMMA MergeFacts ==
  ASSUME MergeIInv, phase = "merge"
  PROVE  /\ retained \in Seq(Neighbor) /\ added \in Seq(Neighbor) /\ merged \in Seq(Neighbor)
         /\ left \in 1..(Len(retained) + 1) /\ right \in 1..(Len(added) + 1)
         /\ Sorted(retained) /\ Sorted(added) /\ Sorted(merged)
         /\ Elements(retained) \cap Elements(added) = {}
         /\ Elements(retained) = Elements(base) \ Elements(removed)
         /\ Elements(merged) = Before(retained, left) \cup Before(added, right)
         /\ Precedes(Elements(merged), From(retained, left))
         /\ Precedes(Elements(merged), From(added, right))
  BY DEF MergeIInv, TypeInv, ArgInv, Legal, MergeInv

LEMMA TakeBaseKeeps ==
  ASSUME MergeIInv, TakeBase
  PROVE  MergeIInv'
<1>1. /\ phase = "merge" /\ left <= Len(retained) /\ right <= Len(added)
      /\ Less(retained[left], added[right])
      /\ merged' = Append(merged, retained[left]) /\ left' = left + 1
      /\ UNCHANGED <<base, removed, added, phase, at, removedAt, retained, right>>
  BY DEF TakeBase
<1> DEFINE x == retained[left]
<1>2. left \in 1..Len(retained) /\ right \in 1..Len(added)
  BY <1>1, MergeFacts
<1>3. /\ x \in Neighbor /\ x \in From(retained, left) /\ left + 1 \in 1..(Len(retained) + 1)
      /\ Before(retained, left + 1) = Before(retained, left) \cup {x}
      /\ From(retained, left) = {x} \cup From(retained, left + 1)
      /\ Precedes({x}, From(retained, left + 1))
  BY <1>1, <1>2, MergeFacts, NextPlace
<1>4. /\ added[right] \in Neighbor
      /\ From(added, right) = {added[right]} \cup From(added, right + 1)
      /\ Precedes({added[right]}, From(added, right + 1))
      /\ From(added, right + 1) \subseteq Neighbor
  BY <1>1, <1>2, MergeFacts, NextPlace, Split
<1>5. Precedes({x}, From(added, right))
  BY <1>1, <1>3, <1>4, LessTransitive DEF Precedes
<1>6. merged' \in Seq(Neighbor) /\ Elements(merged') = Elements(merged) \cup {x}
  BY <1>1, <1>3, MergeFacts, ElementsAppend
<1>7. Precedes(Elements(merged), {x})
  BY <1>1, <1>3, MergeFacts DEF Precedes
<1>8. Sorted(merged')
  BY <1>1, <1>3, <1>7, MergeFacts, SortedAppend
<1> HIDE DEF x
<1>9. TypeInv'
  BY <1>1, <1>3, <1>6 DEF MergeIInv, TypeInv
<1>10. ArgInv' /\ DropInv' /\ MergeExact'
  BY <1>1 DEF MergeIInv, ArgInv, DropInv, MergeExact
<1>11. MergeInv'
  <2>1. Elements(merged') = Before(retained, left + 1) \cup Before(added, right)
    BY <1>1, <1>3, <1>6, MergeFacts
  <2>2. Precedes(Elements(merged'), From(retained, left + 1))
    BY <1>1, <1>3, <1>6, MergeFacts DEF Precedes
  <2>3. Precedes(Elements(merged'), From(added, right))
    BY <1>1, <1>5, <1>6, MergeFacts DEF Precedes
  <2> QED  BY <2>1, <2>2, <2>3, <1>1, <1>8, MergeFacts DEF MergeInv
<1> QED  BY <1>9, <1>10, <1>11 DEF MergeIInv

LEMMA TakeAddedKeeps ==
  ASSUME MergeIInv, TakeAdded
  PROVE  MergeIInv'
<1>1. /\ phase = "merge" /\ left <= Len(retained) /\ right <= Len(added)
      /\ ~Less(retained[left], added[right])
      /\ merged' = Append(merged, added[right]) /\ right' = right + 1
      /\ UNCHANGED <<base, removed, added, phase, at, removedAt, retained, left>>
  BY DEF TakeAdded
<1> DEFINE x == added[right]
<1>2. left \in 1..Len(retained) /\ right \in 1..Len(added)
  BY <1>1, MergeFacts
<1>3. /\ x \in Neighbor /\ x \in From(added, right) /\ right + 1 \in 1..(Len(added) + 1)
      /\ x \in Elements(added)
      /\ Before(added, right + 1) = Before(added, right) \cup {x}
      /\ From(added, right) = {x} \cup From(added, right + 1)
      /\ Precedes({x}, From(added, right + 1))
  BY <1>1, <1>2, MergeFacts, NextPlace
<1>4. /\ retained[left] \in Neighbor /\ retained[left] \in Elements(retained)
      /\ From(retained, left) = {retained[left]} \cup From(retained, left + 1)
      /\ Precedes({retained[left]}, From(retained, left + 1))
      /\ From(retained, left + 1) \subseteq Neighbor
  BY <1>1, <1>2, MergeFacts, NextPlace, Split
<1>5. Less(x, retained[left])
  BY <1>1, <1>3, <1>4, MergeFacts, LessTotal
<1>6. Precedes({x}, From(retained, left))
  BY <1>3, <1>4, <1>5, LessTransitive DEF Precedes
<1>7. merged' \in Seq(Neighbor) /\ Elements(merged') = Elements(merged) \cup {x}
  BY <1>1, <1>3, MergeFacts, ElementsAppend
<1>8. Precedes(Elements(merged), {x})
  BY <1>1, <1>3, MergeFacts DEF Precedes
<1>9. Sorted(merged')
  BY <1>1, <1>3, <1>8, MergeFacts, SortedAppend
<1> HIDE DEF x
<1>10. TypeInv'
  BY <1>1, <1>3, <1>7 DEF MergeIInv, TypeInv
<1>11. ArgInv' /\ DropInv' /\ MergeExact'
  BY <1>1 DEF MergeIInv, ArgInv, DropInv, MergeExact
<1>12. MergeInv'
  <2>1. Elements(merged') = Before(retained, left) \cup Before(added, right + 1)
    BY <1>1, <1>3, <1>7, MergeFacts
  <2>2. Precedes(Elements(merged'), From(added, right + 1))
    BY <1>1, <1>3, <1>7, MergeFacts DEF Precedes
  <2>3. Precedes(Elements(merged'), From(retained, left))
    BY <1>1, <1>6, <1>7, MergeFacts DEF Precedes
  <2> QED  BY <2>1, <2>2, <2>3, <1>1, <1>9, MergeFacts DEF MergeInv
<1> QED  BY <1>10, <1>11, <1>12 DEF MergeIInv

LEMMA TakeRestKeeps ==
  ASSUME MergeIInv, TakeRest
  PROVE  MergeIInv'
<1> DEFINE s == SubSeq(retained, left, Len(retained))
           t == SubSeq(added, right, Len(added))
<1>1. /\ phase = "merge" /\ phase' = "done" /\ merged' = merged \o s \o t
      /\ left > Len(retained) \/ right > Len(added)
      /\ UNCHANGED <<base, removed, added, at, removedAt, retained, left, right>>
  BY DEF TakeRest
<1>2. /\ s \in Seq(Neighbor) /\ t \in Seq(Neighbor) /\ Sorted(s) /\ Sorted(t)
      /\ Elements(s) = From(retained, left) /\ Elements(t) = From(added, right)
  BY <1>1, MergeFacts, RestOf
<1> HIDE DEF s, t
<1>3. /\ merged \o s \in Seq(Neighbor) /\ Elements(merged \o s) = Elements(merged) \cup Elements(s)
      /\ Sorted(merged \o s)
  BY <1>1, <1>2, MergeFacts, ElementsConcat, SortedConcat
<1>4. From(retained, left) = {} \/ From(added, right) = {}
  <2>1. CASE left > Len(retained)
    BY <2>1, <1>1, MergeFacts DEF From
  <2>2. CASE right > Len(added)
    BY <2>2, <1>1, MergeFacts DEF From
  <2> QED  BY <2>1, <2>2, <1>1
<1>5. Precedes(Elements(merged \o s), Elements(t))
  BY <1>1, <1>2, <1>3, <1>4, MergeFacts DEF Precedes
<1>6. /\ merged' \in Seq(Neighbor) /\ Sorted(merged')
      /\ Elements(merged') = Elements(merged) \cup Elements(s) \cup Elements(t)
  BY <1>1, <1>2, <1>3, <1>5, ElementsConcat, SortedConcat
<1>7. Elements(merged') = Elements(retained) \cup Elements(added)
  BY <1>1, <1>2, <1>6, MergeFacts, Split
<1>8. MergeExact'
  BY <1>1, <1>6, <1>7, MergeFacts DEF MergeExact
<1>9. TypeInv' /\ ArgInv' /\ DropInv' /\ MergeInv'
  BY <1>1, <1>6 DEF MergeIInv, TypeInv, ArgInv, DropInv, MergeInv
<1> QED  BY <1>8, <1>9 DEF MergeIInv

-----------------------------------------------------------------------------
(* For all sorted lists whose additions are not in the base, what          *)
(* merge_neighbors returns is sorted and holds the base without the        *)
(* removals and with the additions.                                        *)
THEOREM MergeCorrect == MergeSpec => []MergeExact
<1>1. MergeIdle => MergeIInv
  BY DEF MergeIdle, MergeIInv, TypeInv, ArgInv, Legal, DropInv, MergeInv, MergeExact,
         Elements, Sorted
<1>2. MergeIInv /\ [MergeNext]_mergeVars => MergeIInv'
  <2> SUFFICES ASSUME MergeIInv, [MergeNext]_mergeVars PROVE MergeIInv'
    OBVIOUS
  <2>1. CASE MergeStep
    BY <2>1, DropKeeps, RetainKeeps, RetainedKeeps, TakeBaseKeeps, TakeAddedKeeps, TakeRestKeeps
       DEF MergeStep
  <2>2. CASE \E b, r, a \in Seq(Neighbor) : Legal(b, r, a) /\ StartMerge(b, r, a)
    BY <2>2, StartKeeps
  <2>3. CASE UNCHANGED mergeVars
    BY <2>3 DEF mergeVars, MergeIInv, TypeInv, ArgInv, DropInv, MergeInv, MergeExact
  <2> QED  BY <2>1, <2>2, <2>3 DEF MergeNext
<1>3. MergeIInv => MergeExact
  BY DEF MergeIInv
<1> QED  BY <1>1, <1>2, <1>3, PTL DEF MergeSpec

-----------------------------------------------------------------------------
(* The sections of a packed file, for every number of nodes and edges.     *)

(* A section begins aligned, at or after the end of the one before it, and *)
(* less than eight bytes after it.                                         *)
Follows(next, start, length) ==
  /\ next \in Nat /\ next % 8 = 0
  /\ start + length <= next /\ next < start + length + 8

LEMMA SectionEndFollows ==
  ASSUME NEW start \in Nat, NEW length \in Nat
  PROVE  Follows(SectionEnd(start, length), start, length)
<1> DEFINE n == start + length + 7
<1>1. n \in Nat
  OBVIOUS
<1> HIDE DEF n
<1>2. /\ (n \div 8) \in Nat
      /\ (n \div 8) * 8 <= n /\ n < (n \div 8) * 8 + 8
      /\ ((n \div 8) * 8) % 8 = 0
  BY <1>1
<1>3. n = start + length + 7
  BY DEF n
<1>4. SectionEnd(start, length) = (n \div 8) * 8
  BY DEF SectionEnd, n
<1> QED  BY <1>2, <1>3, <1>4 DEF Follows

(* Whatever the counts, the six sections lie behind the header one after   *)
(* the other, each long enough for what write_direction puts into it: the  *)
(* padding is never negative, and no index that the reader derives from    *)
(* the counts leaves its section.                                          *)
THEOREM SectionsDisjoint ==
  ASSUME NEW nodeCount \in Nat, NEW edgeCount \in Nat
  PROVE  LET l == LayoutFor(nodeCount, edgeCount)
         IN  /\ l.forwardOffsets = HeaderLen
             /\ Follows(l.forwardTargets, l.forwardOffsets, OffsetBytes(nodeCount))
             /\ Follows(l.forwardKinds, l.forwardTargets, NodeBytes(edgeCount))
             /\ Follows(l.reverseOffsets, l.forwardKinds, KindBytes(edgeCount))
             /\ Follows(l.reverseSources, l.reverseOffsets, OffsetBytes(nodeCount))
             /\ Follows(l.reverseKinds, l.reverseSources, NodeBytes(edgeCount))
             /\ Follows(l.fileLen, l.reverseKinds, KindBytes(edgeCount))
<1> DEFINE l == LayoutFor(nodeCount, edgeCount)
<1>1. /\ OffsetBytes(nodeCount) \in Nat /\ NodeBytes(edgeCount) \in Nat
      /\ KindBytes(edgeCount) \in Nat /\ HeaderLen \in Nat
  BY DEF OffsetBytes, NodeBytes, KindBytes, HeaderLen
<1>2. /\ l.forwardOffsets = HeaderLen
      /\ l.forwardTargets = SectionEnd(HeaderLen, OffsetBytes(nodeCount))
      /\ l.forwardKinds = SectionEnd(l.forwardTargets, NodeBytes(edgeCount))
      /\ l.reverseOffsets = SectionEnd(l.forwardKinds, KindBytes(edgeCount))
      /\ l.reverseSources = SectionEnd(l.reverseOffsets, OffsetBytes(nodeCount))
      /\ l.reverseKinds = SectionEnd(l.reverseSources, NodeBytes(edgeCount))
      /\ l.fileLen = SectionEnd(l.reverseKinds, KindBytes(edgeCount))
  BY DEF LayoutFor
<1> HIDE DEF l
<1>3. ASSUME NEW start \in Nat, NEW length \in Nat
      PROVE  SectionEnd(start, length) \in Nat /\ Follows(SectionEnd(start, length), start, length)
  BY SectionEndFollows DEF Follows
<1>4. l.forwardTargets \in Nat /\ Follows(l.forwardTargets, l.forwardOffsets, OffsetBytes(nodeCount))
  BY <1>1, <1>2, <1>3
<1>5. l.forwardKinds \in Nat /\ Follows(l.forwardKinds, l.forwardTargets, NodeBytes(edgeCount))
  BY <1>1, <1>2, <1>3, <1>4
<1>6. l.reverseOffsets \in Nat /\ Follows(l.reverseOffsets, l.forwardKinds, KindBytes(edgeCount))
  BY <1>1, <1>2, <1>3, <1>5
<1>7. l.reverseSources \in Nat /\ Follows(l.reverseSources, l.reverseOffsets, OffsetBytes(nodeCount))
  BY <1>1, <1>2, <1>3, <1>6
<1>8. l.reverseKinds \in Nat /\ Follows(l.reverseKinds, l.reverseSources, NodeBytes(edgeCount))
  BY <1>1, <1>2, <1>3, <1>7
<1>9. Follows(l.fileLen, l.reverseKinds, KindBytes(edgeCount))
  BY <1>1, <1>2, <1>3, <1>8
<1> QED  BY <1>2, <1>4, <1>5, <1>6, <1>7, <1>8, <1>9 DEF l

-----------------------------------------------------------------------------
(* Lists of edges in order.                                                *)

Edge == Nat \X Nat \X Nat

(* Edges in the order of their owner in a direction, then of what the      *)
(* owner's list shows of them.                                             *)
Shows(e, direction) == <<Other(e, direction), Kind(e)>>

Ahead(d, e, direction) ==
  \/ Owner(d, direction) < Owner(e, direction)
  \/ Owner(d, direction) = Owner(e, direction) /\ Less(Shows(d, direction), Shows(e, direction))

Grouped(s, direction) == \A i, j \in DOMAIN s : i < j => Ahead(s[i], s[j], direction)

\* An edge has an owner in each direction, and shows a neighbour.
LEMMA EdgeParts ==
  ASSUME NEW e \in Edge, NEW direction \in Direction
  PROVE  /\ Owner(e, direction) \in Nat /\ Shows(e, direction) \in Neighbor
         /\ Source(e) \in Nat /\ Target(e) \in Nat /\ Kind(e) \in Nat
         /\ e = EdgeOf(Source(e), Target(e), Kind(e))
         /\ direction = "forward" => /\ Owner(e, direction) = Source(e)
                                     /\ Shows(e, direction) = <<Target(e), Kind(e)>>
BY DEF Edge, Direction, Owner, Shows, Other, Source, Target, Kind, Neighbor, EdgeOf

\* What an owner shows tells which edge it is.
LEMMA ShownEdge ==
  ASSUME NEW d \in Edge, NEW e \in Edge, NEW direction \in Direction,
         Owner(d, direction) = Owner(e, direction), Shows(d, direction) = Shows(e, direction)
  PROVE  d = e
BY DEF Edge, Direction, Owner, Shows, Other, Source, Target, Kind

\* The two orders of edges are Ahead in the two directions.
LEMMA AheadIs ==
  ASSUME NEW d \in Edge, NEW e \in Edge
  PROVE  /\ EdgeBefore(d, e) <=> Ahead(d, e, "forward")
         /\ ReverseBefore(d, e) <=> Ahead(d, e, "reverse")
BY DEF Edge, EdgeBefore, ReverseBefore, Ahead, Owner, Shows, Other, Source, Target, Kind, Less

\* They are strict and total.
LEMMA AheadOrders ==
  ASSUME NEW direction \in Direction
  PROVE  /\ \A d \in Edge : ~ Ahead(d, d, direction)
         /\ \A d, e, f \in Edge :
              Ahead(d, e, direction) /\ Ahead(e, f, direction) => Ahead(d, f, direction)
         /\ \A d, e \in Edge : d = e \/ Ahead(d, e, direction) \/ Ahead(e, d, direction)
<1>1. ASSUME NEW d \in Edge  PROVE ~ Ahead(d, d, direction)
  BY EdgeParts, LessIrreflexive DEF Ahead
<1>2. ASSUME NEW d \in Edge, NEW e \in Edge, NEW f \in Edge,
             Ahead(d, e, direction), Ahead(e, f, direction)
      PROVE  Ahead(d, f, direction)
  <2>1. /\ Owner(d, direction) \in Nat /\ Shows(d, direction) \in Neighbor
        /\ Owner(e, direction) \in Nat /\ Shows(e, direction) \in Neighbor
        /\ Owner(f, direction) \in Nat /\ Shows(f, direction) \in Neighbor
    BY EdgeParts
  <2> QED  BY <1>2, <2>1, LessTransitive DEF Ahead
<1>3. ASSUME NEW d \in Edge, NEW e \in Edge, d # e, ~ Ahead(d, e, direction)
      PROVE  Ahead(e, d, direction)
  <2>1. /\ Owner(d, direction) \in Nat /\ Shows(d, direction) \in Neighbor
        /\ Owner(e, direction) \in Nat /\ Shows(e, direction) \in Neighbor
    BY EdgeParts
  <2>2. Owner(d, direction) = Owner(e, direction) => Shows(d, direction) # Shows(e, direction)
    BY <1>3, ShownEdge
  <2> QED  BY <1>3, <2>1, <2>2, LessTotal DEF Ahead
<1> QED  BY <1>1, <1>2, <1>3

(* What sorts by a direction: the relation that Ordered ranks by.          *)
AheadIn(S, direction) == {p \in S \X S : Ahead(p[1], p[2], direction)}

LEMMA AheadTotal ==
  ASSUME NEW S \in SUBSET Edge, NEW direction \in Direction
  PROVE  /\ TotalOrder(AheadIn(S, direction), S)
         /\ \A d, e \in S : <<d, e>> \in AheadIn(S, direction) <=> Ahead(d, e, direction)
<1>1. \A d, e \in S : <<d, e>> \in AheadIn(S, direction) <=> Ahead(d, e, direction)
  BY DEF AheadIn
<1>2. \A d \in S : d \in Edge  OBVIOUS
<1> QED  BY <1>1, <1>2, AheadOrders DEF TotalOrder

\* A sorted set of edges is a list of them in the order of the direction.
LEMMA RankedEdges ==
  ASSUME NEW S \in SUBSET Edge, IsFiniteSet(S), NEW direction \in Direction
  PROVE  LET s == Ranked(S, AheadIn(S, direction))
         IN  /\ s \in Edges /\ Elements(s) = S /\ Len(s) = Cardinality(S)
             /\ Grouped(s, direction)
<1> DEFINE s == Ranked(S, AheadIn(S, direction))
<1>1. TotalOrder(AheadIn(S, direction), S)  BY AheadTotal
<1>2. Lists(s, S, AheadIn(S, direction)) /\ Len(s) = Cardinality(S)
  BY <1>1, RankedLists
<1> HIDE DEF s
<1>3. /\ s \in Seq(S) /\ Elements(s) = S
      /\ \A i, j \in DOMAIN s : i < j => <<s[i], s[j]>> \in AheadIn(S, direction)
  BY <1>2 DEF Lists
<1>4. s \in Edges  BY <1>3 DEF Edges, Edge
<1>5. Grouped(s, direction)  BY <1>3 DEF Grouped, AheadIn
<1> QED  BY <1>2, <1>3, <1>4, <1>5 DEF s

\* And it is the only one.
LEMMA RankedEdgesUnique ==
  ASSUME NEW s \in Edges, NEW direction \in Direction, Grouped(s, direction)
  PROVE  s = Ranked(Elements(s), AheadIn(Elements(s), direction))
<1> DEFINE S == Elements(s)
<1>1. s \in Seq(Edge)  BY DEF Edges, Edge
<1>2. IsFiniteSet(S) /\ S \in SUBSET Edge  BY <1>1, ElementsFinite
<1>3. TotalOrder(AheadIn(S, direction), S)  BY <1>2, AheadTotal
<1>4. \A i \in DOMAIN s : s[i] \in S  BY DEF Elements
<1>5. s \in Seq(S)
  <2>1. s \in [1..Len(s) -> Edge] /\ Len(s) \in Nat /\ DOMAIN s = 1..Len(s)  BY <1>1
  <2>2. s \in [1..Len(s) -> S]  BY <1>4, <2>1
  <2> QED  BY <2>1, <2>2
<1>6. \A i, j \in DOMAIN s : i < j => <<s[i], s[j]>> \in AheadIn(S, direction)
  BY <1>4 DEF Grouped, AheadIn
<1>7. Lists(s, S, AheadIn(S, direction))  BY <1>5, <1>6 DEF Lists
<1> QED  BY <1>2, <1>3, <1>7, RankedUnique

\* Both orders of the packed file, in these terms.
LEMMA OrderedEdges ==
  ASSUME NEW S \in SUBSET Edge
  PROVE  /\ Ordered(S, EdgeBefore) = Ranked(S, AheadIn(S, "forward"))
         /\ Ordered(S, ReverseBefore) = Ranked(S, AheadIn(S, "reverse"))
<1>1. \A d, e \in S : /\ EdgeBefore(d, e) <=> Ahead(d, e, "forward")
                      /\ ReverseBefore(d, e) <=> Ahead(d, e, "reverse")
  BY AheadIs
<1>2. {p \in S \X S : EdgeBefore(p[1], p[2])} = AheadIn(S, "forward")  BY <1>1 DEF AheadIn
<1>3. {p \in S \X S : ReverseBefore(p[1], p[2])} = AheadIn(S, "reverse")  BY <1>1 DEF AheadIn
<1> QED  BY <1>2, <1>3 DEF Ordered

\* What canonical_edges and the writer's sort of the reverse section give.
LEMMA CanonicalEdges ==
  ASSUME NEW s \in Edges, Distinct(s)
  PROVE  /\ Canonical(s) \in Edges /\ Elements(Canonical(s)) = Elements(s)
         /\ Len(Canonical(s)) = Len(s) /\ Grouped(Canonical(s), "forward")
         /\ Reversed(s) \in Edges /\ Elements(Reversed(s)) = Elements(s)
         /\ Len(Reversed(s)) = Len(s) /\ Grouped(Reversed(s), "reverse")
<1>1. s \in Seq(Edge)  BY DEF Edges, Edge
<1>2. IsFiniteSet(Elements(s)) /\ Elements(s) \in SUBSET Edge  BY <1>1, ElementsFinite
<1>3. {"forward", "reverse"} = Direction  BY DEF Direction
<1> QED  BY <1>2, <1>3, OrderedEdges, RankedEdges DEF Canonical, Reversed, Distinct

-----------------------------------------------------------------------------
(* A section of a packed file.                                             *)

(* What the edges of a set show of a node.                                 *)
Around(E, n, direction) == {Shows(e, direction) : e \in {x \in E : Owner(x, direction) = n}}

(* A list of edges that offsets are taken of.                              *)
Sectioned(s, nodeCount, direction) ==
  /\ s \in Edges /\ nodeCount \in Nat /\ direction \in Direction
  /\ Grouped(s, direction)
  /\ \A i \in DOMAIN s : Owner(s[i], direction) < nodeCount

(* The places of the edges of the nodes below k.                           *)
PlacesBelow(s, k, direction) == {i \in DOMAIN s : Owner(s[i], direction) < k}

\* Edges grouped by owner: those of lower nodes come first.
LEMMA LowerFirst ==
  ASSUME NEW s, NEW nodeCount, NEW direction, Sectioned(s, nodeCount, direction), NEW k \in Nat
  PROVE  /\ Cardinality(PlacesBelow(s, k, direction)) \in 0..Len(s)
         /\ PlacesBelow(s, k, direction) = 1..Cardinality(PlacesBelow(s, k, direction))
<1> DEFINE T == PlacesBelow(s, k, direction)
<1>1. /\ s \in Seq(Edge) /\ direction \in Direction /\ Len(s) \in Nat /\ DOMAIN s = 1..Len(s)
      /\ \A i, j \in DOMAIN s : i < j => Ahead(s[i], s[j], direction)
  BY DEF Sectioned, Edges, Edge, Grouped
<1>2. \A i \in 1..Len(s) : s[i] \in Edge /\ Owner(s[i], direction) \in Nat
  BY <1>1, EdgeParts
<1>3. \A i, j \in 1..Len(s) : i < j => Owner(s[i], direction) <= Owner(s[j], direction)
  BY <1>1, <1>2 DEF Ahead
<1>4. T \in SUBSET (1..Len(s))  BY <1>1 DEF PlacesBelow
<1>5. ASSUME NEW i \in T, NEW j \in 1..i  PROVE j \in T
  <2>1. i \in 1..Len(s) /\ Owner(s[i], direction) < k  BY <1>1 DEF PlacesBelow
  <2>2. j \in 1..Len(s) /\ (j = i \/ j < i)  BY <2>1
  <2>3. Owner(s[j], direction) <= Owner(s[i], direction)  BY <1>2, <1>3, <2>1, <2>2
  <2>4. Owner(s[j], direction) < k  BY <1>2, <2>1, <2>2, <2>3
  <2> QED  BY <1>1, <2>2, <2>4 DEF PlacesBelow
<1> HIDE DEF T
<1>6. Cardinality(T) \in 0..Len(s) /\ T = 1..Cardinality(T)  BY <1>1, <1>4, <1>5, Beginning
<1> QED  BY <1>6 DEF T

\* The offset of a node counts the edges of the nodes below it.
LEMMA OffsetsCount ==
  ASSUME NEW s, NEW nodeCount, NEW direction, Sectioned(s, nodeCount, direction)
  PROVE  \A k \in 0..nodeCount :
           Offsets(s, nodeCount, direction)[k] = Cardinality(PlacesBelow(s, k, direction))
<1> DEFINE N == nodeCount
           Count(n) == Cardinality({i \in DOMAIN s : Owner(s[i], direction) = n})
           Rec(f) == [n \in 0..N |-> IF n = 0 THEN 0 ELSE f[n - 1] + Count(n - 1)]
           F == [n \in 0..N |-> Cardinality(PlacesBelow(s, n, direction))]
<1>1. /\ N \in Nat /\ s \in Seq(Edge) /\ direction \in Direction
      /\ DOMAIN s = 1..Len(s) /\ Len(s) \in Nat
      /\ \A i \in DOMAIN s : s[i] \in Edge /\ Owner(s[i], direction) \in Nat
  BY EdgeParts DEF Sectioned, Edges, Edge
<1>2. IsFiniteSet(DOMAIN s)  BY <1>1, FS_Interval
<1>3. F[0] = 0
  <2>1. PlacesBelow(s, 0, direction) = {}  BY <1>1 DEF PlacesBelow
  <2>2. 0 \in 0..N  BY <1>1
  <2> QED  BY <2>1, <2>2, FS_EmptySet
<1>4. ASSUME NEW n \in 0..N, n # 0  PROVE F[n] = F[n - 1] + Count(n - 1)
  <2> DEFINE A == PlacesBelow(s, n - 1, direction)
             B == {i \in DOMAIN s : Owner(s[i], direction) = n - 1}
  <2>1. n - 1 \in 0..N /\ n \in Nat /\ n - 1 \in Nat  BY <1>1, <1>4
  <2>2. PlacesBelow(s, n, direction) = A \cup B  BY <1>1, <2>1 DEF PlacesBelow
  <2>3. A \cap B = {}  BY <1>1, <2>1 DEF PlacesBelow
  <2>4. A \in SUBSET DOMAIN s /\ B \in SUBSET DOMAIN s  BY DEF PlacesBelow
  <2>5. F[n] = Cardinality(A \cup B) /\ F[n - 1] = Cardinality(A) /\ Count(n - 1) = Cardinality(B)
    BY <2>1, <2>2
  <2> HIDE DEF A, B, F, Count
  <2>6. IsFiniteSet(A) /\ IsFiniteSet(B)  BY <1>2, <2>4, FS_Subset
  <2>7. Cardinality(A) \in Nat /\ Cardinality(B) \in Nat  BY <2>6, FS_CardinalityType
  <2>8. Cardinality(A \cup B) = Cardinality(A) + Cardinality(B) - Cardinality(A \cap B)
    BY <2>6, FS_Union
  <2>9. Cardinality(A \cap B) = 0  BY <2>3, FS_EmptySet
  <2> QED  BY <2>5, <2>7, <2>8, <2>9
<1>5. F = Rec(F)  BY <1>3, <1>4
<1> DEFINE o == Offsets(s, N, direction)
<1>6. o = CHOOSE f : f = Rec(f)  BY DEF Offsets
<1>7. o = Rec(o)  BY <1>5, <1>6
<1> HIDE DEF o
<1>8. o[0] = 0 /\ \A n \in 0..N : n # 0 => o[n] = o[n - 1] + Count(n - 1)
  <2>1. 0 \in 0..N  BY <1>1
  <2> QED  BY <1>7, <2>1
<1> HIDE DEF F, Rec, Count
<1> DEFINE G == {n \in 0..N : o[n] = F[n]}
<1>9. 0 \in G  BY <1>1, <1>3, <1>8
<1>10. ASSUME NEW k \in 0..(N - 1), k \in G  PROVE k + 1 \in G
  <2>1. k + 1 \in 0..N /\ k + 1 # 0 /\ (k + 1) - 1 = k  BY <1>1
  <2>2. o[k + 1] = o[k] + Count(k) /\ F[k + 1] = F[k] + Count(k)  BY <1>4, <1>8, <2>1
  <2> QED  BY <1>10, <2>1, <2>2
<1>11. 0..N \subseteq G
  <2> HIDE DEF G
  <2> QED  BY <1>1, <1>9, <1>10, UpTo
<1>12. \A k \in 0..N : o[k] = F[k]  BY <1>11
<1> QED  BY <1>12 DEF o, F

\* The offsets of a node and the next enclose the places of its edges.
LEMMA OffsetsEnclose ==
  ASSUME NEW s, NEW nodeCount, NEW direction, Sectioned(s, nodeCount, direction)
  PROVE  LET o == Offsets(s, nodeCount, direction)
         IN  /\ o[0] = 0 /\ o[nodeCount] = Len(s)
             /\ \A k \in 0..nodeCount : o[k] \in 0..Len(s)
             /\ \A k \in 0..(nodeCount - 1) :
                  /\ o[k] <= o[k + 1]
                  /\ \A i \in DOMAIN s : Owner(s[i], direction) = k <=> i \in (o[k] + 1)..o[k + 1]
<1> DEFINE o == Offsets(s, nodeCount, direction)
<1>1. /\ nodeCount \in Nat /\ s \in Seq(Edge) /\ direction \in Direction
      /\ DOMAIN s = 1..Len(s) /\ Len(s) \in Nat
      /\ \A i \in DOMAIN s : s[i] \in Edge /\ Owner(s[i], direction) \in Nat
      /\ \A i \in DOMAIN s : Owner(s[i], direction) < nodeCount
  BY EdgeParts DEF Sectioned, Edges, Edge
<1>2. \A k \in 0..nodeCount : o[k] \in 0..Len(s) /\ PlacesBelow(s, k, direction) = 1..o[k]
  <2> TAKE k \in 0..nodeCount
  <2>1. k \in Nat  BY <1>1
  <2> QED  BY <2>1, LowerFirst, OffsetsCount
<1> HIDE DEF o
<1>3. \A k \in 0..nodeCount, i \in DOMAIN s : Owner(s[i], direction) < k <=> i <= o[k]
  <2> TAKE k \in 0..nodeCount, i \in DOMAIN s
  <2>1. o[k] \in 0..Len(s) /\ (i \in PlacesBelow(s, k, direction) <=> i \in 1..o[k])  BY <1>2
  <2>2. i \in PlacesBelow(s, k, direction) <=> Owner(s[i], direction) < k  BY DEF PlacesBelow
  <2>3. i \in 1..o[k] <=> i <= o[k]  BY <1>1, <2>1
  <2> QED  BY <2>1, <2>2, <2>3
<1>4. o[0] = 0
  <2>1. 0 \in 0..nodeCount  BY <1>1
  <2>2. o[0] \in 0..Len(s)  BY <1>2, <2>1
  <2>3. CASE o[0] # 0
    <3>1. 1 \in DOMAIN s /\ 1 <= o[0]  BY <1>1, <2>2, <2>3
    <3>2. Owner(s[1], direction) < 0  BY <1>3, <2>1, <3>1
    <3> QED  BY <1>1, <3>1, <3>2
  <2> QED  BY <2>3
<1>5. o[nodeCount] = Len(s)
  <2>1. nodeCount \in 0..nodeCount  BY <1>1
  <2>2. o[nodeCount] \in 0..Len(s)  BY <1>2, <2>1
  <2>3. CASE Len(s) # 0
    <3>1. Len(s) \in DOMAIN s  BY <1>1, <2>3
    <3>2. Len(s) <= o[nodeCount]  BY <1>1, <1>3, <2>1, <3>1
    <3> QED  BY <1>1, <2>2, <3>2
  <2> QED  BY <1>1, <2>2, <2>3
<1>6. ASSUME NEW k \in 0..(nodeCount - 1)
      PROVE  /\ o[k] <= o[k + 1]
             /\ \A i \in DOMAIN s : Owner(s[i], direction) = k <=> i \in (o[k] + 1)..o[k + 1]
  <2>1. k \in 0..nodeCount /\ k + 1 \in 0..nodeCount /\ k \in Nat  BY <1>1
  <2>2. o[k] \in 0..Len(s) /\ o[k + 1] \in 0..Len(s)  BY <1>2, <2>1
  <2>3. o[k] <= o[k + 1]
    <3>1. CASE o[k] # 0
      <4>1. o[k] \in DOMAIN s  BY <1>1, <2>2, <3>1
      <4>2. Owner(s[o[k]], direction) < k  BY <1>3, <2>1, <2>2, <4>1
      <4>3. Owner(s[o[k]], direction) < k + 1  BY <1>1, <2>1, <4>1, <4>2
      <4> QED  BY <1>3, <2>1, <4>1, <4>3
    <3> QED  BY <2>2, <3>1
  <2>4. ASSUME NEW i \in DOMAIN s
        PROVE  Owner(s[i], direction) = k <=> i \in (o[k] + 1)..o[k + 1]
    <3>1. /\ Owner(s[i], direction) < k <=> i <= o[k]
          /\ Owner(s[i], direction) < k + 1 <=> i <= o[k + 1]
      BY <1>3, <2>1
    <3>2. Owner(s[i], direction) \in Nat /\ i \in Nat  BY <1>1
    <3> QED  BY <2>1, <2>2, <3>1, <3>2
  <2> QED  BY <2>3, <2>4
<1> QED  BY <1>2, <1>4, <1>5, <1>6 DEF o

\* The slice that the offsets give a node has the neighbours of the node, in
\* order (neighbors_iter).
LEMMA SliceExact ==
  ASSUME NEW s, NEW nodeCount, NEW direction, Sectioned(s, nodeCount, direction),
         NEW n \in 0..(nodeCount - 1)
  PROVE  LET l == Slice(Section(s, nodeCount, direction), n)
             o == Offsets(s, nodeCount, direction)
         IN  /\ l \in Seq(Neighbor) /\ Sorted(l)
             /\ Elements(l) = Around(Elements(s), n, direction)
             /\ Len(l) = o[n + 1] - o[n]
             /\ \A i \in 1..Len(l) : o[n] + i \in DOMAIN s /\ l[i] = Shows(s[o[n] + i], direction)
<1> DEFINE l == Slice(Section(s, nodeCount, direction), n)
           o == Offsets(s, nodeCount, direction)
           a == o[n]
           L == o[n + 1] - o[n]
<1>1. /\ nodeCount \in Nat /\ s \in Seq(Edge) /\ direction \in Direction
      /\ DOMAIN s = 1..Len(s) /\ Len(s) \in Nat
      /\ \A i \in DOMAIN s : s[i] \in Edge /\ Shows(s[i], direction) \in Neighbor
      /\ \A i, j \in DOMAIN s : i < j => Ahead(s[i], s[j], direction)
  BY EdgeParts DEF Sectioned, Edges, Edge, Grouped
<1>2. /\ a \in 0..Len(s) /\ a + L \in 0..Len(s) /\ L \in Nat
      /\ \A i \in DOMAIN s : Owner(s[i], direction) = n <=> i \in (a + 1)..(a + L)
  <2>1. n \in 0..nodeCount /\ n + 1 \in 0..nodeCount  BY <1>1
  <2>2. /\ o[n] \in 0..Len(s) /\ o[n + 1] \in 0..Len(s) /\ o[n] <= o[n + 1]
        /\ \A i \in DOMAIN s : Owner(s[i], direction) = n <=> i \in (o[n] + 1)..o[n + 1]
    BY <2>1, OffsetsEnclose
  <2>3. o[n] + (o[n + 1] - o[n]) = o[n + 1]  BY <2>2
  <2> QED  BY <1>1, <2>2, <2>3
<1>3. l = [i \in 1..L |-> <<Section(s, nodeCount, direction).nodes[a + i],
                            Section(s, nodeCount, direction).kinds[a + i]>>]
  BY DEF Slice, Section
<1>4. \A i \in 1..L : a + i \in DOMAIN s  BY <1>1, <1>2
<1>5. \A i \in 1..L : l[i] = Shows(s[a + i], direction)
  BY <1>3, <1>4 DEF Section, Shows
<1>6. l \in Seq(Neighbor) /\ Len(l) = L /\ DOMAIN l = 1..L
  <2>1. l = [i \in 1..L |-> l[i]]  BY <1>3
  <2> HIDE DEF l, L
  <2>2. l \in [1..L -> Neighbor]  BY <1>1, <1>4, <1>5, <2>1
  <2> QED  BY <1>2, <2>2
<1> HIDE DEF l, a, L
<1>7. Sorted(l)
  <2> SUFFICES ASSUME NEW i \in 1..L, NEW j \in 1..L, i < j  PROVE Less(l[i], l[j])
    BY <1>6 DEF Sorted
  <2>1. a + i \in DOMAIN s /\ a + j \in DOMAIN s /\ a + i < a + j  BY <1>2, <1>4
  <2>2. a + i \in (a + 1)..(a + L) /\ a + j \in (a + 1)..(a + L)  BY <1>2
  <2>3. Owner(s[a + i], direction) = n /\ Owner(s[a + j], direction) = n  BY <1>2, <2>1, <2>2
  <2>4. Ahead(s[a + i], s[a + j], direction)  BY <1>1, <2>1
  <2> QED  BY <1>5, <2>3, <2>4 DEF Ahead
<1>8. ASSUME NEW x \in Elements(l)  PROVE x \in Around(Elements(s), n, direction)
  <2>1. PICK i \in 1..L : x = l[i]  BY <1>6 DEF Elements
  <2>2. a + i \in DOMAIN s /\ a + i \in (a + 1)..(a + L)  BY <1>2, <1>4
  <2>3. s[a + i] \in Elements(s) /\ Owner(s[a + i], direction) = n
    BY <1>2, <2>2 DEF Elements
  <2> QED  BY <1>5, <2>1, <2>3 DEF Around
<1>9. ASSUME NEW x \in Around(Elements(s), n, direction)  PROVE x \in Elements(l)
  <2>1. PICK e \in Elements(s) : Owner(e, direction) = n /\ x = Shows(e, direction)
    BY DEF Around
  <2>2. PICK j \in DOMAIN s : e = s[j]  BY DEF Elements
  <2>3. j \in (a + 1)..(a + L)  BY <1>2, <2>1, <2>2
  <2>4. j - a \in 1..L /\ a + (j - a) = j  BY <1>2, <2>3
  <2>5. l[j - a] = x  BY <1>5, <2>1, <2>2, <2>4
  <2> QED  BY <1>6, <2>4, <2>5 DEF Elements
<1> QED  BY <1>4, <1>5, <1>6, <1>7, <1>8, <1>9 DEF l, a, L

-----------------------------------------------------------------------------
(* The operations of a node.                                               *)

\* The list of a node in an OperationIndex has its operations in order, in
\* both directions, although the edges are sorted for one of them.
LEMMA OperationsExact ==
  ASSUME NEW s \in Edges, Grouped(s, "forward"), NEW n \in Nat, NEW direction \in Direction
  PROVE  /\ Operations(s, n, direction) \in Seq(Neighbor)
         /\ Sorted(Operations(s, n, direction))
         /\ Elements(Operations(s, n, direction)) = Around(Elements(s), n, direction)
<1> DEFINE D == Len(s)
           X == Seq(Neighbor)
           Own(i) == Owner(s[i], direction) = n
           Rec(f) == [i \in 0..D |->
             IF i = 0 THEN <<>>
             ELSE IF Own(i) THEN Append(f[i - 1], <<Other(s[i], direction), Kind(s[i])>>)
             ELSE f[i - 1]]
           step == [i \in 1..D |->
             [l \in X |-> IF Own(i) THEN Append(l, Shows(s[i], direction)) ELSE l]]
<1>1. /\ s \in Seq(Edge) /\ D \in Nat /\ DOMAIN s = 1..D
      /\ \A i \in 1..D : s[i] \in Edge /\ Shows(s[i], direction) \in Neighbor
      /\ \A i, j \in 1..D : i < j => Ahead(s[i], s[j], "forward")
  <2>1. s \in Seq(Edge)  BY DEF Edges, Edge
  <2>2. D \in Nat /\ DOMAIN s = 1..D /\ \A i \in 1..D : s[i] \in Edge  BY <2>1
  <2> QED  BY <2>1, <2>2, EdgeParts DEF Grouped
<1>2. \A i \in 1..D : step[i] \in [X -> X]
  <2> TAKE i \in 1..D
  <2>1. \A l \in X : Append(l, Shows(s[i], direction)) \in X  BY <1>1
  <2>2. step[i] = [l \in X |-> IF Own(i) THEN Append(l, Shows(s[i], direction)) ELSE l]
    OBVIOUS
  <2> HIDE DEF X, Own
  <2> QED  BY <2>1, <2>2
<1>3. \A i \in 1..D, l \in X : step[i][l] = IF Own(i) THEN Append(l, Shows(s[i], direction)) ELSE l
  OBVIOUS
<1>4. <<>> \in X  OBVIOUS
<1> HIDE DEF step, X, D
<1>5. PICK f \in [0..D -> X] : f[0] = <<>> /\ \A i \in 1..D : f[i] = step[i][f[i - 1]]
  <2>1. D \in Nat  BY <1>1
  <2> HIDE DEF Rec, Own
  <2>2. Turns(X, <<>>, step, D) # {}  BY <1>2, <1>4, <2>1, Folded
  <2>3. PICK f \in Turns(X, <<>>, step, D) : TRUE  BY <2>2
  <2> QED  BY <2>3 DEF Turns
<1>6. \A i \in 0..D : i # 0 => i \in 1..D /\ i - 1 \in 0..D  BY <1>1
<1>7. f = Rec(f)
  <2>1. ASSUME NEW i \in 0..D
        PROVE  f[i] = IF i = 0 THEN <<>>
                      ELSE IF Own(i) THEN Append(f[i - 1], <<Other(s[i], direction), Kind(s[i])>>)
                      ELSE f[i - 1]
    <3>1. CASE i = 0  BY <1>5, <3>1
    <3>2. CASE i # 0
      <4>1. i \in 1..D /\ i - 1 \in 0..D  BY <1>6, <3>2
      <4>2. f[i - 1] \in X  BY <1>5, <4>1
      <4>3. f[i] = IF Own(i) THEN Append(f[i - 1], Shows(s[i], direction)) ELSE f[i - 1]
        BY <1>3, <1>5, <4>1, <4>2
      <4> QED  BY <3>2, <4>3 DEF Shows
    <3> QED  BY <3>1, <3>2
  <2> HIDE DEF Own
  <2> QED  BY <1>5, <2>1
<1> DEFINE w == CHOOSE g : g = Rec(g)
<1>8. w = Rec(w)  BY <1>7
<1>9. Operations(s, n, direction) = w[D]  BY DEF Operations, D
<1> HIDE DEF w
<1>10. /\ w[0] = <<>>
       /\ \A i \in 1..D : w[i] = IF Own(i) THEN Append(w[i - 1], Shows(s[i], direction))
                                 ELSE w[i - 1]
  <2>1. 0 \in 0..D /\ \A i \in 1..D : i \in 0..D /\ i # 0  BY <1>1
  <2>2. \A i \in 0..D : w[i] = IF i = 0 THEN <<>>
             ELSE IF Own(i) THEN Append(w[i - 1], <<Other(s[i], direction), Kind(s[i])>>)
             ELSE w[i - 1]
    BY <1>8
  <2> QED  BY <2>1, <2>2 DEF Shows
<1> HIDE DEF Rec, Own
<1> DEFINE Pushed(k) == {Shows(s[j], direction) : j \in {i \in 1..k : Own(i)}}
           G == {k \in 0..D : w[k] \in Seq(Neighbor) /\ Sorted(w[k]) /\ Elements(w[k]) = Pushed(k)}
<1>11. 0 \in G
  <2>1. Pushed(0) = {}  OBVIOUS
  <2>2. <<>> \in Seq(Neighbor) /\ Sorted(<<>>)  BY DEF Sorted
  <2>3. 0 \in 0..D  BY <1>1
  <2>4. Elements(<<>>) = {}  BY ElementsEmpty
  <2> HIDE DEF Pushed
  <2> QED  BY <1>10, <2>1, <2>2, <2>3, <2>4
<1>12. ASSUME NEW k \in 0..(D - 1), k \in G  PROVE k + 1 \in G
  <2>1. k + 1 \in 1..D /\ k + 1 \in 0..D /\ (k + 1) - 1 = k /\ k \in Nat  BY <1>1
  <2>2. w[k] \in Seq(Neighbor) /\ Sorted(w[k]) /\ Elements(w[k]) = Pushed(k)  BY <1>12
  <2>3. w[k + 1] = IF Own(k + 1) THEN Append(w[k], Shows(s[k + 1], direction)) ELSE w[k]
    BY <1>10, <2>1
  <2>4. CASE ~ Own(k + 1)
    <3>1. \A i \in 1..(k + 1) : i \in 1..k \/ i = k + 1  BY <2>1
    <3>2. \A i \in 1..k : i \in 1..(k + 1)  BY <2>1
    <3>3. {i \in 1..(k + 1) : Own(i)} = {i \in 1..k : Own(i)}  BY <2>4, <3>1, <3>2
    <3>4. Pushed(k + 1) = Pushed(k)  BY <3>3
    <3> HIDE DEF Pushed
    <3> QED  BY <2>1, <2>2, <2>3, <2>4, <3>4
  <2>5. CASE Own(k + 1)
    <3> DEFINE x == Shows(s[k + 1], direction)
    <3>1. \A i \in 1..(k + 1) : i \in 1..k \/ i = k + 1  BY <2>1
    <3>2. (\A i \in 1..k : i \in 1..(k + 1)) /\ k + 1 \in 1..(k + 1)  BY <2>1
    <3>3. {i \in 1..(k + 1) : Own(i)} = {i \in 1..k : Own(i)} \cup {k + 1}
      BY <2>5, <3>1, <3>2
    <3>4. Pushed(k + 1) = Pushed(k) \cup {x}  BY <3>3
    <3>5. x \in Neighbor  BY <1>1, <2>1
    <3>6. ASSUME NEW y \in Pushed(k)  PROVE Less(y, x)
      <4>1. PICK j \in 1..k : Own(j) /\ y = Shows(s[j], direction)  OBVIOUS
      <4>2. j \in 1..D /\ j < k + 1  BY <2>1, <1>1
      <4>3. Ahead(s[j], s[k + 1], "forward") /\ s[j] \in Edge /\ s[k + 1] \in Edge
        BY <1>1, <2>1, <4>2
      <4>4. Owner(s[j], direction) = Owner(s[k + 1], direction)  BY <2>5, <4>1 DEF Own
      <4> HIDE DEF Pushed
      <4>5. Less(Shows(s[j], direction), Shows(s[k + 1], direction))
        BY <4>3, <4>4
           DEF Edge, Direction, Ahead, Owner, Shows, Other, Source, Target, Kind, Less
      <4> QED  BY <4>1, <4>5
    <3> HIDE DEF Pushed, x
    <3>7. Precedes(Elements(w[k]), {x})  BY <2>2, <3>6 DEF Precedes
    <3>8. w[k + 1] = Append(w[k], x)  BY <2>3, <2>5 DEF x
    <3>9. w[k + 1] \in Seq(Neighbor) /\ Elements(w[k + 1]) = Pushed(k + 1)
      BY <2>2, <3>4, <3>5, <3>8, ElementsAppend
    <3>10. Sorted(w[k + 1])  BY <2>2, <3>5, <3>7, <3>8, SortedAppend
    <3> QED  BY <2>1, <3>9, <3>10
  <2> QED  BY <2>4, <2>5
<1>13. 0..D \subseteq G
  <2> HIDE DEF G
  <2> QED  BY <1>1, <1>11, <1>12, UpTo
<1>14. w[D] \in Seq(Neighbor) /\ Sorted(w[D]) /\ Elements(w[D]) = Pushed(D)
  <2>1. D \in 0..D  BY <1>1
  <2>2. D \in G  BY <1>13, <2>1
  <2> QED  BY <2>2
<1>15. Pushed(D) = Around(Elements(s), n, direction)
  BY <1>1 DEF Around, Elements, Own
<1> HIDE DEF Pushed
<1> QED  BY <1>9, <1>14, <1>15

-----------------------------------------------------------------------------
(* What a file shows.                                                      *)

Direct(edges, nodeCount) ==
  /\ edges \in Edges /\ nodeCount \in Nat
  /\ InRange(nodeCount, edges) /\ Distinct(edges)

PackedAs(edges, nodeCount) == Encode(nodeCount, Canonical(edges), Reversed(edges))

\* Both orders of the edges of a dataset are as the sections need them.
LEMMA SectionsOf ==
  ASSUME NEW edges, NEW nodeCount, Direct(edges, nodeCount)
  PROVE  /\ Sectioned(Canonical(edges), nodeCount, "forward")
         /\ Sectioned(Reversed(edges), nodeCount, "reverse")
<1>1. edges \in Edges /\ nodeCount \in Nat /\ InRange(nodeCount, edges) /\ Distinct(edges)
  BY DEF Direct
<1>2. {"forward", "reverse"} \subseteq Direction  BY DEF Direction
<1>3. \A e \in Elements(edges) : Owner(e, "forward") < nodeCount /\ Owner(e, "reverse") < nodeCount
  BY <1>1 DEF InRange, Owner
<1>4. \A s \in Edges : \A i \in DOMAIN s : s[i] \in Elements(s)  BY DEF Elements
<1> QED  BY <1>1, <1>2, <1>3, <1>4, CanonicalEdges DEF Sectioned

\* A packed graph shows the neighbours of its edges, in order.
LEMMA PackedExact ==
  ASSUME NEW edges, NEW nodeCount, Direct(edges, nodeCount),
         NEW n \in 0..(nodeCount - 1), NEW direction \in Direction
  PROVE  LET l == PackedNeighbors(PackedAs(edges, nodeCount), n, direction)
         IN  /\ l \in Seq(Neighbor) /\ Sorted(l)
             /\ Elements(l) = Around(Elements(edges), n, direction)
<1>1. edges \in Edges /\ Distinct(edges)  BY DEF Direct
<1>2. /\ Sectioned(Canonical(edges), nodeCount, "forward")
      /\ Sectioned(Reversed(edges), nodeCount, "reverse")
  BY SectionsOf
<1>3. Elements(Canonical(edges)) = Elements(edges) /\ Elements(Reversed(edges)) = Elements(edges)
  BY <1>1, CanonicalEdges
<1> DEFINE f == Section(Canonical(edges), nodeCount, "forward")
           r == Section(Reversed(edges), nodeCount, "reverse")
<1>4. PackedAs(edges, nodeCount).forward = f /\ PackedAs(edges, nodeCount).reverse = r
  BY DEF PackedAs, Encode
<1>5. CASE direction = "forward"
  <2>1. PackedNeighbors(PackedAs(edges, nodeCount), n, direction) = Slice(f, n)
    BY <1>4, <1>5 DEF PackedNeighbors
  <2> HIDE DEF f
  <2>2. /\ Slice(f, n) \in Seq(Neighbor) /\ Sorted(Slice(f, n))
        /\ Elements(Slice(f, n)) = Around(Elements(Canonical(edges)), n, "forward")
    BY <1>2, SliceExact DEF f
  <2> QED  BY <1>3, <1>5, <2>1, <2>2
<1>6. CASE direction = "reverse"
  <2>1. PackedNeighbors(PackedAs(edges, nodeCount), n, direction) = Slice(r, n)
    BY <1>4, <1>6 DEF PackedNeighbors
  <2> HIDE DEF r
  <2>2. /\ Slice(r, n) \in Seq(Neighbor) /\ Sorted(Slice(r, n))
        /\ Elements(Slice(r, n)) = Around(Elements(Reversed(edges)), n, "reverse")
    BY <1>2, SliceExact DEF r
  <2> QED  BY <1>3, <1>6, <2>1, <2>2
<1> QED  BY <1>5, <1>6 DEF Direction

\* What a node shows of a set of edges tells which of its edges are in it.
LEMMA AroundTells ==
  ASSUME NEW E \in SUBSET Edge, NEW e \in Edge, NEW direction \in Direction
  PROVE  Shows(e, direction) \in Around(E, Owner(e, direction), direction) <=> e \in E
<1>1. ASSUME Shows(e, direction) \in Around(E, Owner(e, direction), direction)  PROVE e \in E
  <2>1. PICK d \in E : Owner(d, direction) = Owner(e, direction)
                       /\ Shows(d, direction) = Shows(e, direction)
    BY <1>1 DEF Around
  <2> QED  BY <2>1, ShownEdge
<1>2. ASSUME e \in E  PROVE Shows(e, direction) \in Around(E, Owner(e, direction), direction)
  BY <1>2 DEF Around
<1> QED  BY <1>1, <1>2

\* Hence it follows what is removed and added.
LEMMA AroundChanged ==
  ASSUME NEW E \in SUBSET Edge, NEW R \in SUBSET Edge, NEW A \in SUBSET Edge,
         NEW n, NEW direction \in Direction
  PROVE  /\ Around((E \ R) \cup A, n, direction)
              = (Around(E, n, direction) \ Around(R, n, direction)) \cup Around(A, n, direction)
         /\ E \cap A = {} => Around(E, n, direction) \cap Around(A, n, direction) = {}
<1>1. \A d, e \in Edge : Owner(d, direction) = n /\ Owner(e, direction) = n
                         /\ Shows(d, direction) = Shows(e, direction) => d = e
  BY ShownEdge
<1> QED  BY <1>1 DEF Around

-----------------------------------------------------------------------------
(* The inductive invariant.                                                *)

Accepted == {"hash", "hashing", "query", "merge", "done"}
Changing == {"conflicts", "members"} \cup Accepted

Proper(edges) == Direct(edges, dataset.nodeCount)

(* What is open is what was packed.                                        *)
Stored ==
  /\ pc = "pack" => file = NoFile
  /\ pc \notin {"pack", "refused"} =>
       Proper(dataset.edges) /\ file = PackedAs(dataset.edges, dataset.nodeCount)
  /\ pc # "refused" => error = "none"

(* The canonical changes; nothing that the comparison has passed is in     *)
(* both lists.                                                             *)
Compared ==
  /\ pc \in {"pack", "open", "changes"} => adds = <<>> /\ dels = <<>>
  /\ pc \in Changing =>
       /\ Proper(changes.added) /\ Proper(changes.removed)
       /\ adds = Canonical(changes.added) /\ dels = Canonical(changes.removed)
  /\ pc = "conflicts" =>
       /\ \A i \in 1..(addAt - 1) : adds[i] \notin Elements(dels)
       /\ \A i \in 1..(delAt - 1) : dels[i] \notin Elements(adds)
  /\ pc \in {"members"} \cup Accepted => Elements(adds) \cap Elements(dels) = {}
  /\ pc \in Accepted => Elements(dels) \subseteq Packed /\ Elements(adds) \cap Packed = {}

(* The nodes below "source" are hashed, in order.                          *)
HashedTo ==
  /\ pc \notin {"refused"} \cup Accepted => source = 0 /\ hashed = <<>>
  /\ pc \in Accepted =>
       /\ Grouped(hashed, "forward")
       /\ Elements(hashed) = {e \in Visible : Source(e) < source}
  /\ pc \in {"query", "merge", "done"} => source = file.nodeCount

(* A merge is of a node's lists.                                           *)
MergeOf(n, direction) ==
  /\ n \in 0..(file.nodeCount - 1) /\ direction \in Direction
  /\ base = PackedNeighbors(file, n, direction)
  /\ removed = Operations(dels, n, direction)
  /\ added = Operations(adds, n, direction)
  /\ phase # "idle"

MergesNode ==
  /\ pc = "hashing" => MergeOf(source, "forward")
  /\ pc = "merge" => MergeOf(query[1], query[2])
  /\ pc \notin {"hashing", "merge"} => phase \in {"idle", "done"}

(* ChangesExact, in these terms.                                           *)
Acceptable ==
  /\ Proper(dataset.edges) /\ Proper(changes.added) /\ Proper(changes.removed)
  /\ Elements(changes.removed) \subseteq Packed
  /\ Elements(changes.added) \cap Packed = {}

InBoth == Elements(changes.added) \cap Elements(changes.removed)

Decided ==
  /\ pc \in Accepted => Acceptable
  /\ pc = "refused" /\ error # "node" => ~ Acceptable
  /\ error = "conflict" => InBoth # {}
  /\ error \in {"missing", "present"} => InBoth = {}

VisibleInv ==
  /\ TypeOK /\ MergeIInv
  /\ Stored /\ Compared /\ HashedTo /\ MergesNode
  /\ Decided /\ NeighborsExact

-----------------------------------------------------------------------------
(* What the invariant says of the lists.                                   *)

\* The parts of a file that was packed.
LEMMA PackedParts ==
  ASSUME NEW edges, NEW nodeCount, Direct(edges, nodeCount)
  PROVE  /\ PackedAs(edges, nodeCount).nodeCount = nodeCount /\ nodeCount \in Nat
         /\ PackedAs(edges, nodeCount).edgeCount = Len(edges)
<1>1. edges \in Edges /\ Distinct(edges) /\ nodeCount \in Nat  BY DEF Direct
<1>2. Len(Canonical(edges)) = Len(edges)  BY <1>1, CanonicalEdges
<1> QED  BY <1>1, <1>2 DEF PackedAs, Encode

\* Sorted lists of a proper dataset.
LEMMA ProperCanonical ==
  ASSUME NEW edges, Proper(edges)
  PROVE  /\ edges \in Edges /\ Canonical(edges) \in Edges
         /\ Elements(Canonical(edges)) = Elements(edges) /\ Len(Canonical(edges)) = Len(edges)
         /\ Grouped(Canonical(edges), "forward")
         /\ Elements(edges) \in SUBSET Edge /\ IsFiniteSet(Elements(edges))
         /\ Cardinality(Elements(edges)) = Len(edges)
         /\ \A e \in Elements(edges) : Source(e) < dataset.nodeCount /\ Target(e) < dataset.nodeCount
<1>1. /\ edges \in Edges /\ Distinct(edges) /\ InRange(dataset.nodeCount, edges)
      /\ edges \in Seq(Edge)
  BY DEF Proper, Direct, Edges, Edge
<1> QED  BY <1>1, CanonicalEdges, ElementsFinite DEF Distinct, InRange

\* Whether the base contains an edge is whether it was packed.
LEMMA ContainsExact ==
  ASSUME Stored, pc = "members", NEW e \in Edge, Source(e) < dataset.nodeCount
  PROVE  BaseContains(e) <=> e \in Packed
<1>1. Proper(dataset.edges) /\ file = PackedAs(dataset.edges, dataset.nodeCount)
  BY DEF Stored
<1>2. Source(e) \in 0..(dataset.nodeCount - 1)
  BY <1>1, EdgeParts DEF Proper, Direct, Direction
<1>3. "forward" \in Direction  BY DEF Direction
<1>4. Elements(PackedNeighbors(file, Source(e), "forward"))
        = Around(Packed, Source(e), "forward")
  BY <1>1, <1>2, <1>3, PackedExact DEF Proper, Packed
<1>5. Owner(e, "forward") = Source(e) /\ Shows(e, "forward") = <<Target(e), Kind(e)>>
  BY <1>3, EdgeParts
<1>6. Packed \in SUBSET Edge  BY <1>1, ProperCanonical DEF Packed
<1>7. Shows(e, "forward") \in Around(Packed, Owner(e, "forward"), "forward") <=> e \in Packed
  BY <1>3, <1>6, AroundTells
<1> QED  BY <1>4, <1>5, <1>7 DEF BaseContains

\* What is accepted: the sets that make up the visible graph.
LEMMA AcceptedSets ==
  ASSUME Stored, Compared, pc \in Accepted
  PROVE  /\ Packed \in SUBSET Edge /\ IsFiniteSet(Packed) /\ Cardinality(Packed) = file.edgeCount
         /\ Elements(dels) \in SUBSET Packed /\ Cardinality(Elements(dels)) = Len(dels)
         /\ Elements(adds) \in SUBSET Edge /\ IsFiniteSet(Elements(adds))
         /\ Cardinality(Elements(adds)) = Len(adds)
         /\ Elements(adds) \cap Packed = {}
         /\ Visible = (Packed \ Elements(dels)) \cup Elements(adds)
         /\ Visible \in SUBSET Edge
         /\ \A e \in Visible : Source(e) < file.nodeCount /\ Target(e) < file.nodeCount
         /\ file.nodeCount = dataset.nodeCount /\ file.nodeCount \in Nat
         /\ adds \in Edges /\ dels \in Edges
         /\ Grouped(adds, "forward") /\ Grouped(dels, "forward")
<1>1. Proper(dataset.edges) /\ file = PackedAs(dataset.edges, dataset.nodeCount)
  BY DEF Stored, Accepted
<1>2. /\ Proper(changes.added) /\ Proper(changes.removed)
      /\ adds = Canonical(changes.added) /\ dels = Canonical(changes.removed)
      /\ Elements(dels) \subseteq Packed /\ Elements(adds) \cap Packed = {}
  BY DEF Compared, Changing
<1>3. /\ file.nodeCount = dataset.nodeCount /\ file.nodeCount \in Nat
      /\ file.edgeCount = Len(dataset.edges)
  BY <1>1, PackedParts DEF Proper
<1>4. /\ Packed \in SUBSET Edge /\ IsFiniteSet(Packed) /\ Cardinality(Packed) = file.edgeCount
      /\ \A e \in Packed : Source(e) < file.nodeCount /\ Target(e) < file.nodeCount
  BY <1>1, <1>3, ProperCanonical DEF Packed
<1>5. /\ Elements(adds) = Elements(changes.added) /\ Elements(dels) = Elements(changes.removed)
      /\ Elements(adds) \in SUBSET Edge /\ IsFiniteSet(Elements(adds))
      /\ Cardinality(Elements(adds)) = Len(adds) /\ Cardinality(Elements(dels)) = Len(dels)
      /\ \A e \in Elements(adds) : Source(e) < file.nodeCount /\ Target(e) < file.nodeCount
      /\ adds \in Edges /\ dels \in Edges
      /\ Grouped(adds, "forward") /\ Grouped(dels, "forward")
  BY <1>2, <1>3, ProperCanonical
<1>6. Visible = (Packed \ Elements(dels)) \cup Elements(adds)  BY <1>5 DEF Visible
<1>7. /\ Visible \in SUBSET Edge
      /\ \A e \in Visible : Source(e) < file.nodeCount /\ Target(e) < file.nodeCount
  BY <1>4, <1>5, <1>6
<1> QED  BY <1>2, <1>3, <1>4, <1>5, <1>6, <1>7

\* The lists of a node, as merge_neighbors gets them.
LEMMA NodeLists ==
  ASSUME Stored, Compared, pc \in Accepted,
         NEW n \in 0..(file.nodeCount - 1), NEW direction \in Direction
  PROVE  LET b == PackedNeighbors(file, n, direction)
             r == Operations(dels, n, direction)
             a == Operations(adds, n, direction)
         IN  /\ Legal(b, r, a)
             /\ (Elements(b) \ Elements(r)) \cup Elements(a) = Around(Visible, n, direction)
<1> DEFINE b == PackedNeighbors(file, n, direction)
           r == Operations(dels, n, direction)
           a == Operations(adds, n, direction)
<1>1. Proper(dataset.edges) /\ file = PackedAs(dataset.edges, dataset.nodeCount)
  BY DEF Stored, Accepted
<1>2. /\ Packed \in SUBSET Edge /\ Elements(dels) \in SUBSET Packed
      /\ Elements(adds) \in SUBSET Edge /\ Elements(adds) \cap Packed = {}
      /\ Visible = (Packed \ Elements(dels)) \cup Elements(adds)
      /\ file.nodeCount = dataset.nodeCount /\ file.nodeCount \in Nat
      /\ adds \in Edges /\ dels \in Edges
      /\ Grouped(adds, "forward") /\ Grouped(dels, "forward")
  BY AcceptedSets
<1>3. n \in Nat  BY <1>2
<1>4. b \in Seq(Neighbor) /\ Sorted(b) /\ Elements(b) = Around(Packed, n, direction)
  BY <1>1, <1>2, PackedExact DEF Proper, Packed
<1>5. r \in Seq(Neighbor) /\ Sorted(r) /\ Elements(r) = Around(Elements(dels), n, direction)
  BY <1>2, <1>3, OperationsExact
<1>6. a \in Seq(Neighbor) /\ Sorted(a) /\ Elements(a) = Around(Elements(adds), n, direction)
  BY <1>2, <1>3, OperationsExact
<1> HIDE DEF b, r, a
<1>7. Elements(dels) \in SUBSET Edge /\ Packed \cap Elements(adds) = {}  BY <1>2
<1>8. /\ Around(Visible, n, direction)
           = (Around(Packed, n, direction) \ Around(Elements(dels), n, direction))
               \cup Around(Elements(adds), n, direction)
      /\ Around(Packed, n, direction) \cap Around(Elements(adds), n, direction) = {}
  BY <1>2, <1>7, AroundChanged
<1>9. Legal(b, r, a)  BY <1>4, <1>5, <1>6, <1>8 DEF Legal
<1>10. (Elements(b) \ Elements(r)) \cup Elements(a) = Around(Visible, n, direction)
  BY <1>4, <1>5, <1>6, <1>8
<1> QED  BY <1>9, <1>10 DEF b, r, a

\* What was merged for a node is what the visible graph has around it.
LEMMA MergedAround ==
  ASSUME Stored, Compared, MergeIInv, pc \in Accepted, NEW n, NEW direction,
         MergeOf(n, direction), phase = "done"
  PROVE  merged \in Seq(Neighbor) /\ Sorted(merged) /\ Elements(merged) = Around(Visible, n, direction)
<1>1. /\ Sorted(merged) /\ merged \in Seq(Neighbor)
      /\ Elements(merged) = (Elements(base) \ Elements(removed)) \cup Elements(added)
  BY DEF MergeIInv, MergeExact, TypeInv
<1>2. /\ n \in 0..(file.nodeCount - 1) /\ direction \in Direction
      /\ base = PackedNeighbors(file, n, direction)
      /\ removed = Operations(dels, n, direction) /\ added = Operations(adds, n, direction)
  BY DEF MergeOf
<1>3. (Elements(base) \ Elements(removed)) \cup Elements(added) = Around(Visible, n, direction)
  BY <1>2, NodeLists
<1> QED  BY <1>1, <1>3

\* A sorted list of neighbours is the list that the query promises.
LEMMA SortedIsOrdered ==
  ASSUME NEW s \in Seq(Neighbor), Sorted(s)
  PROVE  s = Ordered(Elements(s), Less)
<1> DEFINE S == Elements(s)
           R == {p \in S \X S : Less(p[1], p[2])}
<1>1. IsFiniteSet(S) /\ S \in SUBSET Neighbor  BY ElementsFinite
<1>2. \A x, y \in S : <<x, y>> \in R <=> Less(x, y)  OBVIOUS
<1>3. \A x \in S : x \in Neighbor  BY <1>1
<1>4. \A i \in DOMAIN s : s[i] \in S  BY DEF Elements
<1>5. Ordered(S, Less) = Ranked(S, R)  BY DEF Ordered
<1>6. s \in Seq(S)
  <2>1. s \in [1..Len(s) -> Neighbor] /\ Len(s) \in Nat /\ DOMAIN s = 1..Len(s)  OBVIOUS
  <2>2. s \in [1..Len(s) -> S]  BY <1>4, <2>1
  <2> QED  BY <2>1, <2>2
<1>7. Elements(s) = S  OBVIOUS
<1> HIDE DEF R, S
<1>8. TotalOrder(R, S)
  BY <1>2, <1>3, LessTransitive, LessIrreflexive, LessTotal DEF TotalOrder
<1>9. \A i, j \in DOMAIN s : i < j => <<s[i], s[j]>> \in R  BY <1>2, <1>4 DEF Sorted
<1>10. Lists(s, S, R)  BY <1>6, <1>7, <1>9 DEF Lists
<1>11. s = Ranked(S, R)  BY <1>1, <1>8, <1>10, RankedUnique
<1> QED  BY <1>5, <1>11 DEF S

-----------------------------------------------------------------------------
(* Steps: packing and refusing.                                            *)

\* The invariant decides as ChangesExact states.
LEMMA DecidedExactly ==
  ASSUME TypeOK, Decided
  PROVE  ChangesExact
<1>1. /\ dataset.nodeCount \in Nat /\ dataset.edges \in Edges
      /\ changes.added \in Edges /\ changes.removed \in Edges
  BY DEF TypeOK, Dataset, OverlayChanges
<1>2. \A edges \in Edges :
        Proper(edges) <=> InRange(dataset.nodeCount, edges) /\ Distinct(edges)
  BY <1>1 DEF Proper, Direct
<1> QED  BY <1>1, <1>2 DEF Decided, Acceptable, InBoth, Accepted, ChangesExact

\* canonical_edges accepts proper edges and no others.
LEMMA CanonicalDecides ==
  ASSUME TypeOK, NEW edges \in Edges
  PROVE  /\ CanonicalError(dataset.nodeCount, edges) = "none" <=> Proper(edges)
         /\ CanonicalError(dataset.nodeCount, edges) \in {"none", "range", "duplicate"}
<1>1. dataset.nodeCount \in Nat  BY DEF TypeOK, Dataset
<1> QED  BY <1>1 DEF CanonicalError, Proper, Direct

\* A refusal that is justified keeps the invariant.
LEMMA RefuseKeeps ==
  ASSUME VisibleInv, NEW cause, Refuse(cause), pc \notin {"hashing", "merge"},
         cause \in {"range", "duplicate", "conflict", "missing", "present", "node"},
         cause # "node" => ~ Acceptable,
         cause = "conflict" => InBoth # {},
         cause \in {"missing", "present"} => InBoth = {}
  PROVE  VisibleInv'
<1>1. /\ pc' = "refused" /\ error' = cause
      /\ UNCHANGED <<dataset, changes, file, adds, dels, addAt, delAt, source, hashed, query,
                     answer, base, removed, added, phase, at, removedAt, retained, left, right,
                     merged>>
  BY DEF Refuse, mergeVars
<1>2. TypeOK'
  BY <1>1 DEF VisibleInv, TypeOK
<1>3. MergeIInv'
  BY <1>1 DEF VisibleInv, MergeIInv, TypeInv, ArgInv, DropInv, MergeInv, MergeExact
<1>4. Stored' /\ Compared' /\ HashedTo'
  BY <1>1 DEF Stored, Compared, HashedTo, Changing, Accepted
<1>5. MergesNode'
  BY <1>1 DEF VisibleInv, MergesNode
<1>6. Decided'
  <2>1. (Acceptable' <=> Acceptable) /\ InBoth' = InBoth
    BY <1>1 DEF Acceptable, InBoth, Proper, Packed
  <2> QED  BY <1>1, <2>1 DEF Decided, Accepted
<1>7. NeighborsExact'
  BY <1>1 DEF NeighborsExact
<1> QED  BY <1>2, <1>3, <1>4, <1>5, <1>6, <1>7 DEF VisibleInv

LEMMA RefuseDatasetKeeps ==
  ASSUME VisibleInv, RefuseDataset
  PROVE  VisibleInv'
<1> DEFINE cause == CanonicalError(dataset.nodeCount, dataset.edges)
<1>1. pc = "pack" /\ cause # "none" /\ Refuse(cause)  BY DEF RefuseDataset
<1>2. dataset.edges \in Edges /\ TypeOK  BY DEF VisibleInv, TypeOK, Dataset
<1>3. cause \in {"range", "duplicate"} /\ ~ Proper(dataset.edges)
  BY <1>1, <1>2, CanonicalDecides
<1> HIDE DEF cause
<1> QED  BY <1>1, <1>3, RefuseKeeps DEF Acceptable

LEMMA RefuseChangesKeeps ==
  ASSUME VisibleInv, RefuseChanges
  PROVE  VisibleInv'
<1>1. pc = "changes" /\ ChangesError # "none" /\ Refuse(ChangesError)  BY DEF RefuseChanges
<1>2. changes.added \in Edges /\ changes.removed \in Edges /\ TypeOK
  BY DEF VisibleInv, TypeOK, OverlayChanges
<1>3. file.nodeCount = dataset.nodeCount
  BY <1>1, PackedParts DEF VisibleInv, Stored, Proper
<1>4. /\ ChangesError \in {"range", "duplicate"}
      /\ ~ Proper(changes.added) \/ ~ Proper(changes.removed)
  BY <1>1, <1>2, <1>3, CanonicalDecides DEF ChangesError
<1> QED  BY <1>1, <1>4, RefuseKeeps DEF Acceptable

LEMMA RefuseConflictKeeps ==
  ASSUME VisibleInv, RefuseConflict
  PROVE  VisibleInv'
<1>1. /\ pc = "conflicts" /\ addAt <= Len(adds) /\ delAt <= Len(dels)
      /\ adds[addAt] = dels[delAt] /\ Refuse("conflict")
  BY DEF RefuseConflict, Comparing
<1>2. /\ addAt \in 1..(Len(adds) + 1) /\ delAt \in 1..(Len(dels) + 1)
      /\ adds \in Edges /\ dels \in Edges
  BY DEF VisibleInv, TypeOK
<1>3. adds[addAt] \in Elements(adds) /\ adds[addAt] \in Elements(dels)
  <2>1. addAt \in DOMAIN adds /\ delAt \in DOMAIN dels  BY <1>1, <1>2 DEF Edges
  <2> QED  BY <1>1, <2>1 DEF Elements
<1>4. Elements(adds) = Elements(changes.added) /\ Elements(dels) = Elements(changes.removed)
  BY <1>1, ProperCanonical DEF VisibleInv, Compared, Changing
<1>5. InBoth # {}  BY <1>3, <1>4 DEF InBoth
<1>6. ~ Acceptable  BY <1>5 DEF InBoth, Acceptable
<1> QED  BY <1>1, <1>5, <1>6, RefuseKeeps

\* What the search for members compares with.
LEMMA MembersMean ==
  ASSUME VisibleInv, pc = "members"
  PROVE  /\ \A e \in Elements(adds) \cup Elements(dels) : BaseContains(e) <=> e \in Packed
         /\ Elements(adds) = Elements(changes.added) /\ Elements(dels) = Elements(changes.removed)
         /\ InBoth = {}
         /\ Proper(dataset.edges) /\ Proper(changes.added) /\ Proper(changes.removed)
<1>1. /\ Proper(dataset.edges) /\ Proper(changes.added) /\ Proper(changes.removed)
      /\ adds = Canonical(changes.added) /\ dels = Canonical(changes.removed)
      /\ Elements(adds) \cap Elements(dels) = {} /\ Stored
  BY DEF VisibleInv, Stored, Compared, Changing
<1>2. Elements(adds) = Elements(changes.added) /\ Elements(dels) = Elements(changes.removed)
  BY <1>1, ProperCanonical
<1>3. \A e \in Elements(adds) \cup Elements(dels) : e \in Edge /\ Source(e) < dataset.nodeCount
  BY <1>1, <1>2, ProperCanonical
<1> QED  BY <1>1, <1>2, <1>3, ContainsExact DEF InBoth

LEMMA RefuseMissingKeeps ==
  ASSUME VisibleInv, RefuseMissing
  PROVE  VisibleInv'
<1>1. pc = "members" /\ (\E e \in Elements(dels) : ~BaseContains(e)) /\ Refuse("missing")
  BY DEF RefuseMissing
<1>2. ~ Acceptable /\ InBoth = {}  BY <1>1, MembersMean DEF Acceptable
<1> QED  BY <1>1, <1>2, RefuseKeeps

LEMMA RefusePresentKeeps ==
  ASSUME VisibleInv, RefusePresent
  PROVE  VisibleInv'
<1>1. pc = "members" /\ (\E e \in Elements(adds) : BaseContains(e)) /\ Refuse("present")
  BY DEF RefusePresent
<1>2. ~ Acceptable /\ InBoth = {}  BY <1>1, MembersMean DEF Acceptable
<1> QED  BY <1>1, <1>2, RefuseKeeps

LEMMA RefuseNodeKeeps ==
  ASSUME VisibleInv, RefuseNode
  PROVE  VisibleInv'
BY RefuseKeeps DEF RefuseNode

LEMMA WritePackedKeeps ==
  ASSUME VisibleInv, WritePacked
  PROVE  VisibleInv'
<1>1. /\ pc = "pack" /\ CanonicalError(dataset.nodeCount, dataset.edges) = "none"
      /\ file' = PackedAs(dataset.edges, dataset.nodeCount)
      /\ pc' = "open"
      /\ UNCHANGED <<dataset, changes, error, adds, dels, addAt, delAt, source, hashed, query,
                     answer, base, removed, added, phase, at, removedAt, retained, left, right,
                     merged>>
  BY DEF WritePacked, Goto, mergeVars, PackedAs
<1>2. dataset.edges \in Edges /\ TypeOK  BY DEF VisibleInv, TypeOK, Dataset
<1>3. Proper(dataset.edges)  BY <1>1, <1>2, CanonicalDecides
<1>4. file'.nodeCount = dataset.nodeCount /\ dataset.nodeCount \in Nat
  BY <1>1, <1>3, PackedParts DEF Proper
<1>5. /\ adds = <<>> /\ dels = <<>> /\ source = 0 /\ hashed = <<>> /\ error = "none"
  BY <1>1 DEF VisibleInv, Stored, Compared, HashedTo, Accepted
<1>6. TypeOK'
  <2>1. source' \in 0..file'.nodeCount  BY <1>1, <1>4, <1>5
  <2> QED  BY <1>1, <1>2, <2>1 DEF TypeOK
<1>7. MergeIInv'
  BY <1>1 DEF VisibleInv, MergeIInv, TypeInv, ArgInv, DropInv, MergeInv, MergeExact
<1>8. Stored' /\ Compared' /\ HashedTo'
  BY <1>1, <1>3, <1>5 DEF Stored, Compared, HashedTo, Changing, Accepted, Proper
<1>9. MergesNode' /\ NeighborsExact' /\ Decided'
  BY <1>1, <1>5 DEF VisibleInv, MergesNode, NeighborsExact, Decided, Accepted
<1> QED  BY <1>2, <1>6, <1>7, <1>8, <1>9 DEF VisibleInv

LEMMA OpenPackedKeeps ==
  ASSUME VisibleInv, OpenPacked
  PROVE  VisibleInv'
<1>1. /\ pc = "open" /\ pc' = "changes"
      /\ UNCHANGED <<dataset, changes, file, error, adds, dels, addAt, delAt, source, hashed,
                     query, answer, base, removed, added, phase, at, removedAt, retained, left,
                     right, merged>>
  BY DEF OpenPacked, Goto, mergeVars
<1>2. TypeOK'
  BY <1>1 DEF VisibleInv, TypeOK
<1>3. MergeIInv'
  BY <1>1 DEF VisibleInv, MergeIInv, TypeInv, ArgInv, DropInv, MergeInv, MergeExact
<1>4. Stored' /\ Compared' /\ HashedTo'
  BY <1>1 DEF VisibleInv, Stored, Compared, HashedTo, Changing, Accepted, Proper
<1>5. MergesNode' /\ NeighborsExact' /\ Decided'
  BY <1>1 DEF VisibleInv, Stored, MergesNode, NeighborsExact, Decided, Accepted
<1> QED  BY <1>2, <1>3, <1>4, <1>5 DEF VisibleInv

-----------------------------------------------------------------------------
(* Steps: changes.                                                         *)

LEMMA AcceptChangesKeeps ==
  ASSUME VisibleInv, AcceptChanges
  PROVE  VisibleInv'
<1>1. /\ pc = "changes" /\ ChangesError = "none" /\ pc' = "conflicts"
      /\ adds' = Canonical(changes.added) /\ dels' = Canonical(changes.removed)
      /\ UNCHANGED <<dataset, changes, file, error, addAt, delAt, source, hashed,
                     query, answer, base, removed, added, phase, at, removedAt, retained, left,
                     right, merged>>
  BY DEF AcceptChanges, Goto, mergeVars
<1>2. changes.added \in Edges /\ changes.removed \in Edges /\ TypeOK
  BY DEF VisibleInv, TypeOK, OverlayChanges
<1>3. file.nodeCount = dataset.nodeCount
  BY <1>1, PackedParts DEF VisibleInv, Stored, Proper
<1>4. Proper(changes.added) /\ Proper(changes.removed)
  BY <1>1, <1>2, <1>3, CanonicalDecides DEF ChangesError
<1>5. adds' \in Edges /\ dels' \in Edges  BY <1>1, <1>4, ProperCanonical
<1>6. addAt = 1 /\ delAt = 1
  <2>1. adds = <<>> /\ dels = <<>>  BY <1>1 DEF VisibleInv, Compared
  <2>2. addAt \in 1..(Len(adds) + 1) /\ delAt \in 1..(Len(dels) + 1)  BY <1>2 DEF TypeOK
  <2> QED  BY <2>1, <2>2
<1>7. TypeOK'
  <2>1. Len(adds') \in Nat /\ Len(dels') \in Nat  BY <1>5 DEF Edges
  <2>2. addAt' \in 1..(Len(adds') + 1) /\ delAt' \in 1..(Len(dels') + 1)
    BY <1>1, <1>6, <2>1
  <2> QED  BY <1>1, <1>2, <1>5, <2>2 DEF TypeOK
<1>8. MergeIInv'
  BY <1>1 DEF VisibleInv, MergeIInv, TypeInv, ArgInv, DropInv, MergeInv, MergeExact
<1>9. Stored' /\ HashedTo'
  BY <1>1 DEF VisibleInv, Stored, HashedTo, Accepted, Proper
<1>10. Compared'
  <2>1. Proper(changes.added)' /\ Proper(changes.removed)'  BY <1>1, <1>4 DEF Proper
  <2>2. 1..(addAt' - 1) = {} /\ 1..(delAt' - 1) = {}  BY <1>1, <1>6
  <2> QED  BY <1>1, <2>1, <2>2 DEF Compared, Accepted
<1>11. MergesNode' /\ NeighborsExact' /\ Decided'
  BY <1>1 DEF VisibleInv, Stored, MergesNode, NeighborsExact, Decided, Accepted
<1> QED  BY <1>7, <1>8, <1>9, <1>10, <1>11 DEF VisibleInv

\* An edge below the one that a sorted list has reached is not in the list,
\* if what was passed is not in the other.
LEMMA BelowIsAbsent ==
  ASSUME NEW s \in Edges, NEW t \in Edges, Grouped(t, "forward"),
         NEW i \in DOMAIN s, NEW k \in DOMAIN t, EdgeBefore(s[i], t[k]),
         \A j \in 1..(k - 1) : t[j] \notin Elements(s)
  PROVE  s[i] \notin Elements(t)
<1>1. s \in Seq(Edge) /\ t \in Seq(Edge) /\ "forward" \in Direction
  BY DEF Edges, Edge, Direction
<1>2. s[i] \in Edge /\ t[k] \in Edge /\ DOMAIN t = 1..Len(t) /\ Len(t) \in Nat
      /\ s[i] \in Elements(s)
  BY <1>1 DEF Elements
<1> SUFFICES ASSUME NEW j \in DOMAIN t, s[i] = t[j]  PROVE FALSE
  BY DEF Elements
<1>3. Ahead(s[i], t[k], "forward")  BY <1>2, AheadIs
<1>4. CASE j < k
  BY <1>2, <1>4
<1>5. CASE j = k
  BY <1>1, <1>2, <1>3, <1>5, AheadOrders
<1>6. CASE j > k
  <2>1. Ahead(t[k], t[j], "forward")  BY <1>6 DEF Grouped
  <2> QED  BY <1>1, <1>2, <1>3, <2>1, AheadOrders
<1> QED  BY <1>2, <1>4, <1>5, <1>6

\* Where the comparison of two changes stands.
LEMMA ComparingFacts ==
  ASSUME VisibleInv, Comparing
  PROVE  /\ adds \in Edges /\ dels \in Edges
         /\ Grouped(adds, "forward") /\ Grouped(dels, "forward")
         /\ addAt \in 1..Len(adds) /\ delAt \in 1..Len(dels)
         /\ DOMAIN adds = 1..Len(adds) /\ DOMAIN dels = 1..Len(dels)
         /\ Len(adds) \in Nat /\ Len(dels) \in Nat
         /\ \A i \in 1..(addAt - 1) : adds[i] \notin Elements(dels)
         /\ \A i \in 1..(delAt - 1) : dels[i] \notin Elements(adds)
<1>1. pc = "conflicts" /\ addAt <= Len(adds) /\ delAt <= Len(dels)  BY DEF Comparing
<1>2. /\ adds \in Edges /\ dels \in Edges
      /\ addAt \in 1..(Len(adds) + 1) /\ delAt \in 1..(Len(dels) + 1)
  BY DEF VisibleInv, TypeOK
<1>3. /\ Proper(changes.added) /\ Proper(changes.removed)
      /\ adds = Canonical(changes.added) /\ dels = Canonical(changes.removed)
      /\ \A i \in 1..(addAt - 1) : adds[i] \notin Elements(dels)
      /\ \A i \in 1..(delAt - 1) : dels[i] \notin Elements(adds)
  BY <1>1 DEF VisibleInv, Compared, Changing
<1>4. Grouped(adds, "forward") /\ Grouped(dels, "forward")  BY <1>3, ProperCanonical
<1>5. /\ DOMAIN adds = 1..Len(adds) /\ DOMAIN dels = 1..Len(dels)
      /\ Len(adds) \in Nat /\ Len(dels) \in Nat
  BY <1>2 DEF Edges
<1>6. addAt \in 1..Len(adds) /\ delAt \in 1..Len(dels)  BY <1>1, <1>2, <1>5
<1> QED  BY <1>2, <1>3, <1>4, <1>5, <1>6

LEMMA AdvanceAddedKeeps ==
  ASSUME VisibleInv, AdvanceAdded
  PROVE  VisibleInv'
<1>1. /\ Comparing /\ pc = "conflicts" /\ EdgeBefore(adds[addAt], dels[delAt])
      /\ addAt' = addAt + 1
      /\ UNCHANGED <<dataset, changes, pc, file, error, adds, dels, delAt, source, hashed,
                     query, answer, base, removed, added, phase, at, removedAt, retained, left,
                     right, merged>>
  BY DEF AdvanceAdded, Comparing, mergeVars
<1>2. adds[addAt] \notin Elements(dels)
  BY <1>1, ComparingFacts, BelowIsAbsent
<1>3. addAt' \in 1..(Len(adds) + 1)  BY <1>1, ComparingFacts
<1>4. TypeOK'
  BY <1>1, <1>3 DEF VisibleInv, TypeOK
<1>5. MergeIInv'
  BY <1>1 DEF VisibleInv, MergeIInv, TypeInv, ArgInv, DropInv, MergeInv, MergeExact
<1>6. Stored' /\ HashedTo'
  BY <1>1 DEF VisibleInv, Stored, HashedTo, Accepted, Proper
<1>7. Compared'
  <2>1. /\ Proper(changes.added) /\ Proper(changes.removed)
        /\ adds = Canonical(changes.added) /\ dels = Canonical(changes.removed)
    BY <1>1 DEF VisibleInv, Compared, Changing
  <2>2. Proper(changes.added)' /\ Proper(changes.removed)'  BY <1>1, <2>1 DEF Proper
  <2>3. \A i \in 1..(addAt' - 1) : i \in 1..(addAt - 1) \/ i = addAt
    BY <1>1, ComparingFacts
  <2>4. /\ \A i \in 1..(addAt' - 1) : adds[i] \notin Elements(dels)
        /\ \A i \in 1..(delAt - 1) : dels[i] \notin Elements(adds)
    BY <1>1, <1>2, <2>3, ComparingFacts
  <2> QED  BY <1>1, <2>1, <2>2, <2>4 DEF Compared, Accepted
<1>8. MergesNode' /\ NeighborsExact' /\ Decided'
  BY <1>1 DEF VisibleInv, Stored, MergesNode, NeighborsExact, Decided, Accepted
<1> QED  BY <1>4, <1>5, <1>6, <1>7, <1>8 DEF VisibleInv

LEMMA AdvanceRemovedKeeps ==
  ASSUME VisibleInv, AdvanceRemoved
  PROVE  VisibleInv'
<1>1. /\ Comparing /\ pc = "conflicts" /\ EdgeBefore(dels[delAt], adds[addAt])
      /\ delAt' = delAt + 1
      /\ UNCHANGED <<dataset, changes, pc, file, error, adds, dels, addAt, source, hashed,
                     query, answer, base, removed, added, phase, at, removedAt, retained, left,
                     right, merged>>
  BY DEF AdvanceRemoved, Comparing, mergeVars
<1>2. dels[delAt] \notin Elements(adds)
  BY <1>1, ComparingFacts, BelowIsAbsent
<1>3. delAt' \in 1..(Len(dels) + 1)  BY <1>1, ComparingFacts
<1>4. TypeOK'
  BY <1>1, <1>3 DEF VisibleInv, TypeOK
<1>5. MergeIInv'
  BY <1>1 DEF VisibleInv, MergeIInv, TypeInv, ArgInv, DropInv, MergeInv, MergeExact
<1>6. Stored' /\ HashedTo'
  BY <1>1 DEF VisibleInv, Stored, HashedTo, Accepted, Proper
<1>7. Compared'
  <2>1. /\ Proper(changes.added) /\ Proper(changes.removed)
        /\ adds = Canonical(changes.added) /\ dels = Canonical(changes.removed)
    BY <1>1 DEF VisibleInv, Compared, Changing
  <2>2. Proper(changes.added)' /\ Proper(changes.removed)'  BY <1>1, <2>1 DEF Proper
  <2>3. \A i \in 1..(delAt' - 1) : i \in 1..(delAt - 1) \/ i = delAt
    BY <1>1, ComparingFacts
  <2>4. /\ \A i \in 1..(addAt - 1) : adds[i] \notin Elements(dels)
        /\ \A i \in 1..(delAt' - 1) : dels[i] \notin Elements(adds)
    BY <1>1, <1>2, <2>3, ComparingFacts
  <2> QED  BY <1>1, <2>1, <2>2, <2>4 DEF Compared, Accepted
<1>8. MergesNode' /\ NeighborsExact' /\ Decided'
  BY <1>1 DEF VisibleInv, Stored, MergesNode, NeighborsExact, Decided, Accepted
<1> QED  BY <1>4, <1>5, <1>6, <1>7, <1>8 DEF VisibleInv

LEMMA NoConflictKeeps ==
  ASSUME VisibleInv, NoConflict
  PROVE  VisibleInv'
<1>1. /\ pc = "conflicts" /\ (addAt > Len(adds) \/ delAt > Len(dels)) /\ pc' = "members"
      /\ UNCHANGED <<dataset, changes, file, error, adds, dels, addAt, delAt, source, hashed,
                     query, answer, base, removed, added, phase, at, removedAt, retained, left,
                     right, merged>>
  BY DEF NoConflict, Goto, mergeVars
<1>2. /\ adds \in Edges /\ dels \in Edges
      /\ addAt \in 1..(Len(adds) + 1) /\ delAt \in 1..(Len(dels) + 1)
      /\ DOMAIN adds = 1..Len(adds) /\ DOMAIN dels = 1..Len(dels)
  BY DEF VisibleInv, TypeOK, Edges
<1>3. /\ Proper(changes.added) /\ Proper(changes.removed)
      /\ adds = Canonical(changes.added) /\ dels = Canonical(changes.removed)
      /\ \A i \in 1..(addAt - 1) : adds[i] \notin Elements(dels)
      /\ \A i \in 1..(delAt - 1) : dels[i] \notin Elements(adds)
  BY <1>1 DEF VisibleInv, Compared, Changing
<1>4. Elements(adds) \cap Elements(dels) = {}
  <2>1. CASE addAt > Len(adds)
    <3>1. \A i \in DOMAIN adds : i \in 1..(addAt - 1)  BY <1>2, <2>1
    <3> QED  BY <1>3, <3>1 DEF Elements
  <2>2. CASE delAt > Len(dels)
    <3>1. \A i \in DOMAIN dels : i \in 1..(delAt - 1)  BY <1>2, <2>2
    <3> QED  BY <1>3, <3>1 DEF Elements
  <2> QED  BY <1>1, <2>1, <2>2
<1>5. TypeOK'
  BY <1>1 DEF VisibleInv, TypeOK
<1>6. MergeIInv'
  BY <1>1 DEF VisibleInv, MergeIInv, TypeInv, ArgInv, DropInv, MergeInv, MergeExact
<1>7. Stored' /\ HashedTo'
  BY <1>1 DEF VisibleInv, Stored, HashedTo, Accepted, Proper
<1>8. Compared'
  <2>1. Proper(changes.added)' /\ Proper(changes.removed)'  BY <1>1, <1>3 DEF Proper
  <2> QED  BY <1>1, <1>3, <1>4, <2>1 DEF Compared, Accepted
<1>9. MergesNode' /\ NeighborsExact' /\ Decided'
  BY <1>1 DEF VisibleInv, Stored, MergesNode, NeighborsExact, Decided, Accepted
<1> QED  BY <1>5, <1>6, <1>7, <1>8, <1>9 DEF VisibleInv

LEMMA AcceptMembersKeeps ==
  ASSUME VisibleInv, AcceptMembers
  PROVE  VisibleInv'
<1>1. /\ pc = "members" /\ pc' = "hash"
      /\ \A e \in Elements(dels) : BaseContains(e)
      /\ \A e \in Elements(adds) : ~BaseContains(e)
      /\ UNCHANGED <<dataset, changes, file, error, adds, dels, addAt, delAt, source, hashed,
                     query, answer, base, removed, added, phase, at, removedAt, retained, left,
                     right, merged>>
  BY DEF AcceptMembers, Goto, mergeVars
<1>2. /\ Elements(dels) \subseteq Packed /\ Elements(adds) \cap Packed = {}
      /\ Elements(adds) = Elements(changes.added) /\ Elements(dels) = Elements(changes.removed)
      /\ Proper(dataset.edges) /\ Proper(changes.added) /\ Proper(changes.removed)
  BY <1>1, MembersMean
<1>3. Acceptable  BY <1>2 DEF Acceptable
<1>4. TypeOK'
  BY <1>1 DEF VisibleInv, TypeOK
<1>5. MergeIInv'
  BY <1>1 DEF VisibleInv, MergeIInv, TypeInv, ArgInv, DropInv, MergeInv, MergeExact
<1>6. Stored'
  BY <1>1 DEF VisibleInv, Stored, Proper
<1>7. Compared'
  <2>1. /\ adds = Canonical(changes.added) /\ dels = Canonical(changes.removed)
        /\ Elements(adds) \cap Elements(dels) = {}
    BY <1>1 DEF VisibleInv, Compared, Changing
  <2>2. Proper(changes.added)' /\ Proper(changes.removed)'  BY <1>1, <1>2 DEF Proper
  <2>3. Packed' = Packed  BY <1>1 DEF Packed
  <2> QED  BY <1>1, <1>2, <2>1, <2>2, <2>3 DEF Compared
<1>8. HashedTo'
  <2>1. source = 0 /\ hashed = <<>>  BY <1>1 DEF VisibleInv, HashedTo, Accepted
  <2>2. Visible \subseteq Edge
    <3>1. Packed \subseteq Edge /\ Elements(changes.added) \subseteq Edge
      BY <1>2, ProperCanonical DEF Packed
    <3> QED  BY <3>1 DEF Visible
  <2>3. {e \in Visible : Source(e) < 0} = {}  BY <2>2 DEF Edge, Source
  <2>4. Elements(<<>>) = {} /\ Grouped(<<>>, "forward")  BY ElementsEmpty DEF Grouped
  <2>5. Visible' = Visible  BY <1>1 DEF Visible, Packed
  <2> QED  BY <1>1, <2>1, <2>3, <2>4, <2>5 DEF HashedTo, Accepted
<1>9. Decided'
  <2>1. error = "none"  BY <1>1 DEF VisibleInv, Stored
  <2>2. Acceptable'  BY <1>1, <1>3 DEF Acceptable, Proper, Packed
  <2> QED  BY <1>1, <2>1, <2>2 DEF Decided
<1>10. MergesNode' /\ NeighborsExact'
  BY <1>1 DEF VisibleInv, MergesNode, NeighborsExact
<1> QED  BY <1>4, <1>5, <1>6, <1>7, <1>8, <1>9, <1>10 DEF VisibleInv

-----------------------------------------------------------------------------
(* Steps: merging and hashing.                                             *)

\* While the lists and the file stay, what was accepted stays accepted.
LEMMA AcceptedStays ==
  ASSUME Stored, Compared, Decided, pc \in Accepted, pc' \in Accepted,
         UNCHANGED <<dataset, changes, file, error, adds, dels>>
  PROVE  Stored' /\ Compared' /\ Decided' /\ Visible' = Visible
<1>1. Stored'  BY DEF Stored, Accepted, Proper
<1>2. Compared'
  <2>1. /\ Proper(changes.added) /\ Proper(changes.removed)
        /\ adds = Canonical(changes.added) /\ dels = Canonical(changes.removed)
        /\ Elements(adds) \cap Elements(dels) = {}
        /\ Elements(dels) \subseteq Packed /\ Elements(adds) \cap Packed = {}
    BY DEF Compared, Changing
  <2>2. Proper(changes.added)' /\ Proper(changes.removed)'  BY <2>1 DEF Proper
  <2>3. Packed' = Packed  BY DEF Packed
  <2> QED  BY <2>1, <2>2, <2>3 DEF Compared, Accepted
<1>3. Decided'
  <2>1. error = "none" /\ Acceptable  BY DEF Stored, Decided, Accepted
  <2>2. Acceptable'  BY <2>1 DEF Acceptable, Proper, Packed
  <2> QED  BY <2>1, <2>2 DEF Decided, Accepted
<1>4. Visible' = Visible  BY DEF Visible, Packed
<1> QED  BY <1>1, <1>2, <1>3, <1>4

LEMMA HashNodeKeeps ==
  ASSUME VisibleInv, HashNode
  PROVE  VisibleInv'
<1> DEFINE b == PackedNeighbors(file, source, "forward")
           r == Operations(dels, source, "forward")
           a == Operations(adds, source, "forward")
<1>1. /\ pc = "hash" /\ pc' = "hashing" /\ source < file.nodeCount /\ StartMerge(b, r, a)
      /\ UNCHANGED <<dataset, changes, file, error, adds, dels, addAt, delAt, source, hashed,
                     query, answer>>
  BY DEF HashNode, Goto
<1>2. pc \in Accepted /\ pc' \in Accepted  BY <1>1 DEF Accepted
<1>3. Stored /\ Compared /\ Decided /\ TypeOK /\ MergeIInv  BY DEF VisibleInv
<1>4. file.nodeCount \in Nat  BY <1>2, <1>3, AcceptedSets
<1>5. source \in 0..(file.nodeCount - 1) /\ "forward" \in Direction
  <2>1. source \in 0..file.nodeCount  BY <1>3 DEF TypeOK
  <2>2. "forward" \in Direction  BY DEF Direction
  <2> QED  BY <1>1, <1>4, <2>1, <2>2
<1>6. Legal(b, r, a)  BY <1>2, <1>3, <1>5, NodeLists
<1>7. base' = b /\ removed' = r /\ added' = a /\ phase' = "drop"  BY <1>1 DEF StartMerge
<1> HIDE DEF b, r, a
<1>8. MergeIInv'  BY <1>1, <1>3, <1>6, StartKeeps DEF Legal
<1>9. TypeOK'
  BY <1>1, <1>3, <1>8 DEF MergeIInv, TypeInv, TypeOK
<1>10. Stored' /\ Compared' /\ Decided' /\ Visible' = Visible
  BY <1>1, <1>2, <1>3, AcceptedStays
<1>11. HashedTo'
  BY <1>1, <1>2, <1>10 DEF VisibleInv, HashedTo
<1>12. MergesNode'
  BY <1>1, <1>5, <1>7 DEF MergesNode, MergeOf, b, r, a
<1>13. NeighborsExact'  BY <1>1 DEF NeighborsExact
<1> QED  BY <1>8, <1>9, <1>10, <1>11, <1>12, <1>13 DEF VisibleInv

LEMMA MergeKeeps ==
  ASSUME VisibleInv, Merge
  PROVE  VisibleInv'
<1>1. /\ pc \in {"hashing", "merge"} /\ MergeStep
      /\ UNCHANGED <<dataset, changes, pc, file, error, adds, dels, addAt, delAt, source, hashed,
                     query, answer>>
  BY DEF Merge, outer
<1>2. pc \in Accepted /\ pc' \in Accepted  BY <1>1 DEF Accepted
<1>3. Stored /\ Compared /\ Decided /\ TypeOK /\ MergeIInv  BY DEF VisibleInv
<1>4. MergeIInv'
  BY <1>1, <1>3, DropKeeps, RetainKeeps, RetainedKeeps, TakeBaseKeeps, TakeAddedKeeps,
     TakeRestKeeps DEF MergeStep
<1>5. /\ base' = base /\ removed' = removed /\ added' = added /\ phase' # "idle"
  BY <1>1 DEF MergeStep, Drop, Retain, Retained, TakeBase, TakeAdded, TakeRest
<1>6. TypeOK'
  BY <1>1, <1>3, <1>4 DEF MergeIInv, TypeInv, TypeOK
<1>7. Stored' /\ Compared' /\ Decided' /\ Visible' = Visible
  BY <1>1, <1>2, <1>3, AcceptedStays
<1>8. HashedTo'
  BY <1>1, <1>2, <1>7 DEF VisibleInv, HashedTo
<1>9. MergesNode'
  BY <1>1, <1>5 DEF VisibleInv, MergesNode, MergeOf
<1>10. NeighborsExact'  BY <1>1 DEF NeighborsExact
<1> QED  BY <1>4, <1>6, <1>7, <1>8, <1>9, <1>10 DEF VisibleInv

(* The edges of the nodes below n, and those that a node's neighbours      *)
(* stand for.                                                              *)
EdgesBelow(V, n) == {e \in V : Source(e) < n}

EdgesFrom(n, list) == [i \in DOMAIN list |-> EdgeOf(n, list[i][1], list[i][2])]

\* Appending the visible edges of a node to those of the lower nodes.
LEMMA HashedOn ==
  ASSUME NEW V \in SUBSET Edge, NEW s \in Edges, Grouped(s, "forward"), NEW n \in Nat,
         Elements(s) = EdgesBelow(V, n),
         NEW m \in Seq(Neighbor), Sorted(m), Elements(m) = Around(V, n, "forward")
  PROVE  /\ s \o EdgesFrom(n, m) \in Edges /\ Grouped(s \o EdgesFrom(n, m), "forward")
         /\ Elements(s \o EdgesFrom(n, m)) = EdgesBelow(V, n + 1)
<1> DEFINE t == EdgesFrom(n, m)
           all == s \o t
<1>1. /\ s \in Seq(Edge) /\ "forward" \in Direction
      /\ DOMAIN s = 1..Len(s) /\ Len(s) \in Nat /\ DOMAIN m = 1..Len(m) /\ Len(m) \in Nat
  BY DEF Edges, Edge, Direction
<1>2. \A i \in 1..Len(m) : m[i] \in Neighbor /\ m[i] \in Elements(m)  BY <1>1 DEF Elements
<1>3. \A i \in 1..Len(m) :
        t[i] \in Edge /\ Source(t[i]) = n /\ Owner(t[i], "forward") = n
        /\ Shows(t[i], "forward") = m[i]
  <2> TAKE i \in 1..Len(m)
  <2>1. t[i] = <<n, m[i][1], m[i][2]>>  BY <1>1 DEF EdgesFrom, EdgeOf
  <2>2. m[i] \in Nat \X Nat  BY <1>2 DEF Neighbor
  <2> HIDE DEF t
  <2> QED  BY <2>1, <2>2 DEF Edge, Source, Owner, Shows, Other, Target, Kind
<1>4. t \in Seq(Edge) /\ Len(t) = Len(m) /\ DOMAIN t = 1..Len(m)
  <2>1. t = [i \in 1..Len(m) |-> t[i]]  BY <1>1 DEF EdgesFrom
  <2> HIDE DEF t
  <2>2. t \in [1..Len(m) -> Edge]  BY <1>3, <2>1
  <2> QED  BY <1>1, <2>2
<1> HIDE DEF t
<1>5. /\ all \in Seq(Edge) /\ Len(all) = Len(s) + Len(m) /\ DOMAIN all = 1..(Len(s) + Len(m))
      /\ \A i \in 1..Len(s) : all[i] = s[i]
      /\ \A i \in 1..Len(m) : all[Len(s) + i] = t[i]
  BY <1>1, <1>4
<1> HIDE DEF all
<1>6. \A e \in V : e \in Edge /\ Source(e) \in Nat /\ Owner(e, "forward") = Source(e)
  BY <1>1, EdgeParts
<1>7. \A i \in 1..Len(s) : s[i] \in V /\ Source(s[i]) < n  BY <1>1 DEF Elements, EdgesBelow
<1>8. \A i \in 1..Len(m) : t[i] \in V
  <2> TAKE i \in 1..Len(m)
  <2>1. Shows(t[i], "forward") \in Around(V, Owner(t[i], "forward"), "forward")  BY <1>2, <1>3
  <2> QED  BY <1>1, <1>3, <2>1, AroundTells
<1>9. \A i \in 1..(Len(s) + Len(m)) :
        i \in 1..Len(s) \/ (i - Len(s) \in 1..Len(m) /\ i = Len(s) + (i - Len(s)))
  BY <1>1
<1>10. Grouped(all, "forward")
  <2> SUFFICES ASSUME NEW i \in 1..(Len(s) + Len(m)), NEW j \in 1..(Len(s) + Len(m)), i < j
               PROVE  Ahead(all[i], all[j], "forward")
    BY <1>5 DEF Grouped
  <2>1. CASE i \in 1..Len(s) /\ j \in 1..Len(s)
    BY <1>1, <1>5, <2>1 DEF Grouped
  <2>2. CASE i \in 1..Len(s) /\ j \notin 1..Len(s)
    <3>1. all[i] = s[i] /\ Owner(s[i], "forward") < n  BY <1>5, <1>6, <1>7, <2>2
    <3>2. all[j] = t[j - Len(s)] /\ Owner(t[j - Len(s)], "forward") = n
      BY <1>3, <1>5, <1>9, <2>2
    <3> QED  BY <3>1, <3>2 DEF Ahead
  <2>3. CASE i \notin 1..Len(s)
    <3>1. /\ i - Len(s) \in 1..Len(m) /\ j - Len(s) \in 1..Len(m) /\ i - Len(s) < j - Len(s)
      BY <1>1, <2>3
    <3>2. all[i] = t[i - Len(s)] /\ all[j] = t[j - Len(s)]  BY <1>1, <1>5, <3>1
    <3>3. Less(m[i - Len(s)], m[j - Len(s)])  BY <1>1, <3>1 DEF Sorted
    <3> QED  BY <1>3, <3>1, <3>2, <3>3 DEF Ahead
  <2> QED  BY <2>1, <2>2, <2>3
<1>11. ASSUME NEW e \in Elements(all)  PROVE e \in V /\ Source(e) < n + 1
  <2>1. PICK i \in 1..(Len(s) + Len(m)) : e = all[i]  BY <1>5 DEF Elements
  <2>2. CASE i \in 1..Len(s)
    BY <1>5, <1>6, <1>7, <2>1, <2>2
  <2>3. CASE i \notin 1..Len(s)
    <3>1. i - Len(s) \in 1..Len(m) /\ e = t[i - Len(s)]  BY <1>5, <1>9, <2>1, <2>3
    <3> QED  BY <1>3, <1>8, <3>1
  <2> QED  BY <2>2, <2>3
<1>12. ASSUME NEW e \in V, Source(e) < n + 1  PROVE e \in Elements(all)
  <2>1. CASE Source(e) < n
    <3>1. e \in Elements(s)  BY <2>1 DEF EdgesBelow
    <3>2. PICK i \in 1..Len(s) : e = s[i]  BY <1>1, <3>1 DEF Elements
    <3>3. i \in DOMAIN all /\ e = all[i]  BY <1>1, <1>5, <3>2
    <3> QED  BY <3>3 DEF Elements
  <2>2. CASE Source(e) = n
    <3>1. Shows(e, "forward") \in Elements(m)  BY <1>1, <1>6, <2>2, AroundTells
    <3>2. PICK i \in 1..Len(m) : Shows(e, "forward") = m[i]  BY <1>1, <3>1 DEF Elements
    <3>3. e = t[i]  BY <1>1, <1>3, <1>6, <2>2, <3>2, ShownEdge
    <3>4. Len(s) + i \in DOMAIN all /\ e = all[Len(s) + i]  BY <1>1, <1>5, <3>3
    <3> QED  BY <3>4 DEF Elements
  <2> QED  BY <1>6, <1>12, <2>1, <2>2
<1>13. all \in Edges /\ Elements(all) = EdgesBelow(V, n + 1)
  BY <1>5, <1>11, <1>12 DEF Edges, Edge, EdgesBelow
<1> QED  BY <1>10, <1>13 DEF all, t

LEMMA HashMergedKeeps ==
  ASSUME VisibleInv, HashMerged
  PROVE  VisibleInv'
<1>1. /\ pc = "hashing" /\ pc' = "hash" /\ phase = "done"
      /\ hashed' = hashed \o EdgesFrom(source, merged) /\ source' = source + 1
      /\ UNCHANGED <<dataset, changes, file, error, adds, dels, addAt, delAt,
                     query, answer, base, removed, added, phase, at, removedAt, retained, left,
                     right, merged>>
  BY DEF HashMerged, Goto, mergeVars, EdgesFrom
<1>2. pc \in Accepted /\ pc' \in Accepted  BY <1>1 DEF Accepted
<1>3. Stored /\ Compared /\ Decided /\ TypeOK /\ MergeIInv  BY DEF VisibleInv
<1>4. MergeOf(source, "forward")  BY <1>1 DEF VisibleInv, MergesNode
<1>5. source \in 0..(file.nodeCount - 1) /\ file.nodeCount \in Nat /\ Visible \in SUBSET Edge
  BY <1>2, <1>3, <1>4, AcceptedSets DEF MergeOf
<1>6. merged \in Seq(Neighbor) /\ Sorted(merged) /\ Elements(merged) = Around(Visible, source, "forward")
  BY <1>1, <1>2, <1>3, <1>4, MergedAround
<1>7. /\ hashed \in Edges /\ Grouped(hashed, "forward")
      /\ Elements(hashed) = {e \in Visible : Source(e) < source}
  BY <1>2, <1>3 DEF VisibleInv, HashedTo, TypeOK
<1>8. /\ hashed' \in Edges /\ Grouped(hashed', "forward")
      /\ Elements(hashed') = {e \in Visible : Source(e) < source + 1}
  <2>1. source \in Nat  BY <1>5
  <2>2. Elements(hashed) = EdgesBelow(Visible, source)  BY <1>7 DEF EdgesBelow
  <2>3. LET all == hashed \o EdgesFrom(source, merged)
        IN  /\ all \in Edges /\ Grouped(all, "forward")
            /\ Elements(all) = EdgesBelow(Visible, source + 1)
    BY <1>5, <1>6, <1>7, <2>1, <2>2, HashedOn
  <2> QED  BY <1>1, <2>3 DEF EdgesBelow
<1>9. TypeOK'
  <2>1. source' \in 0..file.nodeCount  BY <1>1, <1>5
  <2> QED  BY <1>1, <1>3, <1>8, <2>1 DEF TypeOK
<1>10. MergeIInv'
  BY <1>1 DEF VisibleInv, MergeIInv, TypeInv, ArgInv, DropInv, MergeInv, MergeExact
<1>11. Stored' /\ Compared' /\ Decided' /\ Visible' = Visible
  BY <1>1, <1>2, <1>3, AcceptedStays
<1>12. HashedTo'
  BY <1>1, <1>2, <1>8, <1>11 DEF HashedTo
<1>13. MergesNode' /\ NeighborsExact'  BY <1>1 DEF MergesNode, NeighborsExact
<1> QED  BY <1>9, <1>10, <1>11, <1>12, <1>13 DEF VisibleInv

LEMMA HashedKeeps ==
  ASSUME VisibleInv, Hashed
  PROVE  VisibleInv'
<1>1. /\ pc = "hash" /\ pc' = "query" /\ source = file.nodeCount
      /\ UNCHANGED <<dataset, changes, file, error, adds, dels, addAt, delAt, source, hashed,
                     query, answer, base, removed, added, phase, at, removedAt, retained, left,
                     right, merged>>
  BY DEF Hashed, Goto, mergeVars
<1>2. pc \in Accepted /\ pc' \in Accepted  BY <1>1 DEF Accepted
<1>3. Stored /\ Compared /\ Decided /\ TypeOK /\ MergeIInv  BY DEF VisibleInv
<1>4. TypeOK'  BY <1>1, <1>3 DEF TypeOK
<1>5. MergeIInv'
  BY <1>1 DEF VisibleInv, MergeIInv, TypeInv, ArgInv, DropInv, MergeInv, MergeExact
<1>6. Stored' /\ Compared' /\ Decided' /\ Visible' = Visible
  BY <1>1, <1>2, <1>3, AcceptedStays
<1>7. HashedTo'
  BY <1>1, <1>2, <1>6 DEF VisibleInv, HashedTo
<1>8. MergesNode' /\ NeighborsExact'
  BY <1>1 DEF VisibleInv, MergesNode, NeighborsExact
<1> QED  BY <1>4, <1>5, <1>6, <1>7, <1>8 DEF VisibleInv

-----------------------------------------------------------------------------
(* Steps: queries.                                                         *)

\* What a query promises is the visible edges around its node, in order.
LEMMA PromisedList ==
  ASSUME NEW s \in Seq(Neighbor), Sorted(s), NEW n, NEW direction,
         Elements(s) = Around(Visible, n, direction)
  PROVE  s = Ordered({<<Other(e, direction), Kind(e)>> :
                        e \in {x \in Visible : Owner(x, direction) = n}}, Less)
<1>1. Elements(s) = {<<Other(e, direction), Kind(e)>> :
                        e \in {x \in Visible : Owner(x, direction) = n}}
  BY DEF Around, Shows
<1>2. s = Ordered(Elements(s), Less)  BY SortedIsOrdered
<1> QED  BY <1>1, <1>2, Zenon

LEMMA QueryKeeps ==
  ASSUME VisibleInv, NEW n \in 0..(file.nodeCount - 1), NEW direction \in Direction,
         Query(n, direction)
  PROVE  VisibleInv'
<1> DEFINE b == PackedNeighbors(file, n, direction)
           r == Operations(dels, n, direction)
           a == Operations(adds, n, direction)
<1>1. /\ pc = "query" /\ query' = <<n, direction>>
      /\ UNCHANGED <<dataset, changes, file, error, adds, dels, addAt, delAt, source, hashed>>
      /\ \/ /\ Untouched(r, a) /\ answer' = b /\ pc' = "done" /\ UNCHANGED mergeVars
         \/ /\ StartMerge(b, r, a) /\ pc' = "merge" /\ UNCHANGED answer
  BY DEF Query, Goto
<1>2. pc \in Accepted /\ pc' \in Accepted /\ pc' \in {"done", "merge"}  BY <1>1 DEF Accepted
<1>3. Stored /\ Compared /\ Decided /\ TypeOK /\ MergeIInv  BY DEF VisibleInv
<1>4. Legal(b, r, a) /\ (Elements(b) \ Elements(r)) \cup Elements(a) = Around(Visible, n, direction)
  BY <1>2, <1>3, NodeLists
<1>5. Stored' /\ Compared' /\ Decided' /\ Visible' = Visible
  BY <1>1, <1>2, <1>3, AcceptedStays
<1>6. HashedTo'
  <2>1. source = file.nodeCount  BY <1>1 DEF VisibleInv, HashedTo
  <2>2. /\ Grouped(hashed, "forward") /\ Elements(hashed) = {e \in Visible : Source(e) < source}
    BY <1>2 DEF VisibleInv, HashedTo
  <2> HIDE DEF b, r, a
  <2> QED  BY <1>1, <1>2, <1>5, <2>1, <2>2 DEF HashedTo
<1>7. query' \in Nat \X Direction
  <2>1. file.nodeCount \in Nat  BY <1>2, <1>3, AcceptedSets
  <2>2. n \in Nat  BY <2>1
  <2> QED  BY <1>1, <2>2
<1>8. b \in Seq(Neighbor) /\ Sorted(b)  BY <1>4 DEF Legal
<1>9. CASE Untouched(r, a) /\ answer' = b /\ pc' = "done" /\ UNCHANGED mergeVars
  <2>1. r = <<>> /\ a = <<>>  BY <1>9 DEF Untouched
  <2>2. Elements(b) = Around(Visible, n, direction)  BY <1>4, <2>1, ElementsEmpty
  <2> HIDE DEF b, r, a
  <2>3. b = Ordered({<<Other(e, direction), Kind(e)>> :
                        e \in {x \in Visible : Owner(x, direction) = n}}, Less)
    BY <1>8, <2>2, PromisedList
  <2>4. NeighborsExact'
    <3>1. query'[1] = n /\ query'[2] = direction  BY <1>1
    <3> QED  BY <1>5, <1>9, <2>3, <3>1 DEF NeighborsExact
  <2>5. MergeIInv'
    BY <1>3, <1>9 DEF mergeVars, MergeIInv, TypeInv, ArgInv, DropInv, MergeInv, MergeExact
  <2>6. TypeOK'
    BY <1>1, <1>2, <1>3, <1>7, <1>8, <1>9 DEF mergeVars, TypeOK
  <2>7. MergesNode'
    BY <1>1, <1>9 DEF VisibleInv, MergesNode, mergeVars
  <2> QED  BY <1>5, <1>6, <2>4, <2>5, <2>6, <2>7 DEF VisibleInv
<1>10. CASE StartMerge(b, r, a) /\ pc' = "merge" /\ UNCHANGED answer
  <2>1. base' = b /\ removed' = r /\ added' = a /\ phase' = "drop"
    BY <1>10 DEF StartMerge
  <2>2. MergesNode'
    <3>1. query'[1] = n /\ query'[2] = direction  BY <1>1
    <3> QED  BY <1>1, <1>10, <2>1, <3>1 DEF MergesNode, MergeOf
  <2> HIDE DEF b, r, a
  <2>3. MergeIInv'  BY <1>3, <1>4, <1>10, StartKeeps DEF Legal
  <2>4. TypeOK'
    BY <1>1, <1>2, <1>3, <1>7, <1>10, <2>3 DEF MergeIInv, TypeInv, TypeOK
  <2>5. NeighborsExact'  BY <1>10 DEF NeighborsExact
  <2> QED  BY <1>5, <1>6, <2>2, <2>3, <2>4, <2>5 DEF VisibleInv
<1> HIDE DEF b, r, a
<1> QED  BY <1>1, <1>9, <1>10

LEMMA AnswerKeeps ==
  ASSUME VisibleInv, Answer
  PROVE  VisibleInv'
<1>1. /\ pc = "merge" /\ pc' = "done" /\ phase = "done" /\ answer' = merged
      /\ UNCHANGED <<dataset, changes, file, error, adds, dels, addAt, delAt, source, hashed,
                     query, base, removed, added, phase, at, removedAt, retained, left,
                     right, merged>>
  BY DEF Answer, Goto, mergeVars
<1>2. pc \in Accepted /\ pc' \in Accepted  BY <1>1 DEF Accepted
<1>3. Stored /\ Compared /\ Decided /\ TypeOK /\ MergeIInv  BY DEF VisibleInv
<1>4. MergeOf(query[1], query[2])  BY <1>1 DEF VisibleInv, MergesNode
<1>5. /\ merged \in Seq(Neighbor) /\ Sorted(merged)
      /\ Elements(merged) = Around(Visible, query[1], query[2])
  BY <1>1, <1>2, <1>3, <1>4, MergedAround
<1>6. TypeOK'  BY <1>1, <1>3, <1>5 DEF TypeOK
<1>7. MergeIInv'
  BY <1>1 DEF VisibleInv, MergeIInv, TypeInv, ArgInv, DropInv, MergeInv, MergeExact
<1>8. Stored' /\ Compared' /\ Decided' /\ Visible' = Visible
  BY <1>1, <1>2, <1>3, AcceptedStays
<1>9. HashedTo'
  BY <1>1, <1>2, <1>8 DEF VisibleInv, HashedTo
<1>10. MergesNode'  BY <1>1 DEF MergesNode
<1>11. NeighborsExact'
  <2>1. merged = Ordered({<<Other(e, query[2]), Kind(e)>> :
                        e \in {x \in Visible : Owner(x, query[2]) = query[1]}}, Less)
    BY <1>5, PromisedList
  <2> QED  BY <1>1, <1>8, <2>1 DEF NeighborsExact
<1> QED  BY <1>6, <1>7, <1>8, <1>9, <1>10, <1>11 DEF VisibleInv

LEMMA StutterKeeps ==
  ASSUME VisibleInv, UNCHANGED vars
  PROVE  VisibleInv'
<1>1. UNCHANGED <<dataset, changes, pc, file, error, adds, dels, addAt, delAt, source, hashed,
                  query, answer, base, removed, added, phase, at, removedAt, retained, left,
                  right, merged>>
  BY DEF vars, outer, mergeVars
<1>2. TypeOK'  BY <1>1 DEF VisibleInv, TypeOK
<1>3. MergeIInv'
  BY <1>1 DEF VisibleInv, MergeIInv, TypeInv, ArgInv, DropInv, MergeInv, MergeExact
<1>4. Packed' = Packed /\ Visible' = Visible  BY <1>1 DEF Visible, Packed
<1>5. Stored'  BY <1>1 DEF VisibleInv, Stored, Proper
<1>6. Compared'
  BY <1>1, <1>4 DEF VisibleInv, Compared, Changing, Proper
<1>7. HashedTo'  BY <1>1, <1>4 DEF VisibleInv, HashedTo
<1>8. MergesNode'  BY <1>1 DEF VisibleInv, MergesNode, MergeOf
<1>9. Decided'
  BY <1>1, <1>4 DEF VisibleInv, Decided, Acceptable, Proper, InBoth
<1>10. NeighborsExact'  BY <1>1, <1>4 DEF VisibleInv, NeighborsExact
<1> QED  BY <1>2, <1>3, <1>5, <1>6, <1>7, <1>8, <1>9, <1>10 DEF VisibleInv

-----------------------------------------------------------------------------
(* The theorems.                                                           *)

(* Nothing is packed yet.                                                  *)
AtStart ==
  /\ pc = "pack" /\ error = "none" /\ file = NoFile
  /\ adds = <<>> /\ dels = <<>> /\ addAt = 1 /\ delAt = 1
  /\ source = 0 /\ hashed = <<>> /\ query = <<0, "forward">> /\ answer = <<>>
  /\ MergeIdle

\* The invariant of the storage holds before anything is packed.
LEMMA StartHolds ==
  AtStart /\ dataset \in Dataset /\ changes \in OverlayChanges => VisibleInv
<1> SUFFICES ASSUME AtStart, dataset \in Dataset, changes \in OverlayChanges
             PROVE  VisibleInv
  OBVIOUS
<1>1. /\ pc = "pack" /\ error = "none" /\ file = NoFile
      /\ adds = <<>> /\ dels = <<>> /\ addAt = 1 /\ delAt = 1
      /\ source = 0 /\ hashed = <<>> /\ query = <<0, "forward">> /\ answer = <<>>
      /\ base = <<>> /\ removed = <<>> /\ added = <<>> /\ phase = "idle"
      /\ at = 1 /\ removedAt = 1 /\ retained = <<>>
      /\ left = 1 /\ right = 1 /\ merged = <<>>
  BY DEF AtStart, MergeIdle
<1>2. TypeOK
  <2>1. file.nodeCount = 0  BY <1>1 DEF NoFile, Encode
  <2>2. <<>> \in Edges /\ <<>> \in Seq(Neighbor)  BY DEF Edges
  <2>3. query \in Nat \X Direction  BY <1>1 DEF Direction
  <2>4. /\ adds \in Edges /\ dels \in Edges /\ hashed \in Edges
        /\ addAt \in 1..(Len(adds) + 1) /\ delAt \in 1..(Len(dels) + 1)
        /\ source \in 0..file.nodeCount
    BY <1>1, <2>1, <2>2
  <2>5. /\ at \in 1..(Len(base) + 1) /\ removedAt \in 1..(Len(removed) + 1)
        /\ left \in 1..(Len(retained) + 1) /\ right \in 1..(Len(added) + 1)
    BY <1>1
  <2>6. {base, removed, added, retained, merged, answer} \subseteq Seq(Neighbor)
    BY <1>1, <2>2
  <2> QED  BY <1>1, <2>3, <2>4, <2>5, <2>6 DEF TypeOK
<1>3. MergeIInv
  BY <1>1 DEF MergeIInv, TypeInv, ArgInv, Legal, DropInv, MergeInv, MergeExact, Elements, Sorted
<1>4. Stored /\ Compared /\ HashedTo
  BY <1>1 DEF Stored, Compared, HashedTo, Changing, Accepted
<1>5. MergesNode /\ Decided /\ NeighborsExact
  BY <1>1 DEF MergesNode, Decided, NeighborsExact, Accepted
<1> QED  BY <1>2, <1>3, <1>4, <1>5 DEF VisibleInv

\* The invariant holds at the start ...
LEMMA VisibleStarts ==
  ASSUME Init
  PROVE  VisibleInv
<1>1. AtStart  BY DEF Init, AtStart
<1>2. dataset \in Dataset /\ changes \in OverlayChanges
  BY DatasetsAssumption, ChangeSetsAssumption DEF Init
<1> QED  BY <1>1, <1>2, StartHolds

\* ... and every step keeps it.
LEMMA VisibleStep ==
  ASSUME VisibleInv, [Next]_vars
  PROVE  VisibleInv'
<1>1. CASE RefuseDataset \/ WritePacked \/ OpenPacked
  BY <1>1, RefuseDatasetKeeps, WritePackedKeeps, OpenPackedKeeps
<1>2. CASE RefuseChanges \/ AcceptChanges
  BY <1>2, RefuseChangesKeeps, AcceptChangesKeeps
<1>3. CASE AdvanceAdded \/ AdvanceRemoved \/ RefuseConflict \/ NoConflict
  BY <1>3, AdvanceAddedKeeps, AdvanceRemovedKeeps, RefuseConflictKeeps, NoConflictKeeps
<1>4. CASE RefuseMissing \/ RefusePresent \/ AcceptMembers
  BY <1>4, RefuseMissingKeeps, RefusePresentKeeps, AcceptMembersKeeps
<1>5. CASE HashNode \/ Merge \/ HashMerged \/ Hashed
  BY <1>5, HashNodeKeeps, MergeKeeps, HashMergedKeeps, HashedKeeps
<1>6. CASE RefuseNode \/ (\E n \in 0..(file.nodeCount - 1), d \in Direction : Query(n, d)) \/ Answer
  BY <1>6, RefuseNodeKeeps, QueryKeeps, AnswerKeeps
<1>7. CASE UNCHANGED vars
  BY <1>7, StutterKeeps
<1> QED  BY <1>1, <1>2, <1>3, <1>4, <1>5, <1>6, <1>7 DEF Next

\* Whatever dataset is packed and whatever changes are laid over it, the file
\* holds the dataset, the comparison has missed nothing, and what is hashed
\* or merged is the visible graph so far.
THEOREM VisibleInvariant == Spec => []VisibleInv
<1>1. Init => VisibleInv  BY VisibleStarts
<1>2. VisibleInv /\ [Next]_vars => VisibleInv'  BY VisibleStep
<1> QED  BY <1>1, <1>2, PTL DEF Spec

\* The variables keep their types; no place leaves its list.
THEOREM TypeCorrect == Spec => []TypeOK
<1>1. VisibleInv => TypeOK  BY DEF VisibleInv
<1> QED  BY <1>1, VisibleInvariant, PTL

\* The validation of changes (write_overlay, GraphOverlay::open) accepts
\* exactly the changes that turn the packed edges into others.
THEOREM ChangesAcceptedExactly == Spec => []ChangesExact
<1>1. VisibleInv => ChangesExact  BY DecidedExactly DEF VisibleInv
<1> QED  BY <1>1, VisibleInvariant, PTL

\* Readers of a graph with an overlay (neighbors_iter, neighbors_owned) get
\* the visible neighbours of a node, sorted, in both directions.
THEOREM NeighborsAreVisible == Spec => []NeighborsExact
<1>1. VisibleInv => NeighborsExact  BY DEF VisibleInv
<1> QED  BY <1>1, VisibleInvariant, PTL

\* What merging hashes is what a rebuilt graph would.
LEMMA HashedAll ==
  ASSUME VisibleInv
  PROVE  ChecksumOfVisible
<1> SUFFICES ASSUME pc \in {"query", "merge", "done"}
             PROVE  VisibleChecksum = DatasetChecksum(dataset.nodeCount, Ordered(Visible, EdgeBefore))
  BY DEF ChecksumOfVisible
<1>1. pc \in Accepted  BY DEF Accepted
<1>2. Stored /\ Compared /\ TypeOK  BY DEF VisibleInv
<1>3. /\ source = file.nodeCount /\ Grouped(hashed, "forward")
      /\ Elements(hashed) = {e \in Visible : Source(e) < source} /\ hashed \in Edges
  BY <1>1, <1>2 DEF VisibleInv, HashedTo, TypeOK
<1>4. /\ Packed \in SUBSET Edge /\ IsFiniteSet(Packed) /\ Cardinality(Packed) = file.edgeCount
      /\ Elements(dels) \in SUBSET Packed /\ Cardinality(Elements(dels)) = Len(dels)
      /\ IsFiniteSet(Elements(adds)) /\ Cardinality(Elements(adds)) = Len(adds)
      /\ Elements(adds) \cap Packed = {}
      /\ Visible = (Packed \ Elements(dels)) \cup Elements(adds)
      /\ Visible \in SUBSET Edge
      /\ \A e \in Visible : Source(e) < file.nodeCount
      /\ file.nodeCount = dataset.nodeCount
  BY <1>1, <1>2, AcceptedSets
<1>5. Elements(hashed) = Visible  BY <1>3, <1>4
<1>6. hashed = Ordered(Visible, EdgeBefore)
  <2>1. "forward" \in Direction  BY DEF Direction
  <2>2. hashed = Ranked(Elements(hashed), AheadIn(Elements(hashed), "forward"))
    BY <1>3, <2>1, RankedEdgesUnique
  <2>3. Ordered(Visible, EdgeBefore) = Ranked(Visible, AheadIn(Visible, "forward"))
    BY <1>4, OrderedEdges
  <2> QED  BY <1>5, <2>2, <2>3, Zenon
<1>7. Len(hashed) = VisibleCount
  <2> DEFINE P == Packed
             D == Elements(dels)
             A == Elements(adds)
  <2>1. IsFiniteSet(P) /\ IsFiniteSet(D) /\ IsFiniteSet(A) /\ IsFiniteSet(P \ D)
    BY <1>4, FS_Subset, FS_Difference
  <2>2. Cardinality(P \ D) = Cardinality(P) - Cardinality(D)
    <3>1. P \cap D = D  BY <1>4
    <3> HIDE DEF P, D
    <3> QED  BY <2>1, <3>1, FS_Difference
  <2>3. Cardinality((P \ D) \cup A) = Cardinality(P \ D) + Cardinality(A)
    <3>1. (P \ D) \cap A = {}  BY <1>4
    <3> HIDE DEF P, D, A
    <3>2. Cardinality((P \ D) \cap A) = 0  BY <3>1, FS_EmptySet
    <3>3. Cardinality(P \ D) \in Nat /\ Cardinality(A) \in Nat  BY <2>1, FS_CardinalityType
    <3> DEFINE B == P \ D
    <3>4. IsFiniteSet(B) /\ IsFiniteSet(A) /\ Cardinality(B \cap A) = 0  BY <2>1, <3>2
    <3>5. Cardinality(B) \in Nat /\ Cardinality(A) \in Nat  BY <3>3
    <3> HIDE DEF B
    <3>6. Cardinality(B \cup A) = Cardinality(B) + Cardinality(A) - Cardinality(B \cap A)
      BY <3>4, FS_Union
    <3>7. Cardinality(B \cup A) = Cardinality(B) + Cardinality(A)  BY <3>4, <3>5, <3>6
    <3> QED  BY <3>7 DEF B
  <2>4. Cardinality(Visible) = Len(hashed)
    <3>1. Len(Ranked(Visible, AheadIn(Visible, "forward"))) = Cardinality(Visible)
      <4>1. "forward" \in Direction  BY DEF Direction
      <4>2. IsFiniteSet(Visible)  BY <1>4, <2>1, FS_Union
      <4> QED  BY <1>4, <4>1, <4>2, RankedEdges
    <3>2. hashed = Ranked(Visible, AheadIn(Visible, "forward"))
      BY <1>4, <1>6, OrderedEdges
    <3> QED  BY <3>1, <3>2, Zenon
  <2>5. Cardinality(Visible) = file.edgeCount - Len(dels) + Len(adds)
    <3> HIDE DEF P, D, A
    <3>1. Visible = (P \ D) \cup A  BY <1>4 DEF P, D, A
    <3>2. Cardinality(P) = file.edgeCount /\ Cardinality(D) = Len(dels)
          /\ Cardinality(A) = Len(adds)
      BY <1>4 DEF P, D, A
    <3> QED  BY <2>2, <2>3, <3>1, <3>2
  <2> QED  BY <2>4, <2>5 DEF VisibleCount
<1>8. VisibleChecksum = [nodes |-> file.nodeCount, count |-> Len(hashed), edges |-> hashed]
  BY <1>7 DEF VisibleChecksum
<1> QED  BY <1>4, <1>6, <1>8 DEF DatasetChecksum

\* The checksum and count in an overlay's header are those of the visible
\* edges packed afresh: a chain of overlays and a rebuilt graph have one
\* identity (visible_checksum).
THEOREM ChecksumsAgree == Spec => []ChecksumOfVisible
BY HashedAll, VisibleInvariant, PTL

\* Every call of merge_neighbors, for a checksum or a query, gives the base
\* without what is removed and with what is added, in order.
THEOREM MergesExact == Spec => []MergeExact
<1>1. VisibleInv => MergeExact  BY DEF VisibleInv, MergeIInv
<1> QED  BY <1>1, VisibleInvariant, PTL

-----------------------------------------------------------------------------
(* The reader accepts what the writer writes.                              *)

\* A section of a packed file passes validate_direction.
LEMMA SectionValid ==
  ASSUME NEW s, NEW nodeCount, NEW direction, Sectioned(s, nodeCount, direction),
         \A e \in Elements(s) : Other(e, direction) < nodeCount
  PROVE  ValidSection(Section(s, nodeCount, direction), nodeCount, Len(s))
<1> DEFINE z == Section(s, nodeCount, direction)
           o == Offsets(s, nodeCount, direction)
<1>1. z.offsets = o  BY DEF Section
<1>2. nodeCount \in Nat  BY DEF Sectioned
<1>3. /\ o[0] = 0 /\ o[nodeCount] = Len(s)
      /\ \A k \in 0..nodeCount : o[k] \in 0..Len(s)
      /\ \A k \in 0..(nodeCount - 1) : o[k] <= o[k + 1]
  BY OffsetsEnclose
<1>4. \A n \in 0..(nodeCount - 1) :
        Sorted(Slice(z, n)) /\ \A m \in Elements(Slice(z, n)) : m[1] < nodeCount
  <2> TAKE n \in 0..(nodeCount - 1)
  <2>1. Sorted(Slice(z, n)) /\ Elements(Slice(z, n)) = Around(Elements(s), n, direction)
    BY SliceExact
  <2>2. \A m \in Around(Elements(s), n, direction) : m[1] < nodeCount  BY DEF Around, Shows
  <2> QED  BY <2>1, <2>2
<1> HIDE DEF z, o
<1>5. \A n \in 0..(nodeCount - 1) : n + 1 \in 0..nodeCount  BY <1>2
<1>6. \A n \in 0..(nodeCount - 1) : o[n + 1] <= Len(s)
  <2> TAKE n \in 0..(nodeCount - 1)
  <2>1. o[n + 1] \in 0..Len(s)  BY <1>3, <1>5
  <2> QED  BY <2>1
<1>7. ValidSection(z, nodeCount, Len(s))  BY <1>1, <1>3, <1>4, <1>6 DEF ValidSection
<1> QED  BY <1>7 DEF z

\* Reading the forward section node by node gives the canonical edges.
LEMMA MaterializedExact ==
  ASSUME NEW edges, NEW nodeCount, Direct(edges, nodeCount)
  PROVE  Materialized(PackedAs(edges, nodeCount)) = Canonical(edges)
<1> DEFINE N == nodeCount
           c == Canonical(edges)
           p == PackedAs(edges, N)
           o == Offsets(c, N, "forward")
           Rec(g) == [n \in 0..p.nodeCount |->
                        IF n = 0 THEN <<>> ELSE g[n - 1] \o NodeEdges(p, n - 1)]
           F == [n \in 0..p.nodeCount |-> SubSeq(c, 1, o[n])]
<1>1. Sectioned(c, N, "forward")  BY SectionsOf
<1>2. /\ N \in Nat /\ c \in Seq(Edge) /\ Len(c) \in Nat /\ DOMAIN c = 1..Len(c)
  BY <1>1 DEF Sectioned, Edges, Edge
<1>3. p.nodeCount = N /\ p["forward"] = Section(c, N, "forward")
  BY PackedParts DEF PackedAs, Encode
<1>4. /\ o[0] = 0 /\ o[N] = Len(c)
      /\ \A k \in 0..N : o[k] \in 0..Len(c)
      /\ \A k \in 0..(N - 1) : o[k] <= o[k + 1]
  BY <1>1, OffsetsEnclose
<1>5. ASSUME NEW k \in 0..(N - 1)
      PROVE  /\ NodeEdges(p, k) \in Seq(Edge) /\ Len(NodeEdges(p, k)) = o[k + 1] - o[k]
             /\ \A i \in 1..(o[k + 1] - o[k]) : NodeEdges(p, k)[i] = c[o[k] + i]
  <2> DEFINE l == Slice(Section(c, nodeCount, "forward"), k)
             t == NodeEdges(p, k)
  <2> HIDE DEF c
  <2>1. /\ l \in Seq(Neighbor) /\ Len(l) = o[k + 1] - o[k]
        /\ \A i \in 1..Len(l) : o[k] + i \in DOMAIN c /\ l[i] = Shows(c[o[k] + i], "forward")
    BY <1>1, SliceExact
  <2>2. t = [i \in DOMAIN l |-> EdgeOf(k, l[i][1], l[i][2])]
    BY <1>3 DEF NodeEdges, PackedNeighbors
  <2>3. \A i \in DOMAIN c : Owner(c[i], "forward") = k <=> i \in (o[k] + 1)..o[k + 1]
    BY <1>1, OffsetsEnclose
  <2> HIDE DEF l, o, p, t
  <2>4. DOMAIN l = 1..Len(l) /\ Len(l) \in Nat  BY <2>1
  <2>5. ASSUME NEW i \in 1..Len(l)  PROVE t[i] = c[o[k] + i] /\ c[o[k] + i] \in Edge
    <3>1. o[k] \in 0..Len(c) /\ o[k + 1] \in 0..Len(c)
      <4>1. k \in 0..N /\ k + 1 \in 0..N  BY <1>2
      <4> QED  BY <1>4, <4>1
    <3>2. o[k] + i \in DOMAIN c /\ l[i] = Shows(c[o[k] + i], "forward")  BY <2>1
    <3>3. o[k] + i \in (o[k] + 1)..o[k + 1]  BY <2>1, <3>1
    <3>4. c[o[k] + i] \in Edge /\ Owner(c[o[k] + i], "forward") = k  BY <1>2, <2>3, <3>2, <3>3
    <3>5. t[i] = EdgeOf(k, l[i][1], l[i][2])  BY <2>2, <2>4
    <3>6. l[i] = <<Target(c[o[k] + i]), Kind(c[o[k] + i])>> /\ Source(c[o[k] + i]) = k
      BY <3>2, <3>4 DEF Shows, Other, Owner
    <3> DEFINE e == c[o[k] + i]
    <3>7. EdgeOf(k, l[i][1], l[i][2]) = EdgeOf(Source(e), Target(e), Kind(e))  BY <3>6
    <3> HIDE DEF e
    <3>8. e = EdgeOf(Source(e), Target(e), Kind(e))
      BY <3>4 DEF e, Edge, EdgeOf, Source, Target, Kind
    <3> QED  BY <3>4, <3>5, <3>7, <3>8 DEF e
  <2>6. t \in [1..Len(l) -> Edge]
    <3>1. t = [i \in 1..Len(l) |-> t[i]]  BY <2>2, <2>4
    <3> QED  BY <2>5, <3>1
  <2>7. t \in Seq(Edge) /\ Len(t) = Len(l)  BY <2>4, <2>6
  <2> QED  BY <2>1, <2>5, <2>7 DEF t
<1> HIDE DEF o, c, p
<1>6. \A k \in 0..N : SubSeq(c, 1, o[k]) \in Seq(Edge) /\ Len(SubSeq(c, 1, o[k])) = o[k]
  <2> TAKE k \in 0..N
  <2>1. o[k] \in 0..Len(c)  BY <1>4
  <2> QED  BY <1>2, <2>1
<1>7. ASSUME NEW k \in 0..(N - 1)
      PROVE  SubSeq(c, 1, o[k + 1]) = SubSeq(c, 1, o[k]) \o NodeEdges(p, k)
  <2> DEFINE t == NodeEdges(p, k)
             a == o[k]
             b == o[k + 1]
  <2>1. k \in 0..N /\ k + 1 \in 0..N  BY <1>2
  <2>2. a \in 0..Len(c) /\ b \in 0..Len(c) /\ a <= b  BY <1>4, <2>1
  <2>3. t \in Seq(Edge) /\ Len(t) = b - a /\ \A i \in 1..(b - a) : t[i] = c[a + i]  BY <1>5
  <2> HIDE DEF t, a, b
  <2>4. /\ SubSeq(c, 1, b) \in Seq(Edge) /\ Len(SubSeq(c, 1, b)) = b
        /\ SubSeq(c, 1, a) \in Seq(Edge) /\ Len(SubSeq(c, 1, a)) = a
        /\ \A i \in 1..b : SubSeq(c, 1, b)[i] = c[i]
        /\ \A i \in 1..a : SubSeq(c, 1, a)[i] = c[i]
    BY <1>2, <2>2
  <2> DEFINE x == SubSeq(c, 1, a)
             y == SubSeq(c, 1, b)
  <2>5. x \in Seq(Edge) /\ Len(x) = a /\ y \in Seq(Edge) /\ Len(y) = b
        /\ (\A i \in 1..b : y[i] = c[i]) /\ (\A i \in 1..a : x[i] = c[i])
    BY <2>4
  <2> HIDE DEF x, y
  <2> DEFINE u == x \o t
  <2>6. /\ u \in Seq(Edge) /\ Len(u) = b /\ DOMAIN u = 1..b /\ DOMAIN y = 1..b
        /\ \A i \in 1..a : u[i] = x[i]
        /\ \A i \in 1..(b - a) : u[a + i] = t[i]
    <3>1. b \in Nat /\ a \in Nat /\ b - a \in Nat  BY <1>2, <2>2
    <3>2. Len(x) = a /\ Len(t) = b - a /\ x \in Seq(Edge) /\ t \in Seq(Edge)  BY <2>3, <2>5
    <3>3. u \in Seq(Edge) /\ Len(u) = b /\ DOMAIN u = 1..b  BY <3>1, <3>2
    <3>4. DOMAIN y = 1..b  BY <2>5
    <3>5. \A i \in 1..a : u[i] = x[i]  BY <3>1, <3>2
    <3>6. \A i \in 1..(b - a) : u[a + i] = t[i]  BY <3>1, <3>2
    <3> QED  BY <3>3, <3>4, <3>5, <3>6
  <2> HIDE DEF u
  <2>7. ASSUME NEW i \in 1..b  PROVE u[i] = y[i]
    <3>1. b \in Nat /\ a \in Nat  BY <1>2, <2>2
    <3>2. CASE i <= a
      <4>1. i \in 1..a  BY <3>1, <3>2
      <4> QED  BY <2>5, <2>6, <4>1
    <3>3. CASE i > a
      <4>1. i - a \in 1..(b - a) /\ a + (i - a) = i  BY <3>1, <3>3
      <4>2. u[i] = t[i - a]  BY <2>6, <4>1
      <4> QED  BY <2>3, <2>5, <4>1, <4>2
    <3> QED  BY <3>1, <3>2, <3>3
  <2>8. x \o t = y
    <3>1. u = y  BY <2>5, <2>6, <2>7
    <3> QED  BY <3>1 DEF u
  <2> QED  BY <2>8 DEF x, y, t, a, b
<1>8. F = Rec(F)
  <2>1. ASSUME NEW n \in 0..p.nodeCount
        PROVE  F[n] = IF n = 0 THEN <<>> ELSE F[n - 1] \o NodeEdges(p, n - 1)
    <3>1. CASE n = 0
      <4>1. SubSeq(c, 1, 0) = <<>>  BY <1>2
      <4> QED  BY <1>4, <3>1, <4>1
    <3>2. CASE n # 0
      <4>1. n - 1 \in 0..(N - 1) /\ n - 1 \in 0..p.nodeCount /\ (n - 1) + 1 = n
        BY <1>2, <1>3, <3>2
      <4>2. SubSeq(c, 1, o[(n - 1) + 1]) = SubSeq(c, 1, o[n - 1]) \o NodeEdges(p, n - 1)
        BY <1>7, <4>1
      <4> QED  BY <3>2, <4>1, <4>2
    <3> QED  BY <3>1, <3>2
  <2> QED  BY <2>1
<1> DEFINE w == CHOOSE g : g = Rec(g)
<1>9. w = Rec(w)  BY <1>8
<1>10. Materialized(p) = w[N]  BY <1>3 DEF Materialized
<1> HIDE DEF w
<1>11. w[0] = <<>> /\ \A n \in 0..N : n # 0 => w[n] = w[n - 1] \o NodeEdges(p, n - 1)
  <2>1. 0 \in 0..p.nodeCount  BY <1>2, <1>3
  <2> QED  BY <1>3, <1>9, <2>1
<1>12. F[0] = <<>> /\ \A n \in 0..N : n # 0 => F[n] = F[n - 1] \o NodeEdges(p, n - 1)
  <2>1. 0 \in 0..p.nodeCount  BY <1>2, <1>3
  <2> HIDE DEF F
  <2> QED  BY <1>3, <1>8, <2>1
<1>13. F[N] = SubSeq(c, 1, Len(c))
  <2>1. N \in 0..p.nodeCount  BY <1>2, <1>3
  <2> QED  BY <1>4, <2>1
<1> HIDE DEF F, Rec
<1> DEFINE G == {n \in 0..N : w[n] = F[n]}
<1>14. 0 \in G  BY <1>2, <1>11, <1>12
<1>15. ASSUME NEW k \in 0..(N - 1), k \in G  PROVE k + 1 \in G
  <2>1. k + 1 \in 0..N /\ k + 1 # 0 /\ (k + 1) - 1 = k  BY <1>2
  <2>2. w[k + 1] = w[k] \o NodeEdges(p, k) /\ F[k + 1] = F[k] \o NodeEdges(p, k)
    BY <1>11, <1>12, <2>1
  <2> QED  BY <1>15, <2>1, <2>2
<1>16. 0..N \subseteq G
  <2> HIDE DEF G
  <2> QED  BY <1>2, <1>14, <1>15, UpTo
<1>17. w[N] = SubSeq(c, 1, Len(c))
  <2>1. N \in 0..N  BY <1>2
  <2> QED  BY <1>13, <1>16, <2>1
<1>18. SubSeq(c, 1, Len(c)) = c  BY <1>2
<1> QED  BY <1>10, <1>17, <1>18 DEF c, p

\* What write_packed writes, validate_file accepts: no dataset that can be
\* packed leaves a file that does not open.
LEMMA PackedValid ==
  ASSUME NEW edges, NEW nodeCount, Direct(edges, nodeCount)
  PROVE  ValidFile(PackedAs(edges, nodeCount))
<1> DEFINE c == Canonical(edges)
           v == Reversed(edges)
           p == PackedAs(edges, nodeCount)
<1>1. edges \in Edges /\ Distinct(edges) /\ InRange(nodeCount, edges)  BY DEF Direct
<1>2. Sectioned(c, nodeCount, "forward") /\ Sectioned(v, nodeCount, "reverse")
  BY SectionsOf
<1>3. /\ Elements(c) = Elements(edges) /\ Elements(v) = Elements(edges)
      /\ Len(c) = Len(edges) /\ Len(v) = Len(edges)
  BY <1>1, CanonicalEdges
<1>4. /\ \A e \in Elements(c) : Other(e, "forward") < nodeCount
      /\ \A e \in Elements(v) : Other(e, "reverse") < nodeCount
  BY <1>1, <1>3 DEF InRange, Other
<1>5. /\ p.nodeCount = nodeCount /\ p.edgeCount = Len(c)
      /\ p.checksum = DatasetChecksum(nodeCount, c)
      /\ p.forward = Section(c, nodeCount, "forward")
      /\ p.reverse = Section(v, nodeCount, "reverse")
  BY DEF PackedAs, Encode
<1>6. Materialized(p) = c  BY MaterializedExact
<1> HIDE DEF c, v, p
<1>7. /\ ValidSection(p.forward, p.nodeCount, p.edgeCount)
      /\ ValidSection(p.reverse, p.nodeCount, p.edgeCount)
  BY <1>2, <1>3, <1>4, <1>5, SectionValid
<1>8. ValidFile(p)  BY <1>5, <1>6, <1>7 DEF ValidFile
<1> QED  BY <1>8 DEF p

\* So packing a dataset never ends in a file that the reader refuses to open.
THEOREM WrittenFilesOpen == Spec => [](pc = "open" => ValidFile(file))
<1>1. VisibleInv => (pc = "open" => ValidFile(file))
  BY PackedValid DEF VisibleInv, Stored, Proper
<1> QED  BY <1>1, VisibleInvariant, PTL

-----------------------------------------------------------------------------
(* Permutations: a step prime to the size visits every number once.        *)

Divides(d, n) == \E k \in Nat : n = d * k

\* What divides a sum and one part of it divides the other.
LEMMA DividesRest ==
  ASSUME NEW d \in Nat \ {0}, NEW a \in Nat, NEW b \in Nat, Divides(d, a), Divides(d, a + b)
  PROVE  Divides(d, b)
<1>1. PICK j \in Nat : a = d * j  BY DEF Divides
<1>2. PICK k \in Nat : a + b = d * k  BY DEF Divides
<1>3. b = d * (k - j)  BY <1>1, <1>2
<1>4. k >= j
  <2> SUFFICES ASSUME k < j  PROVE FALSE
    OBVIOUS
  <2>1. j - k >= 1  OBVIOUS
  <2>2. d * (j - k) >= d * 1  BY <2>1
  <2>3. d * (j - k) = d * j - d * k  OBVIOUS
  <2>4. d * j - d * k = 0 - b  BY <1>1, <1>2
  <2> QED  BY <2>2, <2>3, <2>4
<1>5. k - j \in Nat  BY <1>4
<1> QED  BY <1>3, <1>5 DEF Divides

\* What divides a number divides its multiples.
LEMMA DividesMultiple ==
  ASSUME NEW d \in Nat, NEW a \in Nat, NEW m \in Nat, Divides(d, a)
  PROVE  Divides(d, a * m) /\ Divides(d, m * a)
<1>1. PICK j \in Nat : a = d * j  BY DEF Divides
<1>2. j * m \in Nat /\ a * m = d * (j * m) /\ m * a = d * (j * m)  BY <1>1
<1> QED  BY <1>2 DEF Divides

\* A quotient and a remainder make up a number.
LEMMA Quotient ==
  ASSUME NEW a \in Nat, NEW b \in Nat \ {0}
  PROVE  /\ a \div b \in Nat /\ a % b \in Nat /\ a % b < b
         /\ a = b * (a \div b) + (a % b)
OBVIOUS

\* A turn keeps common divisors.
LEMMA TurnKeepsDivisors ==
  ASSUME NEW d \in Nat \ {0}, NEW pair \in Nat \X Nat, Divides(d, pair[1]), Divides(d, pair[2])
  PROVE  /\ DivisorTurn(pair) \in Nat \X Nat
         /\ Divides(d, DivisorTurn(pair)[1]) /\ Divides(d, DivisorTurn(pair)[2])
<1>1. CASE pair[2] = 0  BY <1>1 DEF DivisorTurn
<1>2. CASE pair[2] # 0
  <2> DEFINE a == pair[1]
             b == pair[2]
  <2>1. a \in Nat /\ b \in Nat \ {0} /\ Divides(d, a) /\ Divides(d, b)  BY <1>2
  <2>2. DivisorTurn(pair) = <<b, a % b>>  BY <1>2 DEF DivisorTurn
  <2> HIDE DEF a, b
  <2>3. /\ a \div b \in Nat /\ a % b \in Nat /\ a = b * (a \div b) + (a % b)
    BY <2>1, Quotient
  <2>4. Divides(d, b * (a \div b)) /\ b * (a \div b) \in Nat  BY <2>1, <2>3, DividesMultiple
  <2>5. Divides(d, a % b)
    <3> DEFINE x == b * (a \div b)
               y == a % b
    <3>1. x \in Nat /\ y \in Nat /\ Divides(d, x) /\ Divides(d, x + y)
      BY <2>1, <2>3, <2>4
    <3> HIDE DEF x, y
    <3>2. Divides(d, y)  BY <3>1, DividesRest
    <3> QED  BY <3>2 DEF y
  <2> QED  BY <2>1, <2>2, <2>3, <2>5
<1> QED  BY <1>1, <1>2

(* The turns of greatest_common_divisor.                                   *)
TurnsOf(a, b, turn) ==
  turn = [k \in 0..b |-> IF k = 0 THEN <<a, b>> ELSE DivisorTurn(turn[k - 1])]

\* They are taken one after another.
LEMMA TurnsTaken ==
  ASSUME NEW a \in Nat, NEW b \in Nat
  PROVE  \E turn : /\ GreatestCommonDivisor(a, b) = turn[b][1]
                   /\ turn[0] = <<a, b>>
                   /\ \A k \in 0..(b - 1) : turn[k + 1] = DivisorTurn(turn[k])
<1> DEFINE X == Nat \X Nat
           step == [x \in X |-> DivisorTurn(x)]
           w == CHOOSE turn : TurnsOf(a, b, turn)
<1>1. step \in [X -> X]
  <2>1. ASSUME NEW x \in X  PROVE DivisorTurn(x) \in X
    <3>1. x[1] \in Nat /\ x[2] \in Nat  OBVIOUS
    <3>2. CASE x[2] = 0  BY <3>2 DEF DivisorTurn
    <3>3. CASE x[2] # 0
      <4>1. x[1] % x[2] \in Nat  BY <3>1, <3>3
      <4> QED  BY <3>1, <3>3, <4>1 DEF DivisorTurn
    <3> QED  BY <3>2, <3>3
  <2> QED  BY <2>1
<1>2. <<a, b>> \in X  OBVIOUS
<1>3. \A x \in X : step[x] = DivisorTurn(x)  OBVIOUS
<1> HIDE DEF X, step
<1>4. PICK f \in Runs(X, <<a, b>>, step, b) : TRUE  BY <1>1, <1>2, Iterated
<1>5. f \in [0..b -> X] /\ f[0] = <<a, b>> /\ \A i \in 1..b : f[i] = step[f[i - 1]]
  BY <1>4 DEF Runs
<1>6. TurnsOf(a, b, f)
  <2>1. ASSUME NEW k \in 0..b
        PROVE  f[k] = IF k = 0 THEN <<a, b>> ELSE DivisorTurn(f[k - 1])
    <3>1. CASE k = 0  BY <1>5, <3>1
    <3>2. CASE k # 0
      <4>1. k \in 1..b /\ k - 1 \in 0..b  BY <3>2
      <4>2. f[k] = step[f[k - 1]] /\ f[k - 1] \in X  BY <1>5, <4>1
      <4> QED  BY <1>3, <3>2, <4>2
    <3> QED  BY <3>1, <3>2
  <2>2. f = [k \in 0..b |-> f[k]]  BY <1>5
  <2> QED  BY <2>1, <2>2 DEF TurnsOf
<1>7. TurnsOf(a, b, w)  BY <1>6
<1>8. GreatestCommonDivisor(a, b) = w[b][1]
  BY DEF GreatestCommonDivisor, TurnsOf
<1> HIDE DEF w
<1>9. w[0] = <<a, b>>
  <2>1. 0 \in 0..b  OBVIOUS
  <2> QED  BY <1>7, <2>1 DEF TurnsOf
<1>10. ASSUME NEW k \in 0..(b - 1)  PROVE w[k + 1] = DivisorTurn(w[k])
  <2>1. k + 1 \in 0..b /\ k + 1 # 0 /\ (k + 1) - 1 = k  OBVIOUS
  <2>2. w[k + 1] = IF k + 1 = 0 THEN <<a, b>> ELSE DivisorTurn(w[(k + 1) - 1])
    BY <1>7, <2>1 DEF TurnsOf
  <2> QED  BY <2>1, <2>2
<1> QED  BY <1>8, <1>9, <1>10

\* So a common divisor divides the result.
LEMMA CommonDivisor ==
  ASSUME NEW a \in Nat, NEW b \in Nat, NEW d \in Nat \ {0}, Divides(d, a), Divides(d, b)
  PROVE  Divides(d, GreatestCommonDivisor(a, b))
<1>1. PICK turn : /\ GreatestCommonDivisor(a, b) = turn[b][1]
                  /\ turn[0] = <<a, b>>
                  /\ \A k \in 0..(b - 1) : turn[k + 1] = DivisorTurn(turn[k])
  BY TurnsTaken
<1> DEFINE G == {k \in 0..b : /\ turn[k] \in Nat \X Nat
                              /\ Divides(d, turn[k][1]) /\ Divides(d, turn[k][2])}
<1>2. 0 \in G  BY <1>1
<1>3. ASSUME NEW k \in 0..(b - 1), k \in G  PROVE k + 1 \in G
  <2>1. k + 1 \in 0..b  OBVIOUS
  <2>2. turn[k + 1] = DivisorTurn(turn[k])  BY <1>1
  <2> QED  BY <1>3, <2>1, <2>2, TurnKeepsDivisors
<1>4. b \in G
  <2> HIDE DEF G
  <2>1. 0..b \subseteq G  BY <1>2, <1>3, UpTo
  <2> QED  BY <2>1
<1> QED  BY <1>1, <1>4

\* One is prime to every number.
LEMMA OneIsPrime ==
  ASSUME NEW b \in Nat, b >= 2
  PROVE  GreatestCommonDivisor(1, b) = 1
<1>1. PICK turn : /\ GreatestCommonDivisor(1, b) = turn[b][1]
                  /\ turn[0] = <<1, b>>
                  /\ \A k \in 0..(b - 1) : turn[k + 1] = DivisorTurn(turn[k])
  <2>1. PICK one \in Nat : one = 1  OBVIOUS
  <2>2. \E turn : /\ GreatestCommonDivisor(one, b) = turn[b][1]
                  /\ turn[0] = <<one, b>>
                  /\ \A k \in 0..(b - 1) : turn[k + 1] = DivisorTurn(turn[k])
    BY TurnsTaken
  <2> QED  BY <2>1, <2>2
<1>2. turn[1] = <<b, 1>>
  <2>1. 0 \in 0..(b - 1) /\ 0 + 1 = 1  OBVIOUS
  <2>2. turn[1] = DivisorTurn(<<1, b>>)  BY <1>1, <2>1
  <2>3. 1 % b = 1  OBVIOUS
  <2> QED  BY <2>2, <2>3 DEF DivisorTurn
<1>3. turn[2] = <<1, 0>>
  <2>1. 1 \in 0..(b - 1) /\ 1 + 1 = 2  OBVIOUS
  <2>2. turn[2] = DivisorTurn(<<b, 1>>)  BY <1>1, <1>2, <2>1
  <2>3. b % 1 = 0  OBVIOUS
  <2> QED  BY <2>2, <2>3 DEF DivisorTurn
<1> DEFINE G == {k \in 0..(b - 2) : turn[k + 2] = <<1, 0>>}
<1>4. 0 \in G  BY <1>3
<1>5. ASSUME NEW k \in 0..((b - 2) - 1), k \in G  PROVE k + 1 \in G
  <2>1. k + 1 \in 0..(b - 2) /\ k + 2 \in 0..(b - 1) /\ (k + 2) + 1 = (k + 1) + 2  OBVIOUS
  <2>2. turn[(k + 2) + 1] = DivisorTurn(turn[k + 2]) /\ turn[k + 2] = <<1, 0>>
    BY <1>1, <1>5, <2>1
  <2>3. DivisorTurn(<<1, 0>>) = <<1, 0>>  BY DEF DivisorTurn
  <2> QED  BY <2>1, <2>2, <2>3
<1>6. b - 2 \in G
  <2> HIDE DEF G
  <2>1. b - 2 \in Nat  OBVIOUS
  <2>2. 0..(b - 2) \subseteq G  BY <1>4, <1>5, <2>1, UpTo
  <2> QED  BY <2>1, <2>2
<1>7. (b - 2) + 2 = b  OBVIOUS
<1> QED  BY <1>1, <1>6, <1>7

\* A step from the one drawn on that is prime to the size is found.
LEMMA StrideFound ==
  ASSUME NEW size \in Nat, size >= 2, NEW drawn \in Nat
  PROVE  /\ Stride(size, drawn) \in 1..(size - 1)
         /\ GreatestCommonDivisor(Stride(size, drawn), size) = 1
<1> DEFINE first == IF drawn % size = 0 THEN 1 ELSE drawn % size
           around == [k \in 0..(size - 2) |-> 1 + ((first - 1 + k) % (size - 1))]
           prime(k) == GreatestCommonDivisor(around[k], size) = 1
           T == {k \in 0..(size - 2) : prime(k)}
           least(k) == prime(k) /\ \A j \in 0..(k - 1) : ~ prime(j)
<1>1. first \in 1..(size - 1)
  <2>1. drawn % size \in 0..(size - 1)  OBVIOUS
  <2> QED  BY <2>1
<1>2. Stride(size, drawn) = around[CHOOSE k \in DOMAIN around : least(k)]
  BY DEF Stride
<1> HIDE DEF first
<1>3. \A k \in 0..(size - 2) : around[k] \in 1..(size - 1)
  <2> TAKE k \in 0..(size - 2)
  <2>1. first - 1 + k \in Nat /\ size - 1 \in Nat \ {0}  BY <1>1
  <2>2. (first - 1 + k) % (size - 1) \in 0..((size - 1) - 1)  BY <2>1
  <2> QED  BY <2>2
<1>4. \E k \in 0..(size - 2) : around[k] = 1
  <2>1. CASE first = 1
    <3>1. 0 \in 0..(size - 2)  OBVIOUS
    <3>2. first - 1 + 0 = 0 /\ 0 % (size - 1) = 0  BY <2>1
    <3>3. around[0] = 1  BY <3>1, <3>2
    <3> QED  BY <3>1, <3>3
  <2>2. CASE first # 1
    <3>1. size - first \in 0..(size - 2)  BY <1>1, <2>2
    <3>2. first - 1 + (size - first) = size - 1 /\ (size - 1) % (size - 1) = 0  BY <1>1
    <3>3. around[size - first] = 1  BY <3>1, <3>2
    <3> QED  BY <3>1, <3>3
  <2> QED  BY <2>1, <2>2
<1>5. DOMAIN around = 0..(size - 2)  OBVIOUS
<1> HIDE DEF around
<1>6. PICK k \in 0..(size - 2) : prime(k)  BY <1>4, OneIsPrime
<1>7. k \in T /\ T \in SUBSET Nat /\ T \subseteq 0..(size - 2) /\ \A j \in T : prime(j)  BY <1>6
<1>8. \A j \in 0..(size - 2) : prime(j) => j \in T  OBVIOUS
<1> HIDE DEF T
<1>9. PICK m \in T : \A j \in T : m <= j  BY <1>7, LeastNumber
<1>10. m \in 0..(size - 2) /\ prime(m)  BY <1>7, <1>9
<1>11. \A j \in 0..(m - 1) : ~ prime(j)
  <2> TAKE j \in 0..(m - 1)
  <2>1. j \in 0..(size - 2) /\ ~ (m <= j)  BY <1>10
  <2> QED  BY <1>8, <1>9, <2>1
<1>12. m \in DOMAIN around /\ least(m)  BY <1>5, <1>10, <1>11
<1> DEFINE c == CHOOSE x \in DOMAIN around : least(x)
<1>13. c \in DOMAIN around /\ least(c)
  <2> HIDE DEF prime
  <2> QED  BY <1>12
<1> HIDE DEF c
<1>14. Stride(size, drawn) = around[c]  BY <1>2 DEF c
<1> QED  BY <1>3, <1>5, <1>13, <1>14

\* No multiple of such a step but those of the size comes back to zero.
LEMMA PrimeMultiple ==
  ASSUME NEW size \in Nat \ {0}, NEW stride \in Nat, GreatestCommonDivisor(stride, size) = 1,
         NEW n \in 1..(size - 1)
  PROVE  ~ Divides(size, stride * n)
<1> SUFFICES ASSUME Divides(size, stride * n)  PROVE FALSE
  OBVIOUS
<1> DEFINE T == {k \in Nat : k # 0 /\ Divides(size, stride * k)}
<1>1. n \in T /\ T \in SUBSET Nat  OBVIOUS
<1>2. PICK m \in T : \A k \in T : m <= k  BY <1>1, LeastNumber
<1>3. m \in Nat \ {0} /\ m <= n /\ Divides(size, stride * m)  BY <1>1, <1>2
<1>4. m < size  BY <1>3
<1> DEFINE q == size \div m
           r == size % m
<1>5. q \in Nat /\ r \in Nat /\ r < m /\ size = m * q + r  BY <1>3, Quotient
<1>6. \A k \in Nat : k # 0 /\ Divides(size, stride * k) => m <= k  BY <1>2
<1> HIDE DEF T, q, r
<1>7. r = 0
  <2>1. Divides(size, (stride * m) * q)
    <3>1. stride * m \in Nat  BY <1>3
    <3> QED  BY <1>3, <1>5, <3>1, DividesMultiple
  <2>2. Divides(size, stride * size)  BY DEF Divides
  <2>3. stride * size = (stride * m) * q + stride * r
    <3>1. stride * size = stride * (m * q + r)  BY <1>5
    <3>2. m * q \in Nat /\ stride * (m * q + r) = stride * (m * q) + stride * r  BY <1>3, <1>5
    <3>3. stride * (m * q) = (stride * m) * q  BY <1>3, <1>5
    <3> QED  BY <3>1, <3>2, <3>3
  <2>4. (stride * m) * q \in Nat /\ stride * r \in Nat  BY <1>3, <1>5
  <2>5. Divides(size, stride * r)
    <3> DEFINE x == (stride * m) * q
               y == stride * r
    <3>1. x \in Nat /\ y \in Nat /\ Divides(size, x) /\ Divides(size, x + y)
      BY <2>1, <2>2, <2>3, <2>4
    <3> HIDE DEF x, y
    <3>2. Divides(size, y)  BY <3>1, DividesRest
    <3> QED  BY <3>2 DEF y
  <2>6. r \in Nat /\ (r # 0 => m <= r)
    <3>1. r \in Nat  BY <1>5
    <3> QED  BY <1>6, <2>5, <3>1, Zenon
  <2>7. r < m  BY <1>5
  <2> QED  BY <1>3, <2>6, <2>7
<1>8. size = m * q /\ q # 0  BY <1>3, <1>5, <1>7
<1>9. Divides(q, size)  BY <1>3, <1>8, <1>5 DEF Divides
<1>10. Divides(q, stride)
  <2>1. PICK t \in Nat : stride * m = size * t  BY <1>3 DEF Divides
  <2>2. m * stride = m * (q * t)
    <3>1. size * t = (m * q) * t  BY <1>8
    <3>2. (m * q) * t = m * (q * t)  BY <1>3, <1>5
    <3> QED  BY <1>3, <2>1, <3>1, <3>2
  <2>3. q * t \in Nat  BY <1>5
  <2> DEFINE z == q * t
  <2>4. stride = z
    <3>1. z \in Nat /\ m * stride = m * z  BY <2>2, <2>3
    <3> HIDE DEF z
    <3>2. m * (stride - z) = 0  BY <1>3, <3>1
    <3> QED  BY <1>3, <3>1, <3>2
  <2> QED  BY <2>4 DEF Divides
<1>11. Divides(q, 1)
  <2>1. q \in Nat \ {0} /\ size \in Nat  BY <1>5, <1>8
  <2>2. Divides(q, GreatestCommonDivisor(stride, size))  BY <1>9, <1>10, <2>1, CommonDivisor
  <2> QED  BY <2>2
<1>12. q = 1
  <2>1. PICK k \in Nat : 1 = q * k  BY <1>11 DEF Divides
  <2>2. k # 0  BY <1>5, <2>1
  <2>3. q <= q * k
    <3>1. q * (k - 1) >= 0  BY <1>5, <2>2
    <3> QED  BY <1>5, <3>1
  <2> QED  BY <1>5, <1>8, <2>1, <2>3
<1> QED  BY <1>3, <1>4, <1>8, <1>12

(* Lists in which nothing repeats.                                         *)
Injective(s) == \A i, j \in DOMAIN s : s[i] = s[j] => i = j

\* A permutation draws every number below its size, none twice.
LEMMA PermutationExact ==
  ASSUME NEW size \in Nat, NEW draw \in Nat \X Nat
  PROVE  /\ Permutation(size, draw) \in [1..size -> 0..(size - 1)]
         /\ Injective(Permutation(size, draw))
<1> DEFINE p == Permutation(size, draw)
<1>1. CASE size <= 1
  <2>1. p = [i \in 1..size |-> 0]  BY <1>1 DEF Permutation
  <2>2. \A i \in 1..size : i = 1 /\ 0 \in 0..(size - 1)  BY <1>1
  <2> HIDE DEF p
  <2>3. p \in [1..size -> 0..(size - 1)] /\ Injective(p)  BY <2>1, <2>2 DEF Injective
  <2> QED  BY <2>3 DEF p
<1>2. CASE size > 1
  <2> DEFINE stride == Stride(size, draw[2])
             start == draw[1]
  <2>1. start \in Nat /\ draw[2] \in Nat  OBVIOUS
  <2>2. stride \in 1..(size - 1) /\ GreatestCommonDivisor(stride, size) = 1
    BY <1>2, <2>1, StrideFound
  <2>3. p = [i \in 1..size |-> (stride * (i - 1) + start) % size]  BY <1>2 DEF Permutation
  <2> HIDE DEF p, stride, start
  <2>4. \A i \in 1..size : stride * (i - 1) \in Nat  BY <2>2
  <2>5. \A i \in 1..size : p[i] \in 0..(size - 1)
    <3> TAKE i \in 1..size
    <3>1. stride * (i - 1) + start \in Nat  BY <2>1, <2>4
    <3>2. (stride * (i - 1) + start) % size \in 0..(size - 1)  BY <1>2, <3>1
    <3> QED  BY <2>3, <3>2
  <2>6. ASSUME NEW i \in 1..size, NEW j \in 1..size, i < j  PROVE p[i] # p[j]
    <3> SUFFICES ASSUME p[i] = p[j]  PROVE FALSE
      OBVIOUS
    <3> DEFINE a == stride * (i - 1) + start
               b == stride * (j - 1) + start
    <3>1. a \in Nat /\ b \in Nat  BY <2>1, <2>4
    <3>2. a % size = b % size  BY <2>3
    <3>3. j - i \in 1..(size - 1) /\ b - a = stride * (j - i)
      <4>1. stride * (j - i) = stride * (j - 1) - stride * (i - 1)  BY <2>2
      <4>2. stride * (j - 1) \in Nat /\ stride * (i - 1) \in Nat  BY <2>4
      <4> QED  BY <2>1, <2>6, <4>1, <4>2
    <3> HIDE DEF a, b
    <3>4. b - a = size * ((b \div size) - (a \div size))
      <4>1. /\ a \div size \in Nat /\ b \div size \in Nat
            /\ a = size * (a \div size) + (a % size) /\ b = size * (b \div size) + (b % size)
            /\ a % size \in Nat
        BY <1>2, <3>1, Quotient
      <4>2. size * ((b \div size) - (a \div size)) = size * (b \div size) - size * (a \div size)
        BY <4>1
      <4> DEFINE u == a \div size
                 v == b \div size
      <4> QED  BY <3>1, <3>2, <4>1, <4>2
    <3>5. stride * (j - i) \in Nat /\ stride * (j - i) >= 1
      <4>1. stride * (j - i) >= stride * 1  BY <2>2, <3>3
      <4> QED  BY <2>2, <3>3, <4>1
    <3> DEFINE k == (b \div size) - (a \div size)
    <3>6. k \in Int /\ size * k >= 1  BY <1>2, <3>1, <3>3, <3>4, <3>5
    <3>7. stride * (j - i) = size * k  BY <3>3, <3>4
    <3> HIDE DEF k
    <3>8. k \in Nat
      <4> SUFFICES ASSUME k <= 0  PROVE FALSE
        BY <3>6
      <4>1. size * k <= 0  BY <3>6
      <4> QED  BY <3>6, <4>1
    <3>9. Divides(size, stride * (j - i))  BY <3>7, <3>8 DEF Divides
    <3>10. stride \in Nat /\ size \in Nat \ {0}  BY <1>2, <2>2
    <3> QED  BY <2>2, <3>3, <3>9, <3>10, PrimeMultiple
  <2>7. p \in [1..size -> 0..(size - 1)]  BY <2>3, <2>5
  <2>8. Injective(p)
    <3> SUFFICES ASSUME NEW i \in 1..size, NEW j \in 1..size, p[i] = p[j]  PROVE i = j
      BY <2>7 DEF Injective
    <3> QED  BY <2>6
  <2> QED  BY <2>7, <2>8 DEF p
<1> QED  BY <1>1, <1>2

-----------------------------------------------------------------------------
(* Lists of edges, sorted with their duplicates.                           *)

(* The places of a list in the order of the edges there, then of places.   *)
PlaceBefore(s) ==
  {p \in (DOMAIN s) \X (DOMAIN s) :
     \/ EdgeBefore(s[p[1]], s[p[2]])
     \/ ~ EdgeBefore(s[p[2]], s[p[1]]) /\ p[1] < p[2]}

LEMMA PlacesOrdered ==
  ASSUME NEW s \in Edges
  PROVE  TotalOrder(PlaceBefore(s), DOMAIN s)
<1> DEFINE D == DOMAIN s
           R == PlaceBefore(s)
<1>1. /\ D = 1..Len(s) /\ Len(s) \in Nat
      /\ \A i \in D : s[i] \in Edge
  BY DEF Edges, Edge
<1>2. "forward" \in Direction  BY DEF Direction
<1>3. \A d, e \in Edge : EdgeBefore(d, e) <=> Ahead(d, e, "forward")  BY AheadIs
<1>4. /\ \A d \in Edge : ~ Ahead(d, d, "forward")
      /\ \A d, e, f \in Edge :
           Ahead(d, e, "forward") /\ Ahead(e, f, "forward") => Ahead(d, f, "forward")
      /\ \A d, e \in Edge : d = e \/ Ahead(d, e, "forward") \/ Ahead(e, d, "forward")
  BY <1>2, AheadOrders
<1>5. \A i, j \in D : <<i, j>> \in R <=>
        Ahead(s[i], s[j], "forward") \/ (s[i] = s[j] /\ i < j)
  <2> TAKE i, j \in D
  <2>1. <<i, j>> \in R <=> EdgeBefore(s[i], s[j]) \/ (~ EdgeBefore(s[j], s[i]) /\ i < j)
    BY DEF PlaceBefore
  <2>2. s[i] \in Edge /\ s[j] \in Edge  BY <1>1
  <2> QED  BY <1>3, <1>4, <2>1, <2>2
<1> HIDE DEF R
<1>6. \A i \in D : <<i, i>> \notin R  BY <1>1, <1>4, <1>5
<1>7. ASSUME NEW i \in D, NEW j \in D, NEW k \in D, <<i, j>> \in R, <<j, k>> \in R
      PROVE  <<i, k>> \in R
  <2>1. s[i] \in Edge /\ s[j] \in Edge /\ s[k] \in Edge  BY <1>1
  <2>2. Ahead(s[i], s[j], "forward") \/ (s[i] = s[j] /\ i < j)  BY <1>5, <1>7
  <2>3. Ahead(s[j], s[k], "forward") \/ (s[j] = s[k] /\ j < k)  BY <1>5, <1>7
  <2>4. i \in Nat /\ j \in Nat /\ k \in Nat  BY <1>1
  <2>5. Ahead(s[i], s[k], "forward") \/ (s[i] = s[k] /\ i < k)
    BY <1>4, <2>1, <2>2, <2>3, <2>4
  <2> QED  BY <1>5, <2>5
<1>8. ASSUME NEW i \in D, NEW j \in D, i # j  PROVE <<i, j>> \in R \/ <<j, i>> \in R
  <2>1. s[i] \in Edge /\ s[j] \in Edge /\ i \in Nat /\ j \in Nat  BY <1>1
  <2>2. i < j \/ j < i  BY <1>8, <2>1
  <2> QED  BY <1>4, <1>5, <2>1, <2>2
<1> QED  BY <1>6, <1>7, <1>8 DEF TotalOrder, R

\* Sorting keeps what a list holds and how long it is; the edges of a list
\* without repetitions end up in the order of Ordered.
LEMMA SortedEdgesExact ==
  ASSUME NEW s \in Edges
  PROVE  /\ SortedEdges(s) \in Edges /\ Elements(SortedEdges(s)) = Elements(s)
         /\ Len(SortedEdges(s)) = Len(s)
         /\ Injective(s) => SortedEdges(s) = Ordered(Elements(s), EdgeBefore)
<1> DEFINE D == DOMAIN s
           c == Ranked(D, PlaceBefore(s))
           t == SortedEdges(s)
<1>1. /\ D = 1..Len(s) /\ Len(s) \in Nat
      /\ \A i \in D : s[i] \in Edge
  BY DEF Edges, Edge
<1>2. t = AtPlaces(s, c)
  BY DEF SortedEdges, SortedBy, Ordered, PlaceBefore
<1>3. IsFiniteSet(D) /\ Cardinality(D) = Len(s)  BY <1>1, FS_Interval
<1>4. TotalOrder(PlaceBefore(s), D)  BY PlacesOrdered
<1>5. Lists(c, D, PlaceBefore(s)) /\ Len(c) = Len(s)  BY <1>3, <1>4, RankedLists
<1>6. \A i \in D : s[i] \in Elements(s)  BY DEF Elements
<1> HIDE DEF c, t
<1>7. /\ c \in Seq(D) /\ Elements(c) = D /\ DOMAIN c = D
      /\ \A k, l \in D : k < l => <<c[k], c[l]>> \in PlaceBefore(s)
  <2>1. /\ c \in Seq(D) /\ Elements(c) = D
        /\ \A k, l \in DOMAIN c : k < l => <<c[k], c[l]>> \in PlaceBefore(s)
    BY <1>5 DEF Lists
  <2>2. DOMAIN c = 1..Len(c)  BY <2>1
  <2> QED  BY <1>1, <1>5, <2>1, <2>2
<1>8. \A k \in D : c[k] \in D  BY <1>7
<1>9. DOMAIN t = D /\ \A k \in D : t[k] = s[c[k]]  BY <1>2, <1>7 DEF AtPlaces
<1>10. t \in Edges /\ Len(t) = Len(s)
  <2>1. t = [k \in 1..Len(s) |-> s[c[k]]]  BY <1>1, <1>2, <1>7 DEF AtPlaces
  <2>2. \A k \in 1..Len(s) : s[c[k]] \in Edge  BY <1>1, <1>8
  <2> HIDE DEF D
  <2> QED  BY <1>1, <2>1, <2>2 DEF Edges, Edge
<1>11. Elements(t) = Elements(s)
  <2>1. \A x \in Elements(t) : x \in Elements(s)  BY <1>6, <1>8, <1>9 DEF Elements
  <2>2. ASSUME NEW x \in Elements(s)  PROVE x \in Elements(t)
    <3>1. PICK i \in D : x = s[i]  BY DEF Elements
    <3>2. PICK k \in D : c[k] = i  BY <1>7 DEF Elements
    <3> QED  BY <1>9, <3>1, <3>2 DEF Elements
  <2> QED  BY <2>1, <2>2
<1>12. ASSUME Injective(s)  PROVE t = Ordered(Elements(s), EdgeBefore)
  <2>1. Grouped(t, "forward")
    <3> SUFFICES ASSUME NEW k \in D, NEW l \in D, k < l  PROVE Ahead(t[k], t[l], "forward")
      BY <1>9 DEF Grouped
    <3>1. <<c[k], c[l]>> \in PlaceBefore(s)  BY <1>7
    <3>2. c[k] \in D /\ c[l] \in D  BY <1>8
    <3>3. s[c[k]] \in Edge /\ s[c[l]] \in Edge  BY <1>1, <3>2
    <3>4. c[k] # c[l]  BY <1>4, <3>1, <3>2 DEF TotalOrder
    <3>5. s[c[k]] # s[c[l]]  BY <1>12, <3>2, <3>4 DEF Injective
    <3>6. EdgeBefore(s[c[k]], s[c[l]]) \/ ~ EdgeBefore(s[c[l]], s[c[k]])
      BY <3>1 DEF PlaceBefore
    <3>7. "forward" \in Direction  BY DEF Direction
    <3>8. Ahead(s[c[k]], s[c[l]], "forward")
      BY <3>3, <3>5, <3>6, <3>7, AheadIs, AheadOrders
    <3> QED  BY <1>9, <3>8
  <2>2. "forward" \in Direction  BY DEF Direction
  <2>3. t = Ranked(Elements(t), AheadIn(Elements(t), "forward"))
    BY <1>10, <2>1, <2>2, RankedEdgesUnique
  <2>4. Elements(s) \in SUBSET Edge  BY <1>1 DEF Elements
  <2>5. Ordered(Elements(s), EdgeBefore) = Ranked(Elements(s), AheadIn(Elements(s), "forward"))
    BY <2>4, OrderedEdges
  <2> QED  BY <1>11, <2>3, <2>5, Zenon
<1> QED  BY <1>10, <1>11, <1>12 DEF t

\* Nothing repeats in a list that holds as many as it is long.
LEMMA InjectiveCount ==
  ASSUME NEW X, NEW s \in Seq(X)
  PROVE  Injective(s) <=> Cardinality(Elements(s)) = Len(s)
<1> DEFINE n == Len(s)
<1>1. n \in Nat /\ DOMAIN s = 1..n /\ s \in [1..n -> X]  OBVIOUS
<1>2. Injective(s) => Cardinality(Elements(s)) = n  BY DistinctCount DEF Injective
<1>3. ASSUME Cardinality(Elements(s)) = n  PROVE Injective(s)
  <2>1. IsFiniteSet(1..n) /\ Cardinality(1..n) = n  BY <1>1, FS_Interval
  <2>2. s \in [1..n -> Elements(s)]  BY <1>1 DEF Elements
  <2>3. \A x \in Elements(s) : \E i \in 1..n : s[i] = x  BY <1>1 DEF Elements
  <2>4. s \in Surjection(1..n, Elements(s))  BY <2>2, <2>3 DEF Surjection
  <2>5. s \in Injection(1..n, Elements(s))
    BY <1>3, <2>1, <2>4, FS_SurjSameCardinalityImpliesInj
  <2> QED  BY <1>1, <2>5 DEF Injection, IsInjective, Injective
<1> QED  BY <1>2, <1>3

\* No number is twice in a list of numbers that grow.
LEMMA AscendingInjective ==
  ASSUME NEW S \in SUBSET Nat, IsFiniteSet(S)
  PROVE  /\ Injective(Ascending(S)) /\ Len(Ascending(S)) = Cardinality(S)
         /\ DOMAIN Ascending(S) = 1..Cardinality(S) /\ Cardinality(S) \in Nat
         /\ \A i \in DOMAIN Ascending(S) : Ascending(S)[i] \in S
<1> DEFINE c == Ascending(S)
<1>1. /\ c \in Seq(S) /\ Len(c) = Cardinality(S)
      /\ \A i, j \in DOMAIN c : i < j => c[i] < c[j]
  BY AscendingList
<1> HIDE DEF c
<1>2. DOMAIN c = 1..Len(c) /\ Len(c) \in Nat  BY <1>1
<1>3. \A i \in DOMAIN c : c[i] \in S  BY <1>1, Member
<1>4. ASSUME NEW i \in DOMAIN c, NEW j \in DOMAIN c, c[i] = c[j]  PROVE i = j
  <2>1. c[i] \in Nat  BY <1>3
  <2>2. i \in Nat /\ j \in Nat  BY <1>2
  <2>3. ~ (i < j) /\ ~ (j < i)  BY <1>1, <1>4, <2>1
  <2> QED  BY <2>2, <2>3
<1> QED  BY <1>1, <1>2, <1>3, <1>4 DEF Injective, c

\* What is filtered out of a list without repetitions has none.
LEMMA FilteredInjective ==
  ASSUME NEW X, NEW s \in Seq(X), NEW keep, Injective(s)
  PROVE  Injective(Filtered(s, keep))
<1> DEFINE D == {i \in DOMAIN s : s[i] \in keep}
           c == Ascending(D)
<1>1. DOMAIN s = 1..Len(s) /\ Len(s) \in Nat  OBVIOUS
<1>2. D \in SUBSET Nat /\ IsFiniteSet(D)
  <2>1. IsFiniteSet(1..Len(s))  BY <1>1, FS_Interval
  <2>2. D \in SUBSET (1..Len(s))  BY <1>1
  <2> QED  BY <2>1, <2>2, FS_Subset
<1>3. Filtered(s, keep) = AtPlaces(s, c)  BY DEF Filtered, Ordered, Ascending
<1>4. \A i \in D : i \in DOMAIN s  OBVIOUS
<1> HIDE DEF D
<1>5. Injective(c) /\ \A i \in DOMAIN c : c[i] \in D
  BY <1>2, AscendingInjective
<1> HIDE DEF c
<1>6. \A i \in DOMAIN c : c[i] \in DOMAIN s  BY <1>4, <1>5
<1>7. ASSUME NEW i \in DOMAIN c, NEW j \in DOMAIN c, s[c[i]] = s[c[j]]  PROVE i = j
  <2>1. c[i] = c[j]  BY <1>6, <1>7 DEF Injective
  <2> QED  BY <1>5, <2>1 DEF Injective
<1>8. Injective(AtPlaces(s, c))  BY <1>7 DEF Injective, AtPlaces
<1> QED  BY <1>3, <1>8

-----------------------------------------------------------------------------
(* Pairs that are drawn.                                                   *)

\* What is drawn is of the pairs, and none that is passed over.
LEMMA DrawnPairs ==
  ASSUME NEW X, NEW size \in Nat, NEW pairs \in [0..(size - 1) -> X], NEW skipped,
         NEW count \in Int, NEW draw \in Nat \X Nat
  PROVE  /\ Drawn(pairs, skipped, count, draw) \in Seq(X)
         /\ Elements(Drawn(pairs, skipped, count, draw))
              \subseteq {pairs[o] : o \in 0..(size - 1)} \ skipped
<1> DEFINE order == Permutation(size, draw)
           drawn == [i \in DOMAIN order |-> pairs[order[i]]]
           kept == Filtered(drawn, Elements(drawn) \ skipped)
           n == AtMost(count, Len(kept))
<1>1. DOMAIN pairs = 0..(size - 1) /\ Cardinality(0..(size - 1)) = size
  BY FS_Interval
<1>2. Drawn(pairs, skipped, count, draw) = SubSeq(kept, 1, n)  BY <1>1 DEF Drawn
<1>3. order \in [1..size -> 0..(size - 1)]  BY PermutationExact
<1> HIDE DEF order
<1>4. drawn = [i \in 1..size |-> pairs[order[i]]]  BY <1>3
<1>5. \A i \in 1..size : order[i] \in 0..(size - 1) /\ pairs[order[i]] \in X  BY <1>3
<1> HIDE DEF drawn
<1>6. drawn \in Seq(X)  BY <1>4, <1>5
<1>7. Elements(drawn) \subseteq {pairs[o] : o \in 0..(size - 1)}
  BY <1>4, <1>5 DEF Elements
<1>8. kept \in Seq(X) /\ Elements(kept) \subseteq Elements(drawn) \ skipped
  <2>1. /\ kept \in Seq(X \cap (Elements(drawn) \ skipped))
        /\ Elements(kept) = Elements(drawn) \cap (Elements(drawn) \ skipped)
    BY <1>6, FilteredList
  <2> HIDE DEF kept
  <2> QED  BY <2>1
<1> HIDE DEF kept
<1>9. n \in Int /\ n <= Len(kept)  BY <1>8 DEF AtMost
<1> HIDE DEF n
<1>10. SubSeq(kept, 1, n) \in Seq(X) /\ Elements(SubSeq(kept, 1, n)) \subseteq Elements(kept)
  <2>1. \A i \in 1..n : i \in 1..Len(kept)  BY <1>8, <1>9
  <2>2. \A i \in 1..n : kept[i] \in X /\ kept[i] \in Elements(kept)
    BY <1>8, <2>1 DEF Elements
  <2>3. CASE n \in Nat
    <3>1. SubSeq(kept, 1, n) = [i \in 1..n |-> kept[i]]  BY <1>8, <1>9, <2>3
    <3> QED  BY <2>2, <2>3, <3>1 DEF Elements
  <2>4. CASE n < 0
    <3>1. SubSeq(kept, 1, n) = <<>>  BY <1>8, <1>9, <2>4
    <3>2. <<>> \in Seq(X)  OBVIOUS
    <3>3. Elements(<<>>) \subseteq Elements(kept)  BY ElementsEmpty
    <3> QED  BY <3>1, <3>2, <3>3, Zenon
  <2> QED  BY <1>9, <2>3, <2>4
<1> QED  BY <1>2, <1>7, <1>8, <1>10

\* When no pair is there twice and enough are not passed over, as many are
\* drawn as asked for, none twice.
LEMMA DrawnEnough ==
  ASSUME NEW X, NEW size \in Nat, NEW pairs \in [0..(size - 1) -> X], NEW skipped,
         NEW count \in Nat, NEW draw \in Nat \X Nat,
         Injective(pairs), IsFiniteSet(skipped), count <= size - Cardinality(skipped)
  PROVE  /\ Len(Drawn(pairs, skipped, count, draw)) = count
         /\ Injective(Drawn(pairs, skipped, count, draw))
<1> DEFINE order == Permutation(size, draw)
           drawn == [i \in DOMAIN order |-> pairs[order[i]]]
           kept == Filtered(drawn, Elements(drawn) \ skipped)
<1>1. DOMAIN pairs = 0..(size - 1) /\ Cardinality(0..(size - 1)) = size
  BY FS_Interval
<1>2. Drawn(pairs, skipped, count, draw) = SubSeq(kept, 1, AtMost(count, Len(kept)))
  BY <1>1 DEF Drawn
<1>3. order \in [1..size -> 0..(size - 1)] /\ Injective(order)  BY PermutationExact
<1> HIDE DEF order
<1>4. drawn = [i \in 1..size |-> pairs[order[i]]]  BY <1>3
<1>5. \A i \in 1..size : order[i] \in 0..(size - 1) /\ pairs[order[i]] \in X  BY <1>3
<1> HIDE DEF drawn
<1>6. drawn \in Seq(X) /\ Len(drawn) = size  BY <1>4, <1>5
<1>7. Injective(drawn)  BY <1>1, <1>3, <1>4, <1>5 DEF Injective
<1>8. /\ kept \in Seq(X) /\ Elements(kept) = Elements(drawn) \ skipped
      /\ Injective(kept)
  <2>1. /\ kept \in Seq(X \cap (Elements(drawn) \ skipped))
        /\ Elements(kept) = Elements(drawn) \cap (Elements(drawn) \ skipped)
    BY <1>6, FilteredList
  <2>2. Injective(kept)  BY <1>6, <1>7, FilteredInjective
  <2> HIDE DEF kept
  <2> QED  BY <2>1, <2>2
<1> HIDE DEF kept
<1>9. Cardinality(Elements(drawn)) = size /\ Cardinality(Elements(kept)) = Len(kept)
  BY <1>6, <1>7, <1>8, InjectiveCount
<1>10. count <= Len(kept)
  <2> DEFINE S == Elements(drawn)
  <2>1. IsFiniteSet(S)  BY <1>6, ElementsFinite
  <2>2. Elements(kept) = S \ skipped /\ Cardinality(S) = size  BY <1>8, <1>9
  <2> HIDE DEF S
  <2>3. Cardinality(S \ skipped) = Cardinality(S) - Cardinality(S \cap skipped)
    BY <2>1, FS_Difference
  <2>4. Cardinality(S \cap skipped) <= Cardinality(skipped)
    <3>1. S \cap skipped \in SUBSET skipped  OBVIOUS
    <3> QED  BY <3>1, FS_Subset
  <2>5. Cardinality(S \cap skipped) \in Nat /\ Cardinality(skipped) \in Nat
    <3>1. IsFiniteSet(S \cap skipped)  BY <2>1, FS_Intersection
    <3> QED  BY <3>1, FS_CardinalityType
  <2> QED  BY <1>9, <2>2, <2>3, <2>4, <2>5
<1>11. Len(kept) \in Nat /\ DOMAIN kept = 1..Len(kept)  BY <1>8
<1>12. AtMost(count, Len(kept)) = count
  <2> DEFINE l == Len(kept)
  <2>1. l \in Nat /\ count <= l  BY <1>10, <1>11
  <2> HIDE DEF l
  <2>2. AtMost(count, l) = count  BY <2>1 DEF AtMost
  <2> QED  BY <2>2 DEF l
<1>13. SubSeq(kept, 1, count) = [i \in 1..count |-> kept[i]]  BY <1>8, <1>10
<1>14. Len(SubSeq(kept, 1, count)) = count  BY <1>13
<1>15. Injective(SubSeq(kept, 1, count))
  <2> DEFINE t == SubSeq(kept, 1, count)
  <2>1. DOMAIN t = 1..count /\ \A i \in 1..count : t[i] = kept[i]  BY <1>13
  <2> HIDE DEF t
  <2>2. \A i \in 1..count : i \in DOMAIN kept  BY <1>10, <1>11
  <2>3. Injective(t)  BY <1>8, <2>1, <2>2 DEF Injective
  <2> QED  BY <2>3 DEF t
<1> QED  BY <1>2, <1>12, <1>14, <1>15

\* The ordinals below the number of pairs are the pairs of distinct nodes.
LEMMA DirectedPairs ==
  ASSUME NEW n \in Nat, NEW first \in Nat, NEW o \in 0..(Pairs(n) - 1)
  PROVE  /\ DirectedPair(o, first, n) \in Nat \X Nat
         /\ DirectedPair(o, first, n)[1] \in first..(first + n - 1)
         /\ DirectedPair(o, first, n)[2] \in first..(first + n - 1)
         /\ DirectedPair(o, first, n)[1] # DirectedPair(o, first, n)[2]
         /\ o = (n - 1) * (DirectedPair(o, first, n)[1] - first)
                  + (IF DirectedPair(o, first, n)[2] > DirectedPair(o, first, n)[1]
                       THEN DirectedPair(o, first, n)[2] - first - 1
                       ELSE DirectedPair(o, first, n)[2] - first)
<1> DEFINE row == o \div (n - 1)
           offset == o % (n - 1)
           p == DirectedPair(o, first, n)
<1>1. o \in Nat /\ o < n * (n - 1)  BY DEF Pairs
<1>2. n >= 2
  <2>1. n # 0 /\ n # 1  BY <1>1
  <2> QED  BY <2>1
<1>3. n - 1 \in Nat \ {0}  BY <1>2
<1>4. /\ row \in Nat /\ offset \in Nat /\ offset < n - 1
      /\ o = (n - 1) * row + offset
  BY <1>1, <1>3, Quotient
<1>5. p = <<first + row, first + IF offset >= row THEN offset + 1 ELSE offset>>
  BY DEF DirectedPair
<1> HIDE DEF row, offset, p
<1>6. row < n
  <2> SUFFICES ASSUME row >= n  PROVE FALSE
    BY <1>4
  <2>1. (n - 1) * row >= (n - 1) * n  BY <1>3, <1>4
  <2>2. (n - 1) * n = n * (n - 1)  OBVIOUS
  <2>3. (n - 1) * row \in Nat /\ n * (n - 1) \in Nat  BY <1>3, <1>4
  <2> QED  BY <1>1, <1>4, <2>1, <2>2, <2>3
<1>7. CASE offset >= row
  <2>1. p[1] = first + row /\ p[2] = first + (offset + 1)  BY <1>5, <1>7
  <2>2. p[2] > p[1] /\ p[2] - first - 1 = offset /\ p[1] - first = row
    BY <1>4, <1>7, <2>1
  <2>3. o = (n - 1) * (p[1] - first) + (IF p[2] > p[1] THEN p[2] - first - 1 ELSE p[2] - first)
    BY <1>4, <2>2
  <2>4. p \in Nat \X Nat  BY <1>4, <1>5, <1>7
  <2> QED  BY <1>2, <1>4, <1>6, <2>1, <2>2, <2>3, <2>4 DEF p
<1>8. CASE offset < row
  <2>1. p[1] = first + row /\ p[2] = first + offset  BY <1>4, <1>5, <1>8
  <2>2. p[2] < p[1] /\ p[2] - first = offset /\ p[1] - first = row
    BY <1>4, <1>8, <2>1
  <2>3. o = (n - 1) * (p[1] - first) + (IF p[2] > p[1] THEN p[2] - first - 1 ELSE p[2] - first)
    <3>1. ~ (p[2] > p[1])  BY <1>4, <1>8, <2>1
    <3> QED  BY <1>4, <2>2, <3>1
  <2>4. p \in Nat \X Nat  BY <1>4, <1>5, <1>8
  <2> QED  BY <1>2, <1>4, <1>6, <2>1, <2>2, <2>3, <2>4 DEF p
<1> QED  BY <1>4, <1>7, <1>8

\* No two of them are the same pair.
LEMMA PairsInjective ==
  ASSUME NEW n \in Nat, NEW pairs, pairs = [o \in 0..(Pairs(n) - 1) |-> DirectedPair(o, 0, n)]
  PROVE  Injective(pairs)
<1> SUFFICES ASSUME NEW o \in 0..(Pairs(n) - 1), NEW q \in 0..(Pairs(n) - 1),
                    DirectedPair(o, 0, n) = DirectedPair(q, 0, n)
             PROVE  o = q
  BY DEF Injective
<1> DEFINE ordinal(p) == (n - 1) * (p[1] - 0) + (IF p[2] > p[1] THEN p[2] - 0 - 1 ELSE p[2] - 0)
<1>1. o = ordinal(DirectedPair(o, 0, n))  BY DirectedPairs
<1>2. q = ordinal(DirectedPair(q, 0, n))  BY DirectedPairs
<1> HIDE DEF ordinal
<1> QED  BY <1>1, <1>2

-----------------------------------------------------------------------------
(* Plans apply.                                                            *)

(* A scenario says how many edges it is about.                             *)
Countable(s) ==
  \/ s.of = "single_node"
  \/ s.of \in {"local_range", "scattered", "hub"} /\ s.edgeCount \in Nat
  \/ s.of = "percentage" /\ s.basisPoints \in Nat

(* A graph without repeated edges.                                         *)
Simple(graph) ==
  graph.nodeCount \in Nat /\ graph.edges \in Edges /\ Injective(graph.edges)

\* The candidates of a scenario are places of edges, as a list without
\* repetitions.
LEMMA CandidatePlaces ==
  ASSUME NEW graph, Simple(graph), NEW s
  PROVE  /\ Candidates(graph, s) \in Seq(DOMAIN graph.edges)
         /\ Injective(Candidates(graph, s))
<1> DEFINE a == Scope(graph, s)[1]
           b == Scope(graph, s)[2]
           D == {i \in DOMAIN graph.edges : Touches(graph.edges[i], a, b)}
           c == Ascending(D)
<1>1. Candidates(graph, s) = c
  BY DEF Candidates, IncidentIndices, Ordered, Ascending
<1>2. DOMAIN graph.edges = 1..Len(graph.edges) /\ Len(graph.edges) \in Nat
  BY DEF Simple, Edges
<1>3. D \in SUBSET (DOMAIN graph.edges)  OBVIOUS
<1> HIDE DEF D
<1>4. D \in SUBSET Nat /\ IsFiniteSet(D)
  <2>1. IsFiniteSet(1..Len(graph.edges))  BY <1>2, FS_Interval
  <2> QED  BY <1>2, <1>3, <2>1, FS_Subset
<1>5. /\ Injective(c) /\ DOMAIN c = 1..Cardinality(D) /\ Cardinality(D) \in Nat
      /\ \A i \in DOMAIN c : c[i] \in D
  BY <1>4, AscendingInjective
<1>6. c = [i \in DOMAIN c |-> c[i]]  BY DEF Ascending, Ranked
<1> HIDE DEF c
<1>7. c \in Seq(DOMAIN graph.edges)
  <2> DEFINE n == Cardinality(D)
  <2>1. c = [i \in 1..n |-> c[i]] /\ n \in Nat /\ \A i \in 1..n : c[i] \in DOMAIN graph.edges
    BY <1>3, <1>5, <1>6
  <2> HIDE DEF n
  <2> QED  BY <2>1
<1> QED  BY <1>1, <1>5, <1>7

\* A scenario asks for a number of edges.
LEMMA RequestedNumber ==
  ASSUME NEW graph, Simple(graph), NEW s, Countable(s)
  PROVE  Requested(graph, s) \in Nat
<1>1. Len(graph.edges) \in Nat  BY DEF Simple, Edges
<1>2. CASE s.of = "single_node"
  <2>1. Len(Candidates(graph, s)) \in Nat  BY CandidatePlaces
  <2> QED  BY <1>2, <2>1 DEF Requested
<1>3. CASE s.of \in {"local_range", "scattered", "hub"} /\ s.edgeCount \in Nat
  BY <1>3 DEF Requested
<1>4. CASE s.of = "percentage" /\ s.basisPoints \in Nat
  <2>1. Requested(graph, s)
          = (Len(graph.edges) * s.basisPoints + BASIS_POINTS - 1) \div BASIS_POINTS
    BY <1>4 DEF Requested
  <2> DEFINE l == Len(graph.edges)
             b == s.basisPoints
  <2>2. l \in Nat /\ b \in Nat  BY <1>1, <1>4
  <2> HIDE DEF l, b
  <2>3. l * b \in Nat  BY <2>2
  <2>4. (l * b + BASIS_POINTS - 1) \div BASIS_POINTS \in Nat  BY <2>3 DEF BASIS_POINTS
  <2> QED  BY <2>1, <2>4 DEF l, b
<1> QED  BY <1>2, <1>3, <1>4 DEF Countable

\* What is selected are as many places as asked for, each once.
LEMMA SelectedPlaces ==
  ASSUME NEW graph, Simple(graph), NEW s, Countable(s), NEW draw \in Nat \X Nat,
         Requested(graph, s) <= Len(Candidates(graph, s))
  PROVE  /\ Selected(graph, s, draw) \in Seq(DOMAIN graph.edges)
         /\ Len(Selected(graph, s, draw)) = Requested(graph, s)
         /\ Injective(Selected(graph, s, draw))
<1> DEFINE c == Candidates(graph, s)
           n == Requested(graph, s)
           order == Permutation(Len(c), draw)
           p == [i \in 1..n |-> c[order[i] + 1]]
           D == DOMAIN graph.edges
           T == {c[order[i] + 1] : i \in 1..n}
           t == Ascending(T)
<1>1. c \in Seq(D) /\ Injective(c) /\ n \in Nat /\ n <= Len(c)
  BY CandidatePlaces, RequestedNumber
<1>2. Selected(graph, s, draw) = t  BY DEF Selected, Ordered, Ascending
<1>3. D = 1..Len(graph.edges) /\ Len(graph.edges) \in Nat  BY DEF Simple, Edges
<1> HIDE DEF c, n, D
<1>4. order \in [1..Len(c) -> 0..(Len(c) - 1)] /\ Injective(order)
  <2>1. Len(c) \in Nat  BY <1>1
  <2> QED  BY <2>1, PermutationExact
<1> HIDE DEF order
<1>5. ASSUME NEW i \in 1..n
      PROVE  i \in DOMAIN order /\ order[i] \in Nat /\ order[i] + 1 \in DOMAIN c /\ p[i] \in D
  <2>1. Len(c) \in Nat /\ DOMAIN c = 1..Len(c)  BY <1>1
  <2>2. i \in 1..Len(c)  BY <1>1, <2>1
  <2>3. order[i] \in 0..(Len(c) - 1)  BY <1>4, <2>2
  <2>4. order[i] + 1 \in 1..Len(c)  BY <2>1, <2>3
  <2>5. c[order[i] + 1] \in D  BY <1>1, <2>1, <2>4
  <2> QED  BY <1>4, <2>1, <2>2, <2>3, <2>4, <2>5
<1>6. Injective(p)
  <2> SUFFICES ASSUME NEW i \in 1..n, NEW j \in 1..n, c[order[i] + 1] = c[order[j] + 1]
               PROVE  i = j
    BY DEF Injective
  <2>1. order[i] + 1 = order[j] + 1  BY <1>1, <1>5 DEF Injective
  <2>2. order[i] \in Nat /\ order[j] \in Nat  BY <1>5
  <2>3. order[i] = order[j]  BY <2>1, <2>2
  <2> QED  BY <1>4, <1>5, <2>3 DEF Injective
<1>7. \A x \in T : x \in D  BY <1>5
<1>8. p \in Seq(D) /\ Len(p) = n /\ Elements(p) = T
  <2>1. \A i \in 1..n : c[order[i] + 1] \in D  BY <1>5
  <2>2. p \in Seq(D) /\ Len(p) = n  BY <1>1, <2>1
  <2>3. Elements(p) = T  BY DEF Elements
  <2> QED  BY <2>2, <2>3
<1> HIDE DEF p, T
<1>9. Cardinality(T) = n /\ IsFiniteSet(T)
  BY <1>6, <1>8, InjectiveCount, ElementsFinite
<1>10. T \in SUBSET Nat  BY <1>3, <1>7
<1>11. /\ Injective(t) /\ Len(t) = n /\ DOMAIN t = 1..n
       /\ \A i \in DOMAIN t : t[i] \in T
  BY <1>9, <1>10, AscendingInjective
<1>12. t = [i \in DOMAIN t |-> t[i]]  BY DEF Ascending, Ranked
<1> HIDE DEF t
<1>13. t \in Seq(D)
  <2>1. t = [i \in 1..n |-> t[i]] /\ \A i \in 1..n : t[i] \in D  BY <1>7, <1>11, <1>12
  <2>2. n \in Nat  BY <1>1
  <2> QED  BY <2>1, <2>2
<1> QED  BY <1>2, <1>11, <1>13 DEF n, D

\* A graph has finitely many pairs.
LEMMA OccupiedFinite ==
  ASSUME NEW graph, Simple(graph)
  PROVE  IsFiniteSet(OccupiedPairs(graph))
<1> DEFINE S == Elements(graph.edges)
           T == OccupiedPairs(graph)
           f == [e \in S |-> PairOf(e)]
<1>1. IsFiniteSet(S)
  <2>1. graph.edges \in Seq(Edge)  BY DEF Simple, Edges, Edge
  <2> QED  BY <2>1, ElementsFinite
<1>2. T = {PairOf(e) : e \in S}  BY DEF OccupiedPairs
<1> HIDE DEF S, T
<1>3. f \in Surjection(S, T)  BY <1>2 DEF Surjection
<1>4. IsFiniteSet(T)  BY <1>1, <1>3, FS_Surjection
<1> QED  BY <1>4 DEF T

(* What a plan replaces: as many edges of the graph as asked for, ...      *)
Gone(graph, gone, n) ==
  /\ gone \in Edges /\ Len(gone) = n /\ Injective(gone)
  /\ Elements(gone) \subseteq Elements(graph.edges)

(* ... by as many others, between pairs of nodes that it leaves apart.     *)
New(graph, fresh, n) ==
  /\ fresh \in Edges /\ Len(fresh) = n /\ Injective(fresh)
  /\ \A i, j \in DOMAIN fresh : PairOf(fresh[i]) = PairOf(fresh[j]) => i = j
  /\ \A e \in Elements(fresh) :
       /\ Source(e) \in 0..(graph.nodeCount - 1) /\ Target(e) \in 0..(graph.nodeCount - 1)
       /\ Source(e) # Target(e) /\ PairOf(e) \notin OccupiedPairs(graph)

\* The edges at the places that are selected.
LEMMA RemovedEdges ==
  ASSUME NEW graph, Simple(graph), NEW indices \in Seq(DOMAIN graph.edges), Injective(indices),
         NEW gone, gone = [i \in DOMAIN indices |-> graph.edges[indices[i]]]
  PROVE  Gone(graph, gone, Len(indices))
<1> DEFINE D == DOMAIN graph.edges
           n == Len(indices)
<1>1. \A i \in D : graph.edges[i] \in Edge /\ graph.edges[i] \in Elements(graph.edges)
  BY DEF Simple, Edges, Edge, Elements
<1>2. n \in Nat /\ DOMAIN indices = 1..n  OBVIOUS
<1>3. \A i \in 1..n : indices[i] \in D  BY <1>2, Member
<1>4. gone = [i \in 1..n |-> graph.edges[indices[i]]]  BY <1>2
<1> HIDE DEF n, D
<1>5. \A i \in 1..n : graph.edges[indices[i]] \in Edge  BY <1>1, <1>3
<1>6. gone \in Seq(Edge) /\ Len(gone) = n  BY <1>2, <1>4, <1>5
<1>7. Injective(gone)
  <2> SUFFICES ASSUME NEW i \in 1..n, NEW j \in 1..n,
                      graph.edges[indices[i]] = graph.edges[indices[j]]
               PROVE  i = j
    BY <1>4 DEF Injective
  <2>1. indices[i] = indices[j]  BY <1>3 DEF Simple, Injective, D
  <2> QED  BY <1>2, <2>1 DEF Injective
<1>8. Elements(gone) \subseteq Elements(graph.edges)
  BY <1>1, <1>3, <1>4 DEF Elements
<1> QED  BY <1>6, <1>7, <1>8 DEF Gone, Edges, Edge, n

\* What replacement_edges draws for them.
LEMMA AddedEdges ==
  ASSUME NEW graph, Simple(graph), NEW gone, NEW n \in Nat, Gone(graph, gone, n),
         NEW draw \in Nat \X Nat,
         n <= Pairs(graph.nodeCount) - Cardinality(OccupiedPairs(graph))
  PROVE  New(graph, ReplacementEdges(graph, gone, draw), n)
<1> DEFINE N == graph.nodeCount
           M == Pairs(N)
           all == [o \in 0..(M - 1) |-> DirectedPair(o, 0, N)]
           taken == OccupiedPairs(graph)
           free == Drawn(all, taken, n, draw)
           plain == [i \in DOMAIN free |-> EdgeOf(free[i][1], free[i][2], Kind(gone[i]))]
           fresh == ReplacementEdges(graph, gone, draw)
           X == Nat \X Nat
<1>1. N \in Nat  BY DEF Simple
<1>2. M \in Nat
  <2>1. CASE N = 0  BY <2>1 DEF Pairs
  <2>2. CASE N # 0
    <3>1. N - 1 \in Nat  BY <1>1, <2>2
    <3> QED  BY <1>1, <3>1 DEF Pairs
  <2> QED  BY <2>1, <2>2
<1>3. Len(gone) = n  BY DEF Gone
<1>4. fresh = SortedEdges(plain)  BY <1>3 DEF ReplacementEdges, Occupied
<1>5. all \in [0..(M - 1) -> X] /\ Injective(all)
  <2>1. \A o \in 0..(M - 1) : DirectedPair(o, 0, N) \in X  BY <1>1, DirectedPairs
  <2>2. Injective(all)  BY <1>1, PairsInjective
  <2> QED  BY <2>1, <2>2
<1>6. \A o \in 0..(M - 1) :
        all[o][1] \in 0..(N - 1) /\ all[o][2] \in 0..(N - 1) /\ all[o][1] # all[o][2]
  <2> TAKE o \in 0..(M - 1)
  <2>1. /\ DirectedPair(o, 0, N)[1] \in 0..(0 + N - 1)
        /\ DirectedPair(o, 0, N)[2] \in 0..(0 + N - 1)
        /\ DirectedPair(o, 0, N)[1] # DirectedPair(o, 0, N)[2]
    BY <1>1, DirectedPairs
  <2>2. 0 + N - 1 = N - 1  BY <1>1
  <2> QED  BY <2>1, <2>2
<1>7. IsFiniteSet(taken) /\ n <= M - Cardinality(taken)  BY OccupiedFinite
<1> HIDE DEF all, taken, M
<1>8. /\ free \in Seq(X) /\ Elements(free) \subseteq {all[o] : o \in 0..(M - 1)} \ taken
      /\ Len(free) = n /\ Injective(free)
  <2>1. n \in Int  OBVIOUS
  <2> HIDE DEF X
  <2>2. draw \in Nat \X Nat  OBVIOUS
  <2>3. all \in [0..(M - 1) -> X] /\ Injective(all) /\ IsFiniteSet(taken)  BY <1>5, <1>7
  <2>4. n <= M - Cardinality(taken)  BY <1>7
  <2>5. /\ Drawn(all, taken, n, draw) \in Seq(X)
        /\ Elements(Drawn(all, taken, n, draw)) \subseteq {all[o] : o \in 0..(M - 1)} \ taken
    BY <1>2, <2>1, <2>3, DrawnPairs
  <2>6. /\ Len(Drawn(all, taken, n, draw)) = n
        /\ Injective(Drawn(all, taken, n, draw))
    BY <1>2, <2>3, <2>4, DrawnEnough
  <2> QED  BY <2>5, <2>6 DEF free
<1> HIDE DEF free
<1>9. DOMAIN free = 1..n  BY <1>8
<1>10. ASSUME NEW i \in 1..n
       PROVE  /\ free[i] \in X /\ free[i] \notin taken
              /\ free[i][1] \in 0..(N - 1) /\ free[i][2] \in 0..(N - 1)
              /\ free[i][1] # free[i][2]
              /\ Kind(gone[i]) \in Nat
  <2>1. free[i] \in X  BY <1>8, <1>9, Member
  <2>2. free[i] \in Elements(free)  BY <1>9 DEF Elements
  <2>3. free[i] \notin taken /\ \E o \in 0..(M - 1) : free[i] = all[o]  BY <1>8, <2>2
  <2>4. Kind(gone[i]) \in Nat
    <3>1. gone \in Seq(Edge) /\ DOMAIN gone = 1..n  BY <1>3 DEF Gone, Edges, Edge
    <3>2. gone[i] \in Edge  BY <3>1, Member
    <3> QED  BY <3>2 DEF Edge, Kind
  <2> QED  BY <1>6, <2>1, <2>3, <2>4
<1>11. plain = [i \in 1..n |-> EdgeOf(free[i][1], free[i][2], Kind(gone[i]))]  BY <1>9
<1> HIDE DEF plain
<1>12. ASSUME NEW i \in 1..n
       PROVE  /\ plain[i] \in Edge /\ PairOf(plain[i]) = free[i]
              /\ Source(plain[i]) = free[i][1] /\ Target(plain[i]) = free[i][2]
  <2>1. plain[i] = <<free[i][1], free[i][2], Kind(gone[i])>>  BY <1>11 DEF EdgeOf
  <2>2. free[i] \in Nat \X Nat /\ Kind(gone[i]) \in Nat  BY <1>10
  <2>3. free[i][1] \in Nat /\ free[i][2] \in Nat /\ free[i] = <<free[i][1], free[i][2]>>
    BY <2>2
  <2> QED  BY <2>1, <2>2, <2>3 DEF Edge, PairOf, Source, Target
<1>13. plain \in Seq(Edge) /\ Len(plain) = n /\ DOMAIN plain = 1..n
  <2>1. \A i \in 1..n : EdgeOf(free[i][1], free[i][2], Kind(gone[i])) \in Edge
    BY <1>11, <1>12
  <2> QED  BY <1>11, <2>1
<1>14. ASSUME NEW i \in 1..n, NEW j \in 1..n, PairOf(plain[i]) = PairOf(plain[j])  PROVE i = j
  <2>1. PairOf(plain[i]) = free[i] /\ PairOf(plain[j]) = free[j]  BY <1>12
  <2>2. free[i] = free[j]  BY <1>14, <2>1
  <2>3. Injective(free) /\ i \in DOMAIN free /\ j \in DOMAIN free  BY <1>8, <1>9
  <2> QED  BY <2>2, <2>3 DEF Injective
<1>15. plain \in Edges  BY <1>13 DEF Edges, Edge
<1>16. Injective(plain)  BY <1>13, <1>14 DEF Injective
<1>17. /\ fresh \in Edges /\ Elements(fresh) = Elements(plain) /\ Len(fresh) = n
  BY <1>4, <1>13, <1>15, SortedEdgesExact
<1> HIDE DEF fresh
<1>18. Injective(fresh)
  <2>1. Cardinality(Elements(plain)) = n  BY <1>13, <1>16, InjectiveCount
  <2>2. fresh \in Seq(Edge)  BY <1>17 DEF Edges, Edge
  <2> QED  BY <1>17, <2>1, <2>2, InjectiveCount
<1>19. \A e \in Elements(fresh) : \E i \in 1..n : e = plain[i]
  BY <1>13, <1>17 DEF Elements
<1>20. \A i, j \in DOMAIN fresh : PairOf(fresh[i]) = PairOf(fresh[j]) => i = j
  <2> SUFFICES ASSUME NEW i \in DOMAIN fresh, NEW j \in DOMAIN fresh,
                      PairOf(fresh[i]) = PairOf(fresh[j])
               PROVE  i = j
    OBVIOUS
  <2>1. fresh[i] \in Elements(fresh) /\ fresh[j] \in Elements(fresh)  BY DEF Elements
  <2>2. PICK k \in 1..n : fresh[i] = plain[k]  BY <1>19, <2>1
  <2>3. PICK l \in 1..n : fresh[j] = plain[l]  BY <1>19, <2>1
  <2>4. k = l  BY <1>14, <2>2, <2>3
  <2> QED  BY <1>18, <2>2, <2>3, <2>4 DEF Injective
<1>21. \A e \in Elements(fresh) :
         /\ Source(e) \in 0..(N - 1) /\ Target(e) \in 0..(N - 1)
         /\ Source(e) # Target(e) /\ PairOf(e) \notin taken
  BY <1>10, <1>12, <1>19
<1> QED  BY <1>17, <1>18, <1>20, <1>21 DEF New, fresh, taken

(* A plan that applies: what it removes is there, what it adds is new.     *)
Fitting(graph, plan) ==
  \E n \in Nat : Gone(graph, plan.removed, n) /\ New(graph, plan.added, n)

\* plan_mutation makes a plan that fits, when it makes one.
LEMMA PlanFits ==
  ASSUME NEW graph, Simple(graph), NEW s, Countable(s),
         NEW draws, draws[1] \in Nat \X Nat, draws[2] \in Nat \X Nat,
         PlanError(graph, s) = "none"
  PROVE  Fitting(graph, Planned(graph, s, draws))
<1> DEFINE n == Requested(graph, s)
           c == Len(Candidates(graph, s))
           indices == Selected(graph, s, draws[1])
           gone == [i \in DOMAIN indices |-> graph.edges[indices[i]]]
           free == Pairs(graph.nodeCount) - Cardinality(OccupiedPairs(graph))
<1>1. n \in Nat /\ c \in Nat  BY RequestedNumber, CandidatePlaces
<1>2. n <= c /\ n <= free
  <2>1. ScenarioError(graph, s) = "none"  BY Zenon DEF PlanError
  <2>2. c # 0  BY <2>1 DEF PlanError
  <2>3. ~ (n > c)  BY <2>1, <2>2 DEF PlanError
  <2>4. ~ (n > free)  BY <2>1, <2>2, <2>3 DEF PlanError
  <2>5. free \in Int
    <3>1. Cardinality(OccupiedPairs(graph)) \in Nat  BY OccupiedFinite, FS_CardinalityType
    <3>2. graph.nodeCount \in Nat  BY DEF Simple
    <3>3. Pairs(graph.nodeCount) \in Int  BY <3>2 DEF Pairs
    <3> QED  BY <3>1, <3>3
  <2> HIDE DEF n, c, free
  <2> QED  BY <1>1, <2>3, <2>4, <2>5
<1>3. indices \in Seq(DOMAIN graph.edges) /\ Len(indices) = n /\ Injective(indices)
  BY <1>2, SelectedPlaces
<1> HIDE DEF indices, n
<1>4. Gone(graph, gone, n)  BY <1>3, RemovedEdges
<1> HIDE DEF gone
<1>5. New(graph, ReplacementEdges(graph, gone, draws[2]), n)
  BY <1>1, <1>2, <1>4, AddedEdges
<1>6. Planned(graph, s, draws)
        = [removed |-> gone, added |-> ReplacementEdges(graph, gone, draws[2])]
  BY DEF Planned, indices, gone
<1> QED  BY <1>1, <1>4, <1>5, <1>6 DEF Fitting

\* apply_mutation accepts a plan that fits.
LEMMA FittingApplies ==
  ASSUME NEW graph, Simple(graph), NEW plan, Fitting(graph, plan)
  PROVE  ApplyError(graph, plan) = "none"
<1> DEFINE gone == plan.removed
           fresh == plan.added
           pairs == [i \in DOMAIN fresh |-> PairOf(fresh[i])]
<1>1. PICK n \in Nat : Gone(graph, gone, n) /\ New(graph, fresh, n)  BY DEF Fitting
<1> HIDE DEF gone, fresh
<1>2. /\ gone \in Seq(Edge) /\ Len(gone) = n /\ Injective(gone)
      /\ Elements(gone) \subseteq Elements(graph.edges)
      /\ fresh \in Seq(Edge) /\ Len(fresh) = n
  BY <1>1 DEF Gone, New, Edges, Edge
<1>3. Distinct(gone)  BY <1>2, InjectiveCount DEF Distinct
<1>4. Distinct(pairs)
  <2>1. DOMAIN fresh = 1..n  BY <1>2
  <2>2. \A i \in 1..n : PairOf(fresh[i]) \in Nat \X Nat
    <3> TAKE i \in 1..n
    <3>1. fresh[i] \in Edge  BY <1>2, <2>1, Member
    <3> QED  BY <3>1 DEF Edge, PairOf, Source, Target
  <2>3. pairs = [i \in 1..n |-> PairOf(fresh[i])]  BY <2>1
  <2>4. pairs \in Seq(Nat \X Nat)  BY <2>2, <2>3
  <2>5. Injective(pairs)  BY <1>1 DEF New, Injective
  <2> HIDE DEF pairs
  <2> QED  BY <2>4, <2>5, InjectiveCount DEF Distinct
<1>5. \A e \in Elements(fresh) :
        ~ (\/ Source(e) = Target(e)
           \/ Source(e) >= graph.nodeCount \/ Target(e) >= graph.nodeCount
           \/ PairOf(e) \in OccupiedPairs(graph))
  <2> TAKE e \in Elements(fresh)
  <2>1. /\ Source(e) \in 0..(graph.nodeCount - 1) /\ Target(e) \in 0..(graph.nodeCount - 1)
        /\ Source(e) # Target(e) /\ PairOf(e) \notin OccupiedPairs(graph)
    BY <1>1 DEF New
  <2>2. graph.nodeCount \in Nat  BY DEF Simple
  <2> QED  BY <2>1, <2>2
<1> QED  BY <1>2, <1>3, <1>4, <1>5 DEF ApplyError, gone, fresh

\* What it makes is the graph without what is removed and with what is added.
LEMMA AppliedEdges ==
  ASSUME NEW graph, Simple(graph), NEW plan, Fitting(graph, plan)
  PROVE  LET left_over == Elements(graph.edges) \ Elements(plan.removed)
         IN  Applied(graph, plan).edges
               = Ordered(left_over \cup Elements(plan.added), EdgeBefore)
<1> DEFINE K == Elements(graph.edges) \ Elements(plan.removed)
           fresh == plan.added
           kept == Filtered(graph.edges, K)
           all == kept \o fresh
<1>1. PICK n \in Nat : New(graph, fresh, n)  BY DEF Fitting
<1>2. Applied(graph, plan).edges = SortedEdges(all)  BY DEF Applied
<1>3. graph.edges \in Seq(Edge) /\ Injective(graph.edges)  BY DEF Simple, Edges, Edge
<1>4. K \subseteq Elements(graph.edges)  OBVIOUS
<1> HIDE DEF K, fresh
<1>5. /\ kept \in Seq(Edge) /\ Elements(kept) = K /\ Injective(kept)
  <2>1. /\ kept \in Seq(Edge \cap K) /\ Elements(kept) = Elements(graph.edges) \cap K
        /\ Injective(kept)
    BY <1>3, FilteredList, FilteredInjective
  <2> HIDE DEF kept
  <2> QED  BY <1>4, <2>1
<1>6. fresh \in Seq(Edge) /\ Injective(fresh)  BY <1>1 DEF New, Edges, Edge
<1>7. K \cap Elements(fresh) = {}
  <2>1. \A e \in Elements(fresh) : PairOf(e) \notin OccupiedPairs(graph)  BY <1>1 DEF New
  <2> QED  BY <1>4, <2>1 DEF OccupiedPairs
<1> HIDE DEF kept
<1>8. all \in Seq(Edge) /\ Elements(all) = K \cup Elements(fresh) /\ Injective(all)
  <2>1. all \in Seq(Edge)  BY <1>5, <1>6
  <2> DEFINE k == Len(kept)
             m == Len(fresh)
  <2>2. /\ k \in Nat /\ m \in Nat /\ DOMAIN kept = 1..k /\ DOMAIN fresh = 1..m
        /\ DOMAIN all = 1..(k + m)
        /\ \A i \in 1..k : all[i] = kept[i]
        /\ \A i \in 1..m : all[k + i] = fresh[i]
    BY <1>5, <1>6
  <2> HIDE DEF k, m, all
  <2>3. \A i \in 1..k : kept[i] \in K  BY <1>5, <2>2 DEF Elements
  <2>4. \A i \in 1..m : fresh[i] \in Elements(fresh)  BY <2>2 DEF Elements
  <2>5. \A i \in 1..(k + m) : i \in 1..k \/ (i - k \in 1..m /\ k + (i - k) = i)  BY <2>2
  <2>6. Elements(all) = K \cup Elements(fresh)
    <3>1. Elements(all) \subseteq K \cup Elements(fresh)
      <4>1. ASSUME NEW i \in 1..(k + m)  PROVE all[i] \in K \cup Elements(fresh)
        <5>1. CASE i \in 1..k  BY <2>2, <2>3, <5>1
        <5>2. CASE i - k \in 1..m /\ k + (i - k) = i  BY <2>2, <2>4, <5>2
        <5> QED  BY <2>5, <5>1, <5>2
      <4>2. \A x \in Elements(all) : \E i \in 1..(k + m) : x = all[i]  BY <2>2 DEF Elements
      <4> QED  BY <4>1, <4>2
    <3>2. \A i \in 1..k : i \in DOMAIN all  BY <2>2
    <3>3. \A i \in 1..m : k + i \in DOMAIN all  BY <2>2
    <3>4. K \subseteq Elements(all)
      <4>1. \A x \in K : \E i \in 1..k : x = kept[i]  BY <1>5, <2>2 DEF Elements
      <4> QED  BY <2>2, <3>2, <4>1 DEF Elements
    <3>5. Elements(fresh) \subseteq Elements(all)
      <4>1. \A x \in Elements(fresh) : \E i \in 1..m : x = fresh[i]  BY <2>2 DEF Elements
      <4> QED  BY <2>2, <3>3, <4>1 DEF Elements
    <3> QED  BY <3>1, <3>4, <3>5
  <2>7. ASSUME NEW i \in 1..(k + m), NEW j \in 1..(k + m), all[i] = all[j]  PROVE i = j
    <3>1. CASE i \in 1..k /\ j \in 1..k  BY <1>5, <2>2, <2>7, <3>1 DEF Injective
    <3>2. CASE i \in 1..k /\ j - k \in 1..m /\ k + (j - k) = j
      BY <1>7, <2>2, <2>3, <2>4, <2>7, <3>2
    <3>3. CASE j \in 1..k /\ i - k \in 1..m /\ k + (i - k) = i
      BY <1>7, <2>2, <2>3, <2>4, <2>7, <3>3
    <3>4. CASE i - k \in 1..m /\ k + (i - k) = i /\ j - k \in 1..m /\ k + (j - k) = j
      <4>1. fresh[i - k] = fresh[j - k]  BY <2>2, <2>7, <3>4
      <4>2. i - k = j - k  BY <1>6, <2>2, <3>4, <4>1 DEF Injective
      <4> QED  BY <3>4, <4>2
    <3> QED  BY <2>5, <3>1, <3>2, <3>3, <3>4
  <2> QED  BY <2>1, <2>2, <2>6, <2>7 DEF Injective
<1>9. all \in Edges  BY <1>8 DEF Edges, Edge
<1> HIDE DEF all
<1>10. SortedEdges(all) = Ordered(Elements(all), EdgeBefore)  BY <1>8, <1>9, SortedEdgesExact
<1> QED  BY <1>2, <1>8, <1>10 DEF K, fresh

-----------------------------------------------------------------------------
(* Generated graphs are lists of edges.                                    *)

(* The running sums of a list.                                             *)
Running(s, sum) ==
  sum = [i \in 0..Len(s) |-> IF i = 0 THEN 0 ELSE sum[i - 1] + s[i]]

\* A list of numbers has running sums.
LEMMA SumsExact ==
  ASSUME NEW s \in Seq(Int)
  PROVE  /\ Sums(s)[0] = 0 /\ \A k \in 0..Len(s) : Sums(s)[k] \in Int
         /\ \A k \in 1..Len(s) : Sums(s)[k] = Sums(s)[k - 1] + s[k]
<1> DEFINE n == Len(s)
           step == [i \in 1..n |-> [x \in Int |-> x + s[i]]]
           w == CHOOSE sum : Running(s, sum)
<1>1. n \in Nat /\ \A i \in 1..n : s[i] \in Int
  <2>1. n \in Nat /\ DOMAIN s = 1..n  OBVIOUS
  <2> QED  BY <2>1, Member
<1>2. Sums(s) = w  BY DEF Sums, Running
<1>3. \A i \in 1..n : step[i] \in [Int -> Int] /\ \A x \in Int : step[i][x] = x + s[i]
  BY <1>1
<1>4. 0 \in Int  OBVIOUS
<1>5. \A sum : Running(s, sum) <=> sum = [i \in 0..n |-> IF i = 0 THEN 0 ELSE sum[i - 1] + s[i]]
  BY DEF Running
<1> HIDE DEF n, step, w
<1>6. PICK f \in Turns(Int, 0, step, n) : TRUE  BY <1>1, <1>3, <1>4, Folded
<1>7. f \in [0..n -> Int] /\ f[0] = 0 /\ \A i \in 1..n : f[i] = step[i][f[i - 1]]
  BY <1>6 DEF Turns
<1>8. ASSUME NEW i \in 0..n  PROVE f[i] = IF i = 0 THEN 0 ELSE f[i - 1] + s[i]
  <2>1. CASE i = 0  BY <1>7, <2>1
  <2>2. CASE i # 0
    <3>1. i \in 1..n /\ i - 1 \in 0..n  BY <1>1, <2>2
    <3>2. f[i] = step[i][f[i - 1]] /\ f[i - 1] \in Int  BY <1>7, <3>1
    <3> QED  BY <1>3, <2>2, <3>1, <3>2
  <2> QED  BY <2>1, <2>2
<1>9. Running(s, f)
  <2>1. f = [i \in 0..n |-> f[i]]  BY <1>7
  <2> QED  BY <1>5, <1>8, <2>1
<1>10. Running(s, w)  BY <1>9 DEF w
<1>11. w[0] = 0 /\ \A k \in 1..n : w[k] = w[k - 1] + s[k]
  <2>1. w = [i \in 0..n |-> IF i = 0 THEN 0 ELSE w[i - 1] + s[i]]  BY <1>5, <1>10
  <2>2. 0 \in 0..n  BY <1>1
  <2>3. w[0] = 0  BY <2>1, <2>2
  <2>4. ASSUME NEW k \in 1..n  PROVE w[k] = w[k - 1] + s[k]
    <3>1. k \in 0..n /\ k # 0  BY <1>1
    <3> QED  BY <2>1, <3>1
  <2> QED  BY <2>3, <2>4
<1> DEFINE G == {k \in 0..n : w[k] \in Int}
<1>12. 0..n \subseteq G
  <2>1. 0 \in G  BY <1>1, <1>11
  <2>2. ASSUME NEW k \in 0..(n - 1), k \in G  PROVE k + 1 \in G
    <3>1. k + 1 \in 1..n /\ k + 1 \in 0..n /\ (k + 1) - 1 = k  BY <1>1
    <3>2. w[k + 1] = w[k] + s[k + 1]  BY <1>11, <3>1
    <3>3. s[k + 1] \in Int /\ w[k] \in Int  BY <1>1, <2>2, <3>1
    <3> QED  BY <3>1, <3>2, <3>3
  <2> HIDE DEF G
  <2> QED  BY <1>1, <2>1, <2>2, UpTo
<1> QED  BY <1>2, <1>11, <1>12 DEF n

\* The sum of a list is a number.
LEMMA TotalNumber ==
  ASSUME NEW s \in Seq(Int)
  PROVE  Total(s) \in Int
<1>1. Len(s) \in 0..Len(s)
  <2>1. Len(s) \in Nat  OBVIOUS
  <2> QED  BY <2>1
<1> QED  BY <1>1, SumsExact DEF Total

\* Running sums of natural numbers are natural numbers.
LEMMA SumsOfNumbers ==
  ASSUME NEW n \in Nat, NEW s, s \in [1..n -> Nat]
  PROVE  /\ Sums(s)[0] = 0 /\ \A k \in 0..n : Sums(s)[k] \in Nat
         /\ \A k \in 0..(n - 1) : Sums(s)[k + 1] = Sums(s)[k] + s[k + 1]
<1> DEFINE w == Sums(s)
<1>1. s \in Seq(Int) /\ Len(s) = n  OBVIOUS
<1>2. w[0] = 0 /\ \A k \in 1..n : w[k] = w[k - 1] + s[k]  BY <1>1, SumsExact
<1> HIDE DEF w
<1>3. ASSUME NEW k \in 0..(n - 1)  PROVE w[k + 1] = w[k] + s[k + 1]
  <2>1. k + 1 \in 1..n /\ (k + 1) - 1 = k  OBVIOUS
  <2> QED  BY <1>2, <2>1
<1> DEFINE G == {k \in 0..n : w[k] \in Nat}
<1>4. 0 \in G  BY <1>2
<1>5. ASSUME NEW k \in 0..(n - 1), k \in G  PROVE k + 1 \in G
  <2>1. k + 1 \in 1..n /\ k + 1 \in 0..n  OBVIOUS
  <2>2. s[k + 1] \in Nat /\ w[k] \in Nat  BY <1>5, <2>1
  <2> QED  BY <1>3, <2>1, <2>2
<1>6. 0..n \subseteq G
  <2> HIDE DEF G
  <2> QED  BY <1>4, <1>5, UpTo
<1> QED  BY <1>2, <1>3, <1>6 DEF w

(* Ranges that lie behind each other, from zero on.                        *)
Adjoining(ranges, n, sum) ==
  /\ n \in Nat \ {0} /\ DOMAIN ranges = 0..(n - 1)
  /\ sum[0] = 0 /\ \A g \in 0..n : sum[g] \in Nat
  /\ \A g \in 0..(n - 1) : ranges[g].edgeStart = sum[g] /\ ranges[g].edgeEnd = sum[g + 1]

\* An ordinal below the end of the last lies in one of them.
LEMMA RangeFound ==
  ASSUME NEW ranges, NEW n, NEW sum, Adjoining(ranges, n, sum),
         NEW ordinal \in Nat, ordinal < ranges[n - 1].edgeEnd
  PROVE  LET g == RangeOf(ordinal, ranges)
         IN  g \in 0..(n - 1) /\ sum[g] <= ordinal /\ ordinal < sum[g + 1]
<1> DEFINE T == {g \in 0..(n - 1) : ordinal < sum[g + 1]}
           found(g) == /\ ranges[g].edgeEnd > ordinal
                       /\ \A h \in DOMAIN ranges : h < g => ranges[h].edgeEnd <= ordinal
           g == CHOOSE x \in DOMAIN ranges : found(x)
<1>1. /\ n \in Nat \ {0} /\ DOMAIN ranges = 0..(n - 1)
      /\ sum[0] = 0 /\ \A k \in 0..n : sum[k] \in Nat
      /\ \A k \in 0..(n - 1) : ranges[k].edgeStart = sum[k] /\ ranges[k].edgeEnd = sum[k + 1]
  BY DEF Adjoining
<1>2. n - 1 \in 0..(n - 1) /\ n - 1 \in T /\ T \in SUBSET Nat
  <2>1. n - 1 \in 0..(n - 1)  BY <1>1
  <2>2. ranges[n - 1].edgeEnd = sum[(n - 1) + 1]  BY <1>1, <2>1
  <2> QED  BY <2>1, <2>2
<1>3. PICK m \in T : \A k \in T : m <= k  BY <1>2, LeastNumber
<1>4. m \in 0..(n - 1) /\ ordinal < sum[m + 1]  BY <1>3
<1>5. found(m)
  <2>1. ranges[m].edgeEnd > ordinal
    <3>1. sum[m + 1] \in Nat
      <4>1. m + 1 \in 0..n  BY <1>1, <1>4
      <4> QED  BY <1>1, <4>1
    <3> QED  BY <1>1, <1>4, <3>1
  <2>2. ASSUME NEW h \in 0..(n - 1), h < m  PROVE ranges[h].edgeEnd <= ordinal
    <3>1. h \notin T  BY <1>1, <1>3, <1>4, <2>2
    <3>2. ~ (ordinal < sum[h + 1])  BY <3>1
    <3>3. h + 1 \in 0..n  BY <1>1
    <3> QED  BY <1>1, <3>2, <3>3
  <2> QED  BY <1>1, <2>1, <2>2
<1>6. g \in DOMAIN ranges /\ found(g)
  <2>1. m \in DOMAIN ranges  BY <1>1, <1>4
  <2> HIDE DEF found
  <2> QED  BY <1>5, <2>1
<1>7. RangeOf(ordinal, ranges) = g  BY DEF RangeOf
<1> HIDE DEF g
<1>8. g \in 0..(n - 1) /\ g + 1 \in 0..n /\ g \in 0..n  BY <1>1, <1>6
<1>9. ordinal < sum[g + 1]
  <2>1. sum[g + 1] \in Nat  BY <1>1, <1>8
  <2> QED  BY <1>1, <1>6, <1>8, <2>1
<1>10. sum[g] <= ordinal
  <2>1. CASE g = 0  BY <1>1, <2>1
  <2>2. CASE g # 0
    <3>1. g - 1 \in 0..(n - 1) /\ g - 1 < g /\ (g - 1) + 1 = g  BY <1>1, <1>8, <2>2
    <3>2. ranges[g - 1].edgeEnd <= ordinal  BY <1>1, <1>6, <3>1
    <3>3. ranges[g - 1].edgeEnd = sum[(g - 1) + 1]  BY <1>1, <3>1
    <3> QED  BY <3>1, <3>2, <3>3
  <2> QED  BY <2>1, <2>2
<1> QED  BY <1>7, <1>8, <1>9, <1>10

\* There are a natural number of pairs.
LEMMA PairsNumber ==
  ASSUME NEW n \in Nat
  PROVE  Pairs(n) \in Nat
<1>1. CASE n = 0  BY <1>1 DEF Pairs
<1>2. CASE n # 0
  <2>1. n - 1 \in Nat  BY <1>2
  <2> QED  BY <2>1 DEF Pairs
<1> QED  BY <1>1, <1>2

(* The sizes of the groups of nodes, and the first node of each.           *)
GroupFirst(first, groups, g) == first + ((g + groups - (first % groups)) % groups)

GroupSize(first, nodeCount, groups, g) ==
  IF GroupFirst(first, groups, g) >= first + nodeCount THEN 0
  ELSE ((first + nodeCount - 1 - GroupFirst(first, groups, g)) \div groups) + 1

GroupPairs(first, nodeCount, groups) ==
  [g \in 1..groups |-> Pairs(GroupSize(first, nodeCount, groups, g - 1))]

\* What modulo_group_ranges gives: ranges behind each other, as long as a
\* group has pairs.
LEMMA GroupsLaid ==
  ASSUME NEW first \in Nat, NEW nodeCount \in Nat, NEW groups \in Nat \ {0}
  PROVE  LET ranges == GroupRanges(first, nodeCount, groups)
             sum == Sums(GroupPairs(first, nodeCount, groups))
         IN  /\ Adjoining(ranges, groups, sum)
             /\ \A g \in 0..(groups - 1) :
                  /\ ranges[g].first \in Nat /\ ranges[g].size \in Nat
                  /\ sum[g + 1] = sum[g] + Pairs(ranges[g].size)
<1> DEFINE ranges == GroupRanges(first, nodeCount, groups)
           list == GroupPairs(first, nodeCount, groups)
           sum == Sums(list)
           from(g) == GroupFirst(first, groups, g)
           size(g) == GroupSize(first, nodeCount, groups, g)
<1>1. ASSUME NEW g \in 0..(groups - 1)  PROVE from(g) \in Nat /\ size(g) \in Nat
  <2>1. first % groups \in 0..(groups - 1)  OBVIOUS
  <2>2. g + groups - (first % groups) \in Nat  BY <2>1
  <2>3. (g + groups - (first % groups)) % groups \in Nat  BY <2>2
  <2>4. from(g) \in Nat  BY <2>3 DEF GroupFirst
  <2>5. size(g) \in Nat
    <3>1. CASE from(g) >= first + nodeCount  BY <3>1 DEF GroupSize
    <3>2. CASE ~ (from(g) >= first + nodeCount)
      <4> DEFINE d == first + nodeCount - 1 - from(g)
      <4>1. d \in Nat  BY <2>4, <3>2
      <4>2. size(g) = (d \div groups) + 1  BY <3>2 DEF GroupSize
      <4> HIDE DEF d, size
      <4>3. d \div groups \in Nat  BY <4>1
      <4> QED  BY <4>2, <4>3
    <3> QED  BY <3>1, <3>2
  <2> QED  BY <2>4, <2>5
<1>2. list \in [1..groups -> Nat]
  <2>1. ASSUME NEW g \in 1..groups  PROVE Pairs(size(g - 1)) \in Nat
    <3>1. g - 1 \in 0..(groups - 1)  OBVIOUS
    <3>2. size(g - 1) \in Nat  BY <1>1, <3>1
    <3> HIDE DEF size
    <3> QED  BY <3>2, PairsNumber
  <2> QED  BY <2>1 DEF GroupPairs
<1>3. /\ sum[0] = 0 /\ \A k \in 0..groups : sum[k] \in Nat
      /\ \A k \in 0..(groups - 1) : sum[k + 1] = sum[k] + list[k + 1]
  BY <1>2, SumsOfNumbers
<1>4. ranges = [g \in 0..(groups - 1) |->
                  [first |-> from(g), size |-> size(g), edgeStart |-> sum[g],
                   edgeEnd |-> sum[g + 1]]]
  BY DEF GroupRanges, GroupPairs, GroupFirst, GroupSize
<1>5. \A g \in 0..(groups - 1) : list[g + 1] = Pairs(size(g))
  <2> TAKE g \in 0..(groups - 1)
  <2>1. g + 1 \in 1..groups /\ (g + 1) - 1 = g  OBVIOUS
  <2> HIDE DEF size
  <2>2. list = [h \in 1..groups |-> Pairs(size(h - 1))]  BY DEF GroupPairs, size
  <2> HIDE DEF list
  <2> QED  BY <2>1, <2>2
<1> HIDE DEF ranges, sum, list, from, size
<1>6. Adjoining(ranges, groups, sum)  BY <1>3, <1>4 DEF Adjoining
<1>7. \A g \in 0..(groups - 1) :
        /\ ranges[g].first \in Nat /\ ranges[g].size \in Nat
        /\ sum[g + 1] = sum[g] + Pairs(ranges[g].size)
  BY <1>1, <1>3, <1>4, <1>5
<1> QED  BY <1>6, <1>7 DEF ranges, sum, list

\* The pairs of the groups.
LEMMA GroupPairTyped ==
  ASSUME NEW first \in Nat, NEW nodeCount \in Nat, NEW groups \in Nat \ {0},
         NEW o \in 0..(GroupRanges(first, nodeCount, groups)[groups - 1].edgeEnd - 1)
  PROVE  /\ GroupRanges(first, nodeCount, groups)[groups - 1].edgeEnd \in Nat
         /\ ModuloGroupPair(o, GroupRanges(first, nodeCount, groups), groups) \in Nat \X Nat
<1> DEFINE ranges == GroupRanges(first, nodeCount, groups)
           sum == Sums(GroupPairs(first, nodeCount, groups))
           g == RangeOf(o, ranges)
           r == ranges[g]
           p == DirectedPair(o - r.edgeStart, 0, r.size)
<1>1. Adjoining(ranges, groups, sum)  BY GroupsLaid
<1>2. \A k \in 0..(groups - 1) :
        /\ ranges[k].first \in Nat /\ ranges[k].size \in Nat
        /\ sum[k + 1] = sum[k] + Pairs(ranges[k].size)
  BY GroupsLaid
<1>3. ModuloGroupPair(o, ranges, groups) = <<r.first + p[1] * groups, r.first + p[2] * groups>>
  BY DEF ModuloGroupPair
<1> HIDE DEF ranges, sum
<1>4. ranges[groups - 1].edgeEnd \in Nat
  <2>1. groups - 1 \in 0..(groups - 1) /\ (groups - 1) + 1 = groups /\ groups \in 0..groups
    OBVIOUS
  <2> QED  BY <1>1, <2>1 DEF Adjoining
<1>5. o \in Nat /\ o < ranges[groups - 1].edgeEnd
  <2>1. o \in 0..(ranges[groups - 1].edgeEnd - 1)  BY DEF ranges
  <2> QED  BY <1>4, <2>1
<1>6. g \in 0..(groups - 1) /\ sum[g] <= o /\ o < sum[g + 1]  BY <1>1, <1>5, RangeFound
<1> HIDE DEF g
<1>7. r.first \in Nat /\ r.size \in Nat /\ sum[g + 1] = sum[g] + Pairs(r.size)
  BY <1>2, <1>6
<1>8. r.edgeStart = sum[g] /\ sum[g] \in Nat
  <2>1. g \in 0..groups  BY <1>6
  <2> QED  BY <1>1, <1>6, <2>1 DEF Adjoining
<1> HIDE DEF r
<1>9. o - r.edgeStart \in 0..(Pairs(r.size) - 1)
  <2>1. Pairs(r.size) \in Nat  BY <1>7, PairsNumber
  <2> QED  BY <1>5, <1>6, <1>7, <1>8, <2>1
<1>10. p \in Nat \X Nat
  <2>1. 0 \in Nat  OBVIOUS
  <2> QED  BY <1>7, <1>9, <2>1, DirectedPairs
<1> HIDE DEF p
<1>11. p[1] * groups \in Nat /\ p[2] * groups \in Nat
  <2>1. p[1] \in Nat /\ p[2] \in Nat  BY <1>10
  <2> QED  BY <2>1
<1>12. <<r.first + p[1] * groups, r.first + p[2] * groups>> \in Nat \X Nat  BY <1>7, <1>11
<1> QED  BY <1>3, <1>4, <1>12 DEF ranges

\* The pairs with a hub.
LEMMA HubPairTyped ==
  ASSUME NEW nodeCount \in Nat, NEW hubs \in 1..nodeCount,
         NEW o \in 0..(HubIncidentCapacity(nodeCount, hubs) - 1)
  PROVE  HubIncidentPair(o, nodeCount, hubs) \in Nat \X Nat
<1> DEFINE l == o - hubs * (nodeCount - 1)
<1>1. o \in Nat /\ nodeCount - 1 \in Nat  OBVIOUS
<1>2. hubs * (nodeCount - 1) \in Nat  BY <1>1
<1>3. CASE l < 0
  <2>1. HubIncidentPair(o, nodeCount, hubs) = DirectedPair(o, 0, nodeCount)
    BY <1>3 DEF HubIncidentPair
  <2>2. hubs * (nodeCount - 1) <= nodeCount * (nodeCount - 1)
    <3>1. (nodeCount - hubs) * (nodeCount - 1) >= 0  BY <1>1
    <3>2. (nodeCount - hubs) * (nodeCount - 1)
            = nodeCount * (nodeCount - 1) - hubs * (nodeCount - 1)
      BY <1>1
    <3>3. nodeCount * (nodeCount - 1) \in Nat  BY <1>1
    <3> QED  BY <1>2, <3>1, <3>2, <3>3
  <2>3. nodeCount * (nodeCount - 1) \in Nat  BY <1>1
  <2>4. o \in 0..(Pairs(nodeCount) - 1)  BY <1>1, <1>2, <1>3, <2>2, <2>3 DEF Pairs
  <2>5. 0 \in Nat  OBVIOUS
  <2> QED  BY <2>1, <2>4, <2>5, DirectedPairs
<1>4. CASE ~ (l < 0)
  <2>1. HubIncidentPair(o, nodeCount, hubs) = <<hubs + (l \div hubs), l % hubs>>
    BY <1>4 DEF HubIncidentPair
  <2>2. l \in Nat  BY <1>1, <1>2, <1>4
  <2> HIDE DEF l
  <2>3. l \div hubs \in Nat /\ l % hubs \in Nat /\ hubs \in Nat  BY <2>2
  <2> QED  BY <2>1, <2>3
<1> QED  BY <1>3, <1>4

(* The sizes of the layers, and the pairs from each to the next.           *)
LayerSize(nodeCount, layers, l) == ((nodeCount - 1 - l) \div layers) + 1

SpanSizes(nodeCount, layers) ==
  [l \in 1..(layers - 1) |-> LayerSize(nodeCount, layers, l - 1) * LayerSize(nodeCount, layers, l)]

\* What adjacent_spans gives.
LEMMA SpansLaid ==
  ASSUME NEW layers \in Nat, layers >= 2, NEW nodeCount \in Nat, layers <= nodeCount
  PROVE  LET spans == AdjacentSpans(nodeCount, layers)
             sum == Sums(SpanSizes(nodeCount, layers))
         IN  /\ Adjoining(spans, layers - 1, sum)
             /\ \A l \in 0..(layers - 2) : spans[l].targetSize \in Nat \ {0}
<1> DEFINE spans == AdjacentSpans(nodeCount, layers)
           list == SpanSizes(nodeCount, layers)
           sum == Sums(list)
           size(l) == LayerSize(nodeCount, layers, l)
           n == layers - 1
<1>1. ASSUME NEW l \in 0..n  PROVE size(l) \in Nat \ {0}
  <2>1. nodeCount - 1 - l \in Nat  OBVIOUS
  <2>2. (nodeCount - 1 - l) \div layers \in Nat  BY <2>1
  <2> QED  BY <2>2 DEF LayerSize
<1>2. list \in [1..n -> Nat]
  <2>1. ASSUME NEW l \in 1..n  PROVE size(l - 1) * size(l) \in Nat
    <3>1. l - 1 \in 0..n /\ l \in 0..n  OBVIOUS
    <3>2. size(l - 1) \in Nat /\ size(l) \in Nat  BY <1>1, <3>1
    <3> HIDE DEF size
    <3> QED  BY <3>2
  <2> QED  BY <2>1 DEF SpanSizes
<1>3. n \in Nat \ {0} /\ layers - 2 = n - 1  OBVIOUS
<1>4. spans = [l \in 0..(layers - 2) |->
                 [targetSize |-> size(l + 1), edgeStart |-> sum[l], edgeEnd |-> sum[l + 1]]]
  BY DEF AdjacentSpans, SpanSizes, LayerSize
<1> HIDE DEF spans, list, size, n
<1>5. sum[0] = 0 /\ \A k \in 0..n : sum[k] \in Nat  BY <1>2, <1>3, SumsOfNumbers
<1> HIDE DEF sum
<1>6. Adjoining(spans, n, sum)  BY <1>3, <1>4, <1>5 DEF Adjoining
<1>7. ASSUME NEW l \in 0..(layers - 2)  PROVE spans[l].targetSize \in Nat \ {0}
  <2>1. l + 1 \in 0..n  BY <1>3
  <2> QED  BY <1>1, <1>4, <2>1
<1> QED  BY <1>6, <1>7 DEF spans, sum, list, n

\* The pairs from a layer to the next.
LEMMA AdjacentPairTyped ==
  ASSUME NEW layers \in Nat, layers >= 2, NEW nodeCount \in Nat, layers <= nodeCount,
         NEW o \in 0..(AdjacentSpans(nodeCount, layers)[layers - 2].edgeEnd - 1)
  PROVE  /\ AdjacentSpans(nodeCount, layers)[layers - 2].edgeEnd \in Nat
         /\ AdjacentPair(o, AdjacentSpans(nodeCount, layers), layers) \in Nat \X Nat
<1> DEFINE spans == AdjacentSpans(nodeCount, layers)
           sum == Sums(SpanSizes(nodeCount, layers))
           n == layers - 1
           l == RangeOf(o, spans)
           t == spans[l].targetSize
           d == o - spans[l].edgeStart
<1>1. Adjoining(spans, n, sum) /\ \A k \in 0..(layers - 2) : spans[k].targetSize \in Nat \ {0}
  BY SpansLaid
<1>2. AdjacentPair(o, spans, layers)
        = <<l + (d \div t) * layers, l + 1 + (d % t) * layers>>
  BY DEF AdjacentPair
<1>3. o \in 0..(spans[layers - 2].edgeEnd - 1)  OBVIOUS
<1>4. n \in Nat \ {0} /\ layers - 2 = n - 1  OBVIOUS
<1> HIDE DEF spans, sum, n
<1>5. spans[n - 1].edgeEnd \in Nat
  <2>1. n - 1 \in 0..(n - 1) /\ (n - 1) + 1 = n /\ n \in 0..n  BY <1>4
  <2> QED  BY <1>1, <2>1 DEF Adjoining
<1>6. o \in Nat /\ o < spans[n - 1].edgeEnd  BY <1>3, <1>4, <1>5
<1>7. l \in 0..(n - 1) /\ sum[l] <= o  BY <1>1, <1>6, RangeFound
<1> HIDE DEF l
<1>8. spans[l].edgeStart = sum[l] /\ sum[l] \in Nat /\ t \in Nat \ {0}
  <2>1. l \in 0..n /\ l \in 0..(layers - 2)  BY <1>4, <1>7
  <2> QED  BY <1>1, <1>7, <2>1 DEF Adjoining
<1>9. d \in Nat  BY <1>6, <1>7, <1>8
<1> HIDE DEF d, t
<1>10. d \div t \in Nat /\ d % t \in Nat  BY <1>8, <1>9
<1>11. (d \div t) * layers \in Nat /\ (d % t) * layers \in Nat  BY <1>10
<1>12. <<l + (d \div t) * layers, l + 1 + (d % t) * layers>> \in Nat \X Nat
  <2>1. l \in Nat  BY <1>7
  <2> QED  BY <1>11, <2>1
<1> QED  BY <1>2, <1>4, <1>5, <1>12 DEF spans

\* The pairs of a dense graph that are not between dense nodes.
LEMMA OtherPairTyped ==
  ASSUME NEW dense \in Nat, NEW sparse \in Nat,
         NEW o \in 0..((dense * sparse * 2 + Pairs(sparse)) - 1)
  PROVE  OtherPair(o, dense, sparse) \in Nat \X Nat
<1> DEFINE across == dense * sparse
           back == o - across
<1>1. across \in Nat /\ o \in Nat /\ Pairs(sparse) \in Nat  BY PairsNumber
<1>2. o < across * 2 + Pairs(sparse)  BY <1>1
<1>3. across = 0 => \A x \in Nat : ~ (x < across)  BY <1>1
<1>4. (dense = 0 \/ sparse = 0) => across = 0  OBVIOUS
<1>5. OtherPair(o, dense, sparse)
        = IF o < across THEN <<o \div sparse, dense + (o % sparse)>>
          ELSE IF back < across THEN <<dense + (back \div dense), back % dense>>
          ELSE DirectedPair(back - across, dense, sparse)
  BY DEF OtherPair
<1> HIDE DEF across
<1>6. CASE o < across
  <2>1. sparse # 0  BY <1>1, <1>3, <1>4, <1>6
  <2>2. o \div sparse \in Nat /\ o % sparse \in Nat  BY <1>1, <2>1
  <2> QED  BY <1>5, <1>6, <2>2
<1>7. CASE ~ (o < across) /\ back < across
  <2>1. back \in Nat  BY <1>1, <1>7
  <2>2. dense # 0  BY <1>3, <1>4, <1>7, <2>1
  <2> HIDE DEF back
  <2>3. back \div dense \in Nat /\ back % dense \in Nat  BY <2>1, <2>2
  <2> QED  BY <1>5, <1>7, <2>3
<1>8. CASE ~ (o < across) /\ ~ (back < across)
  <2>1. back - across \in 0..(Pairs(sparse) - 1)  BY <1>1, <1>2, <1>8
  <2>2. DirectedPair(back - across, dense, sparse) \in Nat \X Nat  BY <2>1, DirectedPairs
  <2> QED  BY <1>5, <1>8, <2>2
<1> QED  BY <1>6, <1>7, <1>8

\* The last range ends at a number.
LEMMA AdjoiningEnd ==
  ASSUME NEW ranges, NEW n, NEW sum, Adjoining(ranges, n, sum)
  PROVE  ranges[n - 1].edgeEnd \in Nat
<1>1. n \in Nat \ {0}  BY DEF Adjoining
<1>2. n - 1 \in 0..(n - 1) /\ (n - 1) + 1 = n /\ n \in 0..n  BY <1>1
<1> QED  BY <1>2 DEF Adjoining

(* A class of edges that can be drawn from.                                *)
Sampled(class) ==
  /\ class.kind \in Nat /\ class.weight \in Int /\ class.capacity \in Int
  /\ \E size \in Nat : class.pairs \in [0..(size - 1) -> Nat \X Nat]

(* What a specification may say, by its topology.                          *)
ValidSpec(spec) ==
  /\ spec.nodeCount \in Nat /\ spec.edgeCount \in Nat
  /\ \/ spec.topology = "modular" /\ spec.clusters \in 1..spec.nodeCount /\ spec.crossRatio \in Nat
     \/ /\ spec.topology = "entangled"
        /\ spec.clusters \in 1..spec.nodeCount /\ spec.hubs \in 1..spec.nodeCount
     \/ spec.topology = "hub_heavy" /\ spec.hubs \in 1..spec.nodeCount
     \/ spec.topology = "layered" /\ spec.layers \in 2..spec.nodeCount
     \/ spec.topology = "dense" /\ spec.dense \in 1..spec.nodeCount

\* validate refuses everything else.
LEMMA SpecsValid ==
  ASSUME NEW spec \in GraphSpec, SpecError(spec) = "none"
  PROVE  ValidSpec(spec)
<1> DEFINE n == spec.nodeCount
           partError(value) == IF value = 0 THEN "zero_partition"
                               ELSE IF value > n THEN "partition" ELSE "none"
<1>1. n \in Nat /\ spec.edgeCount \in Nat  BY DEF GraphSpec
<1>2. ASSUME NEW value \in Nat, partError(value) = "none"  PROVE value \in 1..n
  BY <1>1, <1>2
<1>3. CASE spec.topology = "modular"
  <2>1. spec.clusters \in Nat /\ spec.crossRatio \in Nat  BY <1>3 DEF GraphSpec
  <2>2. partError(spec.clusters) = "none"  BY <1>3 DEF SpecError
  <2>3. spec.clusters \in 1..n  BY <1>2, <2>1, <2>2
  <2> QED  BY <1>1, <1>3, <2>1, <2>3 DEF ValidSpec
<1>4. CASE spec.topology = "entangled"
  <2>1. spec.clusters \in Nat /\ spec.hubs \in Nat  BY <1>4 DEF GraphSpec
  <2>2. partError(spec.clusters) = "none" /\ partError(spec.hubs) = "none"
    BY <1>4 DEF SpecError
  <2>3. spec.clusters \in 1..n /\ spec.hubs \in 1..n  BY <1>2, <2>1, <2>2
  <2> QED  BY <1>1, <1>4, <2>3 DEF ValidSpec
<1>5. CASE spec.topology = "hub_heavy"
  <2>1. spec.hubs \in Nat  BY <1>5 DEF GraphSpec
  <2>2. partError(spec.hubs) = "none"  BY <1>5 DEF SpecError
  <2>3. spec.hubs \in 1..n  BY <1>2, <2>1, <2>2
  <2> QED  BY <1>1, <1>5, <2>3 DEF ValidSpec
<1>6. CASE spec.topology = "layered"
  <2>1. spec.layers \in Nat  BY <1>6 DEF GraphSpec
  <2>2. partError(spec.layers) = "none" /\ ~ (spec.layers < 2)  BY <1>6 DEF SpecError
  <2>3. spec.layers \in 2..n  BY <1>1, <1>2, <2>1, <2>2
  <2> QED  BY <1>1, <1>6, <2>3 DEF ValidSpec
<1>7. CASE spec.topology = "dense"
  <2>1. spec.dense \in Nat  BY <1>7 DEF GraphSpec
  <2>2. partError(spec.dense) = "none"  BY <1>7 DEF SpecError
  <2>3. spec.dense \in 1..n  BY <1>2, <2>1, <2>2
  <2> QED  BY <1>1, <1>7, <2>3 DEF ValidSpec
<1>8. spec.topology \in {"modular", "entangled", "hub_heavy", "layered", "dense"}
  BY DEF GraphSpec
<1> QED  BY <1>3, <1>4, <1>5, <1>6, <1>7, <1>8

(* Two or three classes of edges.                                          *)
SampledAll(classes) ==
  \E n \in {2, 3} :
    DOMAIN classes = 1..n /\ Len(classes) = n /\ \A i \in 1..n : Sampled(classes[i])

\* A class is sampled from its pairs, whether some are passed over or not.
LEMMA ClassSampled ==
  ASSUME NEW kind \in Nat, NEW weight \in Int, NEW capacity \in Int, NEW size \in Nat,
         NEW pairs, pairs \in [0..(size - 1) -> Nat \X Nat], NEW skipped,
         NEW class, class = [kind |-> kind, weight |-> weight, capacity |-> capacity,
                             pairs |-> pairs, skipped |-> {}]
  PROVE  Sampled(class) /\ Sampled([class EXCEPT !.skipped = skipped])
<1> DEFINE other == [class EXCEPT !.skipped = skipped]
<1>1. /\ class.kind = kind /\ class.weight = weight /\ class.capacity = capacity
      /\ class.pairs = pairs
  OBVIOUS
<1>2. /\ other.kind = kind /\ other.weight = weight /\ other.capacity = capacity
      /\ other.pairs = pairs
  BY <1>1
<1> HIDE DEF other
<1>3. Sampled(class) /\ Sampled(other)  BY <1>1, <1>2 DEF Sampled
<1> QED  BY <1>3 DEF other

\* The classes of a modular graph.
LEMMA ModularSampled ==
  ASSUME NEW spec, spec.nodeCount \in Nat, spec.clusters \in 1..spec.nodeCount,
         spec.crossRatio \in Nat
  PROVE  SampledAll(ModularClasses(spec))
<1> DEFINE n == spec.nodeCount
           c == spec.clusters
           ranges == GroupRanges(0, n, c)
           within == ranges[c - 1].edgeEnd
           inner == [o \in 0..(within - 1) |-> ModuloGroupPair(o, ranges, c)]
           every == [o \in 0..(Pairs(n) - 1) |-> DirectedPair(o, 0, n)]
           skipped == {p \in {every[o] : o \in DOMAIN every} : p[1] % c = p[2] % c}
           first == [kind |-> 0, weight |-> BASIS_POINTS - spec.crossRatio, capacity |-> within,
                     pairs |-> inner, skipped |-> {}]
           second == [kind |-> 1, weight |-> spec.crossRatio, capacity |-> Pairs(n) - within,
                      pairs |-> every, skipped |-> {}]
           last == [second EXCEPT !.skipped = skipped]
<1>1. ModularClasses(spec) = <<first, last>>
  BY DEF ModularClasses, Class, Skipping
<1>2. n \in Nat /\ c \in Nat \ {0} /\ 0 \in Nat  OBVIOUS
<1>3. within \in Nat  BY <1>2, GroupsLaid, AdjoiningEnd
<1>4. inner \in [0..(within - 1) -> Nat \X Nat]
  <2>1. \A o \in 0..(within - 1) : ModuloGroupPair(o, ranges, c) \in Nat \X Nat
    BY <1>2, GroupPairTyped
  <2> HIDE DEF ranges, within
  <2> QED  BY <2>1
<1>5. every \in [0..(Pairs(n) - 1) -> Nat \X Nat]
  <2>1. \A o \in 0..(Pairs(n) - 1) : DirectedPair(o, 0, n) \in Nat \X Nat
    BY <1>2, DirectedPairs
  <2> QED  BY <2>1
<1>6. Pairs(n) \in Nat  BY <1>2, PairsNumber
<1> HIDE DEF ranges, within, inner, every
<1>7. Sampled(first)
  <2>1. BASIS_POINTS - spec.crossRatio \in Int /\ within \in Int  BY <1>3 DEF BASIS_POINTS
  <2> QED  BY <1>2, <1>3, <1>4, <2>1, ClassSampled
<1>8. Sampled(last)
  <2>1. spec.crossRatio \in Int /\ Pairs(n) - within \in Int /\ 1 \in Nat  BY <1>3, <1>6
  <2> HIDE DEF n, skipped
  <2> QED  BY <1>5, <1>6, <2>1, ClassSampled
<1> HIDE DEF first, last
<1>9. <<first, last>>[1] = first /\ <<first, last>>[2] = last  OBVIOUS
<1>10. \A i \in 1..2 : i = 1 \/ i = 2  OBVIOUS
<1>11. \A i \in 1..2 : Sampled(<<first, last>>[i])  BY <1>7, <1>8, <1>9, <1>10
<1>12. DOMAIN <<first, last>> = 1..2 /\ Len(<<first, last>>) = 2  OBVIOUS
<1> QED  BY <1>1, <1>11, <1>12 DEF SampledAll

\* How many pairs there are with a hub.
LEMMA HubPairsNumber ==
  ASSUME NEW nodeCount \in Nat, NEW hubs \in 1..nodeCount
  PROVE  HubIncidentCapacity(nodeCount, hubs) \in Nat
<1>1. nodeCount - 1 \in Nat /\ nodeCount - hubs \in Nat /\ hubs \in Nat  OBVIOUS
<1>2. hubs * (nodeCount - 1) \in Nat  BY <1>1
<1>3. (nodeCount - hubs) * hubs \in Nat  BY <1>1
<1> QED  BY <1>2, <1>3 DEF HubIncidentCapacity

\* Two classes, and three, are sampled when each of them is.
LEMMA TwoSampled ==
  ASSUME NEW a, NEW b, Sampled(a), Sampled(b)
  PROVE  SampledAll(<<a, b>>)
<1>1. <<a, b>>[1] = a /\ <<a, b>>[2] = b  OBVIOUS
<1>2. \A i \in 1..2 : i = 1 \/ i = 2  OBVIOUS
<1>3. \A i \in 1..2 : Sampled(<<a, b>>[i])  BY <1>1, <1>2
<1>4. DOMAIN <<a, b>> = 1..2 /\ Len(<<a, b>>) = 2  OBVIOUS
<1> QED  BY <1>3, <1>4 DEF SampledAll

LEMMA ThreeSampled ==
  ASSUME NEW a, NEW b, NEW c, Sampled(a), Sampled(b), Sampled(c)
  PROVE  SampledAll(<<a, b, c>>)
<1>1. <<a, b, c>>[1] = a /\ <<a, b, c>>[2] = b /\ <<a, b, c>>[3] = c  OBVIOUS
<1>2. \A i \in 1..3 : i = 1 \/ i = 2 \/ i = 3  OBVIOUS
<1>3. \A i \in 1..3 : Sampled(<<a, b, c>>[i])  BY <1>1, <1>2
<1>4. DOMAIN <<a, b, c>> = 1..3 /\ Len(<<a, b, c>>) = 3  OBVIOUS
<1> QED  BY <1>3, <1>4 DEF SampledAll

\* The classes of an entangled graph.
LEMMA EntangledSampled ==
  ASSUME NEW spec, spec.nodeCount \in Nat, spec.clusters \in 1..spec.nodeCount,
         spec.hubs \in 1..spec.nodeCount
  PROVE  SampledAll(EntangledClasses(spec))
<1> DEFINE n == spec.nodeCount
           c == spec.clusters
           h == spec.hubs
           regular == n - h
           ranges == GroupRanges(h, regular, c)
           within == ranges[c - 1].edgeEnd
           capacity == HubIncidentCapacity(n, h)
           hub == [o \in 0..(capacity - 1) |-> HubIncidentPair(o, n, h)]
           inner == [o \in 0..(within - 1) |-> ModuloGroupPair(o, ranges, c)]
           every == [o \in 0..(Pairs(regular) - 1) |-> DirectedPair(o, h, regular)]
           skipped == {p \in {every[o] : o \in DOMAIN every} : p[1] % c = p[2] % c}
           first == [kind |-> 2, weight |-> 4000, capacity |-> capacity,
                     pairs |-> hub, skipped |-> {}]
           second == [kind |-> 1, weight |-> 4500, capacity |-> Pairs(regular) - within,
                      pairs |-> every, skipped |-> {}]
           others == [second EXCEPT !.skipped = skipped]
           last == [kind |-> 0, weight |-> 1500, capacity |-> within,
                    pairs |-> inner, skipped |-> {}]
<1>1. EntangledClasses(spec) = <<first, others, last>>
  BY DEF EntangledClasses, Class, Skipping
<1>2. n \in Nat /\ c \in Nat \ {0} /\ h \in Nat /\ h \in 1..n /\ regular \in Nat  OBVIOUS
<1> HIDE DEF regular
<1>3. within \in Nat  BY <1>2, GroupsLaid, AdjoiningEnd
<1>4. inner \in [0..(within - 1) -> Nat \X Nat]
  <2>1. \A o \in 0..(within - 1) : ModuloGroupPair(o, ranges, c) \in Nat \X Nat
    BY <1>2, GroupPairTyped
  <2> HIDE DEF ranges, within
  <2> QED  BY <2>1
<1>5. every \in [0..(Pairs(regular) - 1) -> Nat \X Nat]
  <2>1. \A o \in 0..(Pairs(regular) - 1) : DirectedPair(o, h, regular) \in Nat \X Nat
    BY <1>2, DirectedPairs
  <2> QED  BY <2>1
<1>6. capacity \in Nat  BY <1>2, HubPairsNumber
<1>7. hub \in [0..(capacity - 1) -> Nat \X Nat]
  <2>1. \A o \in 0..(capacity - 1) : HubIncidentPair(o, n, h) \in Nat \X Nat
    BY <1>2, HubPairTyped
  <2> HIDE DEF capacity
  <2> QED  BY <2>1
<1>8. Pairs(regular) \in Nat  BY <1>2, PairsNumber
<1> HIDE DEF ranges, within, inner, every, hub, capacity
<1>9. Sampled(first)
  <2>1. 2 \in Nat /\ 4000 \in Int /\ capacity \in Int  BY <1>6
  <2>2. /\ first.kind \in Nat /\ first.weight \in Int /\ first.capacity \in Int
        /\ first.pairs = hub
    BY <2>1
  <2> HIDE DEF first
  <2> QED  BY <1>6, <1>7, <2>2 DEF Sampled
<1>10. Sampled(others)
  <2>1. 1 \in Nat /\ 4500 \in Int /\ Pairs(regular) - within \in Int  BY <1>3, <1>8
  <2> HIDE DEF n, skipped
  <2>2. /\ others.kind \in Nat /\ others.weight \in Int /\ others.capacity \in Int
        /\ others.pairs = every
    BY <2>1
  <2> HIDE DEF others
  <2> QED  BY <1>5, <1>8, <2>2 DEF Sampled
<1>11. Sampled(last)
  <2>1. 0 \in Nat /\ 1500 \in Int /\ within \in Int  BY <1>3
  <2>2. /\ last.kind \in Nat /\ last.weight \in Int /\ last.capacity \in Int
        /\ last.pairs = inner
    BY <2>1
  <2> HIDE DEF last
  <2> QED  BY <1>3, <1>4, <2>2 DEF Sampled
<1> HIDE DEF first, others, last
<1> QED  BY <1>1, <1>9, <1>10, <1>11, ThreeSampled

\* The classes of a graph around hubs.
LEMMA HubHeavySampled ==
  ASSUME NEW spec, spec.nodeCount \in Nat, spec.hubs \in 1..spec.nodeCount
  PROVE  SampledAll(HubHeavyClasses(spec))
<1> DEFINE n == spec.nodeCount
           h == spec.hubs
           regular == n - h
           capacity == HubIncidentCapacity(n, h)
           hub == [o \in 0..(capacity - 1) |-> HubIncidentPair(o, n, h)]
           every == [o \in 0..(Pairs(regular) - 1) |-> DirectedPair(o, h, regular)]
           first == [kind |-> 2, weight |-> 7000, capacity |-> capacity,
                     pairs |-> hub, skipped |-> {}]
           last == [kind |-> 0, weight |-> 3000, capacity |-> Pairs(regular),
                    pairs |-> every, skipped |-> {}]
<1>1. HubHeavyClasses(spec) = <<first, last>>  BY DEF HubHeavyClasses, Class
<1>2. n \in Nat /\ h \in Nat /\ h \in 1..n /\ regular \in Nat  OBVIOUS
<1> HIDE DEF regular
<1>3. every \in [0..(Pairs(regular) - 1) -> Nat \X Nat]
  <2>1. \A o \in 0..(Pairs(regular) - 1) : DirectedPair(o, h, regular) \in Nat \X Nat
    BY <1>2, DirectedPairs
  <2> QED  BY <2>1
<1>4. capacity \in Nat  BY <1>2, HubPairsNumber
<1>5. hub \in [0..(capacity - 1) -> Nat \X Nat]
  <2>1. \A o \in 0..(capacity - 1) : HubIncidentPair(o, n, h) \in Nat \X Nat
    BY <1>2, HubPairTyped
  <2> HIDE DEF capacity
  <2> QED  BY <2>1
<1>6. Pairs(regular) \in Nat  BY <1>2, PairsNumber
<1> HIDE DEF every, hub, capacity
<1>7. Sampled(first)
  <2>1. 2 \in Nat /\ 7000 \in Int /\ capacity \in Int  BY <1>4
  <2>2. /\ first.kind \in Nat /\ first.weight \in Int /\ first.capacity \in Int
        /\ first.pairs = hub
    BY <2>1
  <2> HIDE DEF first
  <2> QED  BY <1>4, <1>5, <2>2 DEF Sampled
<1>8. Sampled(last)
  <2>1. 0 \in Nat /\ 3000 \in Int /\ Pairs(regular) \in Int  BY <1>6
  <2>2. /\ last.kind \in Nat /\ last.weight \in Int /\ last.capacity \in Int
        /\ last.pairs = every
    BY <2>1
  <2> HIDE DEF last
  <2> QED  BY <1>3, <1>6, <2>2 DEF Sampled
<1> HIDE DEF first, last
<1> QED  BY <1>1, <1>7, <1>8, TwoSampled

\* The classes of a graph in layers.
LEMMA LayeredSampled ==
  ASSUME NEW spec, spec.nodeCount \in Nat, spec.layers \in 2..spec.nodeCount
  PROVE  SampledAll(LayeredClasses(spec))
<1> DEFINE n == spec.nodeCount
           k == spec.layers
           spans == AdjacentSpans(n, k)
           forward == spans[k - 2].edgeEnd
           next == [o \in 0..(forward - 1) |-> AdjacentPair(o, spans, k)]
           every == [o \in 0..(Pairs(n) - 1) |-> DirectedPair(o, 0, n)]
           skipped == {p \in {every[o] : o \in DOMAIN every} : p[2] % k = (p[1] % k) + 1}
           first == [kind |-> 3, weight |-> 8000, capacity |-> forward,
                     pairs |-> next, skipped |-> {}]
           second == [kind |-> 4, weight |-> 2000, capacity |-> Pairs(n) - forward,
                      pairs |-> every, skipped |-> {}]
           last == [second EXCEPT !.skipped = skipped]
<1>1. LayeredClasses(spec) = <<first, last>>
  BY DEF LayeredClasses, Class, Skipping
<1>2. n \in Nat /\ k \in Nat /\ k >= 2 /\ k <= n /\ 0 \in Nat /\ k - 2 = (k - 1) - 1  OBVIOUS
<1>3. forward \in Nat
  <2>1. Adjoining(spans, k - 1, Sums(SpanSizes(n, k)))  BY <1>2, SpansLaid
  <2> HIDE DEF spans
  <2>2. spans[(k - 1) - 1].edgeEnd \in Nat  BY <2>1, AdjoiningEnd
  <2> QED  BY <1>2, <2>2
<1>4. next \in [0..(forward - 1) -> Nat \X Nat]
  <2>1. \A o \in 0..(forward - 1) : AdjacentPair(o, spans, k) \in Nat \X Nat
    BY <1>2, AdjacentPairTyped
  <2> HIDE DEF spans, forward
  <2> QED  BY <2>1
<1>5. every \in [0..(Pairs(n) - 1) -> Nat \X Nat]
  <2>1. \A o \in 0..(Pairs(n) - 1) : DirectedPair(o, 0, n) \in Nat \X Nat
    BY <1>2, DirectedPairs
  <2> QED  BY <2>1
<1>6. Pairs(n) \in Nat  BY <1>2, PairsNumber
<1> HIDE DEF spans, forward, next, every
<1>7. Sampled(first)
  <2>1. 3 \in Nat /\ 8000 \in Int /\ forward \in Int  BY <1>3
  <2>2. /\ first.kind \in Nat /\ first.weight \in Int /\ first.capacity \in Int
        /\ first.pairs = next
    BY <2>1
  <2> HIDE DEF first
  <2> QED  BY <1>3, <1>4, <2>2 DEF Sampled
<1>8. Sampled(last)
  <2>1. 4 \in Nat /\ 2000 \in Int /\ Pairs(n) - forward \in Int  BY <1>3, <1>6
  <2> HIDE DEF n, skipped
  <2>2. /\ last.kind \in Nat /\ last.weight \in Int /\ last.capacity \in Int
        /\ last.pairs = every
    BY <2>1
  <2> HIDE DEF last
  <2> QED  BY <1>5, <1>6, <2>2 DEF Sampled
<1> HIDE DEF first, last
<1> QED  BY <1>1, <1>7, <1>8, TwoSampled

\* The classes of a dense graph.
LEMMA DenseSampled ==
  ASSUME NEW spec, spec.nodeCount \in Nat, spec.dense \in 1..spec.nodeCount
  PROVE  SampledAll(DenseClasses(spec))
<1> DEFINE d == spec.dense
           sparse == spec.nodeCount - d
           other == d * sparse * 2 + Pairs(sparse)
           inner == [o \in 0..(Pairs(d) - 1) |-> DirectedPair(o, 0, d)]
           others == [o \in 0..(other - 1) |-> OtherPair(o, d, sparse)]
           first == [kind |-> 5, weight |-> 7000, capacity |-> Pairs(d),
                     pairs |-> inner, skipped |-> {}]
           last == [kind |-> 0, weight |-> 3000, capacity |-> other,
                    pairs |-> others, skipped |-> {}]
<1>1. DenseClasses(spec) = <<first, last>>  BY DEF DenseClasses, Class
<1>2. d \in Nat /\ sparse \in Nat /\ 0 \in Nat  OBVIOUS
<1> HIDE DEF sparse
<1>3. Pairs(d) \in Nat /\ Pairs(sparse) \in Nat  BY <1>2, PairsNumber
<1>4. other \in Nat
  <2>1. d * sparse \in Nat  BY <1>2
  <2> QED  BY <1>3, <2>1
<1>5. inner \in [0..(Pairs(d) - 1) -> Nat \X Nat]
  <2>1. \A o \in 0..(Pairs(d) - 1) : DirectedPair(o, 0, d) \in Nat \X Nat
    BY <1>2, DirectedPairs
  <2> QED  BY <2>1
<1>6. others \in [0..(other - 1) -> Nat \X Nat]
  <2> HIDE DEF d
  <2>1. \A o \in 0..(other - 1) : OtherPair(o, d, sparse) \in Nat \X Nat
    BY <1>2, OtherPairTyped
  <2> HIDE DEF other
  <2> QED  BY <2>1
<1> HIDE DEF inner, others, other
<1>7. Sampled(first)
  <2>1. 5 \in Nat /\ 7000 \in Int /\ Pairs(d) \in Int  BY <1>3
  <2>2. /\ first.kind \in Nat /\ first.weight \in Int /\ first.capacity \in Int
        /\ first.pairs = inner
    BY <2>1
  <2> HIDE DEF first
  <2> QED  BY <1>3, <1>5, <2>2 DEF Sampled
<1>8. Sampled(last)
  <2>1. 0 \in Nat /\ 3000 \in Int /\ other \in Int  BY <1>4
  <2>2. /\ last.kind \in Nat /\ last.weight \in Int /\ last.capacity \in Int
        /\ last.pairs = others
    BY <2>1
  <2> HIDE DEF last
  <2> QED  BY <1>4, <1>6, <2>2 DEF Sampled
<1> HIDE DEF first, last
<1> QED  BY <1>1, <1>7, <1>8, TwoSampled

\* The classes of every topology.
LEMMA ClassesSampled ==
  ASSUME NEW spec, ValidSpec(spec)
  PROVE  SampledAll(Classes(spec))
<1>1. spec.nodeCount \in Nat  BY DEF ValidSpec
<1>2. CASE spec.topology = "modular"
  <2>1. spec.clusters \in 1..spec.nodeCount /\ spec.crossRatio \in Nat  BY <1>2 DEF ValidSpec
  <2>2. Classes(spec) = ModularClasses(spec)  BY <1>2 DEF Classes
  <2> QED  BY <1>1, <2>1, <2>2, ModularSampled
<1>3. CASE spec.topology = "entangled"
  <2>1. spec.clusters \in 1..spec.nodeCount /\ spec.hubs \in 1..spec.nodeCount
    BY <1>3 DEF ValidSpec
  <2>2. Classes(spec) = EntangledClasses(spec)  BY <1>3 DEF Classes
  <2> QED  BY <1>1, <2>1, <2>2, EntangledSampled
<1>4. CASE spec.topology = "hub_heavy"
  <2>1. spec.hubs \in 1..spec.nodeCount  BY <1>4 DEF ValidSpec
  <2>2. Classes(spec) = HubHeavyClasses(spec)  BY <1>4 DEF Classes
  <2> QED  BY <1>1, <2>1, <2>2, HubHeavySampled
<1>5. CASE spec.topology = "layered"
  <2>1. spec.layers \in 2..spec.nodeCount  BY <1>5 DEF ValidSpec
  <2>2. Classes(spec) = LayeredClasses(spec)  BY <1>5 DEF Classes
  <2> QED  BY <1>1, <2>1, <2>2, LayeredSampled
<1>6. CASE spec.topology = "dense"
  <2>1. spec.dense \in 1..spec.nodeCount  BY <1>6 DEF ValidSpec
  <2>2. Classes(spec) = DenseClasses(spec)  BY <1>6 DEF Classes
  <2> QED  BY <1>1, <2>1, <2>2, DenseSampled
<1> QED  BY <1>2, <1>3, <1>4, <1>5, <1>6 DEF ValidSpec

\* The smaller of two numbers.
LEMMA AtMostNumber ==
  ASSUME NEW a \in Int, NEW b \in Int
  PROVE  AtMost(a, b) \in Int
  BY DEF AtMost

\* allocate_counts gives every class a number.
LEMMA CountsAllocated ==
  ASSUME NEW n \in Nat \ {0}, NEW total \in Int,
         NEW weights \in [1..n -> Int], NEW capacities \in [1..n -> Int]
  PROVE  \A i \in 1..n : AllocateCounts(total, weights, capacities)[i] \in Int
<1> DEFINE share == [i \in 1..(n - 1) |-> (total * weights[i]) \div BASIS_POINTS]
           asked == Append(share, total - Total(share))
           given == [i \in 1..n |-> AtMost(asked[i], capacities[i])]
           room == [i \in 1..n |-> capacities[i] - given[i]]
           spare == total - Total(given)
           over(i) == spare - AtMost(spare, Total(SubSeq(room, 1, i - 1)))
<1>1. AllocateCounts(total, weights, capacities)
        = [i \in 1..n |-> given[i] + AtMost(room[i], over(i))]
  <2>1. Len(weights) = n  OBVIOUS
  <2> QED  BY <2>1 DEF AllocateCounts
<1>2. share \in Seq(Int) /\ Len(share) = n - 1
  <2>1. ASSUME NEW i \in 1..(n - 1)  PROVE (total * weights[i]) \div BASIS_POINTS \in Int
    <3>1. weights[i] \in Int  OBVIOUS
    <3>2. total * weights[i] \in Int  BY <3>1
    <3> QED  BY <3>2 DEF BASIS_POINTS
  <2>2. share \in [1..(n - 1) -> Int]  BY <2>1
  <2>3. n - 1 \in Nat  OBVIOUS
  <2> HIDE DEF share
  <2> QED  BY <2>2, <2>3
<1> HIDE DEF share
<1>3. Total(share) \in Int  BY <1>2, TotalNumber
<1>4. asked \in Seq(Int) /\ Len(asked) = n  BY <1>2, <1>3
<1> HIDE DEF asked
<1>5. given \in [1..n -> Int]
  <2>1. ASSUME NEW i \in 1..n  PROVE AtMost(asked[i], capacities[i]) \in Int
    <3>1. asked[i] \in Int /\ capacities[i] \in Int  BY <1>4
    <3> QED  BY <3>1, AtMostNumber
  <2> QED  BY <2>1
<1> HIDE DEF given
<1>6. room \in [1..n -> Int]
  <2>1. ASSUME NEW i \in 1..n  PROVE capacities[i] - given[i] \in Int
    <3>1. given[i] \in Int /\ capacities[i] \in Int  BY <1>5
    <3> QED  BY <3>1
  <2> QED  BY <2>1
<1> HIDE DEF room
<1>7. spare \in Int
  <2>1. given \in Seq(Int)  BY <1>5
  <2>2. Total(given) \in Int  BY <2>1, TotalNumber
  <2> QED  BY <2>2
<1> HIDE DEF spare
<1>8. ASSUME NEW i \in 1..n  PROVE given[i] + AtMost(room[i], over(i)) \in Int
  <2>1. SubSeq(room, 1, i - 1) \in Seq(Int)
    <3>1. room \in Seq(Int) /\ Len(room) = n  BY <1>6
    <3> QED  BY <3>1
  <2>2. Total(SubSeq(room, 1, i - 1)) \in Int  BY <2>1, TotalNumber
  <2>3. AtMost(spare, Total(SubSeq(room, 1, i - 1))) \in Int  BY <1>7, <2>2, AtMostNumber
  <2>4. over(i) \in Int  BY <1>7, <2>3
  <2> HIDE DEF over
  <2>5. room[i] \in Int /\ given[i] \in Int  BY <1>5, <1>6
  <2>6. AtMost(room[i], over(i)) \in Int  BY <2>4, <2>5, AtMostNumber
  <2> QED  BY <2>5, <2>6
<1> QED  BY <1>1, <1>8

(* The edges of the first classes.                                         *)
Gathering(pairs, classes, n, edges) ==
  edges = [i \in 0..n |->
             IF i = 0 THEN <<>>
             ELSE edges[i - 1] \o [j \in DOMAIN pairs[i] |->
                                     EdgeOf(pairs[i][j][1], pairs[i][j][2], classes[i].kind)]]

\* The edges of all classes are a list of edges.
LEMMA EdgesGathered ==
  ASSUME NEW n \in Nat, NEW pairs, \A i \in 1..n : pairs[i] \in Seq(Nat \X Nat),
         NEW classes, \A i \in 1..n : classes[i].kind \in Nat
  PROVE  (CHOOSE edges : Gathering(pairs, classes, n, edges))[n] \in Edges
<1> DEFINE part(i) == [j \in DOMAIN pairs[i] |->
                         EdgeOf(pairs[i][j][1], pairs[i][j][2], classes[i].kind)]
           step == [i \in 1..n |-> [x \in Edges |-> x \o part(i)]]
           w == CHOOSE edges : Gathering(pairs, classes, n, edges)
<1>1. ASSUME NEW i \in 1..n  PROVE part(i) \in Edges
  <2> DEFINE l == Len(pairs[i])
             p == pairs[i]
  <2>1. l \in Nat /\ DOMAIN p = 1..l /\ p \in Seq(Nat \X Nat)  OBVIOUS
  <2> HIDE DEF l, p
  <2>2. \A j \in 1..l : EdgeOf(p[j][1], p[j][2], classes[i].kind) \in Edge
    <3> TAKE j \in 1..l
    <3>1. p[j] \in Nat \X Nat  BY <2>1, Member
    <3>2. p[j][1] \in Nat /\ p[j][2] \in Nat  BY <3>1
    <3> QED  BY <3>2 DEF EdgeOf, Edge
  <2>3. [j \in DOMAIN p |-> EdgeOf(p[j][1], p[j][2], classes[i].kind)] \in [1..l -> Edge]
    BY <2>1, <2>2
  <2>4. [j \in DOMAIN p |-> EdgeOf(p[j][1], p[j][2], classes[i].kind)] \in Seq(Edge)
    BY <2>1, <2>3
  <2> QED  BY <2>4 DEF p, Edges, Edge
<1>2. ASSUME NEW i \in 1..n
      PROVE  step[i] \in [Edges -> Edges] /\ \A x \in Edges : step[i][x] = x \o part(i)
  <2>1. part(i) \in Seq(Edge)  BY <1>1 DEF Edges, Edge
  <2> HIDE DEF part
  <2>2. \A x \in Seq(Edge) : x \o part(i) \in Seq(Edge)  BY <2>1
  <2>3. \A x \in Edges : x \o part(i) \in Edges  BY <2>2 DEF Edges, Edge
  <2> QED  BY <2>3
<1>3. <<>> \in Edges  BY DEF Edges
<1>4. \A edges : Gathering(pairs, classes, n, edges)
        <=> edges = [i \in 0..n |-> IF i = 0 THEN <<>> ELSE edges[i - 1] \o part(i)]
  BY DEF Gathering
<1> HIDE DEF step, part
<1>5. PICK f \in Turns(Edges, <<>>, step, n) : TRUE  BY <1>2, <1>3, Folded
<1>6. f \in [0..n -> Edges] /\ f[0] = <<>> /\ \A i \in 1..n : f[i] = step[i][f[i - 1]]
  BY <1>5 DEF Turns
<1>7. ASSUME NEW i \in 0..n  PROVE f[i] = IF i = 0 THEN <<>> ELSE f[i - 1] \o part(i)
  <2>1. CASE i = 0  BY <1>6, <2>1
  <2>2. CASE i # 0
    <3>1. i \in 1..n /\ i - 1 \in 0..n  BY <2>2
    <3>2. f[i] = step[i][f[i - 1]] /\ f[i - 1] \in Edges  BY <1>6, <3>1
    <3> QED  BY <1>2, <2>2, <3>1, <3>2
  <2> QED  BY <2>1, <2>2
<1>8. Gathering(pairs, classes, n, f)
  <2>1. f = [i \in 0..n |-> f[i]]  BY <1>6
  <2> QED  BY <1>4, <1>7, <2>1
<1>9. Gathering(pairs, classes, n, w)  BY <1>8
<1> HIDE DEF w
<1>10. w = [i \in 0..n |-> IF i = 0 THEN <<>> ELSE w[i - 1] \o part(i)]  BY <1>4, <1>9
<1> DEFINE G == {k \in 0..n : w[k] \in Edges}
<1>11. 0..n \subseteq G
  <2>1. 0 \in G
    <3>1. 0 \in 0..n  OBVIOUS
    <3> QED  BY <1>3, <1>10, <3>1
  <2>2. ASSUME NEW k \in 0..(n - 1), k \in G  PROVE k + 1 \in G
    <3>1. k + 1 \in 1..n /\ k + 1 \in 0..n /\ (k + 1) - 1 = k /\ k + 1 # 0  OBVIOUS
    <3>2. w[k + 1] = w[k] \o part(k + 1)  BY <1>10, <3>1
    <3>3. w[k] \in Seq(Edge) /\ part(k + 1) \in Seq(Edge)
      BY <1>1, <2>2, <3>1 DEF Edges, Edge
    <3>4. w[k] \o part(k + 1) \in Seq(Edge)  BY <3>3
    <3>5. w[k + 1] \in Edges  BY <3>2, <3>4 DEF Edges, Edge
    <3> QED  BY <3>1, <3>5
  <2> HIDE DEF G
  <2> QED  BY <2>1, <2>2, UpTo
<1>12. n \in 0..n  OBVIOUS
<1> QED  BY <1>11, <1>12 DEF w

\* generate makes a dataset of as many nodes as it is asked for.
LEMMA GeneratedDataset ==
  ASSUME NEW spec, ValidSpec(spec), NEW draws \in [1..3 -> Nat \X Nat]
  PROVE  Generated(spec, draws) \in Dataset /\ Generated(spec, draws).nodeCount = spec.nodeCount
<1> DEFINE classes == Classes(spec)
           weights == [i \in DOMAIN classes |-> classes[i].weight]
           capacities == [i \in DOMAIN classes |-> classes[i].capacity]
           counts == AllocateCounts(spec.edgeCount, weights, capacities)
           pairs == [i \in DOMAIN classes |->
                       Drawn(classes[i].pairs, classes[i].skipped, counts[i], draws[i])]
           last == Len(classes)
           all == CHOOSE edges : Gathering(pairs, classes, last, edges)
<1>1. SampledAll(classes)  BY ClassesSampled
<1>2. spec.nodeCount \in Nat /\ spec.edgeCount \in Nat  BY DEF ValidSpec
<1> HIDE DEF classes
<1>3. PICK n \in {2, 3} :
        DOMAIN classes = 1..n /\ Len(classes) = n /\ \A i \in 1..n : Sampled(classes[i])
  BY <1>1 DEF SampledAll
<1>4. n \in Nat \ {0} /\ n \in Nat /\ \A i \in 1..n : i \in 1..3  OBVIOUS
<1>5. weights \in [1..n -> Int] /\ capacities \in [1..n -> Int]
  BY <1>3 DEF Sampled
<1> HIDE DEF weights, capacities
<1>6. \A i \in 1..n : counts[i] \in Int
  <2>1. spec.edgeCount \in Int  BY <1>2
  <2> QED  BY <1>4, <1>5, <2>1, CountsAllocated
<1> HIDE DEF counts
<1>7. ASSUME NEW i \in 1..n  PROVE pairs[i] \in Seq(Nat \X Nat)
  <2>1. PICK size \in Nat : classes[i].pairs \in [0..(size - 1) -> Nat \X Nat]
    BY <1>3 DEF Sampled
  <2>2. draws[i] \in Nat \X Nat  BY <1>4
  <2>3. counts[i] \in Int  BY <1>6
  <2>4. Drawn(classes[i].pairs, classes[i].skipped, counts[i], draws[i]) \in Seq(Nat \X Nat)
    BY <2>1, <2>2, <2>3, DrawnPairs
  <2> QED  BY <1>3, <2>4
<1>8. \A i \in 1..n : classes[i].kind \in Nat  BY <1>3 DEF Sampled
<1>9. Generated(spec, draws)
        = [nodeCount |-> spec.nodeCount, edges |-> SortedEdges(all[last])]
  BY DEF Generated, Gathering, classes, counts, weights, capacities
<1>10. all[last] \in Edges
  <2>1. last = n  BY <1>3
  <2> HIDE DEF pairs, last
  <2> QED  BY <1>4, <1>7, <1>8, <2>1, EdgesGathered
<1> HIDE DEF all, last
<1>11. SortedEdges(all[last]) \in Edges  BY <1>10, SortedEdgesExact
<1> QED  BY <1>2, <1>9, <1>11 DEF Dataset

\* Every dataset that is generated is one.
LEMMA GenerationsTyped ==
  ASSUME NEW g \in Generations
  PROVE  g.dataset \in Dataset
<1>1. PICK spec \in {s \in Specs : SpecError(s) = "none"}, draws \in Draws :
        g = [spec |-> spec, dataset |-> Generated(spec, draws)]
  BY DEF Generations
<1>2. spec \in GraphSpec /\ SpecError(spec) = "none" /\ draws \in [1..3 -> Nat \X Nat]
  BY SpecsAssumption, DrawsAssumption
<1>3. ValidSpec(spec)  BY <1>2, SpecsValid
<1> QED  BY <1>1, <1>2, <1>3, GeneratedDataset

\* The standard scenarios ask for a number of edges.
LEMMA StandardCountable ==
  ASSUME NEW graph, Simple(graph), NEW s \in StandardScenarios(graph)
  PROVE  Countable(s)
<1> DEFINE most(a, b) == IF a > b THEN a ELSE b
           n == graph.nodeCount
           target == most(Len(graph.edges) \div 1000, 1)
           hot == HottestNode(graph)
           width == most(n \div 100, 1)
           start == AtMost(hot, n - width)
           hubs == AtMost(most(most(n \div 1000, 1), hot + 1), n)
           local == Len(IncidentIndices(graph, start, start + width))
           hub == Len(IncidentIndices(graph, 0, hubs))
           few == most(AtMost(target, local), 1)
           some == AtMost(target, Len(graph.edges))
           many == most(AtMost(target, hub), 1)
<1>1. \/ s = [of |-> "single_node", node |-> hot]
      \/ s = [of |-> "local_range", start |-> start, nodeCount |-> width, edgeCount |-> few]
      \/ s = [of |-> "scattered", edgeCount |-> some]
      \/ s = [of |-> "hub", hubs |-> hubs, edgeCount |-> many]
      \/ s = [of |-> "percentage", basisPoints |-> 100]
  BY DEF StandardScenarios
<1>2. Len(graph.edges) \in Nat  BY DEF Simple, Edges
<1>3. ASSUME NEW a, NEW b  PROVE Len(IncidentIndices(graph, a, b)) \in Nat
  <2> DEFINE D == DOMAIN graph.edges
             T == {i \in D : Touches(graph.edges[i], a, b)}
  <2>1. D = 1..Len(graph.edges)  BY DEF Simple, Edges
  <2>2. IsFiniteSet(D) /\ D \in SUBSET Nat
    <3>1. 1 \in Int /\ Len(graph.edges) \in Int  BY <1>2
    <3> HIDE DEF D
    <3>2. IsFiniteSet(D)  BY <2>1, <3>1, FS_Interval
    <3> QED  BY <1>2, <2>1, <3>2
  <2>3. IsFiniteSet(T) /\ T \in SUBSET Nat  BY <2>2, FS_Subset
  <2>4. IncidentIndices(graph, a, b) = Ascending(T)
    BY DEF IncidentIndices, Ordered, Ascending
  <2> HIDE DEF T
  <2>5. Ascending(T) \in Seq(T)  BY <2>3, AscendingList
  <2> QED  BY <2>4, <2>5
<1>4. local \in Nat /\ hub \in Nat  BY <1>3
<1>5. target \in Nat
  <2> DEFINE l == Len(graph.edges)
  <2>1. l \in Nat  BY <1>2
  <2> HIDE DEF l
  <2>2. l \div 1000 \in Nat  BY <2>1
  <2> QED  BY <2>2 DEF l
<1> HIDE DEF local, hub, target
<1>6. few \in Nat /\ some \in Nat /\ many \in Nat  BY <1>2, <1>4, <1>5 DEF AtMost
<1> HIDE DEF few, some, many, start, width, hubs, hot
<1> QED  BY <1>1, <1>6 DEF Countable

\* So do all others.
LEMMA ScenarioCountable ==
  ASSUME NEW s \in Scenario
  PROVE  Countable(s)
  BY DEF Scenario, Countable

\* The errors of a plan and of a specification are not those of its application.
LEMMA PlanErrors ==
  ASSUME NEW graph, NEW s, Countable(s)
  PROVE  PlanError(graph, s) \notin ApplyErrors
<1> DEFINE first == ScenarioError(graph, s)
<1>1. PlanError(graph, s) \in {"no_matching", "exceeds_candidates", "no_capacity", "none", first}
  <2> HIDE DEF first
  <2> QED  BY DEF PlanError, first
<1>2. s.of \in {"single_node", "local_range", "scattered", "hub", "percentage"}
  BY DEF Countable
<1>3. first \in {"invalid_node", "invalid_range", "zero_requested", "invalid_hubs",
                 "invalid_percentage", "none"}
  BY <1>2 DEF ScenarioError
<1> HIDE DEF first
<1> QED  BY <1>1, <1>3 DEF ApplyErrors

\* Neither are those of a specification.
LEMMA SpecErrors ==
  ASSUME NEW spec \in GraphSpec
  PROVE  SpecError(spec) \notin ApplyErrors
<1>1. SpecError(spec) \in {"zero_nodes", "self_edges", "capacity", "ratio", "too_small",
                           "zero_partition", "partition", "none"}
  BY DEF SpecError
<1> QED  BY <1>1 DEF ApplyErrors

-----------------------------------------------------------------------------
(* The overlay and the rebuilt graph.                                      *)

\* A graph that is packed repeats no edge.
LEMMA ProperSimple ==
  ASSUME Proper(dataset.edges)
  PROVE  Simple(dataset)
<1>1. /\ dataset.edges \in Edges /\ dataset.nodeCount \in Nat /\ dataset.edges \in Seq(Edge)
      /\ Cardinality(Elements(dataset.edges)) = Len(dataset.edges)
  BY DEF Proper, Direct, Distinct, Edges, Edge
<1> QED  BY <1>1, InjectiveCount DEF Simple

\* Changes that fit are accepted by the overlay.
LEMMA FittingAcceptable ==
  ASSUME Proper(dataset.edges), Fitting(dataset, changes)
  PROVE  Acceptable /\ Len(changes.added) = Len(changes.removed)
<1>1. PICK n \in Nat : Gone(dataset, changes.removed, n) /\ New(dataset, changes.added, n)
  BY DEF Fitting
<1>2. /\ dataset.edges \in Seq(Edge) /\ dataset.nodeCount \in Nat
      /\ \A e \in Packed : Source(e) < dataset.nodeCount /\ Target(e) < dataset.nodeCount
  BY DEF Proper, Direct, InRange, Packed, Edges, Edge
<1>3. Proper(changes.removed) /\ Elements(changes.removed) \subseteq Packed
      /\ Len(changes.removed) = n
  <2>1. /\ changes.removed \in Edges /\ changes.removed \in Seq(Edge)
        /\ Injective(changes.removed) /\ Len(changes.removed) = n
        /\ Elements(changes.removed) \subseteq Packed
    BY <1>1 DEF Gone, Packed, Edges, Edge
  <2>2. Distinct(changes.removed)  BY <2>1, InjectiveCount DEF Distinct
  <2>3. InRange(dataset.nodeCount, changes.removed)  BY <1>2, <2>1 DEF InRange
  <2> QED  BY <1>2, <2>1, <2>2, <2>3 DEF Proper, Direct
<1>4. Proper(changes.added) /\ Elements(changes.added) \cap Packed = {}
      /\ Len(changes.added) = n
  <2>1. /\ changes.added \in Edges /\ changes.added \in Seq(Edge)
        /\ Injective(changes.added) /\ Len(changes.added) = n
        /\ \A e \in Elements(changes.added) :
             /\ Source(e) \in 0..(dataset.nodeCount - 1)
             /\ Target(e) \in 0..(dataset.nodeCount - 1)
             /\ PairOf(e) \notin OccupiedPairs(dataset)
    BY <1>1 DEF New, Edges, Edge
  <2>2. Distinct(changes.added)  BY <2>1, InjectiveCount DEF Distinct
  <2>3. InRange(dataset.nodeCount, changes.added)
    <3>1. \A x \in 0..(dataset.nodeCount - 1) : x < dataset.nodeCount  BY <1>2
    <3> QED  BY <2>1, <3>1 DEF InRange
  <2>4. Elements(changes.added) \cap Packed = {}  BY <2>1 DEF Packed, OccupiedPairs
  <2> QED  BY <1>2, <2>1, <2>2, <2>3, <2>4 DEF Proper, Direct
<1> QED  BY <1>3, <1>4 DEF Acceptable

\* The rebuilt graph is packed from the visible edges, in order.
LEMMA RebuiltPacked ==
  ASSUME Proper(dataset.edges), Fitting(dataset, changes)
  PROVE  LET s == Applied(dataset, changes).edges
         IN  /\ s = Ordered(Visible, EdgeBefore) /\ Elements(s) = Visible
             /\ Direct(s, dataset.nodeCount) /\ Canonical(s) = s
<1> DEFINE s == Applied(dataset, changes).edges
           N == dataset.nodeCount
<1>1. s = Ordered(Visible, EdgeBefore)
  BY ProperSimple, AppliedEdges DEF Visible, Packed
<1>2. Acceptable  BY FittingAcceptable
<1>3. /\ Packed \in SUBSET Edge /\ IsFiniteSet(Packed) /\ N \in Nat
      /\ Elements(changes.added) \in SUBSET Edge /\ IsFiniteSet(Elements(changes.added))
      /\ \A e \in Packed \cup Elements(changes.added) : Source(e) < N /\ Target(e) < N
  BY <1>2, ProperCanonical DEF Acceptable, Packed, Proper, Direct
<1> HIDE DEF s
<1>4. /\ Visible \in SUBSET Edge /\ \A e \in Visible : Source(e) < N /\ Target(e) < N
  BY <1>3 DEF Visible
<1>5. IsFiniteSet(Visible)
  <2>1. IsFiniteSet(Packed \cup Elements(changes.added))  BY <1>3, FS_Union
  <2>2. Visible \subseteq Packed \cup Elements(changes.added)  BY DEF Visible
  <2> QED  BY <2>1, <2>2, FS_Subset
<1>6. s = Ranked(Visible, AheadIn(Visible, "forward"))  BY <1>1, <1>4, OrderedEdges
<1>7. s \in Seq(Edge) /\ Elements(s) = Visible /\ Len(s) = Cardinality(Visible)
  <2>1. "forward" \in Direction  BY DEF Direction
  <2>2. s \in Edges /\ Elements(s) = Visible /\ Len(s) = Cardinality(Visible)
    BY <1>4, <1>5, <1>6, <2>1, RankedEdges
  <2> QED  BY <2>2 DEF Edges, Edge
<1>8. Direct(s, N)
  BY <1>3, <1>4, <1>7 DEF Direct, InRange, Distinct, Edges, Edge
<1>9. Canonical(s) = s  BY <1>1, <1>7 DEF Canonical
<1> QED  BY <1>1, <1>7, <1>8, <1>9 DEF s

\* A plan that is made for the dataset applies to it.
LEMMA PlansApply ==
  ASSUME NEW p \in Plans, p.dataset = dataset, Simple(dataset)
  PROVE  /\ p.result.error \notin ApplyErrors
         /\ p.result.error = "none" =>
              /\ p.result.changes \in OverlayChanges /\ Fitting(dataset, p.result.changes)
              /\ LET applied == Applied(dataset, p.result.changes)
                 IN  p.result.rebuilt
                       = Encode(applied.nodeCount, applied.edges, Reversed(applied.edges))
<1>1. PICK g \in Generations :
        p \in {[dataset |-> g.dataset, standard |-> s \in StandardScenarios(g.dataset),
                result |-> IF PlanError(g.dataset, s) = "none" THEN PlanOf(g.dataset, s, draws)
                           ELSE NoPlan(PlanError(g.dataset, s))] :
                 s \in StandardScenarios(g.dataset) \cup Scenarios, draws \in Draws}
  BY DEF Plans
<1>2. PICK s \in StandardScenarios(g.dataset) \cup Scenarios, draws \in Draws :
        p = [dataset |-> g.dataset, standard |-> s \in StandardScenarios(g.dataset),
             result |-> IF PlanError(g.dataset, s) = "none" THEN PlanOf(g.dataset, s, draws)
                        ELSE NoPlan(PlanError(g.dataset, s))]
  BY <1>1
<1>3. g.dataset = dataset  BY <1>2
<1>4. Countable(s)
  <2>1. CASE s \in StandardScenarios(dataset)  BY <2>1, StandardCountable
  <2>2. CASE s \in Scenarios  BY <2>2, ScenariosAssumption, ScenarioCountable
  <2> QED  BY <1>2, <1>3, <2>1, <2>2
<1>5. draws[1] \in Nat \X Nat /\ draws[2] \in Nat \X Nat
  <2>1. draws \in [1..3 -> Nat \X Nat]  BY <1>2, DrawsAssumption
  <2>2. 1 \in 1..3 /\ 2 \in 1..3  OBVIOUS
  <2> QED  BY <2>1, <2>2
<1>6. p.result = IF PlanError(dataset, s) = "none" THEN PlanOf(dataset, s, draws)
                 ELSE NoPlan(PlanError(dataset, s))
  BY <1>2, <1>3
<1>7. CASE PlanError(dataset, s) = "none"
  <2> DEFINE planned == Planned(dataset, s, draws)
             applied == Applied(dataset, planned)
  <2>1. Fitting(dataset, planned)  BY <1>4, <1>5, <1>7, PlanFits
  <2>2. ApplyError(dataset, planned) = "none"  BY <2>1, FittingApplies
  <2>3. p.result = PlanOf(dataset, s, draws)  BY <1>6, <1>7
  <2>4. /\ p.result.error = "none" /\ p.result.changes = planned
        /\ p.result.rebuilt = Encode(applied.nodeCount, applied.edges, Reversed(applied.edges))
    BY <2>2, <2>3 DEF PlanOf
  <2>5. "none" \notin ApplyErrors  BY DEF ApplyErrors
  <2>6. planned \in OverlayChanges
    <3>1. planned.removed \in Edges /\ planned.added \in Edges
      BY <2>1 DEF Fitting, Gone, New
    <3>2. \E gone, fresh : planned = [removed |-> gone, added |-> fresh]  BY DEF Planned
    <3> HIDE DEF planned
    <3> QED  BY <3>1, <3>2 DEF OverlayChanges
  <2> HIDE DEF planned
  <2> QED  BY <2>1, <2>4, <2>5, <2>6
<1>8. CASE PlanError(dataset, s) # "none"
  <2>1. p.result.error = PlanError(dataset, s)  BY <1>6, <1>8 DEF NoPlan
  <2>2. PlanError(dataset, s) \notin ApplyErrors  BY <1>4, PlanErrors
  <2> QED  BY <1>8, <2>1, <2>2
<1> QED  BY <1>7, <1>8

-----------------------------------------------------------------------------
(* The inductive invariant of the benchmark.                               *)

(* An answer is about a node of the graph.                                 *)
Asked == pc = "done" => query[1] \in 0..(file.nodeCount - 1)

(* The changes of an overlay fit the dataset, and are packed afresh.       *)
Overlaid ==
  stage = "overlay" =>
    /\ Proper(dataset.edges) /\ Fitting(dataset, changes)
    /\ LET applied == Applied(dataset, changes)
       IN  rebuilt = Encode(applied.nodeCount, applied.edges, Reversed(applied.edges))

BenchInv ==
  /\ VisibleInv /\ Asked /\ Overlaid
  /\ why \notin ApplyErrors
  /\ stage = "generate" => AtStart /\ graphSpec \in Specs /\ changes \in OverlayChanges

\* What holds of the storage before anything is packed, after a step.
LEMMA StartHoldsNext ==
  (AtStart /\ dataset \in Dataset /\ changes \in OverlayChanges)' => VisibleInv'
  BY StartHolds, PTL

\* A benchmark starts so, and so does any other call.
LEMMA BenchStarts ==
  ASSUME AllInit
  PROVE  BenchInv
<1>1. why = "none" /\ "none" \notin ApplyErrors  BY DEF AllInit, ApplyErrors
<1>2. CASE Init /\ stage = "given"
  <2>1. VisibleInv  BY <1>2, VisibleStarts
  <2>2. pc # "done"  BY <1>2 DEF Init
  <2> QED  BY <1>1, <1>2, <2>1, <2>2 DEF BenchInv, Asked, Overlaid
<1>3. CASE BenchInit
  <2>1. AtStart /\ stage = "generate" /\ graphSpec \in Specs
    BY <1>3 DEF BenchInit, AtStart
  <2>2. dataset \in Dataset /\ changes \in OverlayChanges
    <3>1. <<>> \in Edges /\ 0 \in Nat  BY DEF Edges
    <3> QED  BY <1>3, <3>1 DEF BenchInit, NoDataset, NoChanges, Dataset, OverlayChanges
  <2>3. VisibleInv  BY <2>1, <2>2, StartHolds
  <2>4. pc # "done"  BY <2>1 DEF AtStart
  <2> QED  BY <1>1, <2>1, <2>2, <2>3, <2>4 DEF BenchInv, Asked, Overlaid
<1> QED  BY <1>2, <1>3 DEF AllInit

\* A failure leaves the storage as it is.
LEMMA FailKeeps ==
  ASSUME BenchInv, NEW reason, Fail(reason), reason \notin ApplyErrors
  PROVE  BenchInv'
<1>1. stage' = "failed" /\ why' = reason /\ UNCHANGED vars  BY DEF Fail
<1>2. VisibleInv'  BY <1>1, StutterKeeps DEF BenchInv
<1>3. Asked'  BY <1>1 DEF BenchInv, Asked, vars, outer
<1> QED  BY <1>1, <1>2, <1>3 DEF BenchInv, Overlaid

LEMMA RefuseSpecKeeps ==
  ASSUME BenchInv, RefuseSpec
  PROVE  BenchInv'
<1>1. graphSpec \in GraphSpec /\ Fail(SpecError(graphSpec))
  BY SpecsAssumption DEF BenchInv, RefuseSpec
<1> QED  BY <1>1, SpecErrors, FailKeeps

LEMMA GenerateKeeps ==
  ASSUME BenchInv, Generate
  PROVE  BenchInv'
<1>1. /\ stage = "generate" /\ stage' = "base" /\ why' = why
      /\ UNCHANGED <<changes, pc, error, file, adds, dels, addAt, delAt, source, hashed, query,
                     answer, base, removed, added, phase, at, removedAt, retained, left, right,
                     merged>>
  BY DEF Generate, mergeVars
<1>2. PICK g \in Generations : dataset' = g.dataset  BY DEF Generate
<1>3. AtStart /\ changes \in OverlayChanges  BY <1>1 DEF BenchInv
<1>4. AtStart'  BY <1>1, <1>3 DEF AtStart, MergeIdle
<1>5. dataset' \in Dataset /\ changes' \in OverlayChanges  BY <1>1, <1>2, <1>3, GenerationsTyped
<1>6. VisibleInv'  BY <1>4, <1>5, StartHoldsNext
<1>7. pc' # "done"  BY <1>4 DEF AtStart
<1> QED  BY <1>1, <1>6, <1>7 DEF BenchInv, Asked, Overlaid

\* Changes that are planned leave the opened base as it is.
LEMMA PlanKeeps ==
  ASSUME BenchInv, BaseOpened, NEW p \in PlansHere, Plan(p)
  PROVE  BenchInv'
<1>1. /\ stage = "base" /\ pc = "changes" /\ stage' = "overlay" /\ why' = why
      /\ p.result.error = "none" /\ changes' = p.result.changes /\ rebuilt' = p.result.rebuilt
      /\ UNCHANGED <<dataset, pc, error, file, adds, dels, addAt, delAt, source, hashed, query,
                     answer, base, removed, added, phase, at, removedAt, retained, left, right,
                     merged>>
  BY DEF BaseOpened, Plan, mergeVars
<1>2. VisibleInv  BY DEF BenchInv
<1>3. Proper(dataset.edges)  BY <1>1, <1>2 DEF VisibleInv, Stored
<1>4. p \in Plans /\ p.dataset = dataset  BY DEF PlansHere
<1>5. /\ changes' \in OverlayChanges /\ Fitting(dataset, changes')
      /\ LET applied == Applied(dataset, changes')
         IN  rebuilt' = Encode(applied.nodeCount, applied.edges, Reversed(applied.edges))
  BY <1>1, <1>3, <1>4, ProperSimple, PlansApply
<1>6. Overlaid'  BY <1>1, <1>3, <1>5 DEF Overlaid, Proper
<1>7. VisibleInv'
  <2>1. TypeOK'  BY <1>1, <1>2, <1>5 DEF VisibleInv, TypeOK
  <2>2. MergeIInv'
    BY <1>1, <1>2 DEF VisibleInv, MergeIInv, TypeInv, ArgInv, DropInv, MergeInv, MergeExact
  <2>3. Stored' /\ Compared' /\ HashedTo'
    BY <1>1, <1>2 DEF VisibleInv, Stored, Compared, HashedTo, Changing, Accepted, Proper
  <2>4. MergesNode' /\ Decided' /\ NeighborsExact'
    BY <1>1, <1>2 DEF VisibleInv, Stored, MergesNode, Decided, NeighborsExact, Accepted
  <2> QED  BY <2>1, <2>2, <2>3, <2>4 DEF VisibleInv
<1>8. Asked'  BY <1>1 DEF Asked
<1> QED  BY <1>1, <1>6, <1>7, <1>8 DEF BenchInv

\* Steps of the storage keep its input.
LEMMA InputKept ==
  ASSUME Next
  PROVE  UNCHANGED <<dataset, changes>>
<1>1. CASE RefuseDataset \/ WritePacked \/ OpenPacked
  BY <1>1 DEF RefuseDataset, WritePacked, OpenPacked, Refuse
<1>2. CASE RefuseChanges \/ AcceptChanges
  BY <1>2 DEF RefuseChanges, AcceptChanges, Refuse
<1>3. CASE AdvanceAdded \/ AdvanceRemoved \/ RefuseConflict \/ NoConflict
  BY <1>3 DEF AdvanceAdded, AdvanceRemoved, RefuseConflict, NoConflict, Refuse
<1>4. CASE RefuseMissing \/ RefusePresent \/ AcceptMembers
  BY <1>4 DEF RefuseMissing, RefusePresent, AcceptMembers, Refuse
<1>5. CASE HashNode \/ Merge \/ HashMerged \/ Hashed
  BY <1>5 DEF HashNode, Merge, HashMerged, Hashed, outer
<1>6. CASE RefuseNode \/ (\E n \in 0..(file.nodeCount - 1), d \in Direction : Query(n, d)) \/ Answer
  BY <1>6 DEF RefuseNode, Query, Answer, Refuse
<1> QED  BY <1>1, <1>2, <1>3, <1>4, <1>5, <1>6 DEF Next

\* What ends in an answer is a query for a node.
LEMMA AskedKept ==
  ASSUME VisibleInv, Asked, Next
  PROVE  Asked'
<1>1. CASE RefuseDataset \/ WritePacked \/ OpenPacked
  BY <1>1 DEF RefuseDataset, WritePacked, OpenPacked, Refuse, Goto, Asked
<1>2. CASE RefuseChanges \/ AcceptChanges
  BY <1>2 DEF RefuseChanges, AcceptChanges, Refuse, Goto, Asked
<1>3. CASE AdvanceAdded \/ AdvanceRemoved \/ RefuseConflict \/ NoConflict
  BY <1>3 DEF AdvanceAdded, AdvanceRemoved, RefuseConflict, NoConflict, Comparing, Refuse, Goto,
              Asked
<1>4. CASE RefuseMissing \/ RefusePresent \/ AcceptMembers
  BY <1>4 DEF RefuseMissing, RefusePresent, AcceptMembers, Refuse, Goto, Asked
<1>5. CASE HashNode \/ Merge \/ HashMerged \/ Hashed
  BY <1>5 DEF HashNode, Merge, HashMerged, Hashed, Goto, outer, Asked
<1>6. CASE RefuseNode
  BY <1>6 DEF RefuseNode, Refuse, Asked
<1>7. ASSUME NEW n \in 0..(file.nodeCount - 1), NEW d \in Direction, Query(n, d)
      PROVE  Asked'
  BY <1>7 DEF Query, Asked
<1>8. CASE Answer
  <2>1. pc = "merge" /\ UNCHANGED <<file, query>>  BY <1>8 DEF Answer
  <2>2. MergeOf(query[1], query[2])  BY <2>1 DEF VisibleInv, MergesNode
  <2> QED  BY <2>1, <2>2 DEF MergeOf, Asked
<1> QED  BY <1>1, <1>2, <1>3, <1>4, <1>5, <1>6, <1>7, <1>8 DEF Next

LEMMA StoreKeeps ==
  ASSUME BenchInv, Store
  PROVE  BenchInv'
<1>1. /\ Next /\ UNCHANGED <<stage, graphSpec, why, rebuilt>>
      /\ stage \in {"given", "base", "overlay"}
  BY DEF Store, benchVars
<1>2. VisibleInv' /\ Asked'  BY <1>1, VisibleStep, AskedKept DEF BenchInv
<1>3. UNCHANGED <<dataset, changes>>  BY <1>1, InputKept
<1>4. Overlaid'  BY <1>1, <1>3 DEF BenchInv, Overlaid, Proper
<1> QED  BY <1>1, <1>2, <1>4 DEF BenchInv

LEMMA BenchStep ==
  ASSUME BenchInv, [AllNext]_allVars
  PROVE  BenchInv'
<1>1. CASE RefuseSpec \/ Generate
  BY <1>1, RefuseSpecKeeps, GenerateKeeps
<1>2. CASE Mutate
  <2>1. BaseOpened /\ (PlanStandard(PlansHere) \/ PlanOther(PlansHere) \/ RefusePlan(PlansHere))
    BY <1>2 DEF Mutate
  <2>2. CASE PlanStandard(PlansHere) \/ PlanOther(PlansHere)
    <3>1. PICK p \in PlansHere : Plan(p)  BY <2>2 DEF PlanStandard, PlanOther
    <3> QED  BY <2>1, <3>1, PlanKeeps
  <2>3. CASE RefusePlan(PlansHere)
    <3>1. PICK p \in PlansHere : p.result.error # "none" /\ Fail(p.result.error)
      BY <2>3 DEF RefusePlan
    <3>2. Proper(dataset.edges)  BY <2>1 DEF BaseOpened, BenchInv, VisibleInv, Stored
    <3>3. p.result.error \notin ApplyErrors
      BY <3>1, <3>2, ProperSimple, PlansApply DEF PlansHere
    <3> QED  BY <3>1, <3>3, FailKeeps
  <2> QED  BY <2>1, <2>2, <2>3
<1>3. CASE Store
  BY <1>3, StoreKeeps
<1>4. CASE UNCHANGED allVars
  <2>1. UNCHANGED vars /\ UNCHANGED <<stage, graphSpec, why, rebuilt>>
    BY <1>4 DEF allVars, benchVars
  <2>2. UNCHANGED <<dataset, changes, pc, error, file, adds, dels, addAt, delAt, source, hashed,
                    query, answer, base, removed, added, phase, at, removedAt, retained, left,
                    right, merged>>
    BY <2>1 DEF vars, outer, mergeVars
  <2>3. VisibleInv'  BY <2>1, StutterKeeps DEF BenchInv
  <2>4. Asked' /\ Overlaid'  BY <2>1, <2>2 DEF BenchInv, Asked, Overlaid, Proper
  <2>5. stage = "generate" /\ AtStart => AtStart'  BY <2>2 DEF AtStart, MergeIdle
  <2> QED  BY <2>1, <2>2, <2>3, <2>4, <2>5 DEF BenchInv
<1> QED  BY <1>1, <1>2, <1>3, <1>4 DEF AllNext

\* The benchmark's comparison never fails.
LEMMA BenchAgrees ==
  ASSUME BenchInv
  PROVE  RebuiltAgrees
<1> SUFFICES ASSUME stage = "overlay"
             PROVE  /\ error \in {"none", "node"}
                    /\ pc \in {"query", "merge", "done"} =>
                         VisibleChecksum = rebuilt.checksum /\ VisibleCount = Len(dataset.edges)
                    /\ pc = "done" => answer = PackedNeighbors(rebuilt, query[1], query[2])
  BY DEF BenchInv, RebuiltAgrees
<1> DEFINE N == dataset.nodeCount
           s == Applied(dataset, changes).edges
<1>1. /\ Proper(dataset.edges) /\ Fitting(dataset, changes) /\ VisibleInv
      /\ rebuilt = Encode(Applied(dataset, changes).nodeCount, s, Reversed(s))
  BY DEF BenchInv, Overlaid
<1>2. Acceptable /\ Len(changes.added) = Len(changes.removed)  BY <1>1, FittingAcceptable
<1>3. /\ s = Ordered(Visible, EdgeBefore) /\ Elements(s) = Visible
      /\ Direct(s, N) /\ Canonical(s) = s
  BY <1>1, RebuiltPacked
<1>4. Applied(dataset, changes).nodeCount = N  BY DEF Applied
<1> HIDE DEF s
<1>5. rebuilt = PackedAs(s, N) /\ rebuilt.checksum = DatasetChecksum(N, s)
  BY <1>1, <1>3, <1>4 DEF PackedAs, Encode
<1>6. error \in {"none", "node"}
  BY <1>1, <1>2 DEF VisibleInv, TypeOK, Stored, Decided
<1>7. ASSUME pc \in {"query", "merge", "done"}
      PROVE  VisibleChecksum = rebuilt.checksum /\ VisibleCount = Len(dataset.edges)
  <2>1. VisibleChecksum = DatasetChecksum(N, Ordered(Visible, EdgeBefore))
    BY <1>1, <1>7, HashedAll DEF ChecksumOfVisible
  <2>2. /\ file = PackedAs(dataset.edges, N) /\ Proper(changes.added) /\ Proper(changes.removed)
        /\ adds = Canonical(changes.added) /\ dels = Canonical(changes.removed)
    BY <1>1, <1>7 DEF VisibleInv, Stored, Compared, Changing, Accepted
  <2>3. Len(adds) = Len(changes.added) /\ Len(dels) = Len(changes.removed)
    BY <2>2, ProperCanonical
  <2>4. file.edgeCount = Len(dataset.edges)  BY <1>1, <2>2, PackedParts DEF Proper
  <2>5. Len(changes.added) \in Nat /\ Len(dataset.edges) \in Nat
    BY <1>1, <2>2 DEF Proper, Direct, Edges
  <2>6. VisibleCount = Len(dataset.edges)  BY <1>2, <2>3, <2>4, <2>5 DEF VisibleCount
  <2> QED  BY <1>3, <1>5, <2>1, <2>6
<1>8. ASSUME pc = "done"  PROVE answer = PackedNeighbors(rebuilt, query[1], query[2])
  <2> DEFINE n == query[1]
             d == query[2]
             l == PackedNeighbors(PackedAs(s, N), n, d)
  <2>1. d \in Direction  BY <1>1 DEF VisibleInv, TypeOK
  <2>2. n \in 0..(N - 1)
    <3>1. file.nodeCount = N  BY <1>1, <1>8, PackedParts DEF VisibleInv, Stored, Proper
    <3> QED  BY <1>8, <3>1 DEF BenchInv, Asked
  <2>3. answer = Ordered({<<Other(e, d), Kind(e)>> :
                            e \in {x \in Visible : Owner(x, d) = n}}, Less)
    BY <1>1, <1>8 DEF VisibleInv, NeighborsExact
  <2> HIDE DEF n, d
  <2>4. l \in Seq(Neighbor) /\ Sorted(l) /\ Elements(l) = Around(Visible, n, d)
    BY <1>3, <2>1, <2>2, PackedExact
  <2> HIDE DEF l
  <2>5. l = Ordered({<<Other(e, d), Kind(e)>> :
                       e \in {x \in Visible : Owner(x, d) = n}}, Less)
    BY <2>4, PromisedList
  <2> QED  BY <1>5, <2>3, <2>5 DEF n, d, l
<1> QED  BY <1>6, <1>7, <1>8

\* However a graph is generated and whatever changes of it are planned, the
\* plan applies, the overlay accepts it, and the overlay and the graph packed
\* afresh are one: the benchmark's comparison of the two never fails.
THEOREM RebuildsAgree == BenchSpec => []RebuiltAgrees
<1>1. AllInit => BenchInv  BY BenchStarts
<1>2. BenchInv /\ [AllNext]_allVars => BenchInv'  BY BenchStep
<1>3. BenchInv => RebuiltAgrees  BY BenchAgrees
<1> QED  BY <1>1, <1>2, <1>3, PTL DEF BenchSpec

\* Whoever uses the storage, the benchmark or another caller, has all of the
\* above: validation, checksums, neighbours and merges.
THEOREM CallersServed ==
  BenchSpec => [](ChangesExact /\ ChecksumOfVisible /\ NeighborsExact /\ MergeExact)
<1>1. AllInit => BenchInv  BY BenchStarts
<1>2. BenchInv /\ [AllNext]_allVars => BenchInv'  BY BenchStep
<1>3. BenchInv => ChangesExact /\ ChecksumOfVisible /\ NeighborsExact /\ MergeExact
  BY DecidedExactly, HashedAll DEF BenchInv, VisibleInv, MergeIInv
<1> QED  BY <1>1, <1>2, <1>3, PTL DEF BenchSpec
=============================================================================
