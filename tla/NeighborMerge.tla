---------------------------- MODULE NeighborMerge ----------------------------
(***************************************************************************)
(* merge_neighbors (src/snapshot/overlay_validation.rs): the neighbours of *)
(* a node in a packed graph, without those that an overlay removes and     *)
(* with those that it adds.  One step is one turn of one of the two loops. *)
(***************************************************************************)
EXTENDS Orders

(* A neighbour is a node and a kind of edge, compared in this order.       *)
Neighbor == Nat \X Nat

Less(a, b) == a[1] < b[1] \/ (a[1] = b[1] /\ a[2] < b[2])

Sorted(s) == \A i, j \in DOMAIN s : i < j => Less(s[i], s[j])

VARIABLES
  base, removed, added,   \* the arguments
  phase,                  \* "idle", "drop", "merge", "done"
  at, removedAt,          \* where the first loop is in base and in removed
  retained,
  left, right,            \* where the second loop is in retained and in added
  merged

mergeVars == <<base, removed, added, phase, at, removedAt, retained, left, right, merged>>

MergeIdle ==
  /\ base = <<>> /\ removed = <<>> /\ added = <<>> /\ phase = "idle"
  /\ at = 1 /\ removedAt = 1 /\ retained = <<>>
  /\ left = 1 /\ right = 1 /\ merged = <<>>

(* The call.                                                               *)
StartMerge(b, r, a) ==
  /\ phase \in {"idle", "done"}
  /\ base' = b /\ removed' = r /\ added' = a
  /\ phase' = "drop"
  /\ at' = 1 /\ removedAt' = 1 /\ retained' = <<>>
  /\ left' = 1 /\ right' = 1 /\ merged' = <<>>

(* The removals below the next base neighbour are passed over, ...         *)
PassedTo(k) ==
  /\ \A i \in removedAt..(k - 1) : Less(removed[i], base[at])
  /\ k <= Len(removed) => ~Less(removed[k], base[at])

(* ... which is dropped if it is the removal reached, ...                  *)
Drop ==
  /\ phase = "drop" /\ at <= Len(base)
  /\ \E k \in removedAt..Len(removed) :
       /\ PassedTo(k) /\ removed[k] = base[at]
       /\ removedAt' = k + 1
  /\ at' = at + 1
  /\ UNCHANGED <<base, removed, added, phase, retained, left, right, merged>>

(* (altered) a neighbour between two removals is dropped too               *)
RetainAfterLast ==
  /\ phase = "drop" /\ at <= Len(base)
  /\ \E k \in removedAt..(Len(removed) + 1) :
       /\ PassedTo(k) /\ (k <= Len(removed) => removed[k] # base[at])
       /\ removedAt' = k
       /\ retained' = IF k <= Len(removed) /\ k > 1
                        THEN retained ELSE Append(retained, base[at])
  /\ at' = at + 1
  /\ UNCHANGED <<base, removed, added, phase, left, right, merged>>

(* ... and retained otherwise.                                             *)
Retain ==
  /\ phase = "drop" /\ at <= Len(base)
  /\ \E k \in removedAt..(Len(removed) + 1) :
       /\ PassedTo(k) /\ (k <= Len(removed) => removed[k] # base[at])
       /\ removedAt' = k
  /\ retained' = Append(retained, base[at])
  /\ at' = at + 1
  /\ UNCHANGED <<base, removed, added, phase, left, right, merged>>

Retained ==
  /\ phase = "drop" /\ at > Len(base)
  /\ phase' = "merge"
  /\ UNCHANGED <<base, removed, added, at, removedAt, retained, left, right, merged>>

TakeBase ==
  /\ phase = "merge" /\ left <= Len(retained) /\ right <= Len(added)
  /\ Less(retained[left], added[right])
  /\ merged' = Append(merged, retained[left])
  /\ left' = left + 1
  /\ UNCHANGED <<base, removed, added, phase, at, removedAt, retained, right>>

TakeAdded ==
  /\ phase = "merge" /\ left <= Len(retained) /\ right <= Len(added)
  /\ ~Less(retained[left], added[right])
  /\ merged' = Append(merged, added[right])
  /\ right' = right + 1
  /\ UNCHANGED <<base, removed, added, phase, at, removedAt, retained, left>>

(* One list is used up, and the rest of the other follows.                 *)
TakeRest ==
  /\ phase = "merge" /\ (left > Len(retained) \/ right > Len(added))
  /\ merged' = merged \o SubSeq(retained, left, Len(retained))
                      \o SubSeq(added, right, Len(added))
  /\ phase' = "done"
  /\ UNCHANGED <<base, removed, added, at, removedAt, retained, left, right>>

MergeStep == Drop \/ Retain \/ Retained \/ TakeBase \/ TakeAdded \/ TakeRest

-----------------------------------------------------------------------------
(* A validated overlay calls it with sorted lists, and adds nothing that   *)
(* the base has.                                                           *)
Legal(b, r, a) ==
  /\ b \in Seq(Neighbor) /\ r \in Seq(Neighbor) /\ a \in Seq(Neighbor)
  /\ Sorted(b) /\ Sorted(r) /\ Sorted(a)
  /\ Elements(b) \cap Elements(a) = {}

(* Calls of it, one after the other.                                       *)
MergeNext ==
  \/ \E b, r, a \in Seq(Neighbor) : Legal(b, r, a) /\ StartMerge(b, r, a)
  \/ MergeStep

MergeSpec == MergeIdle /\ [][MergeNext]_mergeVars

(* The result is sorted, and holds what it should: no neighbour is lost,   *)
(* resurrected or listed twice.                                            *)
MergeExact ==
  phase = "done" =>
    /\ Sorted(merged)
    /\ Elements(merged) = (Elements(base) \ Elements(removed)) \cup Elements(added)
=============================================================================
