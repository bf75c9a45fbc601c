--------------------------- MODULE SnapshotStore ---------------------------
(***************************************************************************)
(* What a directory of snapshots promises to its readers: a manifest name  *)
(* is published at most once, with one graph, for ever, and whoever opens  *)
(* it holds that graph.  There are no files, temporaries or faults here.   *)
(***************************************************************************)
CONSTANTS Proc, Name, Graph, None, Existing

VARIABLES
  published,  \* [Name -> the graph published under a manifest's name, or None]
  held        \* [Proc -> <<name, graph>> a reader holds, or None]

vars == <<published, held>>

Init == published = Existing /\ held = [p \in Proc |-> None]

Publish(n, g) ==
  /\ published[n] = None
  /\ published' = [published EXCEPT ![n] = g]
  /\ UNCHANGED held

Open(p, n) ==
  /\ held[p] = None /\ published[n] # None
  /\ held' = [held EXCEPT ![p] = <<n, published[n]>>]
  /\ UNCHANGED published

Close(p) ==
  /\ held[p] # None
  /\ held' = [held EXCEPT ![p] = None]
  /\ UNCHANGED published

Next ==
  \/ \E n \in Name, g \in Graph : Publish(n, g)
  \/ \E p \in Proc, n \in Name : Open(p, n)
  \/ \E p \in Proc : Close(p)

Spec == Init /\ [][Next]_vars
=============================================================================
