-------------------------- MODULE MCSnapshotFiles --------------------------
(***************************************************************************)
(* Instances of SnapshotFiles for TLC: a directory with a base, an overlay *)
(* and the manifest of both, and calls on it.                              *)
(***************************************************************************)
EXTENDS SnapshotFiles

CONSTANTS p1, p2

MCGraph == {"old", "new"}

MCExisting ==
  [n \in Name |->
     CASE n = "m0" -> Manifest("b0", "o0", "old", "new")
       [] n = "b0" -> Packed("old")
       [] n = "o0" -> Overlay("old", "new")
       [] OTHER -> Absent]

Compact(s, m, b) ==
  [op |-> "compact", source |-> s, manifest |-> m, base |-> b, overlay |-> NoName,
   graph |-> Absent]
Delta(b, o, g, m) ==
  [op |-> "delta", source |-> NoName, manifest |-> m, base |-> b, overlay |-> o,
   graph |-> g]
Create(b, g, m) ==
  [op |-> "create", source |-> NoName, manifest |-> m, base |-> b, overlay |-> NoName,
   graph |-> g]
OpenCall(s) ==
  [op |-> "open", source |-> s, manifest |-> NoName, base |-> NoName,
   overlay |-> NoName, graph |-> Absent]

(* Concurrent callers with different outputs.  One writes an overlay on    *)
(* the base the other is compacting into; each opens what the other        *)
(* publishes; the second also compacts its overlay away, and asks twice    *)
(* for the same overlay name, on different bases.                          *)
OwnOutputs ==
  [p \in Proc |-> IF p = p1
     THEN {Compact("m0", "m1", "b1"), OpenCall("m2"), OpenCall("m3")}
     ELSE {Delta("b1", "o2", "old", "m2"), Delta("b0", "o2", "new", "m2"), 
           Compact("m2", "m3", "b3"), OpenCall("m1")}]

(* Concurrent callers that ask for the same outputs, among them names that *)
(* are taken already.                                                      *)
SharedOutputs ==
  [p \in Proc |->
     {Compact("m0", "m1", "b1"), Create("b1", "old", "m1"), Create("b0", "new", "m2"),
      Delta("b0", "o0", "old", "m2"), Compact("m0", "m2", "b0"), OpenCall("m1"),
      OpenCall("m0")}]

(* The same compaction, started by both.                                   *)
SameCompaction == [p \in Proc |-> {Compact("m0", "m1", "b1"), OpenCall("m1")}]

(* The hypotheses of the theorems about own outputs hold for the instance  *)
(* that checks them.                                                       *)
ASSUME OwnOutputsAssumption == Call = OwnOutputs => OwnNames /\ ExistingOpens
=============================================================================
