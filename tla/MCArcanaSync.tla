---------------------------- MODULE MCArcanaSync -----------------------------
(***************************************************************************)
(* Instances of ArcanaSync: a repository of two files and five states of   *)
(* it, chosen so that successive snapshots need every path of              *)
(* write_snapshot.                                                         *)
(***************************************************************************)
EXTENDS ArcanaSync, TLC

CONSTANTS p1, p2

MCPath == {"a", "b"}

Root(detail) ==
  [key |-> 0, path |-> "a", structural |-> TRUE, span |-> "none",
   detail |-> detail]

Symbol(key, path) ==
  [key |-> key, path |-> path, structural |-> FALSE, span |-> path,
   detail |-> "x"]

Rel(from, to, span) ==
  [source |-> from, target |-> to, relation |-> "calls", span |-> span,
   detail |-> "x"]

Object(nodes, edges) ==
  [nodes |-> nodes, edges |-> edges, unresolved |-> {}]

\* The root contains the symbol of each file by an edge without span.
FileObject(path, key, edges) ==
  Object({Symbol(key, path)}, edges \union {Rel(0, key, "none")})

Shared(edges) == ("go" :> Object({Root("x")}, edges))

Files(a, b) == (<<"go", "a">> :> a) @@ (<<"go", "b">> :> b)

\* "first" and "edited" differ in b's edges, "again" also in a's: overlays,
\* and overlays on overlays.  "renamed" replaces b's symbol by one of another
\* key and has as many nodes.  "linked" differs from "first" in b and in a
\* shared object that holds an edge of a.
MCLexicon ==
  [first |->
     [shared |-> Shared({}),
      files  |-> Files(FileObject("a", 1, {Rel(1, 2, "a")}),
                       FileObject("b", 2, {}))],
   edited |->
     [shared |-> Shared({}),
      files  |-> Files(FileObject("a", 1, {Rel(1, 2, "a")}),
                       FileObject("b", 2, {Rel(2, 1, "b")}))],
   again |->
     [shared |-> Shared({}),
      files  |-> Files(FileObject("a", 1, {}),
                       FileObject("b", 2, {Rel(2, 2, "b")}))],
   renamed |->
     [shared |-> Shared({}),
      files  |-> Files(FileObject("a", 1, {Rel(1, 3, "a")}),
                       FileObject("b", 3, {}))],
   linked |->
     [shared |-> Shared({Rel(1, 1, "a")}),
      files  |-> Files(FileObject("a", 1, {Rel(1, 2, "a")}),
                       FileObject("b", 2, {Rel(2, 1, "b")}))]]

\* The same, but "edited" adds to b's object an edge without span whose
\* source is a's symbol.
MCSpanlessLexicon ==
  [MCLexicon EXCEPT !.edited.files =
     Files(FileObject("a", 1, {Rel(1, 2, "a")}),
           FileObject("b", 2, {Rel(1, 0, "none")}))]

MCId == DOMAIN MCLexicon

TwoIds == {"first", "edited"}

MCDetail == {"x"}

\* The instances follow the ownership convention, and the spanless one does
\* not.
ASSUME AlignmentAssumption ==
  /\ \A id \in MCId : Aligned(MCLexicon[id]) /\ Partitionable(FactsOf(MCLexicon[id]))
  /\ ~ Aligned(MCSpanlessLexicon.edited)

PidSymmetry == Permutations(Proc)
=============================================================================
