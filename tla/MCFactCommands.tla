--------------------------- MODULE MCFactCommands ---------------------------
(***************************************************************************)
(* An instance of FactCommands for TLC: two processes, two directories and *)
(* facts of two files.                                                     *)
(***************************************************************************)
EXTENDS FactCommands

CONSTANTS p1, p2, d1, d2

FileA == <<97>>
FileB == <<98>>
Quote == <<39>>
BackslashT == <<Backslash, 116>>

MCPath == {FileA, FileB}
MCDetail == {FileA, FileB, Quote, BackslashT, Absence, NoText, Position}
MCCompact == [id \in ExternalId |-> CASE id = "sha256:a" -> 1 [] OTHER -> 2]

Symbol(id, path) ==
  [record |-> "node", id |-> id, path |-> <<Dot, Slash>> \o path, structural |-> FALSE,
   span |-> path, detail |-> path]
LexiconEdge(from, to, span) ==
  [record |-> "edge", source |-> from, target |-> to, relation |-> "calls",
   span |-> span, detail |-> Position]
Candidate(from, name) ==
  [record |-> "unresolved", source |-> from, span |-> NoPath, detail |-> name]

Both == <<Symbol("sha256:a", FileA), Symbol("sha256:b", FileB)>>

Lexicon(records) == [format |-> "lexicon", records |-> records]

(* An edge of a, a candidate that has to be escaped, and one named "-".    *)
Calling == Lexicon(Both \o <<LexiconEdge("sha256:a", "sha256:b", FileA),
                            Candidate("sha256:a", BackslashT), Candidate("sha256:b", Absence)>>)

(* The same nodes without the edge.                                        *)
Quiet == Lexicon(Both \o <<Candidate("sha256:b", Quote)>>)

(* Candidates that change places when "-" is lost.                         *)
Displaced == Lexicon(Both \o <<Candidate("sha256:a", Quote), Candidate("sha256:a", Absence)>>)

(* Two identities with one key; an edge before its nodes.                  *)
Colliding == Lexicon(Append(Both, Symbol("sha256:c", FileB)))
Early == Lexicon(<<LexiconEdge("sha256:a", "sha256:b", FileA)>> \o Both)

(* A fact file with a span in a file named "-".                            *)
DashFile ==
  [format |-> "tsv",
   file |-> [version |-> 2, nodes |-> {}, edges |-> {},
             unresolved |-> <<[source |-> 1, candidate |-> FileA,
                               span |-> <<Absence, Position>>]>>]]

(* The facts of Quiet as a fact file, with an edge of b.                   *)
Tsv ==
  [format |-> "tsv",
   file |-> [Encoded(ParsedLexicon(Quiet.records)) EXCEPT
               !.edges = {[source |-> 2, target |-> 1, relation |-> "calls",
                           detail |-> Position, span |-> SpanFields(FileB)]}]]

Import(d, input) ==
  [op |-> "import", input |-> input, adapter |-> TRUE, output |-> d, source |-> d,
   changed |-> {}]
Update(from, d, input, changed) ==
  [op |-> "update", input |-> input, adapter |-> TRUE, output |-> d, source |-> from,
   changed |-> changed]
Open(d) ==
  [op |-> "open", input |-> Quiet, adapter |-> TRUE, output |-> d, source |-> d, changed |-> {}]

(* One process imports, the other updates what it imported and opens what  *)
(* either made; the directories may be removed and filled with other facts *)
(* meanwhile, or with the same facts as a base without an overlay, and     *)
(* some facts cannot be published.                                         *)
MCCall ==
  [p \in Proc |->
     IF p = p1
       THEN {Import(d1, i) : i \in {Calling, Quiet}}
              \cup {[Import(d2, Tsv) EXCEPT !.adapter = FALSE]}
              \cup {Import(d2, i) : i \in {Displaced, Colliding, Early, DashFile}}
       ELSE {Update(d1, d2, Tsv, MCPath), Open(d1), Open(d2)}]
=============================================================================
