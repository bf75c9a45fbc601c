------------------------------ MODULE FactFiles ------------------------------
(***************************************************************************)
(* The files that carry repository facts: the tab-separated fact file      *)
(* (src/repository/fact_file.rs), the catalogue beside it                  *)
(* (catalogue_file.rs) and Lexicon's JSON lines (lexicon_fact_file.rs).    *)
(*                                                                         *)
(* The detail of a node is its name, that of an unresolved reference its   *)
(* candidate name, which it may lack; of the other optional fields, a      *)
(* content id and an identity are hexadecimal and cannot be "-".  Sorting  *)
(* makes the lines of nodes and edges a function of the facts, and their   *)
(* readers sort again, so they are sets here; the lines of references are  *)
(* a list.  Positions of a span are one field for four.                    *)
(***************************************************************************)
EXTENDS RepositoryFacts, Texts

CONSTANTS
  NoText,      \* a reference without candidate name
  ExternalId,  \* Lexicon's identities of nodes
  Compact      \* [ExternalId -> NodeKey], which may collide

ASSUME NoTextAssumption == NoText \notin Text /\ NoPath \notin Text
ASSUME CompactAssumption == Compact \in [ExternalId -> NodeKey]

(* What the readers are given: the fields of the lines of a fact file, and *)
(* Lexicon's records.                                                      *)
SpanFieldPair == Text \X Text

FactFile ==
  [version: Nat,
   nodes: SUBSET [key: NodeKey, structural: BOOLEAN, path: Text, name: Text,
                  span: SpanFieldPair],
   edges: SUBSET [source: NodeKey, target: NodeKey, relation: Relation, detail: Detail,
                  span: SpanFieldPair],
   unresolved: Seq([source: NodeKey, candidate: Text, span: SpanFieldPair])]

LexiconSpans == Text \cup {NoPath}

LexiconRecord ==
  [record: {"node"}, id: ExternalId, path: Text, structural: BOOLEAN, span: LexiconSpans,
   detail: Text]
    \cup [record: {"edge"}, source: ExternalId, target: ExternalId, relation: Relation,
          span: LexiconSpans, detail: Detail]
    \cup [record: {"unresolved"}, source: ExternalId, span: LexiconSpans,
          detail: Text \cup {NoText}]

(* None is less than Some.                                                 *)
OptionBefore(a, b, none) == IF a = none THEN b # none ELSE b # none /\ TextBefore(a, b)

(* The derived order of references, as far as they differ here.            *)
ReferenceBefore(u, v) ==
  \/ u.source < v.source
  \/ u.source = v.source /\ OptionBefore(u.detail, v.detail, NoText)
  \/ /\ u.source = v.source /\ u.detail = v.detail
     /\ OptionBefore(u.span, v.span, NoPath)

-----------------------------------------------------------------------------
(* Writing.                                                                *)
Absence == <<Dash>>
Position == <<49>>

OptionalField(value, none) == IF value = none THEN Absence ELSE Escaped(value)

SpanFields(span) ==
  IF span = NoPath THEN <<Absence, Absence>> ELSE <<Escaped(span), Position>>

NodeLine(n) ==
  [key |-> n.key, structural |-> n.structural, path |-> Escaped(n.path),
   name |-> Escaped(n.detail), span |-> SpanFields(n.span)]

EdgeLine(e) ==
  [source |-> e.source, target |-> e.target, relation |-> e.relation,
   detail |-> e.detail, span |-> SpanFields(e.span)]

ReferenceLine(u) ==
  [source |-> u.source, candidate |-> OptionalField(u.detail, NoText),
   span |-> SpanFields(u.span)]

FACT_SCHEMA_VERSION == 3

Encoded(f) ==
  LET references == Ordered(f.unresolved, ReferenceBefore)
  IN  [version |-> FACT_SCHEMA_VERSION,
       nodes |-> {NodeLine(n) : n \in f.nodes},
       edges |-> {EdgeLine(e) : e \in f.edges},
       unresolved |-> [i \in DOMAIN references |-> ReferenceLine(references[i])]]

-----------------------------------------------------------------------------
(* Reading.  A field that says "-" is absent, whoever wrote it.            *)
ParsedOption(field, none) == IF field = Absence THEN none ELSE Unescaped[field]

ParsedPath(field) ==
  LET path == Unescaped[field] IN IF path = Malformed THEN path ELSE Normalized[path]

(* All fields of a span are absent or none is.                             *)
ParsedSpan(fields) ==
  IF Elements(fields) = {Absence} THEN NoPath
  ELSE IF Absence \in Elements(fields) THEN Malformed ELSE ParsedPath(fields[1])

ParsedNode(l) ==
  [key |-> l.key, path |-> ParsedPath(l.path), structural |-> l.structural,
   span |-> ParsedSpan(l.span), detail |-> Unescaped[l.name]]

ParsedEdge(l) ==
  [source |-> l.source, target |-> l.target, relation |-> l.relation,
   span |-> ParsedSpan(l.span), detail |-> l.detail]

ParsedReference(l) ==
  [source |-> l.source, span |-> ParsedSpan(l.span),
   detail |-> ParsedOption(l.candidate, NoText)]

(* The references in the order of their lines.                             *)
ParsedReferences(lines) == [i \in DOMAIN lines |-> ParsedReference(lines[i])]

FactsOfLines(file) ==
  [nodes |-> {ParsedNode(l) : l \in file.nodes},
   edges |-> {ParsedEdge(l) : l \in file.edges},
   unresolved |-> Elements(ParsedReferences(file.unresolved))]

NodeLineFails(l) ==
  Malformed \in {ParsedPath(l.path), ParsedSpan(l.span), Unescaped[l.name]}

ReferenceLineFails(l) ==
  Malformed \in {ParsedSpan(l.span), ParsedOption(l.candidate, NoText)}

(* Version 1 knows no references.                                          *)
Parsed(file) ==
  IF \/ file.version \notin 1..FACT_SCHEMA_VERSION
     \/ file.version = 1 /\ file.unresolved # <<>>
     \/ \E l \in file.nodes : NodeLineFails(l)
     \/ \E l \in file.edges : ParsedSpan(l.span) = Malformed
     \/ \E l \in Elements(file.unresolved) : ReferenceLineFails(l)
    THEN Malformed ELSE FactsOfLines(file)

-----------------------------------------------------------------------------
(* The catalogue: every node under its dense id.                           *)
Catalogue(f) ==
  LET nodes == Ordered(f.nodes, LAMBDA m, n : m.key < n.key)
  IN  [i \in DOMAIN nodes |-> [id |-> i - 1, fact |-> nodes[i]]]

(* RepositoryCatalogue::new: dense ids, keys that differ from the one      *)
(* before, normal paths.                                                   *)
ValidCatalogue(entries) ==
  /\ \A i \in DOMAIN entries :
       /\ entries[i].id = i - 1
       /\ i > 1 => entries[i].fact.key # entries[i - 1].fact.key
       /\ Normalized[entries[i].fact.path] = entries[i].fact.path
       /\ entries[i].fact.span # NoPath =>
            Normalized[entries[i].fact.span] = entries[i].fact.span

EncodedCatalogue(entries) ==
  [i \in DOMAIN entries |-> [id |-> entries[i].id, node |-> NodeLine(entries[i].fact)]]

(* The reader refuses a path or span that is not in normal form already.   *)
EntryLineFails(l) ==
  \/ NodeLineFails(l)
  \/ ParsedPath(l.path) # Unescaped[l.path]
  \/ ParsedSpan(l.span) \notin {NoPath, Unescaped[l.span[1]]}

ParsedCatalogue(lines) ==
  LET entries == [i \in DOMAIN lines |->
                    [id |-> lines[i].id, fact |-> ParsedNode(lines[i].node)]]
  IN  IF \/ \E i \in DOMAIN lines : EntryLineFails(lines[i].node)
         \/ \E i \in 2..Len(lines) : lines[i].id <= lines[i - 1].id
         \/ ~ ValidCatalogue(entries)
        THEN Malformed ELSE entries

-----------------------------------------------------------------------------
(* Lexicon's JSON lines, each a record; relations name nodes by their      *)
(* identities.                                                             *)
Phase(r) == CASE r.record = "node" -> 0 [] r.record = "edge" -> 1 [] OTHER -> 2

(* Nodes come first, then edges, then references; identities are unique    *)
(* and stay so as keys; whoever is named has a node.                       *)
LexiconAccepts(records) ==
  LET named == {r.id : r \in {x \in Elements(records) : x.record = "node"}}
  IN  /\ \A i, j \in DOMAIN records : i < j =>
           /\ Phase(records[i]) <= Phase(records[j])
           /\ Phase(records[i]) = 0 /\ Phase(records[j]) = 0 =>
                Compact[records[i].id] # Compact[records[j].id]
      /\ \A i \in DOMAIN records :
           LET r == records[i]
           IN  /\ r.record = "node" => Normalized[r.path] # Malformed
               /\ r.record = "edge" => r.target \in named
               /\ r.record # "node" => r.source \in named
               /\ r.span # NoPath => Normalized[r.span] # Malformed

LexiconSpan(span) == IF span = NoPath THEN NoPath ELSE Normalized[span]

ParsedLexicon(records) ==
  LET of(kind) == {r \in Elements(records) : r.record = kind}
  IN  IF ~ LexiconAccepts(records) THEN Malformed
      ELSE [nodes |-> {[key |-> Compact[r.id], path |-> Normalized[r.path],
                        structural |-> r.structural, span |-> LexiconSpan(r.span),
                        detail |-> r.detail] : r \in of("node")},
            edges |-> {[source |-> Compact[r.source], target |-> Compact[r.target],
                        relation |-> r.relation, span |-> LexiconSpan(r.span),
                        detail |-> r.detail] : r \in of("edge")},
            unresolved |-> {[source |-> Compact[r.source], span |-> LexiconSpan(r.span),
                             detail |-> r.detail] : r \in of("unresolved")}]
=============================================================================
