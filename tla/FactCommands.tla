---------------------------- MODULE FactCommands ----------------------------
(***************************************************************************)
(* import-facts, update-facts and readers of the directories they publish  *)
(* (src/cli_commands.rs, src/cli_update.rs,                                *)
(* src/repository/repository_snapshot*.rs).                                *)
(*                                                                         *)
(* A command reserves its output directory by creating it and writes one   *)
(* file after another, the manifest last; unlike sync it writes in place.  *)
(* A reader reads the manifest, the files it binds, and then the graph.  A *)
(* checksum stands for the content it was taken of.  How a graph or graph  *)
(* manifest file is renamed into place is SnapshotFiles' subject.          *)
(***************************************************************************)
EXTENDS FactFiles

CONSTANTS
  Proc,         \* processes
  Dir,          \* directories they may name as output or as source
  Call,         \* [Proc -> the commands a process may be given]
  Absent,       \* no such file, no such directory
  Torn,         \* content of a file that was not written to its end
  MaxCalls,     \* bound on the commands a process executes
  MaxFaults,    \* bound on I/O errors and crashes
  MaxDiscards   \* bound on directories removed by hand

ASSUME CallAssumption ==
  \A p \in Proc : \A c \in Call[p] :
    /\ c.op \in {"import", "update", "open"} /\ {c.output, c.source} \subseteq Dir
    /\ c # Absent
ASSUME InputAssumption ==
  \A p \in Proc : \A c \in Call[p] :
    IF c.input.format = "lexicon" THEN c.input.records \in Seq(LexiconRecord)
    ELSE c.input.file \in FactFile
ASSUME BoundsAssumption == {MaxCalls, MaxFaults, MaxDiscards} \subseteq Nat

VARIABLES
  dirs,      \* [Dir -> [File -> content or Absent], or Absent]
  pc,        \* [Proc -> Stage]
  call,      \* [Proc -> the command being executed, Absent without one]
  got,       \* [Proc -> [file -> content] as far as read from the source]
  at,        \* [Proc -> place in OpenOrder of the next file to read]
  plan,      \* [Proc -> facts and overlay changes to publish, Absent before]
  meant,     \* [Dir -> command and facts its files are written for]
  reported,  \* directories whose command reported success
  made,      \* all facts a command ever created a directory for
  shown,     \* history: what each directory shows, by Shown
  calls, faults, discards

vars ==
  <<dirs, pc, call, got, at, plan, meant, reported, made, shown, calls, faults, discards>>

File == {"graph.arcana", "overlay.arcana", "graph.manifest", "catalogue.tsv",
         "unresolved.tsv", "facts.tsv", "repository.manifest"}

Writing == {"graph.arcana", "overlay.arcana", "graph.manifest", "catalogue.tsv",
            "unresolved.tsv", "facts.tsv", "publish", "manifest", "content", "sync",
            "cleanup"}

Stage == Writing \cup {"idle", "check", "read", "compile", "create", "opened"}

-----------------------------------------------------------------------------
(* Contents.                                                               *)
FactsIn(input) ==
  IF input.format = "lexicon" THEN ParsedLexicon(input.records) ELSE Parsed(input.file)

OnlyUnresolved(f) == [nodes |-> {}, edges |-> {}, unresolved |-> f.unresolved]

Patched(base, changes) ==
  [base EXCEPT !.edges = (@ \ changes.removed) \cup changes.added]

(* The graph that a directory shows: the base, with the overlay if the     *)
(* graph manifest names one; Malformed if they do not belong together.     *)
GraphOf(manifest, base, overlay) ==
  IF manifest \in {Absent, Torn} \/ base # manifest.base THEN Malformed
  ELSE IF ~ manifest.overlay
    THEN IF manifest.visible = base THEN base ELSE Malformed
  ELSE IF overlay \in {Absent, Torn} \/ overlay.base # base \/ overlay.visible # manifest.visible
    THEN Malformed ELSE overlay.visible

(* (altered) the graph need not be the one the facts compile to            *)
AgreesButGraph(graph, catalogue, facts, unresolved, references) ==
  /\ Malformed \notin {graph, catalogue, facts, unresolved}
  /\ unresolved.nodes = {} /\ unresolved.edges = {}
  /\ Compiles(facts)
  /\ catalogue = Catalogue(facts)
  /\ references = Ordered(facts.unresolved, ReferenceBefore)

(* validate_components, for parsed files; the references in file order.    *)
Agrees(graph, catalogue, facts, unresolved, references) ==
  /\ Malformed \notin {graph, catalogue, facts, unresolved}
  /\ unresolved.nodes = {} /\ unresolved.edges = {}
  /\ Compiles(facts)
  /\ graph = Dataset(facts)
  /\ catalogue = Catalogue(facts)
  /\ references = Ordered(facts.unresolved, ReferenceBefore)

Valid(files) ==
  /\ files # Absent
  /\ \A f \in {"catalogue.tsv", "unresolved.tsv", "facts.tsv"} : files[f] \notin {Absent, Torn}
  /\ \E facts \in {Parsed(files["facts.tsv"])},
        unresolved \in {Parsed(files["unresolved.tsv"])},
        catalogue \in {ParsedCatalogue(files["catalogue.tsv"])} :
       Agrees(GraphOf(files["graph.manifest"], files["graph.arcana"], files["overlay.arcana"]),
              catalogue, facts, unresolved,
              ParsedReferences(files["unresolved.tsv"].unresolved))

Bound == {"graph.manifest", "catalogue.tsv", "unresolved.tsv", "facts.tsv"}

(* RepositorySnapshot::open, were nothing to change meanwhile.             *)
Opens(files) ==
  /\ files # Absent
  /\ files["repository.manifest"] \notin {Absent, Torn}
  /\ \A f \in Bound : files[f] = files["repository.manifest"][f]
  /\ Valid(files)

(* What a directory shows to whoever opens it.                             *)
Shown ==
  [d \in Dir |->
     IF Opens(dirs[d])
       THEN [state |-> "whole", snapshot |-> Parsed(dirs[d]["facts.tsv"]),
             reported |-> d \in reported]
       ELSE [state |-> IF dirs[d] = Absent THEN "none" ELSE "unfinished",
             snapshot |-> Absent, reported |-> FALSE]]

-----------------------------------------------------------------------------
Init ==
  /\ dirs = [d \in Dir |-> Absent]
  /\ pc = [p \in Proc |-> "idle"]
  /\ call = [p \in Proc |-> Absent]
  /\ got = [p \in Proc |-> Absent]
  /\ at = [p \in Proc |-> 1]
  /\ plan = [p \in Proc |-> Absent]
  /\ meant = [d \in Dir |-> Absent]
  /\ reported = {} /\ made = {} /\ calls = [p \in Proc |-> 0] /\ faults = 0 /\ discards = 0
  /\ shown = Shown

Goto(p, stage) == pc' = [pc EXCEPT ![p] = stage]

(* (altered) what the command planned is kept for the next                 *)
EndKeepingPlan(p) ==
  /\ Goto(p, "idle")
  /\ call' = [call EXCEPT ![p] = Absent]
  /\ got' = [got EXCEPT ![p] = Absent]
  /\ at' = [at EXCEPT ![p] = 1]
  /\ UNCHANGED plan

(* The command is over, in success or not.                                 *)
End(p) ==
  /\ Goto(p, "idle")
  /\ call' = [call EXCEPT ![p] = Absent]
  /\ got' = [got EXCEPT ![p] = Absent]
  /\ at' = [at EXCEPT ![p] = 1]
  /\ plan' = [plan EXCEPT ![p] = Absent]

NoFiles == [f \in File |-> Absent]

Begin(p) ==
  /\ pc[p] = "idle" /\ calls[p] < MaxCalls
  /\ calls' = [calls EXCEPT ![p] = @ + 1]
  /\ \E c \in Call[p] :
       /\ call' = [call EXCEPT ![p] = c]
       /\ Goto(p, IF c.op = "open" THEN "read" ELSE "check")
  /\ got' = [got EXCEPT ![p] = NoFiles]
  /\ UNCHANGED <<dirs, at, plan, meant, reported, made, shown, faults, discards>>

Output(p) == call[p].output
Source(p) == dirs[call[p].source]

CheckOutput(p) ==
  /\ pc[p] = "check" /\ dirs[Output(p)] = Absent
  /\ Goto(p, IF call[p].op = "import" THEN "compile" ELSE "read")
  /\ UNCHANGED <<dirs, call, got, at, plan, meant, reported, made, shown, calls, faults, discards>>

OutputExists(p) ==
  /\ pc[p] \in {"check", "create"} /\ dirs[Output(p)] # Absent
  /\ End(p)
  /\ UNCHANGED <<dirs, meant, reported, made, shown, calls, faults, discards>>

-----------------------------------------------------------------------------
(* RepositorySnapshot::open: the manifest, the files it binds with their   *)
(* checksums, and the graph by the graph manifest, read once more.         *)
OpenOrder == <<"repository.manifest", "graph.manifest", "catalogue.tsv", "unresolved.tsv",
               "facts.tsv", "graph.manifest", "graph.arcana", "overlay.arcana">>

(* What one read must find.  A bound file has its checksum compared, but   *)
(* the second reading of graph.manifest has not: it only has to parse and  *)
(* to fit the graph it names, and the graph that this makes visible is     *)
(* compared with the one that repository.manifest identifies.              *)
Parses(content) == content \notin {Absent, Torn}

Fits(p, content) ==
  LET f == OpenOrder[at[p]]
      bound == got[p]["repository.manifest"]
  IN  CASE at[p] \in {1, 6} -> Parses(content)
        [] at[p] \in 2..5 -> content # Absent /\ content = bound[f]
        [] at[p] = 7 -> content # Absent /\ content = got[p]["graph.manifest"].base
        [] OTHER -> /\ got[p]["graph.manifest"].visible = bound["graph.manifest"].visible
                    /\ Valid([got[p] EXCEPT ![f] = content])

ReadFile(p) ==
  /\ pc[p] = "read" /\ Source(p) # Absent
  /\ LET f == OpenOrder[at[p]]
     IN  /\ Fits(p, Source(p)[f])
         /\ got' = [got EXCEPT ![p][f] = Source(p)[f]]
  /\ IF at[p] < Len(OpenOrder)
       THEN at' = [at EXCEPT ![p] = @ + 1] /\ UNCHANGED pc
       ELSE /\ Goto(p, IF call[p].op = "open" THEN "opened" ELSE "compile")
            /\ UNCHANGED at
  /\ UNCHANGED <<dirs, call, plan, meant, reported, made, shown, calls, faults, discards>>

ReadFails(p) ==
  /\ pc[p] = "read"
  /\ Source(p) # Absent => ~ Fits(p, Source(p)[OpenOrder[at[p]]])
  /\ End(p)
  /\ UNCHANGED <<dirs, meant, reported, made, shown, calls, faults, discards>>

Close(p) ==
  /\ pc[p] = "opened"
  /\ End(p)
  /\ UNCHANGED <<dirs, meant, reported, made, shown, calls, faults, discards>>

-----------------------------------------------------------------------------
(* The facts a command is to publish: those of its input, or the source's  *)
(* with the changed files replaced.                                        *)
CurrentFacts(p) == IF call[p].op = "import" THEN Absent ELSE Parsed(got[p]["facts.tsv"])

Accepted(p, read, current) ==
  /\ read # Malformed
  /\ IF call[p].op = "import"
       THEN Compiles(read)
       ELSE PlanAccepted(current, read, call[p].changed, got[p]["graph.arcana"])

Planned(p, read, current) ==
  IF call[p].op = "import"
    THEN [facts |-> read, changes |-> [added |-> {}, removed |-> {}]]
    ELSE LET merged == ReplaceChangedFiles(current, read, call[p].changed)
         IN  [facts |-> merged,
              changes |-> OverlayChanges(got[p]["graph.arcana"].edges, Dataset(merged).edges)]

Compile(p) ==
  /\ pc[p] = "compile"
  /\ \E read \in {FactsIn(call[p].input)}, current \in {CurrentFacts(p)} :
       IF Accepted(p, read, current)
         THEN /\ plan' = [plan EXCEPT ![p] = Planned(p, read, current)]
              /\ Goto(p, "create")
              /\ UNCHANGED <<call, got, at>>
         ELSE End(p)
  /\ UNCHANGED <<dirs, meant, reported, made, shown, calls, faults, discards>>

(* (altered) create_dir_all, which accepts what exists                     *)
CreateOrTake(p) ==
  /\ pc[p] = "create"
  /\ dirs' = [dirs EXCEPT ![Output(p)] = IF @ = Absent THEN NoFiles ELSE @]
  /\ meant' = [meant EXCEPT ![Output(p)] = [op |-> call[p].op, facts |-> plan[p].facts]]
  /\ made' = made \cup {plan[p].facts}
  /\ Goto(p, "graph.arcana")
  /\ UNCHANGED <<call, got, at, plan, reported, calls, faults, discards>>

Create(p) ==
  /\ pc[p] = "create" /\ dirs[Output(p)] = Absent
  /\ dirs' = [dirs EXCEPT ![Output(p)] = NoFiles]
  /\ meant' = [meant EXCEPT ![Output(p)] = [op |-> call[p].op, facts |-> plan[p].facts]]
  /\ made' = made \cup {plan[p].facts}
  /\ Goto(p, "graph.arcana")
  /\ UNCHANGED <<call, got, at, plan, reported, calls, faults, discards>>

-----------------------------------------------------------------------------
(* Writing.  The stage names the file to be written next.                  *)
Written(p) == dirs[Output(p)]

NoOverlay(p) == plan[p].changes = [added |-> {}, removed |-> {}]

(* update-facts copies the base graph of its source as it finds it now.    *)
Produced(p, f) ==
  CASE f = "graph.arcana" ->
         IF call[p].op = "import" THEN Dataset(plan[p].facts) ELSE Source(p)[f]
    [] f = "overlay.arcana" ->
         IF NoOverlay(p) THEN Absent
         ELSE LET base == Written(p)["graph.arcana"]
              IN  [base |-> base, visible |-> Patched(base, plan[p].changes)]
    [] f = "graph.manifest" ->
         LET overlay == Written(p)["overlay.arcana"]
             base == Written(p)["graph.arcana"]
         IN  [overlay |-> overlay # Absent, base |-> base,
              visible |-> IF overlay = Absent THEN base ELSE overlay.visible]
    [] f = "catalogue.tsv" -> EncodedCatalogue(Catalogue(plan[p].facts))
    [] f = "unresolved.tsv" -> Encoded(OnlyUnresolved(plan[p].facts))
    [] OTHER -> Encoded(plan[p].facts)

(* A base that is gone cannot be copied; validate_changes and              *)
(* validate_membership for the base that was copied.                       *)
Writable(p, f) ==
  /\ Written(p) # Absent
  /\ f = "graph.arcana" /\ call[p].op = "update" =>
       Source(p) # Absent /\ Source(p)[f] \notin {Absent, Torn}
  /\ f = "overlay.arcana" /\ ~ NoOverlay(p) =>
       LET base == Written(p)["graph.arcana"]
       IN  /\ base # Torn
           /\ plan[p].changes.removed \subseteq base.edges
           /\ plan[p].changes.added \cap base.edges = {}
           /\ \A e \in plan[p].changes.added :
                e.source < base.nodeCount /\ e.target < base.nodeCount
  /\ f \in {"overlay.arcana", "graph.manifest", "catalogue.tsv"} => Written(p)[f] = Absent

StageAfter(p, f) ==
  CASE f = "graph.arcana" ->
         IF call[p].op = "update" THEN "overlay.arcana" ELSE "graph.manifest"
    [] f = "overlay.arcana" -> "graph.manifest"
    [] f = "graph.manifest" -> "catalogue.tsv"
    [] f = "catalogue.tsv" -> "unresolved.tsv"
    [] f = "unresolved.tsv" -> "facts.tsv"
    [] OTHER -> "publish"

(* (altered) an update, too, leaves what it has written                    *)
FailWithoutCleanup(p) == End(p)

(* An update that fails has its directory to remove.                       *)
Fail(p) ==
  IF call[p].op = "update"
    THEN Goto(p, "cleanup") /\ UNCHANGED <<call, got, at, plan>>
    ELSE End(p)

WriteFile(p) ==
  /\ pc[p] \in File
  /\ IF Writable(p, pc[p])
       THEN /\ dirs' = [dirs EXCEPT ![Output(p)][pc[p]] = Produced(p, pc[p])]
            /\ Goto(p, StageAfter(p, pc[p]))
            /\ UNCHANGED <<call, got, at, plan>>
       ELSE Fail(p) /\ UNCHANGED dirs
  /\ UNCHANGED <<meant, reported, made, calls, faults, discards>>

(* publish_repository_snapshot reads back all it is to bind, validates it  *)
(* as a reader would, and encodes the manifest, which refuses adapter      *)
(* names with a control character or "=".                                  *)
Publish(p) ==
  /\ pc[p] = "publish"
  /\ IF Valid(Written(p)) /\ call[p].adapter
       THEN Goto(p, "manifest") /\ UNCHANGED <<call, got, at, plan>>
       ELSE Fail(p)
  /\ UNCHANGED <<dirs, meant, reported, made, shown, calls, faults, discards>>

(* write_immutable: created, written, synced.                              *)
CreateManifest(p) ==
  /\ pc[p] = "manifest"
  /\ IF Written(p)["repository.manifest"] = Absent
       THEN /\ dirs' = [dirs EXCEPT ![Output(p)]["repository.manifest"] = Torn]
            /\ Goto(p, "content")
            /\ UNCHANGED <<call, got, at, plan>>
       ELSE Fail(p) /\ UNCHANGED dirs
  /\ UNCHANGED <<meant, reported, made, calls, faults, discards>>

WriteManifest(p) ==
  /\ pc[p] = "content"
  /\ dirs' = [dirs EXCEPT ![Output(p)]["repository.manifest"] = [f \in Bound |-> Written(p)[f]]]
  /\ Goto(p, "sync")
  /\ UNCHANGED <<call, got, at, plan, meant, reported, made, calls, faults, discards>>

Report(p) ==
  /\ pc[p] = "sync"
  /\ reported' = reported \cup {Output(p)}
  /\ End(p)
  /\ UNCHANGED <<dirs, meant, made, calls, faults, discards>>

-----------------------------------------------------------------------------
(* An update that fails removes its directory; an import leaves it.        *)
Cleanup(p) ==
  /\ pc[p] = "cleanup"
  /\ dirs' = [dirs EXCEPT ![Output(p)] = Absent]
  /\ meant' = [meant EXCEPT ![Output(p)] = Absent]
  /\ End(p)
  /\ UNCHANGED <<reported, made, calls, faults, discards>>

Faulty == faults < MaxFaults /\ faults' = faults + 1

(* remove_dir_all fails or is killed when some files are gone; nobody      *)
(* looks at its result.                                                    *)
CleanupCut(p) ==
  /\ pc[p] = "cleanup" /\ Faulty
  /\ \E gone \in SUBSET {f \in File : Written(p)[f] # Absent} :
       dirs' = [dirs EXCEPT ![Output(p)] =
                  [f \in File |-> IF f \in gone THEN Absent ELSE @[f]]]
  /\ End(p)
  /\ UNCHANGED <<meant, reported, made, calls, discards>>

(* A file that is not renamed into place may be left incomplete.           *)
InPlace(p) ==
  {"catalogue.tsv", "unresolved.tsv", "facts.tsv"}
    \cup (IF call[p].op = "update" THEN {"graph.arcana"} ELSE {})

Left(p) ==
  \/ UNCHANGED dirs
  \/ /\ pc[p] \in InPlace(p) /\ Written(p) # Absent
     /\ dirs' = [dirs EXCEPT ![Output(p)][pc[p]] = Torn]

IOError(p) ==
  /\ pc[p] \in Writing \ {"cleanup"} /\ Faulty
  /\ Left(p)
  /\ Fail(p)
  /\ UNCHANGED <<meant, reported, made, calls, discards>>

Crash(p) ==
  /\ pc[p] \in Writing \ {"cleanup"} /\ Faulty
  /\ Left(p)
  /\ End(p)
  /\ UNCHANGED <<meant, reported, made, calls, discards>>

(* A user removes a directory that no command is writing, perhaps to retry *)
(* a failed import; somebody may be reading it.                            *)
Discard(d) ==
  /\ dirs[d] # Absent /\ discards < MaxDiscards
  /\ \A p \in Proc : pc[p] \in Writing => Output(p) # d
  /\ dirs' = [dirs EXCEPT ![d] = Absent]
  /\ meant' = [meant EXCEPT ![d] = Absent]
  /\ reported' = reported \ {d}
  /\ discards' = discards + 1
  /\ UNCHANGED <<pc, call, got, at, plan, made, calls, faults>>

(* The steps that leave alone what the directories show, and the others.   *)
Silent(p) ==
  \/ Begin(p) \/ CheckOutput(p) \/ OutputExists(p)
  \/ ReadFile(p) \/ ReadFails(p) \/ Close(p)
  \/ Compile(p) \/ Publish(p)

Changing(p) ==
  \/ Create(p) \/ WriteFile(p)
  \/ CreateManifest(p) \/ WriteManifest(p) \/ Report(p)
  \/ Cleanup(p) \/ CleanupCut(p) \/ IOError(p) \/ Crash(p)

Next ==
  \/ \E p \in Proc : Silent(p)
  \/ /\ (\E p \in Proc : Changing(p)) \/ (\E d \in Dir : Discard(d))
     /\ shown' = Shown'

Spec == Init /\ [][Next]_vars

-----------------------------------------------------------------------------
(* What is read back of facts: a reference whose candidate is "-" has none.*)
AsRead(f) ==
  [f EXCEPT !.unresolved =
     {IF u.detail = Absence THEN [u EXCEPT !.detail = NoText] ELSE u : u \in @}]

IsDirectory(v) == v = Absent \/ DOMAIN v = File

(* The variables have their types; the contents of files are the writers'. *)
TypeOK ==
  /\ DOMAIN dirs = Dir /\ \A d \in Dir : IsDirectory(dirs[d])
  /\ pc \in [Proc -> Stage]
  /\ \A p \in Proc : (pc[p] = "idle" <=> call[p] = Absent) /\ call[p] \in Call[p] \cup {Absent}
  /\ at \in [Proc -> 1..Len(OpenOrder)]
  /\ \A p \in Proc : pc[p] \in Writing \cup {"create"} <=> plan[p] # Absent
  /\ reported \subseteq Dir
  /\ \A d \in Dir : dirs[d] = Absent <=> meant[d] = Absent
  /\ calls \in [Proc -> 0..MaxCalls] /\ faults \in 0..MaxFaults /\ discards \in 0..MaxDiscards

(* Whatever a reader opens is one repository snapshot as some command       *)
(* meant it, although files of the directory may be removed and written    *)
(* anew while it reads: the graph and the catalogue are those of the facts.*)
OpenedWhole ==
  \A p \in Proc : pc[p] = "opened" =>
    LET facts == Parsed(got[p]["facts.tsv"])
    IN  /\ facts \in {AsRead(f) : f \in made}
        /\ GraphOf(got[p]["graph.manifest"], got[p]["graph.arcana"], got[p]["overlay.arcana"])
              = Dataset(facts)
        /\ ParsedCatalogue(got[p]["catalogue.tsv"]) = Catalogue(facts)

(* A directory that was reported opens with the facts its command compiled *)
(* and validated: no text is damaged on the way through the file, except   *)
(* that a candidate named "-" is lost.                                     *)
FactsSurvive ==
  \A d \in reported :
    /\ shown[d].state = "whole"
    /\ shown[d].snapshot = AsRead(meant[d].facts)

(* No text is damaged on the way through a fact file that can be read,     *)
(* whatever a command is about to publish.                                 *)
FactsReadBack ==
  \A p \in Proc : pc[p] = "create" =>
    \A f \in {plan[p].facts} : Parsed(Encoded(f)) \in {Malformed, AsRead(f)}

Writers(d) == {p \in Proc : pc[p] \in Writing /\ Output(p) = d}

(* Without a fault, a failed update leaves nothing behind: what lies in an *)
(* unreported directory that nobody writes is an import's.                 *)
UpdatesLeaveNothing ==
  \A d \in Dir \ reported :
    dirs[d] # Absent /\ Writers(d) = {} /\ meant[d].op = "update" => faults > 0

(* The directories keep the promise of DirectoryPromise: nothing is shown  *)
(* before all of a snapshot is, and what was reported does not change.     *)
Promise == INSTANCE DirectoryPromise WITH Nothing <- Absent

PublishesAtomically == Promise!PromiseSpec
=============================================================================
