# Arcana: a TLA+ verification project

Arcana compiles repository facts, as Lexicon publishes them, into an immutable
packed graph with delta overlays, keeps the result under `.arcana`, and answers
queries over it. This directory holds TLA+ modules that model that program,
TLC configurations that check them on small instances, and theorems about
them checked by TLAPS. Paths below are relative to the repository.

## 1. Inventory of the system

| component | state it keeps | operations | hard behaviour |
|---|---|---|---|
| sync (`src/cli_sync.rs`, `src/cli_sync_state.rs`) | `.arcana/LOCK`, `CURRENT`, `snapshots/<digest>/`, temporary files named by pid, `.lexicon/consumers/arcana.json` | lock, read Lexicon's CURRENT, check / remove / build / rename a directory, replace CURRENT, register | concurrent runs, crashes between any two steps, reuse of a pid, power loss |
| artifact writers (`src/cli_commands.rs`, `src/cli_update.rs`) | the files of one snapshot directory | `write_compiled`, `write_update`, `import-facts`, `update-facts` | directories written in place, with readers and other commands between any two files; partial output, clean-up that may fail, files that are never synced |
| Lexicon reader (`src/lexicon/`) | none; reads `.lexicon` | `current`, `load`, `changed_paths`, `shared_objects_changed` | a snapshot that Lexicon removed; objects whose records belong to other files |
| ownership, compiler, incremental plan (`src/repository/{ownership,compiler,incremental}.rs`) | none | partition, replace changed files, compile, plan an overlay | exactness of file-scoped replacement; stability of dense ids |
| repository snapshot (`src/repository/repository_snapshot*.rs`) | `repository.manifest` | open, publish, validate | every artefact must agree with every other, while it is read one file at a time |
| catalogue and fact files (`src/repository/{catalogue,fact}*.rs`, `lexicon_fact_file.rs`) | text files; the indexes of an opened catalogue | encode, decode, normalize paths, look up by name and path | escapes and absent fields, sorted files, ranges of paths |
| packed storage (`src/storage/`) | `graph.arcana` | write, open, neighbours | offsets, checks of a corrupt file, in-place publication |
| graph snapshots (`src/snapshot/`) | `graph.manifest`, `overlay.arcana` | publish, open, overlay, merge, compact | existence checks separate from renames; concurrent compaction |
| query protocol (`src/protocol/`, `src/cli_query.rs`) | one opened snapshot and statistics | look-ups, listings, traversal, paths, reachability, impact, dead symbols, statistics, diff | budgets, truncation, depth limits, ids that differ between snapshots |
| synthetic graphs (`src/synthetic/`) | none | generators, sampling, mutation | shares with capacities, bijections over index spaces at their boundaries, replacements that must avoid every pair of the graph |
| benchmark (`src/benchmark/`) | none | generate, pack, mutate, compare the overlay with a rebuilt graph; measure, report | overlay and rebuild must be one graph |
| command line (`src/cli.rs`, `src/main.rs`) | none | parse | none |

How they interact. Lexicon writes `.lexicon` and, after a scan, starts the
registered consumers, one of which is `arcana sync`. Sync reads a Lexicon
snapshot, compares it with the snapshot that Arcana's CURRENT names, lets the
incremental plan decide whether an overlay can express the change, and has the
artifact writers assemble a directory that a rename and then the replacement of
CURRENT make visible. Every file of a directory is immutable. Query processes
open one directory and never see a later one. Between processes there are only
files: the lock file serializes syncs, renames publish. `import-facts` and
`update-facts` make the same kind of directory without lock or rename: creating
the directory reserves it, and writing `repository.manifest` last publishes it.

What makes each part correct:

- *sync*: CURRENT always names a directory that opens and holds exactly the
  facts of the Lexicon snapshot it is named after; it never goes back; nothing
  that opens is rewritten; a missed hook or a crash costs time, never content.
  Section 4 has the two exceptions.
- *ownership and incremental plan*: replacing changed files gives the facts of
  the new snapshot; an overlay changes edges only, so dense ids stay.
- *storage and snapshots*: what opens is what was written; a manifest never
  names a file that another writer removed or replaced.
- *fact files and fact commands*: what was compiled comes back from the files
  unchanged; what opens is one whole snapshot, also while directories come and
  go; a failed update leaves nothing.
- *query protocol*: answers agree with the visible graph and the catalogue,
  within the limits asked for, and say when they were cut; a diff does not
  depend on dense ids; statistics count what the listings list.
- *synthetic graphs and the benchmark*: a specification that is accepted is met
  exactly; a mutation that is planned can be applied, and an overlay of it shows
  the graph that a rebuild gives.

## 2. Modules

| module | models | kind |
|---|---|---|
| `RepositoryFacts` | `ownership.rs`, `compiler.rs`, `incremental.rs` | pure operators |
| `LexiconSnapshot` | what `src/lexicon` offers of a loaded snapshot | pure operators |
| `ArcanaSync` | `cli_sync.rs`, `cli_sync_state.rs` and the writers they call | state machine |
| `SyncPromise` | what followers of CURRENT may rely on | abstract specification |
| `MCArcanaSync` | instances for TLC | model |
| `SnapshotFiles` | `storage/writer.rs`, `snapshot/{graph,overlay_writer,manifest_io,compaction}.rs` | state machine |
| `SnapshotStore` | what readers of a directory of snapshots may rely on | abstract specification |
| `MCSnapshotFiles` | instances for TLC | model |
| `NeighborMerge` | `merge_neighbors` of `snapshot/overlay_validation.rs` | state machine, composed into `VisibleGraph` |
| `PackedFile` | `storage/{dataset,format,writer,reader}.rs` | pure operators |
| `VisibleGraph` | `snapshot/{overlay_validation,overlay,graph}.rs` on a `PackedFile` | state machine |
| `Synthetic` | `synthetic/{spec,sampling,generator}.rs` and the five topologies | pure operators |
| `Mutation` | `synthetic/mutation`, `benchmark/mutation_plan.rs` | pure operators |
| `MutationBenchmark` | `benchmark/mutation_runner.rs` over `VisibleGraph` and `Mutation` | state machine |
| `MCMutationBenchmark` | instances for TLC | model |
| `Orders` | sorted lists of sets, by the ranks of their members | pure operators |
| `Texts` | `repository/path.rs`, the escapes of the text files | pure operators |
| `FactFiles` | `repository/{fact_file,catalogue_file,lexicon_fact_file}.rs` | pure operators |
| `FactCommands` | `cli_commands.rs`, `cli_update.rs`, `repository_snapshot*.rs` | state machine |
| `DirectoryPromise` | what an output directory shows to others | abstract specification |
| `MCFactCommands` | instances for TLC | model |
| `QueryGraph` | neighbours and relation masks of `protocol/traversal.rs` | pure operators |
| `Traversal` | breadth-first queries of `protocol/{traversal,analysis_queries}.rs`, `shortest_call_chain` | state machine |
| `PathSearch` | `paths` of `protocol/path_queries.rs` | state machine |
| `NodeQueries` | `repository/catalogue.rs`, `protocol/{queries,stats,diff}.rs` | pure operators |
| `Session` | `protocol/{session,server}.rs`; composes `Traversal`, `PathSearch` and `NodeQueries` | state machine |
| `MCSession` | instances for TLC | model |
| `OrdersProofs` | lemmas: lists by rank, induction over numbers, unfolding of recursive functions | proofs |
| `ArcanaSyncProofs` | theorems about `RepositoryFacts` and `ArcanaSync` | proofs |
| `SnapshotFilesProofs` | theorems about `SnapshotFiles` and its refinement of `SnapshotStore` | proofs |
| `FactCommandsProofs` | theorems about `FactCommands` and its refinement of `DirectoryPromise` | proofs |
| `VisibleGraphProofs` | theorems about `NeighborMerge`, `PackedFile`, `VisibleGraph` and `MutationBenchmark` | proofs |
| `TraversalProofs` | invariants of `Traversal` | proofs |
| `PathSearchProofs` | invariants of `PathSearch` | proofs |
| `SessionProofs` | theorems about `Session`, from those of its two searches | proofs |

### RepositoryFacts and LexiconSnapshot

Facts are records of three sets (nodes, edges, unresolved references). The code
keeps vectors, but sorts and deduplicates each of them whenever it partitions,
merges, compiles or writes, so sets lose nothing. Of a fact only what decides
its owner, its place in the graph and its equality is kept: keys, path, span
path, whether its kind or its path make it structural, relation, and a `Detail`
that stands for everything else. A 64-bit key is a natural number; its order is
what `NodeIds` numbers. A Lexicon object is its own content id: objects are
content-addressed, hence two ids differ exactly when the objects do.

`Aligned` states the convention that makes file-scoped replacement exact: the
records of a file's object belong, by `node_owner`, `edge_owner` and
`unresolved_owner`, to that file or to none, and a shared object's relations
belong to their own span's file or to none. The code does not check it.

### ArcanaSync

A process is a pid. `pc` is its place in `run_sync`; one action is one file
operation that somebody can observe or that can be the last one:

| action | code |
|---|---|
| `Acquire` | `SyncLock::acquire` (a busy lock is an error that changes nothing) |
| `ReadLexiconCurrent`, `LoadLexicon`, `LexiconUnavailable` | `LexiconSnapshot::current` and its errors |
| `Inspect` | `read_current`, `complete_snapshot`, `try_exists` |
| `RemoveSome`, `RemoveOutput` | `remove_dir_all(output)`, file after file |
| `PrepareTemp` | removal and creation of `.<digest>.tmp-<pid>` |
| `WriteOverlay`, `WriteRebuild` | `write_snapshot` |
| `WriteSidecar`, `RenameTemp` | the end of `build_snapshot` |
| `CreateFileTemp`, `FileTempExists`, `ReplaceCurrent`, `ReplaceConsumer` | `replace_file`, for CURRENT and for the consumer definition |
| `MisreadOutput`, `MisreadPrevious` | errors that are taken for an answer: of `complete_snapshot` (the directory counts as incomplete, and is removed), of loading the previous snapshots (the run compiles instead) |
| `Fail`, `Crash` | any other error with its clean-up; the death of the process |
| `WriteBack`, `PowerFailure` | the operating system |
| `Scan`, `Prune` | Lexicon |

A directory is a `Generation`: sidecar, facts, packed base, overlay edges. It
`Opens` when the facts compile and the compiled graph is the visible one, which
is what `validate_components` checks; manifests, catalogue and checksums are
functions of these. A power failure makes any set of directories that were not
written back vanish or lose content (`Torn`); `CURRENT` is synced by
`replace_file` and survives. `currentAt` (which publication CURRENT names), `damaged`
(what a power failure hit) and `misread` (what an inspection with an error hit,
until it is seen whole again or rebuilt) are history variables.

`SyncPromise` has no processes, locks, files or faults: an answer is nothing, or
the graph of a published snapshot, never an older one than before; losing data
makes it unavailable. `KeepsPromise` is the refinement.

### SnapshotFiles

One directory and concurrent callers of the library: `write_packed`,
`write_overlay`, `publish_snapshot`, `compact_snapshot` and
`GraphSnapshot::open`, put together the way the benchmark, the tests and the
compaction put them together (`create`, `delta`, `compact`, `open`). Inside the
repository these writers only ever see a directory of their own, but they are
the crate's public interface, and their promises are made for shared paths.

The three writers have one protocol, modelled once with `part` saying which
artefact is written: `CheckAbsent` (`try_exists`), `CreateTemp` (`create_new`,
write, sync), `Commit` (rename, which replaces). `BindBase` and `BindOverlay`
are `publish_snapshot` opening from disk what it is about to name; `ReadManifest`,
`ReadBase`, `ReadOverlay` are the three reads of `GraphSnapshot::open`, with the
comparisons of `validate_base_manifest`, `validate_base_identity` and
`validate_visible_manifest` as their guards. `Refuse` is every error that the
directory's content causes, `Fail` one of the file system, `Crash` the death of
the process; `Cleanup` is the removal of the new base by `compact_snapshot` when
publication fails. A graph is its checksum. `Begin` lets a caller extend a base
only if some manifest names it: that is how a caller can know of one.

`SnapshotStore` is the promise: a name is published once, with one graph, and an
open snapshot is what was published under the name it was opened by.

### NeighborMerge, PackedFile and VisibleGraph

`PackedFile` has the canonical edges of a dataset, the offset tables and the
adjacency arrays of both directions (`Encode`), their validation on opening
(`ValidFile`) and the slice that `neighbors_iter` reads (`Slice`). A checksum is
the sequence it is computed from, so that two are equal exactly if the code
hashed the same numbers in the same order. `LayoutFor` is the arithmetic of the
sections' places.

`VisibleGraph` goes through one life of a base and an overlay: pack a dataset,
open it, validate changes, answer a query for neighbours. `validate_changes` is
called when an overlay is written and again when it is opened on the same base;
the model runs it once. Its loops are steps: the two places of
`reject_conflicts` (`AdvanceAdded`, `AdvanceRemoved`, `RefuseConflict`,
`NoConflict`), the nodes of `visible_checksum` (`HashNode`, `HashMerged`) and,
in `NeighborMerge`, the turns of the two loops of `merge_neighbors`. The merge
has a module and a specification of its own (`MergeSpec`: calls with any legal
lists) because that is what the proof is about; `VisibleGraph` shares its
variables and calls it with the slices and operations of a node.

### QueryGraph, Traversal and PathSearch

The visible graph of an opened snapshot is a set of edges: the packed format
sorts them and refuses duplicates. `Adjacent` is `graph_neighbors`, and its
order (`AdjacentBefore`, and the numbering of relations by `RelationKind`)
decides which of several parallel relations and equally short chains an answer
shows. A plain request for neighbours is answered in the order of the file instead
(`StoredBefore` in `NodeQueries`), which numbers relations differently
(`EdgeKindCode`).

`Traversal` has one queue for the two breadth-first loops. A step takes one node
from it (`SkipDeep`, `Visit`). `bfs_distances` starts from all entries
(`StartDistances`), `shortest_path` from one (`SearchFrom`), and
`operational_role` repeats it for each entry and keeps the first of the shortest
(`NextEntry`, `Better`); `shortest_call_chain` is a role with one entry, and a role
asked without a list of entries a `summary`. An empty list is refused.
`Answer` is the cut list with its count and flag. `PathSearch` has the recursion
of `PathSearch::walk` as a stack of neighbours to try; `WalkCut`, `WalkFound`,
`WalkDeep` are its early returns, `LoopCut`, `LoopSkip`, `LoopEnter`, `LoopExit`
its loop.

The depth limit is not what "truncated" reports: a node beyond it is absent from
reachable nodes and present among dead symbols, and both say `max_depth` in the
answer. `DistancesExact` and `AnswerHonest` are stated for that meaning. Unknown
edge kinds (the error `corrupt_graph`) and the JSON form of answers are not
modelled.

### NodeQueries and Session

A session opens a snapshot once and answers every request from it on one thread.
Answering changes nothing, so the order of requests does not matter and one
behaviour is one request on one snapshot, both chosen in `Init`. `Session`
instantiates `Traversal` (`Search`) and `PathSearch` (`Walk`) step by step; the
rest is answered at once (`LookUp`) by the operators of `NodeQueries`, which
follow the code's indexes and not the question: the bounded range of the paths
below a prefix (`IdsByPathPrefix`), the walk over two sorted lists of ids
(`Intersection`), the sweeps that count (`Stats`, `CountOf`). The
properties state the question: `ListsExact` compares with the components of a
path, `DiffExact` with relations between keys, `StatsAgree` with the listings.

### Synthetic, Mutation and MutationBenchmark

The topologies allocate their edges to classes by shares in basis points
(`AllocateCounts`), and each class takes its pairs by a permutation of the
ordinals with a random start and step (`Permutation`, `Drawn`). The random numbers are an
input: `Draws` has starts and steps of every kind, beyond the size included.
`Mutation` plans the removals and the replacements of a scenario, with the
errors in the code's order, and applies them. `MutationBenchmark` goes through
`run_mutation_benchmark`: `Generate`, packing and opening by `VisibleGraph`'s
steps (`Store`), `Mutate`, whose plan is one of the standard scenarios'
(`PlanStandard`, which fails as a whole if one of them cannot be planned) or of
any other caller of `plan_mutation` (`PlanOther`), the overlay by
`VisibleGraph`'s steps again, and the comparison with the rebuilt file. Behaviours that start in the stage `given` have no benchmark:
they lay any changes over any dataset, as callers of the storage may.

### Texts, FactFiles, FactCommands and DirectoryPromise

A text is a sequence of character codes where its characters matter: in
escapes, in the order of paths and in their normal form. `FactFiles` has what
the files lose and keep: absent fields are `-`, texts are escaped, references
are a list whose order the file has and the reader checks, node and edge lines
are sorted on both sides and hence sets. Lexicon's JSON lines are records;
their identities become keys by `Compact`, an input that may collide.

`FactCommands` has processes that import, update and open directories:

| action | code |
|---|---|
| `Begin`, `CheckOutput`, `OutputExists` | a command and its test that the output is absent |
| `ReadFile`, `ReadFails`, `Close` | `RepositorySnapshot::open`, read by read in `OpenOrder`, the graph manifest twice |
| `Compile` | parsing, replacement of changed files, compilation and the overlay plan, with their errors |
| `Create` | `create_dir` |
| `WriteFile` | the files in the order of `StageAfter`; an update copies the base of its source as it is by then |
| `Publish` | `publish_repository_snapshot` reads everything back and validates it |
| `CreateManifest`, `WriteManifest`, `Report` | `write_immutable`: created, written, synced |
| `Fail`, `Cleanup`, `CleanupCut` | an error: an update removes its directory, perhaps not all of it; an import leaves it |
| `IOError`, `Crash` | at any write, with the file absent, torn or whole |
| `Discard` | somebody removes a directory that nobody writes |

`Fits` says what each read must find. The files that `repository.manifest` binds are
compared with their checksums; the second reading of `graph.manifest` is not: it
must parse, its base must be the one it names, and only the graph that it makes
visible is compared, with the manifest's and with the compiled facts. The inputs
let a directory be filled twice with the same facts, once by an update with an
overlay and once by an import without, so that a reader does accept another graph
manifest than the bound one.

A checksum stands for the content it was taken of. The adapter of a command is a
Boolean: whether `validate_text` accepts its name. `DirectoryPromise` knows only
what a directory shows: nothing, then a whole snapshot at once, which does not
change after the command's report; `PublishesAtomically` is the refinement.
`WriteManifest` is where a snapshot appears. An error in the sync that follows
may take it back (`Withdraw`) or, for an import, leave it.

## 3. Runs

| run | question | instance |
|---|---|---|
| `chains` | do all histories of overlays and rebuilds leave exact content and stable ids? | 1 process, 5 repository states, 3 publications, no faults |
| `faults` | is CURRENT monotone, is it served and are directories immutable but for what `damaged` and `misread` name, and does sync implement `SyncPromise`, under contention and faults? | 2 processes, 2 states, 3 publications, 2 faults |
| `liveness` | does CURRENT catch up? | 1 process, 2 states, 2 publications, 1 fault |
| `power` | (violated) may CURRENT name a snapshot that does not open? | 1 process |
| `spanless` | (violated) is content exact for objects outside the convention? | 1 process |
| `own_outputs` | is a directory a write-once store if concurrent writers use different names? | 2 processes, 7 calls, 9 names, 2 faults |
| `shared_outputs` | what holds even if writers race for the same names? | 2 processes, 7 calls, 6 names, 1 fault |
| `replacement` | (violated) is a file never replaced? | 2 processes, no faults |
| `compaction_race` | (violated) does a published manifest open? | the same compaction, twice |
| `session` | is every request answered, exactly within its limits, with listings, differences and statistics that agree? | call graphs on 3 nodes, the loop-free ones on 4 where nobody calls the first; catalogues of 3 nodes with paths around `a`; pairs of snapshots of up to 2 nodes; limits from 0 past the size |
| `benchmark` | do generators meet their specifications, do planned mutations apply, and are visible edges, checksum and refusals those of a rebuilt graph? | 14 specifications of the five topologies on 3 to 5 nodes and 7 that are refused, 3 series of draws, the standard scenarios and 5 others; every graph on 4 edges, parallel ones and a loop among them, and every change of it, lists with duplicates and unknown nodes |
| `commands` | is whatever opens a whole snapshot with the facts that were compiled, does a directory appear at once, and do the text files give back what was written? | 2 processes, 2 directories, 2 commands each, 1 error or crash, 1 removal by hand |

Bounds. `MaxScans` bounds Lexicon's publications and `MaxFaults` the faults.
Three publications are enough for an overlay on an overlay, for a return to an
earlier snapshot (whose directory still exists) and for a slow run overtaken by
two others; the five states of `MCLexicon` make every branch of
`write_snapshot` happen: edges of one file differ, of two files, the node set
differs with the same count, a shared object differs. Two processes suffice for
contention because a run that does not get the lock ends at once. Two faults
allow a second one during the recovery from the first, for instance a power
failure after a crash whose pid comes back. Liveness is checked with one fault:
every leftover of one crash or power failure is met by later runs, and
histories with two are covered by the safety runs. In `SnapshotFiles` two
processes are the two parties of every race; the calls include repetition of a
call that failed half-way, an overlay on a base still being compacted, and one
output name asked for twice with different contents. Three nodes
give every shape that a search tells apart (loops, cycles, diamonds, two starts
at different distances, unreachable nodes), four give the chains two routes of
different length; the requests have every depth up to the number of nodes, a
limit of zero, no entries and unknown nodes. The catalogues of `session` put
every pair of paths around `a` that the order of bytes separates: `-` and `.`
before the slash, `0` after it; snapshots of two nodes are enough for a key that
comes or goes to renumber the other. `DefaultLimit` 2 and `MaxLimit` 3 make
every cut happen with three nodes. The specifications of `benchmark` have
classes that run over their capacity, groups of unequal size and of one node,
hubs that are no multiple of the groups, and the complete graph. In `commands`
two calls of each process are an update or a reading that meets a directory
before, during and after it is removed and filled anew; the inputs have names
that need escapes, candidates named `-`, colliding identities, an edge before
its nodes, an adapter name that is refused. The theorems of section 5 remove
the bounds for the safety properties of sync, of the writers of snapshot files, of
the fact commands, of a session, of a graph under an overlay and of the benchmark,
`GeneratedExact` excepted.

Fairness. `FairSpec` asks weak fairness of `Run(p)`: the scheduler runs a process
that was started, and an idle pid eventually syncs again. The second half is
about the environment: a sync that finds the lock busy is not queued (the code
fails at once), so catching up relies on the hook of a later scan or on an
operator running `sync` again. Nothing is assumed of `Scan`, `Prune`,
`WriteBack` or faults. In `Session` and `MutationBenchmark` it is weak fairness of
the next step: a request runs to its end on the thread of its session, the
benchmark on the only thread it has. `FactCommands` and `SnapshotFiles` assume
none: their properties are safety properties, and a command that waits forever
breaks none of them.

## 4. Where code and documentation disagree

- `power`: README.md says a sync cannot expose a partial publication. The
  packed graph and the manifests are synced, but `facts.tsv`, `unresolved.tsv`,
  a copied base, the sidecar and the directory entries are not, while CURRENT
  is; a power failure in between leaves CURRENT naming a directory that does
  not open, until a later sync rebuilds it. `CurrentServed` is the statement
  that does hold.
- `spanless`: docs/LEXICON_CONTRACT.md calls file ownership explicit. The code
  drops the owner a record states and derives one from spans and endpoints; an
  edge without span that a file's object holds, but whose source belongs to
  another file, is kept or lost by an overlay according to that other file.
- `replacement`: README.md says snapshot and overlay files refuse in-place
  replacement. The refusal is a `try_exists` before the file is written; the
  rename afterwards replaces, so two writers that pass the test together do
  replace. `DependedImmutable` holds as long as concurrent writers use
  different names, as every caller in the repository does.
- `compaction_race`: the same compaction started twice. The second one passes
  the existence check of the base, overwrites it with equal content, is refused
  the manifest, and its clean-up removes the base the first one's manifest
  names.

Met while modelling, and part of the models as the code has them:

- docs/LEXICON_CONTRACT.md:26 calls the graph states immutable. A sync whose target
  directory exists looks whether it is complete, and `complete_snapshot`
  (`src/cli_sync.rs:125`) answers no for every error of reading it, a transient one
  included; `run_sync` then removes the directory and builds it anew. It may be
  the one that CURRENT names, and if the run fails or dies before the rename,
  CURRENT names a directory that is not there until another sync. In the model
  this is `MisreadOutput`, and the history variable `misread` names the directories
  it hit: `CompleteSnapshotsImmutable` and `CurrentServed` except these and what a
  power failure hit, and nothing else. Without the exception the run `faults` fails.
- A candidate name that is `-` is written like an absent one and read back as
  absent (`AsRead` in `FactsSurvive`), while docs/LEXICON_CONTRACT.md has
  candidate metadata preserved; if the loss makes two references equal or
  changes their order, the publication fails. A span path `-` makes the file
  unreadable, so that publication fails as well.
- An adapter name with `=` or a control character is refused when the manifest is
  encoded, after all other files were written; an import then leaves its
  directory behind.
- `write_immutable` leaves the manifest if its sync fails: an import has then
  failed, and its directory opens all the same (`Promise!Appear` without a
  report).
- The snapshot id and the adapter of a manifest are not compared with anything
  when it is opened.
- A path prefix `.` lists only nodes of the path `.`, although the comment at
  `src/repository/catalogue.rs:128` speaks of a path and its descendants.
- The diff's `snapshot_changed` looks at nodes and the graph only: snapshots
  that differ in unresolved references count as unchanged.
- The loading of a catalogue finds equal keys only if they are neighbours in
  the order of the file.
- `standard_mutations` fails the whole benchmark if one of its scenarios finds
  too few pairs to replace removed edges, as in a dense graph.

## 5. Proofs

The theorems hold for every value of the constants that satisfies the named
assumptions of the modules; TLC evaluates these assumptions on every run. They say
that sets of keys, nodes and relations are finite and made of numbers
(`KeyAssumption`, `NodeAssumption`, `RelationAssumption`), that what stands for
"nothing" is none of the things it stands beside (`NoProc`, `NoId`, `NoObject`,
`NoPath`, `NoText`, `None`, `SentinelAssumption`), that bounds are numbers
(`BoundAssumption`, `BoundsAssumption`, `FaultAssumption`, `LimitAssumption`), and
that the inputs are of their type (`LexiconAssumption`, `CompactAssumption`,
`CallAssumption` in two modules, `InputAssumption`, `KindAssumption`,
`ExistingAssumption`, `DatasetsAssumption`, `ChangeSetsAssumption`,
`SpecsAssumption`, `ScenariosAssumption`, `DrawsAssumption`, `SessionsAssumption`), where a call of `SnapshotFiles` has
the names its operation needs, each for one file (`WellFormed`). Hypotheses beyond
these are named below.

Two of them say more than a type. `InputAssumption`: an input file is what its
reader makes of the lines before it looks into a field, records with the fields of
their kind, each a text. `SessionsAssumption`: a look-up is asked of a snapshot that
is `Opened`, and a diff compares it with another such one. That is what
`ProtocolSnapshot::open` establishes, for both: the catalogue equals the one that
`compile_repository_facts` builds, whose ids are numbered in the order of the keys
of a `BTreeMap`; the graph equals the compiled one, so its ends are ids; and the
source of every reference has been found in the catalogue.

### Sync

`ReplacementExact`: for conventional snapshots `s`
and `t` with the same shared objects, replacing in the facts of `s` the changed
files by those of `t` gives exactly the facts of `t`. The argument goes record by
record: a record owned by an unchanged file comes from a shared object or from
that file's object, both of which the other snapshot has too, and there it
cannot be owned by nobody, because the node that gave it its owner is in the
other snapshot as well.

For every number of processes, snapshots, publications
and faults the safety properties that the runs check are theorems. None of them is
inductive:
`ReplaceCurrent` is harmless only because of what earlier steps established. The
inductive invariant `SyncInv` adds what a run knows at each stage: whoever is
past the lock holds it (so everyone else is idle, lemma `OthersIdle`); the
publication it read is not older than CURRENT's; the directory it is about to
remove is not complete or was misread, the one it builds does not exist, the one it
publishes is complete; its draft opens. And `DirectoriesWhole`: a directory that has
content opens, also when a removal has taken its sidecar, so a removal meets only what
an earlier one left, a power failure tore or an inspection misread. Hence the two
exceptions of `CurrentAlwaysServed` and `SnapshotsImmutable`.
`ContentExact` and `PromiseKept` assume `Conventional`, that Lexicon's objects
follow the ownership convention; `spanless` shows that the assumption is needed.

### Writers of snapshot files

Three invariants; the second and the third each extend the first. `LocalInv` is what a caller knows
by itself, whatever others do to its names: what it has read, prepared and opened
belongs together (`Prepared`). It gives `OpenSnapshotsAsPublished` without any
hypothesis, since readers compare what they read. `CarefulInv` adds that a name a
writer found absent was not among the files that existed before (`Careful`), and
gives `ExistingFilesStay`.

`OwnInv` is for callers with names of their own. The hypotheses are `OwnNames`,
that no two callers write one name, and `ExistingOpens`, that what was
there before opens; TLC evaluates both for the calls of `own_outputs`
(`OwnOutputsAssumption` in `MCSnapshotFiles`), and the runs `replacement` and
`compaction_race` show what happens without the first. Its part `Grounded` says
what a caller then knows of the directory: the names it may still write are as it
left them, nobody's manifest names a file that its clean-up may remove, and what it
has bound is still on disk. From it follow `PublishedSnapshotsOpen`, `ReadersAlwaysServed`,
`DependedFilesStay` and the refinement `StoreKept`, one step for each action.

### Fact commands

`CommandInv` has five parts: `Shape` (types); `Owned`, a directory that is being
written has one writer, the command that created it, and nobody else fills or
removes it meanwhile; `Progress`, the manifest comes last, so that a directory does
not open before it is whole, and what publication has validated is still what is
there when the manifest binds it; `Reads`, what an opening command has in hand is,
file by file, something a command wrote, and once it is accepted it is valid as a
whole; `Meaningful`, fact files are of facts that a command compiled, and a reported
directory has those of its report. Between two reads a directory may be removed and
filled anew. The fact files are held together by the checksums that
`repository.manifest` binds. The graph is not: its manifest and the files that name
a base and an overlay may come from a later filling. What is accepted is whole
because the graph they make visible equals the one compiled from the facts.

One hypothesis, `Marks`: the marks `Absent` and `Torn` are no records of a
file's kind, which of a model value TLC cannot even ask.

`TextsReadBack` says for texts of any length that the text files, parsed, are
refused or give the facts written, up to the candidate named `-` (section 4). Its
invariant `TextInv` is about where facts come from: what a command plans is made of
texts, and each path among them is one that the normalization returned. The
argument for one field: unescaping undoes escaping, because a turn of the reader
takes either a character that stands for itself or a backslash with the code that
follows it; and a path in normal form is its own normal form, because its parts
between slashes, joined again, are the path (`JoinedParts`). For a file: node and
edge lines are sets on both sides; references are a list whose order is the one
that `ReferenceBefore` gives the parsed ones, or the reader refuses it.
`OpenedSnapshotsWhole` and `ReportedFactsSurvive` rest on this. `TextInv` itself
speaks of infinite sets of texts, so TLC checks its consequence `FactsReadBack` only.

### Graphs under an overlay

`MergeCorrect`: whatever sorted lists
`merge_neighbors` is given, as long as nothing is added that the base has, its
result is sorted and is the base without the removals and with the additions.
`DropInv` says that the first loop has decided about the base before `at` and
passed only removals below the rest; `MergeInv` that what the second loop has
merged lies below everything that is left. Lists grow by appending something
above them (`SortedAppend`, `SortedConcat`), which is where the order's
transitivity and totality are used. `SectionsDisjoint`
gives the places of the six sections for all counts.

`VisibleInv` is about the whole life of a base and an overlay: `Stored`, the file
is the dataset packed, so that every slice of it is the sorted list of a node's
neighbours; `Compared`, the two places of the comparison of additions and removals have
passed nothing equal; `HashedTo`, the checksum so far is that of the visible
edges of the nodes so far; `MergesNode`, a merge in progress has the lists of one
node, and these are such that `MergeCorrect` applies; `Decided`, a verdict is the
right one. The longest part of the proof is that the tables of `Encode`, built by
counting and by summing up, are what `Slice` expects and what `ValidFile` accepts
(`WrittenFilesOpen`), and that operations sorted once and pushed to their nodes
give each node the sorted list of its operations.
`ChangesAcceptedExactly`, `NeighborsAreVisible` and `ChecksumsAgree` follow.

These theorems are about `VisibleGraph`'s own specification, over any datasets
and changes of the declared types. `BenchInv` carries them to `MutationBenchmark`,
where `VisibleGraph`'s steps are composed with generation and planning: beside
`VisibleInv` it has that the benchmark's base is a graph without loops and parallel
edges and its changes fit it (`Overlaid`), that a query is of a node (`Asked`), and
that no plan failed to apply. Three things are needed of the operators of `Synthetic` and `Mutation`.

- A permutation draws each ordinal once (`PermutationExact`): the step is prime to the
  size, because the search for it goes through all candidates and meets 1, and the
  turns of Euclid's algorithm keep the common divisors.
- A specification that `validate` accepts has classes that draw from pairs of numbers
  (`SampledAll`, topology by topology), so that generation yields a `Dataset`. That it
  yields the right number of edges of every kind is `GeneratedExact`, and not
  proved; here it is enough that the packing refuses loops and repeated edges.
- A plan that was made fits (`PlanFits`): it removes distinct edges and adds as many
  on pairs that are free, since the conditions of `plan_mutation` leave enough of both and a
  permutation reaches them all. What fits applies (`FittingApplies`), gives the visible
  edges in order (`AppliedEdges`, `RebuiltPacked`), and is accepted by the overlay (`FittingAcceptable`).

`RebuildsAgree` follows: whatever graph is generated and whatever scenario is
planned, the overlay and the graph packed afresh have the same checksum, counts
and neighbours. `CallersServed` states `VisibleGraph`'s properties for all
behaviours of `BenchSpec`, those of other callers included.

### Searches of a session

`SearchInv` (module `TraversalProofs`) is about any graph, entries, depth and
relations: `Labels`, a label is the length of a walk from an entry; `Queued`, what
waits is labelled and what has left has only labelled neighbours; `InTurn`, labels
along the queue rise by at most one, which is what makes labels least;
`Parents`, the recorded parents give a walk as long as the label; `Best`, the chain
kept so far is the best of the entries done. `PathInv` (module `PathSearchProofs`)
has `OnPath`, the visited nodes are those of the path, and the stack has a frame for
each that has been entered; `InOrder`, a frame's neighbours are tried in their order; `Accounted`, every
simple path within the limit is found, or lies behind a neighbour still on the
stack. Each is an invariant of its module under any caller, and `SessionInv` adds
that a session runs one of them at a time and leaves the other as it is. So
`QueuesInOrder`, `DistancesLeast`, `AnswersHonest`, `ChainsShortest`,
`WalksBacktrack` and `PathsAllListed` hold for graphs of any size.

### Look-ups of a session

No invariant beyond `SessionInv` is needed, since a look-up is one step; what has to
be shown is that the indexes answer the question. `ListingsComplete`: the range of
paths that is searched, from the prefix up to the prefix with `0` appended, has
every path that begins with the components of the prefix, because `0` follows `/`
immediately, and what else it has is filtered out; the walk over two lists of ids
returns what both have, because both ascend. `ComparisonsExact`: relations are compared by
keys, a key names one node of a snapshot, and ids are the ranks of keys, so that
equal sets of keys with equal relations are equal datasets. `StatisticsExact`
counts one set in two ways: edges at their sources and at their targets, references
by reason and by source. Sums over sets of nodes are sizes of disjoint unions.

### Numbers and recursive functions

The induction theorems of the library take an operator as a parameter and cannot be
used here. Where a proof needs induction over numbers it uses lemma `UpTo` of
`OrdersProofs`, which is the same principle for a set: what has 0 and with each
number the next has all. That a recursive function is one that satisfies its
equation follows from `Iterated` and `Folded`: the values of its first steps can be
continued (`Runs`, `Turns`).
`RankedLists` says that a finite set of numbered things has exactly one sorted
list, by counting how many are below each.

### Only model-checked

- Liveness: `CatchesUp`, `Answered`, `Ended`.
- `GeneratedExact`: that a topology's classes have the counts and the kinds of edges
  that its specification asks for.
- The violations of section 4.

## 6. Not modelled, and the plan

Not modelled:

- the bytes of numbers, hashes and headers, JSON and the wording of answers and
  reports: a checksum is the content it was taken of, a key a number;
- the verification of hashes, the canonical JSON and the binary objects of
  `src/lexicon`, which decide whether a snapshot loads and nothing about what it
  means; packed files and manifests damaged outside the program;
- the parsing of arguments (`src/cli.rs`), which has no state;
- the benchmark's query workloads, timing, arguments and report.

What is left to prove is `GeneratedExact`: the counts of `AllocateCounts` add up and
respect the capacities, the pairs of a class are distinct, as many as its capacity
says, and each between nodes of the class's kind. That a permutation has each ordinal
once, on which it also rests, is proved.
