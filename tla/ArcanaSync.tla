----------------------------- MODULE ArcanaSync ------------------------------
(***************************************************************************)
(* `arcana sync`: processes that bring .arcana up to the snapshot that     *)
(* Lexicon's CURRENT names, at the granularity of the file operations that *)
(* another process, a crash or a power failure can fall between.           *)
(*                                                                         *)
(* Models src/cli_sync.rs, src/cli_sync_state.rs, and what they write      *)
(* through src/cli_update.rs and src/cli_commands.rs.  A process is its    *)
(* pid: a pid that ended may be given to a later run, which then meets the *)
(* temporary files of the earlier one.                                     *)
(***************************************************************************)
EXTENDS LexiconSnapshot, Sequences

CONSTANTS
  Proc,        \* pids
  NoProc,      \* the lock is free
  Id,          \* Lexicon snapshot ids
  NoId,        \* no CURRENT file, no sidecar
  Lexicon,     \* the content of each Lexicon snapshot
  Absent,      \* no such snapshot directory
  Torn,        \* a directory that lost some of its files' content
  MaxScans,    \* bound on Lexicon publications
  MaxFaults    \* bound on failed operations, crashes and power failures

ASSUME ProcAssumption == NoProc \notin Proc
ASSUME IdAssumption == NoId \notin Id
ASSUME LexiconAssumption ==
  \A id \in Id : IsSnapshot(Lexicon[id]) /\ Loadable(Lexicon[id])
ASSUME BoundAssumption == MaxScans \in Nat /\ MaxFaults \in Nat

-----------------------------------------------------------------------------
(* Snapshot directories                                                    *)

LexiconFacts == [id \in Id |-> FactsOf(Lexicon[id])]

LexiconGraph == [id \in Id |-> Dataset(LexiconFacts[id])]

GraphEdge == [source: Nat, target: Nat, kind: Relation]

\* The content of a published directory: the lexicon.snapshot sidecar,
\* facts.tsv, the packed base of graph.arcana and the overlay's edges.  The
\* catalogue and unresolved.tsv are functions of the facts, which opening
\* recomputes; baseKeys remembers the nodes the base was packed for, whose
\* order gives its dense ids.
Generation ==
  [source: Id \union {NoId}, facts: Facts,
   base: [nodeCount: Nat, edges: SUBSET GraphEdge],
   added: SUBSET GraphEdge, removed: SUBSET GraphEdge,
   baseKeys: SUBSET NodeKey]

ASSUME DirectoryAssumption ==
  Absent # Torn /\ Absent \notin Generation /\ Torn \notin Generation

Visible(g) ==
  [nodeCount |-> g.base.nodeCount,
   edges     |-> (g.base.edges \ g.removed) \union g.added]

\* RepositorySnapshot::open: the facts recompile to the visible graph.
Opens(g) ==
  /\ g \notin {Absent, Torn}
  /\ Compiles(g.facts)
  /\ Dataset(g.facts) = Visible(g)

Rebuilt(id) ==
  [source  |-> NoId,
   facts   |-> LexiconFacts[id],
   base    |-> LexiconGraph[id],
   added   |-> {},
   removed |-> {},
   baseKeys |-> Keys(LexiconFacts[id])]

Overlaid(prior, id, changed) ==
  LET merged  == ReplaceChangedFiles(prior.facts, LexiconFacts[id], changed)
      changes == OverlayChanges(prior.base.edges, Dataset(merged).edges)
  IN  [source  |-> NoId,
       facts   |-> merged,
       base    |-> prior.base,
       added   |-> changes.added,
       removed |-> changes.removed,
       baseKeys |-> prior.baseKeys]

-----------------------------------------------------------------------------
VARIABLES
  lexLog,      \* ids Lexicon published; the last is its CURRENT
  lexStore,    \* ids still in Lexicon's snapshot store
  lock,        \* holder of .arcana/LOCK
  current,     \* the id in .arcana/CURRENT
  currentAt,   \* the publication it was read from (history)
  snapshots,   \* .arcana/snapshots/<digest>
  temps,       \* <<id, p>>: .arcana/snapshots/.<digest>.tmp-<pid> exists
  fileTemps,   \* <<file, p>>: <file>.tmp-<pid> exists
  registered,  \* .lexicon/consumers/arcana.json exists
  pc,          \* the next step of each run
  target,      \* the publication a run read, 0 before
  previous,    \* the Arcana CURRENT a run read
  draft,       \* what a run wrote into its temporary directory
  unsynced,    \* directories whose files the system has not written back
  damaged,     \* ids whose directory a power failure hit, not rebuilt since
  misread,     \* ids whose whole directory a run took for incomplete, not
               \* rebuilt or found whole since (history)
  faults       \* faults so far

lexVars == <<lexLog, lexStore>>
currentVars == <<current, currentAt>>
diskVars == <<snapshots, temps, unsynced, damaged, misread>>
runVars == <<pc, target, previous, draft>>
vars == <<lexLog, lexStore, lock, current, currentAt, snapshots, temps,
          fileTemps, registered, pc, target, previous, draft, unsynced,
          damaged, misread, faults>>

Stage == {"idle", "locked", "load", "inspect", "remove", "prepare", "write",
          "sidecar", "rename", "publish", "replace", "register",
          "replaceConsumer"}

File == {"CURRENT", "consumer"}

TypeOK ==
  /\ lexLog \in Seq(Id)
  /\ lexStore \in SUBSET Id
  /\ lock \in Proc \union {NoProc}
  /\ current \in Id \union {NoId}
  /\ currentAt \in 0 .. Len(lexLog)
  /\ snapshots \in [Id -> Generation \union {Absent, Torn}]
  /\ temps \in SUBSET (Id \X Proc)
  /\ fileTemps \in SUBSET (File \X Proc)
  /\ registered \in BOOLEAN
  /\ pc \in [Proc -> Stage]
  /\ target \in [Proc -> 0 .. Len(lexLog)]
  /\ previous \in [Proc -> Id \union {NoId}]
  /\ draft \in [Proc -> Generation \union {Absent}]
  /\ unsynced \in SUBSET Id
  /\ damaged \in SUBSET Id
  /\ misread \in SUBSET Id
  /\ faults \in Nat

Init ==
  /\ lexLog = << >>
  /\ lexStore = {}
  /\ lock = NoProc
  /\ current = NoId
  /\ currentAt = 0
  /\ snapshots = [id \in Id |-> Absent]
  /\ temps = {}
  /\ fileTemps = {}
  /\ registered = FALSE
  /\ pc = [p \in Proc |-> "idle"]
  /\ target = [p \in Proc |-> 0]
  /\ previous = [p \in Proc |-> NoId]
  /\ draft = [p \in Proc |-> Absent]
  /\ unsynced = {}
  /\ damaged = {}
  /\ misread = {}
  /\ faults = 0

-----------------------------------------------------------------------------
(* Helpers                                                                 *)

TargetId(p) == lexLog[target[p]]

\* complete_snapshot: the sidecar names the id and the snapshot opens.
Complete(id) == Opens(snapshots[id]) /\ snapshots[id].source = id

Step(p, from, to) == pc[p] = from /\ pc' = [pc EXCEPT ![p] = to]

\* The run returns, with a result or an error, and drops the lock.
Return(p) ==
  /\ pc' = [pc EXCEPT ![p] = "idle"]
  /\ target' = [target EXCEPT ![p] = 0]
  /\ previous' = [previous EXCEPT ![p] = NoId]
  /\ draft' = [draft EXCEPT ![p] = Absent]
  /\ lock' = NoProc

\* write_snapshot's conditions for an overlay on the previous snapshot.
OverlayPlanned(p) ==
  LET id == TargetId(p)
      prior == snapshots[previous[p]]
      changed == ChangedPaths(Lexicon[id], Lexicon[previous[p]])
  IN  /\ previous[p] \notin {NoId, id}
      /\ previous[p] \in lexStore
      /\ Opens(prior)
      /\ ~ SharedObjectsChanged(Lexicon[id], Lexicon[previous[p]])
      /\ changed # {}
      /\ PlanAccepted(prior.facts, LexiconFacts[id], changed, prior.base)

-----------------------------------------------------------------------------
(* Lexicon                                                                 *)

Scan(id) ==
  /\ Len(lexLog) < MaxScans
  /\ lexLog # << >> => id # lexLog[Len(lexLog)]
  /\ lexLog' = Append(lexLog, id)
  /\ lexStore' = lexStore \union {id}
  /\ UNCHANGED <<lock, currentVars, diskVars, fileTemps, registered, runVars,
                 faults>>

\* Lexicon drops a snapshot that is no longer its current one.
Prune(id) ==
  /\ id \in lexStore
  /\ id # lexLog[Len(lexLog)]
  /\ lexStore' = lexStore \ {id}
  /\ UNCHANGED <<lexLog, lock, currentVars, diskVars, fileTemps, registered,
                 runVars, faults>>

-----------------------------------------------------------------------------
(* One run of sync                                                         *)

\* (altered) the lock is taken without finding it free
AcquireBusy(p) ==
  /\ Step(p, "idle", "locked")
  /\ lock' = p
  /\ UNCHANGED <<lexVars, currentVars, diskVars, fileTemps, registered, target,
                 previous, draft, faults>>

\* try_lock on .arcana/LOCK; a run that finds it busy fails and changes
\* nothing.
Acquire(p) ==
  /\ Step(p, "idle", "locked")
  /\ lock = NoProc
  /\ lock' = p
  /\ UNCHANGED <<lexVars, currentVars, diskVars, fileTemps, registered, target,
                 previous, draft, faults>>

\* (altered) the read is one publication ahead
ReadLexiconAhead(p) ==
  /\ Step(p, "locked", "load")
  /\ lexLog # << >>
  /\ target' = [target EXCEPT ![p] = Len(lexLog) + 1]
  /\ UNCHANGED <<lexVars, lock, currentVars, diskVars, fileTemps, registered,
                 previous, draft, faults>>

ReadLexiconCurrent(p) ==
  /\ Step(p, "locked", "load")
  /\ lexLog # << >>
  /\ target' = [target EXCEPT ![p] = Len(lexLog)]
  /\ UNCHANGED <<lexVars, lock, currentVars, diskVars, fileTemps, registered,
                 previous, draft, faults>>

LoadLexicon(p) ==
  /\ Step(p, "load", "inspect")
  /\ TargetId(p) \in lexStore
  /\ UNCHANGED <<lexVars, lock, currentVars, diskVars, fileTemps, registered,
                 target, previous, draft, faults>>

\* No Lexicon CURRENT yet, or its snapshot went before it was loaded.
LexiconUnavailable(p) ==
  /\ \/ pc[p] = "locked" /\ lexLog = << >>
     \/ pc[p] = "load" /\ TargetId(p) \notin lexStore
  /\ Return(p)
  /\ UNCHANGED <<lexVars, currentVars, diskVars, fileTemps, registered, faults>>

\* (altered) an existing directory counts as a complete one
InspectExistence(p) ==
  /\ pc[p] = "inspect"
  /\ previous' = [previous EXCEPT ![p] = current]
  /\ pc' = [pc EXCEPT ![p] =
              IF snapshots[TargetId(p)] # Absent THEN "publish" ELSE "prepare"]
  /\ UNCHANGED <<lexVars, lock, currentVars, diskVars, fileTemps, registered,
                 target, draft, faults>>

\* (altered) an existing directory is always rebuilt
InspectRebuild(p) ==
  /\ pc[p] = "inspect"
  /\ previous' = [previous EXCEPT ![p] = current]
  /\ pc' = [pc EXCEPT ![p] =
              IF snapshots[TargetId(p)] = Absent THEN "prepare" ELSE "remove"]
  /\ UNCHANGED <<lexVars, lock, currentVars, diskVars, fileTemps, registered,
                 target, draft, faults>>

\* Reads Arcana's CURRENT and looks at the output directory.
Inspect(p) ==
  /\ pc[p] = "inspect"
  /\ previous' = [previous EXCEPT ![p] = current]
  /\ pc' = [pc EXCEPT ![p] =
              IF Complete(TargetId(p)) THEN "publish"
              ELSE IF snapshots[TargetId(p)] = Absent THEN "prepare"
              ELSE "remove"]
  /\ misread' = IF Complete(TargetId(p)) THEN misread \ {TargetId(p)}
                 ELSE misread
  /\ UNCHANGED <<lexVars, lock, currentVars, snapshots, temps, unsynced,
                 damaged, fileTemps, registered, target, draft, faults>>

\* remove_dir_all takes file after file.  A directory whose sidecar alone went
\* still opens.
RemoveSome(p) ==
  /\ pc[p] = "remove"
  /\ snapshots[TargetId(p)] \notin {Absent, Torn}
  /\ \E left \in {Torn, [snapshots[TargetId(p)] EXCEPT !.source = NoId]} :
       snapshots' = [snapshots EXCEPT ![TargetId(p)] = left]
  /\ UNCHANGED <<lexVars, lock, currentVars, temps, unsynced, damaged, misread,
                 fileTemps, registered, pc, target, previous, draft, faults>>

RemoveOutput(p) ==
  /\ Step(p, "remove", "prepare")
  /\ snapshots' = [snapshots EXCEPT ![TargetId(p)] = Absent]
  /\ unsynced' = unsynced \ {TargetId(p)}
  /\ UNCHANGED <<lexVars, lock, currentVars, temps, damaged, misread, fileTemps,
                 registered, target, previous, draft, faults>>

\* Removes what an earlier run of this pid left and creates the directory.
PrepareTemp(p) ==
  /\ Step(p, "prepare", "write")
  /\ temps' = temps \union {<<TargetId(p), p>>}
  /\ UNCHANGED <<lexVars, lock, currentVars, snapshots, unsynced, damaged,
                 misread, fileTemps, registered, target, previous, draft,
                 faults>>

WriteOverlay(p) ==
  /\ Step(p, "write", "sidecar")
  /\ OverlayPlanned(p)
  /\ draft' = [draft EXCEPT ![p] =
                 Overlaid(snapshots[previous[p]], TargetId(p),
                          ChangedPaths(Lexicon[TargetId(p)],
                                       Lexicon[previous[p]]))]
  /\ UNCHANGED <<lexVars, lock, currentVars, diskVars, fileTemps, registered,
                 target, previous, faults>>

WriteRebuild(p) ==
  /\ Step(p, "write", "sidecar")
  /\ ~ OverlayPlanned(p)
  /\ draft' = [draft EXCEPT ![p] = Rebuilt(TargetId(p))]
  /\ UNCHANGED <<lexVars, lock, currentVars, diskVars, fileTemps, registered,
                 target, previous, faults>>

\* (altered) the sidecar names the snapshot that was current before
WriteStaleSidecar(p) ==
  /\ Step(p, "sidecar", "rename")
  /\ draft' = [draft EXCEPT ![p].source = previous[p]]
  /\ UNCHANGED <<lexVars, lock, currentVars, diskVars, fileTemps, registered,
                 target, previous, faults>>

WriteSidecar(p) ==
  /\ Step(p, "sidecar", "rename")
  /\ draft' = [draft EXCEPT ![p].source = TargetId(p)]
  /\ UNCHANGED <<lexVars, lock, currentVars, diskVars, fileTemps, registered,
                 target, previous, faults>>

\* The directory appears under its digest.  Only some of its files, and not
\* the directory entry, were synced.
RenameTemp(p) ==
  /\ Step(p, "rename", "publish")
  /\ snapshots' = [snapshots EXCEPT ![TargetId(p)] = draft[p]]
  /\ temps' = temps \ {<<TargetId(p), p>>}
  /\ unsynced' = unsynced \union {TargetId(p)}
  /\ damaged' = damaged \ {TargetId(p)}
  /\ misread' = misread \ {TargetId(p)}
  /\ draft' = [draft EXCEPT ![p] = Absent]
  /\ UNCHANGED <<lexVars, lock, currentVars, fileTemps, registered, target,
                 previous, faults>>

\* replace_file, for CURRENT and for the consumer definition: the temporary
\* file is created anew, written and synced.
ReplaceSteps == {<<"publish", "CURRENT", "replace">>,
                 <<"register", "consumer", "replaceConsumer">>}

CreateFileTemp(p) ==
  /\ \E s \in ReplaceSteps :
       /\ Step(p, s[1], s[3])
       /\ <<s[2], p>> \notin fileTemps
       /\ fileTemps' = fileTemps \union {<<s[2], p>>}
  /\ UNCHANGED <<lexVars, lock, currentVars, diskVars, registered, target,
                 previous, draft, faults>>

\* (altered) the error path leaves the temporary file
FileTempBlocks(p) ==
  /\ \E s \in ReplaceSteps : pc[p] = s[1] /\ <<s[2], p>> \in fileTemps
  /\ Return(p)
  /\ UNCHANGED <<lexVars, currentVars, diskVars, fileTemps, registered, faults>>

\* create_new fails on the file a crashed run of this pid left; the error
\* path removes it.
FileTempExists(p) ==
  /\ \E s \in ReplaceSteps :
       /\ pc[p] = s[1]
       /\ <<s[2], p>> \in fileTemps
       /\ fileTemps' = fileTemps \ {<<s[2], p>>}
  /\ Return(p)
  /\ UNCHANGED <<lexVars, currentVars, diskVars, registered, faults>>

\* The atomic replacement of CURRENT, and the end of the run unless it was
\* asked to register.
ReplaceCurrent(p) ==
  /\ pc[p] = "replace"
  /\ current' = TargetId(p)
  /\ currentAt' = target[p]
  /\ fileTemps' = fileTemps \ {<<"CURRENT", p>>}
  /\ \/ Return(p)
     \/ /\ pc' = [pc EXCEPT ![p] = "register"]
        /\ UNCHANGED <<lock, target, previous, draft>>
  /\ UNCHANGED <<lexVars, diskVars, registered, faults>>

ReplaceConsumer(p) ==
  /\ pc[p] = "replaceConsumer"
  /\ registered' = TRUE
  /\ fileTemps' = fileTemps \ {<<"consumer", p>>}
  /\ Return(p)
  /\ UNCHANGED <<lexVars, currentVars, diskVars, faults>>

-----------------------------------------------------------------------------
(* Faults                                                                  *)

\* complete_snapshot takes every error of reading the sidecar or opening the
\* snapshot for an incomplete directory, and run_sync removes it.
MisreadOutput(p) ==
  /\ faults < MaxFaults
  /\ Step(p, "inspect", "remove")
  /\ Complete(TargetId(p))
  /\ previous' = [previous EXCEPT ![p] = current]
  /\ misread' = misread \union {TargetId(p)}
  /\ faults' = faults + 1
  /\ UNCHANGED <<lexVars, lock, currentVars, snapshots, temps, unsynced,
                 damaged, fileTemps, registered, target, draft>>

\* An error of loading the previous Lexicon snapshot or of opening the
\* previous directory: write_snapshot compiles instead.
MisreadPrevious(p) ==
  /\ faults < MaxFaults
  /\ Step(p, "write", "sidecar")
  /\ OverlayPlanned(p)
  /\ draft' = [draft EXCEPT ![p] = Rebuilt(TargetId(p))]
  /\ faults' = faults + 1
  /\ UNCHANGED <<lexVars, lock, currentVars, diskVars, fileTemps, registered,
                 target, previous>>

Misread(p) == MisreadOutput(p) \/ MisreadPrevious(p)

\* An operation of a run fails.  A failed write removes the temporary
\* directory, a failed sidecar or rename leaves it; a failed replacement
\* removes the temporary file.
Fail(p) ==
  /\ faults < MaxFaults
  /\ pc[p] # "idle"
  /\ temps' = IF pc[p] = "write" THEN temps \ {<<TargetId(p), p>>} ELSE temps
  /\ fileTemps' =
       CASE pc[p] = "replace" -> fileTemps \ {<<"CURRENT", p>>}
         [] pc[p] = "replaceConsumer" -> fileTemps \ {<<"consumer", p>>}
         [] OTHER -> fileTemps
  /\ Return(p)
  /\ faults' = faults + 1
  /\ UNCHANGED <<lexVars, currentVars, snapshots, unsynced, damaged, misread,
                 registered>>

\* The process dies: the system releases its lock, its files stay.
Crash(p) ==
  /\ faults < MaxFaults
  /\ pc[p] # "idle"
  /\ Return(p)
  /\ faults' = faults + 1
  /\ UNCHANGED <<lexVars, currentVars, diskVars, fileTemps, registered>>

WriteBack(id) ==
  /\ id \in unsynced
  /\ unsynced' = unsynced \ {id}
  /\ UNCHANGED <<lexVars, lock, currentVars, snapshots, temps, damaged, misread,
                 fileTemps, registered, runVars, faults>>

\* Every process dies, and directories not written back lose files or the
\* whole entry.  CURRENT was synced, and so was its directory.
PowerFailure ==
  /\ faults < MaxFaults
  /\ \E lost \in SUBSET unsynced :
       \E gone \in SUBSET lost :
         /\ snapshots' = [id \in Id |-> IF id \in gone THEN Absent
                                        ELSE IF id \in lost THEN Torn
                                        ELSE snapshots[id]]
         /\ damaged' = damaged \union lost
  /\ unsynced' = {}
  /\ pc' = [p \in Proc |-> "idle"]
  /\ target' = [p \in Proc |-> 0]
  /\ previous' = [p \in Proc |-> NoId]
  /\ draft' = [p \in Proc |-> Absent]
  /\ lock' = NoProc
  /\ faults' = faults + 1
  /\ UNCHANGED <<lexVars, currentVars, temps, misread, fileTemps, registered>>

-----------------------------------------------------------------------------
Run(p) ==
  \/ Acquire(p)
  \/ ReadLexiconCurrent(p)
  \/ LoadLexicon(p)
  \/ LexiconUnavailable(p)
  \/ Inspect(p)
  \/ RemoveSome(p)
  \/ RemoveOutput(p)
  \/ PrepareTemp(p)
  \/ WriteOverlay(p)
  \/ WriteRebuild(p)
  \/ WriteSidecar(p)
  \/ RenameTemp(p)
  \/ CreateFileTemp(p)
  \/ FileTempExists(p)
  \/ ReplaceCurrent(p)
  \/ ReplaceConsumer(p)

Next ==
  \/ \E id \in Id : Scan(id) \/ Prune(id) \/ WriteBack(id)
  \/ \E p \in Proc : Run(p) \/ Misread(p) \/ Fail(p) \/ Crash(p)
  \/ PowerFailure

Spec == Init /\ [][Next]_vars

\* The scheduler runs a started process, and somebody (the hook of a later
\* scan, or an operator) starts another sync after one that ended.
FairSpec == Spec /\ \A p \in Proc : WF_vars(Run(p))

-----------------------------------------------------------------------------
(* Properties                                                              *)

\* CURRENT never names a snapshot that does not open, whatever runs failed
\* or died on the way: directories are assembled aside and renamed before
\* CURRENT is replaced (run_sync).  Two things break this, each for the
\* directories it hit and until a sync rebuilds them: a power failure, and an
\* error while a run inspects a whole directory (complete_snapshot).
CurrentServed ==
  current \notin {NoId} \union damaged \union misread => Complete(current)

\* What README.md says of a partial publication, without the exception for
\* power failures: CURRENT names a snapshot that opens.
NoPartialPublication == current # NoId => Complete(current)

\* A snapshot directory holds the facts and the graph of the Lexicon snapshot
\* it is named after, whichever chain of overlays and rebuilds produced it
\* (write_snapshot's choice between plan_file_update and a full compile).
ContentMatchesLexicon ==
  \A id \in Id :
    snapshots[id] \notin {Absent, Torn} =>
      /\ snapshots[id].facts = LexiconFacts[id]
      /\ Visible(snapshots[id]) = LexiconGraph[id]

\* An overlay generation keeps the dense ids its packed base was compiled
\* under, over any number of cumulative overlays (plan_file_update refuses
\* a changed node set).
OverlayKeepsNodeIds ==
  \A id \in Id :
    snapshots[id] \notin {Absent, Torn} =>
      snapshots[id].baseKeys = Keys(snapshots[id].facts)

\* A snapshot that opens is never removed or rewritten by a sync, even one
\* that meets it again after Lexicon returned to an earlier state; only a
\* power failure changes it, or the removal by a run whose inspection of it
\* met an error.
CompleteSnapshotsImmutable ==
  [][\A id \in Id :
       Complete(id) /\ snapshots'[id] # snapshots[id] =>
         \/ id \in damaged'
         \/ /\ id \in misread
            /\ \E p \in Proc : pc[p] = "remove" /\ TargetId(p) = id]_vars

\* CURRENT never goes back to an older publication of Lexicon: each run reads
\* Lexicon's CURRENT under the lock (run_sync takes the lock first).
NeverBackwards == [][currentAt' >= currentAt]_vars

\* CURRENT is replaced by a run that holds the lock, and names a snapshot
\* whose directory already opened when the replacement happened.
ReplacedAfterVerified ==
  [][current' # current => lock # NoProc /\ Complete(current')]_vars

\* What sync promises to the followers of CURRENT.
Promise == INSTANCE SyncPromise WITH
  Meaning     <- LexiconGraph,
  Nothing     <- NoId,
  Unavailable <- Torn,
  history     <- lexLog,
  at          <- currentAt,
  answer      <- IF current = NoId THEN NoId
                 ELSE IF Complete(current) THEN Visible(snapshots[current])
                 ELSE Torn

\* Every behaviour of concurrent, failing and dying syncs is one of the
\* abstract publication that SyncPromise states.
KeepsPromise == Promise!Spec

\* Once Lexicon is quiet and faults have stopped, CURRENT ends up naming
\* Lexicon's newest snapshot, whole, for good: a missed hook, a crashed run,
\* the temporary files of a reused pid or a torn directory cost only time.
CatchesUp ==
  <>[](lexLog # << >> =>
         current = lexLog[Len(lexLog)] /\ Complete(current))
=============================================================================
