--------------------------- MODULE SnapshotFiles ---------------------------
(***************************************************************************)
(* The files of one directory of graph snapshots, as the writers of        *)
(* src/storage and src/snapshot publish and read them, called by           *)
(* concurrent processes.                                                   *)
(*                                                                         *)
(* Every writer has the same shape: refuse an existing path, write and     *)
(* sync a temporary file, rename it.  A rename replaces whatever is there, *)
(* so the refusal and the rename are separate steps.  A graph is its       *)
(* dataset checksum; an overlay's operations are determined by the base    *)
(* and the visible graph, since added edges are not in the base and        *)
(* removed ones are.                                                       *)
(***************************************************************************)
EXTENDS Naturals

CONSTANTS
  Proc,       \* processes (pids; one restarted after a crash keeps its pid)
  Name,       \* file names in the directory
  NoName,     \* "no such file", e.g. a manifest without overlay
  Graph,      \* graph contents
  Absent,     \* content of a name that does not exist
  Call,       \* [Proc -> the calls a process may make]
  Existing,   \* [Name -> what the directory holds at the start]
  MaxFaults   \* bound on I/O errors and crashes

Operation == {"create", "delta", "compact", "open"}

Calls == [op : Operation, source : Name \cup {NoName},
          manifest : Name \cup {NoName}, base : Name \cup {NoName},
          overlay : Name \cup {NoName}, graph : Graph \cup {Absent}]

Packed(g) == [kind |-> "packed", graph |-> g]
Overlay(b, v) == [kind |-> "overlay", base |-> b, visible |-> v]
Manifest(b, o, bg, v) ==
  [kind |-> "manifest", base |-> b, overlay |-> o, baseGraph |-> bg, visible |-> v]

File == {Packed(g) : g \in Graph}
          \cup {Overlay(b, v) : b \in Graph, v \in Graph}
          \cup {Manifest(b, o, bg, v) : b \in Name, o \in Name \cup {NoName},
                                        bg \in Graph, v \in Graph}

(* What a call may be: its fields fit its operation.                       *)
WellFormed(c) ==
  /\ c \in Calls
  /\ c.op \in {"compact", "open"} => c.source \in Name
  /\ c.op # "open" => c.manifest \in Name /\ c.base \in Name /\ c.manifest # c.base
  /\ c.op = "delta" => c.overlay \in Name /\ c.overlay \notin {c.base, c.manifest}
  /\ c.op \in {"create", "delta"} => c.graph \in Graph
  /\ c.op # "delta" => c.overlay = NoName

ASSUME CallAssumption == Call \in [Proc -> SUBSET {c \in Calls : WellFormed(c)}]
ASSUME SentinelAssumption ==
  /\ NoName \notin Name
  /\ Absent \notin File /\ Absent \notin Graph /\ Absent \notin Calls
  /\ Absent \notin Name \X Graph
ASSUME ExistingAssumption == Existing \in [Name -> File \cup {Absent}]
ASSUME FaultAssumption == MaxFaults \in Nat

VARIABLES
  files,      \* [Name -> File \cup {Absent}]
  temps,      \* temporary files left by a crash, as <<output, pid>>
  pc,         \* [Proc -> Stage]
  call,       \* [Proc -> the call being made, Absent before the first]
  part,       \* [Proc -> the artefact being written]
  manifest,   \* [Proc -> the manifest read by the call]
  base,       \* [Proc -> the base graph read by the call]
  visible,    \* [Proc -> the visible graph read by the call]
  faults

vars == <<files, temps, pc, call, part, manifest, base, visible, faults>>
reads == <<manifest, base, visible>>

Stage == {"idle", "precheck", "readManifest", "readBase", "readOverlay", "opened",
          "exists", "temp", "commit", "bindBase", "bindOverlay", "cleanup"}

IsManifest(n) == files[n] # Absent /\ files[n].kind = "manifest"
IsPacked(n) == n \in Name /\ files[n] # Absent /\ files[n].kind = "packed"
IsOverlay(n) == n \in Name /\ files[n] # Absent /\ files[n].kind = "overlay"

(* GraphSnapshot::open would accept the manifest m now.                    *)
Consistent(m) ==
  /\ IsPacked(m.base) /\ files[m.base].graph = m.baseGraph
  /\ IF m.overlay = NoName
       THEN m.visible = m.baseGraph
       ELSE IsOverlay(m.overlay) /\ files[m.overlay] = Overlay(m.baseGraph, m.visible)

(* A file a reader may depend on: a manifest, or one that a manifest names. *)
Depended(n) ==
  \/ IsManifest(n)
  \/ \E m \in Name : IsManifest(m) /\ n \in {files[m].base, files[m].overlay}

-----------------------------------------------------------------------------
(* The artefact a writer is writing, and what it writes.                   *)
Target(p) ==
  CASE part[p] = "base" -> call[p].base
    [] part[p] = "overlay" -> call[p].overlay
    [] OTHER -> call[p].manifest

Content(p) ==
  CASE part[p] = "base" ->
         Packed(IF call[p].op = "compact" THEN visible[p] ELSE call[p].graph)
    [] part[p] = "overlay" -> Overlay(base[p], call[p].graph)
    [] OTHER -> Manifest(call[p].base, call[p].overlay, base[p], visible[p])

-----------------------------------------------------------------------------
Init ==
  /\ files = Existing
  /\ temps = {}
  /\ pc = [p \in Proc |-> "idle"]
  /\ call = [p \in Proc |-> Absent]
  /\ part = [p \in Proc |-> "base"]
  /\ manifest = [p \in Proc |-> Absent]
  /\ base = [p \in Proc |-> Absent]
  /\ visible = [p \in Proc |-> Absent]
  /\ faults = 0

Goto(p, s) == pc' = [pc EXCEPT ![p] = s]

Write(p, what) == Goto(p, "exists") /\ part' = [part EXCEPT ![p] = what]

(* A caller knows a base from a manifest it has seen.                      *)
Begin(p) ==
  \E c \in Call[p] :
    /\ pc[p] = "idle"
    /\ c.op = "delta" =>
         \E m \in Name : IsManifest(m) /\ files[m].base = c.base
    /\ call' = [call EXCEPT ![p] = c]
    /\ part' = [part EXCEPT ![p] = "base"]
    /\ Goto(p, CASE c.op = "create" -> "exists"
                 [] c.op = "delta" -> "readBase"
                 [] c.op = "compact" -> "precheck"
                 [] OTHER -> "readManifest")
    /\ manifest' = [manifest EXCEPT ![p] = Absent]
    /\ base' = [base EXCEPT ![p] = Absent]
    /\ visible' = [visible EXCEPT ![p] = Absent]
    /\ UNCHANGED <<files, temps, faults>>

(* compact_snapshot refuses an existing output manifest before it reads.   *)
Precheck(p) ==
  /\ pc[p] = "precheck" /\ files[call[p].manifest] = Absent
  /\ Goto(p, "readManifest")
  /\ UNCHANGED <<files, temps, call, part, reads, faults>>

ReadManifest(p) ==
  /\ pc[p] = "readManifest" /\ IsManifest(call[p].source)
  /\ manifest' = [manifest EXCEPT ![p] = files[call[p].source]]
  /\ Goto(p, "readBase")
  /\ UNCHANGED <<files, temps, call, part, base, visible, faults>>

(* (altered) an open that does not compare the base with the manifest      *)
BaseAnyPacked(p) ==
  IsPacked(IF call[p].op = "delta" THEN call[p].base ELSE manifest[p].base)

(* The base read fits: any packed file for a delta, which holds a          *)
(* PackedGraph; the one the manifest describes for an open snapshot.       *)
BaseFits(p) ==
  IF call[p].op = "delta"
    THEN IsPacked(call[p].base)
    ELSE /\ IsPacked(manifest[p].base)
         /\ files[manifest[p].base].graph = manifest[p].baseGraph
         /\ manifest[p].overlay = NoName => manifest[p].visible = manifest[p].baseGraph

(* After an open snapshot is complete: an answer, or the write of a        *)
(* compacted base.                                                         *)
Opened(p) ==
  IF call[p].op = "open" THEN Goto(p, "opened") /\ UNCHANGED part ELSE Write(p, "base")

ReadBase(p) ==
  /\ pc[p] = "readBase" /\ BaseFits(p)
  /\ LET from == IF call[p].op = "delta" THEN call[p].base ELSE manifest[p].base
     IN  /\ base' = [base EXCEPT ![p] = files[from].graph]
         /\ visible' = [visible EXCEPT ![p] = files[from].graph]
  /\ IF call[p].op = "delta"
       THEN Write(p, "overlay")
       ELSE IF manifest[p].overlay = NoName
              THEN Opened(p)
              ELSE Goto(p, "readOverlay") /\ UNCHANGED part
  /\ UNCHANGED <<files, temps, call, manifest, faults>>

(* GraphOverlay::open binds an overlay to the base that was opened;        *)
(* validate_visible_manifest compares it with the manifest.                *)
OverlayFits(p) ==
  /\ IsOverlay(manifest[p].overlay)
  /\ files[manifest[p].overlay].base = base[p]
  /\ files[manifest[p].overlay].visible = manifest[p].visible

(* (altered) an open that keeps answering from the base                    *)
ReadOverlayIgnored(p) ==
  /\ pc[p] = "readOverlay" /\ OverlayFits(p)
  /\ Opened(p)
  /\ UNCHANGED <<files, temps, call, reads, faults>>

ReadOverlay(p) ==
  /\ pc[p] = "readOverlay" /\ OverlayFits(p)
  /\ visible' = [visible EXCEPT ![p] = files[manifest[p].overlay].visible]
  /\ Opened(p)
  /\ UNCHANGED <<files, temps, call, manifest, base, faults>>

Close(p) ==
  /\ pc[p] = "opened"
  /\ Goto(p, "idle")
  /\ UNCHANGED <<files, temps, call, part, reads, faults>>

-----------------------------------------------------------------------------
(* The three writers: try_exists, create_new and sync of a temporary file, *)
(* rename.  A temporary file is named after the output, the pid and a      *)
(* counter of the process, so only a dead process with the same pid can    *)
(* have left one of that name, and need not have.                          *)
(* (altered) a writer that does not look whether its path exists           *)
CheckNothing(p) ==
  /\ pc[p] = "exists"
  /\ Goto(p, "temp")
  /\ UNCHANGED <<files, temps, call, part, reads, faults>>

CheckAbsent(p) ==
  /\ pc[p] = "exists" /\ files[Target(p)] = Absent
  /\ Goto(p, "temp")
  /\ UNCHANGED <<files, temps, call, part, reads, faults>>

CreateTemp(p) ==
  /\ pc[p] = "temp"
  /\ Goto(p, "commit")
  /\ UNCHANGED <<files, temps, call, part, reads, faults>>

Commit(p) ==
  /\ pc[p] = "commit"
  /\ files' = [files EXCEPT ![Target(p)] = Content(p)]
  /\ Goto(p, IF part[p] = "manifest" THEN "idle" ELSE "bindBase")
  /\ UNCHANGED <<temps, call, part, reads, faults>>

(* (altered) publication from what the writer remembers                    *)
BindWithoutOpening(p) ==
  /\ pc[p] = "bindBase"
  /\ Write(p, "manifest")
  /\ UNCHANGED <<files, temps, call, reads, faults>>

(* publish_snapshot opens again, from disk, what it is going to name.      *)
BindBase(p) ==
  /\ pc[p] = "bindBase" /\ IsPacked(call[p].base)
  /\ base' = [base EXCEPT ![p] = files[call[p].base].graph]
  /\ visible' = [visible EXCEPT ![p] = files[call[p].base].graph]
  /\ IF call[p].overlay = NoName
       THEN Write(p, "manifest")
       ELSE Goto(p, "bindOverlay") /\ UNCHANGED part
  /\ UNCHANGED <<files, temps, call, manifest, faults>>

BindOverlay(p) ==
  /\ pc[p] = "bindOverlay" /\ IsOverlay(call[p].overlay)
  /\ files[call[p].overlay].base = base[p]
  /\ visible' = [visible EXCEPT ![p] = files[call[p].overlay].visible]
  /\ Write(p, "manifest")
  /\ UNCHANGED <<files, temps, call, manifest, base, faults>>

-----------------------------------------------------------------------------
(* An error ends the call.  A writer removes its temporary path, even one  *)
(* it could not create because it exists, and compact_snapshot removes its *)
(* base when publish_snapshot fails.                                       *)
(* (altered) compaction cleans up after any error                          *)
PublishingOrWriting(p) == pc[p] # "cleanup"

Publishing(p) ==
  pc[p] \in {"bindBase", "bindOverlay"} \/ part[p] = "manifest"

Abort(p) ==
  /\ Goto(p, IF call[p].op = "compact" /\ Publishing(p) THEN "cleanup" ELSE "idle")
  /\ UNCHANGED <<files, call, part, reads>>

(* The directory holds something the call refuses.                         *)
Refused(p) ==
  \/ pc[p] = "precheck" /\ files[call[p].manifest] # Absent
  \/ pc[p] = "readManifest" /\ ~IsManifest(call[p].source)
  \/ pc[p] = "readBase" /\ ~BaseFits(p)
  \/ pc[p] = "readOverlay" /\ ~OverlayFits(p)
  \/ pc[p] = "exists" /\ files[Target(p)] # Absent
  \/ pc[p] = "temp" /\ <<Target(p), p>> \in temps
  \/ pc[p] = "bindBase" /\ ~IsPacked(call[p].base)
  \/ pc[p] = "bindOverlay" /\ ~(/\ IsOverlay(call[p].overlay)
                                /\ files[call[p].overlay].base = base[p])

Refuse(p) ==
  /\ Refused(p) /\ Abort(p)
  /\ temps' = IF pc[p] = "temp" THEN temps \ {<<Target(p), p>>} ELSE temps
  /\ UNCHANGED faults

(* An operation of the file system fails.                                  *)
Fail(p) ==
  /\ pc[p] \notin {"idle", "opened", "cleanup"}
  /\ faults < MaxFaults /\ faults' = faults + 1
  /\ Abort(p)
  /\ UNCHANGED temps

(* remove_file of the compacted base; its error is ignored.                *)
Cleanup(p) ==
  /\ pc[p] = "cleanup"
  /\ Goto(p, "idle")
  /\ \/ files' = [files EXCEPT ![call[p].base] = Absent] /\ UNCHANGED faults
     \/ faults < MaxFaults /\ faults' = faults + 1 /\ UNCHANGED files
  /\ UNCHANGED <<temps, call, part, reads>>

Crash(p) ==
  /\ pc[p] # "idle"
  /\ faults < MaxFaults /\ faults' = faults + 1
  /\ Goto(p, "idle")
  /\ temps' = IF pc[p] = "commit" THEN temps \cup {<<Target(p), p>>} ELSE temps
  /\ UNCHANGED <<files, call, part, reads>>

-----------------------------------------------------------------------------
Step(p) ==
  \/ Begin(p) \/ Precheck(p) \/ ReadManifest(p) \/ ReadBase(p) \/ ReadOverlay(p)
  \/ Close(p) \/ CheckAbsent(p) \/ CreateTemp(p) \/ Commit(p) \/ BindBase(p)
  \/ BindOverlay(p) \/ Refuse(p) \/ Fail(p) \/ Cleanup(p) \/ Crash(p)

Next == \E p \in Proc : Step(p)

Spec == Init /\ [][Next]_vars

-----------------------------------------------------------------------------
(* What callers owe each other for the strongest promises: each process    *)
(* writes names of its own, as sync does with its temporary directories,   *)
(* and the manifests they start from open.                                 *)
Outputs(c) ==
  IF c.op = "open" THEN {}
  ELSE {c.manifest, IF c.op = "delta" THEN c.overlay ELSE c.base}

OwnNames ==
  \A p, q \in Proc : p # q =>
    \A c \in Call[p], d \in Call[q] : Outputs(c) \cap Outputs(d) = {}

ExistingOpens ==
  \A m \in {Existing[n] : n \in Name} : m # Absent /\ m.kind = "manifest" =>
    /\ Existing[m.base] = Packed(m.baseGraph)
    /\ IF m.overlay = NoName
         THEN m.visible = m.baseGraph
         ELSE Existing[m.overlay] = Overlay(m.baseGraph, m.visible)

-----------------------------------------------------------------------------
(* The variables have their types.                                         *)
TypeOK ==
  /\ files \in [Name -> File \cup {Absent}]
  /\ temps \subseteq Name \X Proc
  /\ pc \in [Proc -> Stage]
  /\ call \in [Proc -> Calls \cup {Absent}]
  /\ \A p \in Proc : call[p] \in Call[p] \cup {Absent}
  /\ part \in [Proc -> {"base", "overlay", "manifest"}]
  /\ manifest \in [Proc -> File \cup {Absent}]
  /\ base \in [Proc -> Graph \cup {Absent}]
  /\ visible \in [Proc -> Graph \cup {Absent}]
  /\ faults \in 0..MaxFaults

(* Every published manifest opens: whatever crashes, errors, retries and   *)
(* clean-ups did, no manifest is left without the base and the overlay it  *)
(* describes (README: "The manifest is published last, so readers never    *)
(* observe a partially assembled snapshot").                               *)
PublishedOpens == \A n \in Name : IsManifest(n) => Consistent(files[n])

(* An open that has read a manifest is never refused by what the directory *)
(* holds: no writer takes a file from under a reader between its reads.    *)
ReadersServed ==
  \A p \in Proc : call[p] # Absent /\ call[p].op \in {"open", "compact"} =>
    /\ pc[p] = "readBase" => BaseFits(p)
    /\ pc[p] = "readOverlay" => OverlayFits(p)

(* A snapshot that is open has the graph its manifest promised, even while *)
(* the files it was read from are being replaced between the reads.        *)
OpenedAsPublished ==
  \A p \in Proc : pc[p] = "opened" =>
    base[p] = manifest[p].baseGraph /\ visible[p] = manifest[p].visible

(* A file that a reader may depend on never changes or disappears.         *)
DependedImmutable ==
  [][\A n \in Name : Depended(n) => files'[n] = files[n]]_vars

(* What a directory held before any call stays, although calls may name it *)
(* as their output ("The source snapshot remains untouched").              *)
ExistingUntouched == \A n \in Name : Existing[n] # Absent => files[n] = Existing[n]

(* The directory implements a store of snapshots that are published once   *)
(* and never change (SnapshotStore): a manifest appears with its graph, a  *)
(* reader holds what was published.                                        *)
Store == INSTANCE SnapshotStore WITH
  None <- Absent,
  Existing <- [n \in Name |-> IF Existing[n] # Absent /\ Existing[n].kind = "manifest"
                               THEN Existing[n].visible ELSE Absent],
  published <- [n \in Name |-> IF IsManifest(n) /\ Consistent(files[n])
                                THEN files[n].visible ELSE Absent],
  held <- [p \in Proc |-> IF pc[p] = "opened"
                          THEN <<call[p].source, visible[p]>> ELSE Absent]

KeepsStore == Store!Spec

(* README: "Snapshot and overlay files are content-identifiable and refuse *)
(* in-place replacement": a file never becomes a different one.            *)
RefusesReplacement ==
  [][\A n \in Name : files[n] # Absent => files'[n] \in {files[n], Absent}]_vars
=============================================================================
