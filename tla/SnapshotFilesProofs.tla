------------------------ MODULE SnapshotFilesProofs -------------------------
(***************************************************************************)
(* Safety of a directory of graph snapshots for any number of processes,   *)
(* names, graphs, calls and faults.                                        *)
(*                                                                         *)
(* What a call knows by itself (Prepared) needs no assumption: types, and  *)
(* what an open snapshot was read from.  That names found absent by a      *)
(* writer were never there at the start (Careful) needs none either.  What *)
(* a call knows of the directory (Grounded) holds while processes write    *)
(* names of their own.                                                     *)
(***************************************************************************)
EXTENDS SnapshotFiles, TLAPS

-----------------------------------------------------------------------------
(* Files                                                                   *)

LEMMA PackedType ==
  ASSUME NEW g \in Graph
  PROVE  /\ Packed(g) \in File
         /\ Packed(g).kind = "packed" /\ Packed(g).graph = g
BY DEF File, Packed

LEMMA OverlayType ==
  ASSUME NEW b \in Graph, NEW v \in Graph
  PROVE  /\ Overlay(b, v) \in File
         /\ Overlay(b, v).kind = "overlay"
         /\ Overlay(b, v).base = b /\ Overlay(b, v).visible = v
BY DEF File, Overlay

LEMMA ManifestType ==
  ASSUME NEW b \in Name, NEW o \in Name \cup {NoName}, NEW bg \in Graph, NEW v \in Graph
  PROVE  /\ Manifest(b, o, bg, v) \in File
         /\ Manifest(b, o, bg, v).kind = "manifest"
         /\ Manifest(b, o, bg, v).base = b /\ Manifest(b, o, bg, v).overlay = o
         /\ Manifest(b, o, bg, v).baseGraph = bg /\ Manifest(b, o, bg, v).visible = v
BY DEF File, Manifest

\* A file of a kind has the fields of that kind.
LEMMA FileFields ==
  ASSUME NEW f \in File
  PROVE  /\ f.kind \in {"packed", "overlay", "manifest"}
         /\ f.kind = "packed" => f.graph \in Graph /\ f = Packed(f.graph)
         /\ f.kind = "overlay" =>
              f.base \in Graph /\ f.visible \in Graph /\ f = Overlay(f.base, f.visible)
         /\ f.kind = "manifest" =>
              /\ f.base \in Name /\ f.overlay \in Name \cup {NoName}
              /\ f.baseGraph \in Graph /\ f.visible \in Graph
<1>1. CASE \E g \in Graph : f = Packed(g)
  BY <1>1 DEF Packed
<1>2. CASE \E b \in Graph, v \in Graph : f = Overlay(b, v)
  BY <1>2 DEF Overlay
<1>3. CASE \E b \in Name, o \in Name \cup {NoName}, bg \in Graph, v \in Graph :
             f = Manifest(b, o, bg, v)
  BY <1>3 DEF Manifest
<1> QED BY <1>1, <1>2, <1>3 DEF File

LEMMA CallFields ==
  ASSUME NEW p \in Proc, NEW c \in Call[p]
  PROVE  c \in Calls /\ WellFormed(c) /\ c # Absent
BY CallAssumption, SentinelAssumption

-----------------------------------------------------------------------------
(* What a call knows by itself                                             *)

Publisher(c) == c.op \in {"create", "delta", "compact"}

ReadsManifest(c) == c.op \in {"open", "compact"} /\ c.source \in Name

HasManifest(p) == manifest[p] \in File /\ manifest[p].kind = "manifest"

(* The artefact at hand is one that the call writes, and its content is    *)
(* known.                                                                  *)
WritesPart(p) ==
  /\ Publisher(call[p])
  /\ part[p] = "base" =>
       /\ call[p].op \in {"create", "compact"}
       /\ call[p].op = "compact" => visible[p] \in Graph
  /\ part[p] = "overlay" => call[p].op = "delta" /\ base[p] \in Graph
  /\ part[p] = "manifest" => base[p] \in Graph /\ visible[p] \in Graph

Prepared(p) ==
  /\ pc[p] # "idle" => call[p] \in Call[p]
  /\ pc[p] \in {"precheck", "cleanup"} => call[p].op = "compact"
  /\ pc[p] \in {"readManifest", "readOverlay"} => ReadsManifest(call[p])
  /\ pc[p] = "readBase" => call[p].op = "delta" \/ (ReadsManifest(call[p]) /\ HasManifest(p))
  /\ pc[p] \in {"precheck", "readManifest", "readBase", "readOverlay", "opened"} =>
       part[p] = "base"
  /\ pc[p] = "readOverlay" =>
       /\ HasManifest(p) /\ manifest[p].overlay \in Name
       /\ base[p] = manifest[p].baseGraph
  /\ pc[p] = "opened" =>
       /\ call[p].op = "open" /\ call[p].source \in Name /\ HasManifest(p)
       /\ base[p] = manifest[p].baseGraph /\ visible[p] = manifest[p].visible
  /\ pc[p] \in {"exists", "temp", "commit"} => WritesPart(p)
  /\ pc[p] \in {"bindBase", "bindOverlay"} =>
       /\ Publisher(call[p])
       /\ part[p] = IF call[p].op = "delta" THEN "overlay" ELSE "base"
  /\ pc[p] = "bindOverlay" => call[p].op = "delta" /\ base[p] \in Graph

LocalInv == TypeOK /\ \A p \in Proc : Prepared(p)

(* A step of one process changes what it knows itself only.                *)
Others(p) ==
  \A q \in Proc \ {p} :
    /\ pc'[q] = pc[q] /\ call'[q] = call[q] /\ part'[q] = part[q]
    /\ manifest'[q] = manifest[q] /\ base'[q] = base[q] /\ visible'[q] = visible[q]

LEMMA StepOthers ==
  ASSUME TypeOK, NEW p \in Proc, Step(p)
  PROVE  Others(p)
<1>1. CASE Begin(p)
  BY <1>1 DEF TypeOK, Others, Begin, Goto
<1>2. CASE Precheck(p) \/ ReadManifest(p) \/ Close(p) \/ CheckAbsent(p) \/ CreateTemp(p)
  BY <1>2 DEF TypeOK, Others, Precheck, ReadManifest, Close, CheckAbsent, CreateTemp, Goto, reads
<1>3. CASE ReadBase(p) \/ ReadOverlay(p)
  BY <1>3 DEF TypeOK, Others, ReadBase, ReadOverlay, Opened, Write, Goto
<1>4. CASE Commit(p) \/ BindBase(p) \/ BindOverlay(p)
  BY <1>4 DEF TypeOK, Others, Commit, BindBase, BindOverlay, Write, Goto, reads
<1>5. CASE Refuse(p) \/ Fail(p) \/ Cleanup(p) \/ Crash(p)
  BY <1>5 DEF TypeOK, Others, Refuse, Fail, Cleanup, Crash, Abort, Goto, reads
<1> QED BY <1>1, <1>2, <1>3, <1>4, <1>5 DEF Step

LEMMA InitLocal == Init => LocalInv
<1> SUFFICES ASSUME Init PROVE LocalInv
  OBVIOUS
<1>1. TypeOK
  BY ExistingAssumption, FaultAssumption DEF Init, TypeOK, Stage
<1> QED BY <1>1 DEF Init, LocalInv, Prepared

\* What a writer commits is a file, under a name of the directory.
LEMMA TargetType ==
  ASSUME LocalInv, NEW p \in Proc, pc[p] \in {"exists", "temp", "commit"}
  PROVE  Target(p) \in Name /\ Content(p) \in File
<1>1. /\ call[p] \in Call[p] /\ WritesPart(p)
      /\ part[p] \in {"base", "overlay", "manifest"}
  BY DEF LocalInv, Prepared, TypeOK
<1>2. WellFormed(call[p]) /\ call[p] \in Calls
  BY <1>1, CallFields
<1>3. Target(p) \in Name
  BY <1>1, <1>2 DEF WritesPart, Publisher, WellFormed, Target
<1>4. CASE part[p] = "base"
  BY <1>1, <1>2, <1>3, <1>4, PackedType DEF WritesPart, WellFormed, Content
<1>5. CASE part[p] = "overlay"
  BY <1>1, <1>2, <1>3, <1>5, OverlayType DEF WritesPart, WellFormed, Content
<1>6. CASE part[p] = "manifest"
  <2>1. call[p].base \in Name /\ call[p].overlay \in Name \cup {NoName}
    BY <1>1, <1>2 DEF WritesPart, Publisher, WellFormed, Calls
  <2>2. base[p] \in Graph /\ visible[p] \in Graph
    BY <1>1, <1>6 DEF WritesPart
  <2> QED BY <1>3, <1>6, <2>1, <2>2, ManifestType DEF Content
<1> QED BY <1>1, <1>3, <1>4, <1>5, <1>6

\* An error leads to the clean-up of a compaction or ends the call.
LEMMA AbortPrepared ==
  ASSUME LocalInv, NEW p \in Proc, pc[p] # "idle", Abort(p)
  PROVE  Prepared(p)' /\ UNCHANGED <<files, call, part, reads>>
         /\ pc' \in [Proc -> Stage]
BY DEF LocalInv, TypeOK, Stage, Abort, Goto, Prepared, reads

LEMMA LocalStep ==
  ASSUME LocalInv, NEW p \in Proc, Step(p)
  PROVE  TypeOK' /\ Prepared(p)'
<1>1. CASE Begin(p)
  <2>1. PICK c \in Call[p] :
          /\ call' = [call EXCEPT ![p] = c]
          /\ part' = [part EXCEPT ![p] = "base"]
          /\ Goto(p, CASE c.op = "create" -> "exists"
                       [] c.op = "delta" -> "readBase"
                       [] c.op = "compact" -> "precheck"
                       [] OTHER -> "readManifest")
          /\ manifest' = [manifest EXCEPT ![p] = Absent]
          /\ base' = [base EXCEPT ![p] = Absent]
          /\ visible' = [visible EXCEPT ![p] = Absent]
          /\ UNCHANGED <<files, temps, faults>>
    BY <1>1 DEF Begin
  <2>2. WellFormed(c) /\ c \in Calls
    BY CallFields
  <2>3. TypeOK'
    BY <2>1, <2>2 DEF LocalInv, TypeOK, Goto, Stage
  <2>4. /\ call'[p] = c /\ part'[p] = "base"
        /\ pc'[p] = CASE c.op = "create" -> "exists" [] c.op = "delta" -> "readBase"
                      [] c.op = "compact" -> "precheck" [] OTHER -> "readManifest"
    BY <2>1 DEF LocalInv, TypeOK, Goto
  <2>5. c.op \in Operation
    BY <2>2 DEF Calls
  <2> QED BY <2>2, <2>3, <2>4, <2>5
        DEF Prepared, Operation, WellFormed, ReadsManifest, WritesPart, Publisher
<1>2. CASE Precheck(p)
  <2>1. WellFormed(call[p]) /\ call[p] \in Call[p]
    BY <1>2, CallFields DEF LocalInv, Prepared, Precheck
  <2>2. call[p].source \in Name
    BY <1>2, <2>1 DEF LocalInv, Prepared, Precheck, WellFormed
  <2> QED BY <1>2, <2>1, <2>2
        DEF LocalInv, TypeOK, Precheck, Goto, Stage, reads, Prepared, ReadsManifest
<1>3. CASE ReadManifest(p)
  <2>1. /\ call[p] \in Call[p] /\ call[p].source \in Name /\ part[p] = "base"
        /\ ReadsManifest(call[p])
    BY <1>3 DEF LocalInv, Prepared, ReadManifest, ReadsManifest
  <2>2. files[call[p].source] \in File /\ files[call[p].source].kind = "manifest"
    BY <1>3, <2>1 DEF LocalInv, TypeOK, ReadManifest, IsManifest
  <2> QED BY <1>3, <2>1, <2>2
        DEF LocalInv, TypeOK, ReadManifest, Goto, Stage, reads, Prepared, HasManifest
<1>4. CASE ReadBase(p)
  <2> DEFINE from == IF call[p].op = "delta" THEN call[p].base ELSE manifest[p].base
  <2>1. call[p] \in Call[p] /\ part[p] = "base" /\ WellFormed(call[p])
    BY <1>4, CallFields DEF LocalInv, Prepared, ReadBase
  <2>2. IsPacked(from)
    BY <1>4 DEF ReadBase, BaseFits
  <2>3. files[from] \in File /\ files[from].kind = "packed"
    BY <2>2 DEF LocalInv, TypeOK, IsPacked
  <2>4. files[from].graph \in Graph
    BY <2>3, FileFields
  <2>5. /\ base'[p] = files[from].graph /\ visible'[p] = files[from].graph
        /\ call'[p] = call[p] /\ manifest'[p] = manifest[p]
    BY <1>4 DEF ReadBase, LocalInv, TypeOK
  <2>6. CASE call[p].op = "delta"
    <3>1. pc' = [pc EXCEPT ![p] = "exists"] /\ part' = [part EXCEPT ![p] = "overlay"]
      BY <1>4, <2>6 DEF ReadBase, Write, Goto
    <3>2. TypeOK'
      BY <1>4, <2>4, <3>1 DEF ReadBase, LocalInv, TypeOK, Stage
    <3> QED BY <2>1, <2>4, <2>5, <2>6, <3>1, <3>2
          DEF LocalInv, TypeOK, Prepared, WritesPart, Publisher
  <2>7. CASE call[p].op # "delta"
    <3>1. ReadsManifest(call[p]) /\ HasManifest(p)
      BY <1>4, <2>7 DEF LocalInv, Prepared, ReadBase
    <3>2. /\ files[from].graph = manifest[p].baseGraph
          /\ manifest[p].overlay = NoName => manifest[p].visible = manifest[p].baseGraph
          /\ manifest[p].overlay \in Name \cup {NoName}
      BY <1>4, <2>7, <3>1, FileFields DEF ReadBase, BaseFits, HasManifest
    <3>3. CASE manifest[p].overlay = NoName /\ call[p].op = "open"
      <4>1. pc' = [pc EXCEPT ![p] = "opened"] /\ part' = part
        BY <1>4, <2>7, <3>3 DEF ReadBase, Opened, Goto
      <4>2. TypeOK'
        BY <1>4, <2>4, <4>1 DEF ReadBase, LocalInv, TypeOK, Stage
      <4> QED BY <2>1, <2>5, <3>1, <3>2, <3>3, <4>1, <4>2
            DEF LocalInv, TypeOK, Prepared, ReadsManifest, HasManifest
    <3>4. CASE manifest[p].overlay = NoName /\ call[p].op # "open"
      <4>1. pc' = [pc EXCEPT ![p] = "exists"] /\ part' = [part EXCEPT ![p] = "base"]
        BY <1>4, <2>7, <3>4 DEF ReadBase, Opened, Write, Goto
      <4>2. TypeOK'
        BY <1>4, <2>4, <4>1 DEF ReadBase, LocalInv, TypeOK, Stage
      <4> QED BY <2>1, <2>4, <2>5, <3>1, <3>4, <4>1, <4>2
            DEF LocalInv, TypeOK, Prepared, ReadsManifest, WritesPart, Publisher
    <3>5. CASE manifest[p].overlay # NoName
      <4>1. pc' = [pc EXCEPT ![p] = "readOverlay"] /\ part' = part
        BY <1>4, <2>7, <3>5 DEF ReadBase, Goto
      <4>2. TypeOK'
        BY <1>4, <2>4, <4>1 DEF ReadBase, LocalInv, TypeOK, Stage
      <4> QED BY <2>1, <2>5, <3>1, <3>2, <3>5, <4>1, <4>2
            DEF LocalInv, TypeOK, Prepared, ReadsManifest, HasManifest
    <3> QED BY <3>3, <3>4, <3>5
  <2> QED BY <2>6, <2>7
<1>5. CASE ReadOverlay(p)
  <2>1. /\ call[p] \in Call[p] /\ part[p] = "base" /\ ReadsManifest(call[p])
        /\ HasManifest(p) /\ base[p] = manifest[p].baseGraph
    BY <1>5 DEF LocalInv, Prepared, ReadOverlay
  <2>2. /\ IsOverlay(manifest[p].overlay)
        /\ files[manifest[p].overlay].visible = manifest[p].visible
    BY <1>5 DEF ReadOverlay, OverlayFits
  <2>3. manifest[p].visible \in Graph
    BY <2>1, FileFields DEF HasManifest
  <2>4. /\ visible'[p] = manifest[p].visible /\ base'[p] = base[p]
        /\ call'[p] = call[p] /\ manifest'[p] = manifest[p]
    BY <1>5, <2>2 DEF ReadOverlay, LocalInv, TypeOK
  <2>5. CASE call[p].op = "open"
    <3>1. pc' = [pc EXCEPT ![p] = "opened"] /\ part' = part
      BY <1>5, <2>5 DEF ReadOverlay, Opened, Goto
    <3>2. TypeOK'
      BY <1>5, <2>2, <2>3, <3>1 DEF ReadOverlay, LocalInv, TypeOK, Stage
    <3> QED BY <2>1, <2>4, <2>5, <3>1, <3>2
          DEF LocalInv, TypeOK, Prepared, ReadsManifest, HasManifest
  <2>6. CASE call[p].op # "open"
    <3>1. pc' = [pc EXCEPT ![p] = "exists"] /\ part' = [part EXCEPT ![p] = "base"]
      BY <1>5, <2>6 DEF ReadOverlay, Opened, Write, Goto
    <3>2. TypeOK'
      BY <1>5, <2>2, <2>3, <3>1 DEF ReadOverlay, LocalInv, TypeOK, Stage
    <3> QED BY <2>1, <2>3, <2>4, <2>6, <3>1, <3>2
          DEF LocalInv, TypeOK, Prepared, ReadsManifest, WritesPart, Publisher
  <2> QED BY <2>5, <2>6
<1>6. CASE Close(p)
  BY <1>6 DEF LocalInv, TypeOK, Close, Goto, Stage, reads, Prepared
<1>7. CASE CheckAbsent(p) \/ CreateTemp(p)
  <2>1. pc[p] \in {"exists", "temp"} /\ WritesPart(p) /\ call[p] \in Call[p]
    BY <1>7 DEF LocalInv, Prepared, CheckAbsent, CreateTemp
  <2>2. pc'[p] \in {"temp", "commit"} /\ UNCHANGED <<files, temps, call, part, reads, faults>>
    BY <1>7 DEF LocalInv, TypeOK, CheckAbsent, CreateTemp, Goto
  <2>3. TypeOK'
    BY <1>7, <2>2 DEF LocalInv, TypeOK, CheckAbsent, CreateTemp, Goto, Stage, reads
  <2> QED BY <2>1, <2>2, <2>3 DEF Prepared, WritesPart, reads
<1>8. CASE Commit(p)
  <2>1. WritesPart(p) /\ call[p] \in Call[p] /\ part[p] \in {"base", "overlay", "manifest"}
    BY <1>8 DEF LocalInv, TypeOK, Prepared, Commit
  <2>2. Content(p) \in File /\ Target(p) \in Name
    BY <1>8, TargetType DEF Commit
  <2>3. /\ pc'[p] = IF part[p] = "manifest" THEN "idle" ELSE "bindBase"
        /\ UNCHANGED <<temps, call, part, reads, faults>>
    BY <1>8 DEF LocalInv, TypeOK, Commit, Goto
  <2>4. TypeOK'
    BY <1>8, <2>2, <2>3 DEF LocalInv, TypeOK, Commit, Goto, Stage, reads
  <2> QED BY <2>1, <2>3, <2>4 DEF Prepared, WritesPart, reads
<1>9. CASE BindBase(p)
  <2>1. /\ call[p] \in Call[p] /\ Publisher(call[p])
        /\ part[p] = IF call[p].op = "delta" THEN "overlay" ELSE "base"
    BY <1>9 DEF LocalInv, Prepared, BindBase
  <2>2. files[call[p].base] \in File /\ files[call[p].base].kind = "packed"
    BY <1>9 DEF LocalInv, TypeOK, BindBase, IsPacked
  <2>3. files[call[p].base].graph \in Graph
    BY <2>2, FileFields
  <2>4. /\ base'[p] \in Graph /\ visible'[p] \in Graph
        /\ call'[p] = call[p] /\ manifest'[p] = manifest[p]
    BY <1>9, <2>3 DEF LocalInv, TypeOK, BindBase
  <2>5. CASE call[p].overlay = NoName
    <3>1. pc' = [pc EXCEPT ![p] = "exists"] /\ part' = [part EXCEPT ![p] = "manifest"]
      BY <1>9, <2>5 DEF BindBase, Write, Goto
    <3>2. TypeOK'
      BY <1>9, <2>3, <3>1 DEF BindBase, LocalInv, TypeOK, Stage
    <3> QED BY <2>1, <2>4, <3>1, <3>2 DEF LocalInv, TypeOK, Prepared, WritesPart
  <2>6. CASE call[p].overlay # NoName
    <3>1. pc' = [pc EXCEPT ![p] = "bindOverlay"] /\ part' = part
      BY <1>9, <2>6 DEF BindBase, Goto
    <3>2. TypeOK'
      BY <1>9, <2>3, <3>1 DEF BindBase, LocalInv, TypeOK, Stage
    <3>3. call[p].op = "delta"
      BY <2>1, <2>6, CallFields DEF WellFormed
    <3> QED BY <2>1, <2>4, <3>1, <3>2, <3>3 DEF LocalInv, TypeOK, Prepared
  <2> QED BY <2>5, <2>6
<1>10. CASE BindOverlay(p)
  <2>1. call[p] \in Call[p] /\ Publisher(call[p]) /\ base[p] \in Graph
    BY <1>10 DEF LocalInv, Prepared, BindOverlay
  <2>2. files[call[p].overlay] \in File /\ files[call[p].overlay].kind = "overlay"
    BY <1>10 DEF LocalInv, TypeOK, BindOverlay, IsOverlay
  <2>3. files[call[p].overlay].visible \in Graph
    BY <2>2, FileFields
  <2>4. pc' = [pc EXCEPT ![p] = "exists"] /\ part' = [part EXCEPT ![p] = "manifest"]
    BY <1>10 DEF BindOverlay, Write, Goto
  <2>5. /\ visible'[p] \in Graph
        /\ base'[p] = base[p] /\ call'[p] = call[p] /\ manifest'[p] = manifest[p]
    BY <1>10, <2>3 DEF LocalInv, TypeOK, BindOverlay
  <2>6. TypeOK'
    BY <1>10, <2>3, <2>4 DEF BindOverlay, LocalInv, TypeOK, Stage
  <2> QED BY <2>1, <2>4, <2>5, <2>6 DEF LocalInv, TypeOK, Prepared, WritesPart
<1>11. CASE Refuse(p) \/ Fail(p)
  <2>1. pc[p] # "idle" /\ Abort(p) /\ temps' \subseteq temps /\ faults' \in 0..MaxFaults
    BY <1>11, FaultAssumption DEF LocalInv, TypeOK, Refuse, Refused, Fail
  <2> QED BY <2>1, AbortPrepared DEF LocalInv, TypeOK, reads
<1>12. CASE Cleanup(p)
  <2>1. call[p] \in Call[p] /\ call[p].op = "compact"
    BY <1>12 DEF LocalInv, Prepared, Cleanup
  <2>2. call[p].base \in Name
    BY <2>1, CallFields DEF WellFormed
  <2>3. files' \in [Name -> File \cup {Absent}] /\ faults' \in 0..MaxFaults
    BY <1>12, <2>2, FaultAssumption DEF LocalInv, TypeOK, Cleanup
  <2>4. pc' = [pc EXCEPT ![p] = "idle"]
    BY <1>12 DEF Cleanup, Goto
  <2> QED BY <1>12, <2>3, <2>4 DEF LocalInv, TypeOK, Cleanup, Stage, reads, Prepared
<1>13. CASE Crash(p)
  <2>1. pc[p] = "commit" => Target(p) \in Name
    BY TargetType
  <2>2. temps' \subseteq Name \X Proc /\ faults' \in 0..MaxFaults
    BY <1>13, <2>1, FaultAssumption DEF LocalInv, TypeOK, Crash
  <2> QED BY <1>13, <2>2 DEF LocalInv, TypeOK, Crash, Goto, Stage, reads, Prepared
<1> QED BY <1>1, <1>2, <1>3, <1>4, <1>5, <1>6, <1>7, <1>8, <1>9, <1>10, <1>11, <1>12, <1>13
      DEF Step

LEMMA LocalNext == LocalInv /\ [Next]_vars => LocalInv'
<1> SUFFICES ASSUME LocalInv, [Next]_vars PROVE LocalInv'
  OBVIOUS
<1>1. ASSUME NEW p \in Proc, Step(p)
      PROVE  LocalInv'
  <2>1. TypeOK' /\ Prepared(p)' /\ Others(p)
    BY <1>1, LocalStep, StepOthers DEF LocalInv
  <2>2. \A q \in Proc \ {p} : Prepared(q)'
    BY <2>1 DEF LocalInv, Others, Prepared, HasManifest, WritesPart
  <2> QED BY <2>1, <2>2 DEF LocalInv
<1>2. CASE UNCHANGED vars
  BY <1>2 DEF vars, reads, LocalInv, TypeOK, Prepared, HasManifest, WritesPart
<1> QED BY <1>1, <1>2 DEF Next

THEOREM LocalInvariant == Spec => []LocalInv
BY InitLocal, LocalNext, PTL DEF Spec

\* The variables have their types, whatever the processes call.
THEOREM TypeCorrect == Spec => []TypeOK
<1>1. LocalInv => TypeOK
  BY DEF LocalInv
<1> QED BY <1>1, LocalInvariant, PTL

\* A snapshot that is open has the graph its manifest promised, even while its
\* files are being replaced between the reads (GraphSnapshot::open).
THEOREM OpenSnapshotsAsPublished == Spec => []OpenedAsPublished
<1>1. LocalInv => OpenedAsPublished
  BY DEF LocalInv, Prepared, OpenedAsPublished
<1> QED BY <1>1, LocalInvariant, PTL

-----------------------------------------------------------------------------
(* What was there at the start                                             *)

(* The call has committed its base or overlay, and not yet its manifest.   *)
Unpublished(p) ==
  \/ pc[p] \in {"bindBase", "bindOverlay", "cleanup"}
  \/ pc[p] \in {"exists", "temp", "commit"} /\ part[p] = "manifest"

(* A writer has found its target absent, and a compaction that may clean   *)
(* up its base.                                                            *)
Careful(p) ==
  /\ pc[p] \in {"temp", "commit"} => Existing[Target(p)] = Absent
  /\ Unpublished(p) /\ call[p].op = "compact" => Existing[call[p].base] = Absent

CarefulInv == LocalInv /\ ExistingUntouched /\ \A p \in Proc : Careful(p)

LEMMA FilesChanged ==
  ASSUME NEW p \in Proc, Step(p)
  PROVE  UNCHANGED files \/ Commit(p) \/ Cleanup(p)
<1>1. CASE ReadBase(p) \/ ReadOverlay(p)
  BY <1>1 DEF ReadBase, ReadOverlay
<1>2. CASE BindBase(p) \/ BindOverlay(p) \/ CheckAbsent(p) \/ CreateTemp(p)
  BY <1>2 DEF BindBase, BindOverlay, CheckAbsent, CreateTemp
<1>3. CASE Begin(p) \/ Precheck(p) \/ ReadManifest(p) \/ Close(p)
  BY <1>3 DEF Begin, Precheck, ReadManifest, Close
<1>4. CASE Refuse(p) \/ Fail(p) \/ Crash(p)
  BY <1>4 DEF Refuse, Fail, Crash, Abort
<1> QED BY <1>1, <1>2, <1>3, <1>4 DEF Step

\* A call cleans up only if it had come to publish a compaction.
LEMMA CleanupUnpublished ==
  ASSUME LocalInv, NEW p \in Proc, Refuse(p) \/ Fail(p)
  PROVE  /\ pc'[p] \in {"idle", "cleanup"}
         /\ pc'[p] = "cleanup" => Unpublished(p) /\ call[p].op = "compact"
         /\ call' = call /\ part' = part /\ base' = base /\ visible' = visible
         /\ manifest' = manifest /\ files' = files
<1>1. Abort(p) /\ pc[p] \notin {"idle", "opened", "cleanup"} /\ pc[p] \in Stage
  BY DEF LocalInv, TypeOK, Refuse, Refused, Fail
<1>2. pc'[p] = IF call[p].op = "compact" /\ Publishing(p) THEN "cleanup" ELSE "idle"
  BY <1>1 DEF LocalInv, TypeOK, Abort, Goto
<1>3. Publishing(p) => Unpublished(p)
  BY <1>1 DEF LocalInv, Prepared, Publishing, Unpublished, Stage
<1> QED BY <1>1, <1>2, <1>3 DEF Abort, reads

LEMMA CarefulStep ==
  ASSUME CarefulInv, NEW p \in Proc, Step(p)
  PROVE  ExistingUntouched' /\ Careful(p)'
<1> USE DEF CarefulInv
<1>1. LocalInv /\ TypeOK /\ Prepared(p) /\ Careful(p)
  BY DEF LocalInv
<1>2. CASE Begin(p)
  <2>1. files' = files /\ part'[p] = "base" /\ pc'[p] \notin {"bindBase", "bindOverlay", "cleanup"}
        /\ pc'[p] \notin {"temp", "commit"}
    BY <1>1, <1>2 DEF TypeOK, Begin, Goto
  <2> QED BY <2>1 DEF ExistingUntouched, Careful, Unpublished
<1>3. CASE Precheck(p) \/ ReadManifest(p) \/ Close(p) \/ Crash(p)
  <2>1. files' = files /\ pc'[p] \in {"readManifest", "readBase", "idle"}
    BY <1>1, <1>3 DEF TypeOK, Precheck, ReadManifest, Close, Crash, Goto
  <2> QED BY <2>1 DEF ExistingUntouched, Careful, Unpublished
<1>4. CASE ReadBase(p) \/ ReadOverlay(p)
  <2>1. /\ files' = files /\ pc'[p] \in {"opened", "exists", "readOverlay"}
        /\ pc'[p] = "exists" => part'[p] \in {"base", "overlay"}
    BY <1>1, <1>4 DEF TypeOK, ReadBase, ReadOverlay, Opened, Write, Goto
  <2> QED BY <2>1 DEF ExistingUntouched, Careful, Unpublished
<1>5. CASE CheckAbsent(p) \/ CreateTemp(p)
  <2>1. /\ pc[p] \in {"exists", "temp"} /\ pc'[p] \in {"temp", "commit"}
        /\ UNCHANGED <<files, call, part>>
    BY <1>1, <1>5 DEF TypeOK, CheckAbsent, CreateTemp, Goto
  <2>2. Existing[Target(p)] = Absent
    <3>1. CASE CheckAbsent(p)
      <4>1. Target(p) \in Name /\ files[Target(p)] = Absent
        BY <1>1, <3>1, TargetType DEF CheckAbsent
      <4> QED BY <4>1 DEF ExistingUntouched
    <3>2. CASE CreateTemp(p)
      BY <1>1, <3>2 DEF CreateTemp, Careful
    <3> QED BY <1>5, <3>1, <3>2
  <2>3. Target(p)' = Target(p)
    BY <2>1 DEF Target
  <2> QED BY <1>1, <2>1, <2>2, <2>3 DEF ExistingUntouched, Careful, Unpublished
<1>6. CASE Commit(p)
  <2>1. /\ pc'[p] = IF part[p] = "manifest" THEN "idle" ELSE "bindBase"
        /\ UNCHANGED <<call, part>>
        /\ files' = [files EXCEPT ![Target(p)] = Content(p)]
        /\ pc[p] = "commit"
    BY <1>1, <1>6 DEF TypeOK, Commit, Goto
  <2>2. Existing[Target(p)] = Absent
    BY <1>1, <2>1 DEF Careful
  <2>3. ExistingUntouched'
    BY <1>1, <2>1, <2>2 DEF TypeOK, ExistingUntouched
  <2>4. part[p] # "manifest" /\ call[p].op = "compact" => Target(p) = call[p].base
    BY <1>1, <2>1 DEF TypeOK, Prepared, WritesPart, Target
  <2> QED BY <2>1, <2>2, <2>3, <2>4 DEF Careful, Unpublished
<1>7. CASE BindBase(p) \/ BindOverlay(p)
  <2>1. /\ pc[p] \in {"bindBase", "bindOverlay"} /\ pc'[p] \in {"exists", "bindOverlay"}
        /\ UNCHANGED <<files, call>>
    BY <1>1, <1>7 DEF TypeOK, BindBase, BindOverlay, Write, Goto
  <2> QED BY <1>1, <2>1 DEF ExistingUntouched, Careful, Unpublished
<1>8. CASE Refuse(p) \/ Fail(p)
  BY <1>1, <1>8, CleanupUnpublished DEF ExistingUntouched, Careful, Unpublished
<1>9. CASE Cleanup(p)
  <2>1. Existing[call[p].base] = Absent
    BY <1>1, <1>9 DEF Cleanup, Prepared, Careful, Unpublished
  <2>2. pc'[p] = "idle"
    BY <1>1, <1>9 DEF TypeOK, Cleanup, Goto
  <2>3. ExistingUntouched'
    BY <1>1, <1>9, <2>1 DEF TypeOK, Cleanup, ExistingUntouched
  <2> QED BY <2>2, <2>3 DEF Careful, Unpublished
<1> QED BY <1>2, <1>3, <1>4, <1>5, <1>6, <1>7, <1>8, <1>9 DEF Step

\* What a directory held before any call stays, whatever names the calls use
\* (README: "The source snapshot remains untouched").
THEOREM ExistingFilesStay == Spec => []ExistingUntouched
<1>1. Init => CarefulInv
  BY InitLocal DEF Init, CarefulInv, ExistingUntouched, Careful, Unpublished
<1>2. CarefulInv /\ [Next]_vars => CarefulInv'
  <2> SUFFICES ASSUME CarefulInv, [Next]_vars PROVE CarefulInv'
    OBVIOUS
  <2>1. LocalInv'
    BY LocalNext DEF CarefulInv
  <2>2. ASSUME NEW p \in Proc, Step(p)
        PROVE  CarefulInv'
    <3>1. Others(p) /\ ExistingUntouched' /\ Careful(p)'
      BY <2>2, StepOthers, CarefulStep DEF CarefulInv, LocalInv
    <3>2. \A q \in Proc \ {p} : Careful(q)'
      BY <3>1 DEF CarefulInv, Others, Careful, Unpublished, Target
    <3> QED BY <2>1, <3>1, <3>2 DEF CarefulInv
  <2>3. CASE UNCHANGED vars
    BY <2>1, <2>3 DEF vars, CarefulInv, ExistingUntouched, Careful, Unpublished, Target
  <2> QED BY <2>2, <2>3 DEF Next
<1>3. CarefulInv => ExistingUntouched
  BY DEF CarefulInv
<1> QED BY <1>1, <1>2, <1>3, PTL DEF Spec

-----------------------------------------------------------------------------
(* What a call knows of the directory                                      *)

(* What a call has written and not yet published.                          *)
Private(p) ==
  IF Unpublished(p)
    THEN {IF call[p].op = "delta" THEN call[p].overlay ELSE call[p].base}
    ELSE {}

Grounded(p) ==
  /\ pc[p] \in {"temp", "commit"} => files[Target(p)] = Absent
  /\ \A n \in Private(p) : ~ Depended(n)
  /\ pc[p] \in {"readBase", "exists", "temp", "commit", "bindBase", "bindOverlay"}
       /\ call[p].op = "delta" =>
       \E m \in Name : IsManifest(m) /\ files[m].base = call[p].base
  /\ \/ pc[p] = "bindOverlay"
     \/ pc[p] \in {"exists", "temp", "commit"} /\ part[p] = "overlay"
     => IsPacked(call[p].base) /\ files[call[p].base].graph = base[p]
  /\ pc[p] \in {"exists", "temp", "commit"} /\ part[p] = "manifest" =>
       Consistent(Manifest(call[p].base, call[p].overlay, base[p], visible[p]))
  /\ pc[p] \in {"readBase", "readOverlay", "opened"} /\ call[p].op # "delta" =>
       IsManifest(call[p].source) /\ files[call[p].source] = manifest[p]

OwnInv == LocalInv /\ PublishedOpens /\ \A p \in Proc : Grounded(p)

LEMMA OutputsType ==
  ASSUME NEW p \in Proc, NEW c \in Call[p], c.op # "open"
  PROVE  /\ Outputs(c) \subseteq Name /\ Publisher(c) /\ c.manifest \in Outputs(c)
         /\ c.op = "delta" => c.overlay \in Outputs(c)
         /\ c.op # "delta" => c.base \in Outputs(c)
BY CallFields DEF WellFormed, Calls, Operation, Outputs, Publisher

\* A manifest and what it names exist.
LEMMA DependedExists ==
  ASSUME PublishedOpens, NEW n \in Name, Depended(n)
  PROVE  files[n] # Absent
<1>1. CASE IsManifest(n)
  BY <1>1 DEF IsManifest
<1>2. ASSUME NEW m \in Name, IsManifest(m), n \in {files[m].base, files[m].overlay}
      PROVE  files[n] # Absent
  BY <1>2, SentinelAssumption DEF PublishedOpens, Consistent, IsPacked, IsOverlay
<1> QED BY <1>1, <1>2 DEF Depended

LEMMA TargetOutput ==
  ASSUME LocalInv, NEW p \in Proc, pc[p] \in {"exists", "temp", "commit"}
  PROVE  call[p] \in Call[p] /\ call[p].op # "open" /\ Target(p) \in Outputs(call[p])
<1>1. call[p] \in Call[p] /\ WritesPart(p) /\ part[p] \in {"base", "overlay", "manifest"}
  BY DEF LocalInv, TypeOK, Prepared
<1>2. call[p].op # "open"
  BY <1>1 DEF WritesPart, Publisher
<1> QED BY <1>1, <1>2, OutputsType DEF WritesPart, Target

LEMMA PrivateOutput ==
  ASSUME LocalInv, NEW p \in Proc
  PROVE  /\ Private(p) \subseteq Name
         /\ Private(p) # {} => call[p] \in Call[p] /\ call[p].op # "open"
         /\ Private(p) \subseteq Outputs(call[p])
<1>1. CASE Unpublished(p)
  <2>1. call[p] \in Call[p] /\ Publisher(call[p])
    BY <1>1 DEF LocalInv, Prepared, Unpublished, WritesPart, Publisher
  <2> QED BY <1>1, <2>1, OutputsType DEF Private, Publisher
<1>2. CASE ~ Unpublished(p)
  BY <1>2 DEF Private
<1> QED BY <1>1, <1>2

\* A step changes at most one file, an output of its call that nobody names.
LEMMA ChangedFile ==
  ASSUME OwnInv, NEW p \in Proc, Step(p)
  PROVE  \/ UNCHANGED files
         \/ \E n \in Outputs(call[p]) :
              /\ n \in Name /\ ~ Depended(n) /\ call[p] \in Call[p]
              /\ \A k \in Name \ {n} : files'[k] = files[k]
<1>1. CASE Commit(p)
  <2>1. Target(p) \in Name /\ Target(p) \in Outputs(call[p]) /\ call[p] \in Call[p]
    BY <1>1, TargetType, TargetOutput DEF OwnInv, Commit
  <2>2. files[Target(p)] = Absent
    BY <1>1 DEF OwnInv, Grounded, Commit
  <2>3. ~ Depended(Target(p))
    BY <2>1, <2>2, DependedExists DEF OwnInv
  <2> QED BY <1>1, <2>1, <2>3 DEF OwnInv, LocalInv, TypeOK, Commit
<1>2. CASE Cleanup(p)
  <2>1. call[p].op = "compact" /\ call[p] \in Call[p] /\ Private(p) = {call[p].base}
    BY <1>2 DEF OwnInv, LocalInv, Prepared, Cleanup, Private, Unpublished
  <2>2. call[p].base \in Outputs(call[p]) /\ call[p].base \in Name
    BY <2>1, PrivateOutput DEF OwnInv
  <2>3. ~ Depended(call[p].base)
    BY <2>1 DEF OwnInv, Grounded
  <2> QED BY <1>2, <2>1, <2>2, <2>3 DEF OwnInv, LocalInv, TypeOK, Cleanup
<1> QED BY <1>1, <1>2, FilesChanged

LEMMA DependedKept ==
  ASSUME OwnInv, NEW p \in Proc, Step(p)
  PROVE  \A n \in Name : Depended(n) => files'[n] = files[n]
BY ChangedFile

\* A manifest appears by a commit, with the content of its writer.
LEMMA NewManifest ==
  ASSUME OwnInv, NEW p \in Proc, Step(p), NEW m \in Name, IsManifest(m)', ~ IsManifest(m)
  PROVE  /\ Commit(p) /\ part[p] = "manifest" /\ m = call[p].manifest
         /\ files'[m] = Manifest(call[p].base, call[p].overlay, base[p], visible[p])
         /\ call[p] \in Call[p] /\ Publisher(call[p])
         /\ call[p].base \in Name /\ call[p].overlay \in Name \cup {NoName}
         /\ base[p] \in Graph /\ visible[p] \in Graph
<1>1. ~ UNCHANGED files
  BY DEF IsManifest
<1>2. CASE Cleanup(p)
  BY <1>2 DEF OwnInv, LocalInv, TypeOK, Cleanup, IsManifest
<1>3. CASE Commit(p)
  <2>1. /\ call[p] \in Call[p] /\ WritesPart(p)
        /\ part[p] \in {"base", "overlay", "manifest"}
    BY <1>3 DEF OwnInv, LocalInv, TypeOK, Prepared, Commit
  <2>2. m = Target(p) /\ files'[m] = Content(p)
    BY <1>1, <1>3 DEF OwnInv, LocalInv, TypeOK, Commit, IsManifest
  <2>3. part[p] = "manifest"
    BY <2>1, <2>2 DEF IsManifest, Content, Packed, Overlay
  <2>4. call[p].base \in Name /\ call[p].overlay \in Name \cup {NoName}
    BY <2>1, CallFields DEF WritesPart, Publisher, WellFormed, Calls
  <2> QED BY <1>3, <2>1, <2>2, <2>3, <2>4 DEF WritesPart, Target, Content
<1> QED BY <1>1, <1>2, <1>3, FilesChanged

\* Whatever opened still opens, and so does a manifest that appears.
LEMMA PublishedStep ==
  ASSUME OwnInv, NEW p \in Proc, Step(p)
  PROVE  PublishedOpens'
<1> SUFFICES ASSUME NEW n \in Name, IsManifest(n)'
             PROVE  Consistent(files[n])'
  BY DEF PublishedOpens
<1>1. CASE IsManifest(n)
  <2>1. Depended(n) /\ Consistent(files[n])
    BY <1>1 DEF OwnInv, PublishedOpens, Depended
  <2>2. files'[n] = files[n]
    BY <2>1, DependedKept
  <2>3. \A k \in {files[n].base, files[n].overlay} : k \in Name => files'[k] = files[k]
    BY <1>1, DependedKept DEF Depended
  <2> QED BY <2>1, <2>2, <2>3 DEF Consistent, IsPacked, IsOverlay
<1>2. CASE ~ IsManifest(n)
  <2> DEFINE m == Manifest(call[p].base, call[p].overlay, base[p], visible[p])
  <2>1. /\ Commit(p) /\ part[p] = "manifest" /\ n = call[p].manifest /\ files'[n] = m
        /\ call[p] \in Call[p] /\ Publisher(call[p])
        /\ call[p].base \in Name /\ call[p].overlay \in Name \cup {NoName}
        /\ base[p] \in Graph /\ visible[p] \in Graph
    BY <1>2, NewManifest
  <2>2. Consistent(m)
    BY <2>1 DEF OwnInv, Grounded, Commit
  <2>3. /\ m.base = call[p].base /\ m.overlay = call[p].overlay
        /\ m.baseGraph = base[p] /\ m.visible = visible[p]
    BY <2>1, ManifestType
  <2>4. call[p].manifest # call[p].base /\ call[p].manifest # call[p].overlay
    BY <2>1, CallFields, SentinelAssumption DEF Publisher, WellFormed
  <2>5. \A k \in Name \ {n} : files'[k] = files[k]
    BY <2>1 DEF OwnInv, LocalInv, TypeOK, Commit, Target
  <2> HIDE DEF m
  <2> QED BY <2>1, <2>2, <2>3, <2>4, <2>5 DEF Consistent, IsPacked, IsOverlay
<1> QED BY <1>1, <1>2

\* What another call knows of the directory stays true.
LEMMA GroundedOther ==
  ASSUME OwnNames, OwnInv, NEW p \in Proc, Step(p), NEW q \in Proc \ {p}, pc[q] # "idle"
  PROVE  Grounded(q)'
<1>1. /\ pc'[q] = pc[q] /\ call'[q] = call[q] /\ part'[q] = part[q]
      /\ manifest'[q] = manifest[q] /\ base'[q] = base[q] /\ visible'[q] = visible[q]
  BY StepOthers DEF OwnInv, LocalInv, Others
<1>2. call[q] \in Call[q] /\ LocalInv /\ Grounded(q) /\ Prepared(q)
  BY DEF OwnInv, LocalInv, Prepared
<1>3. \A n \in Outputs(call[q]) : n \in Name => files'[n] = files[n]
  <2>1. \A c \in Call[p] : Outputs(c) \cap Outputs(call[q]) = {}
    BY <1>2 DEF OwnNames
  <2> QED BY <2>1, ChangedFile
<1>4. \A n \in Name : Depended(n) => files'[n] = files[n]
  BY DependedKept
<1>5. \A m \in Name : IsManifest(m) => IsManifest(m)' /\ files'[m] = files[m]
  BY <1>4 DEF Depended, IsManifest
<1>6. Unpublished(q)' = Unpublished(q) /\ Private(q)' = Private(q) /\ Target(q)' = Target(q)
  BY <1>1 DEF Unpublished, Private, Target
<1>7. ASSUME pc[q] \in {"temp", "commit"}
      PROVE  files'[Target(q)] = Absent
  <2>1. Target(q) \in Outputs(call[q]) /\ Target(q) \in Name
    BY <1>2, <1>7, TargetOutput, TargetType
  <2> QED BY <1>2, <1>3, <1>7, <2>1 DEF Grounded
<1>8. ASSUME NEW n \in Private(q)
      PROVE  ~ Depended(n)'
  <2>1. n \in Outputs(call[q]) /\ n \in Name /\ ~ Depended(n)
    BY <1>2, PrivateOutput DEF Grounded
  <2>2. ~ IsManifest(n)'
    BY <1>3, <2>1 DEF Depended, IsManifest
  <2>3. ASSUME NEW m \in Name, IsManifest(m)', n \in {files'[m].base, files'[m].overlay}
        PROVE  FALSE
    <3>1. CASE IsManifest(m)
      BY <1>5, <2>1, <2>3, <3>1 DEF Depended
    <3>2. CASE ~ IsManifest(m)
      <4>1. /\ Commit(p) /\ part[p] = "manifest"
            /\ files'[m] = Manifest(call[p].base, call[p].overlay, base[p], visible[p])
            /\ call[p] \in Call[p] /\ Publisher(call[p])
            /\ call[p].base \in Name /\ call[p].overlay \in Name \cup {NoName}
            /\ base[p] \in Graph /\ visible[p] \in Graph
        BY <2>3, <3>2, NewManifest
      <4>2. n \in {call[p].base, call[p].overlay}
        BY <2>3, <4>1 DEF Manifest
      <4>3. n \notin Outputs(call[p])
        BY <1>2, <2>1, <4>1 DEF OwnNames
      <4>4. CASE call[p].op = "delta"
        <5>1. n = call[p].base
          BY <4>1, <4>2, <4>3, <4>4, OutputsType
        <5>2. \E k \in Name : IsManifest(k) /\ files[k].base = n
          BY <4>1, <4>4, <5>1 DEF OwnInv, Grounded, Commit
        <5> QED BY <2>1, <5>2 DEF Depended
      <4>5. CASE call[p].op # "delta"
        <5>1. call[p].base \in Outputs(call[p])
          BY <4>1, <4>5, OutputsType DEF Publisher
        <5>2. call[p].overlay = NoName
          BY <4>1, <4>5, CallFields DEF WellFormed
        <5> QED BY <2>1, <4>2, <4>3, <5>1, <5>2, SentinelAssumption
      <4> QED BY <4>4, <4>5
    <3> QED BY <3>1, <3>2
  <2> QED BY <2>2, <2>3 DEF Depended
<1>9. ASSUME call[q].op = "delta",
             pc[q] \in {"readBase", "exists", "temp", "commit", "bindBase", "bindOverlay"}
      PROVE  /\ \E m \in Name : IsManifest(m)' /\ files'[m].base = call[q].base
             /\ call[q].base \in Name /\ files'[call[q].base] = files[call[q].base]
  <2>1. PICK m \in Name : IsManifest(m) /\ files[m].base = call[q].base
    BY <1>2, <1>9 DEF Grounded
  <2>2. call[q].base \in Name
    BY <1>2, <1>9, CallFields DEF WellFormed
  <2> QED BY <1>4, <1>5, <2>1, <2>2 DEF Depended
<1>10. ASSUME \/ pc[q] = "bindOverlay"
              \/ pc[q] \in {"exists", "temp", "commit"} /\ part[q] = "overlay"
       PROVE  IsPacked(call[q].base)' /\ files'[call[q].base].graph = base[q]
  <2>1. call[q].op = "delta"
    BY <1>2, <1>10 DEF Prepared, WritesPart
  <2> QED BY <1>1, <1>2, <1>9, <1>10, <2>1 DEF Grounded, IsPacked
<1>11. ASSUME pc[q] \in {"exists", "temp", "commit"}, part[q] = "manifest"
       PROVE  Consistent(Manifest(call[q].base, call[q].overlay, base[q], visible[q]))'
  <2> DEFINE m == Manifest(call[q].base, call[q].overlay, base[q], visible[q])
  <2>1. Consistent(m) /\ Publisher(call[q])
    BY <1>2, <1>11 DEF Grounded, Prepared, WritesPart
  <2>2. m.base = call[q].base /\ m.overlay = call[q].overlay
    BY DEF Manifest
  <2>3. files'[call[q].base] = files[call[q].base]
    <3>1. CASE call[q].op = "delta"
      BY <1>9, <1>11, <3>1
    <3>2. CASE call[q].op # "delta"
      BY <1>2, <1>3, <2>1, <3>2, OutputsType DEF Publisher
    <3> QED BY <3>1, <3>2
  <2>4. call[q].overlay \in Name => files'[call[q].overlay] = files[call[q].overlay]
    <3>1. call[q].overlay \in Name => call[q].op = "delta"
      BY <1>2, CallFields, SentinelAssumption DEF WellFormed
    <3> QED BY <1>2, <1>3, <3>1, OutputsType
  <2> QED BY <1>1, <2>1, <2>2, <2>3, <2>4 DEF Consistent, IsPacked, IsOverlay
<1>12. ASSUME pc[q] \in {"readBase", "readOverlay", "opened"}, call[q].op # "delta"
       PROVE  IsManifest(call[q].source)' /\ files'[call[q].source] = manifest[q]
  <2>1. call[q].source \in Name
    BY <1>2, <1>12 DEF Prepared, ReadsManifest
  <2> QED BY <1>1, <1>2, <1>5, <1>12, <2>1 DEF Grounded, IsManifest
<1>13. /\ pc'[q] \in {"temp", "commit"} => files'[Target(q)'] = Absent
       /\ \A n \in Private(q)' : ~ Depended(n)'
  BY <1>1, <1>6, <1>7, <1>8
<1>14. pc'[q] \in {"readBase", "exists", "temp", "commit", "bindBase", "bindOverlay"}
         /\ call'[q].op = "delta" =>
         \E m \in Name : IsManifest(m)' /\ files'[m].base = call'[q].base
  BY <1>1, <1>9
<1> QED BY <1>1, <1>10, <1>11, <1>12, <1>13, <1>14 DEF Grounded

\* What the stepping call knows of the directory is true after its step.
LEMMA GroundedSelf ==
  ASSUME OwnInv, NEW p \in Proc, Step(p)
  PROVE  Grounded(p)'
<1> USE DEF Grounded, Private, Unpublished
<1>1. LocalInv /\ TypeOK /\ Prepared(p) /\ Grounded(p)
  BY DEF OwnInv, LocalInv
<1>2. CASE Begin(p)
  <2>1. PICK c \in Call[p] :
          /\ call' = [call EXCEPT ![p] = c]
          /\ part' = [part EXCEPT ![p] = "base"]
          /\ c.op = "delta" => \E m \in Name : IsManifest(m) /\ files[m].base = c.base
          /\ Goto(p, CASE c.op = "create" -> "exists"
                       [] c.op = "delta" -> "readBase"
                       [] c.op = "compact" -> "precheck"
                       [] OTHER -> "readManifest")
          /\ files' = files
    BY <1>2 DEF Begin
  <2>2. call'[p] = c /\ part'[p] = "base" /\ c.op \in Operation
    BY <1>1, <2>1, CallFields DEF TypeOK, Calls
  <2>3. \/ pc'[p] = "exists" /\ c.op = "create"
        \/ pc'[p] = "readBase" /\ c.op = "delta"
        \/ pc'[p] \in {"precheck", "readManifest"}
    BY <1>1, <2>1, <2>2 DEF TypeOK, Goto, Operation
  <2> QED BY <2>1, <2>2, <2>3 DEF IsManifest
<1>3. CASE Precheck(p) \/ Close(p) \/ Crash(p) \/ Cleanup(p)
  <2>1. pc'[p] \in {"readManifest", "idle"}
    BY <1>1, <1>3 DEF TypeOK, Precheck, Close, Crash, Cleanup, Goto
  <2> QED BY <2>1
<1>4. CASE ReadManifest(p)
  <2>1. /\ pc'[p] = "readBase" /\ UNCHANGED <<files, call>>
        /\ manifest'[p] = files[call[p].source] /\ IsManifest(call[p].source)
        /\ call[p].op # "delta"
    BY <1>1, <1>4 DEF TypeOK, ReadManifest, Goto, Prepared, ReadsManifest
  <2> QED BY <2>1 DEF IsManifest
<1>5. CASE ReadBase(p)
  <2>1. UNCHANGED <<files, call, manifest>> /\ pc[p] = "readBase"
    BY <1>5 DEF ReadBase
  <2>2. CASE call[p].op = "delta"
    <3>1. /\ pc'[p] = "exists" /\ part'[p] = "overlay"
          /\ IsPacked(call[p].base) /\ base'[p] = files[call[p].base].graph
      BY <1>1, <1>5, <2>2 DEF TypeOK, ReadBase, BaseFits, Write, Goto
    <3> QED BY <1>1, <2>1, <2>2, <3>1 DEF IsManifest, IsPacked
  <2>3. CASE call[p].op # "delta"
    <3>1. \/ pc'[p] \in {"readOverlay", "opened"}
          \/ pc'[p] = "exists" /\ part'[p] = "base"
      BY <1>1, <1>5, <2>3 DEF TypeOK, ReadBase, Opened, Write, Goto
    <3> QED BY <1>1, <2>1, <2>3, <3>1 DEF IsManifest
  <2> QED BY <2>2, <2>3
<1>6. CASE ReadOverlay(p)
  <2>1. /\ UNCHANGED <<files, call, manifest>> /\ pc[p] = "readOverlay"
        /\ call[p].op # "delta"
        /\ \/ pc'[p] = "opened"
           \/ pc'[p] = "exists" /\ part'[p] = "base"
    BY <1>1, <1>6 DEF TypeOK, ReadOverlay, Opened, Write, Goto, Prepared, ReadsManifest
  <2> QED BY <1>1, <2>1 DEF IsManifest
<1>7. CASE CheckAbsent(p) \/ CreateTemp(p)
  <2>1. /\ UNCHANGED <<files, call, part, manifest, base, visible>>
        /\ pc[p] \in {"exists", "temp"} /\ pc'[p] \in {"temp", "commit"}
        /\ files[Target(p)] = Absent
    BY <1>1, <1>7 DEF TypeOK, CheckAbsent, CreateTemp, Goto, reads
  <2>2. Target(p)' = Target(p)
    BY <2>1 DEF Target
  <2>3. \A n \in Private(p)' : ~ Depended(n)'
    BY <1>1, <2>1 DEF Depended, IsManifest
  <2>4. call[p].op = "delta" =>
          \E m \in Name : IsManifest(m)' /\ files'[m].base = call'[p].base
    BY <1>1, <2>1 DEF IsManifest
  <2>5. part'[p] = "overlay" =>
          IsPacked(call[p].base)' /\ files'[call'[p].base].graph = base'[p]
    BY <1>1, <2>1 DEF IsPacked
  <2>6. part'[p] = "manifest" =>
          Consistent(Manifest(call[p].base, call[p].overlay, base[p], visible[p]))'
    BY <1>1, <2>1 DEF Consistent, IsPacked, IsOverlay, Manifest
  <2> QED BY <2>1, <2>2, <2>3, <2>4, <2>5, <2>6
<1>8. CASE Commit(p)
  <2>1. /\ pc'[p] = IF part[p] = "manifest" THEN "idle" ELSE "bindBase"
        /\ UNCHANGED <<call, part>> /\ pc[p] = "commit"
        /\ files' = [files EXCEPT ![Target(p)] = Content(p)]
    BY <1>1, <1>8 DEF TypeOK, Commit, Goto
  <2>2. CASE part[p] = "manifest"
    BY <2>1, <2>2
  <2>3. CASE part[p] # "manifest"
    <3>1. Target(p) \in Name /\ WritesPart(p) /\ part[p] \in {"base", "overlay"}
      BY <1>1, <2>1, <2>3, TargetType DEF TypeOK, Prepared
    <3>2. ~ Depended(Target(p))
      BY <1>1, <2>1, <3>1, DependedExists DEF OwnInv
    <3>3. files'[Target(p)] = Content(p) /\ Content(p).kind # "manifest"
      BY <1>1, <2>1, <3>1 DEF TypeOK, Content, Packed, Overlay
    <3>4. \A k \in Name \ {Target(p)} : files'[k] = files[k]
      BY <1>1, <2>1, <3>1 DEF TypeOK
    <3>5. ~ Depended(Target(p))'
      <4>1. Target(p)' = Target(p)
        BY <2>1 DEF Target
      <4>2. \A m \in Name : IsManifest(m)' => IsManifest(m) /\ files'[m] = files[m]
        BY <3>3, <3>4 DEF IsManifest
      <4> QED BY <3>1, <3>2, <4>1, <4>2 DEF Depended
    <3>6. Private(p)' = {Target(p)'}
      BY <2>1, <2>3, <3>1 DEF Target, WritesPart
    <3>7. call[p].op = "delta" =>
            \E m \in Name : IsManifest(m)' /\ files'[m].base = call'[p].base
      <4> SUFFICES ASSUME call[p].op = "delta"
                   PROVE  \E m \in Name : IsManifest(m)' /\ files'[m].base = call'[p].base
        OBVIOUS
      <4>1. PICK m \in Name : IsManifest(m) /\ files[m].base = call[p].base
        BY <1>1, <2>1
      <4>2. files'[m] = files[m]
        BY <1>8, <4>1, DependedKept DEF Depended, Step
      <4> QED BY <2>1, <4>1, <4>2 DEF IsManifest
    <3> QED BY <2>1, <2>3, <3>5, <3>6, <3>7
  <2> QED BY <2>2, <2>3
<1>9. CASE BindBase(p)
  <2>1. /\ UNCHANGED <<files, call>> /\ pc[p] = "bindBase" /\ IsPacked(call[p].base)
        /\ base'[p] = files[call[p].base].graph /\ visible'[p] = base'[p]
    BY <1>1, <1>9 DEF TypeOK, BindBase
  <2>2. \A n \in Private(p)' : ~ Depended(n)'
    BY <1>1, <2>1 DEF Depended, IsManifest
  <2>3. call[p].op = "delta" =>
          \E m \in Name : IsManifest(m)' /\ files'[m].base = call'[p].base
    BY <1>1, <2>1 DEF IsManifest
  <2>4. CASE call[p].overlay = NoName
    <3>1. pc'[p] = "exists" /\ part'[p] = "manifest"
      BY <1>1, <1>9, <2>4 DEF TypeOK, BindBase, Write, Goto
    <3>2. Consistent(Manifest(call[p].base, call[p].overlay, base[p], visible[p]))'
      BY <2>1, <2>4 DEF Consistent, IsPacked, Manifest
    <3> QED BY <2>1, <2>2, <2>3, <3>1, <3>2
  <2>5. CASE call[p].overlay # NoName
    <3>1. pc'[p] = "bindOverlay"
      BY <1>1, <1>9, <2>5 DEF TypeOK, BindBase, Goto
    <3>2. IsPacked(call[p].base)' /\ files'[call'[p].base].graph = base'[p]
      BY <2>1 DEF IsPacked
    <3> QED BY <2>1, <2>2, <2>3, <3>1, <3>2
  <2> QED BY <2>4, <2>5
<1>10. CASE BindOverlay(p)
  <2>1. /\ UNCHANGED <<files, call, base>> /\ pc[p] = "bindOverlay"
        /\ IsOverlay(call[p].overlay) /\ files[call[p].overlay].base = base[p]
        /\ visible'[p] = files[call[p].overlay].visible
        /\ pc'[p] = "exists" /\ part'[p] = "manifest"
    BY <1>1, <1>10 DEF TypeOK, BindOverlay, Write, Goto
  <2>2. \A n \in Private(p)' : ~ Depended(n)'
    BY <1>1, <2>1 DEF Depended, IsManifest
  <2>3. \E m \in Name : IsManifest(m)' /\ files'[m].base = call'[p].base
    BY <1>1, <2>1 DEF Prepared, IsManifest
  <2>4. files[call[p].overlay] = Overlay(base[p], visible'[p])
    BY <1>1, <2>1, FileFields DEF TypeOK, IsOverlay
  <2>5. IsPacked(call[p].base) /\ files[call[p].base].graph = base[p]
    BY <1>1, <2>1
  <2>6. call[p].overlay # NoName
    BY <2>1, SentinelAssumption DEF IsOverlay
  <2>7. Consistent(Manifest(call[p].base, call[p].overlay, base[p], visible[p]))'
    BY <2>1, <2>4, <2>5, <2>6 DEF Consistent, IsPacked, IsOverlay, Manifest
  <2> QED BY <2>1, <2>2, <2>3, <2>7
<1>11. CASE Refuse(p) \/ Fail(p)
  <2>1. /\ pc'[p] \in {"idle", "cleanup"}
        /\ pc'[p] = "cleanup" => Unpublished(p) /\ call[p].op = "compact"
        /\ call' = call /\ files' = files
    BY <1>1, <1>11, CleanupUnpublished
  <2>2. \A n \in Private(p)' : ~ Depended(n)'
    BY <1>1, <2>1 DEF Depended, IsManifest
  <2> QED BY <2>1, <2>2
<1> QED BY <1>2, <1>3, <1>4, <1>5, <1>6, <1>7, <1>8, <1>9, <1>10, <1>11 DEF Step

LEMMA InitOwn == ExistingOpens /\ Init => OwnInv
<1> SUFFICES ASSUME ExistingOpens, Init PROVE OwnInv
  OBVIOUS
<1>1. LocalInv
  BY InitLocal
<1>2. PublishedOpens
  <2> SUFFICES ASSUME NEW n \in Name, IsManifest(n) PROVE Consistent(files[n])
    BY DEF PublishedOpens
  <2>1. files = Existing /\ files[n] \in File /\ files[n].kind = "manifest"
    BY ExistingAssumption DEF Init, IsManifest
  <2>2. /\ files[n].base \in Name /\ files[n].overlay \in Name \cup {NoName}
        /\ files[n].baseGraph \in Graph /\ files[n].visible \in Graph
    BY <2>1, FileFields
  <2>3. files[files[n].base] = Packed(files[n].baseGraph)
    BY <2>1, SentinelAssumption DEF ExistingOpens
  <2>4. IsPacked(files[n].base) /\ files[files[n].base].graph = files[n].baseGraph
    BY <2>2, <2>3, PackedType, SentinelAssumption DEF IsPacked
  <2>5. CASE files[n].overlay = NoName
    BY <2>1, <2>4, <2>5, SentinelAssumption DEF ExistingOpens, Consistent
  <2>6. CASE files[n].overlay # NoName
    <3>1. files[files[n].overlay] = Overlay(files[n].baseGraph, files[n].visible)
      BY <2>1, <2>6, SentinelAssumption DEF ExistingOpens
    <3>2. IsOverlay(files[n].overlay)
      BY <2>2, <2>6, <3>1, OverlayType, SentinelAssumption DEF IsOverlay
    <3> QED BY <2>4, <2>6, <3>1, <3>2 DEF Consistent
  <2> QED BY <2>5, <2>6
<1>3. \A p \in Proc : Grounded(p)
  BY DEF Init, Grounded, Private, Unpublished
<1> QED BY <1>1, <1>2, <1>3 DEF OwnInv

LEMMA OwnNext ==
  ASSUME OwnNames
  PROVE  OwnInv /\ [Next]_vars => OwnInv'
<1> SUFFICES ASSUME OwnInv, [Next]_vars PROVE OwnInv'
  OBVIOUS
<1>1. LocalInv'
  BY LocalNext DEF OwnInv
<1>2. ASSUME NEW p \in Proc, Step(p)
      PROVE  OwnInv'
  <2>1. PublishedOpens' /\ Grounded(p)'
    BY <1>2, PublishedStep, GroundedSelf
  <2>2. ASSUME NEW q \in Proc \ {p}
        PROVE  Grounded(q)'
    <3>1. CASE pc[q] # "idle"
      BY <1>2, <3>1, GroundedOther
    <3>2. CASE pc[q] = "idle"
      <4>1. pc'[q] = "idle"
        BY <1>2, <3>2, StepOthers DEF OwnInv, LocalInv, Others
      <4> QED BY <4>1 DEF Grounded, Private, Unpublished
    <3> QED BY <3>1, <3>2
  <2> QED BY <1>1, <2>1, <2>2 DEF OwnInv
<1>3. CASE UNCHANGED vars
  <2>1. UNCHANGED <<files, pc, call, part, manifest, base, visible>>
    BY <1>3 DEF vars, reads
  <2>2. PublishedOpens'
    BY <2>1 DEF OwnInv, PublishedOpens, Consistent, IsManifest, IsPacked, IsOverlay
  <2>3. ASSUME NEW p \in Proc
        PROVE  Grounded(p)'
    <3>1. Grounded(p)
      BY DEF OwnInv
    <3>2. Private(p)' = Private(p) /\ Target(p)' = Target(p)
      BY <2>1 DEF Private, Unpublished, Target
    <3> DEFINE published == Manifest(call[p].base, call[p].overlay, base[p], visible[p])
    <3>3. Consistent(published)' = Consistent(published)
      BY <2>1 DEF Consistent, IsPacked, IsOverlay, Manifest
    <3> QED BY <2>1, <3>1, <3>2, <3>3 DEF Grounded, Depended, IsManifest, IsPacked
  <2> QED BY <1>1, <2>2, <2>3 DEF OwnInv
<1> QED BY <1>2, <1>3 DEF Next

\* While each process writes names of its own, what calls know of the directory
\* stays true.
THEOREM OwnInvariant ==
  ASSUME OwnNames, ExistingOpens
  PROVE  Spec => []OwnInv
<1>1. Init => OwnInv
  BY InitOwn
<1>2. OwnInv /\ [Next]_vars => OwnInv'
  BY OwnNext
<1> QED BY <1>1, <1>2, PTL DEF Spec

\* Every published manifest opens: "The manifest is published last, so readers
\* never observe a partially assembled snapshot" (README).
THEOREM PublishedSnapshotsOpen ==
  ASSUME OwnNames, ExistingOpens
  PROVE  Spec => []PublishedOpens
<1>1. OwnInv => PublishedOpens
  BY DEF OwnInv
<1> QED BY <1>1, OwnInvariant, PTL

\* No writer takes a file from under an open between its reads
\* (GraphSnapshot::open, compact_snapshot).
THEOREM ReadersAlwaysServed ==
  ASSUME OwnNames, ExistingOpens
  PROVE  Spec => []ReadersServed
<1>1. ASSUME OwnInv, NEW p \in Proc, call[p].op \in {"open", "compact"},
             pc[p] \in {"readBase", "readOverlay"}
      PROVE  Consistent(manifest[p])
  BY <1>1 DEF OwnInv, PublishedOpens, LocalInv, Prepared, Grounded, ReadsManifest
<1>2. ASSUME OwnInv, NEW p \in Proc, call[p].op \in {"open", "compact"},
             pc[p] = "readBase"
      PROVE  BaseFits(p)
  BY <1>1, <1>2 DEF Consistent, BaseFits
<1>3. ASSUME OwnInv, NEW p \in Proc, call[p].op \in {"open", "compact"},
             pc[p] = "readOverlay"
      PROVE  OverlayFits(p)
  <2>1. /\ HasManifest(p) /\ manifest[p].overlay \in Name
        /\ base[p] = manifest[p].baseGraph
    BY <1>3 DEF OwnInv, LocalInv, Prepared
  <2>2. /\ IsOverlay(manifest[p].overlay)
        /\ files[manifest[p].overlay] = Overlay(manifest[p].baseGraph, manifest[p].visible)
    BY <1>1, <1>3, <2>1, SentinelAssumption DEF Consistent
  <2>3. manifest[p].baseGraph \in Graph /\ manifest[p].visible \in Graph
    BY <2>1, FileFields DEF HasManifest
  <2> QED BY <2>1, <2>2, <2>3, OverlayType DEF OverlayFits
<1>4. OwnInv => ReadersServed
  BY <1>2, <1>3 DEF ReadersServed
<1> QED BY <1>4, OwnInvariant, PTL

\* A file that a reader may depend on never changes or disappears
\* (README: "Snapshot and overlay files ... refuse in-place replacement").
THEOREM DependedFilesStay ==
  ASSUME OwnNames, ExistingOpens
  PROVE  Spec => DependedImmutable
<1>1. OwnInv /\ [Next]_vars => [\A n \in Name : Depended(n) => files'[n] = files[n]]_vars
  BY DependedKept DEF Next, vars
<1> QED BY <1>1, OwnInvariant, PTL DEF Spec, DependedImmutable

-----------------------------------------------------------------------------
(* The store of snapshots                                                  *)

Published(n) ==
  IF IsManifest(n) /\ Consistent(files[n]) THEN files[n].visible ELSE Absent

Held(p) == IF pc[p] = "opened" THEN <<call[p].source, visible[p]>> ELSE Absent

\* A published snapshot has a graph.
LEMMA PublishedGraph ==
  ASSUME OwnInv, NEW n \in Name
  PROVE  /\ IsManifest(n) => Published(n) = files[n].visible /\ Published(n) \in Graph
         /\ ~ IsManifest(n) => Published(n) = Absent
<1>1. IsManifest(n) => Consistent(files[n]) /\ files[n].visible \in Graph
  BY FileFields DEF OwnInv, PublishedOpens, LocalInv, TypeOK, IsManifest
<1> QED BY <1>1 DEF Published

\* What an open snapshot holds is published under the manifest's name.
LEMMA HeldPublished ==
  ASSUME OwnInv, NEW p \in Proc, pc[p] = "opened"
  PROVE  /\ call[p].source \in Name /\ Published(call[p].source) = visible[p]
         /\ visible[p] \in Graph /\ Held(p) # Absent
<1>1. /\ call[p].op = "open" /\ call[p].source \in Name
      /\ visible[p] = manifest[p].visible
      /\ IsManifest(call[p].source) /\ files[call[p].source] = manifest[p]
  BY DEF OwnInv, LocalInv, Prepared, Grounded
<1>2. Published(call[p].source) = visible[p] /\ visible[p] \in Graph
  BY <1>1, PublishedGraph
<1>3. <<call[p].source, visible[p]>> # Absent
  BY <1>1, <1>2, SentinelAssumption
<1> QED BY <1>1, <1>2, <1>3 DEF Held

\* A snapshot is opened by its last read, and closed or lost afterwards.
LEMMA StepOpened ==
  ASSUME OwnInv, NEW p \in Proc, Step(p)
  PROVE  \/ pc[p] = "opened" /\ pc'[p] # "opened" /\ UNCHANGED files
         \/ pc[p] # "opened" /\ pc'[p] = "opened" /\ UNCHANGED <<files, call>>
         \/ pc[p] # "opened" /\ pc'[p] # "opened"
<1>1. pc \in [Proc -> Stage]
  BY DEF OwnInv, LocalInv, TypeOK
<1>2. CASE ReadBase(p) \/ ReadOverlay(p)
  BY <1>1, <1>2 DEF ReadBase, ReadOverlay
<1>3. CASE Close(p) \/ Crash(p)
  BY <1>1, <1>3 DEF Close, Crash, Goto
<1>4. CASE Begin(p) \/ Precheck(p) \/ ReadManifest(p) \/ CheckAbsent(p) \/ CreateTemp(p)
  BY <1>1, <1>4 DEF Begin, Precheck, ReadManifest, CheckAbsent, CreateTemp, Goto
<1>5. CASE Commit(p) \/ Cleanup(p)
  BY <1>1, <1>5 DEF Commit, Cleanup, Goto
<1>6. CASE BindBase(p) \/ BindOverlay(p)
  BY <1>1, <1>6 DEF BindBase, BindOverlay, Write, Goto
<1>7. CASE Refuse(p) \/ Fail(p)
  BY <1>1, <1>7 DEF Refuse, Refused, Fail, Abort, Goto
<1> QED BY <1>2, <1>3, <1>4, <1>5, <1>6, <1>7 DEF Step

\* What was published stays, and at most one manifest appears, by a commit.
LEMMA StepPublished ==
  ASSUME OwnInv, OwnInv', NEW p \in Proc, Step(p)
  PROVE  \/ \A n \in Name : Published(n)' = Published(n)
         \/ \E m \in Name :
              /\ Commit(p) /\ Published(m) = Absent /\ Published(m)' \in Graph
              /\ \A n \in Name \ {m} : Published(n)' = Published(n)
<1>1. ASSUME NEW n \in Name, ~(IsManifest(n)' /\ ~ IsManifest(n))
      PROVE  Published(n)' = Published(n)
  <2>1. CASE IsManifest(n)
    <3>1. files'[n] = files[n]
      BY <2>1, DependedKept DEF Depended
    <3>2. Consistent(files[n]) /\ Consistent(files[n])'
      BY <2>1, <3>1 DEF OwnInv, PublishedOpens, IsManifest
    <3> QED BY <2>1, <3>1, <3>2 DEF Published, IsManifest
  <2>2. CASE ~ IsManifest(n)
    BY <1>1, <2>2 DEF Published
  <2> QED BY <2>1, <2>2
<1>2. ASSUME NEW m \in Name, IsManifest(m)', ~ IsManifest(m)
      PROVE  /\ Commit(p) /\ m = call[p].manifest
             /\ Published(m) = Absent /\ Published(m)' \in Graph
  <2>1. Commit(p) /\ m = call[p].manifest
    BY <1>2, NewManifest
  <2>2. Consistent(files[m])' /\ (files[m].visible)' \in Graph
    BY <1>2, FileFields DEF OwnInv, PublishedOpens, LocalInv, TypeOK, IsManifest
  <2> QED BY <1>2, <2>1, <2>2 DEF Published
<1>3. CASE \E m \in Name : IsManifest(m)' /\ ~ IsManifest(m)
  BY <1>1, <1>2, <1>3
<1>4. CASE ~ \E m \in Name : IsManifest(m)' /\ ~ IsManifest(m)
  BY <1>1, <1>4
<1> QED BY <1>3, <1>4

LEMMA StoreStep ==
  ASSUME OwnInv, OwnInv', NEW p \in Proc, Step(p)
  PROVE  [Store!Next]_(Store!vars)
<1> DEFINE P == [n \in Name |-> Published(n)]
           H == [q \in Proc |-> Held(q)]
<1>0. Store!vars = <<P, H>>
  BY DEF Store!vars, Published, Held
<1>1. \A q \in Proc \ {p} : Held(q)' = Held(q)
  BY StepOthers DEF OwnInv, LocalInv, Others, Held
<1>2. CASE pc[p] = "opened" /\ pc'[p] # "opened" /\ UNCHANGED files
  <2>1. P' = P
    BY <1>2 DEF Published, IsManifest, Consistent, IsPacked, IsOverlay
  <2>2. H[p] # Absent /\ Held(p)' = Absent
    BY <1>2, HeldPublished DEF Held
  <2>3. H' = [H EXCEPT ![p] = Absent]
    BY <1>1, <2>2 DEF Held
  <2> QED BY <2>1, <2>2, <2>3 DEF Store!Next, Store!Close, Published, Held
<1>3. CASE pc[p] # "opened" /\ pc'[p] = "opened" /\ UNCHANGED <<files, call>>
  <2>1. P' = P
    BY <1>3 DEF Published, IsManifest, Consistent, IsPacked, IsOverlay
  <2> DEFINE s == call[p].source
  <2>2. s \in Name /\ P[s] # Absent /\ Held(p)' = <<s, P[s]>> /\ H[p] = Absent
    <3>1. /\ call'[p].source \in Name /\ Published(call[p].source)' = visible'[p]
          /\ visible'[p] \in Graph
      <4>1. /\ call'[p].source \in Name /\ visible'[p] = manifest'[p].visible
            /\ IsManifest(call[p].source)' /\ files'[call'[p].source] = manifest'[p]
        BY <1>3 DEF OwnInv, LocalInv, Prepared, Grounded
      <4>2. Consistent(files[call[p].source])'
        BY <4>1 DEF OwnInv, PublishedOpens
      <4>3. visible'[p] \in Graph
        BY <4>1, FileFields DEF OwnInv, LocalInv, TypeOK, IsManifest
      <4> QED BY <4>1, <4>2, <4>3 DEF Published
    <3> QED BY <1>3, <2>1, <3>1, SentinelAssumption DEF Held
  <2>3. H' = [H EXCEPT ![p] = <<s, P[s]>>]
    BY <1>1, <2>2
  <2> QED BY <2>1, <2>2, <2>3 DEF Store!Next, Store!Open, Published, Held
<1>4. CASE pc[p] # "opened" /\ pc'[p] # "opened"
  <2>1. H' = H
    BY <1>1, <1>4 DEF Held
  <2>2. CASE \A n \in Name : Published(n)' = Published(n)
    BY <1>0, <2>1, <2>2 DEF Published, Held, Store!vars
  <2>3. ASSUME NEW m \in Name, Commit(p), Published(m) = Absent, Published(m)' \in Graph,
               \A n \in Name \ {m} : Published(n)' = Published(n)
        PROVE  Store!Next
    <3>1. P[m] = Absent /\ P' = [P EXCEPT ![m] = Published(m)']
      BY <2>3
    <3> QED BY <2>1, <2>3, <3>1 DEF Store!Next, Store!Publish, Published, Held
  <2> QED BY <2>2, <2>3, StepPublished
<1> QED BY <1>2, <1>3, <1>4, StepOpened

\* A directory whose writers use names of their own implements the store of
\* snapshots that are published once and never change (SnapshotStore).
THEOREM StoreKept ==
  ASSUME OwnNames, ExistingOpens
  PROVE  Spec => KeepsStore
<1>1. Init => OwnInv
  BY InitOwn
<1>2. OwnInv /\ [Next]_vars => OwnInv'
  BY OwnNext
<1>3. OwnInv /\ Init => Store!Init
  <2> SUFFICES ASSUME OwnInv, Init PROVE Store!Init
    OBVIOUS
  <2>1. \A n \in Name : IsManifest(n) => Consistent(files[n])
    BY DEF OwnInv, PublishedOpens
  <2> QED BY <2>1 DEF Init, Store!Init, IsManifest
<1>4. OwnInv /\ OwnInv' /\ [Next]_vars
        => [Store!Next]_(Store!vars)
  <2>1. ASSUME OwnInv, OwnInv', NEW p \in Proc, Step(p)
        PROVE  [Store!Next]_(Store!vars)
    BY <2>1, StoreStep
  <2>2. CASE UNCHANGED vars
    BY <2>2 DEF vars, reads, Store!vars, IsManifest, Consistent, IsPacked, IsOverlay
  <2> QED BY <2>1, <2>2 DEF Next
<1> QED BY <1>1, <1>2, <1>3, <1>4, PTL DEF Spec, KeepsStore, Store!Spec
=============================================================================
