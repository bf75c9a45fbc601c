------------------------- MODULE FactCommandsProofs -------------------------
(***************************************************************************)
(* Safety of import-facts, update-facts and their readers for any number   *)
(* of processes, directories, facts and faults.                            *)
(*                                                                         *)
(* A directory that a command has created is its own until the command     *)
(* ends: nobody else creates, fills or removes it meanwhile (Owned).  So   *)
(* what publish_repository_snapshot has validated is what the manifest     *)
(* binds, and the manifest appears last.                                   *)
(***************************************************************************)
EXTENDS FactCommands, OrdersProofs

(* The marks are no directory, manifest, plan or facts; they are model     *)
(* values where TLC checks, of which it cannot ask the domain.             *)
Marks ==
  /\ DOMAIN Absent \notin {File, Bound, {"facts", "changes"}, {"op", "facts"},
                           {"nodes", "edges", "unresolved"}}
  /\ DOMAIN Torn # Bound

-----------------------------------------------------------------------------
(* The inductive invariant                                                 *)

Shape ==
  /\ DOMAIN call = Proc /\ DOMAIN got = Proc /\ DOMAIN plan = Proc
  /\ DOMAIN meant = Dir
  /\ shown = Shown

(* A directory has one writer, which created it.                           *)
Owned(p) ==
  pc[p] \in Writing =>
    /\ Written(p) # Absent /\ Output(p) \notin reported
    /\ meant[Output(p)] = [op |-> call[p].op, facts |-> plan[p].facts]
    /\ \A q \in Proc \ {p} : pc[q] \in Writing => Output(q) # Output(p)

(* The manifest comes last and binds what was validated.                   *)
Progress(p) ==
  /\ pc[p] \in File \cup {"publish", "manifest"} =>
       Written(p)["repository.manifest"] = Absent
  /\ pc[p] = "content" => Written(p)["repository.manifest"] = Torn
  /\ pc[p] = "cleanup" =>
       Written(p)["repository.manifest"] \in {Absent, Torn} \/ Opens(Written(p))
  /\ pc[p] \in {"manifest", "content"} => Valid(Written(p))
  /\ pc[p] = "sync" => Opens(Written(p))
  /\ pc[p] \in {"publish", "manifest", "content", "sync"} =>
       Written(p)["facts.tsv"] = Encoded(plan[p].facts)

FactTexts == {Absent, Torn} \cup {Encoded(f) : f \in made}

Reads(p) ==
  /\ pc[p] # "idle" => DOMAIN got[p] = File /\ got[p]["facts.tsv"] \in FactTexts
  /\ pc[p] = "opened" => Valid(got[p])

(* Fact files are of facts that a command meant to publish.                *)
Meaningful(d) ==
  /\ dirs[d] # Absent => meant[d].facts \in made /\ dirs[d]["facts.tsv"] \in FactTexts
  /\ d \in reported =>
       Opens(dirs[d]) /\ dirs[d]["facts.tsv"] = Encoded(meant[d].facts)

CommandInv ==
  /\ TypeOK /\ Shape
  /\ \A p \in Proc : Owned(p) /\ Progress(p) /\ Reads(p)
  /\ \A d \in Dir : Meaningful(d)

(* What a process does, and a directory removed by hand, with what the     *)
(* directories show then.                                                  *)
Step(p) == Silent(p) \/ (Changing(p) /\ shown' = Shown')

Removal(d) == Discard(d) /\ shown' = Shown'

\* A step of the commands is one of these.
LEMMA NextSteps ==
  Next <=> (\E p \in Proc : Step(p)) \/ (\E d \in Dir : Removal(d))
BY DEF Next, Step, Removal

-----------------------------------------------------------------------------
(* What a step changes                                                     *)

LEMMA InitCommand == Init => CommandInv
<1> SUFFICES ASSUME Init PROVE CommandInv
  OBVIOUS
<1>1. TypeOK
  BY BoundsAssumption DEF Init, TypeOK, Stage, Writing, IsDirectory, OpenOrder
<1>2. Shape
  BY DEF Init, Shape, Shown
<1>3. \A p \in Proc : Owned(p) /\ Progress(p) /\ Reads(p)
  BY DEF Init, Owned, Progress, Reads, Writing, File
<1>4. \A d \in Dir : Meaningful(d)
  BY DEF Init, Meaningful
<1> QED BY <1>1, <1>2, <1>3, <1>4 DEF CommandInv

\* What a process is executing names directories.
LEMMA CallType ==
  ASSUME CommandInv, NEW p \in Proc, pc[p] # "idle"
  PROVE  /\ call[p] \in Call[p] /\ call[p] # Absent
         /\ Output(p) \in Dir /\ call[p].source \in Dir
<1>1. call[p] \in Call[p]
  BY DEF CommandInv, TypeOK
<1> QED BY <1>1, CallAssumption DEF Output

\* What the processes remember, and how many commands and faults there were.
Locals ==
  /\ pc \in [Proc -> Stage]
  /\ \A p \in Proc : (pc[p] = "idle" <=> call[p] = Absent) /\ call[p] \in Call[p] \cup {Absent}
  /\ at \in [Proc -> 1..Len(OpenOrder)]
  /\ \A p \in Proc : pc[p] \in Writing \cup {"create"} <=> plan[p] # Absent
  /\ calls \in [Proc -> 0..MaxCalls] /\ faults \in 0..MaxFaults /\ discards \in 0..MaxDiscards
  /\ DOMAIN call = Proc /\ DOMAIN got = Proc /\ DOMAIN plan = Proc

Others(p) ==
  \A q \in Proc \ {p} :
    /\ pc'[q] = pc[q] /\ call'[q] = call[q] /\ plan'[q] = plan[q]
    /\ got'[q] = got[q]

LEMMA EndLocals ==
  ASSUME Locals, NEW p \in Proc, End(p),
         UNCHANGED <<calls, discards>>, faults' \in 0..MaxFaults
  PROVE  Locals' /\ Others(p)
<1>1. "idle" \in Stage /\ "idle" \notin Writing \cup {"create"} /\ 1 \in 1..Len(OpenOrder)
  BY DEF Stage, Writing, OpenOrder
<1> QED BY <1>1 DEF Locals, Others, End, Goto

LEMMA GoLocals ==
  ASSUME Locals, NEW p \in Proc, NEW s \in Stage, Goto(p, s), s # "idle", pc[p] # "idle",
         s \in Writing \cup {"create"} <=> pc[p] \in Writing \cup {"create"},
         UNCHANGED <<call, plan, calls, discards>>, faults' \in 0..MaxFaults,
         DOMAIN got' = Proc, \A q \in Proc \ {p} : got'[q] = got[q],
         at' \in [Proc -> 1..Len(OpenOrder)]
  PROVE  Locals' /\ Others(p)
BY DEF Locals, Others, Goto

LEMMA FaultyType == ASSUME Locals, Faulty PROVE faults' \in 0..MaxFaults
BY BoundsAssumption DEF Locals, Faulty

LEMMA FailLocals ==
  ASSUME Locals, NEW p \in Proc, Fail(p), pc[p] \in Writing,
         UNCHANGED <<calls, discards>>, faults' \in 0..MaxFaults
  PROVE  Locals' /\ Others(p)
<1>1. CASE End(p)
  BY <1>1, EndLocals
<1>2. CASE Goto(p, "cleanup") /\ UNCHANGED <<call, got, at, plan>>
  <2>1. "cleanup" \in Stage /\ "cleanup" \in Writing /\ pc[p] # "idle"
    BY DEF Stage, Writing
  <2>2. DOMAIN got' = Proc /\ \A q \in Proc \ {p} : got'[q] = got[q]
    BY <1>2 DEF Locals
  <2>3. at' \in [Proc -> 1..Len(OpenOrder)]
    BY <1>2 DEF Locals
  <2> QED BY <1>2, <2>1, <2>2, <2>3, GoLocals
<1> QED BY <1>1, <1>2 DEF Fail

LEMMA StepLocals ==
  ASSUME Marks, Locals, NEW p \in Proc, Step(p)
  PROVE  Locals' /\ Others(p)
<1> USE DEF Stage, Writing
<1>0. faults \in 0..MaxFaults
  BY DEF Locals
<1>1. CASE Begin(p)
  <2>1. PICK c \in Call[p] : /\ call' = [call EXCEPT ![p] = c]
                             /\ Goto(p, IF c.op = "open" THEN "read" ELSE "check")
    BY <1>1 DEF Begin
  <2>2. c # Absent
    BY CallAssumption
  <2>3. calls' \in [Proc -> 0..MaxCalls]
    BY <1>1, BoundsAssumption DEF Locals, Begin
  <2> QED BY <1>1, <2>1, <2>2, <2>3 DEF Locals, Others, Begin, Goto
<1>2. CASE CheckOutput(p)
  BY <1>0, <1>2, GoLocals DEF CheckOutput, Locals
<1>3. CASE OutputExists(p) \/ ReadFails(p) \/ Close(p)
  BY <1>0, <1>3, EndLocals DEF OutputExists, ReadFails, Close
<1>4. CASE ReadFile(p)
  <2>1. DOMAIN got' = Proc /\ \A q \in Proc \ {p} : got'[q] = got[q]
    BY <1>4 DEF ReadFile, Locals
  <2>2. CASE at[p] < Len(OpenOrder)
    <3>1. at' = [at EXCEPT ![p] = @ + 1] /\ UNCHANGED pc
      BY <1>4, <2>2 DEF ReadFile
    <3>2. at' \in [Proc -> 1..Len(OpenOrder)]
      BY <2>2, <3>1 DEF Locals, OpenOrder
    <3> QED BY <1>4, <2>1, <3>1, <3>2 DEF ReadFile, Locals, Others
  <2>3. CASE ~ at[p] < Len(OpenOrder)
    BY <1>0, <1>4, <2>1, <2>3, GoLocals DEF ReadFile, Locals
  <2> QED BY <2>2, <2>3
<1>5. CASE Compile(p)
  <2>1. CASE End(p)
    BY <1>0, <1>5, <2>1, EndLocals DEF Compile
  <2>2. ASSUME NEW read, NEW current,
               plan' = [plan EXCEPT ![p] = Planned(p, read, current)],
               Goto(p, "create") /\ UNCHANGED <<call, got, at>>
        PROVE  Locals' /\ Others(p)
    <3>1. DOMAIN Planned(p, read, current) = {"facts", "changes"}
      BY DEF Planned
    <3>2. Planned(p, read, current) # Absent
      BY <3>1 DEF Marks
    <3> QED BY <1>5, <2>2, <3>2 DEF Compile, Locals, Others, Goto
  <2> QED BY <1>5, <2>1, <2>2 DEF Compile
<1>6. CASE Create(p)
  BY <1>0, <1>6, GoLocals DEF Create, Locals
<1>7. CASE WriteFile(p)
  <2>1. CASE Writable(p, pc[p])
    <3>1. pc[p] \in Writing /\ StageAfter(p, pc[p]) \in Writing
      BY <1>7 DEF WriteFile, Locals, StageAfter, File
    <3> QED BY <1>0, <1>7, <2>1, <3>1, GoLocals DEF WriteFile, Locals
  <2>2. CASE ~ Writable(p, pc[p])
    <3>1. pc[p] \in Writing
      BY <1>7 DEF WriteFile, Locals, File
    <3> QED BY <1>0, <1>7, <2>2, <3>1, FailLocals DEF WriteFile
  <2> QED BY <2>1, <2>2
<1>8. CASE Publish(p)
  <2>1. CASE Fail(p)
    BY <1>0, <1>8, <2>1, FailLocals DEF Publish
  <2>2. CASE Goto(p, "manifest") /\ UNCHANGED <<call, got, at, plan>>
    BY <1>0, <1>8, <2>2, GoLocals DEF Publish, Locals
  <2> QED BY <1>8, <2>1, <2>2 DEF Publish
<1>9. CASE CreateManifest(p)
  <2>1. CASE Fail(p)
    BY <1>0, <1>9, <2>1, FailLocals DEF CreateManifest
  <2>2. CASE Goto(p, "content") /\ UNCHANGED <<call, got, at, plan>>
    BY <1>0, <1>9, <2>2, GoLocals DEF CreateManifest, Locals
  <2> QED BY <1>9, <2>1, <2>2 DEF CreateManifest
<1>10. CASE WriteManifest(p)
  BY <1>0, <1>10, GoLocals DEF WriteManifest, Locals
<1>11. CASE Report(p) \/ Cleanup(p)
  BY <1>0, <1>11, EndLocals DEF Report, Cleanup
<1>12. CASE CleanupCut(p) \/ Crash(p)
  BY <1>12, EndLocals, FaultyType DEF CleanupCut, Crash
<1>13. CASE IOError(p)
  BY <1>13, FailLocals, FaultyType DEF IOError
<1> QED BY <1>1, <1>2, <1>3, <1>4, <1>5, <1>6, <1>7, <1>8, <1>9, <1>10, <1>11, <1>12, <1>13
        DEF Step, Silent, Changing

-----------------------------------------------------------------------------
(* What a step changes of the directories                                  *)

LEMMA WritingType ==
  ASSUME CommandInv, NEW p \in Proc, pc[p] \in Writing
  PROVE  /\ Output(p) \in Dir /\ DOMAIN Written(p) = File /\ Written(p) # Absent
         /\ meant[Output(p)] # Absent /\ Output(p) \notin reported
<1>1. Output(p) \in Dir
  BY CallType DEF Writing
<1>2. Written(p) # Absent /\ Output(p) \notin reported
  BY DEF CommandInv, Owned
<1>3. IsDirectory(Written(p)) /\ (Written(p) = Absent <=> meant[Output(p)] = Absent)
  BY <1>1 DEF CommandInv, TypeOK, Written
<1> QED BY <1>1, <1>2, <1>3 DEF IsDirectory

(* Only the output of p may be different.                                  *)
Elsewhere(p) ==
  \A d \in Dir \ {Output(p)} :
    dirs'[d] = dirs[d] /\ meant'[d] = meant[d] /\ (d \in reported' <=> d \in reported)

(* The variables of the directories have their types.                      *)
Folders ==
  /\ DOMAIN dirs = Dir /\ \A d \in Dir : IsDirectory(dirs[d])
  /\ reported \subseteq Dir
  /\ \A d \in Dir : dirs[d] = Absent <=> meant[d] = Absent
  /\ DOMAIN meant = Dir

\* A write into a directory keeps it one.
LEMMA WrittenInto ==
  ASSUME Marks, CommandInv, NEW p \in Proc, pc[p] \in Writing,
         NEW v, DOMAIN v = File, dirs' = [dirs EXCEPT ![Output(p)] = v],
         UNCHANGED <<meant, reported>>
  PROVE  Folders' /\ Elsewhere(p) /\ dirs'[Output(p)] = v
<1>1. v # Absent
  BY DEF Marks
<1>2. Folders
  BY DEF CommandInv, TypeOK, Shape, Folders
<1> QED BY <1>1, <1>2, WritingType DEF Folders, Elsewhere, IsDirectory

LEMMA StepDirs ==
  ASSUME Marks, CommandInv, NEW p \in Proc, Step(p)
  PROVE  \/ UNCHANGED <<dirs, meant, reported, made, shown>>
         \/ /\ \/ pc[p] \in Writing
               \/ pc[p] = "create" /\ dirs[Output(p)] = Absent
            /\ Folders' /\ Elsewhere(p) /\ made \subseteq made' /\ shown' = Shown'
<1>0. Folders
  BY DEF CommandInv, TypeOK, Shape, Folders
<1>1. CASE Begin(p) \/ CheckOutput(p) \/ OutputExists(p) \/ ReadFile(p) \/ ReadFails(p)
  BY <1>1 DEF Begin, CheckOutput, OutputExists, ReadFile, ReadFails
<1>2. CASE Close(p) \/ Compile(p) \/ Publish(p)
  BY <1>2 DEF Close, Compile, Publish
<1>3. CASE Create(p) /\ shown' = Shown'
  <2>1. Output(p) \in Dir
    BY <1>3, CallType DEF Create
  <2>2. DOMAIN NoFiles = File /\ NoFiles # Absent
    BY DEF NoFiles, Marks
  <2> DEFINE what == [op |-> call[p].op, facts |-> plan[p].facts]
  <2>3. what # Absent
    BY DOMAIN what = {"op", "facts"} DEF Marks
  <2> HIDE DEF what
  <2>4. meant' = [meant EXCEPT ![Output(p)] = what] /\ dirs' = [dirs EXCEPT ![Output(p)] = NoFiles]
    BY <1>3 DEF Create, what
  <2> QED BY <1>0, <1>3, <2>1, <2>2, <2>3, <2>4 DEF Create, Folders, Elsewhere, IsDirectory
<1>4. CASE WriteFile(p) /\ shown' = Shown'
  <2>1. pc[p] \in Writing
    BY <1>4 DEF WriteFile, CommandInv, TypeOK, Stage, Writing, File
  <2>2. CASE Writable(p, pc[p])
    <3> DEFINE v == [Written(p) EXCEPT ![pc[p]] = Produced(p, pc[p])]
    <3>1. DOMAIN v = File
      BY <2>1, WritingType
    <3>2. dirs' = [dirs EXCEPT ![Output(p)] = v]
      BY <1>4, <2>2 DEF WriteFile, Written
    <3> HIDE DEF v
    <3> QED BY <1>4, <2>1, <3>1, <3>2, WrittenInto DEF WriteFile
  <2>3. CASE ~ Writable(p, pc[p])
    BY <1>0, <1>4, <2>1, <2>3 DEF WriteFile, Folders, Elsewhere
  <2> QED BY <2>2, <2>3
<1>5. CASE CreateManifest(p) /\ shown' = Shown'
  <2>1. pc[p] \in Writing
    BY <1>5 DEF CreateManifest, Writing
  <2>2. CASE Written(p)["repository.manifest"] = Absent
    <3> DEFINE v == [Written(p) EXCEPT !["repository.manifest"] = Torn]
    <3>1. DOMAIN v = File
      BY <2>1, WritingType
    <3>2. dirs' = [dirs EXCEPT ![Output(p)] = v]
      BY <1>5, <2>2 DEF CreateManifest, Written
    <3> HIDE DEF v
    <3> QED BY <1>5, <2>1, <3>1, <3>2, WrittenInto DEF CreateManifest
  <2>3. CASE Written(p)["repository.manifest"] # Absent
    BY <1>0, <1>5, <2>1, <2>3 DEF CreateManifest, Folders, Elsewhere
  <2> QED BY <2>2, <2>3
<1>6. CASE WriteManifest(p) /\ shown' = Shown'
  <2>1. pc[p] \in Writing
    BY <1>6 DEF WriteManifest, Writing
  <2> DEFINE v == [Written(p) EXCEPT !["repository.manifest"] = [f \in Bound |-> Written(p)[f]]]
  <2>2. DOMAIN v = File
    BY <2>1, WritingType
  <2>3. dirs' = [dirs EXCEPT ![Output(p)] = v]
    BY <1>6 DEF WriteManifest, Written
  <2> HIDE DEF v
  <2> QED BY <1>6, <2>1, <2>2, <2>3, WrittenInto DEF WriteManifest
<1>7. CASE Report(p) /\ shown' = Shown'
  BY <1>0, <1>7, CallType DEF Report, Writing, Folders, Elsewhere
<1>8. CASE Cleanup(p) /\ shown' = Shown'
  BY <1>0, <1>8, CallType DEF Cleanup, Writing, Folders, Elsewhere, IsDirectory
<1>9. CASE CleanupCut(p) /\ shown' = Shown'
  <2>1. pc[p] \in Writing
    BY <1>9 DEF CleanupCut, Writing
  <2>2. PICK gone : dirs' = [dirs EXCEPT ![Output(p)] =
                               [f \in File |-> IF f \in gone THEN Absent ELSE @[f]]]
    BY <1>9 DEF CleanupCut
  <2> DEFINE v == [f \in File |-> IF f \in gone THEN Absent ELSE Written(p)[f]]
  <2>3. DOMAIN v = File /\ dirs' = [dirs EXCEPT ![Output(p)] = v]
    BY <2>2 DEF Written
  <2> HIDE DEF v
  <2> QED BY <1>9, <2>1, <2>3, WrittenInto DEF CleanupCut
<1>10. CASE (IOError(p) \/ Crash(p)) /\ shown' = Shown'
  <2>1. pc[p] \in Writing /\ UNCHANGED <<meant, reported, made>> /\ shown' = Shown' /\ Left(p)
    BY <1>10 DEF IOError, Crash
  <2>2. CASE UNCHANGED dirs
    BY <1>0, <2>1, <2>2 DEF Folders, Elsewhere
  <2>3. CASE dirs' = [dirs EXCEPT ![Output(p)][pc[p]] = Torn]
    <3> DEFINE v == [Written(p) EXCEPT ![pc[p]] = Torn]
    <3>1. DOMAIN v = File
      BY <2>1, WritingType
    <3>2. dirs' = [dirs EXCEPT ![Output(p)] = v]
      BY <2>3 DEF Written
    <3> HIDE DEF v
    <3> QED BY <2>1, <3>1, <3>2, WrittenInto
  <2> QED BY <2>1, <2>2, <2>3 DEF Left
<1> QED BY <1>1, <1>2, <1>3, <1>4, <1>5, <1>6, <1>7, <1>8, <1>9, <1>10 DEF Step, Silent, Changing

-----------------------------------------------------------------------------
(* The other processes                                                     *)

LEMMA StepWriting ==
  ASSUME CommandInv, NEW p \in Proc, Step(p), pc'[p] \in Writing
  PROVE  /\ call'[p] = call[p] /\ plan'[p] = plan[p]
         /\ pc[p] \in Writing \/ Create(p)
<1> USE DEF Writing, Goto
<1>0. pc \in [Proc -> Stage]
  BY DEF CommandInv, TypeOK
<1>1. CASE Begin(p)
  BY <1>0, <1>1 DEF Begin
<1>2. CASE CheckOutput(p) \/ OutputExists(p) \/ ReadFails(p) \/ Close(p)
  BY <1>0, <1>2 DEF CheckOutput, OutputExists, ReadFails, Close, End
<1>3. CASE ReadFile(p)
  BY <1>0, <1>3 DEF ReadFile
<1>4. CASE Compile(p)
  BY <1>0, <1>4 DEF Compile, End
<1>5. CASE Create(p)
  BY <1>5 DEF Create
<1>6. CASE WriteFile(p)
  BY <1>0, <1>6 DEF WriteFile, Fail, End, File, Stage
<1>7. CASE Publish(p)
  BY <1>0, <1>7 DEF Publish, Fail, End
<1>8. CASE CreateManifest(p) \/ WriteManifest(p)
  BY <1>0, <1>8 DEF CreateManifest, WriteManifest, Fail, End
<1>9. CASE Report(p) \/ Cleanup(p) \/ CleanupCut(p) \/ Crash(p)
  BY <1>0, <1>9 DEF Report, Cleanup, CleanupCut, Crash, End
<1>10. CASE IOError(p)
  BY <1>0, <1>10 DEF IOError, Fail, End
<1> QED BY <1>1, <1>2, <1>3, <1>4, <1>5, <1>6, <1>7, <1>8, <1>9, <1>10 DEF Step, Silent, Changing

\* A directory has no two writers, and none before it is created.
LEMMA OneWriter ==
  ASSUME CommandInv, NEW p \in Proc, NEW q \in Proc \ {p}, pc[q] \in Writing,
         pc[p] \in Writing \/ (pc[p] = "create" /\ dirs[Output(p)] = Absent)
  PROVE  Output(q) # Output(p)
<1>1. Owned(q)
  BY DEF CommandInv
<1> QED BY <1>1 DEF Owned, Written

LEMMA OthersKept ==
  ASSUME Marks, CommandInv, NEW p \in Proc, Step(p), NEW q \in Proc \ {p}
  PROVE  Owned(q)' /\ Progress(q)' /\ Reads(q)'
<1>1. /\ pc'[q] = pc[q] /\ call'[q] = call[q] /\ plan'[q] = plan[q] /\ got'[q] = got[q]
      /\ Output(q)' = Output(q)
  BY StepLocals DEF CommandInv, TypeOK, Shape, Locals, Others, Output
<1>2. made \subseteq made'
  BY StepDirs
<1>3. Reads(q)'
  BY <1>1, <1>2 DEF CommandInv, Reads, FactTexts
<1>4. ASSUME pc[q] \in Writing
      PROVE  /\ Written(q)' = Written(q) /\ meant'[Output(q)] = meant[Output(q)]
             /\ Output(q) \notin reported'
  <2>1. Output(q) \in Dir /\ Output(q) \notin reported
    BY <1>4, WritingType
  <2>2. CASE UNCHANGED <<dirs, meant, reported, made, shown>>
    BY <1>1, <2>1, <2>2 DEF Written
  <2>3. CASE Elsewhere(p) /\ (pc[p] \in Writing \/ (pc[p] = "create" /\ dirs[Output(p)] = Absent))
    <3>1. Output(q) # Output(p)
      BY <1>4, <2>3, OneWriter
    <3> QED BY <1>1, <2>1, <2>3, <3>1 DEF Elsewhere, Written
  <2> QED BY <2>2, <2>3, StepDirs
<1>5. Progress(q)'
  <2>1. Progress(q)
    BY DEF CommandInv
  <2>2. CASE pc[q] \in Writing
    BY <1>1, <1>4, <2>1, <2>2 DEF Progress
  <2>3. CASE pc[q] \notin Writing
    BY <1>1, <2>3 DEF Progress, Writing, File, CommandInv, TypeOK, Stage
  <2> QED BY <2>2, <2>3
<1>6. Owned(q)'
  <2> SUFFICES ASSUME pc[q] \in Writing PROVE Owned(q)'
    BY <1>1 DEF Owned
  <2>1. Owned(q)
    BY DEF CommandInv
  <2>2. ASSUME NEW r \in Proc \ {q}, pc'[r] \in Writing
        PROVE  Output(r)' # Output(q)
    <3>1. CASE r = p
      <4>1. Output(p)' = Output(p) /\ (pc[p] \in Writing \/ Create(p))
        BY <2>2, <3>1, StepWriting DEF Output
      <4>2. Output(q) # Output(p)
        BY <4>1, OneWriter DEF Create
      <4> QED BY <3>1, <4>1, <4>2
    <3>2. CASE r # p
      <4>1. Others(p)
        BY StepLocals DEF CommandInv, TypeOK, Shape, Locals
      <4>2. pc'[r] = pc[r] /\ call'[r] = call[r]
        BY <2>2, <3>2, <4>1 DEF Others
      <4>3. pc[r] \in Writing /\ Output(r)' = Output(r)
        BY <2>2, <4>2 DEF Output
      <4> QED BY <2>1, <2>2, <4>3 DEF Owned
    <3> QED BY <3>1, <3>2
  <2> QED BY <1>1, <1>4, <2>1, <2>2 DEF Owned
<1> QED BY <1>3, <1>5, <1>6

-----------------------------------------------------------------------------
(* Readers                                                                 *)

\* A directory that exists has fact files of facts meant to be published.
LEMMA SourceTexts ==
  ASSUME CommandInv, NEW p \in Proc, pc[p] # "idle", Source(p) # Absent
  PROVE  DOMAIN Source(p) = File /\ Source(p)["facts.tsv"] \in FactTexts
<1>1. call[p].source \in Dir
  BY CallType
<1> QED BY <1>1 DEF CommandInv, TypeOK, IsDirectory, Meaningful, Source

LEMMA StepReads ==
  ASSUME Marks, CommandInv, NEW p \in Proc, Step(p)
  PROVE  Reads(p)'
<1> USE DEF Goto
<1>0. /\ pc \in [Proc -> Stage] /\ DOMAIN got = Proc /\ at[p] \in 1..Len(OpenOrder)
      /\ FactTexts \subseteq FactTexts' /\ Reads(p)
  BY StepDirs DEF CommandInv, TypeOK, Shape, FactTexts
<1>1. CASE End(p)
  BY <1>0, <1>1 DEF End, Reads
<1>2. CASE Begin(p)
  <2>1. DOMAIN NoFiles = File /\ NoFiles["facts.tsv"] = Absent
    BY DEF NoFiles, File
  <2>2. got'[p] = NoFiles /\ pc'[p] # "opened"
    BY <1>0, <1>2 DEF Begin
  <2> QED BY <2>1, <2>2 DEF Reads, FactTexts
<1>3. ASSUME got'[p] = got[p], pc'[p] # "opened", pc[p] # "idle"
      PROVE  Reads(p)'
  BY <1>0, <1>3 DEF Reads
<1>4. CASE CheckOutput(p) \/ Compile(p) \/ Create(p) \/ Publish(p)
  BY <1>0, <1>1, <1>3, <1>4 DEF CheckOutput, Compile, Create, Publish, Fail
<1>5. CASE WriteFile(p)
  <2>1. pc[p] # "idle" /\ \A s \in Stage : s \in File => StageAfter(p, s) # "opened"
    BY <1>5 DEF WriteFile, StageAfter, Stage, File, Writing
  <2> QED BY <1>0, <1>1, <1>3, <1>5, <2>1 DEF WriteFile, Fail
<1>6. CASE CreateManifest(p) \/ WriteManifest(p)
  BY <1>0, <1>1, <1>3, <1>6 DEF CreateManifest, WriteManifest, Fail
<1>7. CASE IOError(p)
  BY <1>0, <1>1, <1>3, <1>7 DEF IOError, Fail, Writing
<1>8. CASE ReadFile(p)
  <2> DEFINE f == OpenOrder[at[p]]
  <2>1. /\ f \in File /\ pc[p] = "read" /\ Source(p) # Absent
        /\ Fits(p, Source(p)[f]) /\ got' = [got EXCEPT ![p][f] = Source(p)[f]]
    BY <1>0, <1>8 DEF ReadFile, OpenOrder, File
  <2>2. got'[p] = [got[p] EXCEPT ![f] = Source(p)[f]]
    BY <1>0, <2>1
  <2>3. DOMAIN got[p] = File /\ got[p]["facts.tsv"] \in FactTexts
    BY <1>0, <2>1 DEF Reads
  <2>4. Source(p)["facts.tsv"] \in FactTexts
    BY <2>1, SourceTexts
  <2>5. DOMAIN got'[p] = File /\ got'[p]["facts.tsv"] \in FactTexts
    BY <2>1, <2>2, <2>3, <2>4 DEF File
  <2>6. ASSUME pc'[p] = "opened"
        PROVE  Valid(got'[p])
    <3>1. at[p] = 8
      BY <1>0, <1>8, <2>1, <2>6 DEF ReadFile, OpenOrder
    <3>2. Valid([got[p] EXCEPT ![f] = Source(p)[f]])
      BY <2>1, <3>1 DEF Fits
    <3> QED BY <2>2, <3>2
  <2> QED BY <1>0, <2>5, <2>6 DEF Reads
<1> QED BY <1>1, <1>2, <1>4, <1>5, <1>6, <1>7, <1>8
        DEF Step, Silent, Changing, OutputExists, ReadFails, Close, Report, Cleanup, CleanupCut,
            Crash

-----------------------------------------------------------------------------
(* The process that takes the step                                         *)

LEMMA StillAlone ==
  ASSUME Marks, CommandInv, NEW p \in Proc, Step(p), pc'[p] \in Writing,
         NEW q \in Proc \ {p}, pc'[q] \in Writing
  PROVE  Output(q)' # Output(p)'
<1>1. pc[q] \in Writing /\ Output(q)' = Output(q)
  BY StepLocals DEF CommandInv, TypeOK, Shape, Locals, Others, Output
<1>2. Output(p)' = Output(p) /\ (pc[p] \in Writing \/ Create(p))
  BY StepWriting DEF Output
<1> QED BY <1>1, <1>2, OneWriter DEF Create

\* A manifest does not matter for the validity of what it will bind.
LEMMA ValidWithManifest ==
  ASSUME NEW files, DOMAIN files = File, Valid(files), NEW manifest,
         NEW with, with = [files EXCEPT !["repository.manifest"] = manifest], with # Absent
  PROVE  Valid(with)
<1>1. \A f \in File \ {"repository.manifest"} : with[f] = files[f]
  OBVIOUS
<1>2. /\ with["graph.manifest"] = files["graph.manifest"]
      /\ with["graph.arcana"] = files["graph.arcana"]
      /\ with["overlay.arcana"] = files["overlay.arcana"]
      /\ with["catalogue.tsv"] = files["catalogue.tsv"]
      /\ with["unresolved.tsv"] = files["unresolved.tsv"]
      /\ with["facts.tsv"] = files["facts.tsv"]
  BY <1>1 DEF File
<1> QED BY <1>2 DEF Valid

\* The manifest that binds valid files makes their directory open.
LEMMA ManifestOpens ==
  ASSUME Marks, NEW files, DOMAIN files = File, Valid(files),
         NEW with,
         with = [files EXCEPT !["repository.manifest"] = [f \in Bound |-> files[f]]]
  PROVE  Opens(with)
<1>1. DOMAIN with = File /\ with # Absent
  BY DEF Marks
<1>2. with["repository.manifest"] = [f \in Bound |-> files[f]]
  BY DEF File
<1>3. with["repository.manifest"] \notin {Absent, Torn}
  BY <1>2 DEF Marks
<1>4. \A f \in Bound : with[f] = with["repository.manifest"][f]
  BY <1>2 DEF Bound, File
<1>5. Valid(with)
  BY <1>1, ValidWithManifest
<1> QED BY <1>1, <1>3, <1>4, <1>5 DEF Opens

(* What the process and its directory are to satisfy after its step.       *)
Kept(p) ==
  Owned(p)' /\ Progress(p)' /\ \A d \in Dir : Meaningful(d)'

\* A step that only fails leaves the directory as it is.
LEMMA FailKept ==
  ASSUME Marks, CommandInv, NEW p \in Proc, Step(p), Fail(p), pc[p] \in Writing,
         UNCHANGED <<dirs, meant, reported, made>>
  PROVE  Kept(p)
<1>1. pc'[p] = "idle" \/ (pc'[p] = "cleanup" /\ UNCHANGED <<call, plan>>)
  BY DEF Fail, End, Goto, CommandInv, TypeOK
<1>2. Owned(p) /\ Progress(p)
  BY DEF CommandInv
<1>3. Progress(p)'
  BY <1>1, <1>2 DEF Progress, Writing, File, Written, Output
<1>4. Owned(p)'
  BY <1>1, <1>2, StillAlone DEF Owned, Written, Output, Writing
<1>5. \A d \in Dir : Meaningful(d)'
  BY DEF CommandInv, Meaningful, FactTexts
<1> QED BY <1>3, <1>4, <1>5 DEF Kept

\* A write at the output of p leaves what other directories mean.
LEMMA MeaningElsewhere ==
  ASSUME CommandInv, NEW p \in Proc, NEW o \in Dir, o = Output(p),
         Elsewhere(p), made \subseteq made', Meaningful(o)'
  PROVE  \A d \in Dir : Meaningful(d)'
<1> SUFFICES ASSUME NEW d \in Dir, d # o PROVE Meaningful(d)'
  OBVIOUS
<1>1. dirs'[d] = dirs[d] /\ meant'[d] = meant[d] /\ (d \in reported' <=> d \in reported)
  BY DEF Elsewhere
<1>2. Meaningful(d)
  BY DEF CommandInv
<1> QED BY <1>1, <1>2 DEF Meaningful, FactTexts

LEMMA CreateKept ==
  ASSUME Marks, CommandInv, NEW p \in Proc, Step(p), Create(p)
  PROVE  Kept(p)
<1>1. PICK o \in Dir : o = Output(p)
  BY CallType DEF Create
<1>2. o \notin reported
  BY <1>1 DEF Create, CommandInv, Meaningful, Opens
<1>3. /\ dirs'[o] = NoFiles /\ DOMAIN NoFiles = File /\ NoFiles # Absent
      /\ meant'[o] = [op |-> call[p].op, facts |-> plan[p].facts]
      /\ reported' = reported /\ made' = made \cup {plan[p].facts}
      /\ call' = call /\ plan' = plan /\ pc'[p] = "graph.arcana"
  BY <1>1 DEF Create, NoFiles, Marks, Goto, CommandInv, TypeOK, Shape
<1>4. Owned(p)'
  BY <1>1, <1>2, <1>3, StillAlone DEF Owned, Output, Written, Writing
<1>5. Progress(p)'
  BY <1>1, <1>3 DEF Progress, Written, Output, NoFiles, File
<1>6. Meaningful(o)'
  BY <1>2, <1>3 DEF Meaningful, FactTexts, NoFiles, File
<1>7. Elsewhere(p) /\ made \subseteq made'
  BY <1>1, <1>3 DEF Create, Elsewhere, CommandInv, TypeOK, Shape
<1> QED BY <1>1, <1>4, <1>5, <1>6, <1>7, MeaningElsewhere DEF Kept

\* A write by the owner of a directory, of what the manifest will bind or of
\* the manifest, leaves it the owner's.
LEMMA WriteKept ==
  ASSUME Marks, CommandInv, NEW p \in Proc, Step(p), pc[p] \in Writing,
         NEW v, DOMAIN v = File, dirs' = [dirs EXCEPT ![Output(p)] = v],
         UNCHANGED <<meant, reported, made>>,
         pc'[p] = "idle" \/ UNCHANGED <<call, plan>>,
         v["facts.tsv"] \in FactTexts
  PROVE  Owned(p)' /\ (\A d \in Dir : Meaningful(d)')
         /\ (UNCHANGED call => Written(p)' = v)
<1>1. PICK o \in Dir : o = Output(p)
  BY WritingType
<1>2. /\ Folders' /\ Elsewhere(p) /\ dirs'[o] = v /\ v # Absent
      /\ Owned(p) /\ o \notin reported /\ meant[o].facts \in made
  BY <1>1, WritingType, WrittenInto DEF Marks, CommandInv, Meaningful, Written
<1>3. Owned(p)'
  BY <1>1, <1>2, StillAlone DEF Owned, Output, Written, Writing
<1>4. Meaningful(o)'
  BY <1>2 DEF Meaningful, FactTexts
<1>5. \A d \in Dir : Meaningful(d)'
  BY <1>1, <1>2, <1>4, MeaningElsewhere
<1> QED BY <1>1, <1>2, <1>3, <1>5 DEF Written, Output

\* What the owner's directory held as a fact file, and would hold next.
LEMMA OwnTexts ==
  ASSUME CommandInv, NEW p \in Proc, pc[p] \in Writing
  PROVE  Written(p)["facts.tsv"] \in FactTexts /\ Encoded(plan[p].facts) \in FactTexts
<1>1. /\ Output(p) \in Dir /\ dirs[Output(p)] # Absent
      /\ meant[Output(p)] = [op |-> call[p].op, facts |-> plan[p].facts]
  BY WritingType DEF CommandInv, Owned, Written
<1>2. meant[Output(p)].facts = plan[p].facts
  BY <1>1
<1>3. Meaningful(Output(p))
  BY <1>1 DEF CommandInv
<1> QED BY <1>1, <1>2, <1>3 DEF Meaningful, Written, FactTexts

LEMMA WriteFileKept ==
  ASSUME Marks, CommandInv, NEW p \in Proc, Step(p), WriteFile(p)
  PROVE  Kept(p)
<1> DEFINE f == pc[p]
<1>1. f \in Writing /\ f \in File \ {"repository.manifest"} /\ f \in Stage
  BY DEF WriteFile, CommandInv, TypeOK, Stage, Writing, File
<1>2. CASE Writable(p, f)
  <2> DEFINE v == [Written(p) EXCEPT ![f] = Produced(p, f)]
  <2>1. /\ DOMAIN v = File /\ dirs' = [dirs EXCEPT ![Output(p)] = v]
        /\ pc'[p] = StageAfter(p, f) /\ UNCHANGED <<call, plan, meant, reported, made>>
    BY <1>1, <1>2, WritingType DEF WriteFile, Written, Goto, CommandInv, TypeOK
  <2>2. f = "facts.tsv" => Produced(p, f) = Encoded(plan[p].facts)
    BY DEF Produced
  <2>3. v["facts.tsv"] \in FactTexts
    BY <1>1, <2>2, OwnTexts, WritingType DEF File
  <2>4. v["repository.manifest"] = Absent
    BY <1>1, WritingType DEF CommandInv, Progress, File
  <2>5. StageAfter(p, f) \in File \cup {"publish"} /\ StageAfter(p, f) # "repository.manifest"
        /\ (StageAfter(p, f) = "publish" => f = "facts.tsv")
    BY <1>1 DEF StageAfter, File, Stage, Writing
  <2>6. StageAfter(p, f) = "publish" => v["facts.tsv"] = Encoded(plan[p].facts)
    BY <1>1, <2>2, <2>5, WritingType DEF File
  <2> HIDE DEF v, f
  <2>7. Owned(p)' /\ (\A d \in Dir : Meaningful(d)') /\ Written(p)' = v
    BY <1>1, <2>1, <2>3, WriteKept DEF f
  <2>8. Progress(p)'
    BY <2>1, <2>4, <2>5, <2>6, <2>7 DEF Progress, File
  <2> QED BY <2>7, <2>8 DEF Kept
<1>3. CASE ~ Writable(p, f)
  BY <1>1, <1>3, FailKept DEF WriteFile
<1> QED BY <1>2, <1>3

LEMMA PublishKept ==
  ASSUME Marks, CommandInv, NEW p \in Proc, Step(p), Publish(p)
  PROVE  Kept(p)
<1>1. pc[p] \in Writing /\ Owned(p) /\ Progress(p)
  BY DEF Publish, Writing, CommandInv
<1>2. CASE Fail(p)
  BY <1>1, <1>2, FailKept DEF Publish
<1>3. CASE Valid(Written(p)) /\ Goto(p, "manifest") /\ UNCHANGED <<call, got, at, plan>>
  <2>1. pc'[p] = "manifest" /\ Written(p)' = Written(p) /\ Output(p)' = Output(p)
    BY <1>3 DEF Publish, Goto, CommandInv, TypeOK, Written, Output
  <2>2. Progress(p)'
    BY <1>1, <1>3, <2>1 DEF Publish, Progress, File
  <2>3. Owned(p)'
    BY <1>1, <1>3, <2>1, StillAlone DEF Publish, Owned, Writing
  <2>4. \A d \in Dir : Meaningful(d)'
    BY DEF Publish, CommandInv, Meaningful, FactTexts
  <2> QED BY <2>2, <2>3, <2>4 DEF Kept
<1> QED BY <1>2, <1>3 DEF Publish

LEMMA CreateManifestKept ==
  ASSUME Marks, CommandInv, NEW p \in Proc, Step(p), CreateManifest(p)
  PROVE  Kept(p)
<1>1. pc[p] \in Writing /\ Progress(p) /\ pc[p] = "manifest"
  BY DEF CreateManifest, Writing, CommandInv
<1>2. CASE Written(p)["repository.manifest"] = Absent
  <2> DEFINE v == [Written(p) EXCEPT !["repository.manifest"] = Torn]
  <2>1. /\ DOMAIN v = File /\ dirs' = [dirs EXCEPT ![Output(p)] = v]
        /\ pc'[p] = "content" /\ UNCHANGED <<call, plan, meant, reported, made>>
    BY <1>1, <1>2, WritingType DEF CreateManifest, Written, Goto, CommandInv, TypeOK
  <2>2. v["facts.tsv"] = Written(p)["facts.tsv"] /\ v["repository.manifest"] = Torn
    BY <1>1, WritingType DEF File
  <2>3. Valid(v)
    BY <1>1, <2>1, WritingType, ValidWithManifest DEF Progress, Marks
  <2> HIDE DEF v
  <2>4. Owned(p)' /\ (\A d \in Dir : Meaningful(d)') /\ Written(p)' = v
    BY <1>1, <2>1, <2>2, OwnTexts, WriteKept
  <2>5. Progress(p)'
    BY <1>1, <2>1, <2>2, <2>3, <2>4 DEF Progress, File
  <2> QED BY <2>4, <2>5 DEF Kept
<1>3. CASE Written(p)["repository.manifest"] # Absent
  BY <1>1, <1>3, FailKept DEF CreateManifest
<1> QED BY <1>2, <1>3

LEMMA WriteManifestKept ==
  ASSUME Marks, CommandInv, NEW p \in Proc, Step(p), WriteManifest(p)
  PROVE  Kept(p)
<1>1. pc[p] \in Writing /\ Progress(p) /\ pc[p] = "content"
  BY DEF WriteManifest, Writing, CommandInv
<1> DEFINE v == [Written(p) EXCEPT !["repository.manifest"] = [f \in Bound |-> Written(p)[f]]]
<1>2. /\ DOMAIN v = File /\ dirs' = [dirs EXCEPT ![Output(p)] = v]
      /\ pc'[p] = "sync" /\ UNCHANGED <<call, plan, meant, reported, made>>
  BY <1>1, WritingType DEF WriteManifest, Written, Goto, CommandInv, TypeOK
<1>3. v["facts.tsv"] = Written(p)["facts.tsv"]
  BY <1>1, WritingType DEF File
<1>4. Opens(v)
  BY <1>1, WritingType, ManifestOpens DEF Progress
<1> HIDE DEF v
<1>5. Owned(p)' /\ (\A d \in Dir : Meaningful(d)') /\ Written(p)' = v
  BY <1>1, <1>2, <1>3, OwnTexts, WriteKept
<1>6. Progress(p)'
  BY <1>1, <1>2, <1>3, <1>4, <1>5 DEF Progress, File
<1> QED BY <1>5, <1>6 DEF Kept

LEMMA ReportKept ==
  ASSUME Marks, CommandInv, NEW p \in Proc, Step(p), Report(p)
  PROVE  Kept(p)
<1>1. pc[p] \in Writing /\ Progress(p) /\ Owned(p) /\ pc[p] = "sync"
  BY DEF Report, Writing, CommandInv
<1>2. PICK o \in Dir : o = Output(p)
  BY <1>1, WritingType
<1>3. /\ pc'[p] = "idle" /\ UNCHANGED <<dirs, meant, made>>
      /\ reported' = reported \cup {o}
  BY <1>2 DEF Report, End, Goto, CommandInv, TypeOK
<1>4. meant[o] = [op |-> call[p].op, facts |-> plan[p].facts]
  BY <1>1, <1>2 DEF Owned
<1>5. Opens(dirs[o]) /\ dirs[o]["facts.tsv"] = Encoded(meant[o].facts)
  BY <1>1, <1>2, <1>4 DEF Progress, Written
<1>6. \A d \in Dir : Meaningful(d)'
  BY <1>3, <1>5 DEF CommandInv, Meaningful, FactTexts
<1>7. Owned(p)' /\ Progress(p)'
  BY <1>3 DEF Owned, Progress, Writing, File
<1> QED BY <1>6, <1>7 DEF Kept

LEMMA CleanupKept ==
  ASSUME Marks, CommandInv, NEW p \in Proc, Step(p), Cleanup(p)
  PROVE  Kept(p)
<1>1. pc[p] \in Writing /\ Owned(p)
  BY DEF Cleanup, Writing, CommandInv
<1>2. PICK o \in Dir : o = Output(p) /\ o \notin reported
  BY <1>1, WritingType
<1>3. /\ pc'[p] = "idle" /\ UNCHANGED <<reported, made>>
      /\ dirs' = [dirs EXCEPT ![o] = Absent] /\ meant' = [meant EXCEPT ![o] = Absent]
  BY <1>2 DEF Cleanup, End, Goto, CommandInv, TypeOK
<1>4. Meaningful(o)' /\ Elsewhere(p) /\ made \subseteq made'
  BY <1>2, <1>3 DEF Meaningful, Elsewhere, CommandInv, TypeOK
<1>5. \A d \in Dir : Meaningful(d)'
  BY <1>2, <1>4, MeaningElsewhere
<1>6. Owned(p)' /\ Progress(p)'
  BY <1>3 DEF Owned, Progress, Writing, File
<1> QED BY <1>5, <1>6 DEF Kept

LEMMA CleanupCutKept ==
  ASSUME Marks, CommandInv, NEW p \in Proc, Step(p), CleanupCut(p)
  PROVE  Kept(p)
<1>1. pc[p] \in Writing
  BY DEF CleanupCut, Writing
<1>2. PICK gone : dirs' = [dirs EXCEPT ![Output(p)] =
                             [f \in File |-> IF f \in gone THEN Absent ELSE @[f]]]
  BY DEF CleanupCut
<1> DEFINE v == [f \in File |-> IF f \in gone THEN Absent ELSE Written(p)[f]]
<1>3. DOMAIN v = File /\ dirs' = [dirs EXCEPT ![Output(p)] = v]
  BY <1>2 DEF Written
<1>4. v["facts.tsv"] \in FactTexts
  BY <1>1, OwnTexts DEF File, FactTexts
<1> HIDE DEF v
<1>5. pc'[p] = "idle" /\ UNCHANGED <<meant, reported, made>>
  BY DEF CleanupCut, End, Goto, CommandInv, TypeOK
<1>6. Owned(p)' /\ \A d \in Dir : Meaningful(d)'
  BY <1>1, <1>3, <1>4, <1>5, WriteKept
<1>7. Progress(p)'
  BY <1>5 DEF Progress, File
<1> QED BY <1>6, <1>7 DEF Kept

\* What an error or a crash may leave of the file being written.
LEMMA LeftKept ==
  ASSUME Marks, CommandInv, NEW p \in Proc, Step(p), pc[p] \in Writing, Left(p),
         UNCHANGED <<meant, reported, made>>,
         pc'[p] = "idle" \/ (pc'[p] = "cleanup" /\ UNCHANGED <<call, plan>>)
  PROVE  Kept(p)
<1>1. Owned(p) /\ Progress(p)
  BY DEF CommandInv
<1>2. CASE UNCHANGED dirs
  <2>1. Progress(p)'
    BY <1>1, <1>2 DEF Progress, Writing, File, Written, Output
  <2>2. Owned(p)'
    BY <1>1, <1>2, StillAlone DEF Owned, Written, Output, Writing
  <2>3. \A d \in Dir : Meaningful(d)'
    BY <1>2 DEF CommandInv, Meaningful, FactTexts
  <2> QED BY <2>1, <2>2, <2>3 DEF Kept
<1>3. CASE pc[p] \in InPlace(p) /\ dirs' = [dirs EXCEPT ![Output(p)][pc[p]] = Torn]
  <2> DEFINE v == [Written(p) EXCEPT ![pc[p]] = Torn]
  <2>1. DOMAIN v = File /\ dirs' = [dirs EXCEPT ![Output(p)] = v]
    BY <1>3, WritingType DEF Written
  <2>2. pc[p] \in File \ {"repository.manifest"}
    BY <1>3 DEF InPlace, File
  <2>3. v["facts.tsv"] \in FactTexts
    BY <2>2, OwnTexts, WritingType DEF File, FactTexts
  <2>4. v["repository.manifest"] = Absent
    BY <1>1, <2>2, WritingType DEF Progress, File
  <2> HIDE DEF v
  <2>5. /\ Owned(p)' /\ \A d \in Dir : Meaningful(d)'
        /\ UNCHANGED call => Written(p)' = v
    BY <2>1, <2>3, WriteKept
  <2>6. Progress(p)'
    BY <2>4, <2>5 DEF Progress, File
  <2> QED BY <2>5, <2>6 DEF Kept
<1> QED BY <1>2, <1>3 DEF Left

LEMMA StepKept ==
  ASSUME Marks, CommandInv, NEW p \in Proc, Step(p)
  PROVE  Kept(p)
<1>1. ASSUME UNCHANGED <<dirs, meant, reported, made>>, pc'[p] \notin Writing
      PROVE  Kept(p)
  <2> pc'[p] \in Stage
    BY StepLocals DEF CommandInv, TypeOK, Shape, Locals
  <2>1. Owned(p)' /\ Progress(p)'
    BY <1>1 DEF Owned, Progress, Writing, File, Stage
  <2>2. \A d \in Dir : Meaningful(d)'
    BY <1>1 DEF CommandInv, Meaningful, FactTexts
  <2> QED BY <2>1, <2>2 DEF Kept
<1>2. CASE Begin(p) \/ CheckOutput(p) \/ OutputExists(p)
  BY <1>1, <1>2 DEF Begin, CheckOutput, OutputExists, End, Goto, Writing, CommandInv, TypeOK
<1>3. CASE ReadFile(p) \/ ReadFails(p) \/ Close(p)
  BY <1>1, <1>3 DEF ReadFile, ReadFails, Close, End, Goto, Writing, CommandInv, TypeOK
<1>4. CASE Compile(p)
  BY <1>1, <1>4 DEF Compile, End, Goto, Writing, CommandInv, TypeOK
<1>5. CASE IOError(p) \/ Crash(p)
  <2>1. /\ pc[p] \in Writing /\ Left(p) /\ UNCHANGED <<meant, reported, made>>
        /\ pc'[p] = "idle" \/ (pc'[p] = "cleanup" /\ UNCHANGED <<call, plan>>)
    BY <1>5 DEF IOError, Crash, Fail, End, Goto, CommandInv, TypeOK
  <2> QED BY <2>1, LeftKept
<1> QED BY <1>2, <1>3, <1>4, <1>5, CreateKept, WriteFileKept, PublishKept, CreateManifestKept,
           WriteManifestKept, ReportKept, CleanupKept, CleanupCutKept DEF Step, Silent, Changing

-----------------------------------------------------------------------------
(* Removal by hand                                                         *)

LEMMA DiscardKept ==
  ASSUME CommandInv, NEW d \in Dir, Removal(d)
  PROVE  CommandInv'
<1>1. /\ dirs' = [dirs EXCEPT ![d] = Absent] /\ meant' = [meant EXCEPT ![d] = Absent]
      /\ reported' = reported \ {d} /\ shown' = Shown'
      /\ \A p \in Proc : pc[p] \in Writing => Output(p) # d
      /\ UNCHANGED <<pc, call, got, at, plan, made, calls, faults>>
      /\ discards' \in 0..MaxDiscards
  BY BoundsAssumption DEF Removal, Discard, CommandInv, TypeOK
<1>2. TypeOK' /\ Shape'
  BY <1>1 DEF CommandInv, TypeOK, Shape, IsDirectory
<1>3. ASSUME NEW p \in Proc
      PROVE  Owned(p)' /\ Progress(p)' /\ Reads(p)'
  <2>1. Owned(p) /\ Progress(p) /\ Reads(p)
    BY DEF CommandInv
  <2>2. CASE pc[p] \in Writing
    <3>1. Output(p)' = Output(p) /\ Output(p) \in Dir /\ Output(p) # d
      BY <1>1, <2>2, WritingType DEF Output
    <3>2. Written(p)' = Written(p) /\ meant'[Output(p)] = meant[Output(p)]
      BY <1>1, <3>1 DEF Written, CommandInv, TypeOK, Shape
    <3> QED BY <1>1, <2>1, <3>1, <3>2 DEF Owned, Output, Progress, Reads, FactTexts
  <2>3. CASE pc[p] \notin Writing
    BY <1>1, <2>1, <2>3
       DEF Owned, Progress, Reads, FactTexts, Writing, File, CommandInv, TypeOK, Stage
  <2> QED BY <2>2, <2>3
<1>4. ASSUME NEW c \in Dir
      PROVE  Meaningful(c)'
  BY <1>1 DEF CommandInv, TypeOK, Shape, Meaningful, FactTexts
<1> QED BY <1>2, <1>3, <1>4 DEF CommandInv

-----------------------------------------------------------------------------
(* The invariant                                                           *)

LEMMA StepCommand ==
  ASSUME Marks, CommandInv, NEW p \in Proc, Step(p)
  PROVE  CommandInv'
<1>1. Locals'
  BY StepLocals DEF CommandInv, TypeOK, Shape, Locals
<1>2. Folders' /\ shown' = Shown'
  <2>1. CASE UNCHANGED <<dirs, meant, reported, made, shown>>
    <3>1. Shown' = Shown
      BY <2>1 DEF Shown
    <3> QED BY <2>1, <3>1 DEF CommandInv, TypeOK, Shape, Folders
  <2> QED BY <2>1, StepDirs
<1>3. TypeOK' /\ Shape'
  BY <1>1, <1>2 DEF TypeOK, Shape, Locals, Folders
<1>4. Kept(p) /\ Reads(p)'
  BY StepKept, StepReads
<1>5. \A q \in Proc \ {p} : Owned(q)' /\ Progress(q)' /\ Reads(q)'
  BY OthersKept
<1> QED BY <1>3, <1>4, <1>5 DEF CommandInv, Kept

LEMMA NextCommand ==
  ASSUME Marks
  PROVE  CommandInv /\ [Next]_vars => CommandInv'
<1> SUFFICES ASSUME CommandInv, [Next]_vars PROVE CommandInv'
  OBVIOUS
<1>1. CASE \E p \in Proc : Step(p)
  BY <1>1, StepCommand
<1>2. CASE \E d \in Dir : Removal(d)
  BY <1>2, DiscardKept
<1>3. CASE UNCHANGED vars
  <2>1. Shown' = Shown
    BY <1>3 DEF vars, Shown
  <2>2. TypeOK' /\ Shape'
    BY <1>3, <2>1 DEF vars, CommandInv, TypeOK, Shape
  <2>3. \A p \in Proc : Owned(p)' /\ Progress(p)' /\ Reads(p)'
    BY <1>3 DEF vars, CommandInv, Owned, Progress, Reads, Output, Written, FactTexts
  <2>4. \A d \in Dir : Meaningful(d)'
    BY <1>3 DEF vars, CommandInv, Meaningful, FactTexts
  <2> QED BY <2>2, <2>3, <2>4 DEF CommandInv
<1> QED BY <1>1, <1>2, <1>3, NextSteps

\* A command owns the directory it has created until it ends, and publishes in
\* it, manifest last, what it validated (reserve_output to write_immutable).
THEOREM CommandInvariant ==
  ASSUME Marks
  PROVE  Spec => []CommandInv
<1>1. Init => CommandInv
  BY InitCommand
<1>2. CommandInv /\ [Next]_vars => CommandInv'
  BY NextCommand
<1> QED BY <1>1, <1>2, PTL DEF Spec

\* The variables have their types, whatever the commands are given.
THEOREM TypeCorrect ==
  ASSUME Marks
  PROVE  Spec => []TypeOK
<1>1. CommandInv => TypeOK
  BY DEF CommandInv
<1> QED BY <1>1, CommandInvariant, PTL

-----------------------------------------------------------------------------
(* Texts.                                                                  *)

\* The codes tell the escaped characters apart.
LEMMA Codes ==
  /\ DOMAIN EscapeCode = {0, 9, 10, 13, 92}
  /\ \A c \in DOMAIN EscapeCode : EscapeCode[c] \in Nat /\ Meant(EscapeCode[c]) = c
<1>1. DOMAIN EscapeCode = {0, 9, 10, 13, 92}
  BY DEF EscapeCode, Zero, Tab, Backslash
<1>2. /\ EscapeCode[0] = 48 /\ EscapeCode[9] = 116 /\ EscapeCode[10] = 110
      /\ EscapeCode[13] = 114 /\ EscapeCode[92] = 92
  BY DEF EscapeCode, Zero, Tab, Backslash
<1>3. \A c, d \in DOMAIN EscapeCode : EscapeCode[c] = EscapeCode[d] => c = d
  BY <1>1, <1>2
<1>4. ASSUME NEW c \in DOMAIN EscapeCode  PROVE Meant(EscapeCode[c]) = c
  BY <1>3 DEF Meant
<1> QED  BY <1>1, <1>2, <1>4

(* How many backslashes stand before a place.                              *)
Run(f, i, n) ==
  /\ n \in 0..(i - 1)
  /\ \A j \in (i - n)..(i - 1) : f[j] = Backslash
  /\ n < i - 1 => f[i - n - 1] # Backslash

\* There is one such number.
LEMMA OneRun ==
  ASSUME NEW f, NEW i \in Nat \ {0}
  PROVE  /\ \E n \in 0..(i - 1) : Run(f, i, n)
         /\ \A m, n \in 0..(i - 1) : Run(f, i, m) /\ Run(f, i, n) => m = n
<1> DEFINE D == {n \in 0..(i - 1) : n = i - 1 \/ f[i - n - 1] # Backslash}
<1>1. D \in SUBSET Nat /\ i - 1 \in D  OBVIOUS
<1>2. PICK n \in D : \A m \in D : n <= m  BY <1>1, LeastNumber
<1>3. n \in 0..(i - 1) /\ (n < i - 1 => f[i - n - 1] # Backslash)  BY <1>2
<1>4. \A j \in (i - n)..(i - 1) : f[j] = Backslash
  <2> SUFFICES ASSUME NEW j \in (i - n)..(i - 1)  PROVE f[j] = Backslash
    OBVIOUS
  <2> DEFINE k == i - 1 - j
  <2>1. k \in 0..(n - 1) /\ k \in 0..(i - 1) /\ k # i - 1 /\ i - k - 1 = j  BY <1>3
  <2>2. ~ (n <= k)  BY <2>1, <1>3
  <2>3. k \notin D  BY <2>2, <1>2
  <2> HIDE DEF k
  <2> QED  BY <2>1, <2>3
<1>5. ASSUME NEW k \in 0..(i - 1), NEW m \in 0..(i - 1), Run(f, i, k), Run(f, i, m), k < m
      PROVE  FALSE
  <2>1. k < i - 1 /\ i - k - 1 \in (i - m)..(i - 1)  BY <1>5
  <2>2. f[i - k - 1] # Backslash  BY <1>5, <2>1 DEF Run
  <2>3. f[i - k - 1] = Backslash  BY <1>5, <2>1 DEF Run
  <2> QED  BY <2>2, <2>3
<1>6. \A m, k \in 0..(i - 1) : Run(f, i, m) /\ Run(f, i, k) => m = k
  <2> TAKE m, k \in 0..(i - 1)
  <2>1. m < k \/ k < m \/ m = k  OBVIOUS
  <2> QED  BY <2>1, <1>5
<1> QED  BY <1>3, <1>4, <1>6 DEF Run

\* A backslash escapes unless the one before it does.
LEMMA EscapesNext ==
  ASSUME NEW f, NEW i \in Nat \ {0}
  PROVE  Escapes(f, i) <=> f[i] = Backslash /\ (i = 1 \/ ~ Escapes(f, i - 1))
<1>1. \A k \in Nat \ {0} : Escapes(f, k) <=>
         f[k] = Backslash /\ \E n \in 0..(k - 1) : n % 2 = 0 /\ Run(f, k, n)
  BY DEF Escapes, Run
<1>2. CASE f[i] # Backslash  BY <1>1, <1>2
<1>3. CASE f[i] = Backslash /\ i = 1
  <2>1. Run(f, i, 0)  BY <1>3 DEF Run
  <2>2. 0 \in 0..(i - 1) /\ 0 % 2 = 0  OBVIOUS
  <2> QED  BY <2>1, <2>2, <1>1, <1>3
<1>4. CASE f[i] = Backslash /\ i # 1 /\ f[i - 1] # Backslash
  <2>1. Run(f, i, 0)
    <3>1. 0 \in 0..(i - 1) /\ (i - 0)..(i - 1) = {} /\ i - 0 - 1 = i - 1  OBVIOUS
    <3> QED  BY <3>1, <1>4 DEF Run
  <2>2. 0 \in 0..(i - 1) /\ 0 % 2 = 0 /\ i - 1 \in Nat \ {0}  BY <1>4
  <2>3. ~ Escapes(f, i - 1)  BY <2>2, <1>1, <1>4
  <2> QED  BY <2>1, <2>2, <2>3, <1>1, <1>4
<1>5. CASE f[i] = Backslash /\ i # 1 /\ f[i - 1] = Backslash
  <2>1. i - 1 \in Nat \ {0}  BY <1>5
  <2>2. PICK m \in 0..((i - 1) - 1) : Run(f, i - 1, m)  BY <2>1, OneRun
  <2>3. m + 1 \in 0..(i - 1) /\ m \in Nat  BY <2>1
  <2>4. Run(f, i, m + 1)
    <3>1. /\ \A j \in ((i - 1) - m)..((i - 1) - 1) : f[j] = Backslash
          /\ m < (i - 1) - 1 => f[(i - 1) - m - 1] # Backslash
      BY <2>2 DEF Run
    <3>2. \A j \in (i - (m + 1))..(i - 1) : f[j] = Backslash
      <4> TAKE j \in (i - (m + 1))..(i - 1)
      <4>1. j = i - 1 \/ j \in ((i - 1) - m)..((i - 1) - 1)  BY <2>3
      <4> QED  BY <4>1, <3>1, <1>5
    <3>3. m + 1 < i - 1 => f[i - (m + 1) - 1] # Backslash
      <4>1. i - (m + 1) - 1 = (i - 1) - m - 1  BY <2>3
      <4>2. m + 1 < i - 1 => m < (i - 1) - 1  BY <2>3
      <4> QED  BY <4>1, <4>2, <3>1
    <3> QED  BY <2>3, <3>2, <3>3 DEF Run
  <2>5. \A n \in 0..(i - 1) : Run(f, i, n) => n = m + 1  BY <2>3, <2>4, OneRun
  <2>6. \A n \in 0..((i - 1) - 1) : Run(f, i - 1, n) => n = m  BY <2>1, <2>2, OneRun
  <2>7. Escapes(f, i) <=> (m + 1) % 2 = 0  BY <2>3, <2>4, <2>5, <1>1, <1>5
  <2>8. Escapes(f, i - 1) <=> m % 2 = 0  BY <2>1, <2>2, <2>6, <1>1, <1>5
  <2>9. (m + 1) % 2 = 0 <=> ~ (m % 2 = 0)  BY <2>3
  <2> QED  BY <2>7, <2>8, <2>9, <1>5
<1> QED  BY <1>2, <1>3, <1>4, <1>5

(* The pieces that a text is escaped into.                                 *)
Pieces(t) ==
  [i \in DOMAIN t |->
    IF t[i] \in DOMAIN EscapeCode THEN <<Backslash, EscapeCode[t[i]]>> ELSE <<t[i]>>]

\* A piece is a character, or a backslash and its code.
LEMMA PieceTypes ==
  ASSUME NEW t \in Text
  PROVE  /\ Pieces(t) \in Seq(Text) /\ Len(Pieces(t)) = Len(t)
         /\ \A i \in 1..Len(t) :
              IF t[i] \in DOMAIN EscapeCode
                THEN /\ Len(Pieces(t)[i]) = 2 /\ Pieces(t)[i][1] = Backslash
                     /\ Pieces(t)[i][2] = EscapeCode[t[i]]
                ELSE Len(Pieces(t)[i]) = 1 /\ Pieces(t)[i][1] = t[i]
<1>1. t = [i \in 1..Len(t) |-> t[i]] /\ Len(t) \in Nat /\ \A i \in 1..Len(t) : t[i] \in Nat
  BY DEF Text
<1>2. \A i \in 1..Len(t) : Pieces(t)[i] =
        IF t[i] \in DOMAIN EscapeCode THEN <<Backslash, EscapeCode[t[i]]>> ELSE <<t[i]>>
  BY <1>1 DEF Pieces
<1>3. \A i \in 1..Len(t) : Pieces(t)[i] \in Text
  <2>1. \A a, b \in Nat : <<a, b>> \in Text /\ <<a>> \in Text  BY DEF Text
  <2>2. Backslash \in Nat /\ \A c \in DOMAIN EscapeCode : EscapeCode[c] \in Nat
    BY Codes DEF Backslash
  <2> QED  BY <1>1, <1>2, <2>1, <2>2
<1>4. DOMAIN Pieces(t) = 1..Len(t) /\ Pieces(t) = [i \in 1..Len(t) |-> Pieces(t)[i]]
  BY <1>1 DEF Pieces
<1> QED  BY <1>1, <1>2, <1>3, <1>4

\* The escapes of an escaped text are at the beginning of the pieces of two.
LEMMA EscapesOfEscaped ==
  ASSUME NEW t \in Text, NEW f \in Text, NEW ends, Laid(Pieces(t), f, ends)
  PROVE  /\ \A k \in 0..Len(t) : ends[k] \in 0..Len(f) /\ (ends[k] # 0 => ~ Escapes(f, ends[k]))
         /\ \A k \in 1..Len(t) :
              IF t[k] \in DOMAIN EscapeCode
                THEN /\ ends[k] = ends[k - 1] + 2
                     /\ Escapes(f, ends[k - 1] + 1) /\ f[ends[k]] = EscapeCode[t[k]]
                ELSE /\ ends[k] = ends[k - 1] + 1
                     /\ ~ Escapes(f, ends[k - 1] + 1) /\ f[ends[k]] = t[k]
<1> DEFINE n == Len(t)
           q == Pieces(t)
<1>1. /\ q \in Seq(Text) /\ Len(q) = n
      /\ \A i \in 1..n :
           IF t[i] \in DOMAIN EscapeCode
             THEN Len(q[i]) = 2 /\ q[i][1] = Backslash /\ q[i][2] = EscapeCode[t[i]]
             ELSE Len(q[i]) = 1 /\ q[i][1] = t[i]
  BY PieceTypes
<1>2. n \in Nat /\ \A i \in 1..n : t[i] \in Nat  BY DEF Text
<1> HIDE DEF q, n
<1>3. /\ ends \in [0..n -> Nat] /\ ends[0] = 0 /\ ends[n] = Len(f)
      /\ \A k \in 1..n : /\ ends[k] = ends[k - 1] + Len(q[k])
                         /\ \A i \in 1..Len(q[k]) : f[ends[k - 1] + i] = q[k][i]
  BY <1>1 DEF Laid, q
<1>4. \A k \in 0..n : ends[k] \in 0..Len(f)
  <2>1. \A j, k \in 0..n : j <= k => ends[j] <= ends[k]
    BY <1>1, LaidPlaces DEF q, Text
  <2>2. n \in 0..n /\ \A k \in 0..n : k <= n /\ ends[k] \in Nat  BY <1>2, <1>3
  <2>3. \A k \in 0..n : ends[k] <= Len(f)  BY <2>1, <2>2, <1>3
  <2>4. Len(f) \in Nat  BY DEF Text
  <2> QED  BY <2>2, <2>3, <2>4
<1>5. ASSUME NEW k \in 1..n, ends[k - 1] # 0 => ~ Escapes(f, ends[k - 1])
      PROVE  /\ IF t[k] \in DOMAIN EscapeCode
                  THEN /\ ends[k] = ends[k - 1] + 2
                       /\ Escapes(f, ends[k - 1] + 1) /\ f[ends[k]] = EscapeCode[t[k]]
                  ELSE /\ ends[k] = ends[k - 1] + 1
                       /\ ~ Escapes(f, ends[k - 1] + 1) /\ f[ends[k]] = t[k]
             /\ ~ Escapes(f, ends[k])
  <2> DEFINE a == ends[k - 1]
  <2>1. k - 1 \in 0..n /\ k \in 0..n  BY <1>2
  <2>2. a \in Nat  BY <2>1, <1>3
  <2>3. ends[k] = a + Len(q[k]) /\ \A i \in 1..Len(q[k]) : f[a + i] = q[k][i]  BY <1>3
  <2>4. Escapes(f, a + 1) <=> f[a + 1] = Backslash
    <3>1. a + 1 \in Nat \ {0} /\ (a + 1 = 1 <=> a = 0) /\ (a + 1) - 1 = a  BY <2>2
    <3> HIDE DEF a
    <3>2. Escapes(f, a + 1) <=> f[a + 1] = Backslash /\ (a + 1 = 1 \/ ~ Escapes(f, a))
      BY <3>1, EscapesNext
    <3> QED  BY <3>1, <3>2, <1>5 DEF a
  <2> HIDE DEF a
  <2>5. CASE t[k] \in DOMAIN EscapeCode
    <3>1. Len(q[k]) = 2 /\ q[k][1] = Backslash /\ q[k][2] = EscapeCode[t[k]]  BY <2>5, <1>1
    <3>2. ends[k] = a + 2 /\ f[a + 1] = Backslash /\ f[a + 2] = EscapeCode[t[k]]
      BY <2>3, <3>1
    <3>3. a + 2 \in Nat \ {0} /\ a + 2 # 1 /\ (a + 2) - 1 = a + 1  BY <2>2
    <3>4. ~ Escapes(f, a + 2)
      <4>1. Escapes(f, a + 2) <=> f[a + 2] = Backslash /\ (a + 2 = 1 \/ ~ Escapes(f, a + 1))
        BY <3>3, EscapesNext
      <4> QED  BY <4>1, <3>2, <3>3, <2>4
    <3> QED  BY <2>4, <2>5, <3>2, <3>4 DEF a
  <2>6. CASE t[k] \notin DOMAIN EscapeCode
    <3>1. Len(q[k]) = 1 /\ q[k][1] = t[k]  BY <2>6, <1>1
    <3>2. ends[k] = a + 1 /\ f[a + 1] = t[k]  BY <2>3, <3>1
    <3>3. t[k] # Backslash  BY <2>6, Codes DEF Backslash
    <3> QED  BY <2>4, <2>6, <3>2, <3>3 DEF a
  <2> QED  BY <2>5, <2>6
<1> DEFINE G == {k \in 0..n : ends[k] # 0 => ~ Escapes(f, ends[k])}
<1>6. 0..n \subseteq G
  <2>1. 0 \in G  BY <1>2, <1>3
  <2>2. ASSUME NEW k \in 0..(n - 1), k \in G  PROVE k + 1 \in G
    <3>1. k + 1 \in 1..n /\ (k + 1) - 1 = k /\ k + 1 \in 0..n  BY <1>2
    <3> QED  BY <2>2, <3>1, <1>5
  <2> HIDE DEF G
  <2> QED  BY <2>1, <2>2, <1>2, UpTo
<1>7. \A k \in 0..n : ends[k] # 0 => ~ Escapes(f, ends[k])  BY <1>6
<1>8. \A k \in 1..n : k - 1 \in 0..n  BY <1>2
<1> QED  BY <1>4, <1>5, <1>7, <1>8 DEF n

(* What is read of the places of a field.                                  *)
ReadPieces(f) ==
  LET escape == {i \in DOMAIN f : Escapes(f, i)}
  IN  [i \in DOMAIN f |->
         IF i \in escape THEN <<>>
         ELSE IF i - 1 \in escape THEN <<Meant(f[i])>> ELSE <<f[i]>>]

\* What is read of a field is malformed or what is read of its places.
LEMMA UnescapedPieces ==
  ASSUME NEW f \in Text
  PROVE  Unescaped[f] =
           IF \E i \in DOMAIN f : Escapes(f, i)
                /\ (i = Len(f) \/ \A c \in DOMAIN EscapeCode : EscapeCode[c] # f[i + 1])
             THEN Malformed ELSE FlattenSeq(ReadPieces(f))
<1> DEFINE escape == {i \in DOMAIN f : Escapes(f, i)}
           kept == {i \in DOMAIN f : i \notin escape}
<1>1. Unescaped[f] =
        IF \E i \in escape :
             i = Len(f) \/ \A c \in DOMAIN EscapeCode : EscapeCode[c] # f[i + 1]
          THEN Malformed
          ELSE FlattenSeq([i \in DOMAIN f |->
                 IF i \notin kept THEN <<>>
                 ELSE IF i - 1 \in escape THEN <<Meant(f[i])>> ELSE <<f[i]>>])
  BY DEF Unescaped
<1>2. \A i \in DOMAIN f : i \notin kept <=> i \in escape  OBVIOUS
<1>3. [i \in DOMAIN f |-> IF i \notin kept THEN <<>>
                          ELSE IF i - 1 \in escape THEN <<Meant(f[i])>> ELSE <<f[i]>>]
        = ReadPieces(f)
  BY <1>2 DEF ReadPieces
<1> QED  BY <1>1, <1>3

\* What is read of a field is a text.
LEMMA UnescapedType ==
  ASSUME NEW f \in Text
  PROVE  Unescaped[f] \in Text \cup {Malformed}
<1> SUFFICES ASSUME \A i \in DOMAIN f : Escapes(f, i) =>
                      i # Len(f) /\ \E c \in DOMAIN EscapeCode : EscapeCode[c] = f[i + 1]
             PROVE  FlattenSeq(ReadPieces(f)) \in Text
  BY UnescapedPieces
<1>1. f = [i \in 1..Len(f) |-> f[i]] /\ Len(f) \in Nat /\ DOMAIN f = 1..Len(f)
      /\ \A i \in DOMAIN f : f[i] \in Nat
  BY DEF Text
<1>2. ASSUME NEW i \in DOMAIN f  PROVE ReadPieces(f)[i] \in Text
  <2>1. \A a \in Nat : <<a>> \in Text  BY DEF Text
  <2>2. <<>> \in Text  BY DEF Text
  <2>3. CASE Escapes(f, i)
    <3>1. ReadPieces(f)[i] = <<>>  BY <2>3 DEF ReadPieces
    <3> QED  BY <2>2, <3>1
  <2>4. CASE ~ Escapes(f, i) /\ i - 1 \in DOMAIN f /\ Escapes(f, i - 1)
    <3>1. ReadPieces(f)[i] = <<Meant(f[i])>>  BY <2>4 DEF ReadPieces
    <3>2. (i - 1) + 1 = i  BY <1>1
    <3>3. PICK c \in DOMAIN EscapeCode : EscapeCode[c] = f[i]  BY <2>4, <3>2
    <3>4. Meant(f[i]) = c /\ c \in Nat  BY <3>3, Codes
    <3> QED  BY <2>1, <3>1, <3>4
  <2>5. CASE ~ Escapes(f, i) /\ ~ (i - 1 \in DOMAIN f /\ Escapes(f, i - 1))
    <3>1. ReadPieces(f)[i] = <<f[i]>>  BY <2>5 DEF ReadPieces
    <3> QED  BY <2>1, <3>1, <1>1
  <2> QED  BY <2>3, <2>4, <2>5
<1>3. ReadPieces(f) \in Seq(Text)
  <2>1. ReadPieces(f) = [i \in 1..Len(f) |-> ReadPieces(f)[i]]  BY <1>1 DEF ReadPieces
  <2> QED  BY <2>1, <1>1, <1>2
<1> QED  BY <1>3, FlattenLays DEF Text

\* A text that is escaped is read back as it was, whatever it has.
LEMMA UnescapedEscaped ==
  ASSUME NEW t \in Text
  PROVE  Escaped(t) \in Text /\ Unescaped[Escaped(t)] = t
<1> DEFINE n == Len(t)
           q == Pieces(t)
           f == Escaped(t)
           g == ReadPieces(f)
<1>1. f = FlattenSeq(q)  BY DEF Escaped, Pieces
<1>2. q \in Seq(Text) /\ Len(q) = n  BY PieceTypes
<1>3. f \in Text /\ \E ends : Laid(q, f, ends)  BY <1>1, <1>2, FlattenLays DEF Text
<1> HIDE DEF f
<1>4. PICK ends : Laid(q, f, ends)  BY <1>3
<1>5. /\ \A k \in 0..n : ends[k] \in 0..Len(f) /\ (ends[k] # 0 => ~ Escapes(f, ends[k]))
      /\ \A k \in 1..n :
           IF t[k] \in DOMAIN EscapeCode
             THEN /\ ends[k] = ends[k - 1] + 2
                  /\ Escapes(f, ends[k - 1] + 1) /\ f[ends[k]] = EscapeCode[t[k]]
             ELSE /\ ends[k] = ends[k - 1] + 1
                  /\ ~ Escapes(f, ends[k - 1] + 1) /\ f[ends[k]] = t[k]
  BY <1>3, <1>4, EscapesOfEscaped
<1>6. /\ \A j, k \in 0..n : j <= k => ends[j] <= ends[k]
      /\ \A x \in 1..Len(f) : Covered(q, ends, x)
      /\ ends[0] = 0 /\ ends[n] = Len(f)
  <2> HIDE DEF q
  <2>1. Laid(q, f, ends) => ends[0] = 0 /\ ends[Len(q)] = Len(f)  BY DEF Laid
  <2>2. q \in Seq(Seq(Nat)) /\ f \in Seq(Nat)  BY <1>2, <1>3 DEF Text
  <2>3. /\ \A j, k \in 0..Len(q) : j <= k => ends[j] <= ends[k]
        /\ \A x \in 1..Len(f) : Covered(q, ends, x)
    BY <2>2, <1>4, LaidPlaces
  <2> HIDE DEF n
  <2> QED  BY <2>1, <2>3, <1>2, <1>4
<1>7. /\ n \in Nat /\ Len(f) \in Nat /\ DOMAIN f = 1..Len(f) /\ DOMAIN t = 1..n
      /\ \A i \in 1..Len(f) : f[i] \in Nat
      /\ \A i \in 1..n : t[i] \in Nat
  BY <1>3 DEF Text
<1>8. \A k \in 1..n : Len(q[k]) = IF t[k] \in DOMAIN EscapeCode THEN 2 ELSE 1
  BY PieceTypes
<1>9. \A k \in 1..n : k - 1 \in 0..n /\ k \in 0..n  BY <1>7
<1> HIDE DEF n, q
\* The places of a field are the two kinds of a piece's.
<1>10. ASSUME NEW x \in 1..Len(f)
       PROVE  \E k \in 1..n : \/ x = ends[k]
                              \/ /\ t[k] \in DOMAIN EscapeCode
                                 /\ x = ends[k - 1] + 1 /\ ends[k] = x + 1
  <2>1. PICK k \in 1..n : \E i \in 1..Len(q[k]) : x = ends[k - 1] + i
    <3>1. Covered(q, ends, x)  BY <1>6
    <3> QED  BY <3>1, <1>2 DEF Covered
  <2>2. PICK i \in 1..Len(q[k]) : x = ends[k - 1] + i  BY <2>1
  <2>3. ends[k - 1] \in Nat  BY <1>5, <1>9
  <2>4. CASE t[k] \in DOMAIN EscapeCode
    <3>1. i \in 1..2 /\ ends[k] = ends[k - 1] + 2  BY <2>4, <1>5, <1>8
    <3> QED  BY <2>2, <2>3, <2>4, <3>1
  <2>5. CASE t[k] \notin DOMAIN EscapeCode
    <3>1. i = 1 /\ ends[k] = ends[k - 1] + 1  BY <2>5, <1>5, <1>8
    <3> QED  BY <2>2, <2>5, <3>1
  <2> QED  BY <2>4, <2>5
<1>11. ASSUME NEW x \in 1..Len(f), Escapes(f, x)
       PROVE  x # Len(f) /\ \E c \in DOMAIN EscapeCode : EscapeCode[c] = f[x + 1]
  <2>1. PICK k \in 1..n : \/ x = ends[k]
                          \/ /\ t[k] \in DOMAIN EscapeCode
                             /\ x = ends[k - 1] + 1 /\ ends[k] = x + 1
    BY <1>10
  <2>2. x # ends[k]  BY <1>5, <1>9, <1>11
  <2>3. t[k] \in DOMAIN EscapeCode /\ ends[k] = x + 1  BY <2>1, <2>2
  <2>4. f[x + 1] = EscapeCode[t[k]]  BY <2>3, <1>5
  <2>5. ends[k] <= Len(f)  BY <1>5, <1>7, <1>9
  <2>6. x + 1 <= Len(f) /\ Len(f) \in Nat /\ x \in Nat  BY <2>3, <2>5, <1>7
  <2>7. x # Len(f)  BY <2>6
  <2> QED  BY <2>3, <2>4, <2>7
<1>12. Unescaped[f] = FlattenSeq(g)
  BY <1>3, <1>7, <1>11, UnescapedPieces
<1>13. \A x \in 1..Len(f) :
         g[x] = IF Escapes(f, x) THEN <<>>
                ELSE IF x - 1 \in 1..Len(f) /\ Escapes(f, x - 1) THEN <<Meant(f[x])>> ELSE <<f[x]>>
  BY <1>7 DEF ReadPieces
<1>14. DOMAIN g = 1..Len(f) /\ g = [x \in 1..Len(f) |-> g[x]]
  BY <1>7 DEF ReadPieces
<1> HIDE DEF g
\* At the end of a piece its character is read, before it nothing.
<1>15. ASSUME NEW k \in 1..n
       PROVE  /\ ends[k] \in 1..Len(f) /\ g[ends[k]] = <<t[k]>>
              /\ t[k] \in DOMAIN EscapeCode =>
                   ends[k] - 1 \in 1..Len(f) /\ g[ends[k] - 1] = <<>>
  <2> DEFINE a == ends[k - 1]
  <2>1. a \in 0..Len(f) /\ ends[k] \in 0..Len(f) /\ (a # 0 => ~ Escapes(f, a))
        /\ (ends[k] # 0 => ~ Escapes(f, ends[k]))
    BY <1>5, <1>9
  <2>2. CASE t[k] \in DOMAIN EscapeCode
    <3>1. ends[k] = a + 2 /\ Escapes(f, a + 1) /\ f[ends[k]] = EscapeCode[t[k]]
      BY <2>2, <1>5
    <3> HIDE DEF a
    <3>2. ends[k] \in 1..Len(f) /\ ends[k] - 1 = a + 1 /\ a + 1 \in 1..Len(f) /\ ~ Escapes(f, ends[k])
      BY <2>1, <3>1, <1>7
    <3>3. g[ends[k]] = <<Meant(f[ends[k]])>>  BY <3>1, <3>2, <1>13
    <3>4. Meant(f[ends[k]]) = t[k]  BY <2>2, <3>1, Codes
    <3>5. g[a + 1] = <<>>  BY <3>1, <3>2, <1>13
    <3> QED  BY <3>2, <3>3, <3>4, <3>5
  <2>3. CASE t[k] \notin DOMAIN EscapeCode
    <3>1. ends[k] = a + 1 /\ ~ Escapes(f, a + 1) /\ f[ends[k]] = t[k]
      BY <2>3, <1>5
    <3> HIDE DEF a
    <3>2. ends[k] \in 1..Len(f) /\ ends[k] - 1 = a  BY <2>1, <3>1, <1>7
    <3>3. ~ (a \in 1..Len(f) /\ Escapes(f, a))  BY <2>1
    <3>4. g[ends[k]] = <<f[ends[k]]>>  BY <3>1, <3>2, <3>3, <1>13
    <3> QED  BY <2>3, <3>1, <3>2, <3>4
  <2> QED  BY <2>2, <2>3
<1>16. ASSUME NEW k \in 1..n, NEW j \in 0..n, ends[j] < ends[k]
       PROVE  ends[j] <= ends[k - 1]
  <2>1. ends[k] \in Nat /\ ends[j] \in Nat /\ ends[k - 1] \in Nat  BY <1>5, <1>9
  <2>2. ~ (k <= j)  BY <2>1, <1>6, <1>9, <1>16
  <2>3. j <= k - 1  BY <2>2, <1>7
  <2> QED  BY <2>3, <1>6, <1>9
<1>17. \A j, k \in 0..n : ends[j] = ends[k] => j = k
  <2>1. ASSUME NEW j \in 0..n, NEW k \in 0..n, j < k  PROVE ends[j] < ends[k]
    <3>1. k \in 1..n /\ j <= k - 1  BY <2>1, <1>7
    <3>2. ends[j] <= ends[k - 1]  BY <3>1, <1>6, <1>9
    <3>3. ends[k - 1] \in Nat /\ ends[k] \in Nat /\ ends[j] \in Nat
      BY <3>1, <1>5, <1>9
    <3>4. ends[k] = ends[k - 1] + 2 \/ ends[k] = ends[k - 1] + 1  BY <3>1, <1>5
    <3> QED  BY <3>2, <3>3, <3>4
  <2> SUFFICES ASSUME NEW j \in 0..n, NEW k \in 0..n, ends[j] = ends[k], j # k  PROVE FALSE
    OBVIOUS
  <2>2. j < k \/ k < j  BY <1>7
  <2>3. ends[j] \in Nat /\ ends[k] \in Nat  BY <1>5
  <2> QED  BY <2>1, <2>2, <2>3
\* How many pieces end up to a place.
<1> DEFINE up(x) == CHOOSE k \in 0..n : ends[k] <= x /\ (k = n \/ x < ends[k + 1])
           ending == [x \in 0..Len(f) |-> up(x)]
<1>18. ASSUME NEW k \in 0..n, NEW x \in Nat, ends[k] <= x, k = n \/ x < ends[k + 1]
       PROVE  up(x) = k
  <2>1. PICK j \in 0..n : j = up(x) /\ ends[j] <= x /\ (j = n \/ x < ends[j + 1])
    BY <1>18
  <2>2. ends[j] \in Nat /\ ends[k] \in Nat  BY <1>5
  <2>3. ~ (j < k)
    <3> SUFFICES ASSUME j < k  PROVE FALSE
      OBVIOUS
    <3>1. j + 1 \in 0..n /\ j # n /\ j + 1 <= k  BY <1>7
    <3>2. ends[j + 1] <= ends[k] /\ ends[j + 1] \in Nat  BY <3>1, <1>5, <1>6
    <3> QED  BY <2>1, <2>2, <3>1, <3>2, <1>18
  <2>4. ~ (k < j)
    <3> SUFFICES ASSUME k < j  PROVE FALSE
      OBVIOUS
    <3>1. k + 1 \in 0..n /\ k # n /\ k + 1 <= j  BY <1>7
    <3>2. ends[k + 1] <= ends[j] /\ ends[k + 1] \in Nat  BY <3>1, <1>5, <1>6
    <3> QED  BY <2>1, <2>2, <3>1, <3>2, <1>18
  <2>5. j = k  BY <2>3, <2>4, <1>7
  <2> QED  BY <2>1, <2>5
<1> HIDE DEF up
<1>19. ASSUME NEW k \in 0..n  PROVE up(ends[k]) = k
  <2>1. ends[k] \in Nat  BY <1>5
  <2>2. CASE k = n  BY <2>1, <2>2, <1>18
  <2>3. CASE k # n
    <3>1. k + 1 \in 1..n /\ (k + 1) - 1 = k  BY <2>3, <1>7
    <3>2. ends[k + 1] \in Nat /\ ends[k] < ends[k + 1]  BY <2>1, <3>1, <1>5, <1>9
    <3> QED  BY <2>1, <3>2, <1>18
  <2> QED  BY <2>2, <2>3
<1>20. ASSUME NEW k \in 1..n, t[k] \in DOMAIN EscapeCode  PROVE up(ends[k] - 1) = k - 1
  <2>1. ends[k] = ends[k - 1] + 2 /\ ends[k - 1] \in Nat  BY <1>5, <1>9, <1>20
  <2>2. k - 1 # n /\ (k - 1) + 1 = k  BY <1>7
  <2>3. ends[k] - 1 \in Nat /\ ends[k - 1] <= ends[k] - 1 /\ ends[k] - 1 < ends[k]  BY <2>1
  <2> QED  BY <2>2, <2>3, <1>9, <1>18
<1>21. \A x \in 0..Len(f) : up(x) \in Nat
  <2> TAKE x \in 0..Len(f)
  <2>1. CASE x = 0
    <3>1. 0 \in 0..n /\ ends[0] = 0  BY <1>6, <1>7
    <3>2. up(0) = 0  BY <3>1, <1>19
    <3> QED  BY <2>1, <3>2
  <2>2. CASE x # 0
    <3>1. x \in 1..Len(f)  BY <2>2, <1>7
    <3>2. PICK k \in 1..n : \/ x = ends[k]
                            \/ /\ t[k] \in DOMAIN EscapeCode
                               /\ x = ends[k - 1] + 1 /\ ends[k] = x + 1
      BY <3>1, <1>10
    <3>3. CASE x = ends[k]
      <4>1. up(x) = k  BY <3>3, <1>9, <1>19
      <4> QED  BY <4>1
    <3>4. CASE t[k] \in DOMAIN EscapeCode /\ ends[k] = x + 1
      <4>1. ends[k] - 1 = x  BY <3>1, <3>4, <1>7
      <4>2. up(x) = k - 1  BY <3>4, <4>1, <1>20
      <4> QED  BY <4>2, <1>9
    <3> QED  BY <3>2, <3>3, <3>4
  <2> QED  BY <2>1, <2>2
<1>22. ASSUME NEW x \in 1..Len(f)
       PROVE  /\ up(x) = up(x - 1) + Len(g[x]) /\ g[x] \in Text
              /\ \A i \in 1..Len(g[x]) : t[up(x - 1) + i] = g[x][i]
  <2>0. \A c : Len(<<c>>) = 1 /\ (<<c>>)[1] = c  OBVIOUS
  <2>00. Len(<<>>) = 0 /\ <<>> \in Text /\ \A c \in Nat : <<c>> \in Text  BY DEF Text
  <2>1. PICK k \in 1..n : \/ x = ends[k]
                          \/ /\ t[k] \in DOMAIN EscapeCode
                             /\ x = ends[k - 1] + 1 /\ ends[k] = x + 1
    BY <1>10
  <2>2. k - 1 \in 0..n /\ k \in 0..n /\ ends[k - 1] \in Nat /\ (k - 1) + 1 = k /\ t[k] \in Nat
    BY <1>5, <1>7, <1>9
  <2>3. CASE x = ends[k]
    <3>1. up(x) = k /\ g[x] = <<t[k]>>  BY <2>2, <2>3, <1>15, <1>19
    <3>2. up(x - 1) = k - 1
      <4>1. CASE t[k] \in DOMAIN EscapeCode  BY <2>3, <4>1, <1>20
      <4>2. CASE t[k] \notin DOMAIN EscapeCode
        <5>1. x - 1 = ends[k - 1]  BY <2>2, <2>3, <4>2, <1>5
        <5> QED  BY <2>2, <5>1, <1>19
      <4> QED  BY <4>1, <4>2
    <3>3. Len(g[x]) = 1 /\ g[x][1] = t[k] /\ g[x] \in Text  BY <2>0, <2>00, <2>2, <3>1
    <3>4. \A i \in 1..Len(g[x]) : i = 1  BY <3>3
    <3> QED  BY <2>2, <3>1, <3>2, <3>3, <3>4
  <2>4. CASE t[k] \in DOMAIN EscapeCode /\ x = ends[k - 1] + 1 /\ ends[k] = x + 1
    <3>1. ends[k] - 1 = x /\ x - 1 = ends[k - 1]  BY <2>2, <2>4
    <3>2. up(x) = k - 1 /\ g[x] = <<>>  BY <2>4, <3>1, <1>15, <1>20
    <3>3. up(x - 1) = k - 1  BY <2>2, <3>1, <1>19
    <3>4. 1..Len(g[x]) = {} /\ Len(g[x]) = 0 /\ g[x] \in Text  BY <2>00, <3>2
    <3> QED  BY <2>2, <3>2, <3>3, <3>4
  <2> QED  BY <2>1, <2>3, <2>4
<1>23. g \in Seq(Text) /\ Len(g) = Len(f)
  <2>1. \A x \in 1..Len(f) : g[x] \in Text  BY <1>22
  <2> QED  BY <2>1, <1>7, <1>14
<1>24. Laid(g, t, ending)
  <2>1. ending \in [0..Len(f) -> Nat]  BY <1>21
  <2>2. \A x \in 0..Len(f) : ending[x] = up(x)  OBVIOUS
  <2>3. 0 \in 0..n /\ n \in 0..n /\ 0 \in 0..Len(f) /\ Len(f) \in 0..Len(f)  BY <1>7
  <2>4. ending[0] = 0 /\ ending[Len(f)] = n
    <3>1. up(0) = 0 /\ up(Len(f)) = n  BY <2>3, <1>6, <1>19
    <3> QED  BY <2>2, <2>3, <3>1
  <2>5. \A x \in 1..Len(f) : ending[x] = up(x) /\ ending[x - 1] = up(x - 1)
    <3>1. \A x \in 1..Len(f) : x \in 0..Len(f) /\ x - 1 \in 0..Len(f)  BY <1>7
    <3> HIDE DEF ending
    <3> QED  BY <2>2, <3>1
  <2> HIDE DEF ending
  <2>6. ASSUME NEW x \in 1..Len(f)
        PROVE  /\ ending[x] = ending[x - 1] + Len(g[x])
               /\ \A i \in 1..Len(g[x]) : t[ending[x - 1] + i] = g[x][i]
    BY <2>5, <1>22
  <2> QED  BY <2>1, <2>4, <2>6, <1>23 DEF Laid, n
<1>25. t = FlattenSeq(g)
  <2> HIDE DEF ending
  <2> QED  BY <1>23, <1>24, LaidUnique DEF Text
<1> QED  BY <1>3, <1>12, <1>25 DEF f

\* The path "." has the one name ".", which is dropped.
LEMMA RootNormal ==
  /\ <<Dot>> \in Text /\ Slashed[<<Dot>>] = <<Dot>> /\ Names[<<Dot>>] = <<>>
<1> DEFINE s == <<Dot>>
           c == Cuts(s, Slash)
           p == Parts(s, Slash)
<1>1. s \in Text /\ Len(s) = 1 /\ s[1] = Dot /\ DOMAIN s = 1..1  BY DEF Text, Dot
<1>2. Slashed[s] = s
  <2>1. Slashed[s] = [i \in 1..1 |-> IF s[i] = Backslash THEN Slash ELSE s[i]]
    BY <1>1 DEF Slashed
  <2>2. \A i \in 1..1 : s[i] = Dot  BY <1>1
  <2>3. Dot # Backslash  BY DEF Dot, Backslash
  <2>4. [i \in 1..1 |-> IF s[i] = Backslash THEN Slash ELSE s[i]] = [i \in 1..1 |-> s[i]]
    BY <2>2, <2>3
  <2>5. s = [i \in 1..1 |-> s[i]]  BY <1>1
  <2> QED  BY <2>1, <2>4, <2>5
<1>3. c = <<0>>
  <2>1. {i \in DOMAIN s : s[i] = Slash} = {}
    <3>1. \A i \in DOMAIN s : s[i] = Dot  BY <1>1
    <3>2. Dot # Slash  BY DEF Dot, Slash
    <3> QED  BY <3>1, <3>2
  <2>2. c = Ascending({0})  BY <2>1 DEF Cuts
  <2>3. <<0>> \in Seq(Nat) /\ Elements(<<0>>) = {0}  BY DEF Elements
  <2>4. \A i, j \in DOMAIN <<0>> : i < j => (<<0>>)[i] < (<<0>>)[j]  OBVIOUS
  <2>5. <<0>> = Ascending(Elements(<<0>>))  BY <2>3, <2>4, AscendingUnique
  <2> QED  BY <2>2, <2>3, <2>5
<1> HIDE DEF s
<1>4. /\ DOMAIN p = DOMAIN c /\ p \in Seq(Seq(Nat \ {Slash}))
      /\ \A k \in DOMAIN c :
           /\ Len(p[k]) = CutEnd(s, Slash, k) - c[k] - 1
           /\ \A i \in DOMAIN p[k] : p[k][i] = s[c[k] + i]
  <2>1. Between(Nat, s, Slash)  BY <1>1, PartsBetween DEF Text
  <2> QED  BY <2>1, Zenon DEF Between
<1>5. CutEnd(s, Slash, 1) = 2
  <2>1. Len(c) = 1  BY <1>3
  <2> QED  BY <2>1, <1>1 DEF CutEnd
<1>6. DOMAIN c = {1} /\ c[1] = 0  BY <1>3
<1> HIDE DEF c, p
<1>7. \A k \in DOMAIN p : p[k] = s
  <2> PICK X : X = Seq(Nat \ {Slash})  OBVIOUS
  <2>1. 1 \in DOMAIN p /\ p \in Seq(X)  BY <1>4, <1>6
  <2>2. p[1] \in X  BY <2>1
  <2> DEFINE a == p[1]
  <2>3. a \in Seq(Nat \ {Slash})  BY <2>2
  <2>4. Len(a) = 1 /\ \A i \in DOMAIN a : a[i] = s[0 + i]
    <3>1. Len(a) = 2 - 0 - 1  BY <1>4, <1>5, <1>6
    <3>2. \A i \in DOMAIN a : a[i] = s[0 + i]  BY <1>4, <1>6
    <3> QED  BY <3>1, <3>2
  <2> HIDE DEF a
  <2>5. DOMAIN a = 1..1 /\ a = [i \in 1..1 |-> a[i]]  BY <2>3, <2>4
  <2>6. a[1] = s[1]  BY <2>4, <2>5
  <2>7. s = [i \in 1..1 |-> s[i]]  BY <1>1 DEF s
  <2>8. a = s
    <3>1. \A i \in 1..1 : a[i] = s[i]  BY <2>6
    <3> QED  BY <2>5, <2>7, <3>1
  <2> QED  BY <2>8, <1>4, <1>6 DEF a
<1>8. Elements(p) \ {<<>>, <<Dot>>} = {}  BY <1>7 DEF Elements, s
<1>9. Filtered(p, {}) = <<>>
  <2> PICK X : X = Seq(Nat \ {Slash})  OBVIOUS
  <2>1. p \in Seq(X)  BY <1>4
  <2>2. Filtered(p, {}) \in Seq(X \cap {})  BY <2>1, FilteredList
  <2> PICK f : f = Filtered(p, {})  OBVIOUS
  <2>3. f \in Seq({})  BY <2>2
  <2> QED  BY <2>3
<1>10. Names[s] = Filtered(p, Elements(p) \ {<<>>, <<Dot>>})
  BY <1>1 DEF Names, Components, p
<1> QED  BY <1>1, <1>2, <1>8, <1>9, <1>10 DEF s

\* A path in normal form is in normal form: what can be read again is the same.
LEMMA NormalKept ==
  ASSUME NEW path \in Text, Normalized[path] # Malformed
  PROVE  /\ Normalized[path] \in Text
         /\ Normalized[Normalized[path]] \in {Malformed, Normalized[path]}
<1> DEFINE S == Nat \ {Backslash}
           slashed == Slashed[path]
           parts == Parts(slashed, Slash)
           keep == Elements(parts) \ {<<>>, <<Dot>>}
           names == Filtered(parts, keep)
<1>1. slashed \in Seq(S)
  <2>1. slashed = [i \in DOMAIN path |-> IF path[i] = Backslash THEN Slash ELSE path[i]]
    BY DEF Slashed
  <2>2. DOMAIN path = 1..Len(path) /\ Len(path) \in Nat  BY DEF Text
  <2>3. \A i \in DOMAIN path : path[i] \in Nat  BY DEF Text
  <2>4. Slash \in S  BY DEF Slash, Backslash
  <2>5. \A i \in DOMAIN path : (IF path[i] = Backslash THEN Slash ELSE path[i]) \in S
    BY <2>3, <2>4
  <2> HIDE DEF S
  <2> QED  BY <2>1, <2>2, <2>5
<1>2. S \subseteq Nat /\ Seq(S) \subseteq Text
  <2>1. S \subseteq Nat  OBVIOUS
  <2> HIDE DEF S
  <2>2. \A s \in Seq(S) : s = [i \in 1..Len(s) |-> s[i]] /\ Len(s) \in Nat
                          /\ \A i \in 1..Len(s) : s[i] \in S
    OBVIOUS
  <2>3. ASSUME NEW s \in Seq(S)  PROVE s \in Seq(Nat)
    <3>1. s = [i \in 1..Len(s) |-> s[i]] /\ Len(s) \in Nat /\ \A i \in 1..Len(s) : s[i] \in Nat
      BY <2>1, <2>2
    <3> QED  BY <3>1
  <2> QED  BY <2>1, <2>3 DEF Text
<1>3. Names[slashed] = names  BY <1>1, <1>2 DEF Names, Components
<1> PICK X : X = Seq(S \ {Slash})  OBVIOUS
<1> HIDE DEF S
<1>4. parts \in Seq(X)
  <2> HIDE DEF slashed
  <2>1. Between(S, slashed, Slash)  BY <1>1, PartsBetween
  <2> QED  BY <2>1, Zenon DEF Between
<1>5. Normalized[path] = IF names = <<>> THEN <<Dot>> ELSE Joined(names)
  BY <1>3 DEF Normalized
<1> HIDE DEF slashed, parts
<1>6. names \in Seq(X \cap keep)  BY <1>4, FilteredList
<1> HIDE DEF names
<1>7. ASSUME NEW q \in Text, Slashed[q] = q, Names[q] = names,
             q = IF names = <<>> THEN <<Dot>> ELSE Joined(names)
      PROVE  Normalized[q] \in {Malformed, q}
  BY <1>7 DEF Normalized
<1>8. CASE names = <<>>
  <2>1. Normalized[path] = <<Dot>>  BY <1>5, <1>8
  <2> QED  BY <2>1, <1>7, <1>8, RootNormal
<1>9. CASE names # <<>>
  <2> DEFINE q == Joined(names)
  <2>1. Separable(S, Slash, names)
    <3>1. Slash \in S  BY DEF S, Slash, Backslash
    <3>2. names \in Seq(X)
      <4> PICK Y : Y = X \cap keep  OBVIOUS
      <4>1. names \in Seq(Y)  BY <1>6
      <4>2. names = [i \in 1..Len(names) |-> names[i]] /\ Len(names) \in Nat
            /\ \A i \in 1..Len(names) : names[i] \in Y
        BY <4>1
      <4>3. \A i \in 1..Len(names) : names[i] \in X  BY <4>2
      <4> QED  BY <4>2, <4>3
    <3>3. Len(names) # 0  BY <3>2, <1>9
    <3> QED  BY <3>1, <3>2, <3>3 DEF Separable
  <2>2. q \in Seq(S) /\ Parts(q, Slash) = names  BY <2>1, JoinedParts DEF Joined
  <2> HIDE DEF q
  <2>3. q \in Text  BY <2>2, <1>2
  <2>4. Slashed[q] = q
    <3>1. Slashed[q] = [i \in DOMAIN q |-> IF q[i] = Backslash THEN Slash ELSE q[i]]
      BY <2>3 DEF Slashed
    <3>2. \A i \in DOMAIN q : q[i] # Backslash  BY <2>2 DEF S
    <3>3. q = [i \in DOMAIN q |-> q[i]]  BY <2>2
    <3> QED  BY <3>1, <3>2, <3>3
  <2>5. Names[q] = names
    <3>1. Names[q] = Filtered(names, Elements(names) \ {<<>>, <<Dot>>})
      BY <2>2, <2>3 DEF Names, Components
    <3>2. Elements(names) \subseteq Elements(names) \ {<<>>, <<Dot>>}
      <4> PICK Y : Y = X \cap keep  OBVIOUS
      <4>1. \A i \in DOMAIN names : names[i] \in Y  BY <1>6
      <4>2. \A i \in DOMAIN names : names[i] \notin {<<>>, <<Dot>>}  BY <4>1
      <4> QED  BY <4>2 DEF Elements
    <3> PICK Y : Y = X \cap keep  OBVIOUS
    <3>3. names \in Seq(Y)  BY <1>6
    <3> QED  BY <3>1, <3>2, <3>3, FilteredAll
  <2>6. Normalized[path] = q  BY <1>5, <1>9 DEF q
  <2> QED  BY <2>3, <2>4, <2>5, <2>6, <1>7, <1>9 DEF q
<1> QED  BY <1>8, <1>9

\* The field "-" is what the text "-" is written as, and no other.
LEMMA DashEscaped ==
  /\ Absence \in Text /\ Position \in Text /\ Position # Absence /\ Escaped(Absence) = Absence
  /\ \A d \in Text : Escaped(d) = Absence => d = Absence
<1>1. /\ Absence \in Text /\ Len(Absence) = 1 /\ DOMAIN Absence = 1..1 /\ Absence[1] = 45
      /\ Position \in Text /\ Position[1] = 49
  BY DEF Absence, Dash, Position, Text
<1>2. Escaped(Absence) = Absence
  <2> DEFINE t == Absence
             q == Pieces(t)
             ends == [k \in 0..1 |-> k]
  <2>1. t[1] \notin DOMAIN EscapeCode  BY <1>1, Codes
  <2>0. t \in Text /\ Len(t) = 1  BY <1>1
  <2>3. Escaped(t) = FlattenSeq(q)  BY DEF Escaped, Pieces
  <2> HIDE DEF t
  <2>2. q \in Seq(Text) /\ Len(q) = 1 /\ Len(q[1]) = 1 /\ q[1][1] = t[1]
    <3>1. q \in Seq(Text) /\ Len(q) = Len(t)  BY <2>0, PieceTypes
    <3>2. \A i \in 1..Len(t) : t[i] \notin DOMAIN EscapeCode => Len(q[i]) = 1 /\ q[i][1] = t[i]
      BY <2>0, PieceTypes
    <3> HIDE DEF q
    <3>3. 1 \in 1..Len(t)  BY <2>0
    <3>4. Len(q[1]) = 1 /\ q[1][1] = t[1]  BY <2>1, <3>2, <3>3
    <3> QED  BY <2>0, <3>1, <3>4
  <2> HIDE DEF q
  <2>4. Laid(q, t, ends)
    <3>1. ends \in [0..1 -> Nat] /\ ends[0] = 0 /\ ends[1] = 1  OBVIOUS
    <3>2. 1..1 = {1} /\ 1 - 1 = 0 /\ 1 + 0 = 1 /\ 0 + 1 = 1  OBVIOUS
    <3> HIDE DEF ends
    <3>3. \A k \in 1..1 : ends[k] = ends[k - 1] + Len(q[k])
      BY <2>2, <3>1, <3>2
    <3>4. \A k \in 1..1 : \A i \in 1..Len(q[k]) : t[ends[k - 1] + i] = q[k][i]
      BY <2>2, <3>1, <3>2
    <3>5. Len(t) = 1  BY <1>1 DEF t
    <3> QED  BY <2>2, <3>1, <3>3, <3>4, <3>5 DEF Laid
  <2>5. t \in Text  BY <1>1 DEF t
  <2> HIDE DEF ends
  <2>6. t = FlattenSeq(q)  BY <2>2, <2>4, <2>5, LaidUnique DEF Text
  <2> QED  BY <2>3, <2>6 DEF t
<1>3. \A d \in Text : Unescaped[Escaped(d)] = d  BY UnescapedEscaped
<1>4. Position # Absence  BY <1>1
<1> QED  BY <1>1, <1>2, <1>3, <1>4

-----------------------------------------------------------------------------
(* The orders of texts and references                                      *)

\* Texts compare by the first character that tells them apart.
LEMMA TextOrder ==
  /\ \A s \in Text : ~ TextBefore(s, s)
  /\ \A s, t, u \in Text : TextBefore(s, t) /\ TextBefore(t, u) => TextBefore(s, u)
  /\ \A s, t \in Text : s # t => TextBefore(s, t) \/ TextBefore(t, s)
<1>1. \A s \in Text : DOMAIN s = 1..Len(s) /\ Len(s) \in Nat /\ \A i \in DOMAIN s : s[i] \in Nat
  BY DEF Text
<1>2. ASSUME NEW s \in Text  PROVE ~ TextBefore(s, s)
  BY <1>1 DEF TextBefore
<1>3. ASSUME NEW s \in Text, NEW t \in Text, NEW u \in Text, TextBefore(s, t), TextBefore(t, u)
      PROVE  TextBefore(s, u)
  <2>1. PICK i \in DOMAIN t : /\ \A k \in 1..(i - 1) : k \in DOMAIN s /\ s[k] = t[k]
                              /\ i \in DOMAIN s => s[i] < t[i]
    BY <1>3 DEF TextBefore
  <2>2. PICK j \in DOMAIN u : /\ \A k \in 1..(j - 1) : k \in DOMAIN t /\ t[k] = u[k]
                              /\ j \in DOMAIN t => t[j] < u[j]
    BY <1>3 DEF TextBefore
  <2>3. i \in Nat \ {0} /\ j \in Nat \ {0}  BY <1>1
  <2>4. CASE i <= j
    <3>1. i \in DOMAIN u  BY <1>1, <2>3, <2>4
    <3>2. \A k \in 1..(i - 1) : k \in 1..(j - 1)  BY <2>3, <2>4
    <3>3. \A k \in 1..(i - 1) : k \in DOMAIN s /\ s[k] = u[k]  BY <2>1, <2>2, <3>2
    <3>4. ASSUME i \in DOMAIN s  PROVE s[i] < u[i]
      <4>1. t[i] <= u[i]
        <5>1. i = j \/ i \in 1..(j - 1)  BY <2>3, <2>4
        <5>2. t[i] \in Nat /\ u[i] \in Nat  BY <1>1, <3>1
        <5> QED  BY <2>2, <5>1, <5>2
      <4>2. s[i] < t[i] /\ s[i] \in Nat /\ t[i] \in Nat /\ u[i] \in Nat
        BY <1>1, <2>1, <3>1, <3>4
      <4> QED  BY <4>1, <4>2
    <3> QED  BY <3>1, <3>3, <3>4 DEF TextBefore
  <2>5. CASE j < i
    <3>1. j \in 1..(i - 1) /\ \A k \in 1..(j - 1) : k \in 1..(i - 1)  BY <2>3, <2>5
    <3>2. \A k \in 1..(j - 1) : k \in DOMAIN s /\ s[k] = u[k]  BY <2>1, <2>2, <3>1
    <3>3. j \in DOMAIN t  BY <1>1, <2>3, <2>5
    <3>4. s[j] = t[j] /\ t[j] < u[j]  BY <2>1, <2>2, <3>1, <3>3
    <3> QED  BY <3>2, <3>4 DEF TextBefore
  <2> QED  BY <2>3, <2>4, <2>5
<1>4. ASSUME NEW s \in Text, NEW t \in Text, s # t
      PROVE  TextBefore(s, t) \/ TextBefore(t, s)
  <2> DEFINE D == {i \in DOMAIN s \cup DOMAIN t :
                     i \notin DOMAIN s \/ i \notin DOMAIN t \/ s[i] # t[i]}
  <2>1. D # {}
    <3>1. s = [i \in DOMAIN s |-> s[i]] /\ t = [i \in DOMAIN t |-> t[i]]  BY DEF Text
    <3> SUFFICES ASSUME D = {}  PROVE FALSE
      OBVIOUS
    <3>2. DOMAIN s = DOMAIN t /\ \A i \in DOMAIN s : s[i] = t[i]  OBVIOUS
    <3> QED  BY <3>1, <3>2, <1>4
  <2>2. D \in SUBSET Nat  BY <1>1
  <2>3. PICK i \in D : \A k \in D : i <= k  BY <2>1, <2>2, LeastNumber
  <2>4. i \in DOMAIN s \cup DOMAIN t /\ i \in Nat \ {0}  BY <1>1
  <2>5. ASSUME NEW j \in 1..(i - 1)  PROVE j \in DOMAIN s /\ j \in DOMAIN t /\ s[j] = t[j]
    <3>1. ~ (i <= j) /\ j \in DOMAIN s \cup DOMAIN t  BY <1>1, <2>4
    <3>2. j \notin D  BY <2>3, <3>1
    <3> QED  BY <3>1, <3>2
  <2>6. i \notin DOMAIN s \/ i \notin DOMAIN t \/ s[i] # t[i]  BY <2>3
  <2> HIDE DEF D
  <2>7. CASE i \notin DOMAIN t
    BY <2>4, <2>5, <2>7 DEF TextBefore
  <2>8. CASE i \in DOMAIN t /\ i \notin DOMAIN s
    BY <2>5, <2>8 DEF TextBefore
  <2>9. CASE i \in DOMAIN t /\ i \in DOMAIN s
    <3>1. s[i] < t[i] \/ t[i] < s[i]  BY <1>1, <2>6, <2>9
    <3> QED  BY <2>5, <2>9, <3>1 DEF TextBefore
  <2> QED  BY <2>7, <2>8, <2>9
<1> QED  BY <1>2, <1>3, <1>4

\* What may be missing is ordered when it can be told from a text.
LEMMA OptionOrder ==
  ASSUME NEW none, none \notin Text
  PROVE  /\ \A a \in Text \cup {none} : ~ OptionBefore(a, a, none)
         /\ \A a, b, c \in Text \cup {none} :
              OptionBefore(a, b, none) /\ OptionBefore(b, c, none) => OptionBefore(a, c, none)
         /\ \A a, b \in Text \cup {none} :
              a # b => OptionBefore(a, b, none) \/ OptionBefore(b, a, none)
<1>1. ASSUME NEW a \in Text \cup {none}  PROVE ~ OptionBefore(a, a, none)
  BY TextOrder DEF OptionBefore
<1>2. ASSUME NEW a \in Text \cup {none}, NEW b \in Text \cup {none}, NEW c \in Text \cup {none},
             OptionBefore(a, b, none), OptionBefore(b, c, none)
      PROVE  OptionBefore(a, c, none)
  <2>1. b # none /\ c # none  BY <1>2 DEF OptionBefore
  <2>2. CASE a = none  BY <2>1, <2>2 DEF OptionBefore
  <2>3. CASE a # none
    <3>1. TextBefore(a, b) /\ TextBefore(b, c)  BY <1>2, <2>1, <2>3 DEF OptionBefore
    <3>2. TextBefore(a, c)  BY <2>1, <2>3, <3>1, TextOrder
    <3> QED  BY <2>1, <2>3, <3>2 DEF OptionBefore
  <2> QED  BY <2>2, <2>3
<1>3. ASSUME NEW a \in Text \cup {none}, NEW b \in Text \cup {none}, a # b
      PROVE  OptionBefore(a, b, none) \/ OptionBefore(b, a, none)
  <2>1. CASE a = none \/ b = none  BY <1>3, <2>1 DEF OptionBefore
  <2>2. CASE a \in Text /\ b \in Text /\ a # none /\ b # none
    BY <1>3, <2>2, TextOrder DEF OptionBefore
  <2> QED  BY <2>1, <2>2
<1> QED  BY <1>1, <1>2, <1>3

-----------------------------------------------------------------------------
(* Facts that come from texts                                              *)

(* What a path can be read as.                                             *)
RepositoryPath == {Normalized[path] : path \in Text} \ {Malformed}

TextNode ==
  [key: NodeKey, path: RepositoryPath, structural: BOOLEAN, span: RepositoryPath \cup {NoPath},
   detail: Text]

TextEdge ==
  [source: NodeKey, target: NodeKey, relation: Relation, span: RepositoryPath \cup {NoPath},
   detail: Detail]

TextReference ==
  [source: NodeKey, span: RepositoryPath \cup {NoPath}, detail: Text \cup {NoText}]

(* The vectors of facts are finite.                                        *)
TextFacts ==
  {f \in [nodes: SUBSET TextNode, edges: SUBSET TextEdge, unresolved: SUBSET TextReference] :
     IsFiniteSet(f.unresolved)}

\* What a path is read as is a text, and in normal form unless it cannot be read.
LEMMA PathsNormal ==
  ASSUME NEW path \in RepositoryPath
  PROVE  path \in Text /\ Normalized[path] \in {Malformed, path}
<1>1. PICK p \in Text : path = Normalized[p]  BY DEF RepositoryPath
<1>2. Normalized[p] # Malformed  BY <1>1 DEF RepositoryPath
<1> QED  BY <1>1, <1>2, NormalKept

\* References have an order.
LEMMA ReferenceOrder ==
  ASSUME NEW S \in SUBSET TextReference
  PROVE  TotalOrder({p \in S \X S : ReferenceBefore(p[1], p[2])}, S)
<1> DEFINE Details == Text \cup {NoText}
           Spans == Text \cup {NoPath}
<1>1. \A u \in S : u.source \in Nat /\ u.detail \in Details /\ u.span \in Spans
  BY PathsNormal, KeyAssumption DEF TextReference
<1>2. \A u, v \in S : u.source = v.source /\ u.detail = v.detail /\ u.span = v.span => u = v
  BY DEF TextReference
<1>3. /\ \A a \in Details : ~ OptionBefore(a, a, NoText)
      /\ \A a, b, c \in Details :
           OptionBefore(a, b, NoText) /\ OptionBefore(b, c, NoText) => OptionBefore(a, c, NoText)
      /\ \A a, b \in Details : a # b => OptionBefore(a, b, NoText) \/ OptionBefore(b, a, NoText)
  BY NoTextAssumption, OptionOrder
<1>4. /\ \A a \in Spans : ~ OptionBefore(a, a, NoPath)
      /\ \A a, b, c \in Spans :
           OptionBefore(a, b, NoPath) /\ OptionBefore(b, c, NoPath) => OptionBefore(a, c, NoPath)
      /\ \A a, b \in Spans : a # b => OptionBefore(a, b, NoPath) \/ OptionBefore(b, a, NoPath)
  BY NoTextAssumption, OptionOrder
<1> HIDE DEF Details, Spans
<1>5. ASSUME NEW u \in S  PROVE ~ ReferenceBefore(u, u)
  BY <1>1, <1>3, <1>4 DEF ReferenceBefore
<1>6. ASSUME NEW u \in S, NEW v \in S, NEW w \in S,
             ReferenceBefore(u, v), ReferenceBefore(v, w)
      PROVE  ReferenceBefore(u, w)
  <2>1. /\ u.source \in Nat /\ v.source \in Nat /\ w.source \in Nat
        /\ u.detail \in Details /\ v.detail \in Details /\ w.detail \in Details
        /\ u.span \in Spans /\ v.span \in Spans /\ w.span \in Spans
    BY <1>1
  <2>2. /\ OptionBefore(u.detail, v.detail, NoText) /\ OptionBefore(v.detail, w.detail, NoText)
             => OptionBefore(u.detail, w.detail, NoText)
        /\ OptionBefore(u.span, v.span, NoPath) /\ OptionBefore(v.span, w.span, NoPath)
             => OptionBefore(u.span, w.span, NoPath)
    BY <2>1, <1>3, <1>4
  <2> QED  BY <1>6, <2>1, <2>2 DEF ReferenceBefore
<1>7. ASSUME NEW u \in S, NEW v \in S, u # v
      PROVE  ReferenceBefore(u, v) \/ ReferenceBefore(v, u)
  <2>1. /\ u.source \in Nat /\ v.source \in Nat
        /\ u.detail # v.detail =>
             OptionBefore(u.detail, v.detail, NoText) \/ OptionBefore(v.detail, u.detail, NoText)
        /\ u.span # v.span =>
             OptionBefore(u.span, v.span, NoPath) \/ OptionBefore(v.span, u.span, NoPath)
    BY <1>1, <1>3, <1>4
  <2> QED  BY <1>2, <1>7, <2>1 DEF ReferenceBefore
<1> DEFINE B == {p \in S \X S : ReferenceBefore(p[1], p[2])}
<1>8. \A u, v \in S : <<u, v>> \in B <=> ReferenceBefore(u, v)  OBVIOUS
<1> HIDE DEF B
<1> QED  BY <1>5, <1>6, <1>7, <1>8 DEF TotalOrder, B

\* The lines of references are those of the facts.
LEMMA ReferencesListed ==
  ASSUME NEW S \in SUBSET TextReference, IsFiniteSet(S)
  PROVE  Elements(Ordered(S, ReferenceBefore)) = S
<1> DEFINE B == {p \in S \X S : ReferenceBefore(p[1], p[2])}
<1>1. TotalOrder(B, S)  BY ReferenceOrder
<1>2. Ordered(S, ReferenceBefore) = Ranked(S, B)  BY DEF Ordered
<1> HIDE DEF B
<1> QED  BY <1>1, <1>2, RankedLists DEF Lists

\* A path is read back as it is written, unless it cannot be read.
LEMMA PathReadBack ==
  ASSUME NEW path \in RepositoryPath
  PROVE  Escaped(path) \in Text /\ ParsedPath(Escaped(path)) \in {Malformed, path}
<1>1. path \in Text /\ Normalized[path] \in {Malformed, path}  BY PathsNormal
<1>2. Escaped(path) \in Text /\ Unescaped[Escaped(path)] = path  BY <1>1, UnescapedEscaped
<1> QED  BY <1>1, <1>2 DEF ParsedPath

\* So is a span; that of a file named "-" cannot be read.
LEMMA SpanReadBack ==
  ASSUME NEW span \in RepositoryPath \cup {NoPath}
  PROVE  ParsedSpan(SpanFields(span)) \in {Malformed, span}
<1>1. CASE span = NoPath
  <2>1. SpanFields(span) = <<Absence, Absence>>  BY <1>1 DEF SpanFields
  <2>2. Elements(SpanFields(span)) = {Absence}
    <3> PICK a : a = Absence  OBVIOUS
    <3>1. Elements(<<a, a>>) = {a}  BY DEF Elements
    <3> QED  BY <2>1, <3>1
  <2> QED  BY <2>2, <1>1 DEF ParsedSpan
<1>2. CASE span # NoPath
  <2>1. span \in RepositoryPath  BY <1>2
  <2> PICK a, b : a = Escaped(span) /\ b = Position  OBVIOUS
  <2>2. SpanFields(span) = <<a, b>>  BY <1>2 DEF SpanFields
  <2>3. Elements(<<a, b>>) = {a, b} /\ (<<a, b>>)[1] = a  BY DEF Elements
  <2>4. b # Absence  BY DashEscaped
  <2>5. ParsedSpan(<<a, b>>) \in {Malformed, ParsedPath(a)}  BY <2>3, <2>4 DEF ParsedSpan
  <2>6. ParsedPath(a) \in {Malformed, span}  BY <2>1, PathReadBack
  <2> QED  BY <2>2, <2>5, <2>6
<1> QED  BY <1>1, <1>2

\* A candidate is read back as it is written, save the one named "-".
LEMMA CandidateReadBack ==
  ASSUME NEW detail \in Text \cup {NoText}
  PROVE  ParsedOption(OptionalField(detail, NoText), NoText)
           = IF detail = Absence THEN NoText ELSE detail
<1>1. Absence \in Text /\ Absence # NoText  BY DashEscaped, NoTextAssumption
<1>2. CASE detail = NoText
  BY <1>1, <1>2 DEF ParsedOption, OptionalField
<1>3. CASE detail # NoText /\ detail # Absence
  <2>1. Escaped(detail) # Absence  BY <1>3, DashEscaped
  <2>2. Unescaped[Escaped(detail)] = detail  BY <1>3, UnescapedEscaped
  <2> QED  BY <1>3, <2>1, <2>2 DEF ParsedOption, OptionalField
<1>4. CASE detail = Absence
  <2>1. Unescaped[Escaped(Absence)] = Absence  BY <1>1, UnescapedEscaped
  <2>2. Escaped(Absence) = Absence  BY DashEscaped
  <2> QED  BY <1>1, <1>4, <2>2 DEF ParsedOption, OptionalField
<1> QED  BY <1>2, <1>3, <1>4

\* The lines of nodes, edges and references are read back as they are written.
LEMMA NodeReadBack ==
  ASSUME NEW n \in TextNode
  PROVE  NodeLineFails(NodeLine(n)) \/ ParsedNode(NodeLine(n)) = n
<1> DEFINE l == NodeLine(n)
<1>1. /\ n.path \in RepositoryPath /\ n.span \in RepositoryPath \cup {NoPath} /\ n.detail \in Text
      /\ n = [key |-> n.key, path |-> n.path, structural |-> n.structural, span |-> n.span,
              detail |-> n.detail]
  BY DEF TextNode
<1>2. /\ l.key = n.key /\ l.structural = n.structural /\ l.path = Escaped(n.path)
      /\ l.name = Escaped(n.detail) /\ l.span = SpanFields(n.span)
  BY DEF NodeLine
<1> HIDE DEF l
<1>3. /\ ParsedPath(l.path) \in {Malformed, n.path} /\ ParsedSpan(l.span) \in {Malformed, n.span}
      /\ Unescaped[l.name] = n.detail
  BY <1>1, <1>2, PathReadBack, SpanReadBack, UnescapedEscaped
<1>4. CASE ParsedPath(l.path) = n.path /\ ParsedSpan(l.span) = n.span
  <2>1. ParsedNode(l) = n  BY <1>1, <1>2, <1>3, <1>4 DEF ParsedNode
  <2> QED  BY <2>1 DEF l
<1>5. CASE Malformed \in {ParsedPath(l.path), ParsedSpan(l.span)}
  <2>1. NodeLineFails(l)  BY <1>5 DEF NodeLineFails
  <2> QED  BY <2>1 DEF l
<1> QED  BY <1>3, <1>4, <1>5

LEMMA EdgeReadBack ==
  ASSUME NEW e \in TextEdge
  PROVE  ParsedSpan(EdgeLine(e).span) = Malformed \/ ParsedEdge(EdgeLine(e)) = e
<1> DEFINE l == EdgeLine(e)
<1>1. /\ e.span \in RepositoryPath \cup {NoPath}
      /\ e = [source |-> e.source, target |-> e.target, relation |-> e.relation,
              span |-> e.span, detail |-> e.detail]
  BY DEF TextEdge
<1>2. /\ l.source = e.source /\ l.target = e.target /\ l.relation = e.relation
      /\ l.detail = e.detail /\ l.span = SpanFields(e.span)
  BY DEF EdgeLine
<1> HIDE DEF l
<1>3. ParsedSpan(l.span) \in {Malformed, e.span}  BY <1>1, <1>2, SpanReadBack
<1>4. CASE ParsedSpan(l.span) = e.span
  <2>1. ParsedEdge(l) = e  BY <1>1, <1>2, <1>4 DEF ParsedEdge
  <2> QED  BY <2>1 DEF l
<1> QED  BY <1>3, <1>4 DEF l

(* What is read back of a reference.                                       *)
ReferenceAsRead(u) == IF u.detail = Absence THEN [u EXCEPT !.detail = NoText] ELSE u

LEMMA ReferenceReadBack ==
  ASSUME NEW u \in TextReference
  PROVE  \/ ReferenceLineFails(ReferenceLine(u))
         \/ ParsedReference(ReferenceLine(u)) = ReferenceAsRead(u)
<1> DEFINE l == ReferenceLine(u)
           detail == IF u.detail = Absence THEN NoText ELSE u.detail
<1>1. /\ u.span \in RepositoryPath \cup {NoPath} /\ u.detail \in Text \cup {NoText}
      /\ u = [source |-> u.source, span |-> u.span, detail |-> u.detail]
  BY DEF TextReference
<1>2. /\ l.source = u.source /\ l.candidate = OptionalField(u.detail, NoText)
      /\ l.span = SpanFields(u.span)
  BY DEF ReferenceLine
<1> HIDE DEF l
<1>3. ParsedSpan(l.span) \in {Malformed, u.span} /\ ParsedOption(l.candidate, NoText) = detail
  BY <1>1, <1>2, SpanReadBack, CandidateReadBack
<1>4. ReferenceAsRead(u) = [source |-> u.source, span |-> u.span, detail |-> detail]
  BY <1>1 DEF ReferenceAsRead
<1>5. CASE ParsedSpan(l.span) = u.span
  <2>1. ParsedReference(l) = ReferenceAsRead(u)
    BY <1>2, <1>3, <1>4, <1>5 DEF ParsedReference
  <2> QED  BY <2>1 DEF l
<1>6. CASE ParsedSpan(l.span) = Malformed
  <2>1. ReferenceLineFails(l)  BY <1>6 DEF ReferenceLineFails
  <2> QED  BY <2>1 DEF l
<1> QED  BY <1>3, <1>5, <1>6

\* Facts that come from texts are read back as they are written, unless the file
\* cannot be read (fact_file.rs).
LEMMA FactsWritten ==
  ASSUME NEW f \in TextFacts
  PROVE  Parsed(Encoded(f)) \in {Malformed, AsRead(f)}
<1> DEFINE refs == Ordered(f.unresolved, ReferenceBefore)
           lines == [i \in DOMAIN refs |-> ReferenceLine(refs[i])]
           file == Encoded(f)
<1>1. /\ f.nodes \in SUBSET TextNode /\ f.edges \in SUBSET TextEdge
      /\ f.unresolved \in SUBSET TextReference /\ IsFiniteSet(f.unresolved)
      /\ f = [nodes |-> f.nodes, edges |-> f.edges, unresolved |-> f.unresolved]
  BY DEF TextFacts
<1>2. Elements(refs) = f.unresolved  BY <1>1, ReferencesListed
<1> HIDE DEF refs
<1>3. /\ file.nodes = {NodeLine(n) : n \in f.nodes} /\ file.edges = {EdgeLine(e) : e \in f.edges}
      /\ file.unresolved = lines
  BY DEF Encoded, refs
<1>4. /\ DOMAIN lines = DOMAIN refs /\ \A i \in DOMAIN lines : lines[i] = ReferenceLine(refs[i])
      /\ \A i \in DOMAIN refs : refs[i] \in f.unresolved
      /\ \A u \in f.unresolved : \E i \in DOMAIN refs : u = refs[i]
  BY <1>2 DEF Elements
<1> HIDE DEF file, lines
<1> SUFFICES ASSUME /\ \A l \in file.nodes : ~ NodeLineFails(l)
                    /\ \A l \in file.edges : ParsedSpan(l.span) # Malformed
                    /\ \A l \in Elements(file.unresolved) : ~ ReferenceLineFails(l)
             PROVE  FactsOfLines(file) = AsRead(f)
  BY DEF Parsed, file
<1>5. \A n \in f.nodes : ParsedNode(NodeLine(n)) = n
  BY <1>1, <1>3, NodeReadBack
<1>6. \A e \in f.edges : ParsedEdge(EdgeLine(e)) = e
  BY <1>1, <1>3, EdgeReadBack
<1>7. \A i \in DOMAIN lines : ParsedReference(lines[i]) = ReferenceAsRead(refs[i])
  <2> TAKE i \in DOMAIN lines
  <2>1. lines[i] = ReferenceLine(refs[i]) /\ refs[i] \in TextReference  BY <1>1, <1>4
  <2>2. lines[i] \in Elements(file.unresolved)  BY <1>3 DEF Elements
  <2> QED  BY <2>1, <2>2, ReferenceReadBack
<1>8. {ParsedNode(l) : l \in file.nodes} = f.nodes  BY <1>3, <1>5
<1>9. {ParsedEdge(l) : l \in file.edges} = f.edges  BY <1>3, <1>6
<1>10. Elements(ParsedReferences(file.unresolved)) = {ReferenceAsRead(u) : u \in f.unresolved}
  <2> DEFINE parsed == ParsedReferences(lines)
  <2>1. /\ DOMAIN parsed = DOMAIN lines
        /\ \A i \in DOMAIN parsed : parsed[i] = ReferenceAsRead(refs[i])
    BY <1>7 DEF ParsedReferences
  <2> HIDE DEF parsed
  <2>2. Elements(parsed) = {ReferenceAsRead(u) : u \in f.unresolved}
    BY <1>4, <2>1 DEF Elements
  <2> QED  BY <1>3, <2>2 DEF parsed
<1>11. AsRead(f) = [nodes |-> f.nodes, edges |-> f.edges,
                    unresolved |-> {ReferenceAsRead(u) : u \in f.unresolved}]
  <2> PICK V : V = {ReferenceAsRead(u) : u \in f.unresolved}  OBVIOUS
  <2>1. AsRead(f) = [f EXCEPT !.unresolved = V]  BY DEF AsRead, ReferenceAsRead
  <2>2. [f EXCEPT !.unresolved = V] = [nodes |-> f.nodes, edges |-> f.edges, unresolved |-> V]
    <3> DEFINE g == [f EXCEPT !.unresolved = V]
    <3>1. DOMAIN f = {"nodes", "edges", "unresolved"}  BY <1>1
    <3>2. g = [x \in DOMAIN f |-> IF x = "unresolved" THEN V ELSE f[x]]  OBVIOUS
    <3> HIDE DEF g
    <3>3. /\ g = [x \in {"nodes", "edges", "unresolved"} |-> g[x]]
          /\ g.nodes = f.nodes /\ g.edges = f.edges /\ g.unresolved = V
      BY <3>1, <3>2
    <3>4. g = [nodes |-> f.nodes, edges |-> f.edges, unresolved |-> V]
      BY <3>3
    <3> QED  BY <3>4 DEF g
  <2> QED  BY <2>1, <2>2
<1> QED  BY <1>8, <1>9, <1>10, <1>11 DEF FactsOfLines

\* Paths are those of texts, spans too.
LEMMA PathRead ==
  ASSUME NEW field \in Text, ParsedPath(field) # Malformed
  PROVE  ParsedPath(field) \in RepositoryPath
<1>1. Unescaped[field] \in Text \cup {Malformed}  BY UnescapedType
<1> QED  BY <1>1 DEF ParsedPath, RepositoryPath

LEMMA SpanRead ==
  ASSUME NEW fields \in SpanFieldPair, ParsedSpan(fields) # Malformed
  PROVE  ParsedSpan(fields) \in RepositoryPath \cup {NoPath}
<1>1. fields[1] \in Text  BY DEF SpanFieldPair
<1>2. ParsedSpan(fields) \in {NoPath, Malformed, ParsedPath(fields[1])}  BY DEF ParsedSpan
<1> QED  BY <1>1, <1>2, PathRead

\* The facts that a fact file is read as come from texts.
LEMMA FactsParsed ==
  ASSUME NEW file \in FactFile, Parsed(file) # Malformed
  PROVE  Parsed(file) \in TextFacts
<1> DEFINE lines == file.unresolved
           refs == ParsedReferences(lines)
<1>1. /\ \A l \in file.nodes : ~ NodeLineFails(l)
      /\ \A l \in file.edges : ParsedSpan(l.span) # Malformed
      /\ \A l \in Elements(file.unresolved) : ~ ReferenceLineFails(l)
      /\ Parsed(file) = FactsOfLines(file)
  BY DEF Parsed
<1>2. ASSUME NEW l \in file.nodes  PROVE ParsedNode(l) \in TextNode
  <2>1. /\ l.key \in NodeKey /\ l.structural \in BOOLEAN /\ l.path \in Text /\ l.name \in Text
        /\ l.span \in SpanFieldPair
    BY DEF FactFile
  <2>2. /\ ParsedPath(l.path) # Malformed /\ ParsedSpan(l.span) # Malformed
        /\ Unescaped[l.name] # Malformed
    BY <1>1 DEF NodeLineFails
  <2>3. /\ ParsedPath(l.path) \in RepositoryPath
        /\ ParsedSpan(l.span) \in RepositoryPath \cup {NoPath}
        /\ Unescaped[l.name] \in Text
    BY <2>1, <2>2, PathRead, SpanRead, UnescapedType
  <2> QED  BY <2>1, <2>3 DEF ParsedNode, TextNode
<1>3. ASSUME NEW l \in file.edges  PROVE ParsedEdge(l) \in TextEdge
  <2>1. /\ l.source \in NodeKey /\ l.target \in NodeKey /\ l.relation \in Relation
        /\ l.detail \in Detail /\ l.span \in SpanFieldPair
    BY DEF FactFile
  <2>2. ParsedSpan(l.span) \in RepositoryPath \cup {NoPath}  BY <1>1, <2>1, SpanRead
  <2> QED  BY <2>1, <2>2 DEF ParsedEdge, TextEdge
<1>4. ASSUME NEW i \in DOMAIN lines  PROVE ParsedReference(lines[i]) \in TextReference
  <2> DEFINE l == lines[i]
  <2>1. l.source \in NodeKey /\ l.candidate \in Text /\ l.span \in SpanFieldPair
    <3> PICK X : X = [source: NodeKey, candidate: Text, span: SpanFieldPair]  OBVIOUS
    <3>1. lines \in Seq(X)  BY DEF FactFile
    <3>0. i \in DOMAIN lines  OBVIOUS
    <3> HIDE DEF lines
    <3>2. l \in X  BY <3>0, <3>1, Member
    <3> HIDE DEF l
    <3> QED  BY <3>2
  <2>2. l \in Elements(file.unresolved)  BY DEF Elements
  <2> HIDE DEF l
  <2>3. ParsedSpan(l.span) # Malformed /\ ParsedOption(l.candidate, NoText) # Malformed
    BY <1>1, <2>2 DEF ReferenceLineFails
  <2>4. ParsedSpan(l.span) \in RepositoryPath \cup {NoPath}  BY <2>1, <2>3, SpanRead
  <2>5. ParsedOption(l.candidate, NoText) \in Text \cup {NoText}
    BY <2>1, <2>3, UnescapedType DEF ParsedOption
  <2>6. ParsedReference(l) \in TextReference
    BY <2>1, <2>4, <2>5 DEF ParsedReference, TextReference
  <2> QED  BY <2>6 DEF l
<1>5. DOMAIN refs = DOMAIN lines /\ \A i \in DOMAIN refs : refs[i] = ParsedReference(lines[i])
  BY DEF ParsedReferences
<1>6. refs \in Seq(TextReference)
  <2> PICK X : X = [source: NodeKey, candidate: Text, span: SpanFieldPair]  OBVIOUS
  <2>1. lines \in Seq(X)  BY DEF FactFile
  <2> HIDE DEF lines, refs
  <2>2. DOMAIN lines = 1..Len(lines) /\ Len(lines) \in Nat  BY <2>1
  <2>3. refs = [i \in DOMAIN lines |-> ParsedReference(lines[i])]
    BY DEF refs, ParsedReferences
  <2> QED  BY <1>4, <2>2, <2>3
<1> HIDE DEF refs
<1>7. IsFiniteSet(Elements(refs)) /\ Elements(refs) \in SUBSET TextReference
  BY <1>6, ElementsFinite
<1>8. FactsOfLines(file) =
        [nodes |-> {ParsedNode(l) : l \in file.nodes},
         edges |-> {ParsedEdge(l) : l \in file.edges}, unresolved |-> Elements(refs)]
  BY DEF FactsOfLines, refs
<1>9. /\ {ParsedNode(l) : l \in file.nodes} \in SUBSET TextNode
      /\ {ParsedEdge(l) : l \in file.edges} \in SUBSET TextEdge
  BY <1>2, <1>3
<1> QED  BY <1>1, <1>7, <1>8, <1>9 DEF TextFacts

\* So do those of Lexicon's records.
LEMMA LexiconParsed ==
  ASSUME NEW records \in Seq(LexiconRecord), ParsedLexicon(records) # Malformed
  PROVE  ParsedLexicon(records) \in TextFacts
<1> DEFINE kind(k) == {r \in Elements(records) : r.record = k}
           nodes == {[key |-> Compact[r.id], path |-> Normalized[r.path],
                      structural |-> r.structural, span |-> LexiconSpan(r.span),
                      detail |-> r.detail] : r \in kind("node")}
           edges == {[source |-> Compact[r.source], target |-> Compact[r.target],
                      relation |-> r.relation, span |-> LexiconSpan(r.span),
                      detail |-> r.detail] : r \in kind("edge")}
           refs == {[source |-> Compact[r.source], span |-> LexiconSpan(r.span),
                     detail |-> r.detail] : r \in kind("unresolved")}
<1>1. /\ LexiconAccepts(records)
      /\ ParsedLexicon(records) = [nodes |-> nodes, edges |-> edges, unresolved |-> refs]
  BY DEF ParsedLexicon
<1>2. IsFiniteSet(Elements(records)) /\ Elements(records) \subseteq LexiconRecord
  BY ElementsFinite
<1>3. ASSUME NEW r \in Elements(records)
      PROVE  /\ r.record = "node" => Normalized[r.path] # Malformed
             /\ r.span # NoPath => Normalized[r.span] # Malformed
  BY <1>1 DEF LexiconAccepts, Elements
<1> HIDE DEF nodes, edges, refs
<1>4. ASSUME NEW span \in LexiconSpans, span # NoPath => Normalized[span] # Malformed
      PROVE  LexiconSpan(span) \in RepositoryPath \cup {NoPath}
  BY <1>4 DEF LexiconSpan, LexiconSpans, RepositoryPath
<1>5. Compact \in [ExternalId -> NodeKey]  BY CompactAssumption
<1>6. ASSUME NEW r \in kind("node")
      PROVE  [key |-> Compact[r.id], path |-> Normalized[r.path], structural |-> r.structural,
              span |-> LexiconSpan(r.span), detail |-> r.detail] \in TextNode
  <2>1. /\ r.id \in ExternalId /\ r.path \in Text /\ r.structural \in BOOLEAN
        /\ r.span \in LexiconSpans /\ r.detail \in Text
    BY <1>2 DEF LexiconRecord
  <2>2. Normalized[r.path] \in RepositoryPath  BY <1>3, <2>1 DEF RepositoryPath
  <2>3. LexiconSpan(r.span) \in RepositoryPath \cup {NoPath}  BY <1>3, <1>4, <2>1
  <2> QED  BY <1>5, <2>1, <2>2, <2>3 DEF TextNode
<1>7. ASSUME NEW r \in kind("edge")
      PROVE  [source |-> Compact[r.source], target |-> Compact[r.target],
              relation |-> r.relation, span |-> LexiconSpan(r.span),
              detail |-> r.detail] \in TextEdge
  <2>1. /\ r.source \in ExternalId /\ r.target \in ExternalId /\ r.relation \in Relation
        /\ r.span \in LexiconSpans /\ r.detail \in Detail
    BY <1>2 DEF LexiconRecord
  <2>2. LexiconSpan(r.span) \in RepositoryPath \cup {NoPath}  BY <1>3, <1>4, <2>1
  <2> QED  BY <1>5, <2>1, <2>2 DEF TextEdge
<1>8. ASSUME NEW r \in kind("unresolved")
      PROVE  [source |-> Compact[r.source], span |-> LexiconSpan(r.span),
              detail |-> r.detail] \in TextReference
  <2>1. /\ r.source \in ExternalId /\ r.span \in LexiconSpans /\ r.detail \in Text \cup {NoText}
    BY <1>2 DEF LexiconRecord
  <2>2. LexiconSpan(r.span) \in RepositoryPath \cup {NoPath}  BY <1>3, <1>4, <2>1
  <2> QED  BY <1>5, <2>1, <2>2 DEF TextReference
<1>9. nodes \in SUBSET TextNode /\ edges \in SUBSET TextEdge /\ refs \in SUBSET TextReference
  BY <1>6, <1>7, <1>8 DEF nodes, edges, refs
<1>10. IsFiniteSet(refs)
  <2> DEFINE D == kind("unresolved")
             g == [r \in D |-> [source |-> Compact[r.source], span |-> LexiconSpan(r.span),
                                detail |-> r.detail]]
  <2>1. IsFiniteSet(D)  BY <1>2, FS_Subset
  <2>2. refs = {g[r] : r \in D}  BY DEF refs
  <2> HIDE DEF D
  <2>3. g = [r \in D |-> g[r]]  OBVIOUS
  <2> HIDE DEF g
  <2>4. g \in [D -> refs]  BY <2>2, <2>3
  <2>5. g \in Surjection(D, refs)  BY <2>2, <2>4 DEF Surjection
  <2> QED  BY <2>1, <2>5, FS_Surjection
<1> QED  BY <1>1, <1>9, <1>10 DEF TextFacts

\* What was written comes from texts when it is read back.
LEMMA AsReadTexts ==
  ASSUME NEW f \in TextFacts
  PROVE  AsRead(f) \in TextFacts
<1> DEFINE V == {ReferenceAsRead(u) : u \in f.unresolved}
           g == AsRead(f)
<1>1. /\ f.nodes \in SUBSET TextNode /\ f.edges \in SUBSET TextEdge
      /\ f.unresolved \in SUBSET TextReference /\ IsFiniteSet(f.unresolved)
      /\ f \in [nodes: SUBSET TextNode, edges: SUBSET TextEdge, unresolved: SUBSET TextReference]
  BY DEF TextFacts
<1>2. ASSUME NEW u \in TextReference  PROVE ReferenceAsRead(u) \in TextReference
  BY DEF ReferenceAsRead, TextReference
<1>3. V \in SUBSET TextReference  BY <1>1, <1>2
<1>4. IsFiniteSet(V)
  <2> DEFINE m == [u \in f.unresolved |-> ReferenceAsRead(u)]
  <2>1. V = {m[u] : u \in f.unresolved}  OBVIOUS
  <2>2. m = [u \in f.unresolved |-> m[u]]  OBVIOUS
  <2> HIDE DEF m, V
  <2>3. m \in [f.unresolved -> V]  BY <2>1, <2>2
  <2>4. m \in Surjection(f.unresolved, V)  BY <2>1, <2>3 DEF Surjection
  <2> QED  BY <1>1, <2>4, FS_Surjection
<1>5. g = [f EXCEPT !.unresolved = V]  BY DEF AsRead, ReferenceAsRead
<1> HIDE DEF g, V
<1>6. /\ g \in [nodes: SUBSET TextNode, edges: SUBSET TextEdge, unresolved: SUBSET TextReference]
      /\ g.unresolved = V
  BY <1>1, <1>3, <1>5
<1> QED  BY <1>4, <1>6 DEF TextFacts, g

\* So do the facts of which changed files were replaced.
LEMMA ReplacedTexts ==
  ASSUME NEW base \in TextFacts, NEW replacement \in TextFacts, NEW changed
  PROVE  ReplaceChangedFiles(base, replacement, changed) \in TextFacts
<1>1. ASSUME NEW f \in TextFacts, NEW owners
      PROVE  /\ OwnedBy(f, owners).nodes \subseteq TextNode
             /\ OwnedBy(f, owners).edges \subseteq TextEdge
             /\ OwnedBy(f, owners).unresolved \subseteq TextReference
             /\ IsFiniteSet(OwnedBy(f, owners).unresolved)
  <2>1. /\ f.nodes \in SUBSET TextNode /\ f.edges \in SUBSET TextEdge
        /\ f.unresolved \in SUBSET TextReference /\ IsFiniteSet(f.unresolved)
    BY DEF TextFacts
  <2>2. /\ OwnedBy(f, owners).nodes \subseteq f.nodes
        /\ OwnedBy(f, owners).edges \subseteq f.edges
        /\ OwnedBy(f, owners).unresolved \subseteq f.unresolved
    BY DEF OwnedBy
  <2> QED  BY <2>1, <2>2, FS_Subset
<1> PICK a, b : /\ a = OwnedBy(replacement, {NoPath} \union changed)
                /\ b = OwnedBy(base, Path \ changed)
  OBVIOUS
<1>2. /\ a.nodes \subseteq TextNode /\ b.nodes \subseteq TextNode
      /\ a.edges \subseteq TextEdge /\ b.edges \subseteq TextEdge
      /\ a.unresolved \subseteq TextReference /\ b.unresolved \subseteq TextReference
      /\ IsFiniteSet(a.unresolved) /\ IsFiniteSet(b.unresolved)
  BY <1>1
<1>3. ReplaceChangedFiles(base, replacement, changed) =
        [nodes |-> a.nodes \cup b.nodes, edges |-> a.edges \cup b.edges,
         unresolved |-> a.unresolved \cup b.unresolved]
  <2>1. ReplaceChangedFiles(base, replacement, changed) = FactUnion({a, b})
    BY DEF ReplaceChangedFiles
  <2>2. /\ UNION {f.nodes : f \in {a, b}} = a.nodes \cup b.nodes
        /\ UNION {f.edges : f \in {a, b}} = a.edges \cup b.edges
        /\ UNION {f.unresolved : f \in {a, b}} = a.unresolved \cup b.unresolved
    OBVIOUS
  <2> QED  BY <2>1, <2>2 DEF FactUnion
<1>4. IsFiniteSet(a.unresolved \cup b.unresolved)  BY <1>2, FS_Union
<1> PICK N, E, U : N = a.nodes \cup b.nodes /\ E = a.edges \cup b.edges
                   /\ U = a.unresolved \cup b.unresolved
  OBVIOUS
<1>5. N \in SUBSET TextNode /\ E \in SUBSET TextEdge /\ U \in SUBSET TextReference
  BY <1>2
<1>6. [nodes |-> N, edges |-> E, unresolved |-> U] \in TextFacts
  BY <1>4, <1>5 DEF TextFacts
<1> QED  BY <1>3, <1>6

-----------------------------------------------------------------------------
(* The facts of commands come from texts                                   *)

(* What is to be published, and what it is made of, comes from texts; an   *)
(* update that compiles has read a repository snapshot.                    *)
TextInv ==
  /\ made \subseteq TextFacts
  /\ \A p \in Proc : plan[p] # Absent => plan[p].facts \in TextFacts
  /\ \A p \in Proc : pc[p] = "compile" /\ call[p].op # "import" => Valid(got[p])

LEMMA InitTexts == Init => TextInv
BY DEF Init, TextInv

\* What a command plans to publish comes from its input and what it has read.
LEMMA PlannedTexts ==
  ASSUME CommandInv, TextInv, NEW p \in Proc, pc[p] = "compile",
         NEW read, read = FactsIn(call[p].input), NEW current, current = CurrentFacts(p),
         Accepted(p, read, current)
  PROVE  Planned(p, read, current).facts \in TextFacts
<1>1. call[p] \in Call[p]  BY CallType
<1>2. read \in TextFacts
  <2>1. read # Malformed  BY DEF Accepted
  <2>2. CASE call[p].input.format = "lexicon"
    <3>1. call[p].input.records \in Seq(LexiconRecord)  BY <1>1, <2>2, InputAssumption
    <3> QED  BY <2>1, <2>2, <3>1, LexiconParsed DEF FactsIn
  <2>3. CASE call[p].input.format # "lexicon"
    <3>1. call[p].input.file \in FactFile  BY <1>1, <2>3, InputAssumption
    <3> QED  BY <2>1, <2>3, <3>1, FactsParsed DEF FactsIn
  <2> QED  BY <2>2, <2>3
<1>3. CASE call[p].op = "import"
  BY <1>2, <1>3 DEF Planned
<1>4. CASE call[p].op # "import"
  <2>1. Valid(got[p])  BY <1>4 DEF TextInv
  <2>2. /\ got[p]["facts.tsv"] \notin {Absent, Torn}
        /\ Parsed(got[p]["facts.tsv"]) # Malformed
    BY <2>1 DEF Valid, Agrees
  <2>3. got[p]["facts.tsv"] \in FactTexts  BY DEF CommandInv, Reads
  <2>4. PICK f \in made : got[p]["facts.tsv"] = Encoded(f)  BY <2>2, <2>3 DEF FactTexts
  <2>5. f \in TextFacts  BY DEF TextInv
  <2>6. current = Parsed(Encoded(f))  BY <1>4, <2>4 DEF CurrentFacts
  <2>7. current = AsRead(f)  BY <2>2, <2>4, <2>5, <2>6, FactsWritten
  <2>8. current \in TextFacts  BY <2>5, <2>7, AsReadTexts
  <2>9. Planned(p, read, current).facts = ReplaceChangedFiles(current, read, call[p].changed)
    BY <1>4 DEF Planned
  <2> QED  BY <1>2, <2>8, <2>9, ReplacedTexts
<1> QED  BY <1>3, <1>4

LEMMA StepTexts ==
  ASSUME Marks, CommandInv, TextInv, NEW p \in Proc, Step(p)
  PROVE  TextInv'
<1>0. /\ pc \in [Proc -> Stage] /\ DOMAIN got = Proc /\ DOMAIN plan = Proc /\ DOMAIN call = Proc
      /\ at[p] \in 1..Len(OpenOrder)
      /\ Locals
  BY DEF CommandInv, TypeOK, Shape, Locals
<1>1. Others(p)  BY <1>0, StepLocals
<1>2. made' \subseteq TextFacts
  <2>1. CASE Create(p)
    <3>1. plan[p] # Absent  BY <1>0, <2>1 DEF Create, Locals
    <3> QED  BY <2>1, <3>1 DEF Create, TextInv
  <2>2. made' = made \/ Create(p)
    BY DEF Step, Silent, Changing, Begin, CheckOutput, OutputExists, ReadFile, ReadFails, Close,
           Compile, WriteFile, Publish, CreateManifest, WriteManifest, Report, Cleanup, CleanupCut,
           IOError, Crash
  <2> QED  BY <2>1, <2>2 DEF TextInv
<1>3. plan'[p] # Absent => plan'[p].facts \in TextFacts
  <2>1. CASE Compile(p) /\ ~ End(p)
    <3> PICK read, current : read = FactsIn(call[p].input) /\ current = CurrentFacts(p)
      OBVIOUS
    <3>1. /\ pc[p] = "compile" /\ Accepted(p, read, current)
          /\ plan' = [plan EXCEPT ![p] = Planned(p, read, current)]
      BY <2>1 DEF Compile
    <3>2. Planned(p, read, current).facts \in TextFacts  BY <3>1, PlannedTexts
    <3> QED  BY <1>0, <3>1, <3>2
  <2>2. CASE End(p)
    BY <1>0, <2>2 DEF End
  <2>3. CASE UNCHANGED plan
    BY <2>3 DEF TextInv
  <2>4. UNCHANGED plan \/ End(p) \/ Compile(p)
    BY DEF Step, Silent, Changing, Begin, CheckOutput, OutputExists, ReadFile, ReadFails, Close,
           Create, WriteFile, Publish, CreateManifest, WriteManifest, Report, Cleanup, CleanupCut,
           IOError, Crash, Fail
  <2> QED  BY <2>1, <2>2, <2>3, <2>4
<1>4. pc'[p] = "compile" /\ call'[p].op # "import" => Valid(got'[p])
  <2> SUFFICES ASSUME pc'[p] = "compile", call'[p].op # "import"  PROVE Valid(got'[p])
    OBVIOUS
  <2>1. pc[p] # "compile" /\ UNCHANGED call /\ (CheckOutput(p) \/ ReadFile(p))
    <3>1. ~ End(p)  BY <1>0 DEF End, Goto
    <3>2. ~ Fail(p)  BY <1>0, <3>1 DEF Fail, Goto
    <3>3. pc[p] \in File => StageAfter(p, pc[p]) # "compile"  BY DEF StageAfter
    <3>4. ~ Begin(p)  BY <1>0 DEF Begin, Goto
    <3>5. ~ (Compile(p) \/ Create(p))  BY <1>0, <3>1 DEF Compile, Create, Goto
    <3>6. ~ WriteFile(p)  BY <1>0, <3>2, <3>3 DEF WriteFile, Goto
    <3>7. ~ (Publish(p) \/ CreateManifest(p) \/ WriteManifest(p) \/ IOError(p))
      BY <1>0, <3>2 DEF Publish, CreateManifest, WriteManifest, IOError, Goto
    <3>8. CheckOutput(p) \/ ReadFile(p)
      BY <3>1, <3>4, <3>5, <3>6, <3>7 DEF Step, Silent, Changing, OutputExists, ReadFails,
                                          Close, Report, Cleanup, CleanupCut, Crash
    <3> QED  BY <3>8 DEF CheckOutput, ReadFile
  <2>2. ~ CheckOutput(p)  BY <1>0, <2>1 DEF CheckOutput, Goto
  <2>3. ReadFile(p)  BY <2>1, <2>2
  <2> DEFINE f == OpenOrder[at[p]]
  <2>4. at[p] = Len(OpenOrder)  BY <1>0, <2>1, <2>3 DEF ReadFile, OpenOrder
  <2>5. at[p] = 8  BY <2>4 DEF OpenOrder
  <2>6. Fits(p, Source(p)[f]) /\ got' = [got EXCEPT ![p][f] = Source(p)[f]]
    BY <2>3 DEF ReadFile
  <2>7. Valid([got[p] EXCEPT ![f] = Source(p)[f]])  BY <2>5, <2>6 DEF Fits
  <2> HIDE DEF f
  <2>8. got'[p] = [got[p] EXCEPT ![f] = Source(p)[f]]  BY <1>0, <2>6
  <2> QED  BY <2>7, <2>8
<1>5. ASSUME NEW q \in Proc
      PROVE  /\ plan'[q] # Absent => plan'[q].facts \in TextFacts
             /\ pc'[q] = "compile" /\ call'[q].op # "import" => Valid(got'[q])
  <2>1. CASE q = p  BY <1>3, <1>4, <2>1
  <2>2. CASE q # p  BY <1>1, <2>2 DEF Others, TextInv
  <2> QED  BY <2>1, <2>2
<1> QED  BY <1>2, <1>5 DEF TextInv

\* The facts of every command come from texts (compile_import, apply_update).
LEMMA TextInvariant ==
  ASSUME Marks
  PROVE  Spec => []TextInv
<1>1. ASSUME CommandInv, TextInv, [Next]_vars  PROVE TextInv'
  <2>1. CASE \E p \in Proc : Step(p)
    BY <1>1, <2>1, StepTexts
  <2>2. CASE (\E d \in Dir : Removal(d)) \/ UNCHANGED vars
    <3>1. UNCHANGED <<made, plan, pc, call, got>>  BY <2>2 DEF Removal, Discard, vars
    <3> QED  BY <1>1, <3>1 DEF TextInv
  <2> QED  BY <1>1, <2>1, <2>2, NextSteps
<1> QED  BY InitTexts, <1>1, CommandInvariant, PTL DEF Spec

\* No text is damaged on the way through a fact file that can be read, whatever
\* the facts and texts that commands are given (fact_file.rs: escape, unescape,
\* and path.rs on what it has normalized).
THEOREM TextsReadBack ==
  ASSUME Marks
  PROVE  Spec => []FactsReadBack
<1>1. ASSUME CommandInv, TextInv  PROVE FactsReadBack
  <2>1. \A p \in Proc : pc[p] = "create" => plan[p] # Absent
    BY <1>1 DEF CommandInv, TypeOK
  <2>2. \A p \in Proc : plan[p] # Absent => plan[p].facts \in TextFacts
    BY <1>1 DEF TextInv
  <2> QED  BY <2>1, <2>2, FactsWritten DEF FactsReadBack
<1> QED  BY <1>1, CommandInvariant, TextInvariant, PTL

-----------------------------------------------------------------------------
(* What readers and users see                                              *)

\* A fact file that can be read shows the facts it was written for.
LEMMA ReadBack ==
  ASSUME TextInv, NEW f \in made, NEW facts, facts = Parsed(Encoded(f)),
         facts # Malformed
  PROVE  facts = AsRead(f)
<1>1. f \in TextFacts  BY DEF TextInv
<1> QED  BY <1>1, FactsWritten

\* Whatever a reader opens is one snapshot as some command meant it: directories
\* may be removed and filled anew between its reads (RepositorySnapshot::open).
THEOREM OpenedSnapshotsWhole ==
  ASSUME Marks
  PROVE  Spec => []OpenedWhole
<1>1. ASSUME CommandInv, TextInv, NEW p \in Proc, pc[p] = "opened"
      PROVE  LET facts == Parsed(got[p]["facts.tsv"])
             IN  /\ facts \in {AsRead(f) : f \in made}
                 /\ GraphOf(got[p]["graph.manifest"], got[p]["graph.arcana"],
                            got[p]["overlay.arcana"]) = Dataset(facts)
                 /\ ParsedCatalogue(got[p]["catalogue.tsv"]) = Catalogue(facts)
  <2> DEFINE facts == Parsed(got[p]["facts.tsv"])
             graph == GraphOf(got[p]["graph.manifest"], got[p]["graph.arcana"],
                              got[p]["overlay.arcana"])
  <2>1. Valid(got[p]) /\ got[p]["facts.tsv"] \in FactTexts
    BY <1>1 DEF CommandInv, Reads
  <2>2. got[p]["facts.tsv"] \notin {Absent, Torn} /\ facts # Malformed
    BY <2>1 DEF Valid, Agrees
  <2>3. graph = Dataset(facts) /\ ParsedCatalogue(got[p]["catalogue.tsv"]) = Catalogue(facts)
    BY <2>1 DEF Valid, Agrees
  <2>4. PICK f \in made : got[p]["facts.tsv"] = Encoded(f)
    BY <2>1, <2>2 DEF FactTexts
  <2>5. facts = AsRead(f)
    BY <1>1, <2>2, <2>4, ReadBack
  <2> QED BY <2>3, <2>5
<1>2. CommandInv /\ TextInv => OpenedWhole
  BY <1>1 DEF OpenedWhole
<1> QED BY <1>2, CommandInvariant, TextInvariant, PTL

\* A directory that was reported opens with the facts its command compiled and
\* validated, until it is removed (publish_repository_snapshot).
THEOREM ReportedFactsSurvive ==
  ASSUME Marks
  PROVE  Spec => []FactsSurvive
<1>1. ASSUME CommandInv, TextInv, NEW d \in reported
      PROVE  shown[d].state = "whole" /\ shown[d].snapshot = AsRead(meant[d].facts)
  <2>1. d \in Dir /\ Meaningful(d) /\ shown = Shown
    BY <1>1 DEF CommandInv, TypeOK, Shape
  <2>2. Opens(dirs[d]) /\ dirs[d]["facts.tsv"] = Encoded(meant[d].facts) /\ meant[d].facts \in made
    BY <1>1, <2>1 DEF Meaningful, Opens
  <2>3. /\ shown[d].state = "whole"
        /\ shown[d].snapshot = Parsed(dirs[d]["facts.tsv"])
    BY <2>1, <2>2 DEF Shown
  <2>4. Parsed(dirs[d]["facts.tsv"]) # Malformed
    BY <2>2 DEF Opens, Valid, Agrees
  <2>5. Parsed(Encoded(meant[d].facts)) = AsRead(meant[d].facts)
    BY <1>1, <2>2, <2>4, ReadBack
  <2> QED BY <2>2, <2>3, <2>5
<1>2. CommandInv /\ TextInv => FactsSurvive
  BY <1>1 DEF FactsSurvive
<1> QED BY <1>2, CommandInvariant, TextInvariant, PTL

-----------------------------------------------------------------------------
(* What failed updates leave                                               *)

\* A command stops writing with success, by cleaning up, by a fault, or as an
\* import.
LEMMA StopsWriting ==
  ASSUME CommandInv, NEW p \in Proc, Step(p), pc[p] \in Writing, pc'[p] \notin Writing
  PROVE  Report(p) \/ Cleanup(p) \/ faults' > 0 \/ (UNCHANGED meant /\ call[p].op # "update")
<1> USE DEF Goto
<1>0. pc \in [Proc -> Stage] /\ faults \in 0..MaxFaults
  BY DEF CommandInv, TypeOK
<1>1. CASE Begin(p) \/ CheckOutput(p) \/ ReadFile(p) \/ ReadFails(p) \/ Close(p) \/ Compile(p)
  BY <1>1 DEF Begin, CheckOutput, ReadFile, ReadFails, Close, Compile, Writing
<1>2. CASE OutputExists(p) \/ Create(p)
  BY <1>2 DEF OutputExists, Create, Writing
<1>3. ASSUME Fail(p), UNCHANGED meant
      PROVE  call[p].op # "update" /\ UNCHANGED meant
  BY <1>0, <1>3 DEF Fail, Writing
<1>4. CASE WriteFile(p)
  <2>1. pc[p] \in File /\ pc[p] # "repository.manifest"
    BY <1>0, <1>4 DEF WriteFile, File, Stage, Writing
  <2>2. StageAfter(p, pc[p]) \in Writing
    BY <2>1 DEF StageAfter, Writing, File
  <2> QED BY <1>0, <1>3, <1>4, <2>2 DEF WriteFile
<1>5. CASE Publish(p) \/ CreateManifest(p)
  BY <1>0, <1>3, <1>5 DEF Publish, CreateManifest, Writing
<1>6. CASE WriteManifest(p)
  BY <1>0, <1>6 DEF WriteManifest, Writing
<1>7. CASE CleanupCut(p) \/ IOError(p) \/ Crash(p)
  BY <1>0, <1>7, BoundsAssumption DEF CleanupCut, IOError, Crash, Faulty
<1> QED BY <1>1, <1>2, <1>4, <1>5, <1>6, <1>7 DEF Step, Silent, Changing

LEMMA LeaveNothingStep ==
  ASSUME Marks, CommandInv, CommandInv', UpdatesLeaveNothing, NEW p \in Proc, Step(p)
  PROVE  UpdatesLeaveNothing'
<1> SUFFICES ASSUME NEW d \in Dir, d \notin reported', dirs'[d] # Absent, Writers(d)' = {},
                    meant'[d].op = "update"
             PROVE  faults' > 0
  BY DEF UpdatesLeaveNothing
<1>0. faults \in 0..MaxFaults /\ faults' \in 0..MaxFaults /\ MaxFaults \in Nat
  BY BoundsAssumption DEF CommandInv, TypeOK
<1>1. faults' >= faults
  <2>1. faults' = faults \/ Faulty
    BY DEF Step, Silent, Changing, Begin, CheckOutput, OutputExists, ReadFile, ReadFails, Close,
           Compile, Create, WriteFile, Publish, CreateManifest, WriteManifest, Report, Cleanup,
           CleanupCut, IOError, Crash
  <2> QED BY <1>0, <2>1 DEF Faulty
<1>2. \A q \in Proc \ {p} : ~(pc[q] \in Writing /\ Output(q) = d)
  BY StepLocals DEF CommandInv, TypeOK, Shape, Locals, Others, Output, Writers
<1>3. CASE pc[p] \in Writing /\ Output(p) = d
  <2>1. pc'[p] \notin Writing
    BY <1>3, StepWriting DEF Writers, Output
  <2>2. meant[d] = [op |-> call[p].op, facts |-> plan[p].facts]
    BY <1>3 DEF CommandInv, Owned
  <2>3. ~ Report(p)
    BY <1>3 DEF Report
  <2>4. ~ Cleanup(p)
    BY <1>3 DEF Cleanup, CommandInv, TypeOK
  <2> QED BY <1>3, <2>1, <2>2, <2>3, <2>4, StopsWriting
<1>4. CASE ~(pc[p] \in Writing /\ Output(p) = d)
  <2>1. Writers(d) = {}
    BY <1>2, <1>4 DEF Writers
  <2>2. CASE UNCHANGED <<dirs, meant, reported, made, shown>>
    BY <1>0, <1>1, <2>1, <2>2 DEF UpdatesLeaveNothing
  <2>3. CASE Elsewhere(p) /\ d # Output(p)
    BY <1>0, <1>1, <2>1, <2>3 DEF UpdatesLeaveNothing, Elsewhere
  <2>4. CASE d = Output(p) /\ pc[p] = "create"
    <3>1. CASE Create(p)
      <4>1. pc'[p] = "graph.arcana" /\ Output(p)' = d
        BY <2>4, <3>1 DEF Create, Goto, Output, CommandInv, TypeOK
      <4> QED BY <4>1 DEF Writers, Writing
    <3>2. CASE ~ Create(p)
      <4>1. OutputExists(p)
        BY <2>4, <3>2 DEF Step, Silent, Changing, Begin, CheckOutput, ReadFile, ReadFails, Close,
             Compile, WriteFile, File, Publish, CreateManifest, WriteManifest, Report, Cleanup,
             CleanupCut, IOError, Crash, Writing
      <4> QED BY <1>0, <1>1, <2>1, <4>1 DEF OutputExists, UpdatesLeaveNothing
    <3> QED BY <3>1, <3>2
  <2> QED BY <1>4, <2>2, <2>3, <2>4, StepDirs
<1> QED BY <1>3, <1>4

\* Without a fault, a failed update leaves nothing behind: whoever stops writing
\* has reported, has removed the directory, or is an import (update_facts).
THEOREM FailedUpdatesLeaveNothing ==
  ASSUME Marks
  PROVE  Spec => []UpdatesLeaveNothing
<1>1. Init => CommandInv /\ UpdatesLeaveNothing
  BY InitCommand DEF Init, UpdatesLeaveNothing
<1>2. CommandInv /\ [Next]_vars => CommandInv'
  BY NextCommand
<1>3. CommandInv /\ CommandInv' /\ UpdatesLeaveNothing /\ [Next]_vars => UpdatesLeaveNothing'
  <2> SUFFICES ASSUME CommandInv, CommandInv', UpdatesLeaveNothing, [Next]_vars
               PROVE  UpdatesLeaveNothing'
    OBVIOUS
  <2>1. CASE \E p \in Proc : Step(p)
    BY <2>1, LeaveNothingStep
  <2>2. CASE \E d \in Dir : Removal(d)
    BY <2>2 DEF Removal, Discard, UpdatesLeaveNothing, Writers, Output, CommandInv, TypeOK, Shape
  <2>3. CASE UNCHANGED vars
    BY <2>3 DEF vars, UpdatesLeaveNothing, Writers, Output
  <2> QED BY <2>1, <2>2, <2>3, NextSteps
<1> QED BY <1>1, <1>2, <1>3, PTL DEF Spec

-----------------------------------------------------------------------------
(* The promise of the directories                                          *)

\* What is read of a fact file are facts.
LEMMA ParsedFacts ==
  ASSUME Marks, NEW file, Parsed(file) # Malformed
  PROVE  Parsed(file) # Absent
<1>1. Parsed(file) = FactsOfLines(file)
  BY DEF Parsed
<1>2. DOMAIN FactsOfLines(file) = {"nodes", "edges", "unresolved"}
  BY DEF FactsOfLines
<1> QED BY <1>1, <1>2 DEF Marks

Missing == [state |-> "none", snapshot |-> Absent, reported |-> FALSE]
Unfinished == [state |-> "unfinished", snapshot |-> Absent, reported |-> FALSE]
Whole(facts, known) == [state |-> "whole", snapshot |-> facts, reported |-> known]

LEMMA KnownLater ==
  ASSUME NEW facts, NEW x, NEW y
  PROVE  [Whole(facts, x) EXCEPT !.reported = y] = Whole(facts, y)
BY DEF Whole

LEMMA ShownAt ==
  ASSUME CommandInv, NEW d \in Dir
  PROVE  /\ dirs[d] = Absent => shown[d] = Missing
         /\ dirs[d] # Absent /\ ~ Opens(dirs[d]) => shown[d] = Unfinished
         /\ Opens(dirs[d]) /\ d \notin reported =>
              shown[d] = Whole(Parsed(dirs[d]["facts.tsv"]), FALSE)
         /\ Opens(dirs[d]) /\ d \in reported =>
              shown[d] = Whole(Parsed(dirs[d]["facts.tsv"]), TRUE)
<1>1. shown = Shown /\ (Opens(dirs[d]) => dirs[d] # Absent)
  BY DEF CommandInv, Shape, Opens
<1>2. CASE Opens(dirs[d])
  <2>1. shown[d] = Whole(Parsed(dirs[d]["facts.tsv"]), d \in reported)
    BY <1>1, <1>2, Zenon DEF Shown, Whole
  <2>2. CASE d \in reported
    <3>1. (d \in reported) = TRUE
      BY <2>2
    <3> QED BY <1>1, <1>2, <2>1, <2>2, <3>1, Zenon
  <2>3. CASE d \notin reported
    <3>1. (d \in reported) = FALSE
      BY <2>3
    <3> QED BY <1>1, <1>2, <2>1, <2>3, <3>1, Zenon
  <2> QED BY <2>2, <2>3
<1>3. CASE ~ Opens(dirs[d])
  BY <1>1, <1>3 DEF Shown, Missing, Unfinished
<1> QED BY <1>1, <1>2, <1>3

(* The same of the next state.                                             *)
LEMMA ShownNext ==
  ASSUME CommandInv', NEW d \in Dir
  PROVE  /\ dirs'[d] = Absent => shown'[d] = Missing
         /\ dirs'[d] # Absent /\ ~ Opens(dirs'[d]) => shown'[d] = Unfinished
         /\ Opens(dirs'[d]) /\ d \notin reported' =>
              shown'[d] = Whole(Parsed(dirs'[d]["facts.tsv"]), FALSE)
         /\ Opens(dirs'[d]) /\ d \in reported' =>
              shown'[d] = Whole(Parsed(dirs'[d]["facts.tsv"]), TRUE)
<1>1. shown' = Shown' /\ (Opens(dirs'[d]) => dirs'[d] # Absent)
  BY DEF CommandInv, Shape, Opens
<1>2. CASE Opens(dirs'[d])
  <2>1. shown'[d] = Whole(Parsed(dirs'[d]["facts.tsv"]), d \in reported')
    BY <1>1, <1>2, Zenon DEF Shown, Whole
  <2>2. CASE d \in reported'
    <3>1. (d \in reported') = TRUE
      BY <2>2
    <3> QED BY <1>1, <1>2, <2>1, <2>2, <3>1, Zenon
  <2>3. CASE d \notin reported'
    <3>1. (d \in reported') = FALSE
      BY <2>3
    <3> QED BY <1>1, <1>2, <2>1, <2>3, <3>1, Zenon
  <2> QED BY <2>2, <2>3
<1>3. CASE ~ Opens(dirs'[d])
  BY <1>1, <1>3 DEF Shown, Missing, Unfinished
<1> QED BY <1>1, <1>2, <1>3

\* What the step of a process does to the directory it writes.
LEMMA OutputPromise ==
  ASSUME Marks, CommandInv, CommandInv', NEW p \in Proc, Step(p),
         NEW o \in Dir, o = Output(p),
         pc[p] \in Writing \/ (pc[p] = "create" /\ dirs[o] = Absent)
  PROVE  \/ shown'[o] = shown[o]
         \/ shown[o] = Missing /\ shown'[o] = Unfinished
         \/ /\ shown[o] = Unfinished
            /\ \E facts : facts # Absent /\ shown'[o] = Whole(facts, FALSE)
         \/ \E facts : /\ shown[o] = Whole(facts, FALSE)
                       /\ shown'[o] \in {Whole(facts, TRUE), Unfinished}
         \/ shown[o].state # "none" /\ shown'[o] = Missing
<1> USE DEF Goto
<1>0. /\ pc \in [Proc -> Stage] /\ Owned(p) /\ Progress(p) /\ DOMAIN dirs = Dir
      /\ o \notin reported
  BY DEF CommandInv, TypeOK, Owned, Meaningful, Opens
<1>1. ASSUME UNCHANGED <<dirs, reported>>
      PROVE  shown'[o] = shown[o]
  BY <1>1 DEF CommandInv, Shape, Shown
<1>2. ASSUME dirs[o] # Absent, dirs'[o] # Absent, ~ Opens(dirs[o]), ~ Opens(dirs'[o])
      PROVE  shown'[o] = shown[o]
  BY <1>2, ShownAt, ShownNext
<1>3. CASE Begin(p) \/ CheckOutput(p) \/ OutputExists(p) \/ ReadFile(p) \/ ReadFails(p)
  BY <1>1, <1>3 DEF Begin, CheckOutput, OutputExists, ReadFile, ReadFails
<1>4. CASE Close(p) \/ Compile(p) \/ Publish(p)
  BY <1>1, <1>4 DEF Close, Compile, Publish
<1>5. CASE Create(p)
  <2>1. dirs[o] = Absent /\ dirs'[o] = NoFiles
    BY <1>0, <1>5 DEF Create
  <2>2. NoFiles # Absent /\ NoFiles["repository.manifest"] = Absent
    BY DEF NoFiles, Marks, File
  <2>3. ~ Opens(NoFiles)
    BY <2>2 DEF Opens
  <2> QED BY <2>1, <2>2, <2>3, ShownAt, ShownNext
<1>6. CASE WriteFile(p)
  <2>1. CASE Writable(p, pc[p])
    <3>1. /\ pc[p] \in File \ {"repository.manifest"} /\ pc[p] \in Writing
          /\ dirs'[o] = [dirs[o] EXCEPT ![pc[p]] = Produced(p, pc[p])]
      BY <1>0, <1>6, <2>1 DEF WriteFile, File, Stage, Writing
    <3>2. DOMAIN dirs[o] = File /\ dirs[o] # Absent
      BY <3>1, WritingType DEF Written
    <3>3. DOMAIN dirs'[o] = File /\ dirs'[o] # Absent
      BY <3>1, <3>2 DEF Marks
    <3>4. dirs[o]["repository.manifest"] = Absent
      BY <1>0, <3>1 DEF Progress, Written
    <3>5. dirs'[o]["repository.manifest"] = Absent
      BY <3>1, <3>2, <3>4 DEF File
    <3>6. ~ Opens(dirs[o]) /\ ~ Opens(dirs'[o])
      BY <3>4, <3>5 DEF Opens
    <3> QED BY <1>2, <3>2, <3>3, <3>6
  <2>2. CASE ~ Writable(p, pc[p])
    BY <1>1, <1>6, <2>2 DEF WriteFile
  <2> QED BY <2>1, <2>2
<1>7. CASE CreateManifest(p)
  <2>1. CASE Written(p)["repository.manifest"] = Absent
    <3>1. DOMAIN dirs[o] = File /\ dirs[o] # Absent /\ dirs[o]["repository.manifest"] = Absent
      BY <1>7, <2>1, WritingType DEF CreateManifest, Writing, Written
    <3>2. dirs'[o] = [dirs[o] EXCEPT !["repository.manifest"] = Torn]
      BY <1>0, <1>7, <2>1 DEF CreateManifest
    <3>3. dirs'[o] # Absent /\ dirs'[o]["repository.manifest"] = Torn
      BY <3>1, <3>2 DEF Marks, File
    <3>4. ~ Opens(dirs[o]) /\ ~ Opens(dirs'[o])
      BY <3>1, <3>3 DEF Opens
    <3> QED BY <1>2, <3>1, <3>3, <3>4
  <2>2. CASE Written(p)["repository.manifest"] # Absent
    BY <1>1, <1>7, <2>2 DEF CreateManifest
  <2> QED BY <2>1, <2>2
<1>8. CASE WriteManifest(p)
  <2>1. /\ DOMAIN dirs[o] = File /\ dirs[o] # Absent
        /\ dirs[o]["repository.manifest"] = Torn /\ Valid(dirs[o])
    BY <1>0, <1>8, WritingType DEF WriteManifest, Writing, Written, Progress
  <2>2. /\ dirs'[o] = [dirs[o] EXCEPT !["repository.manifest"] = [f \in Bound |-> dirs[o][f]]]
        /\ reported' = reported
    BY <1>0, <1>8 DEF WriteManifest, Written
  <2>3. Opens(dirs'[o])
    BY <2>1, <2>2, ManifestOpens
  <2>4. Parsed(dirs'[o]["facts.tsv"]) # Absent
    BY <2>3, ParsedFacts DEF Opens, Valid, Agrees
  <2>5. shown[o] = Unfinished
    <3>1. ~ Opens(dirs[o])
      BY <2>1 DEF Opens
    <3> QED BY <2>1, <3>1, ShownAt
  <2>6. shown'[o] = Whole(Parsed(dirs'[o]["facts.tsv"]), FALSE)
    BY <1>0, <2>2, <2>3, ShownNext
  <2> QED BY <2>4, <2>5, <2>6
<1>9. CASE Report(p)
  <2>1. Opens(dirs[o]) /\ dirs' = dirs /\ reported' = reported \cup {o}
    BY <1>0, <1>9 DEF Report, Progress, Written
  <2>2. shown[o] = Whole(Parsed(dirs[o]["facts.tsv"]), FALSE)
    BY <1>0, <2>1, ShownAt
  <2>3. shown'[o] = Whole(Parsed(dirs[o]["facts.tsv"]), TRUE)
    BY <2>1, ShownNext
  <2> QED BY <2>2, <2>3
<1>10. CASE Cleanup(p)
  <2>1. dirs[o] # Absent /\ dirs'[o] = Absent
    BY <1>0, <1>10, WritingType DEF Cleanup, Writing, Written
  <2>2. /\ shown[o] \in {Unfinished, Whole(Parsed(dirs[o]["facts.tsv"]), FALSE)}
        /\ shown'[o] = Missing
    BY <1>0, <2>1, ShownAt, ShownNext
  <2>3. shown[o].state # "none"
    BY <2>2 DEF Unfinished, Whole
  <2> QED BY <2>2, <2>3
<1>11. CASE CleanupCut(p)
  <2>1. PICK gone \in SUBSET {f \in File : Written(p)[f] # Absent} :
               dirs' = [dirs EXCEPT ![Output(p)] =
                          [f \in File |-> IF f \in gone THEN Absent ELSE @[f]]]
    BY <1>11 DEF CleanupCut
  <2>2. dirs'[o] = [f \in File |-> IF f \in gone THEN Absent ELSE dirs[o][f]]
    BY <1>0, <2>1
  <2>3. /\ DOMAIN dirs[o] = File /\ dirs[o] # Absent /\ dirs'[o] # Absent
        /\ reported' = reported
    BY <1>11, <2>2, WritingType DEF CleanupCut, Writing, Written, Marks
  <2>4. CASE Opens(dirs[o]) /\ Opens(dirs'[o])
    <3>1. dirs'[o]["facts.tsv"] = dirs[o]["facts.tsv"]
      BY <2>2, <2>4 DEF File, Opens, Valid
    <3> QED BY <1>0, <2>3, <2>4, <3>1, ShownAt, ShownNext
  <2>5. CASE Opens(dirs[o]) /\ ~ Opens(dirs'[o])
    BY <1>0, <2>3, <2>5, ShownAt, ShownNext
  <2>6. CASE ~ Opens(dirs[o])
    <3>1. dirs[o]["repository.manifest"] \in {Absent, Torn}
      BY <1>0, <1>11, <2>6 DEF CleanupCut, Progress, Written
    <3>2. dirs'[o]["repository.manifest"] \in {Absent, Torn}
      BY <2>2, <3>1 DEF File
    <3>3. ~ Opens(dirs'[o])
      BY <3>2 DEF Opens
    <3> QED BY <1>2, <2>3, <2>6, <3>3
  <2> QED BY <2>4, <2>5, <2>6
<1>12. CASE IOError(p) \/ Crash(p)
  <2>1. Left(p) /\ reported' = reported /\ pc[p] \in Writing
    BY <1>12 DEF IOError, Crash
  <2>2. CASE UNCHANGED dirs
    BY <1>1, <2>1, <2>2
  <2>3. CASE pc[p] \in InPlace(p) /\ dirs' = [dirs EXCEPT ![Output(p)][pc[p]] = Torn]
    <3>1. pc[p] \in File \ {"repository.manifest"}
      BY <2>3 DEF InPlace, File
    <3>2. DOMAIN dirs[o] = File /\ dirs[o] # Absent /\ dirs[o]["repository.manifest"] = Absent
      BY <1>0, <2>1, <3>1, WritingType DEF Written, Progress
    <3>3. dirs'[o] = [dirs[o] EXCEPT ![pc[p]] = Torn]
      BY <1>0, <2>3
    <3>4. dirs'[o] # Absent /\ dirs'[o]["repository.manifest"] = Absent
      BY <3>1, <3>2, <3>3 DEF Marks, File
    <3>5. ~ Opens(dirs[o]) /\ ~ Opens(dirs'[o])
      BY <3>2, <3>4 DEF Opens
    <3> QED BY <1>2, <3>2, <3>4, <3>5
  <2> QED BY <2>1, <2>2, <2>3 DEF Left
<1> QED BY <1>3, <1>4, <1>5, <1>6, <1>7, <1>8, <1>9, <1>10, <1>11, <1>12 DEF Step, Silent, Changing

\* A change of one directory that OutputPromise allows is a step of the promise.
LEMMA PromiseAt ==
  ASSUME NEW d \in Dir, shown = [c \in Dir |-> shown[c]],
         shown' = [c \in Dir |-> IF c = d THEN shown'[d] ELSE shown[c]],
         \/ shown'[d] = shown[d]
         \/ shown[d] = Missing /\ shown'[d] = Unfinished
         \/ /\ shown[d] = Unfinished
            /\ \E facts : facts # Absent /\ shown'[d] = Whole(facts, FALSE)
         \/ \E facts : /\ shown[d] = Whole(facts, FALSE)
                       /\ shown'[d] \in {Whole(facts, TRUE), Unfinished}
         \/ shown[d].state # "none" /\ shown'[d] = Missing
  PROVE  [Promise!PromiseNext]_shown
<1>0. shown' = [shown EXCEPT ![d] = shown'[d]]
  OBVIOUS
<1>1. Missing = Promise!Absence("none") /\ Unfinished = Promise!Absence("unfinished")
  BY DEF Missing, Unfinished, Promise!Absence
<1>2. CASE shown'[d] = shown[d]
  BY <1>0, <1>2
<1>3. CASE shown[d] = Missing /\ shown'[d] = Unfinished
  <2>1. shown[d].state = "none"
    BY <1>3 DEF Missing
  <2> QED BY <1>0, <1>1, <1>3, <2>1
       DEF Promise!PromiseNext, Promise!Reserve, Promise!Show
<1>4. ASSUME shown[d] = Unfinished, NEW facts, facts # Absent,
             shown'[d] = Whole(facts, FALSE)
      PROVE  Promise!PromiseNext
  <2>1. shown[d].state = "unfinished" /\ shown'[d].snapshot = facts
    BY <1>4 DEF Unfinished, Whole
  <2> QED BY <1>0, <1>4, <2>1 DEF Promise!PromiseNext, Promise!Appear, Promise!Show, Whole
<1>5. ASSUME NEW facts, shown[d] = Whole(facts, FALSE),
             shown'[d] \in {Whole(facts, TRUE), Unfinished}
      PROVE  Promise!PromiseNext
  <2>1. shown[d].state = "whole" /\ shown[d].reported = FALSE
    BY <1>5 DEF Whole
  <2>2. Whole(facts, TRUE) = [shown[d] EXCEPT !.reported = TRUE]
    <3>1. [Whole(facts, FALSE) EXCEPT !.reported = TRUE] = Whole(facts, TRUE)
      BY KnownLater, Zenon
    <3> QED BY <1>5, <3>1
  <2>3. ~ shown[d].reported
    BY <2>1, Zenon
  <2>4. CASE shown'[d] = Whole(facts, TRUE)
    <3>1. Promise!Show(d, [shown[d] EXCEPT !.reported = TRUE])
      BY <1>0, <2>2, <2>4 DEF Promise!Show
    <3>2. Promise!Report(d)
      BY <2>1, <2>3, <3>1, Zenon DEF Promise!Report
    <3> QED BY <3>2 DEF Promise!PromiseNext
  <2>5. CASE shown'[d] = Unfinished
    <3>1. Promise!Show(d, Promise!Absence("unfinished"))
      BY <1>0, <1>1, <2>5 DEF Promise!Show
    <3>2. Promise!Withdraw(d)
      BY <2>1, <2>3, <3>1, Zenon DEF Promise!Withdraw
    <3> QED BY <3>2 DEF Promise!PromiseNext
  <2> QED BY <1>5, <2>4, <2>5
<1>6. CASE shown[d].state # "none" /\ shown'[d] = Missing
  BY <1>0, <1>1, <1>6 DEF Promise!PromiseNext, Promise!Remove, Promise!Show
<1> QED BY <1>2, <1>3, <1>4, <1>5, <1>6

\* The directories keep their promise: nothing is shown before all of a snapshot
\* is, and what was reported does not change until it is removed.
THEOREM SnapshotsAppearWhole ==
  ASSUME Marks
  PROVE  Spec => PublishesAtomically
<1>1. Init => CommandInv /\ Promise!PromiseInit
  BY InitCommand DEF Init, Shown, Opens, Promise!PromiseInit, Promise!Absence
<1>2. CommandInv /\ [Next]_vars => CommandInv'
  BY NextCommand
<1>3. CommandInv /\ CommandInv' /\ [Next]_vars => [Promise!PromiseNext]_shown
  <2> SUFFICES ASSUME CommandInv, CommandInv', [Next]_vars
               PROVE  [Promise!PromiseNext]_shown
    OBVIOUS
  <2>0. shown = [c \in Dir |-> shown[c]] /\ shown' = [c \in Dir |-> shown'[c]]
    BY DEF CommandInv, Shape, Shown
  <2>1. ASSUME NEW p \in Proc, Step(p)
        PROVE  [Promise!PromiseNext]_shown
    <3>1. CASE UNCHANGED <<dirs, meant, reported, made, shown>>
      BY <3>1
    <3>2. CASE /\ pc[p] \in Writing \/ (pc[p] = "create" /\ dirs[Output(p)] = Absent)
               /\ Elsewhere(p)
      <4>1. PICK o \in Dir : o = Output(p)
        BY <3>2, CallType DEF Writing
      <4>2. \A c \in Dir \ {o} : shown'[c] = shown[c]
        <5> SUFFICES ASSUME NEW c \in Dir \ {o} PROVE shown'[c] = shown[c]
          OBVIOUS
        <5>1. dirs'[c] = dirs[c] /\ (c \in reported' <=> c \in reported)
          BY <3>2, <4>1 DEF Elsewhere
        <5>2. CASE dirs[c] = Absent
          BY <5>1, <5>2, ShownAt, ShownNext
        <5>3. CASE dirs[c] # Absent /\ ~ Opens(dirs[c])
          BY <5>1, <5>3, ShownAt, ShownNext
        <5>4. CASE Opens(dirs[c])
          BY <5>1, <5>4, ShownAt, ShownNext
        <5> QED BY <5>2, <5>3, <5>4
      <4>3. shown' = [c \in Dir |-> IF c = o THEN shown'[o] ELSE shown[c]]
        BY <2>0, <4>2
      <4> QED BY <2>0, <2>1, <3>2, <4>1, <4>3, OutputPromise, PromiseAt
    <3> QED BY <2>1, <3>1, <3>2, StepDirs
  <2>2. ASSUME NEW d \in Dir, Removal(d)
        PROVE  [Promise!PromiseNext]_shown
    <3>1. dirs[d] # Absent /\ dirs'[d] = Absent
      BY <2>2 DEF Removal, Discard, CommandInv, TypeOK
    <3>2. shown'[d] = Missing
      BY <3>1, ShownNext
    <3>3. shown[d].state # "none"
      BY <3>1 DEF CommandInv, Shape, Shown
    <3>4. \A c \in Dir \ {d} : shown'[c] = shown[c]
      BY <2>2 DEF Removal, Discard, CommandInv, TypeOK, Shape, Shown
    <3>5. shown' = [c \in Dir |-> IF c = d THEN shown'[d] ELSE shown[c]]
      BY <2>0, <3>4
    <3> QED BY <2>0, <3>2, <3>3, <3>5, PromiseAt
  <2>3. CASE UNCHANGED vars
    BY <2>3 DEF vars
  <2> QED BY <2>1, <2>2, <2>3, NextSteps
<1> QED BY <1>1, <1>2, <1>3, PTL DEF Spec, PublishesAtomically, Promise!PromiseSpec

=============================================================================
