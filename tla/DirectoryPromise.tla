-------------------------- MODULE DirectoryPromise --------------------------
(***************************************************************************)
(* What import-facts and update-facts promise about an output directory:   *)
(* it shows nothing until it shows a whole repository snapshot, and once   *)
(* its command has reported success the snapshot stays as it is until      *)
(* somebody removes the directory.                                         *)
(***************************************************************************)
CONSTANTS
  Dir,         \* output directories
  Nothing      \* "no snapshot"

VARIABLE shown \* [Dir -> [state, snapshot, reported]]

Absence(state) == [state |-> state, snapshot |-> Nothing, reported |-> FALSE]

Show(d, what) == shown' = [shown EXCEPT ![d] = what]

PromiseInit == shown = [d \in Dir |-> Absence("none")]

Reserve(d) == shown[d].state = "none" /\ Show(d, Absence("unfinished"))

(* Which snapshot appears is not said here.                                *)
Appear(d) ==
  /\ shown[d].state = "unfinished"
  /\ shown'[d].snapshot # Nothing
  /\ Show(d, [state |-> "whole", snapshot |-> shown'[d].snapshot, reported |-> FALSE])

Report(d) ==
  /\ shown[d].state = "whole" /\ ~ shown[d].reported
  /\ Show(d, [shown[d] EXCEPT !.reported = TRUE])

(* A command that fails late takes back what has appeared.                 *)
Withdraw(d) ==
  /\ shown[d].state = "whole" /\ ~ shown[d].reported
  /\ Show(d, Absence("unfinished"))

Remove(d) == shown[d].state # "none" /\ Show(d, Absence("none"))

PromiseNext ==
  \E d \in Dir : Reserve(d) \/ Appear(d) \/ Report(d) \/ Withdraw(d) \/ Remove(d)

PromiseSpec == PromiseInit /\ [][PromiseNext]_shown
=============================================================================
