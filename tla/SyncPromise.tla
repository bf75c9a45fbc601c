----------------------------- MODULE SyncPromise -----------------------------
(***************************************************************************)
(* What `arcana sync` promises to whoever follows .arcana/CURRENT, however *)
(* many syncs run, fail or crash: it names nothing, or some snapshot that  *)
(* Lexicon did publish, never an older one than before, and the graph that *)
(* opens there is that snapshot's graph.  Storage that loses unwritten     *)
(* data can make the answer unavailable, never wrong.                      *)
(***************************************************************************)
EXTENDS Naturals, Sequences

CONSTANTS
  Id,            \* Lexicon snapshot ids
  Meaning,       \* the graph of each snapshot
  Nothing,       \* no snapshot was ever published
  Unavailable    \* CURRENT names a snapshot that does not open

VARIABLES
  history,       \* the ids Lexicon published, in order
  at,            \* the publication that CURRENT stands for, 0 for none
  answer         \* what opening CURRENT yields

vars == <<history, at, answer>>

Init ==
  /\ history = << >>
  /\ at = 0
  /\ answer = Nothing

Scan ==
  /\ \E id \in Id : history' = Append(history, id)
  /\ UNCHANGED <<at, answer>>

Serve ==
  /\ \E n \in at .. Len(history) :
       /\ n > 0
       /\ at' = n
       /\ answer' = Meaning[history[n]]
  /\ UNCHANGED history

Lose ==
  /\ at > 0
  /\ answer' = Unavailable
  /\ UNCHANGED <<history, at>>

Next == Scan \/ Serve \/ Lose

Spec == Init /\ [][Next]_vars
=============================================================================
