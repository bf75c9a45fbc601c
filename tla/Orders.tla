------------------------------- MODULE Orders -------------------------------
(***************************************************************************)
(* Lists.  The code sorts a vector and refuses or drops duplicates; what   *)
(* remains is a set, listed in an order.  It splits texts and joins them.  *)
(***************************************************************************)
EXTENDS Integers, SequencesExt

(* The element of a finite set that k others precede.                      *)
AtPlace(S, before, k) ==
  CHOOSE x \in S : Cardinality({y \in S : <<y, x>> \in before}) = k

Ranked(S, before) == [i \in 1..Cardinality(S) |-> AtPlace(S, before, i - 1)]

(* The elements of a finite set in the order of Before.                    *)
Ordered(S, Before(_, _)) == Ranked(S, {p \in S \X S : Before(p[1], p[2])})

(* What a list holds.                                                      *)
Elements(s) == {s[i] : i \in DOMAIN s}

(* What a list has at some places, in the order of these.                  *)
AtPlaces(s, places) == [k \in DOMAIN places |-> s[places[k]]]

(* What a list holds of a set, in the order of the list.                   *)
Filtered(s, keep) ==
  AtPlaces(s, Ordered({i \in DOMAIN s : s[i] \in keep}, LAMBDA i, j : i < j))

(* A list sorted, with duplicates.                                         *)
SortedBy(s, Before(_, _)) ==
  AtPlaces(s, Ordered(DOMAIN s,
                LAMBDA i, j : Before(s[i], s[j]) \/ (~ Before(s[j], s[i]) /\ i < j)))

(* What lies between the places of a separator.                            *)
Parts(s, separator) ==
  LET cuts == Ordered({0} \cup {i \in DOMAIN s : s[i] = separator}, LAMBDA a, b : a < b)
  IN  [k \in DOMAIN cuts |->
         SubSeq(s, cuts[k] + 1, IF k = Len(cuts) THEN Len(s) ELSE cuts[k + 1] - 1)]

(* Parts with a separator between them.                                    *)
JoinedBy(parts, separator) ==
  Tail(FlattenSeq([k \in DOMAIN parts |-> <<separator>> \o parts[k]]))
=============================================================================
