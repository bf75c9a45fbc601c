------------------------------ MODULE MCSession ------------------------------
(***************************************************************************)
(* Instances of Session for TLC: searches and paths on all graphs over a   *)
(* few nodes, look-ups in catalogues whose paths are close to each other.  *)
(***************************************************************************)
EXTENDS Session

Edge(s, r, t) == [source |-> s, relation |-> r, target |-> t]

A == <<97>>
B == <<98>>

At(key, kind, path, name) == [key |-> key, kind |-> kind, path |-> path, name |-> name]

(* The nodes of a graph that is searched.                                  *)
Plain ==
  {[entries |-> [i \in 1..4 |-> At(i, "function", A, A)], unresolved |-> <<>>]}

-----------------------------------------------------------------------------
(* Calls over three nodes of which two may call themselves.                *)
Calling ==
  SUBSET {Edge(s, Calls, t) : <<s, t>> \in {p \in (0..2) \X (0..2) : p # <<2, 2>>}}

(* These, and perhaps a reference; every graph of calls without loops over *)
(* four nodes where nobody calls the first one, and perhaps a possible     *)
(* call to the last, if it is not called.                                  *)
SmallGraphs == {g \cup h : g \in Calling, h \in SUBSET {Edge(1, References, 0)}}

WideGraphs ==
  SUBSET {Edge(s, Calls, t) : <<s, t>> \in {p \in (0..3) \X (1..3) : p[1] # p[2]}}
  \cup {g \cup {Edge(0, PossibleCalls, 3)} :
          g \in SUBSET {Edge(s, Calls, t) : <<s, t>> \in
                 {p \in (0..3) \X (1..3) : p[1] # p[2] /\ p # <<0, 3>>}}}

Ask(op, entries, target, possible, mask, symbols, depth, limit) ==
  [op |-> op, entries |-> entries, target |-> target, possible |-> possible,
   mask |-> mask, symbols |-> symbols, depth |-> depth, limit |-> limit]

(* Searches for distances with all limits that matter; an unknown node and *)
(* no entry at all.  Chains to a node, from itself included, and roles of  *)
(* it without entries and among none to three.                             *)
SearchRequests ==
  {Ask("reachability", {0}, 0, FALSE, None, {}, d, 2) : d \in {0, 2, 3}}
  \cup {Ask("reachability", {1, 2}, 0, TRUE, None, {}, d, l) : d \in 1..2, l \in {0, 9}}
  \cup {Ask("reachability", s, 0, FALSE, None, {}, 1, 2) : s \in {{}, {0, 9}}}
  \cup {Ask("impact", {}, n, FALSE, m, {}, 2, 2) :
          n \in {0, 9}, m \in {None, {}, {References}}}
  \cup {Ask("dead_symbols", {0}, 0, FALSE, None, {1, 2}, d, 1) : d \in {1, 3}}
  \cup {Ask("chain", {0}, n, p, None, {}, d, 0) : n \in {0, 3}, p \in BOOLEAN, d \in 2..3}
  \cup {Ask("role", s, 3, TRUE, None, {}, d, 0) :
          s \in {{}, {0, 1}, {0, 1, 2}, {2, 3}}, d \in 2..3}
  \cup {Ask("summary", {}, n, TRUE, None, {}, 2, 0) : n \in {3, 9}}

(* A second relation beside one of the calls.                              *)
PathGraphs ==
  {g \cup h : g \in Calling, h \in SUBSET {Edge(0, PossibleCalls, 1)}}

(* Paths to another node, to the start itself and to an unknown one, with  *)
(* a mask that admits one or both relations and limits from zero; and paths *)
(* from an unknown node.                                                   *)
PathRequests ==
  {[op |-> "paths", from |-> 0, to |-> t, mask |-> m, depth |-> d, limit |-> l] :
     t \in {0, 2}, m \in {{Calls}, Relation}, d \in 0..3, l \in {0, 1, 9}}
  \cup {[op |-> "paths", from |-> n, to |-> 9 - n, mask |-> Relation, depth |-> 3,
         limit |-> 1] : n \in {0, 9}}

-----------------------------------------------------------------------------
(* Paths around "a", as the order of bytes has them: "-" and "." before    *)
(* the slash, "0" after it.                                                *)
NearPaths ==
  {A, <<97, Dash>>, <<97, Dot, 98>>, <<97, Slash, 97>>, <<97, Slash, Dash>>,
   <<97, Zero>>, <<97, Zero, Slash, 97>>, <<Dot>>, B}

(* Three nodes, the last two with any of these paths.                      *)
Catalogues ==
  {[entries |-> <<At(1, k, A, A), At(2, "file", p, A), At(3, "function", q, n)>>,
    unresolved |->
      <<[source |-> 1, relation |-> Calls, reason |-> "dynamic"],
        [source |-> 3, relation |-> References, reason |-> "dynamic"],
        [source |-> 3, relation |-> Calls, reason |-> "ambiguous"]>>] :
   k \in Kind, n \in {A, B}, p \in NearPaths, q \in NearPaths}

(* The paths asked for, some of them not in normal form or none at all.    *)
AskedPaths ==
  {None, A, <<Dot, Slash, 97, Slash>>, <<97, Backslash, 97>>, <<97, Zero>>, <<Dot>>,
   <<Slash, 97>>, <<Dot, Dot>>}

ListRequests ==
  {[Unrestricted EXCEPT !.op = o, !.kind = k, !.path = p, !.name = A, !.limit = l] :
     o \in {"resolve_symbol", "list_nodes"}, k \in {None, "function", Malformed},
     p \in AskedPaths, l \in {None, 1}}
  \cup {[Unrestricted EXCEPT !.op = "resolve_file", !.path = p] : p \in AskedPaths \ {None}}

OtherRequests ==
  {[Unrestricted EXCEPT !.op = "neighbors", !.node = n, !.direction = d, !.relation = r] :
          n \in {0, 9}, d \in Direction, r \in {None, Calls, 77}}
  \cup {[Unrestricted EXCEPT !.op = "unresolved", !.node = n, !.path = p, !.reason = w,
                        !.relation = r, !.limit = l] :
          n \in {None, 2, 9}, p \in {None, A, <<Dot, Dot>>}, w \in {None, "dynamic", Malformed},
          r \in {None, Calls, 77}, l \in {0, 5}}

(* Snapshots of no more than two nodes with any keys, names and relations. *)
Little ==
  {[entries |-> <<>>, unresolved |-> <<>>, graph |-> {}]}
  \cup {[entries |-> <<At(k, "function", A, n)>>, unresolved |-> <<>>, graph |-> g] :
          k \in 1..2, n \in {A, B}, g \in SUBSET {Edge(0, r, 0) : r \in {Calls, References}}}
  \cup {[entries |-> <<At(k, "function", A, A), At(3, "function", A, n)>>,
         unresolved |-> <<>>, graph |-> g] :
          k \in 1..2, n \in {A, B},
          g \in SUBSET {Edge(s, Calls, t) : s \in 0..1, t \in 0..1}}

Near == {c \in Catalogues : \A i \in 1..3 : c.entries[i].path \in {A, <<Dot>>}}

MCSessions ==
  {[graphs |-> SmallGraphs \cup WideGraphs, catalogues |-> Plain, requests |-> SearchRequests],
   [graphs |-> PathGraphs, catalogues |-> Plain, requests |-> PathRequests],
   [graphs |-> {{Edge(0, Calls, 1), Edge(0, References, 2), Edge(2, Calls, 0)}},
    catalogues |-> Near, requests |-> OtherRequests],
   [graphs |-> SUBSET {Edge(0, Calls, 1), Edge(2, Calls, 1), Edge(0, References, 1),
                       Edge(1, Calls, 1), Edge(1, PossibleCalls, 0)},
    catalogues |-> Near, requests |-> {Unrestricted}],
   [graphs |-> {{}}, catalogues |-> Catalogues, requests |-> ListRequests]}
  \cup {[graphs |-> {s.graph},
         catalogues |-> {[entries |-> s.entries, unresolved |-> s.unresolved]},
         requests |-> {[Unrestricted EXCEPT !.op = "diff", !.other = o, !.limit = 1] :
                         o \in Little \cup {Malformed}}] : s \in Little}
=============================================================================
