------------------------------- MODULE MCFlow --------------------------------
(***************************************************************************)
(* FlowRun for TLC: every dependency graph on three nodes, the middle one  *)
(* a group of two steps, of which the second declares that it depends on   *)
(* the first (nobody reads that); graphs with an id used twice and with an *)
(* unknown one, without nodes, with an empty group.                        *)
(***************************************************************************)
EXTENDS FlowRun

Node(id, deps, inner) == [id |-> id, depends_on |-> deps, steps |-> inner]
Inner(id, deps) == [id |-> id, depends_on |-> deps]

Group(id, deps) == Node(id, deps, <<Inner("x", {}), Inner("y", {"x"})>>)
Single(id, deps) == Node(id, deps, <<Inner(id, deps)>>)

Ids == {"a", "b", "c"}

EveryGraph ==
  {<<Single("a", A), Group("b", B), Single("c", C)>> :
     A \in SUBSET Ids, B \in SUBSET Ids, C \in SUBSET Ids}

TwiceTheSameId ==
  {<<Single("a", A), Single("b", B), Single("a", C)>> :
     A \in SUBSET {"b"}, B \in SUBSET {"a", "c"}, C \in SUBSET {"b"}}

AllGraphs ==
  EveryGraph \cup TwiceTheSameId
    \cup {<<>>, <<Node("a", {}, <<>>), Single("b", {"a"})>>}
=============================================================================
