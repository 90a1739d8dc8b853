----------------------------- MODULE FlowLayers ------------------------------
(***************************************************************************)
(* compute_layers and compute_node_layer of                                *)
(* crate/hello_client/src/flow_runner.rs: the depth-first search with a    *)
(* memo (layer_of) and a mark for nodes on the stack (visiting), one step  *)
(* of the model per turn of the loop over the nodes.  FlowRun composes it  *)
(* with the run of the flow.                                               *)
(***************************************************************************)
EXTENDS FlowGraph

CONSTANT Graphs  \* the node sequences to try

VARIABLES nodes, i, layer_of, visiting, err

vars == <<nodes, i, layer_of, visiting, err>>

None == -1  \* no layer yet

Init ==
  /\ nodes \in Graphs
  /\ i = 1
  /\ layer_of = [n \in DOMAIN nodes |-> None]
  /\ visiting = [n \in DOMAIN nodes |-> FALSE]
  /\ err = "none"

\* A plausible bug: the layer of the last dependency, not of the highest.
Later(a, b) == b

Greater(a, b) == IF a >= b THEN a ELSE b

RECURSIVE Visit(_, _), VisitDeps(_, _, _, _)

\* compute_node_layer(n): the memo, the cycle test, the dependencies in turn.
Visit(n, st) ==
  IF st.layer_of[n] # None THEN st
  ELSE IF st.visiting[n] THEN [st EXCEPT !.err = "cycle"]
  ELSE VisitDeps(n, nodes[n].depends_on, None, [st EXCEPT !.visiting[n] = TRUE])

\* A plausible bug: a dependency on an unknown id is skipped.
VisitDepsSkippingUnknown(n, deps, max_dep, st) ==
  IF st.err # "none" THEN st
  ELSE IF deps = {}
  THEN [st EXCEPT !.layer_of[n] = max_dep + 1, !.visiting[n] = FALSE]
  ELSE LET d == CHOOSE d \in deps : TRUE
           below == Visit(Position(nodes, d), st)
       IN IF ~HasId(nodes, d) THEN VisitDeps(n, deps \ {d}, max_dep, st)
          ELSE VisitDeps(n, deps \ {d},
                         Greater(max_dep, below.layer_of[Position(nodes, d)]), below)

\* Its loop over the dependencies left, with max_dep so far; an error ends it.
VisitDeps(n, deps, max_dep, st) ==
  IF st.err # "none" THEN st
  ELSE IF deps = {}
  THEN [st EXCEPT !.layer_of[n] = max_dep + 1, !.visiting[n] = FALSE]
  ELSE LET d == CHOOSE d \in deps : TRUE
           below == Visit(Position(nodes, d), st)
       IN IF ~HasId(nodes, d) THEN [st EXCEPT !.err = "unknown"]
          ELSE VisitDeps(n, deps \ {d},
                         Greater(max_dep, below.layer_of[Position(nodes, d)]), below)

\* One turn of the loop of compute_layers; the first error leaves it.
VisitNext ==
  /\ err = "none"
  /\ i <= Len(nodes)
  /\ LET st == Visit(i, [layer_of |-> layer_of, visiting |-> visiting, err |-> err])
     IN /\ layer_of' = st.layer_of
        /\ visiting' = st.visiting
        /\ err' = st.err
  /\ i' = i + 1
  /\ UNCHANGED nodes

Next == VisitNext

Spec == Init /\ [][Next]_vars

Finished == err = "none" /\ i > Len(nodes)

-----------------------------------------------------------------------------
\* The variables keep their types, and no node stays marked between two turns
\* unless the search failed.
TypeOK ==
  /\ i \in 1 .. Len(nodes) + 1
  /\ layer_of \in [DOMAIN nodes -> {None} \cup (0 .. Len(nodes) - 1)]
  /\ visiting \in [DOMAIN nodes -> BOOLEAN]
  /\ err \in {"none", "cycle", "unknown"}
  /\ err = "none" => \A n \in DOMAIN nodes : ~visiting[n]
=============================================================================
