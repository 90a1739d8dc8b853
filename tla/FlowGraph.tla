------------------------------ MODULE FlowGraph ------------------------------
(***************************************************************************)
(* The dependency graph of a flow, as crate/hello_client/src/flow.rs       *)
(* defines it and flow_runner.rs reads it: operators shared by the layer   *)
(* computation (FlowLayers) and the run (FlowRunner).                      *)
(*                                                                         *)
(* A flow is a sequence of nodes [id, depends_on, steps]; a plain step is  *)
(* a node with one inner step.  flow_parser.rs rejects neither duplicate   *)
(* ids, nor unknown ones, nor cycles, and parses a depends_on for inner    *)
(* steps as well.  The order inside depends_on only chooses which error is *)
(* reported first, so it is a set here.                                    *)
(***************************************************************************)
EXTENDS Integers, Sequences

\* nodes.iter().position(|n| n.id() == dep_id): the first node of that id.
HasId(nodes, d) == \E m \in DOMAIN nodes : nodes[m].id = d

Position(nodes, d) ==
  CHOOSE m \in DOMAIN nodes :
    /\ nodes[m].id = d
    /\ \A k \in DOMAIN nodes : nodes[k].id = d => m <= k

\* The nodes node n waits for.
Needs(nodes, n) ==
  {Position(nodes, d) : d \in {e \in nodes[n].depends_on : HasId(nodes, e)}}

\* layer(n) = 1 + max(layer of its dependencies), or 0 without dependencies:
\* the least number above all of them.
IsLayering(nodes, layer) ==
  \A n \in DOMAIN nodes :
    /\ \A m \in Needs(nodes, n) : layer[m] < layer[n]
    /\ layer[n] = 0 \/ \E m \in Needs(nodes, n) : layer[n] = layer[m] + 1

Resolved(nodes) ==
  \A n \in DOMAIN nodes : \A d \in nodes[n].depends_on : HasId(nodes, d)

\* What compute_layers promises: the layerings of the nodes, none when an id
\* is unknown or the graph has a cycle.
Layerings(nodes) ==
  IF ~Resolved(nodes) THEN {}
  ELSE {layer \in [DOMAIN nodes -> 0 .. Len(nodes) - 1] : IsLayering(nodes, layer)}
=============================================================================
