------------------------------- MODULE FlowRun -------------------------------
(***************************************************************************)
(* A whole run_flow of crate/hello_client/src/flow_runner.rs: the search   *)
(* for the layers (FlowLayers) and then the run in those layers, which     *)
(* FlowRunner starts with any layering the graph has.                      *)
(***************************************************************************)
EXTENDS FlowRunner

VARIABLES i,        \* the node the search turns to next
          memo,     \* what the search has in layer_of
          visiting, \* visiting[n] : node n is on the stack of the search
          err       \* the error of the search

search == <<i, memo, visiting, err>>

Search == INSTANCE FlowLayers WITH Graphs <- Flows, nodes <- flow, layer_of <- memo

RunInit == Init /\ Search!Init

\* One turn of compute_layers.
SearchTurn ==
  /\ status = "called"
  /\ Search!VisitNext
  /\ UNCHANGED vars

\* let layers = compute_layers(&flow.nodes)?
Begun ==
  /\ \/ err # "none" /\ Reject
     \/ Search!Finished /\ StartWith(memo)
  /\ UNCHANGED search

\* A step of the layer in progress returns.
StepEnds ==
  /\ \E p \in Step : StepFails(p) \/ \E bound \in SUBSET Var : StepReturns(p, bound)
  /\ UNCHANGED search

\* The layer in progress is over.
LayerEnds == (Abort \/ Advance) /\ UNCHANGED search

RunNext == SearchTurn \/ Begun \/ StepEnds \/ LayerEnds

\* The LocalSet polls the flow, and a step ends: the timeout of the HTTP client
\* and the watchdog of the script runtime bound both of its parts.
RunSpec ==
  /\ RunInit /\ [][RunNext]_<<vars, search>>
  /\ WF_<<vars, search>>(SearchTurn)
  /\ WF_<<vars, search>>(Begun)
  /\ WF_<<vars, search>>(StepEnds)
  /\ WF_<<vars, search>>(LayerEnds)

-----------------------------------------------------------------------------
\* The search does what FlowRunner takes for granted: run_flow fails at once
\* exactly when an id is unknown or the graph has a cycle, and otherwise runs
\* in the one layering of the graph.
ImplementsFlowRunner == Spec

\* run_flow returns, whatever the graph and however the steps end.
FlowEnds == <>(status \in {"ok", "err"})
=============================================================================
