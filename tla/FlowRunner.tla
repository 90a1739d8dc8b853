----------------------------- MODULE FlowRunner ------------------------------
(***************************************************************************)
(* run_flow of crate/hello_client/src/flow_runner.rs: the layers one after *)
(* the other, every step of a layer concurrently on the LocalSet, captures *)
(* merged between layers, the first error ends the flow.                   *)
(*                                                                         *)
(* A step is named <<n, s>>: inner step s of node n.  A value is the step  *)
(* that captured it, so the environment is a map from variables to the     *)
(* step whose capture is in force.  Starting a layer holds no await, so it *)
(* is one step of the model with the merge before it; a step's run_test is *)
(* awaited and may end in any order.                                       *)
(***************************************************************************)
EXTENDS FlowGraph, FiniteSets

CONSTANTS Flows,  \* the flows to run: sequences of nodes
          Var     \* the variables the steps capture

ASSUME FlowAssumption ==
  \A flow \in Flows :
    /\ flow \in Seq([id : STRING, depends_on : SUBSET STRING,
                     steps : Seq([id : STRING, depends_on : SUBSET STRING])])

Caller == <<0, 0>>  \* stands for a value of the flow's env or extra_env

VARIABLES flow,      \* the flow being run
          status,    \* of run_flow: "called", "running", "ok" or "err"
          layer_of,  \* what compute_layers returned
          layer,     \* the layer in progress
          step,      \* step[p] : "idle", "running", "ok" or "err"
          seen,      \* seen[p] : the environment step p was given
          captured,  \* captured[p] : the variables step p captured
          env,       \* the shared environment
          outcomes   \* the steps whose outcome has been collected

vars == <<flow, status, layer_of, layer, step, seen, captured, env, outcomes>>

StepsOf(n) == {<<n, s>> : s \in DOMAIN flow[n].steps}

Step == UNION {StepsOf(n) : n \in DOMAIN flow}

InLayer(k) == {p \in Step : layer_of[p[1]] = k}

\* Order of the outcomes: by layer, by node, by inner step.
Before(p, q) ==
  \/ layer_of[p[1]] < layer_of[q[1]]
  \/ layer_of[p[1]] = layer_of[q[1]] /\ p[1] < q[1]
  \/ p[1] = q[1] /\ p[2] < q[2]

Init ==
  /\ flow \in Flows
  /\ status = "called"
  /\ layer_of = [n \in DOMAIN flow |-> 0]
  /\ layer = 0
  /\ step = [p \in Step |-> "idle"]
  /\ env = [v \in Var |-> Caller]
  /\ seen = [p \in Step |-> env]
  /\ captured = [p \in Step |-> {}]
  /\ outcomes = {}

\* A plausible bug: the futures share the environment of the layer before.
StartLayerOldEnv(k, layers, environment) ==
  LET now == {p \in Step : layers[p[1]] = k}
  IN /\ step' = [p \in Step |-> IF p \in now THEN "running" ELSE step[p]]
     /\ seen' = [p \in Step |-> IF p \in now THEN env ELSE seen[p]]

\* One future per node of layer k, polled for the first time.
StartLayer(k, layers, environment) ==
  LET now == {p \in Step : layers[p[1]] = k}
  IN /\ step' = [p \in Step |-> IF p \in now THEN "running" ELSE step[p]]
     /\ seen' = [p \in Step |-> IF p \in now THEN environment ELSE seen[p]]

\* compute_layers returned an error.
Reject ==
  /\ status = "called"
  /\ status' = "err"
  /\ UNCHANGED <<flow, layer_of, layer, step, seen, captured, env, outcomes>>

\* compute_layers returned layers: the initial environment, the first layer.
StartWith(layers) ==
  /\ status = "called"
  /\ layer_of' = layers
  /\ status' = IF Len(flow) = 0 THEN "ok" ELSE "running"
  /\ StartLayer(0, layers, env)
  /\ UNCHANGED <<flow, layer, captured, env, outcomes>>

\* run_flow up to its first await; FlowRun has the search in its place.
Begin ==
  \/ Layerings(flow) = {} /\ Reject
  \/ \E layers \in Layerings(flow) : StartWith(layers)

\* run_step returns a result; a capture whose path is absent binds nothing.
StepReturns(p, bound) ==
  /\ step[p] = "running"
  /\ step' = [step EXCEPT ![p] = "ok"]
  /\ captured' = [captured EXCEPT ![p] = bound]
  /\ UNCHANGED <<flow, status, layer_of, layer, seen, env, outcomes>>

\* run_step returns an error: no file, no entry, or run_test failed.
StepFails(p) ==
  /\ step[p] = "running"
  /\ step' = [step EXCEPT ![p] = "err"]
  /\ UNCHANGED <<flow, status, layer_of, layer, seen, captured, env, outcomes>>

\* Plausible bugs: the first error ends the wait (try_join_all), or an error
\* is never noticed.
LayerDoneAtFirstError ==
  /\ status = "running"
  /\ \/ \A p \in InLayer(layer) : step[p] \in {"ok", "err"}
     \/ \E p \in InLayer(layer) : step[p] = "err"

LayerDoneOnSuccess ==
  /\ status = "running"
  /\ \A p \in InLayer(layer) : step[p] = "ok"

\* join_all of the layer is done: every step of it has returned.
LayerDone ==
  /\ status = "running"
  /\ \A p \in InLayer(layer) : step[p] \in {"ok", "err"}

\* A plausible bug: a layer fails only if all its steps do.
AllFailed == \A p \in InLayer(layer) : step[p] = "err"

Failed == \E p \in InLayer(layer) : step[p] = "err"

\* result? : one error drops the flow and all outcomes.
Abort ==
  /\ LayerDone
  /\ Failed
  /\ status' = "err"
  /\ outcomes' = {}
  /\ UNCHANGED <<flow, layer_of, layer, step, seen, captured, env>>

\* A plausible bug: the first capture wins.
MergedFirst(S) ==
  [v \in Var |->
     LET writers == {p \in S : v \in captured[p]}
     IN IF writers = {} THEN env[v]
        ELSE CHOOSE p \in writers : \A q \in writers : q = p \/ Before(p, q)]

\* The environment after the captures of the steps S, in the order of outcomes.
Merged(S) ==
  [v \in Var |->
     LET writers == {p \in S : v \in captured[p]}
     IN IF writers = {} THEN env[v]
        ELSE CHOOSE p \in writers : \A q \in writers : q = p \/ Before(q, p)]

LastLayer == \A n \in DOMAIN flow : layer_of[n] <= layer

\* Captures are merged, outcomes collected, and the next layer starts.
Advance ==
  /\ LayerDone
  /\ ~Failed
  /\ env' = Merged(InLayer(layer))
  /\ outcomes' = outcomes \cup InLayer(layer)
  /\ layer' = layer + 1
  /\ IF LastLayer
     THEN status' = "ok" /\ UNCHANGED <<step, seen>>
     ELSE StartLayer(layer + 1, layer_of, env') /\ UNCHANGED status
  /\ UNCHANGED <<flow, layer_of, captured>>

Next ==
  \/ Begin
  \/ Abort
  \/ Advance
  \/ \E p \in Step : StepFails(p) \/ \E bound \in SUBSET Var : StepReturns(p, bound)

Spec == Init /\ [][Next]_vars

-----------------------------------------------------------------------------
\* The variables keep their types.
TypeOK ==
  /\ flow \in Flows
  /\ status \in {"called", "running", "ok", "err"}
  /\ layer_of \in [DOMAIN flow -> Nat]
  /\ layer \in Nat
  /\ step \in [Step -> {"idle", "running", "ok", "err"}]
  /\ seen \in [Step -> [Var -> Step \cup {Caller}]]
  /\ captured \in [Step -> SUBSET Var]
  /\ env \in [Var -> Step \cup {Caller}]
  /\ outcomes \subseteq Step

Started(p) == step[p] # "idle"

\* The steps that must be over before node n starts.
Required(n) == UNION {StepsOf(m) : m \in Needs(flow, n)}

\* A step starts only when every step of every node its node depends on has
\* returned a result.
DependenciesFirst ==
  \A p \in Step : Started(p) => \A q \in Required(p[1]) : step[q] = "ok"

\* A step sees what its dependencies captured: for a variable one of them
\* captured it is given that value, or that of a step the outcomes list later.
SeesDependencies ==
  \A p \in Step : Started(p) =>
    \A q \in Required(p[1]) : \A v \in captured[q] :
      \/ seen[p][v] = q
      \/ seen[p][v] # Caller /\ Before(q, seen[p][v]) /\ v \in captured[seen[p][v]]

\* The environment does not depend on the order in which concurrent requests
\* return: each variable has the value of the last step, in the order of the
\* outcomes, of those that captured it.
LastCaptureWins ==
  \A v \in Var :
    \A p \in outcomes : v \in captured[p] =>
      \/ env[v] = p
      \/ env[v] \in outcomes /\ v \in captured[env[v]] /\ Before(p, env[v])

\* When run_flow returns no step is still running: also after a failure, no
\* request of the flow is in flight behind the caller's back.
NothingLeftRunning ==
  status \in {"ok", "err"} => \A p \in Step : step[p] # "running"

\* After a step failed nothing new starts, and the flow cannot succeed.
NothingStartsAfterFailure ==
  [][(\E p \in Step : step[p] = "err") =>
       /\ {p \in Step : Started(p)}' = {p \in Step : Started(p)}
       /\ status' # "ok"]_vars

\* The run of a flow is one of the abstract task graph, its tasks the steps.
Graph == INSTANCE TaskGraph
           WITH needs <- [p \in Step |-> Required(p[1])],
                started <- {p \in Step : Started(p)},
                finished <- {p \in Step : step[p] = "ok"}

ImplementsTaskGraph == Graph!Spec
=============================================================================
