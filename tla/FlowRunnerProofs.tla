-------------------------- MODULE FlowRunnerProofs ---------------------------
(***************************************************************************)
(* Theorems about FlowRunner, for every set of flows and variables: the    *)
(* order of the steps, what is running when the flow returns, that a flow  *)
(* is a run of the abstract TaskGraph, what a step sees of its             *)
(* dependencies' captures, and that the environment does not depend on the *)
(* order in which requests return.                                         *)
(***************************************************************************)
EXTENDS FlowRunner, WellFoundedInduction, TLAPS

\* The shape of the variables the argument needs.
Shape ==
  /\ status \in {"called", "running", "ok", "err"}
  /\ layer_of \in [DOMAIN flow -> Int]
  /\ layer \in Int
  /\ step \in [Step -> {"idle", "running", "ok", "err"}]

\* A step has started when its layer has been reached, in a layering of the
\* flow; the steps of the layers behind are over.
LayersInOrder ==
  /\ \A p \in Step : Started(p) =>
       /\ status # "called"
       /\ IsLayering(flow, layer_of)
       /\ layer_of[p[1]] <= layer
  /\ \A p \in Step : layer_of[p[1]] < layer => step[p] = "ok"

\* Nothing has happened before the layers are computed.
NotYetBegun ==
  status = "called" =>
    layer = 0 /\ layer_of = [n \in DOMAIN flow |-> 0]

\* While the flow runs it is laid out.
LaidOut == status = "running" => IsLayering(flow, layer_of)

FlowInv == Shape /\ LayersInOrder /\ NotYetBegun /\ LaidOut /\ NothingLeftRunning

-----------------------------------------------------------------------------
\* A step belongs to a node of its flow.
LEMMA StepNode ==
  ASSUME NEW p \in Step
  PROVE  p[1] \in DOMAIN flow
BY DEF Step, StepsOf

\* A layering puts what a node needs in a lower layer.
LEMMA NeedsAreBelow ==
  ASSUME NEW n \in DOMAIN flow, NEW m \in Needs(flow, n), IsLayering(flow, layer_of)
  PROVE  layer_of[m] < layer_of[n]
BY DEF IsLayering

\* The required steps of a node are steps of the nodes it needs.
LEMMA RequiredSteps ==
  ASSUME NEW n \in DOMAIN flow, NEW q \in Required(n),
         \A m \in Needs(flow, n) : m \in DOMAIN flow
  PROVE  q \in Step /\ q[1] \in Needs(flow, n)
BY DEF Required, Step, StepsOf

\* Begin lays the flow out, or fails before anything started.
LEMMA BeginInv == FlowInv /\ Begin => FlowInv'
<1> SUFFICES ASSUME FlowInv, Begin PROVE FlowInv'
  OBVIOUS
<1> USE DEF Shape, LayersInOrder, NotYetBegun, LaidOut, FlowInv
<1>0. flow' = flow /\ Step' = Step /\ layer' = layer /\ layer = 0
  BY DEF Begin, Reject, StartWith, Step, StepsOf
<1>1. \A p \in Step : step[p] = "idle"
  BY DEF Begin, Reject, StartWith, Started
<1>2. CASE Layerings(flow) = {}
  <2>1. status' = "err" /\ UNCHANGED <<layer_of, step>>
    BY <1>2 DEF Begin, Reject
  <2> QED BY <2>1, <1>0, <1>1, StepNode DEF Started, NothingLeftRunning
<1>3. CASE Layerings(flow) # {}
  <2>1. /\ layer_of' \in Layerings(flow)
        /\ status' = IF Len(flow) = 0 THEN "ok" ELSE "running"
        /\ StartLayer(0, layer_of', env)
    BY <1>3 DEF Begin, StartWith
  <2>2. /\ layer_of' \in [DOMAIN flow -> 0 .. Len(flow) - 1]
        /\ IsLayering(flow, layer_of')
    BY <2>1 DEF Layerings
  <2>3. step' = [p \in Step |-> IF p \in {q \in Step : layer_of'[q[1]] = 0}
                               THEN "running" ELSE step[p]]
    BY <2>1 DEF StartLayer
  <2>4. \A p \in Step : p[1] \in DOMAIN flow
    BY StepNode
  <2>5. \A p \in Step : layer_of'[p[1]] \in Int /\ layer_of'[p[1]] >= 0
    BY <2>2, <2>4
  <2>6. Shape'
    BY <2>1, <2>2, <2>3, <1>0, <1>1
  <2>7. LayersInOrder'
    <3>1. \A p \in Step : step'[p] # "idle" => layer_of'[p[1]] = 0
      BY <2>3, <1>1
    <3>2. \A p \in Step : ~(layer_of'[p[1]] < 0)
      BY <2>5
    <3> QED BY <3>1, <3>2, <2>1, <2>2, <1>0 DEF Started
  <2>8. NotYetBegun'
    BY <2>1
  <2>9. NothingLeftRunning'
    <3>1. CASE Len(flow) = 0
      <4>1. layer_of' \in [DOMAIN flow -> 0 .. (0 - 1)]
        BY <2>2, <3>1
      <4>2. DOMAIN flow = {}
        <5> SUFFICES ASSUME NEW n \in DOMAIN flow PROVE FALSE
          OBVIOUS
        <5>1. layer_of'[n] \in 0 .. (0 - 1)
          BY <4>1
        <5> QED BY <5>1
      <4>3. Step = {}
        BY <4>2 DEF Step
      <4> QED BY <4>3, <1>0 DEF NothingLeftRunning
    <3>2. CASE Len(flow) # 0
      BY <3>2, <2>1 DEF NothingLeftRunning
    <3> QED BY <3>1, <3>2
  <2>10. LaidOut'
    BY <2>2, <1>0
  <2> QED BY <2>6, <2>7, <2>8, <2>9, <2>10
<1> QED BY <1>2, <1>3

\* A step that returns, with a result or an error, stays in its layer.
LEMMA StepEndsInv ==
  ASSUME FlowInv, NEW p \in Step, NEW r \in {"ok", "err"}, step[p] = "running",
         step' = [step EXCEPT ![p] = r],
         UNCHANGED <<flow, status, layer_of, layer>>
  PROVE  FlowInv'
<1> USE DEF Shape, LayersInOrder, NotYetBegun, LaidOut, FlowInv
<1>0. Step' = Step
  BY DEF Step, StepsOf
<1>1. \A q \in Step : step'[q] = IF q = p THEN r ELSE step[q]
  OBVIOUS
<1>2. Shape'
  BY <1>0
<1>3. LayersInOrder'
  <2>1. \A q \in Step : step'[q] # "idle" => step[q] # "idle"
    BY <1>1
  <2>2. \A q \in Step : layer_of[q[1]] < layer => step'[q] = "ok"
    BY <1>1
  <2> QED BY <2>1, <2>2, <1>0 DEF Started
<1>4. NothingLeftRunning'
  BY <1>0, <1>1 DEF NothingLeftRunning
<1> QED BY <1>2, <1>3, <1>4

\* Abort leaves the steps alone; all of them are over.
LEMMA AbortInv == FlowInv /\ Abort => FlowInv'
<1> SUFFICES ASSUME FlowInv, Abort PROVE FlowInv'
  OBVIOUS
<1> USE DEF Shape, LayersInOrder, NotYetBegun, LaidOut, FlowInv
<1>0. Step' = Step /\ UNCHANGED <<flow, layer_of, layer, step>> /\ status' = "err"
  BY DEF Abort, Step, StepsOf
<1>1. \A p \in Step : step[p] # "running"
  <2> SUFFICES ASSUME NEW p \in Step, step[p] = "running" PROVE FALSE
    OBVIOUS
  <2>1. layer_of[p[1]] \in Int
    BY StepNode
  <2>2. layer_of[p[1]] = layer
    BY <2>1 DEF Started
  <2> QED BY <2>2 DEF Abort, LayerDone, InLayer
<1> QED BY <1>0, <1>1 DEF Started, NothingLeftRunning

\* Advance leaves a layer whose steps all succeeded.
LEMMA AdvanceInv == FlowInv /\ Advance => FlowInv'
<1> SUFFICES ASSUME FlowInv, Advance PROVE FlowInv'
  OBVIOUS
<1> USE DEF Shape, LayersInOrder, NotYetBegun, LaidOut, FlowInv
<1>0. Step' = Step /\ UNCHANGED <<flow, layer_of>> /\ layer' = layer + 1
      /\ status = "running"
  BY DEF Advance, LayerDone, Step, StepsOf
<1>1. \A p \in Step : layer_of[p[1]] \in Int
  BY StepNode
<1>2. \A p \in Step : layer_of[p[1]] <= layer => step[p] = "ok"
  <2> SUFFICES ASSUME NEW p \in Step, layer_of[p[1]] <= layer PROVE step[p] = "ok"
    OBVIOUS
  <2>1. CASE layer_of[p[1]] < layer
    BY <2>1
  <2>2. CASE layer_of[p[1]] = layer
    BY <2>2 DEF Advance, LayerDone, Failed, InLayer
  <2> QED BY <2>1, <2>2, <1>1
<1>3. CASE LastLayer
  <2>1. status' = "ok" /\ step' = step
    BY <1>3 DEF Advance
  <2>2. \A p \in Step : step[p] = "ok"
    BY <1>3, <1>2, StepNode DEF LastLayer
  <2> QED BY <2>1, <2>2, <1>0, <1>1 DEF Started, NothingLeftRunning
<1>4. CASE ~LastLayer
  <2>1. status' = "running" /\ StartLayer(layer + 1, layer_of, env')
    BY <1>4, <1>0 DEF Advance
  <2>2. step' = [p \in Step |-> IF p \in {q \in Step : layer_of[q[1]] = layer + 1}
                               THEN "running" ELSE step[p]]
    BY <2>1 DEF StartLayer
  <2>3. PICK n \in DOMAIN flow : ~(layer_of[n] <= layer)
    BY <1>4 DEF LastLayer
  <2>4. Shape'
    BY <2>1, <2>2, <1>0
  <2>5. LayersInOrder'
    <3>1. IsLayering(flow, layer_of)
      BY <1>0
    <3> QED BY <3>1, <2>2, <2>1, <1>0, <1>1, <1>2 DEF Started
  <2>6. LaidOut'
    BY <1>0
  <2> QED BY <2>4, <2>5, <2>6, <2>1 DEF NothingLeftRunning
<1> QED BY <1>3, <1>4

\* The invariant holds initially and in every step.
LEMMA FlowInvInductive == Spec => []FlowInv
<1>1. Init => FlowInv
  BY StepNode DEF Init, FlowInv, Shape, LayersInOrder, NotYetBegun, LaidOut,
     NothingLeftRunning, Started
<1>2. FlowInv /\ [Next]_vars => FlowInv'
  <2> SUFFICES ASSUME FlowInv, [Next]_vars PROVE FlowInv'
    OBVIOUS
  <2>1. CASE Begin
    BY <2>1, BeginInv
  <2>2. CASE Abort
    BY <2>2, AbortInv
  <2>3. CASE Advance
    BY <2>3, AdvanceInv
  <2>4. ASSUME NEW p \in Step, StepFails(p) PROVE FlowInv'
    BY <2>4, StepEndsInv DEF StepFails
  <2>5. ASSUME NEW p \in Step, NEW bound \in SUBSET Var, StepReturns(p, bound)
        PROVE  FlowInv'
    BY <2>5, StepEndsInv DEF StepReturns
  <2>6. CASE UNCHANGED vars
    <3>1. Step' = Step
      BY <2>6 DEF vars, Step, StepsOf
    <3> QED BY <2>6, <3>1 DEF vars, FlowInv, Shape, LayersInOrder, NotYetBegun,
              LaidOut, NothingLeftRunning, Started
  <2> QED BY <2>1, <2>2, <2>3, <2>4, <2>5, <2>6 DEF Next
<1> QED BY <1>1, <1>2, PTL DEF Spec

\* What a node needs are nodes of the flow: the ids it names that exist have a
\* first position.
LEMMA NeedsAreNodes ==
  ASSUME DOMAIN flow \subseteq Nat, NEW n \in DOMAIN flow, NEW m \in Needs(flow, n)
  PROVE  m \in DOMAIN flow
<1>1. PICK d : m = Position(flow, d) /\ HasId(flow, d)
  BY DEF Needs
<1> DEFINE T == {k \in DOMAIN flow : flow[k].id = d}
<1>2. T # {} /\ T \subseteq Nat
  BY <1>1 DEF HasId
<1>3. PICK k \in T : \A j \in T : <<j, k>> \notin OpToRel(<, Nat)
  BY <1>2, WFMin, NatLessThanWellFounded, Zenon
<1>4. \A j \in T : k <= j
  <2> SUFFICES ASSUME NEW j \in T PROVE k <= j
    OBVIOUS
  <2>1. <<j, k>> \in Nat \X Nat
    BY <1>2
  <2>2. ~(j < k)
    BY <2>1, <1>3, Zenon DEF OpToRel
  <2> QED BY <2>2, <1>2
<1>5. k \in DOMAIN flow /\ flow[k].id = d
     /\ \A j \in DOMAIN flow : flow[j].id = d => k <= j
  BY <1>4
<1> QED BY <1>1, <1>5, Zenon DEF Position

\* The flow is one of the given flows, so its nodes are numbered from one.
LEMMA FlowIsSequence == Spec => [](flow \in Flows)
<1>1. Init => flow \in Flows
  BY DEF Init
<1>2. flow \in Flows /\ [Next]_vars => (flow \in Flows)'
  BY DEF Next, vars, Begin, Reject, StartWith, Abort, Advance, StepFails, StepReturns
<1> QED BY <1>1, <1>2, PTL DEF Spec

LEMMA NodeNumbers == flow \in Flows => DOMAIN flow \subseteq Nat
BY FlowAssumption

\* The flow, and with it its steps and what they need, never changes.
LEMMA SameFlow == Next => flow' = flow
BY DEF Next, Begin, Reject, StartWith, Abort, Advance, StepFails, StepReturns

LEMMA SameSteps == Next => Step' = Step
BY SameFlow DEF Step, StepsOf

LEMMA SameNeeds ==
  ASSUME flow' = flow
  PROVE  [p \in Step |-> Required(p[1])]' = [p \in Step |-> Required(p[1])]
BY DEF Step, StepsOf, Required, Needs, Position, HasId

-----------------------------------------------------------------------------
\* A step starts only when every step it depends on has succeeded.
THEOREM DependenciesComeFirst == Spec => []DependenciesFirst
<1>1. FlowInv /\ flow \in Flows => DependenciesFirst
  <2> SUFFICES ASSUME FlowInv, flow \in Flows,
                      NEW p \in Step, Started(p), NEW q \in Required(p[1])
               PROVE  step[q] = "ok"
    BY DEF DependenciesFirst
  <2>1. p[1] \in DOMAIN flow
    BY StepNode
  <2>2. IsLayering(flow, layer_of) /\ layer_of[p[1]] <= layer
    BY DEF FlowInv, LayersInOrder
  <2>3. q \in Step /\ q[1] \in Needs(flow, p[1])
    BY <2>1, NodeNumbers, NeedsAreNodes, RequiredSteps
  <2>4. layer_of[q[1]] < layer_of[p[1]]
    BY <2>1, <2>2, <2>3, NeedsAreBelow
  <2>5. layer_of[q[1]] \in Int /\ layer_of[p[1]] \in Int /\ layer \in Int
    BY <2>1, <2>3, StepNode DEF FlowInv, Shape
  <2>6. layer_of[q[1]] < layer
    BY <2>2, <2>4, <2>5
  <2> QED BY <2>3, <2>6 DEF FlowInv, LayersInOrder
<1> QED BY <1>1, FlowInvInductive, FlowIsSequence, PTL

\* When run_flow returns, no step of the flow is still running.
THEOREM NothingRunsOnReturn == Spec => []NothingLeftRunning
<1>1. FlowInv => NothingLeftRunning
  BY DEF FlowInv
<1> QED BY <1>1, FlowInvInductive, PTL

\* Once a step has failed no further step starts and the flow does not succeed.
THEOREM FailureStopsTheFlow == Spec => NothingStartsAfterFailure
<1>1. FlowInv /\ [Next]_vars =>
        [(\E p \in Step : step[p] = "err") =>
          /\ {p \in Step : Started(p)}' = {p \in Step : Started(p)}
          /\ status' # "ok"]_vars
  <2> SUFFICES ASSUME FlowInv, Next, NEW e \in Step, step[e] = "err"
               PROVE  /\ {p \in Step : Started(p)}' = {p \in Step : Started(p)}
                      /\ status' # "ok"
    OBVIOUS
  <2> USE DEF FlowInv, Shape, LayersInOrder
  <2>0. Step' = Step
    BY SameSteps
  <2>1. status # "called" /\ layer_of[e[1]] = layer
    <3>1. layer_of[e[1]] \in Int
      BY StepNode
    <3> QED BY <3>1 DEF Started
  <2>2. CASE Begin
    BY <2>1, <2>2 DEF Begin, Reject, StartWith
  <2>3. CASE Abort
    BY <2>0, <2>3 DEF Abort, Started
  <2>4. CASE Advance
    BY <2>1, <2>4 DEF Advance, Failed, InLayer
  <2>5. ASSUME NEW p \in Step,
               StepFails(p) \/ \E bound \in SUBSET Var : StepReturns(p, bound)
        PROVE  /\ {q \in Step : Started(q)}' = {q \in Step : Started(q)}
               /\ status' # "ok"
    <3>1. status' = status /\ step[p] = "running"
      BY <2>5 DEF StepFails, StepReturns
    <3>2. \A q \in Step : step'[q] # "idle" <=> step[q] # "idle"
      BY <2>5 DEF StepFails, StepReturns
    <3>3. status # "ok"
      BY <3>1 DEF NothingLeftRunning
    <3> QED BY <2>0, <3>1, <3>2, <3>3 DEF Started
  <2> QED BY <2>2, <2>3, <2>4, <2>5 DEF Next
<1> QED BY <1>1, FlowInvInductive, PTL DEF Spec, NothingStartsAfterFailure

-----------------------------------------------------------------------------
\* Steps that start together are ready in the task graph.
LEMMA StartsAreReady ==
  ASSUME FlowInv, Next, DependenciesFirst', flow \in Flows,
         \A p \in Step : step[p] # "idle" => step'[p] # "idle",
         \A p \in Step : step'[p] = "ok" <=> step[p] = "ok"
  PROVE  [Graph!Next]_(Graph!vars)
<1> DEFINE needs == [p \in Step |-> Required(p[1])]
           started == {p \in Step : Started(p)}
           finished == {p \in Step : step[p] = "ok"}
           S == {p \in Step : step[p] = "idle" /\ step'[p] # "idle"}
<1>1. Step' = Step /\ needs' = needs
  BY SameSteps, SameFlow, SameNeeds
<1>2. finished' = finished
  BY <1>1
<1>3. started' = started \cup S
  BY <1>1 DEF Started
<1>4. S \cap started = {}
  BY DEF Started
<1>5. \A p \in S : Required(p[1])' = Required(p[1])
  BY SameFlow DEF Required, StepsOf, Needs, Position, HasId
<1>6. ASSUME NEW p \in S PROVE needs[p] \subseteq finished
  <2>1. Started(p)' /\ p \in Step'
    BY <1>1 DEF Started
  <2>2. \A q \in Required(p[1])' : step'[q] = "ok"
    BY <2>1 DEF DependenciesFirst
  <2>3. \A q \in Required(p[1]) : step'[q] = "ok"
    BY <2>2, <1>5
  <2>4. \A q \in Required(p[1]) : q \in Step
    BY StepNode, NodeNumbers, NeedsAreNodes, RequiredSteps
  <2> QED BY <2>3, <2>4
<1>7. Graph!Start(S)
  BY <1>1, <1>2, <1>3, <1>4, <1>6 DEF Graph!Start
<1>8. S \in SUBSET Graph!Task
  BY DEF Graph!Task
<1> QED BY <1>7, <1>8 DEF Graph!Next

\* Every step of the flow is a step of the task graph or leaves it alone.
LEMMA StepIsGraphStep ==
  FlowInv /\ flow \in Flows /\ DependenciesFirst' /\ [Next]_vars => [Graph!Next]_(Graph!vars)
<1> SUFFICES ASSUME FlowInv, flow \in Flows, DependenciesFirst', [Next]_vars
             PROVE  [Graph!Next]_(Graph!vars)
  OBVIOUS
<1> DEFINE needs == [p \in Step |-> Required(p[1])]
           started == {p \in Step : Started(p)}
           finished == {p \in Step : step[p] = "ok"}
<1>1. CASE Begin
  <2>1. \A p \in Step : step[p] = "idle"
    BY <1>1 DEF Begin, Reject, StartWith, FlowInv, LayersInOrder, Shape, Started
  <2>2. \A p \in Step : step'[p] \in {"idle", "running"}
    BY <2>1, <1>1 DEF Begin, Reject, StartWith, StartLayer
  <2> QED BY <2>1, <2>2, <1>1, StartsAreReady DEF Next
<1>2. CASE Advance
  <2>1. step' = step \/ StartLayer(layer + 1, layer_of, env')
    BY <1>2 DEF Advance
  <2>2. \A p \in Step : layer_of[p[1]] = layer + 1 => step[p] = "idle"
    <3> SUFFICES ASSUME NEW p \in Step, layer_of[p[1]] = layer + 1 PROVE step[p] = "idle"
      OBVIOUS
    <3>1. layer \in Int /\ ~(layer_of[p[1]] <= layer)
      BY DEF FlowInv, Shape
    <3> QED BY <3>1 DEF FlowInv, LayersInOrder, Started
  <2>3. \A p \in Step : step'[p] = step[p] \/ (step[p] = "idle" /\ step'[p] = "running")
    BY <2>1, <2>2 DEF StartLayer
  <2>4. \A p \in Step : /\ step[p] # "idle" => step'[p] # "idle"
                        /\ step'[p] = "ok" <=> step[p] = "ok"
    BY <2>3
  <2>5. Next
    BY <1>2 DEF Next
  <2> QED BY <2>4, <2>5, StartsAreReady
<1>3. CASE Abort
  <2>1. Step' = Step /\ needs' = needs
    BY <1>3, SameSteps, SameFlow, SameNeeds DEF Next
  <2>2. step' = step
    BY <1>3 DEF Abort
  <2> QED BY <2>1, <2>2 DEF Graph!vars, Started
<1>4. ASSUME NEW p \in Step, StepFails(p) PROVE [Graph!Next]_(Graph!vars)
  <2>1. Step' = Step /\ needs' = needs
    BY <1>4, SameSteps, SameFlow, SameNeeds DEF Next
  <2>2. \A q \in Step : /\ step'[q] = "idle" <=> step[q] = "idle"
                        /\ step'[q] = "ok" <=> step[q] = "ok"
    BY <1>4 DEF StepFails, FlowInv, Shape
  <2>3. started' = started /\ finished' = finished
    BY <2>1, <2>2 DEF Started
  <2> QED BY <2>1, <2>3 DEF Graph!vars
<1>5. ASSUME NEW p \in Step, NEW bound \in SUBSET Var, StepReturns(p, bound)
      PROVE  [Graph!Next]_(Graph!vars)
  <2>1. Step' = Step /\ needs' = needs
    BY <1>5, SameSteps, SameFlow, SameNeeds DEF Next
  <2>2. \A q \in Step : /\ step'[q] = "idle" <=> step[q] = "idle"
                        /\ step'[q] = "ok" <=> step[q] = "ok" \/ q = p
    BY <1>5 DEF StepReturns, FlowInv, Shape
  <2>3. p \in started \ finished
    BY <1>5 DEF StepReturns, Started
  <2>4. started' = started /\ finished' = finished \cup {p}
    BY <2>1, <2>2 DEF Started
  <2>5. Graph!Finish(p)
    BY <2>1, <2>3, <2>4 DEF Graph!Finish
  <2>6. p \in Graph!Task
    BY DEF Graph!Task
  <2> QED BY <2>5, <2>6 DEF Graph!Next
<1>6. CASE UNCHANGED vars
  <2>1. flow' = flow /\ step' = step
    BY <1>6 DEF vars
  <2>2. Step' = Step
    BY <2>1 DEF Step, StepsOf
  <2>3. needs' = needs
    BY <2>1, SameNeeds
  <2> QED BY <2>1, <2>2, <2>3 DEF Graph!vars, Started
<1> QED BY <1>1, <1>2, <1>3, <1>4, <1>5, <1>6 DEF Next

\* A run of a flow is a run of the task graph of its dependencies.
THEOREM FlowImplementsTaskGraph == Spec => ImplementsTaskGraph
<1>1. Init => Graph!Init
  BY DEF Init, Graph!Init, Started
<1> QED BY <1>1, FlowInvInductive, FlowIsSequence, DependenciesComeFirst,
           StepIsGraphStep, PTL DEF Spec, ImplementsTaskGraph, Graph!Spec

-----------------------------------------------------------------------------
(* Captures.                                                               *)

\* A nonempty set of naturals with an upper bound has a greatest element.
LEMMA LargestNatural ==
  ASSUME NEW b \in Nat, NEW S \in SUBSET (0 .. b), NEW e \in S
  PROVE  \E m \in S : \A k \in S : k <= m
<1> DEFINE T == {b - k : k \in S}
<1>1. T \subseteq Nat /\ b - e \in T
  OBVIOUS
<1>2. PICK t \in T : \A u \in T : t <= u
  <2>1. PICK l \in T : \A u \in T : <<u, l>> \notin OpToRel(<, Nat)
    <3> HIDE DEF T
    <3> QED BY <1>1, NatLessThanWellFounded, WFMin, Zenon
  <2>2. ASSUME NEW u \in T PROVE l <= u
    <3>1. <<u, l>> \in Nat \X Nat
      BY <1>1
    <3>2. ~(u < l)
      BY <2>1, <3>1, Zenon DEF OpToRel
    <3> QED BY <1>1, <3>2
  <2> QED BY <2>2
<1>3. PICK m \in S : t = b - m
  BY <1>2
<1>4. ASSUME NEW k \in S PROVE k <= m
  <2>1. b - k \in T
    OBVIOUS
  <2>2. b - m <= b - k
    BY <1>2, <1>3, <2>1
  <2> QED BY <2>2
<1> QED BY <1>4

\* A step is a node and the place of an inner step of it.
LEMMA StepIsPair ==
  ASSUME flow \in Flows, NEW p \in Step
  PROVE  /\ p = <<p[1], p[2]>>
         /\ p[1] \in DOMAIN flow /\ DOMAIN flow = 1 .. Len(flow)
         /\ p[2] \in 1 .. Len(flow[p[1]].steps)
         /\ Len(flow) \in Nat /\ Len(flow[p[1]].steps) \in Nat
<1>1. PICK n \in DOMAIN flow : p \in StepsOf(n)
  BY DEF Step
<1>2. PICK s \in DOMAIN flow[n].steps : p = <<n, s>>
  BY <1>1 DEF StepsOf
<1> DEFINE Inner == [id : STRING, depends_on : SUBSET STRING]
           Node == [id : STRING, depends_on : SUBSET STRING,
                    steps : Seq(Inner)]
<1>3. flow \in Seq(Node)
  BY FlowAssumption
<1>4. flow[n] \in Node
  <2> HIDE DEF Node
  <2> QED BY <1>3
<1>5. flow[n].steps \in Seq(Inner)
  BY <1>4
<1> HIDE DEF Inner, Node
<1>6. DOMAIN flow = 1 .. Len(flow) /\ Len(flow) \in Nat
  BY <1>3
<1>7. /\ DOMAIN flow[n].steps = 1 .. Len(flow[n].steps)
      /\ Len(flow[n].steps) \in Nat
  BY <1>5
<1> QED BY <1>2, <1>6, <1>7

\* Of steps in one layer, some one comes last in the order of outcomes.
LEMMA LastOfLayer ==
  ASSUME flow \in Flows, NEW k, NEW W \in SUBSET InLayer(k), NEW w \in W
  PROVE  \E p \in W : \A q \in W : q = p \/ Before(q, p)
<1>1. W \subseteq Step /\ \A p \in W : layer_of[p[1]] = k
  BY DEF InLayer
<1> DEFINE N == {p[1] : p \in W}
<1>2. N \in SUBSET (0 .. Len(flow)) /\ Len(flow) \in Nat /\ w[1] \in N
  BY <1>1, StepIsPair
<1>3. PICK n \in N : \A m \in N : m <= n
  <2> HIDE DEF N
  <2> QED BY <1>2, LargestNatural
<1> DEFINE V == {p \in W : p[1] = n}
           M == {p[2] : p \in V}
<1>4. PICK v \in W : v[1] = n
  BY <1>3
<1>5. /\ M \in SUBSET (0 .. Len(flow[n].steps))
      /\ Len(flow[n].steps) \in Nat /\ v[2] \in M
  BY <1>1, <1>4, StepIsPair
<1>6. PICK m \in M : \A j \in M : j <= m
  <2> HIDE DEF M
  <2> QED BY <1>5, LargestNatural
<1>7. PICK p \in W : p[1] = n /\ p[2] = m
  BY <1>6
<1>8. ASSUME NEW q \in W PROVE q = p \/ Before(q, p)
  <2>1. /\ q[1] \in Nat /\ n \in Nat /\ q[1] <= n
        /\ layer_of[q[1]] = layer_of[p[1]]
    BY <1>1, <1>2, <1>3, <1>7
  <2>2. CASE q[1] < n
    BY <1>7, <2>1, <2>2 DEF Before
  <2>3. CASE q[1] = n
    <3>1. q[2] \in Nat /\ m \in Nat /\ q[2] <= m
      BY <1>5, <1>6, <2>3
    <3>2. q = <<q[1], q[2]>> /\ p = <<p[1], p[2]>>
      BY <1>1, StepIsPair
    <3>3. CASE q[2] < m
      BY <1>7, <2>3, <3>3 DEF Before
    <3>4. CASE q[2] = m
      BY <1>7, <2>3, <3>2, <3>4
    <3> QED BY <3>1, <3>3, <3>4
  <2> QED BY <2>1, <2>2, <2>3
<1> QED BY <1>8

-----------------------------------------------------------------------------
(* The invariant.                                                          *)

\* What is collected while the flow runs is what the layers behind returned.
Collected ==
  /\ status \in {"called", "running"} =>
       outcomes = {p \in Step : layer_of[p[1]] < layer}
  /\ outcomes \subseteq Step
  /\ \A p \in outcomes : step[p] = "ok"

\* Only a step that returned has captured anything.
CapturesOfReturned ==
  /\ captured \in [Step -> SUBSET Var]
  /\ \A p \in Step : step[p] # "ok" => captured[p] = {}

\* SeesDependencies, of values that are steps.
SeesSteps ==
  \A p \in Step : Started(p) =>
    \A q \in Required(p[1]) : \A v \in captured[q] :
      \/ seen[p][v] = q
      \/ /\ seen[p][v] \in Step
         /\ Before(q, seen[p][v])
         /\ v \in captured[seen[p][v]]

CaptureInv ==
  Collected /\ CapturesOfReturned /\ LastCaptureWins /\ SeesSteps

\* What is known of the state besides.
Known == FlowInv /\ flow \in Flows /\ DependenciesFirst

\* A required step is a step.
LEMMA RequiredIsStep ==
  ASSUME flow \in Flows, NEW p \in Step, NEW q \in Required(p[1])
  PROVE  q \in Step
<1>1. DOMAIN flow \subseteq Nat /\ p[1] \in DOMAIN flow
  BY NodeNumbers, StepNode
<1> QED BY <1>1, NeedsAreNodes, RequiredSteps

\* Initially there is nothing to see.
LEMMA InitCaptureInv == Init => CaptureInv
<1> SUFFICES ASSUME Init PROVE CaptureInv
  OBVIOUS
<1>1. /\ \A p \in Step : step[p] = "idle" /\ captured[p] = {}
      /\ captured \in [Step -> SUBSET Var]
      /\ layer = 0 /\ outcomes = {}
      /\ \A p \in Step : layer_of[p[1]] = 0
  BY StepNode DEF Init
<1> QED BY <1>1 DEF CaptureInv, Collected, CapturesOfReturned,
           LastCaptureWins, SeesSteps, Started

\* What a step leaves as it is when the flow stays.
LEMMA SameNames ==
  ASSUME flow' = flow
  PROVE  Step' = Step /\ \A n : Required(n)' = Required(n)
  BY DEF Step, StepsOf, Required, Needs, Position, HasId

\* Begin starts the first layer, whose steps need nothing.
LEMMA BeginCaptureInv ==
  ASSUME Known, CaptureInv, Begin, DependenciesFirst'
  PROVE  CaptureInv'
<1>1. /\ Step' = Step /\ \A n : Required(n)' = Required(n)
      /\ status = "called" /\ outcomes = {} /\ layer = 0
      /\ UNCHANGED <<flow, layer, captured, env, outcomes>>
  <2>1. status = "called" /\ UNCHANGED <<flow, layer, captured, env, outcomes>>
    BY DEF Begin, Reject, StartWith
  <2>2. layer = 0 /\ layer_of = [n \in DOMAIN flow |-> 0]
    BY <2>1 DEF Known, FlowInv, NotYetBegun
  <2>3. outcomes = {}
    BY <2>1, <2>2, StepNode DEF CaptureInv, Collected
  <2> QED BY <2>1, <2>2, <2>3, SameNames
<1>2. \A p \in Step : step[p] = "idle"
  BY <1>1 DEF Known, FlowInv, LayersInOrder, Started
<1>3. \A p \in Step : step'[p] # "ok"
  <2>1. CASE UNCHANGED step
    BY <1>2, <2>1
  <2>2. CASE \E layers : StartLayer(0, layers, env)
    BY <1>2, <2>2 DEF StartLayer
  <2> QED BY <2>1, <2>2 DEF Begin, Reject, StartWith
<1>4. \A p \in Step : layer_of'[p[1]] \in Int /\ ~(layer_of'[p[1]] < 0)
  <2>1. CASE UNCHANGED layer_of
    BY <1>1, <2>1, StepNode DEF Known, FlowInv, NotYetBegun
  <2>2. CASE layer_of' \in Layerings(flow)
    <3>1. layer_of' \in [DOMAIN flow -> 0 .. Len(flow) - 1]
      BY <2>2 DEF Layerings
    <3> QED BY <3>1, StepNode
  <2> QED BY <2>1, <2>2 DEF Begin, Reject, StartWith
<1>5. Collected'
  BY <1>1, <1>4 DEF Collected
<1>6. CapturesOfReturned'
  BY <1>1, <1>2, <1>3 DEF CaptureInv, CapturesOfReturned
<1>7. LastCaptureWins'
  BY <1>1 DEF LastCaptureWins
<1>8. SeesSteps'
  <2>1. ASSUME NEW p \in Step, Started(p)', NEW q \in Required(p[1])
        PROVE  FALSE
    <3>1. step'[q] = "ok"
      BY <1>1, <2>1 DEF DependenciesFirst
    <3> QED BY <1>3, <3>1, <2>1, RequiredIsStep DEF Known
  <2> QED BY <1>1, <2>1 DEF SeesSteps
<1> QED BY <1>5, <1>6, <1>7, <1>8 DEF CaptureInv

\* A step that ends was running, so it is not among the outcomes, nothing saw
\* a capture of it, and nothing that has started needs it.
LEMMA StepEndsCaptureInv ==
  ASSUME Known, CaptureInv, NEW p \in Step, step[p] = "running",
         NEW r \in {"ok", "err"}, NEW bound \in SUBSET Var,
         step' = [step EXCEPT ![p] = r],
         captured' = [captured EXCEPT ![p] = bound],
         r = "err" => bound = {},
         UNCHANGED <<flow, status, layer_of, layer, seen, env, outcomes>>
  PROVE  CaptureInv'
<1>1. Step' = Step /\ \A n : Required(n)' = Required(n)
  BY SameNames
<1>2. /\ \A q \in Step \ {p} : captured'[q] = captured[q] /\ step'[q] = step[q]
      /\ captured[p] = {} /\ p \notin outcomes
      /\ captured'[p] = bound /\ step'[p] = r
  BY DEF Known, FlowInv, Shape, CaptureInv, CapturesOfReturned, Collected
<1>3. Collected'
  BY <1>1, <1>2 DEF CaptureInv, Collected
<1>4. CapturesOfReturned'
  BY <1>1, <1>2 DEF CaptureInv, CapturesOfReturned
<1>5. LastCaptureWins'
  BY <1>2 DEF CaptureInv, Collected, LastCaptureWins, Before
<1>6. SeesSteps'
  <2> SUFFICES ASSUME NEW s \in Step, Started(s)',
                      NEW q \in Required(s[1]), NEW v \in captured'[q]
               PROVE  \/ seen[s][v] = q
                      \/ /\ seen[s][v] \in Step
                         /\ Before(q, seen[s][v])'
                         /\ v \in captured'[seen[s][v]]
    BY <1>1 DEF SeesSteps
  <2>1. Started(s)
    BY <1>2 DEF Started
  <2>2. q \in Step /\ step[q] = "ok"
    BY <2>1, RequiredIsStep DEF Known, DependenciesFirst
  <2>3. v \in captured[q]
    BY <1>2, <2>2
  <2>4. CASE seen[s][v] = q
    BY <2>4
  <2>5. CASE /\ seen[s][v] \in Step /\ Before(q, seen[s][v])
             /\ v \in captured[seen[s][v]]
    <3>1. seen[s][v] # p
      BY <1>2, <2>5
    <3>2. Before(q, seen[s][v])'
      BY <2>5 DEF Before
    <3> QED BY <1>2, <2>5, <3>1, <3>2
  <2> QED BY <2>1, <2>3, <2>4, <2>5 DEF CaptureInv, SeesSteps
<1> QED BY <1>3, <1>4, <1>5, <1>6 DEF CaptureInv

\* Advance merges the captures of the layer in the order of outcomes.
LEMMA AdvanceCaptureInv ==
  ASSUME Known, CaptureInv, Advance, DependenciesFirst'
  PROVE  CaptureInv'
<1> DEFINE now == InLayer(layer)
<1>1. /\ Step' = Step /\ \A n : Required(n)' = Required(n)
      /\ status = "running" /\ layer \in Int
      /\ \A p \in Step : layer_of[p[1]] \in Int
      /\ now \subseteq Step /\ \A p \in now : step[p] = "ok"
      /\ \A p \in Step : p \in now <=> layer_of[p[1]] = layer
  BY SameNames, StepNode DEF Advance, LayerDone, Failed, InLayer, Known,
     FlowInv, Shape
<1>2. /\ UNCHANGED <<flow, layer_of, captured>> /\ layer' = layer + 1
      /\ outcomes' = outcomes \cup now /\ env' = Merged(now)
  BY DEF Advance
<1>3. \A p \in Step : step[p] = "ok" => step'[p] = "ok"
  <2>1. \A p \in Step : step[p] = "ok" => layer_of[p[1]] <= layer
    BY DEF Known, FlowInv, LayersInOrder, Started
  <2>2. CASE UNCHANGED step
    BY <2>2
  <2>3. CASE StartLayer(layer + 1, layer_of, env')
    BY <1>1, <2>1, <2>3 DEF StartLayer
  <2> QED BY <2>2, <2>3 DEF Advance
<1>4. Collected'
  <2>1. outcomes' = {p \in Step : layer_of[p[1]] < layer + 1}
    BY <1>1, <1>2 DEF CaptureInv, Collected
  <2> QED BY <1>1, <1>2, <1>3, <2>1 DEF CaptureInv, Collected
<1>5. CapturesOfReturned'
  <2>1. \A p \in Step : step'[p] # "ok" => step[p] # "ok"
    BY <1>3
  <2> QED BY <1>1, <1>2, <2>1 DEF CaptureInv, CapturesOfReturned
<1>6. LastCaptureWins'
  <2> SUFFICES ASSUME NEW v \in Var, NEW p \in outcomes', v \in captured[p]
               PROVE  \/ env'[v] = p
                      \/ /\ env'[v] \in outcomes'
                         /\ v \in captured[env'[v]]
                         /\ Before(p, env'[v])
    BY <1>2 DEF LastCaptureWins, Before
  <2> DEFINE writers == {q \in now : v \in captured[q]}
  <2>1. env'[v] = IF writers = {} THEN env[v]
                  ELSE CHOOSE w \in writers :
                         \A q \in writers : q = w \/ Before(q, w)
    BY <1>2 DEF Merged
  <2>2. CASE writers = {}
    BY <1>2, <2>1, <2>2 DEF CaptureInv, LastCaptureWins
  <2>3. CASE writers # {}
    <3>1. \E w \in writers : \A q \in writers : q = w \/ Before(q, w)
      <4>1. writers \in SUBSET InLayer(layer)
        OBVIOUS
      <4> HIDE DEF writers
      <4> QED BY <2>3, <4>1, LastOfLayer DEF Known
    <3>2. /\ env'[v] \in writers
          /\ \A q \in writers : q = env'[v] \/ Before(q, env'[v])
      <4> HIDE DEF writers
      <4> QED BY <2>1, <2>3, <3>1
    <3>3. CASE p \in now
      BY <1>2, <3>2, <3>3
    <3>4. CASE p \notin now
      <4>1. layer_of[p[1]] < layer
        BY <1>1, <1>2, <3>4 DEF CaptureInv, Collected
      <4>2. layer_of[env'[v][1]] = layer
        BY <1>1, <3>2
      <4> QED BY <1>2, <3>2, <4>1, <4>2 DEF Before
    <3> QED BY <3>3, <3>4
  <2> QED BY <2>2, <2>3
<1>7. SeesSteps'
  <2> SUFFICES ASSUME NEW s \in Step, Started(s)',
                      NEW q \in Required(s[1]), NEW v \in captured[q]
               PROVE  \/ seen'[s][v] = q
                      \/ /\ seen'[s][v] \in Step
                         /\ Before(q, seen'[s][v])
                         /\ v \in captured[seen'[s][v]]
    BY <1>1, <1>2 DEF SeesSteps, Before
  <2>1. CASE Started(s)
    <3>1. layer_of[s[1]] <= layer
      BY <2>1 DEF Known, FlowInv, LayersInOrder
    <3>2. seen'[s] = seen[s]
      <4>1. CASE UNCHANGED seen
        BY <4>1
      <4>2. CASE StartLayer(layer + 1, layer_of, env')
        BY <1>1, <3>1, <4>2 DEF StartLayer
      <4> QED BY <4>1, <4>2 DEF Advance
    <3> QED BY <2>1, <3>2 DEF CaptureInv, SeesSteps
  <2>2. CASE ~Started(s)
    <3>1. /\ StartLayer(layer + 1, layer_of, env')
          /\ layer_of[s[1]] = layer + 1
      BY <2>2 DEF Advance, StartLayer, Started
    <3>2. seen'[s] = env'
      BY <3>1 DEF StartLayer
    <3>3. q \in Step /\ step'[q] = "ok"
      BY <1>1, RequiredIsStep DEF Known, DependenciesFirst
    <3>4. step[q] = "ok"
      BY <3>1, <3>3 DEF StartLayer
    <3>5. layer_of[q[1]] <= layer
      BY <3>3, <3>4 DEF Known, FlowInv, LayersInOrder, Started
    <3>6. q \in outcomes' /\ v \in Var
      BY <1>1, <1>2, <3>3, <3>5 DEF CaptureInv, Collected, CapturesOfReturned
    <3>7. outcomes' \subseteq Step
      BY <1>1, <1>4 DEF Collected
    <3> QED BY <1>2, <1>6, <3>2, <3>6, <3>7 DEF LastCaptureWins, Before
  <2> QED BY <2>1, <2>2
<1> QED BY <1>4, <1>5, <1>6, <1>7 DEF CaptureInv

\* Every step keeps it.
LEMMA NextCaptureInv ==
  ASSUME Known, CaptureInv, [Next]_vars, DependenciesFirst'
  PROVE  CaptureInv'
<1>1. CASE Begin
  BY <1>1, BeginCaptureInv
<1>2. CASE Abort
  <2>1. /\ Step' = Step /\ \A n : Required(n)' = Required(n)
        /\ status' = "err" /\ outcomes' = {}
        /\ UNCHANGED <<flow, layer_of, layer, step, seen, captured, env>>
    BY <1>2, SameNames DEF Abort
  <2> QED BY <2>1 DEF CaptureInv, Collected, CapturesOfReturned,
             LastCaptureWins, SeesSteps, Started, Before
<1>3. CASE Advance
  BY <1>3, AdvanceCaptureInv
<1>4. ASSUME NEW p \in Step, StepFails(p) PROVE CaptureInv'
  <2>1. captured' = [captured EXCEPT ![p] = {}]
    BY <1>4 DEF StepFails, CaptureInv, CapturesOfReturned
  <2> QED BY <1>4, <2>1, StepEndsCaptureInv DEF StepFails
<1>5. ASSUME NEW p \in Step, NEW bound \in SUBSET Var, StepReturns(p, bound)
      PROVE  CaptureInv'
  BY <1>5, StepEndsCaptureInv DEF StepReturns
<1>6. CASE UNCHANGED vars
  <2>1. Step' = Step /\ \A n : Required(n)' = Required(n)
    BY <1>6, SameNames DEF vars
  <2> QED BY <1>6, <2>1 DEF vars, CaptureInv, Collected, CapturesOfReturned,
             LastCaptureWins, SeesSteps, Started, Before
<1> QED BY <1>1, <1>2, <1>3, <1>4, <1>5, <1>6 DEF Next

\* The invariant holds in every run.
LEMMA CaptureInvHolds == Spec => [](CaptureInv /\ flow \in Flows)
<1>1. Known /\ CaptureInv /\ [Next]_vars /\ DependenciesFirst' => CaptureInv'
  BY NextCaptureInv
<1> QED BY <1>1, InitCaptureInv, FlowInvInductive, FlowIsSequence,
           DependenciesComeFirst, PTL DEF Spec, Known

-----------------------------------------------------------------------------
\* For any flow: a step is given what its dependencies captured, or what a
\* step after them in the order of outcomes captured.
THEOREM DependenciesAreSeen == Spec => []SeesDependencies
<1>1. CaptureInv /\ flow \in Flows => SeesDependencies
  <2> SUFFICES ASSUME CaptureInv, flow \in Flows PROVE SeesDependencies
    OBVIOUS
  <2>1. Caller \notin Step
    <3>1. ASSUME Caller \in Step PROVE FALSE
      <4>1. 0 \in 1 .. Len(flow) /\ Len(flow) \in Nat
        BY <3>1, StepIsPair DEF Caller
      <4> QED BY <4>1
    <3> QED BY <3>1
  <2> QED BY <2>1 DEF CaptureInv, SeesSteps, SeesDependencies
<1> QED BY <1>1, CaptureInvHolds, PTL

\* For any flow: the environment is what the last capture of each variable, in
\* the order of outcomes, made it, whatever order the requests returned in.
THEOREM LastCapturesWin == Spec => []LastCaptureWins
<1>1. CaptureInv => LastCaptureWins
  BY DEF CaptureInv
<1> QED BY <1>1, CaptureInvHolds, PTL
=============================================================================
