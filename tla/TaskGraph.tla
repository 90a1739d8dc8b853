------------------------------ MODULE TaskGraph ------------------------------
(***************************************************************************)
(* What a run of dependent tasks promises, with no word about layers: a    *)
(* task starts at most once, never before every task it needs has          *)
(* finished, and finishes at most once.  FlowRunner implements it.         *)
(***************************************************************************)
VARIABLES needs,     \* needs[t] : the tasks t has to wait for
          started,   \* the tasks that have started
          finished   \* those of them that finished with success

vars == <<needs, started, finished>>

Task == DOMAIN needs

Init ==
  /\ started = {}
  /\ finished = {}

\* Any number of ready tasks start together.
Start(S) ==
  /\ S \cap started = {}
  /\ \A t \in S : needs[t] \subseteq finished
  /\ started' = started \cup S
  /\ UNCHANGED <<needs, finished>>

Finish(t) ==
  /\ t \in started \ finished
  /\ finished' = finished \cup {t}
  /\ UNCHANGED <<needs, started>>

Next ==
  \/ \E S \in SUBSET Task : Start(S)
  \/ \E t \in Task : Finish(t)

Spec == Init /\ [][Next]_vars
=============================================================================
