---------------------------- MODULE ScriptTimers ----------------------------
(***************************************************************************)
(* The timers of the scripts that run, one after the other, in one V8      *)
(* runtime: the ops of crate/hello_sandbox/src/sdk/timer_sdk.rs and the    *)
(* globals of sdk-ts/src/timer_globals.js.                                 *)
(*                                                                         *)
(* JavaScript is single-threaded, so a stretch of it is not interrupted:   *)
(* the interleavings are those of the event loop, which polls the pending  *)
(* ops, delivers their results in any order and runs one handler at a      *)
(* time.  A delay may elapse at any moment.  A runtime outlives a run, and *)
(* with it the callbacks and the pending ops; RunState does not.           *)
(***************************************************************************)
EXTENDS Integers

CONSTANTS MaxTimers,       \* bound: timers set in one runtime
          MaxIntervalCalls \* config.max_interval_calls

ASSUME TimersAssumption ==
  /\ MaxTimers \in Nat
  /\ MaxIntervalCalls \in Nat

Timer == 1 .. MaxTimers
NoTimer == 0

VARIABLES
  in_run,   \* RunState is in OpState: a run is in progress
  js,       \* the JavaScript being executed: "none", "body" or "callback"
  current,  \* the timer whose callback is or was the last to be executed
  body,     \* the script's async body: "running" or "returned"
  next_id,  \* _nextId
  cbs,      \* the keys of _cbs
  repeats,  \* repeats[t] : it was set by setInterval
  count,    \* count[t] : callCount of its last arming
  op,       \* op[t] : its op_timer_set: "none", "sleeping" or its result
  timers,   \* the keys of RunState::timers: those whose cancel_tx is alive
  cleared,  \* history: the timers of the runtime that were cleared
  mine,     \* history: the timers set by the run in progress
  calls     \* history: calls[t] : times its callback was called, up to a cap

timer_vars == <<in_run, js, current, body, next_id, cbs, repeats, count, op,
                timers, cleared, mine, calls>>

CallCap == MaxIntervalCalls + 2

InitTimers ==
  /\ in_run = FALSE
  /\ js = "none" /\ current = NoTimer /\ body = "running"
  /\ next_id = 1
  /\ cbs = {} /\ timers = {} /\ cleared = {} /\ mine = {}
  /\ repeats = [t \in Timer |-> FALSE]
  /\ count = [t \in Timer |-> 0]
  /\ op = [t \in Timer |-> "none"]
  /\ calls = [t \in Timer |-> 0]

-----------------------------------------------------------------------------
(* What the script's JavaScript does.                                      *)

\* _arm and op_timer_set up to its select: the sender goes into RunState.
Arm(t, n) ==
  /\ op' = [op EXCEPT ![t] = "sleeping"]
  /\ timers' = timers \cup {t}
  /\ count' = [count EXCEPT ![t] = n]

\* setTimeout and setInterval.
SetTimer(interval) ==
  /\ js # "none"
  /\ next_id \in Timer
  /\ next_id' = next_id + 1
  /\ cbs' = cbs \cup {next_id}
  /\ repeats' = [repeats EXCEPT ![next_id] = interval]
  /\ Arm(next_id, 0)
  /\ mine' = mine \cup {next_id}
  /\ UNCHANGED <<in_run, js, current, body, cleared, calls>>

\* A plausible bug: the op is cancelled but the callback stays registered.
ClearTimerOpOnly(t) ==
  /\ js # "none"
  /\ t < next_id
  /\ timers' = timers \ {t}
  /\ cleared' = cleared \cup {t}
  /\ UNCHANGED <<in_run, js, current, body, next_id, cbs, repeats, count, op,
                 mine, calls>>

\* clearTimeout and clearInterval, which are the same function, and
\* op_timer_clear: dropping the sender wakes the op.
ClearTimer(t) ==
  /\ js # "none"
  /\ t < next_id
  /\ cbs' = cbs \ {t}
  /\ timers' = timers \ {t}
  /\ cleared' = cleared \cup {t}
  /\ UNCHANGED <<in_run, js, current, body, next_id, repeats, count, op, mine,
                 calls>>

\* The body awaits something, or returns.
PauseBody ==
  /\ js = "body"
  /\ js' = "none"
  /\ body' \in {"running", "returned"}
  /\ UNCHANGED <<in_run, current, next_id, cbs, repeats, count, op, timers,
                 cleared, mine, calls>>

\* What a promise a callback resolved lets run next.
Continue == js' \in {"none"} \cup (IF body = "running" THEN {"body"} ELSE {})

\* The callback returns or throws, which makes no difference: an interval
\* that is still registered and below its limit is armed again.
EndCallback ==
  /\ js = "callback"
  /\ IF repeats[current] /\ count[current] + 1 < MaxIntervalCalls /\ current \in cbs
     THEN Arm(current, count[current] + 1) /\ UNCHANGED cbs
     ELSE cbs' = cbs \ {current} /\ UNCHANGED <<op, timers, count>>
  /\ Continue
  /\ UNCHANGED <<in_run, current, body, next_id, repeats, cleared, mine, calls>>

-----------------------------------------------------------------------------
(* What the event loop does.                                               *)

\* The select of op_timer_set: the delay elapsed, or the sender is gone; when
\* both are the case, either branch may be taken.
CompleteOp(t) ==
  /\ in_run
  /\ op[t] = "sleeping"
  /\ \/ op' = [op EXCEPT ![t] = "fired"]
     \/ t \notin timers /\ op' = [op EXCEPT ![t] = "cancelled"]
  /\ UNCHANGED <<in_run, js, current, body, next_id, cbs, repeats, count,
                 timers, cleared, mine, calls>>

\* The handler of op_timer_set's promise, up to the callback.
Deliver(t) ==
  /\ in_run
  /\ js = "none"
  /\ op[t] \in {"fired", "cancelled"}
  /\ op' = [op EXCEPT ![t] = "none"]
  /\ IF op[t] = "fired" /\ t \in cbs
     THEN /\ js' = "callback" /\ current' = t
          /\ calls' = [calls EXCEPT ![t] = IF @ < CallCap THEN @ + 1 ELSE @]
          /\ UNCHANGED cbs
     ELSE cbs' = cbs \ {t} /\ UNCHANGED <<js, current, calls>>
  /\ UNCHANGED <<in_run, body, next_id, repeats, count, timers, cleared, mine>>

-----------------------------------------------------------------------------
(* What a run does to the runtime it is given.                             *)

\* A run starts in the runtime that is there.
BeginRun ==
  /\ in_run' = TRUE
  /\ js' = "body" /\ body' = "running"
  /\ mine' = {}
  /\ UNCHANGED <<current, next_id, cbs, repeats, count, op, timers, cleared,
                 calls>>

\* A runtime nothing was run in yet, but for the variables of the run itself.
NewRuntime ==
  /\ current' = NoTimer
  /\ next_id' = 1
  /\ cbs' = {} /\ timers' = {} /\ cleared' = {} /\ mine' = {}
  /\ repeats' = [t \in Timer |-> FALSE]
  /\ count' = [t \in Timer |-> 0]
  /\ op' = [t \in Timer |-> "none"]
  /\ calls' = [t \in Timer |-> 0]

\* A run starts in a runtime of its own.
BeginFreshRun ==
  /\ in_run' = TRUE
  /\ js' = "body" /\ body' = "running"
  /\ NewRuntime

\* The event loop is drained: nothing runs and no op is pending.
Drained == in_run /\ js = "none" /\ \A t \in Timer : op[t] = "none"

\* RunState is dropped, and with it every sender; the callbacks and the ops
\* are the runtime's.
EndRun ==
  /\ in_run' = FALSE
  /\ js' = "none" /\ body' = "running"
  /\ timers' = {}
  /\ UNCHANGED <<current, next_id, cbs, repeats, count, op, cleared, mine,
                 calls>>

\* The runtime is dropped as well.
EndRuntime ==
  /\ in_run' = FALSE
  /\ js' = "none" /\ body' = "running"
  /\ NewRuntime

JavaScript ==
  \/ \E interval \in BOOLEAN : SetTimer(interval)
  \/ \E t \in Timer : ClearTimer(t)
  \/ PauseBody
  \/ EndCallback

EventLoop == \E t \in Timer : CompleteOp(t) \/ Deliver(t)

\* Delays elapse, results are delivered, and a script's own code, a stretch
\* at a time, comes to an end.
TimerFairness ==
  /\ WF_timer_vars(PauseBody)
  /\ WF_timer_vars(EndCallback)
  /\ \A t \in Timer : WF_timer_vars(CompleteOp(t)) /\ WF_timer_vars(Deliver(t))
=============================================================================
