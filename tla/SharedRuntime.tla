---------------------------- MODULE SharedRuntime ----------------------------
(***************************************************************************)
(* One pool slot running scripts one after the other, and the watchdog     *)
(* threads of those runs: SharedRuntime::run in                            *)
(* crate/hello_sandbox/src/runtime.rs, the ops a script calls that write   *)
(* RunState (core_sdk.rs, kv_sdk.rs, http_sdk.rs), and the pool's reaction *)
(* to the result (a runtime whose run failed is dropped and rebuilt).      *)
(*                                                                         *)
(* The script thread and each watchdog are separate threads: the two       *)
(* atomics they share (cancel, timed_out) and the isolate's termination    *)
(* request are read and written in steps of their own.  A deadline may     *)
(* pass at any moment, and a script may do anything a script can do.       *)
(***************************************************************************)
EXTENDS Integers, FiniteSets

CONSTANTS MaxRun,      \* bound: scripts run in the slot
          Trusted,     \* IsolationLevel::Trusted: no watchdog
          Resource,    \* the rate-limited ops: "http", "kv", "emit"
          Limit,       \* limit on each of them per run
          MaxLogLines, \* config.max_log_lines
          MaxPrints    \* bound: console lines a script tries to write

NoResource == "none"

ASSUME RuntimeAssumption ==
  /\ MaxRun \in Nat
  /\ Trusted \in BOOLEAN
  /\ NoResource \notin Resource
  /\ Limit \in Nat
  /\ MaxLogLines \in Nat
  /\ MaxPrints \in Nat

Run == 1 .. MaxRun
NoRun == 0

VARIABLES
  run,        \* the run in progress or the last one (run_counter)
  pc,         \* the script thread: see TypeOK
  body,       \* the script's async body: "running" or "returned"
  result,     \* what the event loop returned: "ok" or "err"
  in_state,   \* the run whose RunState (and event_tx) is in OpState
  printed,    \* console lines the script tried to write
  logs,       \* RunState::logs.len(), the return sentinel included
  log_quota_exceeded,
  calls,      \* RunState's http_calls, kv_ops and emit_calls
  rate_limit_exceeded,
  oom_detected,
  isolate,    \* the V8 isolate in the slot, counted from 1
  pending,    \* the isolate's termination request: who made it
  home,       \* home[r] : the isolate run r used
  cancel, timed_out,  \* the two atomics of run r
  watchdog,   \* watchdog[r] : the state of its watchdog thread
  killers,    \* history: the requests that terminated run r's script
  hit_heap,   \* history: the heap limit callback fired in run r
  outcome     \* what run r returned

state == <<body, result, in_state, printed, logs, log_quota_exceeded, calls,
           rate_limit_exceeded>>
flags == <<cancel, timed_out, watchdog>>
vars == <<run, pc, state, oom_detected, isolate, pending, home, flags,
          killers, hit_heap, outcome>>

Outcome == {"none", "Ok", "OutOfMemory", "Timeout", "RateLimitExceeded",
            "Runtime", "QuotaExceeded", "Transpile"}

Init ==
  /\ run = NoRun
  /\ pc = "idle"
  /\ body = "running" /\ result = "ok" /\ in_state = NoRun
  /\ printed = 0 /\ logs = 0 /\ log_quota_exceeded = FALSE
  /\ calls = [x \in Resource |-> 0]
  /\ rate_limit_exceeded = NoResource
  /\ oom_detected = FALSE
  /\ isolate = 1 /\ pending = {}
  /\ home = [r \in Run |-> 0]
  /\ cancel = [r \in Run |-> FALSE]
  /\ timed_out = [r \in Run |-> FALSE]
  /\ watchdog = [r \in Run |-> "none"]
  /\ killers = [r \in Run |-> {}]
  /\ hit_heap = [r \in Run |-> FALSE]
  /\ outcome = [r \in Run |-> "none"]

-----------------------------------------------------------------------------
(* The script thread.                                                      *)

\* A fresh runtime replaces the one in the slot; nobody can terminate it yet.
Rebuild ==
  /\ isolate' = isolate + 1
  /\ pending' = {}

\* run(): everything up to the script's first instruction.
Start ==
  /\ pc = "idle"
  /\ run < MaxRun
  /\ run' = run + 1
  /\ oom_detected' = FALSE
  /\ pc' = "executing"
  /\ body' = "running" /\ result' = "ok" /\ in_state' = run + 1
  /\ printed' = 0 /\ logs' = 0 /\ log_quota_exceeded' = FALSE
  /\ calls' = [x \in Resource |-> 0]
  /\ rate_limit_exceeded' = NoResource
  /\ home' = [home EXCEPT ![run + 1] = isolate]
  /\ watchdog' = [watchdog EXCEPT ![run + 1] = IF Trusted THEN "none" ELSE "sleeping"]
  /\ UNCHANGED <<isolate, pending, cancel, timed_out, killers, hit_heap,
                 outcome>>

\* run(): the transpiler rejects the source, before RunState and watchdog.
FailTranspile ==
  /\ pc = "idle"
  /\ run < MaxRun
  /\ run' = run + 1
  /\ oom_detected' = FALSE
  /\ home' = [home EXCEPT ![run + 1] = isolate]
  /\ outcome' = [outcome EXCEPT ![run + 1] = "Transpile"]
  /\ Rebuild
  /\ UNCHANGED <<pc, state, flags, killers, hit_heap>>

\* op_sandbox_print, called by the script or by the wrapper's last line.
PrintLine ==
  IF logs >= MaxLogLines
  THEN log_quota_exceeded' = TRUE /\ logs' = logs
  ELSE logs' = logs + 1 /\ UNCHANGED log_quota_exceeded

\* The script writes a console line.
WriteLine ==
  /\ pc = "executing"
  /\ printed < MaxPrints
  /\ printed' = printed + 1
  /\ PrintLine
  /\ UNCHANGED <<run, pc, body, result, in_state, calls, rate_limit_exceeded, oom_detected, isolate, pending, home, flags,
                 killers, hit_heap, outcome>>

\* A rate-limited op (op_emit, op_http_fetch, kv_check_capabilities): past the
\* limit it throws, and the script catches the exception or dies of it.  The
\* bound on calls leaves out only calls that repeat the one past the limit.
CallOp(x) ==
  LET over == calls[x] + 1 > Limit
  IN /\ pc = "executing"
     /\ calls[x] <= Limit
     /\ calls' = [calls EXCEPT ![x] = @ + 1]
     /\ rate_limit_exceeded' = IF over THEN x ELSE rate_limit_exceeded
     /\ \/ UNCHANGED <<pc, result>>
        \/ over /\ pc' = "ended" /\ result' = "err"
     /\ UNCHANGED <<run, body, in_state, printed, logs, log_quota_exceeded,
                    oom_detected, isolate, pending, home, flags, killers,
                    hit_heap, outcome>>

\* The body returns: the wrapper prints the value behind the sentinel.
Return ==
  /\ pc = "executing"
  /\ body = "running"
  /\ body' = "returned"
  /\ PrintLine
  /\ UNCHANGED <<run, pc, result, in_state, printed, calls,
                 rate_limit_exceeded, oom_detected, isolate,
                 pending, home, flags, killers, hit_heap, outcome>>

\* No JavaScript left to run: the event loop waits for a pending op.
Park ==
  /\ pc = "executing"
  /\ pc' = "parked"
  /\ UNCHANGED <<run, state, oom_detected, isolate, pending, home, flags,
                 killers, hit_heap, outcome>>

\* The op completes and its callback runs.
OpDone ==
  /\ pc = "parked"
  /\ pc' = "executing"
  /\ UNCHANGED <<run, state, oom_detected, isolate, pending, home, flags,
                 killers, hit_heap, outcome>>

\* The event loop is drained, or an exception (or a promise nobody resolves)
\* ends it.
End ==
  /\ pc = "executing"
  /\ pc' = "ended"
  /\ result' \in (IF body = "returned" THEN {"ok", "err"} ELSE {"err"})
  /\ UNCHANGED <<run, body, in_state, printed, logs, log_quota_exceeded,
                 calls, rate_limit_exceeded, oom_detected,
                 isolate, pending, home, flags, killers, hit_heap, outcome>>

\* near_heap_limit_callback, on the script thread.
HeapLimit ==
  /\ pc = "executing"
  /\ ~oom_detected
  /\ oom_detected' = TRUE
  /\ pending' = pending \cup {run}
  /\ hit_heap' = [hit_heap EXCEPT ![run] = TRUE]
  /\ UNCHANGED <<run, pc, state, isolate, home, flags, killers, outcome>>

\* V8 notices the request at a stack check: the script is unwound.  A parked
\* event loop runs no JavaScript, so it does not notice.
Terminate ==
  /\ pc = "executing"
  /\ pending # {}
  /\ killers' = [killers EXCEPT ![run] = pending]
  /\ pending' = {}
  /\ pc' = "ended"
  /\ result' = "err"
  /\ UNCHANGED <<run, body, in_state, printed, logs, log_quota_exceeded,
                 calls, rate_limit_exceeded, oom_detected,
                 isolate, home, flags, hit_heap, outcome>>

\* cancel.store(true), then RunState is taken out of OpState.
StoreCancel ==
  /\ pc = "ended"
  /\ pc' = "cancelled"
  /\ cancel' = [cancel EXCEPT ![run] = TRUE]
  /\ in_state' = NoRun
  /\ UNCHANGED <<run, body, result, printed, logs, log_quota_exceeded, calls,
                 rate_limit_exceeded, oom_detected, isolate,
                 pending, home, timed_out, watchdog, killers, hit_heap,
                 outcome>>

\* A plausible bug: the timeout is looked at before the out-of-memory flag.
VerdictTimeoutFirst ==
  IF timed_out[run] THEN "Timeout"
  ELSE IF oom_detected THEN "OutOfMemory"
  ELSE IF result = "err" /\ rate_limit_exceeded # NoResource THEN "RateLimitExceeded"
  ELSE IF result = "err" THEN "Runtime"
  ELSE IF log_quota_exceeded THEN "QuotaExceeded"
  ELSE "Ok"

\* The priority of errors.
Verdict ==
  IF oom_detected THEN "OutOfMemory"
  ELSE IF timed_out[run] THEN "Timeout"
  ELSE IF result = "err" /\ rate_limit_exceeded # NoResource THEN "RateLimitExceeded"
  ELSE IF result = "err" THEN "Runtime"
  ELSE IF log_quota_exceeded THEN "QuotaExceeded"
  ELSE "Ok"

\* A plausible bug: the pool keeps a runtime whose run failed.
FinishKeepingRuntime ==
  /\ pc = "cancelled"
  /\ pc' = "idle"
  /\ outcome' = [outcome EXCEPT ![run] = Verdict]
  /\ UNCHANGED <<isolate, pending, run, state, oom_detected, home, flags,
                 killers, hit_heap>>

\* The flags are read and run() returns; the pool keeps the runtime only if
\* the run succeeded.
Finish ==
  /\ pc = "cancelled"
  /\ pc' = "idle"
  /\ outcome' = [outcome EXCEPT ![run] = Verdict]
  /\ IF Verdict = "Ok" THEN UNCHANGED <<isolate, pending>> ELSE Rebuild
  /\ UNCHANGED <<run, state, oom_detected, home, flags, killers, hit_heap>>

\* The pool rebuilds an idle slot for a reason of its own: it was idle for too
\* long, had its last run, or a module was registered.
Recycle ==
  /\ pc = "idle"
  /\ run # NoRun /\ home[run] = isolate
  /\ Rebuild
  /\ UNCHANGED <<run, pc, state, oom_detected, home, flags, killers, hit_heap,
                 outcome>>

-----------------------------------------------------------------------------
(* The watchdog thread of run r.                                           *)

WatchdogChecks(r) ==
  /\ watchdog[r] = "sleeping"
  /\ watchdog' = [watchdog EXCEPT ![r] = IF cancel[r] THEN "exited" ELSE "firing"]
  /\ UNCHANGED <<run, pc, state, oom_detected, isolate, pending, home, cancel,
                 timed_out, killers, hit_heap, outcome>>

WatchdogStores(r) ==
  /\ watchdog[r] = "firing"
  /\ watchdog' = [watchdog EXCEPT ![r] = "terminating"]
  /\ timed_out' = [timed_out EXCEPT ![r] = TRUE]
  /\ UNCHANGED <<run, pc, state, oom_detected, isolate, pending, home, cancel,
                 killers, hit_heap, outcome>>

\* A plausible bug: the flag is set but the script is not terminated.
WatchdogOnlyFlags(r) ==
  /\ watchdog[r] = "terminating"
  /\ watchdog' = [watchdog EXCEPT ![r] = "exited"]
  /\ UNCHANGED <<run, pc, state, oom_detected, isolate, pending, home, cancel,
                 timed_out, killers, hit_heap, outcome>>

\* terminate_execution() on a handle whose isolate is gone does nothing.
WatchdogTerminates(r) ==
  /\ watchdog[r] = "terminating"
  /\ watchdog' = [watchdog EXCEPT ![r] = "exited"]
  /\ pending' = IF home[r] = isolate THEN pending \cup {r} ELSE pending
  /\ UNCHANGED <<run, pc, state, oom_detected, isolate, home, cancel,
                 timed_out, killers, hit_heap, outcome>>

Watchdog(r) == WatchdogChecks(r) \/ WatchdogStores(r) \/ WatchdogTerminates(r)

Next ==
  \/ Start \/ FailTranspile \/ WriteLine \/ Return \/ Park \/ OpDone \/ End
  \/ HeapLimit \/ Terminate \/ StoreCancel \/ Finish \/ Recycle
  \/ \E x \in Resource : CallOp(x)
  \/ \E r \in Run : Watchdog(r)

Spec == Init /\ [][Next]_vars

\* Threads are scheduled, a deadline passes, V8 notices a termination request
\* and an op the script waits for completes: each SDK op has a delay or a
\* client timeout of its own.  The script itself need not do anything, and it
\* may wait for one op after the other, so noticing a request is strongly fair.
Fairness ==
  /\ WF_vars(StoreCancel) /\ WF_vars(Finish) /\ WF_vars(OpDone)
  /\ SF_vars(Terminate)
  /\ \A r \in Run : WF_vars(Watchdog(r))

FairSpec == Spec /\ Fairness

-----------------------------------------------------------------------------
\* The variables keep their types: a run never counts more calls than one past
\* a limit, nor keeps more lines than the quota.
TypeOK ==
  /\ run \in Run \cup {NoRun}
  /\ pc \in {"idle", "executing", "parked", "ended", "cancelled"}
  /\ body \in {"running", "returned"}
  /\ result \in {"ok", "err"}
  /\ in_state \in Run \cup {NoRun}
  /\ printed \in 0 .. MaxPrints
  /\ logs \in 0 .. MaxLogLines
  /\ log_quota_exceeded \in BOOLEAN
  /\ calls \in [Resource -> 0 .. Limit + 1]
  /\ rate_limit_exceeded \in Resource \cup {NoResource}
  /\ oom_detected \in BOOLEAN
  /\ isolate \in Nat
  /\ pending \subseteq Run
  /\ home \in [Run -> Nat]
  /\ cancel \in [Run -> BOOLEAN]
  /\ timed_out \in [Run -> BOOLEAN]
  /\ watchdog \in [Run -> {"none", "sleeping", "firing", "terminating", "exited"}]
  /\ killers \in [Run -> SUBSET Run]
  /\ hit_heap \in [Run -> BOOLEAN]
  /\ outcome \in [Run -> Outcome]

\* An op of the run in progress was called past its limit.
Denied == \E x \in Resource : calls[x] > Limit

\* What a run reports is what happened in it, as far as the code can tell.  A
\* script that was terminated or ran out of heap is not a success, nor is one
\* whose watchdog fired before the flags were read; out of memory wins over
\* the timeout, and a timeout is reported only if the run's own watchdog fired.
\* A success lost no line: what the script printed, within its quota, is what
\* the host gets, plus the sentinel; and the quota is blamed only for a line
\* that was lost.  A rate limit is blamed only if an op of this run was denied,
\* though the script may have caught that and died of something else.  Any
\* other death is the script's own, unless it was terminated on behalf of
\* earlier runs only: such a script is reported as Runtime or, after a denial,
\* as RateLimitExceeded (StrayKillIsLateWatchdog says when).
VerdictFaithful ==
  /\ \A r \in Run :
       /\ outcome[r] = "Ok" => killers[r] = {} /\ ~hit_heap[r]
       /\ outcome[r] # "none" /\ hit_heap[r] => outcome[r] = "OutOfMemory"
       /\ outcome[r] = "OutOfMemory" => hit_heap[r]
       /\ outcome[r] = "Timeout" => timed_out[r]
       /\ outcome[r] \notin {"none", "Timeout"} /\ r \in killers[r]
            => outcome[r] = "OutOfMemory"
  /\ pc = "cancelled" =>
       /\ timed_out[run] => Verdict \in {"Timeout", "OutOfMemory"}
       /\ Verdict = "Ok" => logs = printed + 1
       /\ Verdict = "QuotaExceeded" => killers[run] = {} /\ printed + 1 > MaxLogLines
       /\ Verdict = "RateLimitExceeded" => Denied
       /\ Verdict = "Runtime" => ~Denied
       /\ Verdict \in {"RateLimitExceeded", "Runtime"} => run \notin killers[run]

\* When a script is terminated on behalf of another run, that run was an
\* earlier success on the same isolate whose watchdog passed its cancel check
\* before the run ended: every failed run takes its termination requests to
\* the grave with its isolate.
StrayKillIsLateWatchdog ==
  \A r \in Run : \A q \in killers[r] \ {r} :
    /\ q < r /\ home[q] = home[r]
    /\ outcome[q] = "Ok" /\ cancel[q] /\ timed_out[q]

\* The cancel flag "prevents the watchdog from firing" once a run completed:
\* no script is terminated on behalf of another run.
NoStrayKill == \A r \in Run : killers[r] \subseteq {r}

\* A run that has a watchdog ends, whatever its script does.
EveryRunEnds == pc # "idle" ~> pc = "idle"
=============================================================================
