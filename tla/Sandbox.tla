------------------------------- MODULE Sandbox -------------------------------
(***************************************************************************)
(* A sandbox as its owner uses it: set inputs, register modules and run    *)
(* scripts, one call at a time (crate/hello_sandbox/src/sandbox.rs).  An   *)
(* untrusted script runs in a worker process unless its events are         *)
(* streamed; every other script runs in the sandbox's pool of one slot,    *)
(* which is created by the first call that needs it.                       *)
(*                                                                         *)
(* WorkerProcess and ScriptTimers are the two places a script runs in.     *)
(* RuntimePool models the pool itself, for many callers and slots; here it *)
(* is what one caller sees of it.                                          *)
(***************************************************************************)
EXTENDS ScriptTimers, WorkerProcess

CONSTANTS MaxSetup,  \* bound: inputs set, and modules registered
          MaxStreamed, \* bound: timers set in one runtime of untrusted scripts
          Isolation  \* the isolation levels a sandbox may be configured with

ASSUME SandboxAssumption ==
  /\ MaxSetup \in Nat /\ MaxStreamed \in Nat
  /\ Isolation \subseteq {"Trusted", "PowerUser", "Untrusted"}

VARIABLES
  isolation,    \* config.isolation
  inputs,       \* how many values have been set
  modules,      \* how many modules the sandbox's loader_builder has
  pool_modules, \* how many the pool's loader_builder has
  slot,         \* "none" (no pool), "idle", "busy", "stale" or "lost"
  slot_modules, \* how many the loader of the runtime in use or idle has
  call,         \* the call in progress or the last one
  place,        \* where it runs: "none", "pool" or "worker"
  seen,         \* what its script can see: inputs and modules
  outcome       \* outcome[c] : what call c returned

sandbox_vars == <<isolation, inputs, modules, pool_modules, slot, slot_modules,
                  call, place, seen, outcome>>
vars == <<timer_vars, worker_vars, sandbox_vars>>

Init ==
  /\ InitTimers
  /\ InitWorkers
  /\ isolation \in Isolation
  /\ inputs = 0 /\ modules = 0 /\ pool_modules = 0
  /\ slot = "none" /\ slot_modules = 0
  /\ call = NoCall
  /\ place = "none"
  /\ seen = [inputs |-> 0, modules |-> 0]
  /\ outcome = [c \in Call |-> "none"]

Return(how) ==
  /\ place' = "none"
  /\ outcome' = [outcome EXCEPT ![call] = how]

-----------------------------------------------------------------------------
(* Between calls.                                                          *)

\* set_input.
SetInput ==
  /\ place = "none"
  /\ inputs < MaxSetup
  /\ inputs' = inputs + 1
  /\ UNCHANGED <<timer_vars, worker_vars, isolation, modules, pool_modules,
                 slot, slot_modules, call, place, seen, outcome>>

\* A plausible bug: only a pool that is still to be created gets the module.
RegisterModuleHere ==
  /\ place = "none"
  /\ modules < MaxSetup
  /\ modules' = modules + 1
  /\ UNCHANGED <<timer_vars, worker_vars, isolation, inputs, pool_modules,
                 slot, slot_modules, call, place, seen, outcome>>

\* register_module, and the pool's register_user_module.
RegisterModule ==
  /\ place = "none"
  /\ modules < MaxSetup
  /\ modules' = modules + 1
  /\ IF slot = "none"
     THEN UNCHANGED <<pool_modules, slot>>
     ELSE /\ pool_modules' = pool_modules + 1
          /\ slot' = IF slot = "idle" THEN "stale" ELSE slot
  /\ UNCHANGED <<timer_vars, worker_vars, isolation, inputs, slot_modules,
                 call, place, seen, outcome>>

-----------------------------------------------------------------------------
(* A call that runs in the pool.                                           *)

InWorker(streaming) == isolation = "Untrusted" /\ ~streaming

\* The pool is created if there is none, with an idle slot; the slot's runtime
\* is reused unless it is stale or was idle for too long; a slot that was lost
\* leaves only private runtimes.
RunInPool(streaming) ==
  LET loader == IF slot = "none" THEN modules ELSE pool_modules
  IN /\ place = "none"
     /\ call + 1 \in Call
     /\ ~InWorker(streaming)
     /\ call' = call + 1
     /\ place' = "pool"
     /\ pool_modules' = loader
     /\ slot' = IF slot = "lost" THEN "lost" ELSE "busy"
     /\ \/ slot = "idle" /\ BeginRun /\ UNCHANGED slot_modules
        \/ BeginFreshRun /\ slot_modules' = loader
     /\ seen' = [inputs |-> inputs, modules |-> slot_modules']
     /\ UNCHANGED <<worker_vars, isolation, inputs, modules, outcome>>

\* A plausible bug: the pool keeps the runtime of a run that failed.
LeavePoolKeeping(how) ==
  /\ place = "pool"
  /\ \/ slot = "busy" /\ slot' = "idle" /\ EndRun
     \/ slot' = (IF slot = "lost" THEN "lost" ELSE "stale") /\ EndRuntime
  /\ Return(how)
  /\ UNCHANGED <<worker_vars, isolation, inputs, modules, pool_modules,
                 slot_modules, call, seen>>

\* The run is over and the runtime is checked in: only a success in the slot
\* may be reused, and not if the slot had its last run.
LeavePool(how) ==
  /\ place = "pool"
  /\ \/ slot = "busy" /\ how = "Ok" /\ slot' = "idle" /\ EndRun
     \/ slot' = (IF slot = "lost" THEN "lost" ELSE "stale") /\ EndRuntime
  /\ Return(how)
  /\ UNCHANGED <<worker_vars, isolation, inputs, modules, pool_modules,
                 slot_modules, call, seen>>

\* The event loop has nothing left to wait for: the body returned, or it
\* awaits a promise nobody will resolve.
FinishRun ==
  /\ Drained
  /\ LeavePool(IF body = "returned" THEN "Ok" ELSE "Runtime")

\* The body throws.
ThrowInBody == js = "body" /\ LeavePool("Runtime")

\* The watchdog's deadline passed: whatever JavaScript runs is terminated.
Terminate ==
  /\ isolation # "Trusted"
  /\ js # "none"
  /\ LeavePool("Timeout")

\* The caller drops the call at an await: the runtime is gone, the slot
\* stays checked out.
DropPoolCall ==
  /\ place = "pool"
  /\ js = "none"
  /\ EndRuntime
  /\ Return("Dropped")
  /\ slot' = "lost"
  /\ UNCHANGED <<worker_vars, isolation, inputs, modules, pool_modules,
                 slot_modules, call, seen>>

-----------------------------------------------------------------------------
(* A call that runs in a worker process.                                   *)

\* The worker gets the inputs; its loader is empty.
RunInWorker ==
  /\ place = "none"
  /\ call + 1 \in Call
  /\ InWorker(FALSE)
  /\ call' = call + 1
  /\ place' = "worker"
  /\ seen' = [inputs |-> inputs, modules |-> 0]
  /\ \E forever \in BOOLEAN : Spawn(call + 1, forever)
  /\ UNCHANGED <<timer_vars, isolation, inputs, modules, pool_modules, slot,
                 slot_modules, outcome>>

\* The worker binary cannot be started.
FailToSpawn ==
  /\ place = "none"
  /\ call + 1 \in Call
  /\ InWorker(FALSE)
  /\ call' = call + 1
  /\ outcome' = [outcome EXCEPT ![call + 1] = "ChildProcess"]
  /\ UNCHANGED <<timer_vars, worker_vars, isolation, inputs, modules,
                 pool_modules, slot, slot_modules, place, seen>>

LeaveWorker(how) ==
  /\ place = "worker"
  /\ LetGo(call)
  /\ Return(how)
  /\ UNCHANGED <<timer_vars, isolation, inputs, modules, pool_modules, slot,
                 slot_modules, call, seen>>

\* The pipe breaks before the job is written.
FailToWrite ==
  host = "writing" /\ worker[call] = "exited" /\ LeaveWorker("ChildProcess")

\* The worker's output is complete.
ReadOutput ==
  host = "waiting" /\ worker[call] = "exited" /\ LeaveWorker(WorkerVerdict(call))

\* config.timeout and half a second after the job was written.
GiveUp == host = "waiting" /\ LeaveWorker("ChildProcess")

\* The caller drops the call.
DropWorkerCall == LeaveWorker("Dropped")

\* A step of a worker, or of the host with the current one.
WorkerStep(c) ==
  \/ ReadJob(c) \/ StartScript(c) \/ RefuseScript(c) \/ EndScript(c)
  \/ WatchdogEnds(c)
  \/ WriteAnswer(c, c = call /\ host = "waiting")

-----------------------------------------------------------------------------
Next ==
  \/ SetInput \/ RegisterModule
  \/ \E streaming \in BOOLEAN : RunInPool(streaming)
  \/ FinishRun \/ ThrowInBody \/ Terminate \/ DropPoolCall
  \/ RunInWorker \/ FailToSpawn
  \/ FailToWrite \/ ReadOutput \/ GiveUp \/ DropWorkerCall
  \/ /\ JavaScript \/ EventLoop
     /\ isolation = "Untrusted" => next_id' <= MaxStreamed + 1
     /\ UNCHANGED <<worker_vars, sandbox_vars>>
  \/ /\ \E c \in Call : WorkerStep(c) \/ Die(c) \/ (c = call /\ WriteJob(c))
     /\ UNCHANGED <<timer_vars, sandbox_vars>>

Spec == Init /\ [][Next]_vars

\* Timers and the code of scripts, as TimerFairness says; results are taken
\* in; the processes are scheduled, and the deadline of a worker's watchdog
\* passes.  Nothing is assumed of the host's own deadlines, of the caller's
\* patience, or of a process dying.
Fairness ==
  /\ TimerFairness
  /\ WF_vars(FinishRun) /\ WF_vars(FailToWrite) /\ WF_vars(ReadOutput)
  /\ WF_worker_vars(WriteJob(call))
  /\ \A c \in Call : WF_worker_vars(WorkerStep(c))

FairSpec == Spec /\ Fairness

-----------------------------------------------------------------------------
\* Whenever a timer's callback runs, the timer was set by the run in progress
\* (not by an earlier one in the same runtime, whose pending ops may still
\* complete), and it is called at most as often as it may be: a timeout once,
\* an interval max_interval_calls times, but never less than once.
CallbacksJustified ==
  js = "callback" =>
    /\ current \in mine
    /\ calls[current] <= IF repeats[current] /\ MaxIntervalCalls > 1
                         THEN MaxIntervalCalls ELSE 1

\* A timer that was cleared is silent from then on, also when its delay had
\* elapsed, or its result was waiting to be delivered, before it was cleared.
SilentAfterClear ==
  [][js # "callback" /\ js' = "callback" => current' \notin cleared]_vars

\* Every script sees every input set before its call.  A script in the pool sees
\* every module registered before its call too, whether before or after the
\* pool was created; one in a worker process sees no module at all.
RunsSeeTheSetup ==
  /\ place # "none" => seen.inputs = inputs
  /\ place = "pool" => seen.modules = modules
  /\ place = "worker" => seen.modules = 0

\* An answer from a worker is the truth about its script: no outcome but
\* ChildProcess is reported of a script that never ran or did not end that way.
WorkerAnswerFaithful ==
  \A c \in Call :
    worker[c] # "none" =>
      ran[c] = CASE outcome[c] = "Ok"          -> "value"
                 [] outcome[c] = "Runtime"     -> "error"
                 [] outcome[c] = "OutOfMemory" -> "oom"
                 [] outcome[c] = "Timeout"     -> "timed_out"
                 [] OTHER                      -> ran[c]

\* Every call returns: pending timers, intervals and a worker in any state end
\* by themselves.  And every worker ends, also one that was left alone with a
\* script that never does.
NothingLingers ==
  /\ place # "none" ~> place = "none"
  /\ \A c \in Call : worker[c] # "none" ~> worker[c] = "exited"
=============================================================================
