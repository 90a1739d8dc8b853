---------------------------- MODULE SandboxProofs ----------------------------
(***************************************************************************)
(* Theorems about Sandbox, for any number of calls, timers, inputs and     *)
(* modules, and every limit on the calls of an interval.                   *)
(***************************************************************************)
EXTENDS Sandbox, TLAPS

-----------------------------------------------------------------------------
(* What a script can see.                                                  *)

\* The pool's loader has the sandbox's modules, and so has the runtime in use
\* and a runtime that may be used again.
SetupInv ==
  /\ slot \in {"none", "idle", "busy", "stale", "lost"}
  /\ slot # "none" => pool_modules = modules
  /\ slot = "idle" => slot_modules = modules
  /\ place \in {"none", "pool", "worker"}
  /\ place # "none" => seen.inputs = inputs
  /\ place = "pool" => /\ slot \in {"busy", "lost"}
                       /\ slot_modules = modules
                       /\ seen.modules = modules
  /\ place = "worker" => seen.modules = 0

\* Initially there is no pool and no call.
LEMMA InitSetupInv == Init => SetupInv
  BY DEF Init, SetupInv

\* Only RunInPool makes a runtime the one in use, and only RegisterModule
\* changes what there is to see.
LEMMA NextSetupInv == SetupInv /\ [Next]_vars => SetupInv'
<1> SUFFICES ASSUME SetupInv, [Next]_vars PROVE SetupInv'
  OBVIOUS
<1> USE DEF SetupInv
<1>1. CASE SetInput
  BY <1>1 DEF SetInput
<1>2. CASE RegisterModule
  BY <1>2 DEF RegisterModule
<1>3. ASSUME NEW streaming \in BOOLEAN, RunInPool(streaming) PROVE SetupInv'
  BY <1>3 DEF RunInPool
<1>4. ASSUME NEW how, LeavePool(how) PROVE SetupInv'
  BY <1>4 DEF LeavePool, Return
<1>5. CASE FinishRun \/ ThrowInBody \/ Terminate
  BY <1>4, <1>5 DEF FinishRun, ThrowInBody, Terminate
<1>6. CASE DropPoolCall
  BY <1>6 DEF DropPoolCall, Return
<1>7. CASE RunInWorker
  BY <1>7 DEF RunInWorker
<1>8. CASE FailToSpawn
  BY <1>8 DEF FailToSpawn
<1>9. ASSUME NEW how, LeaveWorker(how) PROVE SetupInv'
  BY <1>9 DEF LeaveWorker, Return
<1>10. CASE FailToWrite \/ ReadOutput \/ GiveUp \/ DropWorkerCall
  BY <1>9, <1>10 DEF FailToWrite, ReadOutput, GiveUp, DropWorkerCall
<1>11. CASE UNCHANGED sandbox_vars
  BY <1>11 DEF sandbox_vars
<1>12. CASE UNCHANGED vars
  BY <1>11, <1>12 DEF vars
<1>13. QED
  BY <1>1, <1>2, <1>3, <1>5, <1>6, <1>7, <1>8, <1>10, <1>11, <1>12 DEF Next

\* For any number of calls: every script sees the inputs set before its call; a
\* script in the pool sees every module registered before its call, whenever
\* the pool was created and whatever became of its slot, and a script in a
\* worker process sees none.
THEOREM SetupIsSeen == Spec => []RunsSeeTheSetup
<1>1. SetupInv => RunsSeeTheSetup
  BY DEF SetupInv, RunsSeeTheSetup
<1>2. QED
  BY <1>1, InitSetupInv, NextSetupInv, PTL DEF Spec

-----------------------------------------------------------------------------
(* What a worker's answer says.                                            *)

\* Calls are counted from one, and those ahead have neither worker nor outcome.
CallsInv ==
  /\ call \in Call \cup {NoCall}
  /\ place # "none" => call \in Call /\ outcome[call] = "none"
  /\ host # "none" => place = "worker"
  /\ \A c \in Call : c > call => worker[c] = "none" /\ outcome[c] = "none"

\* A process goes through its states in order, and only one that wrote the
\* answer of a script that ended exits with success.
ProcessInv ==
  /\ worker \in [Call -> {"none", "reading", "starting", "running",
                          "answering", "exited"}]
  /\ answer \in [Call -> Answer]
  /\ ran \in [Call -> Answer]
  /\ success \in [Call -> BOOLEAN]
  /\ \A c \in Call :
       /\ worker[c] \in {"none", "reading", "starting", "running"} =>
            ran[c] = "none" /\ ~success[c]
       /\ worker[c] = "answering" => answer[c] = ran[c] /\ ran[c] # "none"
       /\ success[c] => answer[c] = ran[c] /\ ran[c] # "none"

\* An outcome that tells how the script ended is that of an exited worker.
OutcomeInv ==
  /\ outcome \in [Call -> {"none", "Ok", "Runtime", "OutOfMemory", "Timeout",
                           "ChildProcess", "Dropped"}]
  /\ \A c \in Call :
       worker[c] # "none"
       /\ outcome[c] \notin {"none", "ChildProcess", "Dropped"}
         => worker[c] = "exited"

\* What WorkerAnswerFaithful says, outcome by outcome.
AnswerInv ==
  \A c \in Call :
    worker[c] # "none" =>
      /\ outcome[c] = "Ok" => ran[c] = "value"
      /\ outcome[c] = "Runtime" => ran[c] = "error"
      /\ outcome[c] = "OutOfMemory" => ran[c] = "oom"
      /\ outcome[c] = "Timeout" => ran[c] = "timed_out"

WorkerInv == CallsInv /\ ProcessInv /\ OutcomeInv /\ AnswerInv

USE DEF Call, NoCall

\* Initially there is no worker.
LEMMA InitWorkerInv == Init => WorkerInv
  BY WorkerAssumption DEF Init, InitWorkers, WorkerInv, CallsInv, ProcessInv,
     OutcomeInv, AnswerInv, Answer

\* A step of a worker, whoever waits for it, changes no outcome.
LEMMA ProcessStepInv ==
  ASSUME WorkerInv, NEW c \in Call,
         \/ WorkerStep(c) \/ Die(c) \/ (c = call /\ WriteJob(c)),
         UNCHANGED sandbox_vars
  PROVE  WorkerInv'
<1> USE DEF WorkerInv, CallsInv, ProcessInv, OutcomeInv, AnswerInv, Answer,
            sandbox_vars
<1>1. CASE StartScript(c)
  BY <1>1 DEF StartScript
<1>2. ASSUME NEW how \in {"value", "error", "oom", "timed_out"},
             ScriptEnds(c, how)
      PROVE  WorkerInv'
  BY <1>2 DEF ScriptEnds
<1>3. ASSUME NEW ok \in BOOLEAN, Exit(c, ok), UNCHANGED <<host, ran>>,
             Alive(c),
             \A d \in Call \ {c} : answer'[d] = answer[d],
             answer' \in [Call -> Answer],
             ok => worker[c] = "answering" /\ answer'[c] = answer[c]
      PROVE  WorkerInv'
  <2>1. CallsInv'
    BY <1>3 DEF Exit, Alive
  <2>2. /\ worker' = [worker EXCEPT ![c] = "exited"]
        /\ success' \in [Call -> BOOLEAN]
        /\ \A d \in Call \ {c} : success'[d] = success[d]
        /\ success'[c] = ok
    BY <1>3 DEF Exit
  <2>3. ProcessInv'
    BY <1>3, <2>2
  <2>4. OutcomeInv' /\ AnswerInv'
    BY <1>3, <2>2 DEF Alive
  <2>5. QED
    BY <2>1, <2>3, <2>4
<1>4. CASE ReadJob(c)
  <2>1. CASE job[c] = "whole"
    <3>1. /\ worker[c] = "reading"
          /\ worker' = [worker EXCEPT ![c] = "starting"]
          /\ UNCHANGED <<host, answer, success, ran>>
      BY <1>4, <2>1 DEF ReadJob
    <3>2. QED
      BY <3>1
  <2>2. CASE job[c] # "whole"
    BY <1>3, <1>4, <2>2 DEF ReadJob, Alive
  <2>3. QED
    BY <2>1, <2>2
<1>5. CASE RefuseScript(c)
  BY <1>3, <1>5 DEF RefuseScript, Alive
<1>6. ASSUME NEW listening \in BOOLEAN, WriteAnswer(c, listening) \/ Die(c)
      PROVE  WorkerInv'
  BY <1>3, <1>6 DEF WriteAnswer, Die, Alive
<1>7. CASE c = call /\ WriteJob(c)
  BY <1>7 DEF WriteJob
<1>8. (c = call /\ host = "waiting") \in BOOLEAN
  OBVIOUS
<1>9. QED
  BY <1>1, <1>2, <1>4, <1>5, <1>6, <1>7, <1>8
     DEF WorkerStep, EndScript, WatchdogEnds

\* A call that returns without an answer, or with the one that was written.
LEMMA LeaveWorkerInv ==
  ASSUME WorkerInv, NEW how, LeaveWorker(how),
         \/ how \in {"ChildProcess", "Dropped"}
         \/ worker[call] = "exited" /\ how = WorkerVerdict(call)
  PROVE  WorkerInv'
<1> USE DEF WorkerInv, CallsInv, ProcessInv, OutcomeInv, AnswerInv, Answer,
            LeaveWorker, LetGo, Return
<1>1. call \in Call /\ outcome' = [outcome EXCEPT ![call] = how]
  OBVIOUS
<1>2. /\ how \in {"Ok", "Runtime", "OutOfMemory", "Timeout", "ChildProcess",
                  "Dropped"}
      /\ how \notin {"ChildProcess", "Dropped"} => worker[call] = "exited"
      /\ how = "Ok" => ran[call] = "value"
      /\ how = "Runtime" => ran[call] = "error"
      /\ how = "OutOfMemory" => ran[call] = "oom"
      /\ how = "Timeout" => ran[call] = "timed_out"
  <2>1. CASE how \in {"ChildProcess", "Dropped"}
    BY <2>1
  <2>2. CASE worker[call] = "exited" /\ how = WorkerVerdict(call)
    <3>1. CASE ~success[call]
      BY <2>2, <3>1 DEF WorkerVerdict
    <3>2. CASE success[call]
      <4>1. ran[call] = answer[call]
        BY <1>1, <3>2
      <4>2. ran[call] \in {"value", "error", "oom", "timed_out"}
        BY <1>1, <3>2
      <4>3. QED
        BY <2>2, <3>2, <4>1, <4>2 DEF WorkerVerdict
    <3>3. QED
      BY <3>1, <3>2
  <2>3. QED
    BY <2>1, <2>2
<1>3. CallsInv' /\ ProcessInv'
  BY <1>1
<1>4. OutcomeInv' /\ AnswerInv'
  BY <1>1, <1>2
<1>5. QED
  BY <1>3, <1>4

\* A call that ran in the pool has no worker.
LEMMA LeavePoolInv ==
  ASSUME WorkerInv, worker[call] = "none", place = "pool",
         NEW how \in {"Ok", "Runtime", "Timeout", "Dropped"}, Return(how),
         UNCHANGED <<worker_vars, call>>
  PROVE  WorkerInv'
  BY DEF WorkerInv, CallsInv, ProcessInv, OutcomeInv, AnswerInv, Return,
     worker_vars

\* While a call runs in the pool, it has no worker.
PoolCallsHaveNone == place = "pool" => worker[call] = "none"

\* Every step keeps the truth of answers.
LEMMA NextWorkerInv ==
  WorkerInv /\ PoolCallsHaveNone /\ [Next]_vars
    => WorkerInv' /\ PoolCallsHaveNone'
<1> SUFFICES ASSUME WorkerInv, PoolCallsHaveNone, [Next]_vars
             PROVE  WorkerInv' /\ PoolCallsHaveNone'
  OBVIOUS
<1> USE WorkerAssumption DEF WorkerAssumption, PoolCallsHaveNone
<1>1. CASE UNCHANGED <<worker_vars, call, place, outcome>>
  BY <1>1 DEF WorkerInv, CallsInv, ProcessInv, OutcomeInv, AnswerInv,
     worker_vars
<1>2. CASE SetInput \/ RegisterModule
  BY <1>1, <1>2 DEF SetInput, RegisterModule
<1>3. ASSUME NEW streaming \in BOOLEAN, RunInPool(streaming)
      PROVE  WorkerInv' /\ PoolCallsHaveNone'
  BY <1>3 DEF RunInPool, WorkerInv, CallsInv, ProcessInv, OutcomeInv,
     AnswerInv, worker_vars
<1>4. CASE FinishRun \/ ThrowInBody \/ Terminate \/ DropPoolCall
  <2>1. PICK how \in {"Ok", "Runtime", "Timeout", "Dropped"} :
          place = "pool" /\ Return(how) /\ UNCHANGED <<worker_vars, call>>
    BY <1>4 DEF FinishRun, ThrowInBody, Terminate, DropPoolCall, LeavePool
  <2>2. QED
    BY <2>1, LeavePoolInv DEF Return
<1>5. CASE RunInWorker
  <2>1. PICK forever \in BOOLEAN : Spawn(call + 1, forever)
    BY <1>5 DEF RunInWorker
  <2>2. QED
    BY <1>5, <2>1 DEF RunInWorker, Spawn, WorkerInv, CallsInv, ProcessInv,
       OutcomeInv, AnswerInv
<1>6. CASE FailToSpawn
  BY <1>6 DEF FailToSpawn, WorkerInv, CallsInv, ProcessInv, OutcomeInv,
     AnswerInv, worker_vars
<1>7. CASE FailToWrite \/ ReadOutput \/ GiveUp \/ DropWorkerCall
  <2>1. PICK how : /\ LeaveWorker(how)
                   /\ \/ how \in {"ChildProcess", "Dropped"}
                      \/ worker[call] = "exited" /\ how = WorkerVerdict(call)
    BY <1>7 DEF FailToWrite, ReadOutput, GiveUp, DropWorkerCall
  <2>2. QED
    BY <2>1, LeaveWorkerInv DEF LeaveWorker, Return
<1>8. ASSUME NEW c \in Call,
             WorkerStep(c) \/ Die(c) \/ (c = call /\ WriteJob(c)),
             UNCHANGED sandbox_vars
      PROVE  WorkerInv' /\ PoolCallsHaveNone'
  <2>1. WorkerInv'
    BY <1>8, ProcessStepInv
  <2>2. worker[c] # "none" /\ \A d \in Call \ {c} : worker'[d] = worker[d]
    BY <1>8 DEF WorkerStep, ReadJob, StartScript, RefuseScript, EndScript,
       WatchdogEnds, ScriptEnds, WriteAnswer, Die, Alive, Exit, WriteJob,
       WorkerInv, ProcessInv
  <2>3. QED
    BY <1>8, <2>1, <2>2 DEF sandbox_vars, WorkerInv, CallsInv, ProcessInv
<1>9. CASE UNCHANGED <<worker_vars, sandbox_vars>>
  BY <1>1, <1>9 DEF sandbox_vars
<1>10. QED
  BY <1>2, <1>3, <1>4, <1>5, <1>6, <1>7, <1>8, <1>9 DEF Next, vars

\* For any number of calls: what is reported of a script in a worker is how it
\* ended, whatever happens to the worker, its pipes and its caller.
THEOREM AnswersAreTrue == Spec => []WorkerAnswerFaithful
<1>1. Init => PoolCallsHaveNone
  BY DEF Init, PoolCallsHaveNone
<1>2. WorkerInv => WorkerAnswerFaithful
  BY DEF WorkerInv, AnswerInv, WorkerAnswerFaithful
<1>3. QED
  BY <1>1, <1>2, InitWorkerInv, NextWorkerInv, PTL DEF Spec

-----------------------------------------------------------------------------
(* What a timer's callback may do.                                         *)

TimerTypes ==
  /\ js \in {"none", "body", "callback"}
  /\ current \in Timer \cup {NoTimer}
  /\ next_id \in Nat \ {0}
  /\ cbs \subseteq Timer
  /\ cleared \subseteq Timer
  /\ mine \subseteq Timer
  /\ repeats \in [Timer -> BOOLEAN]
  /\ count \in [Timer -> Nat]
  /\ calls \in [Timer -> Nat]
  /\ op \in [Timer -> {"none", "sleeping", "fired", "cancelled"}]

\* Timers are numbered in the order they are set, and what is cleared is not
\* registered any more.
NumbersInv ==
  /\ \A t \in Timer : t >= next_id =>
       t \notin cleared /\ op[t] = "none" /\ calls[t] = 0
  /\ cbs \cap cleared = {}
  /\ js = "callback" => current < next_id

\* Only the timers of the run in progress are armed: a run ends when nothing
\* is pending, or takes its runtime along.
MineInv ==
  /\ place # "pool" => js = "none"
  /\ \A t \in Timer : op[t] # "none" => place = "pool" /\ t \in mine
  /\ js = "callback" => current \in mine /\ op[current] = "none"

\* An armed timer may be called: it is the first time, or it repeats and its
\* limit is not reached.
MayBeCalled(t) == count[t] = 0 \/ (repeats[t] /\ count[t] < MaxIntervalCalls)

\* An armed timer was called as often as it was armed before, and an interval
\* is armed once more only below its limit.
CountInv ==
  /\ \A t \in Timer : op[t] # "none" =>
       /\ calls[t] = count[t]
       /\ MayBeCalled(t)
  /\ js = "callback" =>
       /\ calls[current] = count[current] + 1
       /\ MayBeCalled(current)

TimerInv == TimerTypes /\ NumbersInv /\ MineInv /\ CountInv

USE TimersAssumption DEF TimersAssumption, Timer, NoTimer

\* Initially there are no timers.
LEMMA InitTimerInv == Init => TimerInv
  BY DEF Init, InitTimers, TimerInv, TimerTypes, NumbersInv, MineInv, CountInv

\* The end of a callback arms an interval again below its limit only.
LEMMA EndCallbackInv ==
  ASSUME TimerInv, EndCallback, UNCHANGED place
  PROVE  TimerInv'
<1> USE DEF TimerInv
<1>1. /\ js' \in {"none", "body"}
      /\ UNCHANGED <<place, in_run, current, body, next_id, repeats, cleared,
                     mine, calls>>
  BY DEF EndCallback, Continue
<1>2. /\ place = "pool" /\ js = "callback"
      /\ current \in Timer /\ current \in mine /\ current < next_id
      /\ op[current] = "none"
      /\ calls[current] = count[current] + 1
  BY DEF EndCallback, TimerTypes, NumbersInv, MineInv, CountInv
<1>3. CASE repeats[current] /\ count[current] + 1 < MaxIntervalCalls
           /\ current \in cbs
  <2>1. /\ op' = [op EXCEPT ![current] = "sleeping"]
        /\ count' = [count EXCEPT ![current] = count[current] + 1]
        /\ cbs' = cbs
    BY <1>3 DEF EndCallback, Arm
  <2>2. TimerTypes'
    BY <1>1, <1>2, <2>1 DEF TimerTypes
  <2>3. NumbersInv'
    BY <1>1, <1>2, <2>1 DEF TimerTypes, NumbersInv
  <2>4. MineInv'
    BY <1>1, <1>2, <2>1 DEF TimerTypes, MineInv
  <2>5. CountInv'
    <3>1. \A t \in Timer \ {current} : count'[t] = count[t] /\ op'[t] = op[t]
      BY <1>2, <2>1 DEF TimerTypes
    <3>2. count'[current] = count[current] + 1
      BY <1>2, <2>1 DEF TimerTypes
    <3>3. MayBeCalled(current)'
      BY <1>1, <1>3, <3>2 DEF MayBeCalled
    <3>4. \A t \in Timer \ {current} : MayBeCalled(t) => MayBeCalled(t)'
      BY <1>1, <3>1 DEF MayBeCalled
    <3>5. QED
      BY <1>1, <1>2, <3>1, <3>2, <3>3, <3>4 DEF CountInv
  <2>6. QED
    BY <2>2, <2>3, <2>4, <2>5
<1>4. CASE ~(repeats[current] /\ count[current] + 1 < MaxIntervalCalls
             /\ current \in cbs)
  <2>1. cbs' = cbs \ {current} /\ UNCHANGED <<op, timers, count>>
    BY <1>4 DEF EndCallback
  <2>2. TimerTypes' /\ NumbersInv' /\ MineInv'
    BY <1>1, <1>2, <2>1 DEF TimerTypes, NumbersInv, MineInv
  <2>3. CountInv'
    BY <1>1, <1>2, <2>1 DEF CountInv, MayBeCalled
  <2>4. QED
    BY <2>2, <2>3
<1>5. QED
  BY <1>3, <1>4

\* The delivery of a result calls the callback one time more.
LEMMA DeliverInv ==
  ASSUME TimerInv, NEW t \in Timer, Deliver(t), UNCHANGED place
  PROVE  TimerInv'
<1> USE DEF TimerInv
<1>1. /\ op[t] # "none" /\ place = "pool" /\ t \in mine
      /\ calls[t] = count[t] /\ MayBeCalled(t)
      /\ t < next_id
  BY DEF Deliver, MineInv, CountInv, NumbersInv, TimerTypes
<1>2. /\ op' = [op EXCEPT ![t] = "none"]
      /\ UNCHANGED <<place, next_id, repeats, count, timers, cleared, mine>>
  BY DEF Deliver
<1>3. CASE op[t] = "fired" /\ t \in cbs
  <2>1. /\ js' = "callback" /\ current' = t /\ cbs' = cbs
        /\ calls' = [calls EXCEPT ![t] = IF @ < CallCap THEN @ + 1 ELSE @]
    BY <1>3 DEF Deliver
  <2>2. count[t] \in Nat /\ calls[t] < CallCap
    BY <1>1 DEF TimerTypes, CallCap, MayBeCalled
  <2>3. calls' = [calls EXCEPT ![t] = calls[t] + 1]
    BY <2>1, <2>2 DEF TimerTypes
  <2>4. TimerTypes'
    BY <1>1, <1>2, <2>1, <2>2, <2>3 DEF TimerTypes
  <2>5. NumbersInv'
    BY <1>1, <1>2, <2>1, <2>3 DEF TimerTypes, NumbersInv
  <2>6. MineInv'
    BY <1>1, <1>2, <2>1 DEF TimerTypes, MineInv
  <2>7. \A u \in Timer : MayBeCalled(u) => MayBeCalled(u)'
    BY <1>2 DEF MayBeCalled
  <2>8. CountInv'
    BY <1>1, <1>2, <2>1, <2>2, <2>3, <2>7 DEF TimerTypes, CountInv
  <2>9. QED
    BY <2>4, <2>5, <2>6, <2>8
<1>4. CASE ~(op[t] = "fired" /\ t \in cbs)
  <2>1. cbs' = cbs \ {t} /\ UNCHANGED <<js, current, calls>>
    BY <1>4 DEF Deliver
  <2>2. js = "none"
    BY DEF Deliver
  <2>3. TimerTypes' /\ NumbersInv' /\ MineInv'
    BY <1>1, <1>2, <2>1, <2>2 DEF TimerTypes, NumbersInv, MineInv
  <2>4. \A u \in Timer : MayBeCalled(u) => MayBeCalled(u)'
    BY <1>2 DEF MayBeCalled
  <2>5. CountInv'
    BY <1>2, <2>1, <2>2, <2>4 DEF TimerTypes, CountInv
  <2>6. QED
    BY <2>3, <2>5
<1>5. QED
  BY <1>3, <1>4

\* What the script's JavaScript does.
LEMMA JavaScriptInv ==
  ASSUME TimerInv, JavaScript, UNCHANGED place
  PROVE  TimerInv'
<1> USE DEF TimerInv, TimerTypes, NumbersInv, MineInv, CountInv, MayBeCalled
<1>1. ASSUME NEW interval \in BOOLEAN, SetTimer(interval) PROVE TimerInv'
  <2>1. TimerTypes'
    BY <1>1 DEF SetTimer, Arm
  <2>2. NumbersInv'
    BY <1>1 DEF SetTimer, Arm
  <2>3. MineInv'
    BY <1>1 DEF SetTimer, Arm
  <2>4. CountInv'
    BY <1>1 DEF SetTimer, Arm
  <2>5. QED
    BY <2>1, <2>2, <2>3, <2>4
<1>2. ASSUME NEW t \in Timer, ClearTimer(t) PROVE TimerInv'
  BY <1>2 DEF ClearTimer
<1>3. CASE PauseBody
  BY <1>3 DEF PauseBody
<1>4. CASE EndCallback
  BY <1>4, EndCallbackInv
<1>5. QED
  BY <1>1, <1>2, <1>3, <1>4 DEF JavaScript

\* What the event loop does.
LEMMA EventLoopInv ==
  ASSUME TimerInv, EventLoop, UNCHANGED place
  PROVE  TimerInv'
<1> USE DEF TimerInv
<1>1. ASSUME NEW t \in Timer, CompleteOp(t) PROVE TimerInv'
  <2>1. /\ op[t] = "sleeping"
        /\ \E result \in {"fired", "cancelled"} :
             op' = [op EXCEPT ![t] = result]
        /\ UNCHANGED <<js, current, next_id, cbs, repeats, count, cleared,
                       mine, calls, place>>
    BY <1>1 DEF CompleteOp
  <2>2. TimerTypes' /\ NumbersInv' /\ MineInv'
    BY <2>1 DEF TimerTypes, NumbersInv, MineInv
  <2>3. \A u \in Timer : MayBeCalled(u) => MayBeCalled(u)'
    BY <2>1 DEF MayBeCalled
  <2>4. CountInv'
    BY <2>1, <2>3 DEF TimerTypes, CountInv, MayBeCalled
  <2>5. QED
    BY <2>2, <2>4
<1>2. ASSUME NEW t \in Timer, Deliver(t) PROVE TimerInv'
  BY <1>2, DeliverInv
<1>3. QED
  BY <1>1, <1>2 DEF EventLoop

\* Starting a run, or ending one, with or without its runtime.
LEMMA RunTimerInv ==
  /\ TimerInv /\ place = "none" /\ place' = "pool"
     /\ (BeginRun \/ BeginFreshRun) => TimerInv'
  /\ TimerInv /\ place' = "none" /\ Drained /\ EndRun => TimerInv'
  /\ TimerInv /\ place' = "none" /\ EndRuntime => TimerInv'
<1>1. ASSUME TimerInv, place = "none", place' = "pool", BeginRun
      PROVE  TimerInv'
  <2>1. /\ \A t \in Timer : op[t] = "none"
        /\ js' = "body" /\ mine' = {}
        /\ UNCHANGED <<current, next_id, cbs, repeats, count, op, cleared,
                       calls>>
    BY <1>1 DEF TimerInv, MineInv, BeginRun
  <2>2. QED
    BY <1>1, <2>1 DEF TimerInv, TimerTypes, NumbersInv, MineInv, CountInv
<1>2. ASSUME place' = "pool", BeginFreshRun PROVE TimerInv'
  BY <1>2 DEF BeginFreshRun, NewRuntime, TimerInv, TimerTypes, NumbersInv,
     MineInv, CountInv
<1>3. ASSUME TimerInv, place' = "none", Drained, EndRun PROVE TimerInv'
  <2>1. /\ \A t \in Timer : op[t] = "none"
        /\ js' = "none"
        /\ UNCHANGED <<current, next_id, cbs, repeats, count, op, cleared,
                       mine, calls>>
    BY <1>3 DEF Drained, EndRun
  <2>2. QED
    BY <1>3, <2>1 DEF TimerInv, TimerTypes, NumbersInv, MineInv, CountInv
<1>4. ASSUME place' = "none", EndRuntime PROVE TimerInv'
  BY <1>4 DEF EndRuntime, NewRuntime, TimerInv, TimerTypes, NumbersInv,
     MineInv, CountInv
<1>5. QED
  BY <1>1, <1>2, <1>3, <1>4

\* A step that touches no timer, and lets no run begin or end in the pool.
LEMMA ElsewhereInv ==
  TimerInv /\ UNCHANGED timer_vars /\ (place = "pool" <=> place' = "pool")
    => TimerInv'
<1> SUFFICES ASSUME TimerInv, UNCHANGED timer_vars,
                    place = "pool" <=> place' = "pool"
             PROVE  TimerInv'
  OBVIOUS
<1>1. TimerTypes' /\ NumbersInv' /\ MineInv'
  BY DEF TimerInv, TimerTypes, NumbersInv, MineInv, timer_vars
<1>2. CountInv'
  BY DEF TimerInv, CountInv, MayBeCalled, timer_vars
<1>3. QED
  BY <1>1, <1>2 DEF TimerInv

\* Every step keeps the invariant of the timers.
LEMMA NextTimerInv == TimerInv /\ [Next]_vars => TimerInv'
<1> SUFFICES ASSUME TimerInv, [Next]_vars PROVE TimerInv'
  OBVIOUS
<1>1. CASE SetInput \/ RegisterModule \/ FailToSpawn \/ RunInWorker
  BY <1>1, ElsewhereInv DEF SetInput, RegisterModule, FailToSpawn, RunInWorker
<1>2. ASSUME NEW streaming \in BOOLEAN, RunInPool(streaming) PROVE TimerInv'
  <2>1. place = "none" /\ place' = "pool" /\ (BeginRun \/ BeginFreshRun)
    BY <1>2 DEF RunInPool
  <2>2. QED
    BY <2>1, RunTimerInv
<1>3. CASE FinishRun
  <2>1. place' = "none" /\ Drained /\ (EndRun \/ EndRuntime)
    BY <1>3 DEF FinishRun, LeavePool, Return
  <2>2. QED
    BY <2>1, RunTimerInv
<1>4. CASE ThrowInBody \/ Terminate \/ DropPoolCall
  <2>1. place' = "none" /\ EndRuntime
    BY <1>4 DEF ThrowInBody, Terminate, DropPoolCall, LeavePool, Return
  <2>2. QED
    BY <2>1, RunTimerInv
<1>5. CASE FailToWrite \/ ReadOutput \/ GiveUp \/ DropWorkerCall
  <2>1. UNCHANGED timer_vars /\ place = "worker" /\ place' = "none"
    BY <1>5 DEF FailToWrite, ReadOutput, GiveUp, DropWorkerCall, LeaveWorker,
       Return
  <2>2. QED
    BY <2>1, ElsewhereInv
<1>6. CASE (JavaScript \/ EventLoop) /\ UNCHANGED sandbox_vars
  BY <1>6, JavaScriptInv, EventLoopInv DEF sandbox_vars
<1>7. CASE UNCHANGED <<timer_vars, sandbox_vars>>
  BY <1>7, ElsewhereInv DEF sandbox_vars
<1>8. QED
  BY <1>1, <1>2, <1>3, <1>4, <1>5, <1>6, <1>7 DEF Next, vars

\* For any number of timers and any limit: a timer's callback belongs to the
\* run in progress, and is called no more often than it may be, though the
\* runtime, its callbacks and its pending ops outlive the run.
THEOREM CallbacksAreJustified == Spec => []CallbacksJustified
<1>1. TimerInv => CallbacksJustified
  <2> SUFFICES ASSUME TimerInv, js = "callback"
               PROVE  /\ current \in mine
                      /\ calls[current] <=
                           IF repeats[current] /\ MaxIntervalCalls > 1
                           THEN MaxIntervalCalls ELSE 1
    BY DEF CallbacksJustified
  <2>1. /\ current \in mine /\ current \in Timer
        /\ calls[current] = count[current] + 1
        /\ MayBeCalled(current)
    BY DEF TimerInv, TimerTypes, MineInv, CountInv
  <2>2. count[current] \in Nat
    BY <2>1 DEF TimerInv, TimerTypes
  <2>3. CASE count[current] = 0
    BY <2>1, <2>3
  <2>4. CASE repeats[current] /\ count[current] < MaxIntervalCalls
    BY <2>1, <2>2, <2>4
  <2>5. QED
    BY <2>1, <2>3, <2>4 DEF MayBeCalled
<1>2. QED
  BY <1>1, InitTimerInv, NextTimerInv, PTL DEF Spec

\* For any number of timers: no callback of a timer that was cleared begins.
THEOREM ClearedTimersAreSilent == Spec => SilentAfterClear
<1>1. TimerInv /\ [Next]_vars =>
        [js # "callback" /\ js' = "callback" => current' \notin cleared]_vars
  <2> SUFFICES ASSUME TimerInv, Next, js # "callback", js' = "callback"
               PROVE  current' \notin cleared
    OBVIOUS
  <2>1. \E t \in Timer : Deliver(t)
    <3>1. ~UNCHANGED timer_vars
      BY DEF timer_vars
    <3>2. ~EndRun /\ ~EndRuntime /\ ~BeginRun /\ ~BeginFreshRun
      BY DEF EndRun, EndRuntime, BeginRun, BeginFreshRun
    <3>3. ~JavaScript
      BY DEF JavaScript, SetTimer, ClearTimer, PauseBody, EndCallback
    <3>4. ~\E t \in Timer : CompleteOp(t)
      BY DEF CompleteOp
    <3>5. EventLoop
      BY <3>1, <3>2, <3>3 DEF Next, SetInput, RegisterModule, RunInPool,
         FinishRun, ThrowInBody, Terminate, DropPoolCall, LeavePool,
         RunInWorker, FailToSpawn, FailToWrite, ReadOutput, GiveUp,
         DropWorkerCall, LeaveWorker
    <3>6. QED
      BY <3>4, <3>5 DEF EventLoop
  <2>2. PICK t \in Timer : Deliver(t)
    BY <2>1
  <2>3. current' = t /\ t \in cbs
    BY <2>2 DEF Deliver
  <2>4. QED
    BY <2>3 DEF TimerInv, NumbersInv
<1>2. QED
  BY <1>1, InitTimerInv, NextTimerInv, PTL DEF Spec, SilentAfterClear
=============================================================================
