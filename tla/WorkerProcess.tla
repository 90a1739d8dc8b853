---------------------------- MODULE WorkerProcess ----------------------------
(***************************************************************************)
(* The processes that run untrusted scripts: run_in_child_process and      *)
(* run_worker of crate/hello_sandbox/src/child.rs.                         *)
(*                                                                         *)
(* The host and each worker are processes of their own, joined by pipes.   *)
(* The host gives a job to a worker and waits for its output; the caller   *)
(* may drop the wait at any await, the deadline may pass at any moment     *)
(* after the job was written, and a worker may die at any moment.  Nothing *)
(* kills a worker its host no longer waits for.                            *)
(***************************************************************************)
EXTENDS Integers

CONSTANT MaxCall  \* bound: calls made to the sandbox

ASSUME WorkerAssumption == MaxCall \in Nat

Call == 1 .. MaxCall
NoCall == 0

VARIABLES
  host,     \* the host's wait: "none", "writing" or "waiting"
  job,      \* job[c] : what worker c's stdin holds: "open", "whole" or "cut"
  worker,   \* worker[c] : the process: see the actions
  endless,  \* endless[c] : its script never ends by itself
  answer,   \* answer[c] : the WorkerResponse it writes
  success,  \* success[c] : it exited with status 0
  ran       \* history: ran[c] : how its script ended

worker_vars == <<host, job, worker, endless, answer, success, ran>>

Answer == {"none", "value", "error", "oom", "timed_out"}

InitWorkers ==
  /\ host = "none"
  /\ job = [c \in Call |-> "open"]
  /\ worker = [c \in Call |-> "none"]
  /\ endless = [c \in Call |-> FALSE]
  /\ answer = [c \in Call |-> "none"]
  /\ success = [c \in Call |-> FALSE]
  /\ ran = [c \in Call |-> "none"]

-----------------------------------------------------------------------------
(* The worker.                                                             *)

Alive(c) == worker[c] \notin {"none", "exited"}

\* The process is gone; its status is what the host will see.
Exit(c, ok) ==
  /\ worker' = [worker EXCEPT ![c] = "exited"]
  /\ success' = [success EXCEPT ![c] = ok]

\* stdin is read to its end; a job that is cut off does not parse.
ReadJob(c) ==
  /\ worker[c] = "reading"
  /\ job[c] # "open"
  /\ IF job[c] = "whole"
     THEN worker' = [worker EXCEPT ![c] = "starting"] /\ UNCHANGED success
     ELSE Exit(c, FALSE)
  /\ UNCHANGED <<host, job, endless, answer, ran>>

\* V8 comes up and the syscall filter is installed.
StartScript(c) ==
  /\ worker[c] = "starting"
  /\ worker' = [worker EXCEPT ![c] = "running"]
  /\ UNCHANGED <<host, job, endless, answer, success, ran>>

\* The filter cannot be installed: the worker says so and exits with 1.
RefuseScript(c) ==
  /\ worker[c] = "starting"
  /\ answer' = [answer EXCEPT ![c] = "error"]
  /\ Exit(c, FALSE)
  /\ UNCHANGED <<host, job, endless, ran>>

\* The isolation a worker's own runtime is given, whatever the caller's is.
WorkerIsolationTrusted == "Trusted"  \* a plausible bug: the boundary is the process
WorkerIsolation == "PowerUser"

ScriptEnds(c, how) ==
  /\ worker[c] = "running"
  /\ worker' = [worker EXCEPT ![c] = "answering"]
  /\ answer' = [answer EXCEPT ![c] = how]
  /\ ran' = [ran EXCEPT ![c] = how]
  /\ UNCHANGED <<host, job, endless, success>>

EndScript(c) == ~endless[c] /\ \E how \in {"value", "error", "oom"} : ScriptEnds(c, how)

\* The watchdog of the worker's runtime; a trusted runtime has none.
WatchdogEnds(c) == WorkerIsolation # "Trusted" /\ ScriptEnds(c, "timed_out")

\* write_response: it fails, and the worker exits with 1, once the host has
\* closed its end of the pipe.
WriteAnswer(c, listening) ==
  /\ worker[c] = "answering"
  /\ Exit(c, listening)
  /\ UNCHANGED <<host, job, endless, answer, ran>>

\* The worker is killed or aborts: V8 out of memory, a panic, a signal.
Die(c) ==
  /\ Alive(c)
  /\ Exit(c, FALSE)
  /\ UNCHANGED <<host, job, endless, answer, ran>>

-----------------------------------------------------------------------------
(* The host.                                                               *)

\* The worker is spawned with its pipes.
Spawn(c, forever) ==
  /\ host' = "writing"
  /\ worker' = [worker EXCEPT ![c] = "reading"]
  /\ endless' = [endless EXCEPT ![c] = forever]
  /\ UNCHANGED <<job, answer, success, ran>>

\* The job is written and stdin is closed.
WriteJob(c) ==
  /\ host = "writing"
  /\ worker[c] = "reading"
  /\ host' = "waiting"
  /\ job' = [job EXCEPT ![c] = "whole"]
  /\ UNCHANGED <<worker, endless, answer, success, ran>>

\* The host stops waiting for worker c, for whatever reason: its end of the
\* pipes is closed, the process is left alone.
LetGo(c) ==
  /\ host' = "none"
  /\ job' = [job EXCEPT ![c] = IF @ = "open" THEN "cut" ELSE @]
  /\ UNCHANGED <<worker, endless, answer, success, ran>>

\* A plausible bug: the answer is read whatever the exit status is.
WorkerVerdictAnyStatus(c) ==
  CASE answer[c] = "oom"       -> "OutOfMemory"
    [] answer[c] = "timed_out" -> "Timeout"
    [] answer[c] = "error"     -> "Runtime"
    [] answer[c] = "value"     -> "Ok"
    [] OTHER                   -> "ChildProcess"

\* What the output of an exited worker is reported as.
WorkerVerdict(c) ==
  IF ~success[c] THEN "ChildProcess"
  ELSE CASE answer[c] = "oom"       -> "OutOfMemory"
         [] answer[c] = "timed_out" -> "Timeout"
         [] answer[c] = "error"     -> "Runtime"
         [] OTHER                   -> "Ok"
=============================================================================
