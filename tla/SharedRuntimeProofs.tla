------------------------- MODULE SharedRuntimeProofs -------------------------
(***************************************************************************)
(* Theorems about SharedRuntime, for any number of runs, with and without  *)
(* watchdogs, for every set of rate-limited resources and all limits.      *)
(***************************************************************************)
EXTENDS SharedRuntime, TLAPS

USE DEF Run, NoRun

\* The two Boolean variables keep their type.
BooleanTypes ==
  /\ log_quota_exceeded \in BOOLEAN
  /\ oom_detected \in BOOLEAN

\* So do the others, and a run in progress has a number.
OtherTypes ==
  /\ pc # "idle" => run # NoRun
  /\ run \in Run \cup {NoRun}
  /\ pc \in {"idle", "executing", "parked", "ended", "cancelled"}
  /\ body \in {"running", "returned"}
  /\ result \in {"ok", "err"}
  /\ in_state \in Run \cup {NoRun}
  /\ printed \in 0 .. MaxPrints
  /\ logs \in 0 .. MaxLogLines
  /\ calls \in [Resource -> 0 .. Limit + 1]
  /\ rate_limit_exceeded \in Resource \cup {NoResource}
  /\ isolate \in Nat
  /\ pending \subseteq Run
  /\ home \in [Run -> Nat]
  /\ cancel \in [Run -> BOOLEAN]
  /\ timed_out \in [Run -> BOOLEAN]
  /\ watchdog \in
       [Run -> {"none", "sleeping", "firing", "terminating", "exited"}]
  /\ killers \in [Run -> SUBSET Run]
  /\ hit_heap \in [Run -> BOOLEAN]
  /\ outcome \in [Run -> Outcome]

\* Together they are the type invariant.
LEMMA TypeParts == BooleanTypes /\ OtherTypes => TypeOK
  BY DEF TypeOK, BooleanTypes, OtherTypes

\* The initial values have their types.
LEMMA InitTypes == Init => BooleanTypes /\ OtherTypes
<1> SUFFICES ASSUME Init PROVE BooleanTypes /\ OtherTypes
  OBVIOUS
<1>1. BooleanTypes
  BY DEF Init, BooleanTypes
<1>2. OtherTypes
  BY RuntimeAssumption DEF RuntimeAssumption, Init, OtherTypes, Outcome
<1>3. QED
  BY <1>1, <1>2

\* No step makes another value of a Boolean.
LEMMA NextBooleanTypes == BooleanTypes /\ [Next]_vars => BooleanTypes'
<1> SUFFICES ASSUME BooleanTypes, [Next]_vars PROVE BooleanTypes'
  OBVIOUS
<1> USE DEF BooleanTypes, state, flags
<1>1. CASE Start \/ FailTranspile \/ Finish \/ Recycle
  BY <1>1 DEF Start, FailTranspile, Finish, Recycle
<1>2. CASE WriteLine \/ Return
  BY <1>2 DEF WriteLine, Return, PrintLine
<1>3. CASE Park \/ OpDone \/ End \/ HeapLimit \/ Terminate \/ StoreCancel
  BY <1>3 DEF Park, OpDone, End, HeapLimit, Terminate, StoreCancel
<1>4. ASSUME NEW x \in Resource, CallOp(x) PROVE BooleanTypes'
  BY <1>4 DEF CallOp
<1>5. ASSUME NEW r \in Run, Watchdog(r) PROVE BooleanTypes'
  BY <1>5 DEF Watchdog, WatchdogChecks, WatchdogStores, WatchdogTerminates
<1>6. CASE UNCHANGED vars
  BY <1>6 DEF vars
<1>7. QED
  BY <1>1, <1>2, <1>3, <1>4, <1>5, <1>6 DEF Next

\* No step changes the type of another variable.
LEMMA NextOtherTypes == OtherTypes /\ [Next]_vars => OtherTypes'
<1> SUFFICES ASSUME OtherTypes, [Next]_vars PROVE OtherTypes'
  OBVIOUS
<1> USE RuntimeAssumption DEF RuntimeAssumption, OtherTypes, state, flags
<1>1. CASE Start
  BY <1>1 DEF Start
<1>2. CASE FailTranspile
  BY <1>2 DEF FailTranspile, Rebuild, Outcome
<1>3. CASE WriteLine
  BY <1>3 DEF WriteLine, PrintLine
<1>4. CASE Return
  BY <1>4 DEF Return, PrintLine
<1>5. CASE Park \/ OpDone
  BY <1>5 DEF Park, OpDone
<1>6. CASE End
  BY <1>6 DEF End
<1>7. CASE HeapLimit
  BY <1>7 DEF HeapLimit
<1>8. CASE Terminate
  BY <1>8 DEF Terminate
<1>9. CASE StoreCancel
  BY <1>9 DEF StoreCancel
<1>10. CASE Finish
  <2>1. Verdict \in Outcome
    BY DEF Verdict, Outcome
  <2>2. /\ isolate' \in Nat
        /\ pending' \subseteq Run
    <3>1. CASE Verdict = "Ok"
      BY <1>10, <3>1 DEF Finish
    <3>2. CASE Verdict # "Ok"
      BY <1>10, <3>2 DEF Finish, Rebuild
    <3>3. QED
      BY <3>1, <3>2
  <2>3. outcome' \in [Run -> Outcome]
    BY <1>10, <2>1 DEF Finish
  <2>4. QED
    BY <1>10, <2>2, <2>3 DEF Finish
<1>11. CASE Recycle
  BY <1>11 DEF Recycle, Rebuild
<1>12. ASSUME NEW x \in Resource, CallOp(x) PROVE OtherTypes'
  BY <1>12 DEF CallOp
<1>13. ASSUME NEW r \in Run, Watchdog(r) PROVE OtherTypes'
  BY <1>13 DEF Watchdog, WatchdogChecks, WatchdogStores, WatchdogTerminates
<1>14. CASE UNCHANGED vars
  BY <1>14 DEF vars
<1>15. QED
  BY <1>1, <1>2, <1>3, <1>4, <1>5, <1>6, <1>7, <1>8, <1>9, <1>10, <1>11,
     <1>12, <1>13, <1>14 DEF Next

\* The variables of the runtime keep their types: no more calls are counted
\* than one past a limit, and no more lines kept than the quota.
THEOREM TypeCorrect == Spec => []TypeOK
  BY InitTypes, NextBooleanTypes, NextOtherTypes, TypeParts, PTL DEF Spec

-----------------------------------------------------------------------------
\* Runs are counted from one: those behind are over, those ahead are untouched,
\* and the one in progress is in the isolate that is in the slot.
Progress ==
  /\ \A r \in Run : r < run => outcome[r] # "none"
  /\ pc = "idle" => run = NoRun \/ outcome[run] # "none"
  /\ pc # "idle" => outcome[run] = "none" /\ home[run] = isolate
  /\ \A r \in Run : r > run =>
       /\ outcome[r] = "none" /\ watchdog[r] = "none" /\ killers[r] = {}
       /\ ~hit_heap[r] /\ ~timed_out[r]

\* A run that failed took its isolate with it.
FailuresAreGone ==
  \A r \in Run :
    /\ home[r] <= isolate
    /\ outcome[r] \notin {"none", "Ok"} => home[r] < isolate

\* What the two flags and the heap's say of a run that has set them.
FlagsOfRuns ==
  /\ pc = "cancelled" => cancel[run]
  /\ \A r \in Run :
       /\ outcome[r] = "Ok" => cancel[r]
       /\ watchdog[r] = "terminating" => timed_out[r]
       /\ hit_heap[r] /\ outcome[r] = "none" => oom_detected
  /\ oom_detected /\ pc # "idle" => hit_heap[run]

\* A request is made in the isolate it is for, and for a reason.
RequestsHaveReasons ==
  /\ \A q \in pending : home[q] = isolate /\ (timed_out[q] \/ hit_heap[q])
  /\ \A r \in Run : r \in killers[r] => timed_out[r] \/ hit_heap[r]

\* A script that was terminated goes no further, and one that succeeds has
\* returned and printed its value.
EndsAreEnds ==
  pc # "idle" =>
    /\ killers[run] # {} => pc \in {"ended", "cancelled"} /\ result = "err"
    /\ pc \in {"ended", "cancelled"} /\ result = "ok" => body = "returned"
    /\ ~log_quota_exceeded =>
         logs = printed + (IF body = "returned" THEN 1 ELSE 0)

\* The flags of RunState say what the counters do: a limit is exceeded by the
\* call past it, and a line is only lost when there are more than the quota.
CountsAreKept ==
  LET lines == printed + (IF body = "returned" THEN 1 ELSE 0)
  IN  /\ rate_limit_exceeded # NoResource <=> Denied
      /\ logs <= lines
      /\ log_quota_exceeded => lines > MaxLogLines

\* What the outcomes of the runs that are over say of them.
OutcomesAreTrue ==
  \A r \in Run :
    /\ outcome[r] = "Ok" => killers[r] = {} /\ ~hit_heap[r]
    /\ outcome[r] # "none" /\ hit_heap[r] => outcome[r] = "OutOfMemory"
    /\ outcome[r] = "OutOfMemory" => hit_heap[r]
    /\ outcome[r] = "Timeout" => timed_out[r]
    /\ outcome[r] \notin {"none", "Timeout"} /\ r \in killers[r]
         => outcome[r] = "OutOfMemory"

\* None of the properties is inductive alone: what a run may be reported as
\* rests on what the flags say of it, and who may terminate a script on which
\* isolates are gone.
RuntimeInv ==
  /\ BooleanTypes /\ OtherTypes
  /\ Progress
  /\ FailuresAreGone
  /\ FlagsOfRuns
  /\ RequestsHaveReasons
  /\ EndsAreEnds
  /\ CountsAreKept
  /\ OutcomesAreTrue
  /\ StrayKillIsLateWatchdog

USE RuntimeAssumption DEF RuntimeAssumption

\* Nothing has run yet.
LEMMA InitRuntimeInv == Init => RuntimeInv
<1> SUFFICES ASSUME Init PROVE RuntimeInv
  OBVIOUS
<1>1. Progress /\ FailuresAreGone /\ RequestsHaveReasons /\ EndsAreEnds
  BY DEF Init, Progress, FailuresAreGone, RequestsHaveReasons, EndsAreEnds
<1>2. FlagsOfRuns /\ OutcomesAreTrue /\ StrayKillIsLateWatchdog
  BY DEF Init, FlagsOfRuns, OutcomesAreTrue, StrayKillIsLateWatchdog
<1>3. CountsAreKept
  BY DEF Init, CountsAreKept, Denied
<1>4. QED
  BY <1>1, <1>2, <1>3, InitTypes DEF RuntimeInv

\* Only the ops of the script and the start of a run change the counters.
LEMMA NextCounts ==
  OtherTypes /\ BooleanTypes /\ CountsAreKept /\ [Next]_vars => CountsAreKept'
<1> SUFFICES ASSUME OtherTypes, BooleanTypes, CountsAreKept, [Next]_vars
             PROVE  CountsAreKept'
  OBVIOUS
<1> USE DEF CountsAreKept, Denied, OtherTypes, BooleanTypes
<1>1. CASE Start
  BY <1>1 DEF Start
<1>2. CASE WriteLine
  BY <1>2 DEF WriteLine, PrintLine
<1>3. CASE Return
  BY <1>3 DEF Return, PrintLine
<1>4. ASSUME NEW x \in Resource, CallOp(x) PROVE CountsAreKept'
  <2>1. UNCHANGED <<body, printed, logs, log_quota_exceeded>>
    BY <1>4 DEF CallOp
  <2>2. CASE calls[x] + 1 > Limit
    <3>1. calls'[x] > Limit /\ rate_limit_exceeded' = x
      BY <1>4, <2>2 DEF CallOp
    <3>2. QED
      BY <2>1, <3>1
  <2>3. CASE ~(calls[x] + 1 > Limit)
    <3>1. /\ rate_limit_exceeded' = rate_limit_exceeded
          /\ \A y \in Resource : calls'[y] > Limit <=> calls[y] > Limit
      BY <1>4, <2>3 DEF CallOp
    <3>2. QED
      BY <2>1, <3>1
  <2>4. QED
    BY <2>2, <2>3
<1>5. CASE UNCHANGED <<body, printed, logs, log_quota_exceeded, calls,
                       rate_limit_exceeded>>
  BY <1>5
<1>6. FailTranspile \/ Park \/ OpDone \/ End \/ HeapLimit \/ Terminate
        \/ StoreCancel \/ Finish \/ Recycle \/ (\E r \in Run : Watchdog(r))
        \/ UNCHANGED vars
      => UNCHANGED <<body, printed, logs, log_quota_exceeded, calls,
                     rate_limit_exceeded>>
  BY DEF FailTranspile, Park, OpDone, End, HeapLimit, Terminate, StoreCancel,
     Finish, Recycle, Watchdog, WatchdogChecks, WatchdogStores,
     WatchdogTerminates, vars, state
<1>7. QED
  BY <1>1, <1>2, <1>3, <1>4, <1>5, <1>6 DEF Next

\* What the flags of a run that ended say of it, when they are read.
FlagsAreTrue ==
  pc = "cancelled" =>
    /\ timed_out[run] => Verdict \in {"Timeout", "OutOfMemory"}
    /\ Verdict = "Ok" => logs = printed + 1
    /\ Verdict = "QuotaExceeded" => killers[run] = {} /\ printed + 1 > MaxLogLines
    /\ Verdict = "RateLimitExceeded" => Denied
    /\ Verdict = "Runtime" => ~Denied
    /\ Verdict \in {"RateLimitExceeded", "Runtime"} => run \notin killers[run]

\* VerdictFaithful is the two of them.
LEMMA VerdictParts == VerdictFaithful <=> OutcomesAreTrue /\ FlagsAreTrue
  BY DEF VerdictFaithful, OutcomesAreTrue, FlagsAreTrue

\* The flags follow from the rest of the invariant.
LEMMA FlagsFollow ==
  ASSUME OtherTypes, BooleanTypes, Progress, FlagsOfRuns,
         RequestsHaveReasons, EndsAreEnds, CountsAreKept
  PROVE  FlagsAreTrue
<1> SUFFICES ASSUME pc = "cancelled" PROVE FlagsAreTrue
  BY DEF FlagsAreTrue
<1> USE DEF OtherTypes, BooleanTypes
<1>1. run \in Run
  OBVIOUS
<1>2. timed_out[run] => Verdict \in {"Timeout", "OutOfMemory"}
  BY DEF Verdict
<1>3. Verdict \in {"Ok", "QuotaExceeded"} =>
        result = "ok" /\ (log_quota_exceeded <=> Verdict = "QuotaExceeded")
  BY DEF Verdict
<1>4. result = "ok" => killers[run] = {} /\ body = "returned"
  BY DEF EndsAreEnds
<1>5. Verdict = "Ok" => logs = printed + 1
  BY <1>3, <1>4 DEF EndsAreEnds
<1>6. Verdict = "QuotaExceeded" => killers[run] = {} /\ printed + 1 > MaxLogLines
  BY <1>3, <1>4 DEF CountsAreKept
<1>7. /\ Verdict = "RateLimitExceeded" => Denied
      /\ Verdict = "Runtime" => ~Denied
  BY DEF Verdict, CountsAreKept
<1>8. Verdict \in {"RateLimitExceeded", "Runtime"} =>
        ~oom_detected /\ ~timed_out[run]
  BY DEF Verdict
<1>9. run \in killers[run] => timed_out[run] \/ hit_heap[run]
  BY <1>1 DEF RequestsHaveReasons
<1>10. hit_heap[run] => oom_detected
  BY <1>1 DEF Progress, FlagsOfRuns
<1>11. QED
  BY <1>2, <1>5, <1>6, <1>7, <1>8, <1>9, <1>10 DEF FlagsAreTrue

\* Every step keeps the invariant.
LEMMA NextRuntimeInv == RuntimeInv /\ [Next]_vars => RuntimeInv'
<1> SUFFICES ASSUME RuntimeInv, [Next]_vars PROVE RuntimeInv'
  OBVIOUS
<1> USE DEF state, flags
<1>1. BooleanTypes' /\ OtherTypes'
  BY NextBooleanTypes, NextOtherTypes DEF RuntimeInv
<1>2. CountsAreKept'
  BY NextCounts DEF RuntimeInv
<1> USE DEF RuntimeInv
<1>3. CASE Start
  <2>1. Progress' /\ FailuresAreGone'
    BY <1>3 DEF OtherTypes, Start, Progress, FailuresAreGone
  <2>2. FlagsOfRuns'
    BY <1>3 DEF OtherTypes, Start, Progress, FlagsOfRuns
  <2>3. RequestsHaveReasons' /\ EndsAreEnds'
    BY <1>3 DEF OtherTypes, Start, Progress, RequestsHaveReasons, EndsAreEnds
  <2>4. OutcomesAreTrue' /\ StrayKillIsLateWatchdog'
    BY <1>3 DEF OtherTypes, Start, Progress, OutcomesAreTrue,
       StrayKillIsLateWatchdog
  <2>5. QED
    BY <1>1, <1>2, <2>1, <2>2, <2>3, <2>4
<1>4. CASE FailTranspile
  <2>1. Progress' /\ FailuresAreGone'
    BY <1>4 DEF OtherTypes, FailTranspile, Rebuild, Progress, FailuresAreGone
  <2>2. FlagsOfRuns'
    BY <1>4 DEF OtherTypes, FailTranspile, Progress, FlagsOfRuns
  <2>3. RequestsHaveReasons' /\ EndsAreEnds'
    BY <1>4 DEF OtherTypes, FailTranspile, Rebuild, Progress,
       RequestsHaveReasons, EndsAreEnds
  <2>4. OutcomesAreTrue' /\ StrayKillIsLateWatchdog'
    BY <1>4 DEF OtherTypes, FailTranspile, Progress, OutcomesAreTrue,
       StrayKillIsLateWatchdog
  <2>5. QED
    BY <1>1, <1>2, <2>1, <2>2, <2>3, <2>4
<1>5. ASSUME WriteLine \/ Return
      PROVE  RuntimeInv'
  <2>1. Progress' /\ FailuresAreGone' /\ FlagsOfRuns' /\ RequestsHaveReasons'
    BY <1>5 DEF WriteLine, Return, Progress, FailuresAreGone, FlagsOfRuns,
       RequestsHaveReasons
  <2>2. EndsAreEnds'
    BY <1>5 DEF OtherTypes, WriteLine, Return, PrintLine, EndsAreEnds
  <2>3. OutcomesAreTrue' /\ StrayKillIsLateWatchdog'
    BY <1>5 DEF WriteLine, Return, OutcomesAreTrue, StrayKillIsLateWatchdog
  <2>4. QED
    BY <1>1, <1>2, <2>1, <2>2, <2>3
<1>6. ASSUME Park \/ OpDone \/ End \/ \E x \in Resource : CallOp(x)
      PROVE RuntimeInv'
  <2>1. Progress' /\ FailuresAreGone' /\ FlagsOfRuns' /\ RequestsHaveReasons'
    BY <1>6 DEF Park, OpDone, End, CallOp, Progress, FailuresAreGone,
       FlagsOfRuns, RequestsHaveReasons
  <2>2. EndsAreEnds'
    BY <1>6 DEF OtherTypes, Park, OpDone, End, CallOp, EndsAreEnds
  <2>3. OutcomesAreTrue' /\ StrayKillIsLateWatchdog'
    BY <1>6 DEF Park, OpDone, End, CallOp, OutcomesAreTrue,
       StrayKillIsLateWatchdog
  <2>4. QED
    BY <1>1, <1>2, <2>1, <2>2, <2>3
<1>7. CASE HeapLimit
  <2>1. Progress' /\ FailuresAreGone' /\ FlagsOfRuns'
    BY <1>7 DEF OtherTypes, HeapLimit, Progress, FailuresAreGone, FlagsOfRuns
  <2>2. RequestsHaveReasons' /\ EndsAreEnds'
    BY <1>7 DEF OtherTypes, HeapLimit, Progress, RequestsHaveReasons,
       EndsAreEnds
  <2>3. OutcomesAreTrue' /\ StrayKillIsLateWatchdog'
    BY <1>7 DEF OtherTypes, HeapLimit, Progress, OutcomesAreTrue,
       StrayKillIsLateWatchdog
  <2>4. QED
    BY <1>1, <1>2, <2>1, <2>2, <2>3
<1>8. CASE Terminate
  <2>1. Progress' /\ FailuresAreGone' /\ FlagsOfRuns'
    BY <1>8 DEF OtherTypes, Terminate, Progress, FailuresAreGone, FlagsOfRuns
  <2>2. RequestsHaveReasons' /\ EndsAreEnds'
    BY <1>8 DEF OtherTypes, Terminate, RequestsHaveReasons, EndsAreEnds
  <2>3. OutcomesAreTrue'
    BY <1>8 DEF OtherTypes, Terminate, Progress, OutcomesAreTrue
  <2>4. \A q \in pending \ {run} :
          /\ q < run /\ home[q] = home[run]
          /\ outcome[q] = "Ok" /\ cancel[q] /\ timed_out[q]
    BY <1>8 DEF OtherTypes, Terminate, Progress, FailuresAreGone, FlagsOfRuns,
       RequestsHaveReasons, OutcomesAreTrue
  <2>5. StrayKillIsLateWatchdog'
    BY <1>8, <2>4 DEF OtherTypes, Terminate, StrayKillIsLateWatchdog
  <2>6. QED
    BY <1>1, <1>2, <2>1, <2>2, <2>3, <2>5
<1>9. CASE StoreCancel
  <2>1. Progress' /\ FailuresAreGone' /\ FlagsOfRuns' /\ RequestsHaveReasons'
    BY <1>9 DEF OtherTypes, StoreCancel, Progress, FailuresAreGone,
       FlagsOfRuns, RequestsHaveReasons
  <2>2. EndsAreEnds' /\ StrayKillIsLateWatchdog'
    BY <1>9 DEF OtherTypes, StoreCancel, EndsAreEnds, StrayKillIsLateWatchdog
  <2>3. OutcomesAreTrue'
    BY <1>9, <2>2 DEF OtherTypes, StoreCancel, EndsAreEnds, OutcomesAreTrue
  <2>4. QED
    BY <1>1, <1>2, <2>1, <2>2, <2>3
<1>10. CASE Finish
  <2>1. /\ run \in Run /\ pc = "cancelled" /\ pc' = "idle"
        /\ outcome' = [outcome EXCEPT ![run] = Verdict]
        /\ UNCHANGED <<run, home, cancel, timed_out, watchdog, killers>>
        /\ UNCHANGED hit_heap
        /\ UNCHANGED oom_detected
    BY <1>10 DEF Finish, OtherTypes
  <2>2. Verdict # "none"
    BY DEF Verdict
  <2>3. /\ isolate' \in {isolate, isolate + 1}
        /\ Verdict = "Ok" => UNCHANGED <<isolate, pending>>
        /\ Verdict # "Ok" => isolate' = isolate + 1 /\ pending' = {}
    BY <1>10 DEF Finish, Rebuild
  <2>4. Progress'
    BY <2>1, <2>2 DEF OtherTypes, Progress
  <2>5. FailuresAreGone'
    BY <2>1, <2>3 DEF OtherTypes, FailuresAreGone
  <2>6. FlagsOfRuns'
    BY <2>1, <2>2 DEF OtherTypes, Progress, FlagsOfRuns
  <2>7. RequestsHaveReasons' /\ EndsAreEnds'
    BY <2>1, <2>3 DEF OtherTypes, RequestsHaveReasons, EndsAreEnds
  <2>8. OutcomesAreTrue'
    <3>1. /\ Verdict = "Ok" => killers[run] = {} /\ ~hit_heap[run]
          /\ hit_heap[run] <=> Verdict = "OutOfMemory"
          /\ Verdict = "Timeout" => timed_out[run]
          /\ Verdict # "Timeout" /\ run \in killers[run]
               => Verdict = "OutOfMemory"
      BY <2>1 DEF Verdict, OtherTypes, Progress, FlagsOfRuns,
       RequestsHaveReasons, EndsAreEnds
    <3>2. QED
      BY <2>1, <3>1 DEF OtherTypes, OutcomesAreTrue
  <2>9. StrayKillIsLateWatchdog'
    BY <2>1 DEF OtherTypes, Progress, StrayKillIsLateWatchdog
  <2>10. QED
    BY <1>1, <1>2, <2>4, <2>5, <2>6, <2>7, <2>8, <2>9
<1>11. CASE Recycle
  <2>1. Progress' /\ FailuresAreGone' /\ FlagsOfRuns'
    BY <1>11 DEF OtherTypes, Recycle, Rebuild, Progress, FailuresAreGone,
       FlagsOfRuns
  <2>2. RequestsHaveReasons' /\ EndsAreEnds'
    BY <1>11 DEF OtherTypes, Recycle, Rebuild, RequestsHaveReasons, EndsAreEnds
  <2>3. OutcomesAreTrue' /\ StrayKillIsLateWatchdog'
    BY <1>11 DEF Recycle, OutcomesAreTrue, StrayKillIsLateWatchdog
  <2>4. QED
    BY <1>1, <1>2, <2>1, <2>2, <2>3
<1>12. ASSUME NEW r \in Run, Watchdog(r) PROVE RuntimeInv'
  <2>1. UNCHANGED <<run, pc, state, oom_detected, isolate, home, cancel,
                    killers, hit_heap, outcome>>
    BY <1>12 DEF Watchdog, WatchdogChecks, WatchdogStores, WatchdogTerminates
  <2>2. watchdog[r] \in {"sleeping", "firing", "terminating"}
    BY <1>12 DEF Watchdog, WatchdogChecks, WatchdogStores, WatchdogTerminates
  <2>3. /\ watchdog' = [watchdog EXCEPT ![r] = watchdog'[r]]
        /\ watchdog'[r] = "terminating" => timed_out'[r]
        /\ timed_out' \in {timed_out, [timed_out EXCEPT ![r] = TRUE]}
    <3>1. CASE WatchdogChecks(r)
      BY <3>1 DEF WatchdogChecks, OtherTypes
    <3>2. CASE WatchdogStores(r)
      BY <3>2 DEF WatchdogStores, OtherTypes
    <3>3. CASE WatchdogTerminates(r)
      BY <3>3 DEF WatchdogTerminates, OtherTypes
    <3>4. QED
      BY <1>12, <3>1, <3>2, <3>3 DEF Watchdog
  <2>4. \/ pending' = pending
        \/ /\ pending' = pending \cup {r}
           /\ home[r] = isolate /\ timed_out[r]
    BY <1>12 DEF Watchdog, WatchdogChecks, WatchdogStores, WatchdogTerminates,
       FlagsOfRuns
  <2>5. \A q \in Run : /\ timed_out[q] => timed_out'[q]
                       /\ q # r => /\ watchdog'[q] = watchdog[q]
                                   /\ timed_out'[q] = timed_out[q]
    BY <2>3 DEF OtherTypes
  <2>6. Progress' /\ FailuresAreGone'
    BY <2>1, <2>2, <2>5 DEF Progress, FailuresAreGone
  <2>7. FlagsOfRuns'
    BY <2>1, <2>3, <2>5 DEF FlagsOfRuns
  <2>8. RequestsHaveReasons' /\ EndsAreEnds'
    BY <2>1, <2>4, <2>5 DEF OtherTypes, RequestsHaveReasons, EndsAreEnds
  <2>9. StrayKillIsLateWatchdog' /\ OutcomesAreTrue'
    BY <2>1, <2>5 DEF OtherTypes, StrayKillIsLateWatchdog, OutcomesAreTrue
  <2>10. QED
    BY <1>1, <1>2, <2>6, <2>7, <2>8, <2>9
<1>13. CASE UNCHANGED vars
  <2> USE <1>13 DEF vars
  <2>1. Progress' /\ FailuresAreGone' /\ FlagsOfRuns' /\ RequestsHaveReasons'
    BY DEF Progress, FailuresAreGone, FlagsOfRuns, RequestsHaveReasons
  <2>2. EndsAreEnds' /\ OutcomesAreTrue' /\ StrayKillIsLateWatchdog'
    BY DEF EndsAreEnds, OutcomesAreTrue, StrayKillIsLateWatchdog
  <2>3. QED
    BY <1>1, <1>2, <2>1, <2>2
<1>14. QED
  BY <1>3, <1>4, <1>5, <1>6, <1>7, <1>8, <1>9, <1>10, <1>11, <1>12,
       <1>13 DEF Next

\* RuntimeInv holds in every reachable state.
LEMMA RuntimeInvHolds == Spec => []RuntimeInv
  BY InitRuntimeInv, NextRuntimeInv, PTL DEF Spec

\* For any number of runs in a slot: a script that was terminated, ran out of
\* heap or outlived its deadline before the flags were read is never reported
\* as a success.  Out of memory, a timeout, the quota and a rate limit are
\* reported only if the heap limit was hit, the run's own watchdog fired, a
\* line was lost or an op was denied; Runtime only if none of the first, second
\* and last happened, and a success lost no line.  A script terminated on behalf
\* of an earlier run only is not told from one that died of itself.
THEOREM VerdictsAreFaithful == Spec => []VerdictFaithful
<1>1. RuntimeInv => VerdictFaithful
  BY FlagsFollow, VerdictParts DEF RuntimeInv
<1>2. QED
  BY <1>1, RuntimeInvHolds, PTL

\* For any number of runs in a slot: who terminates another's script is the
\* watchdog of an earlier success in the same isolate.
THEOREM StrayKillsAreLate == Spec => []StrayKillIsLateWatchdog
<1>1. RuntimeInv => StrayKillIsLateWatchdog
  BY DEF RuntimeInv
<1>2. QED
  BY <1>1, RuntimeInvHolds, PTL

-----------------------------------------------------------------------------
\* A trusted runtime has no watchdog, and nothing ever times out in it.
Unwatched ==
  Trusted => \A r \in Run : watchdog[r] = "none" /\ ~timed_out[r]

\* So scripts that are trusted never terminate each other.
THEOREM TrustedRunsAreAlone == Spec => [](Trusted => NoStrayKill)
<1>1. Init => Unwatched
  BY DEF Init, Unwatched
<1>2. OtherTypes /\ Unwatched /\ [Next]_vars => Unwatched'
  <2> SUFFICES ASSUME OtherTypes, Unwatched, Trusted, [Next]_vars
               PROVE  \A r \in Run : watchdog'[r] = "none" /\ ~timed_out'[r]
    BY DEF Unwatched
  <2> USE DEF Unwatched, state, flags
  <2>1. CASE Start
    BY <2>1 DEF Start, OtherTypes
  <2>2. ASSUME NEW r \in Run, Watchdog(r) PROVE FALSE
    BY <2>2 DEF Watchdog, WatchdogChecks, WatchdogStores, WatchdogTerminates
  <2>3. CASE UNCHANGED <<watchdog, timed_out>>
    BY <2>3
  <2>4. FailTranspile \/ WriteLine \/ Return \/ Park \/ OpDone \/ End
          \/ HeapLimit \/ Terminate \/ StoreCancel \/ Finish \/ Recycle
          \/ (\E x \in Resource : CallOp(x)) \/ UNCHANGED vars
        => UNCHANGED <<watchdog, timed_out>>
    BY DEF FailTranspile, WriteLine, Return, Park, OpDone, End, HeapLimit,
       Terminate, StoreCancel, Finish, Recycle, CallOp, vars
  <2>5. QED
    BY <2>1, <2>2, <2>3, <2>4 DEF Next
<1>3. RuntimeInv /\ Unwatched => (Trusted => NoStrayKill)
  BY DEF RuntimeInv, OtherTypes, StrayKillIsLateWatchdog, Unwatched,
       NoStrayKill
<1>4. RuntimeInv => OtherTypes
  BY DEF RuntimeInv
<1>5. QED
  BY <1>1, <1>2, <1>3, <1>4, RuntimeInvHolds, PTL DEF Spec
=============================================================================
