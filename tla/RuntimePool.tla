----------------------------- MODULE RuntimePool -----------------------------
(***************************************************************************)
(* The warm pool of script runtimes: RuntimePool in                        *)
(* crate/hello_sandbox/src/pool.rs.                                        *)
(*                                                                         *)
(* Everything runs on one thread, on a tokio LocalSet; a step of the model *)
(* is the code between two await points.  try_checkout and checkin contain *)
(* none, so each is one step together with the code around it.  A task is  *)
(* a caller that has at most one run() in progress.  A script run is left  *)
(* abstract: it ends with Ok or Err (SharedRuntime models what happens     *)
(* inside it).  Time is abstract too: an idle slot may at any moment have  *)
(* been idle for longer than max_idle_duration.                            *)
(***************************************************************************)
EXTENDS Integers, FiniteSets

CONSTANTS Task,       \* the callers
          PoolSize,   \* pool_config.pool_size
          MaxRuns,    \* pool_config.max_runs_per_slot
          MaxCalls,   \* bound: run() calls made by one task
          MaxGen,     \* bound: register_user_module() calls
          Free, Lost  \* owners of a slot in the abstract specification

ASSUME PoolAssumption ==
  /\ PoolSize \in Nat
  /\ MaxRuns \in Nat
  /\ MaxCalls \in Nat
  /\ MaxGen \in Nat
  /\ Free \notin Task /\ Lost \notin Task /\ Free # Lost

VARIABLES fallback,    \* pool_config.fallback_to_isolated
          droppable,   \* may callers drop the future of a run in progress?
          slots,       \* slots[i] : the variant of enum Slot
          parked,      \* parked[i] : the runtime held by an idle slot
          expired,     \* expired[i] : the idle slot passed max_idle_duration
          pc,          \* pc[t] : where the task's run() stands
          at,          \* at[t] : the slot the task's runtime came from
          held,        \* held[t] : the runtime the task's future owns
          calls,       \* calls[t] : run() calls made so far
          total_runs,  \* PoolInner::total_runs
          loader       \* generation of loader_builder (one per registration)

config == <<fallback, droppable>>
vars == <<config, slots, parked, expired, pc, at, held, calls, total_runs, loader>>

SlotId == 0 .. PoolSize - 1
NoSlot == -1

\* A SharedRuntime: scripts it has started (run_counter), the loader it was
\* built with, and whether every script it has run so far succeeded.
Runtime == [runs : Nat, gen : Nat, clean : BOOLEAN]

\* SharedRuntime::new with the pool's current loader.
Fresh == [runs |-> 0, gen |-> loader, clean |-> TRUE]

\* SharedRuntime::run counts the script before anything else.
Counted(rt) == [rt EXCEPT !.runs = @ + 1]

\* Stands for "no runtime here".
Vacant == [runs |-> 0, gen |-> 0, clean |-> TRUE]

\* Every configuration, and every kind of caller, is a behaviour.
Init ==
  /\ fallback \in BOOLEAN /\ droppable \in BOOLEAN
  /\ slots = [i \in SlotId |-> "Idle"]
  /\ loader = 0
  /\ parked = [i \in SlotId |-> Fresh]
  /\ expired = [i \in SlotId |-> FALSE]
  /\ pc = [t \in Task |-> "ready"]
  /\ at = [t \in Task |-> NoSlot]
  /\ held = [t \in Task |-> Vacant]
  /\ calls = [t \in Task |-> 0]
  /\ total_runs = 0

-----------------------------------------------------------------------------
\* A plausible bug: every slot that is not idle is recycled.
NeedsRecycleBusy(i) == slots[i] # "Idle" \/ expired[i]

\* try_checkout, pass 1: the slots whose runtime is dropped and rebuilt.
NeedsRecycle(i) ==
  \/ slots[i] = "Stale"
  \/ slots[i] = "Idle" /\ expired[i]

\* Pass 2 leaves every recycled slot idle, so these are idle before pass 3.
Available == {i \in SlotId : slots[i] = "Idle" \/ NeedsRecycle(i)}

\* The runtime found in an available slot after pass 2.
Offered(i) == IF NeedsRecycle(i) THEN Fresh ELSE parked[i]

\* A successful try_checkout: all three passes, then runtime.run() starts in
\* the same poll and counts the run.
Checkout(t) ==
  \E i \in Available :
    /\ \A j \in Available : i <= j
    /\ slots' = [j \in SlotId |->
                   IF j = i THEN "CheckedOut"
                   ELSE IF NeedsRecycle(j) THEN "Idle" ELSE slots[j]]
    /\ parked' = [j \in SlotId |->
                   IF j = i THEN Vacant
                   ELSE IF NeedsRecycle(j) THEN Fresh ELSE parked[j]]
    /\ expired' = [j \in SlotId |-> FALSE]
    /\ pc' = [pc EXCEPT ![t] = "warm"]
    /\ at' = [at EXCEPT ![t] = i]
    /\ held' = [held EXCEPT ![t] = Counted(Offered(i))]

\* execute_isolated up to its await.
StartIsolated(t) ==
  /\ pc' = [pc EXCEPT ![t] = "isolated"]
  /\ held' = [held EXCEPT ![t] = Counted(Fresh)]
  /\ UNCHANGED <<slots, parked, expired, at>>

\* The first pass through the yield loop found every slot checked out.
StartWaiting(t) ==
  /\ pc' = [pc EXCEPT ![t] = "waiting"]
  /\ UNCHANGED <<slots, parked, expired, at, held>>

\* A plausible bug: with fallback on, no warm slot is looked for first.
CallIsolatedFirst(t) ==
  /\ pc[t] = "ready"
  /\ calls[t] < MaxCalls
  /\ calls' = [calls EXCEPT ![t] = @ + 1]
  /\ \/ Checkout(t)
     \/ (PoolSize = 0 \/ fallback) /\ StartIsolated(t)
     \/ Available = {} /\ PoolSize # 0 /\ ~fallback /\ StartWaiting(t)
  /\ UNCHANGED <<config, total_runs, loader>>

\* run(): execute_run up to its first await.
Call(t) ==
  /\ pc[t] = "ready"
  /\ calls[t] < MaxCalls
  /\ calls' = [calls EXCEPT ![t] = @ + 1]
  /\ \/ Checkout(t)
     \/ Available = {} /\ (PoolSize = 0 \/ fallback) /\ StartIsolated(t)
     \/ Available = {} /\ PoolSize # 0 /\ ~fallback /\ StartWaiting(t)
  /\ UNCHANGED <<config, total_runs, loader>>

\* Another pass through the yield loop, once a slot can be had.
Poll(t) ==
  /\ pc[t] = "waiting"
  /\ Checkout(t)
  /\ UNCHANGED <<config, calls, total_runs, loader>>

\* The task's future is done with its runtime.
Leave(t) ==
  /\ pc' = [pc EXCEPT ![t] = "ready"]
  /\ at' = [at EXCEPT ![t] = NoSlot]
  /\ held' = [held EXCEPT ![t] = Vacant]

\* Plausible bugs: checkin looks at the run count alone, or it is skipped when
\* the script failed.
CheckinWith(t, failed, keep, after) ==
  LET i == at[t]
  IN /\ pc[t] = "warm"
     /\ slots' = [slots EXCEPT ![i] = IF keep THEN "Idle" ELSE after]
     /\ parked' = [parked EXCEPT ![i] =
                     IF keep THEN [held[t] EXCEPT !.clean = ~failed] ELSE Vacant]
     /\ expired' = [expired EXCEPT ![i] = FALSE]
     /\ total_runs' = total_runs + 1
     /\ Leave(t)
     /\ UNCHANGED <<config, calls, loader>>

CheckinIgnoringError(t, failed) ==
  CheckinWith(t, failed, held[t].runs < MaxRuns, "Stale")

CheckinOnlySuccess(t, failed) ==
  CheckinWith(t, failed, ~failed /\ held[t].runs < MaxRuns, "CheckedOut")

\* The script ended in a pooled runtime: checkin, then the result is returned.
Checkin(t, failed) ==
  LET i == at[t]
      keep == ~failed /\ held[t].runs < MaxRuns
  IN /\ pc[t] = "warm"
     /\ slots' = [slots EXCEPT ![i] = IF keep THEN "Idle" ELSE "Stale"]
     /\ parked' = [parked EXCEPT ![i] =
                     IF keep THEN [held[t] EXCEPT !.clean = ~failed] ELSE Vacant]
     /\ expired' = [expired EXCEPT ![i] = FALSE]
     /\ total_runs' = total_runs + 1
     /\ Leave(t)
     /\ UNCHANGED <<config, calls, loader>>

\* The script ended in an isolated runtime, which is dropped.
EndIsolated(t) ==
  /\ pc[t] = "isolated"
  /\ total_runs' = total_runs + 1
  /\ Leave(t)
  /\ UNCHANGED <<config, slots, parked, expired, calls, loader>>

\* The caller drops the future at an await point.  The runtime goes with it;
\* nothing in the code gives the slot back.
Drop(t) ==
  /\ droppable
  /\ pc[t] # "ready"
  /\ Leave(t)
  /\ UNCHANGED <<config, slots, parked, expired, calls, total_runs, loader>>

\* A plausible bug: the idle slots keep the loader they were built with.
RegisterKeepingSlots ==
  /\ \A t \in Task : pc[t] = "ready"
  /\ loader < MaxGen
  /\ loader' = loader + 1
  /\ UNCHANGED <<config, slots, parked, expired, pc, at, held, calls, total_runs>>

\* register_user_module.  It takes &mut self, so no run() borrows the pool.
Register ==
  /\ \A t \in Task : pc[t] = "ready"
  /\ loader < MaxGen
  /\ loader' = loader + 1
  /\ slots' = [i \in SlotId |-> IF slots[i] = "Idle" THEN "Stale" ELSE slots[i]]
  /\ parked' = [i \in SlotId |-> Vacant]
  /\ expired' = [i \in SlotId |-> FALSE]
  /\ UNCHANGED <<config, pc, at, held, calls, total_runs>>

\* Time passes: an idle slot exceeds max_idle_duration.
Expire(i) ==
  /\ slots[i] = "Idle"
  /\ ~expired[i]
  /\ expired' = [expired EXCEPT ![i] = TRUE]
  /\ UNCHANGED <<config, slots, parked, pc, at, held, calls, total_runs, loader>>

Next ==
  \/ \E t \in Task :
       \/ Call(t)
       \/ Poll(t)
       \/ \E failed \in BOOLEAN : Checkin(t, failed)
       \/ EndIsolated(t)
       \/ Drop(t)
  \/ Register
  \/ \E i \in SlotId : Expire(i)

\* The LocalSet polls every woken task, and a script ends (its watchdog ends
\* it if need be); callers, registration and time are the environment.
Fairness ==
  \A t \in Task :
    /\ WF_vars(Poll(t))
    /\ WF_vars(\E failed \in BOOLEAN : Checkin(t, failed))
    /\ WF_vars(EndIsolated(t))

Spec == Init /\ [][Next]_vars

FairSpec == Spec /\ Fairness

-----------------------------------------------------------------------------
\* The variables keep their types; a task has a slot exactly while it runs in
\* a pooled runtime, and only an idle slot holds a runtime or can expire.
TypeOK ==
  /\ fallback \in BOOLEAN /\ droppable \in BOOLEAN
  /\ slots \in [SlotId -> {"Idle", "CheckedOut", "Stale"}]
  /\ parked \in [SlotId -> Runtime]
  /\ expired \in [SlotId -> BOOLEAN]
  /\ pc \in [Task -> {"ready", "waiting", "warm", "isolated"}]
  /\ at \in [Task -> SlotId \cup {NoSlot}]
  /\ held \in [Task -> Runtime]
  /\ calls \in [Task -> Nat]
  /\ total_runs \in Nat
  /\ loader \in Nat
  /\ \A t \in Task : pc[t] = "warm" <=> at[t] # NoSlot
  /\ \A i \in SlotId : expired[i] => slots[i] = "Idle"

\* A runtime is never shared: two tasks never run in the same slot, and the
\* slot of a running task is neither idle nor stale, so no other task's
\* checkout can take, rebuild or expire it under the running script.
ExclusiveSlots ==
  /\ \A t \in Task : pc[t] = "warm" => slots[at[t]] = "CheckedOut"
  /\ \A t, u \in Task :
       pc[t] = "warm" /\ pc[u] = "warm" /\ at[t] = at[u] => t = u

\* No script runs in a runtime in which an earlier script failed: the pool's
\* promise that an error cannot leak module state into a later run.
NoReuseAfterError ==
  /\ \A i \in SlotId : slots[i] = "Idle" => parked[i].clean
  /\ \A t \in Task : pc[t] \in {"warm", "isolated"} => held[t].clean

\* A runtime serves at most max_runs_per_slot scripts (and one if the limit
\* is zero, because a slot just rebuilt is handed out before it is counted):
\* an idle one has a run left, a running one has not gone past the limit.
RunsBounded ==
  /\ \A i \in SlotId :
       slots[i] = "Idle" => parked[i].runs < MaxRuns \/ parked[i].runs = 0
  /\ \A t \in Task : held[t].runs <= MaxRuns \/ held[t].runs <= 1

\* A script always sees every module registered before it started: idle slots
\* and running scripts have the loader of the last registration.
LoaderCurrent ==
  /\ \A i \in SlotId : slots[i] = "Idle" => parked[i].gen = loader
  /\ \A t \in Task : pc[t] \in {"warm", "isolated"} => held[t].gen = loader

\* PoolStats::checked_out counts slots "currently executing a script": every
\* checked-out slot is some task's, so that a check-in will give it back.
CheckedOutIsExecuting ==
  \A i \in SlotId :
    slots[i] = "CheckedOut" => \E t \in Task : pc[t] = "warm" /\ at[t] = i

\* Unless a caller drops the future of a run, no slot is ever lost: neither
\* a failing script, nor a registration, nor the way slots are recycled leaves
\* one checked out with nobody in it.
LostOnlyByDrop == ~droppable => CheckedOutIsExecuting

\* A call that started ends, the ones that wait for a slot included, unless
\* callers drop runs (and slots with them).
EveryCallReturns ==
  \A t \in Task : ~droppable /\ pc[t] # "ready" ~> pc[t] = "ready"

\* The pool implements the lease: owner and private are read off its state.
OwnerOf(i) ==
  IF \E t \in Task : at[t] = i THEN CHOOSE t \in Task : at[t] = i
  ELSE IF slots[i] = "CheckedOut" THEN Lost ELSE Free

Lease == INSTANCE SlotLease
           WITH Slot <- SlotId,
                owner <- [i \in SlotId |-> OwnerOf(i)],
                private <- {t \in Task : pc[t] = "isolated"}

\* Every behaviour of the pool is one of the abstract lease.
ImplementsLease == Lease!Spec
=============================================================================
