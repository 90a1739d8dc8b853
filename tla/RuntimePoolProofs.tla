-------------------------- MODULE RuntimePoolProofs --------------------------
(***************************************************************************)
(* Theorems about RuntimePool, for every set of tasks, every pool size,    *)
(* run limit and configuration.                                            *)
(***************************************************************************)
EXTENDS RuntimePool, TLAPS

USE DEF SlotId, NoSlot

\* A runtime that has just been built, or none at all, has the right type,
\* and so has the runtime of any slot once a script is counted in it.
LEMMA RuntimeTypes ==
  ASSUME TypeOK
  PROVE  /\ Fresh \in Runtime
         /\ Vacant \in Runtime
         /\ \A rt \in Runtime : Counted(rt) \in Runtime
         /\ \A i \in SlotId : Offered(i) \in Runtime
<1>1. Fresh \in Runtime /\ Vacant \in Runtime
  BY DEF TypeOK, Fresh, Vacant, Runtime
<1>2. \A rt \in Runtime : Counted(rt) \in Runtime
  BY DEF Counted, Runtime
<1>3. \A i \in SlotId : Offered(i) \in Runtime
  BY <1>1 DEF TypeOK, Offered
<1>4. QED
  BY <1>1, <1>2, <1>3

\* Initially every slot is idle with a fresh runtime and no task runs.
LEMMA InitTypeOK == Init => TypeOK
  BY PoolAssumption DEF Init, TypeOK, Fresh, Vacant, Runtime

\* A step that keeps the configuration keeps its types.
LEMMA ConfigTypes ==
  ASSUME TypeOK, UNCHANGED config
  PROVE  fallback' \in BOOLEAN /\ droppable' \in BOOLEAN
  BY DEF TypeOK, config

\* A successful try_checkout keeps the types and gives the task a slot.
LEMMA CheckoutTypeOK ==
  ASSUME TypeOK, NEW t \in Task, pc[t] \in {"ready", "waiting"}, Checkout(t),
         calls' \in [Task -> Nat], UNCHANGED <<config, total_runs, loader>>
  PROVE  TypeOK'
<1>1. PICK i \in Available :
        /\ slots' = [j \in SlotId |->
                       IF j = i THEN "CheckedOut"
                       ELSE IF NeedsRecycle(j) THEN "Idle" ELSE slots[j]]
        /\ parked' = [j \in SlotId |->
                       IF j = i THEN Vacant
                       ELSE IF NeedsRecycle(j) THEN Fresh ELSE parked[j]]
        /\ expired' = [j \in SlotId |-> FALSE]
        /\ pc' = [pc EXCEPT ![t] = "warm"]
        /\ at' = [at EXCEPT ![t] = i]
        /\ held' = [held EXCEPT ![t] = Counted(Offered(i))]
  BY DEF Checkout
<1>2. i \in SlotId
  BY DEF Available
<1>3. slots' \in [SlotId -> {"Idle", "CheckedOut", "Stale"}]
  BY <1>1 DEF TypeOK
<1>4. parked' \in [SlotId -> Runtime]
  BY <1>1, RuntimeTypes DEF TypeOK
<1>5. held' \in [Task -> Runtime]
  BY <1>1, <1>2, RuntimeTypes DEF TypeOK
<1>6. /\ pc' \in [Task -> {"ready", "waiting", "warm", "isolated"}]
      /\ at' \in [Task -> SlotId \cup {NoSlot}]
      /\ \A u \in Task : pc'[u] = "warm" <=> at'[u] # NoSlot
  BY <1>1, <1>2, PoolAssumption DEF TypeOK
<1>7. QED
  BY <1>1, <1>3, <1>4, <1>5, <1>6, ConfigTypes DEF TypeOK

\* A task that leaves gives up its runtime and its slot together.
LEMMA LeaveTypeOK ==
  ASSUME TypeOK, NEW t \in Task, Leave(t)
  PROVE  /\ pc' \in [Task -> {"ready", "waiting", "warm", "isolated"}]
         /\ at' \in [Task -> SlotId \cup {NoSlot}]
         /\ held' \in [Task -> Runtime]
         /\ \A u \in Task : pc'[u] = "warm" <=> at'[u] # NoSlot
  BY RuntimeTypes DEF TypeOK, Leave

\* Every step keeps the types.
LEMMA NextTypeOK == TypeOK /\ [Next]_vars => TypeOK'
<1> SUFFICES ASSUME TypeOK, [Next]_vars PROVE TypeOK'
  OBVIOUS
<1>1. ASSUME NEW t \in Task, Call(t) PROVE TypeOK'
  <2>1. calls' \in [Task -> Nat] /\ UNCHANGED <<config, total_runs, loader>>
    BY <1>1 DEF Call, TypeOK
  <2>2. CASE Checkout(t)
    BY <1>1, <2>1, <2>2, CheckoutTypeOK DEF Call
  <2>3. CASE StartIsolated(t)
    <3>1. held' \in [Task -> Runtime]
      BY <2>3, RuntimeTypes DEF StartIsolated, TypeOK
    <3>2. \A u \in Task : pc'[u] = "warm" <=> at'[u] # NoSlot
      BY <1>1, <2>3 DEF Call, StartIsolated, TypeOK
    <3>3. QED
      BY <2>1, <2>3, <3>1, <3>2, ConfigTypes DEF StartIsolated, TypeOK
  <2>4. CASE StartWaiting(t)
    BY <1>1, <2>1, <2>4, ConfigTypes DEF Call, StartWaiting, TypeOK
  <2>5. QED
    BY <1>1, <2>2, <2>3, <2>4 DEF Call
<1>2. ASSUME NEW t \in Task, Poll(t) PROVE TypeOK'
  <2>1. calls' \in [Task -> Nat] /\ UNCHANGED <<config, total_runs, loader>>
    BY <1>2 DEF Poll, TypeOK
  <2>2. QED
    BY <1>2, <2>1, CheckoutTypeOK DEF Poll
<1>3. ASSUME NEW t \in Task, NEW failed \in BOOLEAN, Checkin(t, failed)
      PROVE  TypeOK'
  <2>1. at[t] \in SlotId
    BY <1>3 DEF Checkin, TypeOK
  <2>2. [held[t] EXCEPT !.clean = ~failed] \in Runtime
    BY DEF TypeOK, Runtime
  <2>3. parked' \in [SlotId -> Runtime]
    BY <1>3, <2>2, RuntimeTypes DEF Checkin, TypeOK
  <2>4. /\ slots' \in [SlotId -> {"Idle", "CheckedOut", "Stale"}]
        /\ expired' \in [SlotId -> BOOLEAN]
        /\ \A i \in SlotId : expired'[i] => slots'[i] = "Idle"
    BY <1>3, <2>1 DEF Checkin, TypeOK
  <2>5. total_runs' \in Nat /\ calls' \in [Task -> Nat] /\ loader' \in Nat
    BY <1>3 DEF Checkin, TypeOK
  <2>6. Leave(t)
    BY <1>3 DEF Checkin
  <2>7. fallback' \in BOOLEAN /\ droppable' \in BOOLEAN
    BY <1>3, ConfigTypes DEF Checkin
  <2>8. QED
    BY <2>3, <2>4, <2>5, <2>6, <2>7, LeaveTypeOK DEF TypeOK
<1>4. ASSUME NEW t \in Task, EndIsolated(t) \/ Drop(t) PROVE TypeOK'
  <2>1. /\ pc' \in [Task -> {"ready", "waiting", "warm", "isolated"}]
        /\ at' \in [Task -> SlotId \cup {NoSlot}]
        /\ held' \in [Task -> Runtime]
        /\ \A u \in Task : pc'[u] = "warm" <=> at'[u] # NoSlot
    BY <1>4, LeaveTypeOK DEF EndIsolated, Drop
  <2>2. /\ UNCHANGED <<config, slots, parked, expired, calls, loader>>
        /\ total_runs' \in Nat
    BY <1>4 DEF EndIsolated, Drop, TypeOK
  <2>3. QED
    BY <2>1, <2>2, ConfigTypes DEF TypeOK
<1>5. CASE Register
  BY <1>5, RuntimeTypes, ConfigTypes DEF Register, TypeOK
<1>6. ASSUME NEW i \in SlotId, Expire(i) PROVE TypeOK'
  BY <1>6, ConfigTypes DEF Expire, TypeOK
<1>7. CASE UNCHANGED vars
  BY <1>7, ConfigTypes DEF vars, TypeOK
<1>8. QED
  BY <1>1, <1>2, <1>3, <1>4, <1>5, <1>6, <1>7 DEF Next

\* The pool's state is well typed in every reachable state: the slot, the
\* runtime and the program counter of a task always agree.
THEOREM TypeCorrect == Spec => []TypeOK
  BY InitTypeOK, NextTypeOK, PTL DEF Spec

-----------------------------------------------------------------------------
\* The invariants are proved together with the types they rest on.
PoolInv ==
  /\ TypeOK
  /\ ExclusiveSlots
  /\ NoReuseAfterError
  /\ RunsBounded
  /\ LoaderCurrent

\* Initially every slot has a fresh runtime and nothing runs.
LEMMA InitPoolInv == Init => PoolInv
  BY InitTypeOK DEF Init, PoolInv, ExclusiveSlots, NoReuseAfterError,
     RunsBounded, LoaderCurrent, Fresh, Vacant

\* The runtime try_checkout offers is clean, current and has a run left.
LEMMA OfferedRuntime ==
  ASSUME PoolInv, NEW i \in Available
  PROVE  /\ i \in SlotId
         /\ slots[i] # "CheckedOut"
         /\ Offered(i).clean
         /\ Offered(i).gen = loader
         /\ Offered(i).runs < MaxRuns \/ Offered(i).runs = 0
  BY DEF PoolInv, NoReuseAfterError, RunsBounded, LoaderCurrent, Available,
     NeedsRecycle, Offered, Fresh

\* try_checkout: the slot it takes was nobody's, and the slots it rebuilds
\* along the way are not checked out either.
LEMMA CheckoutInv ==
  ASSUME PoolInv, NEW t \in Task, pc[t] \in {"ready", "waiting"}, Checkout(t),
         TypeOK', loader' = loader
  PROVE  PoolInv'
<1>1. PICK i \in Available :
        /\ slots' = [j \in SlotId |->
                       IF j = i THEN "CheckedOut"
                       ELSE IF NeedsRecycle(j) THEN "Idle" ELSE slots[j]]
        /\ parked' = [j \in SlotId |->
                       IF j = i THEN Vacant
                       ELSE IF NeedsRecycle(j) THEN Fresh ELSE parked[j]]
        /\ pc' = [pc EXCEPT ![t] = "warm"]
        /\ at' = [at EXCEPT ![t] = i]
        /\ held' = [held EXCEPT ![t] = Counted(Offered(i))]
  BY DEF Checkout
<1>2. TypeOK
  BY DEF PoolInv
<1>3. /\ Offered(i) \in Runtime
      /\ Counted(Offered(i)).clean
      /\ Counted(Offered(i)).gen = loader
      /\ Counted(Offered(i)).runs <= MaxRuns \/ Counted(Offered(i)).runs <= 1
  BY <1>2, OfferedRuntime, RuntimeTypes, PoolAssumption DEF Counted, Runtime
<1>4. ExclusiveSlots'
  <2>1. \A u \in Task : pc[u] = "warm" => at[u] # i /\ ~NeedsRecycle(at[u])
    BY OfferedRuntime DEF PoolInv, ExclusiveSlots, NeedsRecycle
  <2>2. i \in SlotId
    BY OfferedRuntime
  <2>3. QED
    BY <1>1, <1>2, <2>1, <2>2 DEF PoolInv, ExclusiveSlots, TypeOK
<1>5. /\ NoReuseAfterError'
      /\ LoaderCurrent'
  BY <1>1, <1>2, <1>3 DEF PoolInv, NoReuseAfterError, LoaderCurrent, TypeOK,
     Fresh
<1>6. RunsBounded'
  BY <1>1, <1>2, <1>3 DEF PoolInv, RunsBounded, TypeOK, Fresh
<1>7. QED
  BY <1>4, <1>5, <1>6 DEF PoolInv

\* A task that leaves without touching the slots breaks nothing.
LEMMA LeaveInv ==
  ASSUME PoolInv, NEW t \in Task, Leave(t), TypeOK',
         UNCHANGED <<slots, parked, loader>>
  PROVE  PoolInv'
  BY DEF PoolInv, Leave, TypeOK, ExclusiveSlots, NoReuseAfterError,
     RunsBounded, LoaderCurrent, Vacant

\* checkin: a runtime goes back only if its script succeeded and it has a
\* run left, and only the task that leaves had the slot.
LEMMA CheckinInv ==
  ASSUME PoolInv, NEW t \in Task, NEW failed \in BOOLEAN, Checkin(t, failed),
         TypeOK'
  PROVE  PoolInv'
<1>1. TypeOK /\ at[t] \in SlotId /\ held[t] \in Runtime
  BY DEF PoolInv, Checkin, TypeOK
<1>2. \A u \in Task \ {t} : pc[u] = "warm" => at[u] # at[t]
  BY DEF PoolInv, ExclusiveSlots, Checkin
<1>3. ExclusiveSlots'
  BY <1>1, <1>2 DEF PoolInv, ExclusiveSlots, Checkin, Leave, TypeOK
<1>4. NoReuseAfterError'
  <2>1. \A i \in SlotId \ {at[t]} : slots'[i] = slots[i] /\ parked'[i] = parked[i]
    BY <1>1 DEF Checkin, TypeOK
  <2>2. slots'[at[t]] = "Idle" => parked'[at[t]].clean
    <3>1. CASE failed
      BY <1>1, <3>1 DEF Checkin, TypeOK
    <3>2. CASE ~failed
      BY <1>1, <3>2 DEF Checkin, TypeOK, Runtime
    <3>3. QED
      BY <3>1, <3>2
  <2>3. \A u \in Task : pc'[u] \in {"warm", "isolated"} => held'[u].clean
    BY <1>1 DEF PoolInv, NoReuseAfterError, Checkin, Leave, TypeOK
  <2>4. QED
    BY <2>1, <2>2, <2>3 DEF PoolInv, NoReuseAfterError
<1>5. LoaderCurrent'
  BY <1>1 DEF PoolInv, LoaderCurrent, Checkin, Leave, TypeOK, Runtime
<1>6. RunsBounded'
  BY <1>1 DEF PoolInv, RunsBounded, Checkin, Leave, TypeOK, Runtime, Vacant
<1>7. QED
  BY <1>3, <1>4, <1>5, <1>6 DEF PoolInv

\* Every step keeps the invariant.
LEMMA NextPoolInv == PoolInv /\ [Next]_vars => PoolInv'
<1> SUFFICES ASSUME PoolInv, [Next]_vars PROVE PoolInv'
  OBVIOUS
<1>1. TypeOK'
  BY NextTypeOK DEF PoolInv
<1>2. ASSUME NEW t \in Task, Call(t) PROVE PoolInv'
  <2>1. CASE Checkout(t)
    BY <1>1, <1>2, <2>1, CheckoutInv DEF Call
  <2>2. CASE StartIsolated(t)
    <3>1. TypeOK /\ UNCHANGED <<slots, parked, at, loader>>
      BY <1>2, <2>2 DEF Call, StartIsolated, PoolInv
    <3>2. /\ Counted(Fresh).clean
          /\ Counted(Fresh).gen = loader
          /\ Counted(Fresh).runs = 1
      BY DEF Counted, Fresh
    <3>3. ExclusiveSlots'
      BY <1>2, <2>2, <3>1 DEF PoolInv, ExclusiveSlots, StartIsolated, TypeOK
    <3>4. NoReuseAfterError' /\ RunsBounded' /\ LoaderCurrent'
      BY <2>2, <3>1, <3>2 DEF PoolInv, NoReuseAfterError, RunsBounded,
         LoaderCurrent, StartIsolated, TypeOK
    <3>5. QED
      BY <1>1, <3>3, <3>4 DEF PoolInv
  <2>3. CASE StartWaiting(t)
    BY <1>1, <1>2, <2>3 DEF Call, StartWaiting, PoolInv, TypeOK,
       ExclusiveSlots, NoReuseAfterError, RunsBounded, LoaderCurrent
  <2>4. QED
    BY <1>2, <2>1, <2>2, <2>3 DEF Call
<1>3. ASSUME NEW t \in Task, Poll(t) PROVE PoolInv'
  BY <1>1, <1>3, CheckoutInv DEF Poll
<1>4. ASSUME NEW t \in Task, NEW failed \in BOOLEAN, Checkin(t, failed)
      PROVE  PoolInv'
  BY <1>1, <1>4, CheckinInv
<1>5. ASSUME NEW t \in Task, EndIsolated(t) \/ Drop(t) PROVE PoolInv'
  BY <1>1, <1>5, LeaveInv DEF EndIsolated, Drop
<1>6. CASE Register
  BY <1>1, <1>6 DEF Register, PoolInv, TypeOK, ExclusiveSlots,
     NoReuseAfterError, RunsBounded, LoaderCurrent
<1>7. ASSUME NEW i \in SlotId, Expire(i) PROVE PoolInv'
  BY <1>1, <1>7 DEF Expire, PoolInv, ExclusiveSlots, NoReuseAfterError,
     RunsBounded, LoaderCurrent
<1>8. CASE UNCHANGED vars
  BY <1>1, <1>8 DEF vars, PoolInv, ExclusiveSlots, NoReuseAfterError,
     RunsBounded, LoaderCurrent
<1>9. QED
  BY <1>2, <1>3, <1>4, <1>5, <1>6, <1>7, <1>8 DEF Next

\* The invariant holds in every reachable state.
LEMMA PoolCorrect == Spec => []PoolInv
  BY InitPoolInv, NextPoolInv, PTL DEF Spec

\* Two scripts never run in one slot, and nobody takes, rebuilds or expires
\* a slot under a running script.
THEOREM SlotsExclusive == Spec => []ExclusiveSlots
<1>1. PoolInv => ExclusiveSlots
  BY DEF PoolInv
<1>2. QED
  BY <1>1, PoolCorrect, PTL

\* A script never runs in a runtime where an earlier one failed.
THEOREM ErrorsNeverLeak == Spec => []NoReuseAfterError
<1>1. PoolInv => NoReuseAfterError
  BY DEF PoolInv
<1>2. QED
  BY <1>1, PoolCorrect, PTL

\* A runtime never serves more scripts than max_runs_per_slot allows.
THEOREM RunsStayBounded == Spec => []RunsBounded
<1>1. PoolInv => RunsBounded
  BY DEF PoolInv
<1>2. QED
  BY <1>1, PoolCorrect, PTL

\* A script never runs with a loader older than the last registration.
THEOREM LoaderStaysCurrent == Spec => []LoaderCurrent
<1>1. PoolInv => LoaderCurrent
  BY DEF PoolInv
<1>2. QED
  BY <1>1, PoolCorrect, PTL

-----------------------------------------------------------------------------
\* Unless a caller drops a run, no slot is lost: each checked-out slot has a
\* task in it that will check it in.
THEOREM NoSlotLost == Spec => []LostOnlyByDrop
<1>1. Init => LostOnlyByDrop
  BY DEF Init, LostOnlyByDrop, CheckedOutIsExecuting
<1>2. TypeOK /\ ExclusiveSlots /\ LostOnlyByDrop /\ [Next]_vars
        => LostOnlyByDrop'
  <2>0. ASSUME [Next]_vars PROVE droppable' = droppable
    <3>1. UNCHANGED config
      BY <2>0 DEF Next, Call, Poll, Checkin, EndIsolated, Drop, Register,
         Expire, vars
    <3>2. QED
      BY <3>1 DEF config
  <2> SUFFICES ASSUME TypeOK, ExclusiveSlots, CheckedOutIsExecuting,
                      [Next]_vars, ~droppable
               PROVE  CheckedOutIsExecuting'
    BY <2>0 DEF LostOnlyByDrop
  <2>1. ASSUME NEW t \in Task, pc[t] # "warm", Checkout(t)
        PROVE  CheckedOutIsExecuting'
    <3>1. PICK i \in Available :
            /\ slots' = [j \in SlotId |->
                           IF j = i THEN "CheckedOut"
                           ELSE IF NeedsRecycle(j) THEN "Idle" ELSE slots[j]]
            /\ pc' = [pc EXCEPT ![t] = "warm"]
            /\ at' = [at EXCEPT ![t] = i]
      BY <2>1 DEF Checkout
    <3>2. \A j \in SlotId : slots'[j] = "CheckedOut" => j = i \/ slots[j] = "CheckedOut"
      BY <3>1
    <3>3. pc'[t] = "warm" /\ at'[t] = i
      BY <3>1 DEF TypeOK
    <3>4. \A u \in Task : pc[u] = "warm" => pc'[u] = "warm" /\ at'[u] = at[u]
      BY <2>1, <3>1 DEF TypeOK
    <3>5. QED
      BY <3>2, <3>3, <3>4 DEF CheckedOutIsExecuting
  <2>2. ASSUME NEW t \in Task, Call(t) PROVE CheckedOutIsExecuting'
    <3>1. CASE Checkout(t)
      BY <2>1, <2>2, <3>1 DEF Call
    <3>2. CASE StartIsolated(t) \/ StartWaiting(t)
      <4>1. slots' = slots /\ at' = at
        BY <3>2 DEF StartIsolated, StartWaiting
      <4>2. \A u \in Task : pc[u] = "warm" => pc'[u] = "warm"
        BY <2>2, <3>2 DEF Call, StartIsolated, StartWaiting, TypeOK
      <4>3. QED
        BY <4>1, <4>2 DEF CheckedOutIsExecuting
    <3>3. QED
      BY <2>2, <3>1, <3>2 DEF Call
  <2>3. ASSUME NEW t \in Task, Poll(t) PROVE CheckedOutIsExecuting'
    BY <2>1, <2>3 DEF Poll
  <2>4. ASSUME NEW t \in Task, NEW failed \in BOOLEAN, Checkin(t, failed)
        PROVE  CheckedOutIsExecuting'
    <3>1. slots'[at[t]] # "CheckedOut"
      BY <2>4 DEF Checkin, TypeOK
    <3>2. \A j \in SlotId : slots'[j] = "CheckedOut" => slots[j] = "CheckedOut" /\ j # at[t]
      BY <2>4, <3>1 DEF Checkin, TypeOK
    <3>3. \A u \in Task \ {t} : pc'[u] = pc[u] /\ at'[u] = at[u]
      BY <2>4 DEF Checkin, Leave, TypeOK
    <3>4. QED
      BY <3>2, <3>3 DEF CheckedOutIsExecuting
  <2>5. ASSUME NEW t \in Task, EndIsolated(t) PROVE CheckedOutIsExecuting'
    BY <2>5 DEF EndIsolated, Leave, TypeOK, CheckedOutIsExecuting
  <2>6. CASE Register
    BY <2>6 DEF Register, TypeOK, CheckedOutIsExecuting
  <2>7. ASSUME NEW i \in SlotId, Expire(i) PROVE CheckedOutIsExecuting'
    BY <2>7 DEF Expire, CheckedOutIsExecuting
  <2>8. CASE UNCHANGED vars
    BY <2>8 DEF vars, CheckedOutIsExecuting
  <2>9. QED
    BY <2>2, <2>3, <2>4, <2>5, <2>6, <2>7, <2>8 DEF Next, Drop
<1>3. QED
  BY <1>1, <1>2, TypeCorrect, SlotsExclusive, PTL DEF Spec

-----------------------------------------------------------------------------
\* The owner of a slot in the abstract specification: the task running in it.
LEMMA OwnerIsTask ==
  ASSUME TypeOK, ExclusiveSlots, NEW t \in Task, NEW i \in SlotId
  PROVE  /\ at[t] = i => OwnerOf(i) = t
         /\ OwnerOf(i) = t => at[t] = i
<1>1. ASSUME NEW u \in Task, at[u] = i PROVE OwnerOf(i) = u
  <2>1. \A v \in Task : at[v] = i => v = u
    BY <1>1, PoolAssumption DEF TypeOK, ExclusiveSlots
  <2>2. QED
    BY <1>1, <2>1 DEF OwnerOf
<1>2. ASSUME OwnerOf(i) = t PROVE at[t] = i
  <2>1. CASE \E u \in Task : at[u] = i
    BY <1>1, <1>2, <2>1
  <2>2. CASE ~\E u \in Task : at[u] = i
    BY <1>2, <2>2, PoolAssumption DEF OwnerOf
  <2>3. QED
    BY <2>1, <2>2
<1>3. QED
  BY <1>1, <1>2

\* An available slot is free, and only such a slot is.
LEMMA OwnerIsFree ==
  ASSUME TypeOK, ExclusiveSlots, NEW i \in SlotId
  PROVE  OwnerOf(i) = Free <=> slots[i] # "CheckedOut"
<1>1. CASE \E t \in Task : at[t] = i
  <2>1. PICK t \in Task : at[t] = i
    BY <1>1
  <2>2. pc[t] = "warm"
    BY <2>1, PoolAssumption DEF TypeOK
  <2>3. slots[i] = "CheckedOut"
    BY <2>1, <2>2 DEF ExclusiveSlots
  <2>4. QED
    BY <2>1, <2>3, OwnerIsTask, PoolAssumption
<1>2. CASE ~\E t \in Task : at[t] = i
  BY <1>2, PoolAssumption DEF OwnerOf
<1>3. QED
  BY <1>1, <1>2

\* The same, read in the next state.
LEMMA OwnerNext ==
  ASSUME TypeOK', ExclusiveSlots', NEW i \in SlotId
  PROVE  /\ \A t \in Task : at'[t] = i => OwnerOf(i)' = t
         /\ (\A t \in Task : at'[t] # i)
              => OwnerOf(i)' = IF slots'[i] = "CheckedOut" THEN Lost ELSE Free
<1>1. ASSUME NEW t \in Task, at'[t] = i PROVE OwnerOf(i)' = t
  <2>1. \A u \in Task : at'[u] = i => u = t
    BY <1>1, PoolAssumption DEF TypeOK, ExclusiveSlots
  <2>2. QED
    BY <1>1, <2>1 DEF OwnerOf
<1>2. ASSUME \A t \in Task : at'[t] # i
      PROVE  OwnerOf(i)' = IF slots'[i] = "CheckedOut" THEN Lost ELSE Free
  BY <1>2 DEF OwnerOf
<1>3. QED
  BY <1>1, <1>2

\* A slot whose task and whose being checked out do not change has the owner
\* it had.
LEMMA OwnerKept ==
  ASSUME TypeOK, ExclusiveSlots, TypeOK', ExclusiveSlots', NEW i \in SlotId,
         \A t \in Task : at'[t] = i <=> at[t] = i,
         slots'[i] = "CheckedOut" <=> slots[i] = "CheckedOut"
  PROVE  OwnerOf(i)' = OwnerOf(i)
<1>1. CASE \E t \in Task : at[t] = i
  BY <1>1, OwnerIsTask, OwnerNext
<1>2. CASE ~\E t \in Task : at[t] = i
  BY <1>2, OwnerNext DEF OwnerOf
<1>3. QED
  BY <1>1, <1>2

\* A task is busy in the abstract specification only while it runs a script.
LEMMA BusyRuns ==
  ASSUME TypeOK, ExclusiveSlots, NEW t \in Task,
         pc[t] \in {"ready", "waiting"}
  PROVE  ~Lease!Busy(t)
<1>1. at[t] = NoSlot
  BY DEF TypeOK
<1>2. \A s \in SlotId : OwnerOf(s) # t
  BY <1>1, OwnerIsTask, PoolAssumption
<1>3. ~Lease!Holding(t)
  BY <1>2 DEF Lease!Holding
<1>4. QED
  BY <1>3 DEF Lease!Busy

\* The abstract state a checkout leads to: the lease of one slot is granted.
LEMMA CheckoutGrants ==
  ASSUME PoolInv, PoolInv', NEW t \in Task, pc[t] \in {"ready", "waiting"},
         Checkout(t)
  PROVE  \E i \in SlotId : Lease!Grant(t, i)
<1>1. PICK i \in Available :
        /\ slots' = [j \in SlotId |->
                       IF j = i THEN "CheckedOut"
                       ELSE IF NeedsRecycle(j) THEN "Idle" ELSE slots[j]]
        /\ pc' = [pc EXCEPT ![t] = "warm"]
        /\ at' = [at EXCEPT ![t] = i]
  BY DEF Checkout
<1>2. /\ TypeOK /\ ExclusiveSlots /\ TypeOK' /\ ExclusiveSlots'
      /\ i \in SlotId /\ slots[i] # "CheckedOut"
  BY OfferedRuntime DEF PoolInv
<1>3. OwnerOf(i) = Free
  BY <1>2, OwnerIsFree
<1>4. ~Lease!Busy(t)
  BY <1>2, BusyRuns
<1>5. OwnerOf(i)' = t
  BY <1>1, <1>2, OwnerNext DEF TypeOK
<1>6. \A j \in SlotId \ {i} : OwnerOf(j)' = OwnerOf(j)
  <2> TAKE j \in SlotId \ {i}
  <2>0. at \in [Task -> SlotId \cup {NoSlot}] /\ at[t] = NoSlot
    BY <1>2 DEF TypeOK
  <2>1. \A u \in Task : at'[u] = j <=> at[u] = j
    BY <1>1, <1>2, <2>0, PoolAssumption
  <2>2. slots'[j] = "CheckedOut" <=> slots[j] = "CheckedOut"
    BY <1>1 DEF NeedsRecycle
  <2>3. QED
    BY <1>2, <2>1, <2>2, OwnerKept
<1>7. {u \in Task : pc'[u] = "isolated"} = {u \in Task : pc[u] = "isolated"}
  BY <1>1, <1>2 DEF TypeOK
<1>8. QED
  BY <1>2, <1>3, <1>4, <1>5, <1>6, <1>7 DEF Lease!Grant

\* The slots and owners of a step in which only task t changes, and t neither
\* takes nor gives up a slot.
LEMMA OwnersUnchanged ==
  ASSUME PoolInv, PoolInv', at' = at,
         \A i \in SlotId : slots'[i] = "CheckedOut" <=> slots[i] = "CheckedOut"
  PROVE  [i \in SlotId |-> OwnerOf(i)]' = [i \in SlotId |-> OwnerOf(i)]
  BY OwnerKept DEF PoolInv

\* A task leaves its slot: the abstract owner becomes Free or Lost, depending
\* on whether the slot was checked in, and no other owner changes.
LEMMA OwnerLeaves ==
  ASSUME PoolInv, PoolInv', NEW t \in Task, NEW s \in SlotId, at[t] = s,
         Leave(t), \A i \in SlotId \ {s} : slots'[i] = slots[i]
  PROVE  /\ OwnerOf(s) = t
         /\ OwnerOf(s)' = IF slots'[s] = "CheckedOut" THEN Lost ELSE Free
         /\ \A i \in SlotId \ {s} : OwnerOf(i)' = OwnerOf(i)
         /\ {u \in Task : pc'[u] = "isolated"} = {u \in Task : pc[u] = "isolated"}
<1>1. /\ TypeOK /\ ExclusiveSlots /\ TypeOK' /\ ExclusiveSlots'
      /\ pc[t] = "warm"
  BY PoolAssumption DEF PoolInv, TypeOK
<1>2. \A u \in Task : at'[u] # s
  BY <1>1, PoolAssumption DEF Leave, TypeOK, ExclusiveSlots
<1>3. OwnerOf(s)' = IF slots'[s] = "CheckedOut" THEN Lost ELSE Free
  BY <1>1, <1>2, OwnerNext
<1>4. ASSUME NEW i \in SlotId \ {s} PROVE OwnerOf(i)' = OwnerOf(i)
  <2>1. \A u \in Task : at'[u] = i <=> at[u] = i
    BY <1>1, PoolAssumption DEF Leave, TypeOK
  <2>2. QED
    BY <1>1, <2>1, OwnerKept
<1>5. {u \in Task : pc'[u] = "isolated"} = {u \in Task : pc[u] = "isolated"}
  BY <1>1 DEF Leave, TypeOK
<1>6. QED
  BY <1>1, <1>3, <1>4, <1>5, OwnerIsTask

\* Every step of the pool is a step of the lease or leaves it unchanged.
LEMMA StepImplements ==
  PoolInv /\ PoolInv' /\ [Next]_vars => [Lease!Next]_(Lease!vars)
<1> SUFFICES ASSUME PoolInv, PoolInv', [Next]_vars
             PROVE  [Lease!Next]_(Lease!vars)
  OBVIOUS
<1>1. TypeOK /\ ExclusiveSlots /\ TypeOK' /\ ExclusiveSlots'
  BY DEF PoolInv
<1>2. ASSUME NEW t \in Task, Call(t) PROVE [Lease!Next]_(Lease!vars)
  <2>1. CASE Checkout(t)
    BY <1>2, <2>1, CheckoutGrants DEF Call, Lease!Next
  <2>2. CASE Available = {} /\ StartIsolated(t)
    <3>1. ~Lease!Busy(t)
      BY <1>1, <1>2, BusyRuns DEF Call
    <3>2. \A i \in SlotId : OwnerOf(i) # Free
      BY <1>1, <2>2, OwnerIsFree DEF Available, NeedsRecycle, TypeOK
    <3>3. [i \in SlotId |-> OwnerOf(i)]' = [i \in SlotId |-> OwnerOf(i)]
      BY <2>2, OwnersUnchanged DEF StartIsolated
    <3>4. {u \in Task : pc'[u] = "isolated"}
            = {u \in Task : pc[u] = "isolated"} \cup {t}
      BY <1>1, <2>2 DEF StartIsolated, TypeOK
    <3>5. Lease!GoPrivate(t)
      BY <3>1, <3>2, <3>3, <3>4 DEF Lease!GoPrivate
    <3>6. QED
      BY <3>5 DEF Lease!Next
  <2>3. CASE StartWaiting(t)
    <3>1. [i \in SlotId |-> OwnerOf(i)]' = [i \in SlotId |-> OwnerOf(i)]
      BY <2>3, OwnersUnchanged DEF StartWaiting
    <3>2. {u \in Task : pc'[u] = "isolated"} = {u \in Task : pc[u] = "isolated"}
      BY <1>1, <1>2, <2>3 DEF Call, StartWaiting, TypeOK
    <3>3. QED
      BY <3>1, <3>2 DEF Lease!vars
  <2>4. QED
    BY <1>2, <2>1, <2>2, <2>3 DEF Call
<1>3. ASSUME NEW t \in Task, Poll(t) PROVE [Lease!Next]_(Lease!vars)
  BY <1>3, CheckoutGrants DEF Poll, Lease!Next
<1>4. ASSUME NEW t \in Task, NEW failed \in BOOLEAN, Checkin(t, failed)
      PROVE  [Lease!Next]_(Lease!vars)
  <2>1. PICK s \in SlotId : at[t] = s
    BY <1>1, <1>4 DEF Checkin, TypeOK
  <2>2. /\ Leave(t) /\ slots'[s] # "CheckedOut"
        /\ \A i \in SlotId \ {s} : slots'[i] = slots[i]
    BY <1>1, <1>4, <2>1 DEF Checkin, TypeOK
  <2>3. Lease!Release(t, s)
    BY <2>1, <2>2, OwnerLeaves DEF Lease!Release
  <2>4. QED
    BY <2>3 DEF Lease!Next
<1>5. ASSUME NEW t \in Task, Leave(t), pc[t] = "isolated",
             slots' = slots
      PROVE  [Lease!Next]_(Lease!vars)
  <2>1. at' = at
    BY <1>1, <1>5 DEF Leave, TypeOK
  <2>2. [i \in SlotId |-> OwnerOf(i)]' = [i \in SlotId |-> OwnerOf(i)]
    BY <1>5, <2>1, OwnersUnchanged
  <2>3. {u \in Task : pc'[u] = "isolated"}
          = {u \in Task : pc[u] = "isolated"} \ {t}
    BY <1>1, <1>5 DEF Leave, TypeOK
  <2>4. Lease!LeavePrivate(t)
    BY <1>5, <2>2, <2>3 DEF Lease!LeavePrivate
  <2>5. QED
    BY <2>4 DEF Lease!Next
<1>6. ASSUME NEW t \in Task, EndIsolated(t) PROVE [Lease!Next]_(Lease!vars)
  BY <1>5, <1>6 DEF EndIsolated
<1>7. ASSUME NEW t \in Task, Drop(t) PROVE [Lease!Next]_(Lease!vars)
  <2>1. CASE pc[t] = "warm"
    <3>1. PICK s \in SlotId : at[t] = s
      BY <1>1, <2>1 DEF TypeOK
    <3>2. Leave(t) /\ slots' = slots /\ slots[s] = "CheckedOut"
      BY <1>1, <1>7, <2>1, <3>1 DEF Drop, ExclusiveSlots
    <3>3. Lease!Abandon(t, s)
      BY <3>1, <3>2, OwnerLeaves DEF Lease!Abandon
    <3>4. QED
      BY <3>3 DEF Lease!Next
  <2>2. CASE pc[t] = "isolated"
    BY <1>5, <1>7, <2>2 DEF Drop
  <2>3. CASE pc[t] = "waiting"
    <3>1. at' = at /\ slots' = slots
      BY <1>1, <1>7, <2>3 DEF Drop, Leave, TypeOK
    <3>2. [i \in SlotId |-> OwnerOf(i)]' = [i \in SlotId |-> OwnerOf(i)]
      BY <3>1, OwnersUnchanged
    <3>3. {u \in Task : pc'[u] = "isolated"} = {u \in Task : pc[u] = "isolated"}
      BY <1>1, <1>7, <2>3 DEF Drop, Leave, TypeOK
    <3>4. QED
      BY <3>2, <3>3 DEF Lease!vars
  <2>4. QED
    BY <1>1, <1>7, <2>1, <2>2, <2>3 DEF Drop, TypeOK
<1>8. CASE Register \/ (\E i \in SlotId : Expire(i)) \/ UNCHANGED vars
  <2>1. /\ at' = at /\ pc' = pc
        /\ \A i \in SlotId : slots'[i] = "CheckedOut" <=> slots[i] = "CheckedOut"
    BY <1>1, <1>8 DEF Register, Expire, vars, TypeOK
  <2>2. [i \in SlotId |-> OwnerOf(i)]' = [i \in SlotId |-> OwnerOf(i)]
    BY <2>1, OwnersUnchanged
  <2>3. QED
    BY <2>1, <2>2 DEF Lease!vars
<1>9. QED
  BY <1>2, <1>3, <1>4, <1>6, <1>7, <1>8 DEF Next

\* The pool implements the abstract lease: exclusive slots, one lease per
\* task, and a private runtime only when no slot is free.
THEOREM PoolImplementsLease == Spec => ImplementsLease
<1>1. Init => Lease!Init
  BY PoolAssumption DEF Init, Lease!Init, OwnerOf
<1>2. QED
  BY <1>1, PoolCorrect, StepImplements, PTL DEF Spec, ImplementsLease, Lease!Spec
=============================================================================
