------------------------------ MODULE SlotLease ------------------------------
(***************************************************************************)
(* What a pool of runtimes promises its callers, with no word about how    *)
(* runtimes are built, aged, counted or recycled: a slot is leased to one  *)
(* task at a time, a task holds one lease at a time, and a task runs in a  *)
(* private runtime only when no slot is free.  RuntimePool implements it.  *)
(***************************************************************************)
CONSTANTS Task,     \* callers of the pool
          Slot,     \* slots of the pool
          Free,     \* owner of a slot that may be leased
          Lost      \* owner of a slot whose task went away without a release


VARIABLES owner,    \* owner[s] : the task holding slot s, Free or Lost
          private   \* the tasks running in a private runtime

vars == <<owner, private>>

Holding(t) == \E s \in Slot : owner[s] = t

Busy(t) == Holding(t) \/ t \in private

Init ==
  /\ owner = [s \in Slot |-> Free]
  /\ private = {}

Grant(t, s) ==
  /\ ~Busy(t)
  /\ owner[s] = Free
  /\ owner' = [owner EXCEPT ![s] = t]
  /\ UNCHANGED private

GoPrivate(t) ==
  /\ ~Busy(t)
  /\ \A s \in Slot : owner[s] # Free
  /\ private' = private \cup {t}
  /\ UNCHANGED owner

Release(t, s) ==
  /\ owner[s] = t
  /\ owner' = [owner EXCEPT ![s] = Free]
  /\ UNCHANGED private

LeavePrivate(t) ==
  /\ t \in private
  /\ private' = private \ {t}
  /\ UNCHANGED owner

Abandon(t, s) ==
  /\ owner[s] = t
  /\ owner' = [owner EXCEPT ![s] = Lost]
  /\ UNCHANGED private

Next ==
  \/ \E t \in Task, s \in Slot : Grant(t, s) \/ Release(t, s) \/ Abandon(t, s)
  \/ \E t \in Task : GoPrivate(t) \/ LeavePrivate(t)

Spec == Init /\ [][Next]_vars
=============================================================================
