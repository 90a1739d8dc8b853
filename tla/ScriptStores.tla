----------------------------- MODULE ScriptStores -----------------------------
(***************************************************************************)
(* The state that the modules sandbox:pm (sdk-ts/src/pm.js of              *)
(* hello_sandbox) and sandbox:test (sdk-ts/src/test.js of hello_client)    *)
(* keep between the calls of a script.  A module is evaluated once for a   *)
(* slot, so its top-level variables outlive the script and meet the next   *)
(* one that runs in the slot, unless results() has reset them.             *)
(*                                                                         *)
(* A value is the ordinal of the test that wrote it, a failed assertion    *)
(* the ordinal of the test that made it.  The operators take the state of  *)
(* the modules and return it; injected is what the runner put into         *)
(* _pm_env, _pm_col_vars and _pm_globals.                                  *)
(***************************************************************************)
EXTENDS Naturals

CONSTANTS Store,  \* the persistent stores: environment, collectionVariables, globals
          Key     \* the variable names scripts use

Library == {"pm", "test"}

Absent == 0  \* no property of that name: tests count from 1

Empty == [k \in Key |-> Absent]

\* Object.assign({}, base, delta)
Assign(base, delta) ==
  [k \in Key |-> IF delta[k] # Absent THEN delta[k] ELSE base[k]]

Modules == [delta : [Store -> [Key -> Nat]], loaded : SUBSET Store,
            base : [Store -> [Key -> Nat]], variables : [Key -> Nat],
            failed : [Library -> SUBSET Nat]]

\* Both modules as a new slot evaluates them.
Fresh ==
  [delta |-> [s \in Store |-> Empty], loaded |-> {},
   base |-> [s \in Store |-> Empty], variables |-> Empty,
   failed |-> [lib \in Library |-> {}]]

\* The base a store falls back to: memoized, or what the runner injected.
Base(m, injected, s) == IF s \in m.loaded THEN m.base[s] ELSE injected[s]

\* What get() of a store returns for each key, and what results() reports.
View(m, injected) == [s \in Store |-> Assign(Base(m, injected, s), m.delta[s])]

\* _loadEnvBase and the like, for some stores.
Load(m, injected, stores) ==
  [m EXCEPT !.loaded = @ \cup stores,
            !.base = [s \in Store |->
                        IF s \in stores THEN Base(m, injected, s) ELSE @[s]]]

\* get and has look at the delta before they load the base.
GetFrom(m, injected, s, k) ==
  IF m.delta[s][k] # Absent THEN m ELSE Load(m, injected, {s})

SetIn(m, s, k, v) == [m EXCEPT !.delta[s][k] = v]

\* unset deletes the value set since the base was injected, never the base's.
UnsetIn(m, s, k) == [m EXCEPT !.delta[s][k] = Absent]

\* clear empties the delta and replaces the base.
ClearIn(m, s) ==
  [m EXCEPT !.delta[s] = Empty, !.loaded = @ \cup {s}, !.base[s] = Empty]

\* _pm_tests or _failures gains a failure of test t.
Failed(m, lib, t) == [m EXCEPT !.failed[lib] = @ \cup {t}]

\* A plausible bug: the memoized bases survive results() of sandbox:pm.
ResetButBase(m, lib) ==
  IF lib = "test" THEN [m EXCEPT !.failed[lib] = {}]
  ELSE [Fresh EXCEPT !.loaded = m.loaded, !.base = m.base,
                     !.failed["test"] = m.failed["test"]]

\* What results() of either module leaves behind.
Reset(m, lib) ==
  IF lib = "test" THEN [m EXCEPT !.failed[lib] = {}]
  ELSE [Fresh EXCEPT !.failed["test"] = m.failed["test"]]

===============================================================================
