------------------------------ MODULE TestRunner ------------------------------
(***************************************************************************)
(* HttpTestRunner of crate/hello_client/src/http_runner.rs: run_test takes *)
(* a test through its five phases, run_collection runs tests one after the *)
(* other, and the variables of the scripts are threaded from one script to *)
(* the next through results().                                             *)
(*                                                                         *)
(* The phases run in the runner's pool of one slot: a script meets the     *)
(* slot the last script left, or a new one when the pool recycled it (run  *)
(* limit, age, a failed run, a registered module).  What a script does is  *)
(* left open: any calls of sandbox:pm and sandbox:test, then a return or   *)
(* an error.  A request is <<t, p>>: that of test t, as last rewritten by  *)
(* the script of phase p.                                                  *)
(***************************************************************************)
EXTENDS ScriptStores, Sequences

CONSTANTS Resettable,  \* the stores reset_pm_state empties
          MaxTests,    \* bound: the tests run by all calls together
          MaxCalls     \* bound: the calls all scripts together make

ASSUME TestRunnerAssumption ==
  Resettable \subseteq Store /\ MaxTests \in Nat /\ MaxCalls \in Nat

Order == <<"collection-pre", "pre", "fetch", "post", "collection-post">>
Pre == {"collection-pre", "pre"}
Post == {"post", "collection-post"}
Phases == Pre \cup {"fetch"} \cup Post

VARIABLES mode,     \* the call in progress: "idle", "collection" or "single"
          scripts,  \* the phases the runner and the current test have a script for
          test,     \* the ordinal of the current or last test
          first,    \* the ordinal of the first test since reset_pm_state
          phase,    \* the phase reached; "next" before a test, "begun" before its phases
          running,  \* whether the script of that phase runs
          request,  \* effective_request
          input,    \* the sandbox inputs _request and _response
          sent,     \* the request that http_response answers
          slot,     \* the script modules in the pool's slot, Fresh if it is stale
          calls,    \* bound: the calls scripts have made
          pm,       \* pm_env, pm_col_vars, pm_globals
          verdict,  \* passed and failures of the current test
          recorded  \* the last test whose result the history sink was given

\* Bookkeeping for the properties; no guard reads it.
VARIABLES unreported,  \* the libraries used in the slot since their last results()
          inherited,   \* those of them that the running script found so
          tainted,     \* a script since reset_pm_state inherited sandbox:pm so
          stained,     \* a script of the current test inherited a library so
          promise,     \* the stores as documented: between scripts (kept), where
                       \* unset falls back to (floor), for the script (seen)
          missed,      \* libraries with a failed assertion since results()
          due          \* a script of the current test reported a failure

code == <<mode, scripts, test, first, phase, running, request, input, sent,
          slot, calls, pm, verdict, recorded>>
book == <<unreported, inherited, tainted, stained, promise, missed, due>>
vars == <<code, book>>

NoStores == [s \in Store |-> Empty]

Promise(kept) == [kept |-> kept, floor |-> kept, seen |-> kept]

Init ==
  /\ mode = "idle"
  /\ scripts \in SUBSET {"collection-pre", "collection-post"}
  /\ test = 0 /\ first = 1
  /\ phase = "next" /\ running = FALSE
  /\ request = <<0, "test">> /\ sent = <<0, "test">>
  /\ input = [request |-> <<0, "test">>, response |-> 0]
  /\ slot = Fresh /\ calls = 0
  /\ pm = NoStores
  /\ verdict = [passed |-> TRUE, failures |-> {}]
  /\ recorded = 0
  /\ unreported = {} /\ inherited = {} /\ missed = {}
  /\ tainted = FALSE /\ stained = FALSE /\ due = FALSE
  /\ promise = Promise(NoStores)

(***************************************************************************)
(* Calls, and the tests of a collection.                                   *)
(***************************************************************************)
\* A plausible bug: run_collection starts with the stores as they are.
NothingReset(stores) == stores

\* reset_pm_state
ResetPmState(stores) ==
  [s \in Store |-> IF s \in Resettable THEN Empty ELSE stores[s]]

\* run_collection up to its loop.
RunCollection ==
  /\ mode = "idle"
  /\ mode' = "collection"
  /\ pm' = ResetPmState(pm)
  /\ first' = test + 1
  /\ tainted' = FALSE
  /\ promise' = Promise([s \in Store |-> IF s \in Resettable THEN Empty ELSE promise.kept[s]])
  /\ UNCHANGED <<scripts, test, phase, running, request, input, sent, slot, calls,
                 verdict, recorded, unreported, inherited, stained, missed, due>>

\* The loop of run_collection is over.
CollectionDone ==
  /\ mode = "collection" /\ phase = "next"
  /\ mode' = "idle"
  /\ UNCHANGED <<scripts, test, first, phase, running, request, input, sent, slot,
                 calls, pm, verdict, recorded, book>>

\* run_test up to its phases, for a test with the scripts own; registering a
\* module marks the idle slot stale.
BeginTest(own, modules) ==
  /\ phase = "next" /\ test < MaxTests
  /\ mode' = IF mode = "idle" THEN "single" ELSE mode
  /\ test' = test + 1
  /\ scripts' = (scripts \ {"pre", "post"}) \cup own
  /\ IF modules THEN slot' = Fresh /\ unreported' = {} ELSE UNCHANGED <<slot, unreported>>
  /\ phase' = "begun"
  /\ request' = <<test + 1, "test">>
  /\ verdict' = [passed |-> TRUE, failures |-> {}]
  /\ stained' = FALSE /\ due' = FALSE
  /\ UNCHANGED <<first, running, input, sent, calls, pm, recorded, inherited,
                 tainted, promise, missed>>

(***************************************************************************)
(* From phase to phase.                                                    *)
(***************************************************************************)
\* The phases come in Order, "begun" before them.
Place(p) == IF p = "begun" THEN 0 ELSE CHOOSE i \in DOMAIN Order : Order[i] = p

\* The phases of the current test that come after p, and the first of them.
Following(p) ==
  {q \in Phases : (q = "fetch" \/ q \in scripts) /\ Place(p) < Place(q)}

FirstAfter(p) ==
  CHOOSE q \in Following(p) : \A r \in Following(p) : Place(q) <= Place(r)

\* A plausible bug: the fetch phase finds the request the last script was given.
InputForScripts(p) ==
  [request |-> IF p = "fetch" THEN input.request ELSE request,
   response |-> IF p \in Post THEN test ELSE input.response]

\* set_input before phase p; the response is still there for the next test.
Input(p) ==
  [request |-> request, response |-> IF p \in Post THEN test ELSE input.response]

\* The pool hands out the slot the last script left, or a new one.
Checkout ==
  \/ UNCHANGED <<slot, unreported>>
  \/ slot' = Fresh /\ unreported' = {}

\* Phase p starts its script.
StartScript(p) ==
  /\ running' = TRUE
  /\ input' = Input(p)
  /\ Checkout
  /\ inherited' = unreported'
  /\ tainted' = (tainted \/ (p # "fetch" /\ "pm" \in unreported'))
  /\ stained' = (stained \/ (p # "fetch" /\ unreported' # {}))
  /\ UNCHANGED <<sent, promise, missed>>

\* The fetch phase of a test with a response_file that can be read.
ReadResponseFile ==
  /\ sent' = request
  /\ UNCHANGED <<running, input, slot, unreported, inherited, tainted, stained, promise,
                 missed>>

NextPhase ==
  /\ phase # "next" /\ ~running
  /\ Following(phase) # {}
  /\ phase' = FirstAfter(phase)
  /\ \/ StartScript(phase')
     \/ phase' = "fetch" /\ ReadResponseFile
  /\ UNCHANGED <<mode, scripts, test, first, request, calls, pm, verdict, recorded,
                 due>>

\* The last phase is over: the result, the history, the caller or the loop.
TestDone ==
  /\ phase # "next" /\ ~running
  /\ Following(phase) = {}
  /\ recorded' = test
  /\ mode' = IF mode = "single" THEN "idle" ELSE mode
  /\ phase' = "next"
  /\ UNCHANGED <<scripts, test, first, running, request, input, sent, slot, calls,
                 pm, verdict, book>>

\* The script is over; the stores the next one should find are kept.
Over(kept) ==
  /\ running' = FALSE
  /\ inherited' = {} /\ missed' = {}
  /\ promise' = Promise(kept)

\* An error leaves run_test, and run_collection with the results it had: a
\* script throws or hits a limit, the fetch fails, a file cannot be read.
Abort ==
  /\ phase # "next"
  /\ \/ running /\ slot' = Fresh /\ unreported' = {} /\ Over(promise.kept)
     \/ ~running /\ Following(phase) # {} /\ FirstAfter(phase) = "fetch"
        /\ UNCHANGED <<slot, running, unreported, inherited, promise, missed>>
  /\ mode' = "idle" /\ phase' = "next"
  /\ UNCHANGED <<scripts, test, first, request, input, sent, calls, pm, verdict,
                 recorded, tainted, stained, due>>

(***************************************************************************)
(* What a running script does with sandbox:pm and sandbox:test.            *)
(***************************************************************************)
InScript == running /\ phase \in Pre \cup Post

outside == <<mode, scripts, test, first, phase, running, request, input, sent, pm,
             verdict, recorded, tainted, stained, due>>

\* The running script calls lib.
Call(lib) ==
  /\ InScript /\ calls < MaxCalls
  /\ calls' = calls + 1
  /\ unreported' = unreported \cup {lib}
  /\ UNCHANGED <<outside, inherited>>

\* pm.environment.get(k), has(k) and the same of the other stores.
Get(s, k) ==
  /\ Call("pm")
  /\ slot' = GetFrom(slot, pm, s, k)
  /\ UNCHANGED <<promise, missed>>

\* pm.variables.get(k) looks through every store.
GetVariable ==
  /\ Call("pm")
  /\ slot' = Load(slot, pm, Store)
  /\ UNCHANGED <<promise, missed>>

Set(s, k) ==
  /\ Call("pm")
  /\ slot' = SetIn(slot, s, k, test)
  /\ promise' = [promise EXCEPT !.seen[s][k] = test]
  /\ UNCHANGED missed

Unset(s, k) ==
  /\ Call("pm")
  /\ slot' = UnsetIn(slot, s, k)
  /\ promise' = [promise EXCEPT !.seen[s][k] = promise.floor[s][k]]
  /\ UNCHANGED missed

Clear(s) ==
  /\ Call("pm")
  /\ slot' = ClearIn(slot, s)
  /\ promise' = [promise EXCEPT !.seen[s] = Empty, !.floor[s] = Empty]
  /\ UNCHANGED missed

\* pm.variables.set(k), unset(k): request-scoped.
SetVariable(k) ==
  /\ Call("pm")
  /\ \E v \in {test, Absent} : slot' = [slot EXCEPT !.variables[k] = v]
  /\ UNCHANGED <<promise, missed>>

\* A pm.test() or an expect() of sandbox:test fails; the script goes on.
FailAssertion(lib) ==
  /\ Call(lib)
  /\ slot' = Failed(slot, lib, test)
  /\ missed' = missed \cup {lib}
  /\ UNCHANGED promise

\* results() whose value the script drops.
DropResults(lib) ==
  /\ InScript /\ calls < MaxCalls
  /\ calls' = calls + 1
  /\ slot' = Reset(slot, lib)
  /\ unreported' = unreported \ {lib}
  /\ inherited' = inherited \ {lib}
  /\ missed' = missed \ {lib}
  /\ promise' = IF lib = "pm" THEN Promise(promise.kept) ELSE promise
  /\ UNCHANGED outside

(***************************************************************************)
(* How a script ends without an error.                                     *)
(***************************************************************************)
\* A pre-script ends; the value it returns may override the request.
PreReturns ==
  /\ running /\ phase \in Pre
  /\ Over(promise.kept)
  /\ request' \in {request, <<test, phase>>}
  /\ UNCHANGED <<mode, scripts, test, first, phase, calls, input, sent, slot, pm, verdict,
                 recorded, unreported, tainted, stained, due>>

\* FETCH_SCRIPT sends the _request input.
FetchReturns ==
  /\ running /\ phase = "fetch"
  /\ Over(promise.kept)
  /\ sent' = input.request
  /\ UNCHANGED <<mode, scripts, test, first, phase, calls, request, input, slot, pm, verdict,
                 recorded, unreported, tainted, stained, due>>

\* A plausible bug: the collection's verdict replaces the test's own.
JudgedLast(outcome) == outcome

\* passed and failures after a post-script with that outcome.
Judged(outcome) ==
  IF phase = "post" THEN outcome
  ELSE [passed |-> verdict.passed /\ outcome.passed,
        failures |-> verdict.failures \cup outcome.failures]

\* A post-script ends with return results(), its own or the appended one.
ReturnResults(lib) ==
  /\ running /\ phase \in Post
  /\ verdict' = Judged([passed |-> slot.failed[lib] = {}, failures |-> slot.failed[lib]])
  /\ pm' = IF lib = "pm" THEN View(slot, pm) ELSE pm
  /\ Over(IF lib = "test" THEN promise.kept
          ELSE IF "pm" \in inherited THEN View(slot, pm) ELSE promise.seen)
  /\ slot' = Reset(slot, lib)
  /\ unreported' = unreported \ {lib}
  /\ due' = (due \/ lib \in missed)
  /\ UNCHANGED <<mode, scripts, test, first, phase, calls, request, input, sent, recorded,
                 tainted, stained>>

\* It returns a verdict of its own making, or something that is none.
ReturnOther ==
  /\ running /\ phase \in Post
  /\ Over(promise.kept)
  /\ \/ UNCHANGED <<verdict, due>>
     \/ \E passed \in BOOLEAN :
          /\ verdict' = Judged([passed |-> passed, failures |-> {}])
          /\ due' = (due \/ ~passed)
  /\ UNCHANGED <<mode, scripts, test, first, phase, calls, request, input, sent, slot, pm,
                 recorded, unreported, tainted, stained>>

ScriptReturns ==
  \/ PreReturns
  \/ FetchReturns
  \/ \E lib \in Library : ReturnResults(lib)
  \/ ReturnOther

ScriptCalls ==
  \/ \E s \in Store, k \in Key : Get(s, k) \/ Set(s, k) \/ Unset(s, k)
  \/ GetVariable
  \/ \E s \in Store : Clear(s)
  \/ \E k \in Key : SetVariable(k)
  \/ \E lib \in Library : FailAssertion(lib) \/ DropResults(lib)

\* The next turn of the runner itself, whatever the scripts do.
RunnerStep ==
  \/ CollectionDone
  \/ NextPhase
  \/ TestDone
  \/ ScriptReturns
  \/ Abort

Next ==
  \/ RunCollection
  \/ \E own \in SUBSET {"pre", "post"}, modules \in BOOLEAN : BeginTest(own, modules)
  \/ RunnerStep
  \/ ScriptCalls

\* The runner's future is polled to its end, and the wall-clock limit ends
\* every script that does not end by itself.
Spec == Init /\ [][Next]_vars /\ WF_vars(RunnerStep)

(***************************************************************************)
(* Properties.                                                             *)
(***************************************************************************)
\* The runner, the slot and the bookkeeping keep their shape.
TypeOK ==
  /\ mode \in {"idle", "collection", "single"}
  /\ scripts \subseteq Pre \cup Post
  /\ test \in 0 .. MaxTests /\ first \in 1 .. MaxTests + 1
  /\ phase \in {"next", "begun"} \cup Phases
  /\ running \in BOOLEAN /\ calls \in 0 .. MaxCalls
  /\ slot \in Modules
  /\ pm \in [Store -> [Key -> Nat]]
  /\ verdict \in [passed : BOOLEAN, failures : SUBSET Nat]
  /\ input.response \in 0 .. MaxTests
  /\ mode = "idle" => phase = "next" /\ ~running

\* A script finds in the stores what the scripts before it reported through
\* results() since the reset, overlaid with its own writes, and no
\* request-scoped variable of another test, unless it runs in a slot whose
\* last user of sandbox:pm ended without results() (docs/client/pm-scripting.md,
\* 4.5 and 4.8).
ScopesKept ==
  InScript /\ "pm" \notin inherited =>
    /\ View(slot, pm) = promise.seen
    /\ \A k \in Key : slot.variables[k] \in {Absent, test}

\* Variables of one collection do not bleed into the next (reset_pm_state),
\* unless some script of this one ran in a slot left unreported.
NoBleed ==
  InScript /\ ~tainted =>
    \A s \in Resettable, k \in Key :
      View(slot, pm)[s][k] = Absent \/ View(slot, pm)[s][k] >= first

\* A failure a post-script reported makes the test fail, whatever the
\* collection's post-script reports; and unless a script found failures of an
\* earlier one in its slot, a test fails for no other reason and lists only
\* failures of its own.
VerdictJust ==
  /\ due => ~verdict.passed
  /\ ~stained => (verdict.passed <=> ~due) /\ verdict.failures \subseteq {test}

\* The post-scripts are given the request that was sent and the response to
\* it, and a result is recorded with the request that was sent.  The inputs
\* outlive a run: a phase that fails to set one finds an earlier test's.
ExchangeConsistent ==
  /\ running /\ phase \in Post => input = [request |-> sent, response |-> test]
  /\ recorded = test => request = sent

===============================================================================
