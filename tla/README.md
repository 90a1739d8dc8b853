# hello_api in TLA+

`hello_api` is a Rust workspace for testing HTTP APIs: a JavaScript/TypeScript
runtime for scripts (`hello_sandbox`), parsers for request collections
(`hello_core`), a client that runs collections and flows (`hello_client`), a
terminal interface (`hello_client_tui`) and a mock server (`hello_server`).
This directory holds TLA+ models of the parts in which order, concurrency and
failure matter, and of the conversions between collection formats, TLC configurations
that check them on small instances, and theorems about eight of them (the pool,
the script runtime, the sandbox, the flow runner, the test runner, the terminal
session, the routing and the running mock server) checked by TLAPS.

Contents: [the system](#the-system) · [the modules](#the-modules) ·
[the runs](#the-runs) · [bounds](#bounds) · [fairness](#fairness) ·
[what is proved](#what-is-proved) · [disagreements found](#disagreements-found) ·
[what is not modelled](#what-is-not-modelled) · [plan](#plan)

## The system

| part | state it keeps | operations | interacts with | what is hard | what makes it correct |
|---|---|---|---|---|---|
| **Runtime pool** (`hello_sandbox/src/pool.rs`) | slots (idle, checked out, stale), runs and age of each runtime, the module loader's builder | `run` and its streaming variants, `register_user_module`, `pool_stats` | builds script runtimes; called by the sandbox, by the test runners, by user tasks on one `LocalSet` | callers interleave at awaits, futures are dropped, scripts fail, slots age, modules are registered late | a slot has one user; a failed, worn-out or outdated runtime is never reused; nothing is lost; every call returns |
| **Script runtime** (`runtime.rs`) | `RunState` in `OpState`, the out-of-memory flag, per run the atomics `cancel` and `timed_out` and a watchdog thread | `run` | V8, the ops, the pool | two threads and a heap callback race with the end of a run | the error reported is what happened; a run affects no later run; streams end; every run ends |
| **Ops** (`sdk/*.rs`, `sdk-ts/`) | counters and buffers in `RunState`; key-value and SQLite stores; timers | `console.*`, `emit`, `fetch`, kv, sqlite, timers, `pm.*`, `assert` | script runtime | limits reached in the middle of a script that catches exceptions | a run that succeeds stayed within its limits |
| **Timers** (`sdk/timer_sdk.rs`, `timer_globals.js`) | the callbacks of a runtime, the senders in `RunState`, the pending ops | `setTimeout`, `setInterval`, `clearTimeout`, re-arming | script runtime, its event loop | a timer fires while it is cleared; callbacks outlive the run that set them | a callback belongs to the run in progress; a cleared timer is silent; limits hold |
| **Sandbox front end** (`sandbox.rs`), **child process** (`child.rs`), **loader** (`loader.rs`) | configuration, the lazily built pool; worker processes; the code cache | `run`, `set_input`, `register_module`; spawn, write, wait | pool, runtime, timers | isolation levels take different paths; set-up before and after the pool exists; a worker that dies, answers late or is left alone | a script sees what was set up; an answer is the truth about its script; calls return and workers end |
| **Flow runner** (`hello_client/src/flow_runner.rs`) | the environment, the outcomes, the layers | `run_flow` | HTTP test runner | concurrent steps of a layer fail or capture the same variable; graphs with cycles, unknown or repeated ids | a step runs after what it depends on and sees its captures; the result does not depend on timing; a failure stops the flow and leaves nothing running |
| **HTTP test runner** (`http_runner.rs`), **sandbox test runner** (`runner.rs`) | environment, collection and global variables, history | `run_test`, `run_collection` | sandbox, network | phases that fail after earlier ones had effects | variables flow from phase to phase as documented |
| **Terminal interface** (`hello_client_tui`) | the list of tests and its tree, statuses, cursors, overlays, the editors of parameters and requests, a bounded channel from each runner thread | keys, messages, loads | HTTP test runner, parsers | messages of an old run arrive after a reload; positions in lists that change; threads blocked on a full channel | a result lands in its own row; cursors stay on rows; what is saved is what was edited; a run shown as running ends |
| **Parsers and adapters** (`hello_core`, `hello_client/src/main.rs`, `flow_parser.rs`, `hello_server/src/ingest`) | files on disk | import, export, `convert`, `split`, `merge` | everything above | each format has room for something else; scripts are wrapped on the way in and unwrapped on the way out; files are left from before | what is sent and the code that runs survive a conversion |
| **Routing** (`hello_server/src/registry.rs`, `ingest/sidecar.rs`) | the router, the buckets and their rotation counters | `build`, `lookup`, `apply_sidecar` | request handler, loader | grouping and sorting change who wins | the route the file decides on answers; an override takes effect |
| **Request handler, history, admin** (`server.rs`) | the registry behind an `ArcSwap`, the locked history | requests, `/_mock/*` | routing, watcher | several threads, swaps in between | one registry per request; the history is the latest requests |
| **Hot reload** (`watcher.rs`, `loader.rs`, `main.rs`) | the event channel, what was read | file events | notify, registry | edits during a reload, two files, a debounce that swallows an event | the server ends up serving what is on disk |

## The modules

| module | models | extends / instantiates |
|---|---|---|
| `SlotLease` | abstract: what a pool promises, slots leased to one task at a time | |
| `RuntimePool` | `pool.rs` | refines `SlotLease` |
| `RuntimePoolProofs` | theorems | `RuntimePool` |
| `SharedRuntime` | `runtime.rs`, the counting in `core_sdk.rs`, `kv_sdk.rs`, `http_sdk.rs`, and the pool's reaction to a result | |
| `SharedRuntimeProofs` | theorems | `SharedRuntime` |
| `ScriptTimers` | `timer_sdk.rs`, `timer_globals.js`: timers over the runs of one runtime | |
| `WorkerProcess` | `child.rs`: the host and its workers | |
| `Sandbox` | `sandbox.rs`: the calls of one owner, in the pool or in a worker | `ScriptTimers`, `WorkerProcess` |
| `SandboxProofs` | theorems | `Sandbox` |
| `FlowGraph` | dependency graphs and what a layering is | |
| `FlowLayers` | `compute_layers`, `compute_node_layer` | `FlowGraph` |
| `TaskGraph` | abstract: tasks start after what they need | |
| `FlowRunner` | `run_flow` with the layers given | `FlowGraph`; refines `TaskGraph` |
| `FlowRun` | the composition: search, then run | `FlowRunner`, instance of `FlowLayers`; refines `FlowRunner` |
| `FlowRunnerProofs` | theorems | `FlowRunner` |
| `RouteTable` | `registry.rs`, `sidecar.rs` as operators | |
| `RouteRegistry` | a collection loaded route by route, then overridden | `RouteTable` |
| `RouteRegistryProofs` | theorems | `RouteRegistry` |
| `MockServer` | handlers, history, watcher, loader, over the tables | `RouteTable` |
| `MockServerProofs` | theorems, with those about `RouteTable`'s operators they need | `MockServer` |
| `ScriptStores` | the state the modules `sandbox:pm` and `sandbox:test` keep in a slot, as operators | |
| `TestRunner` | `run_test`, `run_collection` of `http_runner.rs`, over `ScriptStores` | `ScriptStores` |
| `TestRunnerProofs` | theorems | `TestRunner` |
| `RequestEditor` | the two editors of `app.rs`, as operators: forms read from and written to a body | |
| `Session` | the loop of the terminal interface, `App`, the threads of `runner.rs` | `RequestEditor` |
| `SessionProofs` | theorems | `Session` |
| `TestCases` | what importers build and exporters take; the imports adapters add and take off | |
| `PostmanFormat`, `BrunoFormat`, `OpenCollectionFormat` | the adapters of `hello_core/src/adapters` | `TestCases` |
| `HttpBody`, `HttpFormat` | .http files: kinds of bodies, the parser line by line, the two writers | `TestCases`; `HttpBody` |
| `Conversion` | a disk with collections in five places; `convert`, `split` and `merge` of both programs | the formats |
| `MCPool`, `MCRuntime`, `MCFlow`, `MCServer`, `MCTests`, `MCSession`, `MCConversion`, `MCSandbox` | values of the constants for TLC | |

### RuntimePool

The pool is used from one thread, on a tokio `LocalSet`, so a step of the model
is the code between two awaits: `try_checkout` (three passes) with the first
poll of the script is `Checkout`; `checkin` with the return of the call is
`Checkin`. `Call` has the three ways out of the beginning of `execute_run`: a
slot, an isolated runtime, the yield loop (`Poll`). `Drop` is the caller giving
up the future at an await. A runtime is a record: scripts run in it, the loader
generation it was built with, and a history bit `clean` (no script failed in
it). `expired` says that an idle slot is older than `max_idle_duration`; time
may pass for any idle slot at any moment (`Expire`). The configuration
(`fallback`, and whether callers drop futures) is chosen in `Init`, so one run
covers all of them.

### SharedRuntime

The script thread (`pc`), one watchdog thread per run, and the pool's rule that
a runtime whose run failed is replaced. A script may do anything: write lines,
call ops past their limits and catch the exception or not, wait for an op, hit
the heap limit, return, throw, or never end. `cancel` and `timed_out` are read
and written in steps of their own, and V8's termination request is a set of the
runs it was made for, so that one can tell who ended a script. An event loop
that waits for an op (`parked`) runs no JavaScript and does not notice a
termination request: the wall-clock budget of a run is not enforced while it
waits. Dropping the future of a run is not modelled here: the runtime goes with
it (`RuntimePool.Drop`), and a watchdog without an isolate does nothing.

### FlowGraph, FlowLayers, FlowRunner, FlowRun

`FlowLayers` is the depth-first search with memo and marks, one step per turn of
the loop over the nodes (`Visit` and `VisitDeps` are the two halves of
`compute_node_layer`). `FlowRunner` is the rest of `run_flow`, told which layers
to use by *any* layering of the graph (`Begin`), which keeps it free of
recursion and open to proof. `FlowRun` puts the search in the place of `Begin`,
and the run checks that it implements `FlowRunner`: the search finds a layering
when there is one and fails when there is none. A step is a pair of a node and
an inner step; its value for a captured variable is the step itself, so the
environment says whose capture is in force. `run_test` is one abstract step
that returns with any set of captures, or fails.

### RouteTable, RouteRegistry

Paths are sequences of segments. `Bucket` is a group after the stable sort
(`Those` keeps the elements wanted, in order; it is a recursive function and not
`SelectSeq`, which the prover cannot expand), `FirstFor` its first entry for a
method, `RouterAt` what `matchit` finds (external: literal before parameter, from left
to right), `Lookup` the loop over the bucket with the early return when an entry
has no responses, `Annotated` the separate heuristic the history uses,
`Override` one step of `apply_sidecar`. `RouteRegistry` builds the list of
routes one at a time so that TLC sees every list. `FindsTheDecidingRoute` takes
the code's rule as given, that only the routes of the most specific pattern are
looked at, and asks whether grouping and sorting keep it; that the documents
have another rule is what the run `server_documented` shows.

### MockServer

`tables` holds every registry ever stored, the last one being
`state.registry`; a handler remembers the index of the one it loaded. Loading
the registry, looking up (with the `fetch_add` of the rotation counter) and
pushing to the locked history are steps of their own, because handlers run on
several threads. The watcher reads the two files in two steps, and files change
at any moment, also before the watch is registered and while a reload is under
way. Rotation counters are naturals here; the code's `AtomicUsize` starts again at
zero after 2^64 requests, where a rotation whose length is no power of two skips.
The operating system reports a write later, perhaps preceded by an event
of no interest; `Receive`, `Drain` (at most one further event), `ReadSpec`,
`ReadSidecar` and `Store` are the watcher's loop. `Random` picks any response.

### ScriptStores, TestRunner

`sandbox:pm` keeps its stores in module-level variables: per store a *delta*
written in this run and a *base* loaded from the runner's input at first use and
memoized. A module is evaluated once per slot, so both outlive the script;
`results()` reports base and delta merged and resets them. `ScriptStores` has
one operator per function of `pm.js`. `TestRunner` takes a test through its
phases (`NextPhase`), sets the inputs (`Input`), gets the slot as the last
script left it or a new one (`Checkout`; when the pool recycles is the business
of `RuntimePool`), lets the script call what it likes (`Get`, `Set`, `Unset`,
`Clear`, `SetVariable`, `FailAssertion`, `DropResults`), and ends it in any of
the ways it can end. Only `ReturnResults` of a post-script reaches the runner's
variables. `Abort` is the `?` of every phase. A value is the ordinal of the
test that wrote it, which says which test and which collection it is from.

The variables from `unreported` on are bookkeeping. `promise` holds the stores
as `docs/client/pm-scripting.md` (4.5, 4.7) describes them, and `ScopesKept`
says that a script sees just that, provided the scripts before it in the slot
did what 4.8 asks, to end with `results()`. Pre-scripts are not made to, so the
proviso is the interesting part: `NoBleed` and `VerdictJust` name it too, and
each is false without it.

### ScriptTimers, WorkerProcess, Sandbox

`ScriptTimers` is one V8 runtime and the runs in it, one after the other. `cbs`
and `next_id` are the JavaScript globals, `op` the pending `op_timer_set` of
each timer and `timers` the senders in `RunState`. JavaScript is single-threaded,
so `SetTimer`, `ClearTimer`, `PauseBody` and `EndCallback` are stretches of it;
`CompleteOp` is the `select!` in the op, in which both branches may be ready, and
`Deliver` the promise's handler up to the callback. Results of several ops are
delivered in any order. `BeginRun`, `EndRun`, `NewRuntime` say what a run leaves
in a runtime: callbacks and ops stay, `RunState` and its senders do not.

`WorkerProcess` is a host and its worker processes. The host spawns, writes the
job, waits; the worker reads the job, installs its filter, runs, answers, exits.
A worker may die at any moment, refuse its filter, or be let go by the host at
any await; nothing kills it then. `WorkerVerdict` classifies the output as
`run_in_child_process` does.

`Sandbox` chooses between them: `RunInPool` (the pool is created by the first
call that needs it, with the modules registered so far, later ones are passed
on) or `RunInWorker`. The pool is seen as its one caller sees it: `slot` is
*none*, *idle*, *busy*, *stale* or *lost*. A reused slot has the timers of the
runs before it, a new one has none. `FinishRun` needs the event loop to be
drained, which is deno_core's rule and taken as external.

### RequestEditor, Session

`Session` has an action per key and overlay, an action for each message taken
from the channel, and the runner threads: a thread sends `started`, runs the
test, sends `finished`, and at the end `done`, and waits while the channel is
full. `rx` is the run whose receiver the interface holds; starting another run
drops the receiver, and the old thread's sends fail from then on. A load yields
any of `Collections` or fails. `generation` is bookkeeping: it says which list of
tests a run was started for and a result is about. `RequestEditor` reads the
fields of a form out of a multipart body (`ScanLine`) and writes them back
(`Saved`). `EditorAssumption` leaves out names of fields with a semicolon, or with a
quotation mark at an end: `extract_form_field_name` (`app.rs:261`) cuts a name
there, so that another one is read than was written.

### TestCases, the formats, Conversion

A text is a sequence of pieces, and what the formats tell apart about a piece is
given by sets (`Json`, `Dynamic`, `BraceOpen`, ...), so that the models say what
a format keeps and where it puts it without spelling text. Each format has its
document (a tree of items, a directory of sections, a sequence of lines), an
import and an export. .http files are read line by line (`ParseLine`), with the
parser's silent end at a line that fits nowhere. What a line is depends on where
it stands: a line of a body that begins like a title or a script ends the body
(`Marked`), a line before the body that has a colon and a blank in it is a header
(`ReadsAsHeader`), a name is cut into descriptions, hashtags and parameters
(`Segments`), and a script block ends at the first `%}` in its code (`Closing`),
behind which the rest is read as lines of the next entry.

`Conversion` puts them on a disk with one place per format and lets both
programs run their commands. `RequestsSurvive` and `CodeSurvives` say exactly
when a conversion keeps what is sent and the code that runs: the right-hand side
(`RequestsFit`, `CodeFits`) lists the known losses of each format, and TLC finds
both a loss that is not listed and a listed loss that does not happen. In a .http
file a request survives unless

* its name is empty, or has a hashtag, a parameter or a stray `#` or `@` in it;
* its URL has a dynamic variable, or two of its headers have one name;
* its body is blank, has blank lines at an end, or would be read as something
  else: as a header (there are none, and the first line looks like one), as a
  file (one line with `<`), as a form or multipart body, as JSON or XML without a
  content type, or a line of it as a title or a script (`###`, `>`);
* something is left behind it that is read as a request, or that ends the
  parse while requests follow: a second script block, what follows a `%}` in
  the code of a block, or a block that does not end its line;
* it follows a request with neither headers, body nor scripts, and its name has
  a colon and a blank in it, so that its title is taken for a header;
* the terminal interface writes it and it has a pre-request script.

Its code survives if nothing of its pre-request script is ever run and the first
block, up to the first `%}`, is the code run after it. These lists hold for
methods of letters, URLs with a path (the parser takes the line after a URL
without a slash for its path) and without blanks, and names, headers and code
without blanks at their ends.
`RequestsSurvive` says nothing of one case, `Muddled`: two test cases are
written to one file while an old file of the directory is left, which may
happen to hold the lost one.

## The runs

| run | result | shows |
|---|---|---|
| `pool` | holds | `ExclusiveSlots`, `NoReuseAfterError`, `LoaderCurrent`: no script runs in a shared, failed or outdated runtime. `LostOnlyByDrop`: only a dropped future loses a slot. `ImplementsLease`. `EveryCallReturns`: also those in the yield loop. |
| `pool_leak` | violated | a dropped future leaves its slot checked out for ever |
| `runtime` | holds | `VerdictFaithful`: a script that was terminated, ran out of heap or outlived its deadline is never a success, out of memory wins, a timeout is the run's own, and a quota or rate limit is blamed only when a line was lost or an op denied. A script killed for an earlier run is reported as if it had died of itself. `StrayKillIsLateWatchdog`: the only way a run disturbs another is its late watchdog after a success. `EveryRunEnds`. |
| `runtime_stray` | violated | that late watchdog ends an innocent script |
| `flow` | holds | the order of steps, the captures they see, that the order of answers does not matter, what a failure leaves, that the search is right and `run_flow` returns |
| `server` | holds | the history is the tail of what was recorded; rotation is fair across threads and reloads; a request is told by one registry; hot reload converges. `FindsTheDecidingRoute` against a definition on the list alone; `OverrideTakesEffect`. |
| `server_documented` | violated | a request that a less specific route matches is not answered by it; it is in the history nevertheless, and in one of size zero |
| `tests` | holds | `ScopesKept`, `NoBleed`: what scripts see of each other's variables. `VerdictJust`: a reported failure fails its own test and no other. `ExchangeConsistent`: post-scripts get the request sent and its response. |
| `session` | holds | `ResultsLand`, `StatusesFit`: a result is shown in the row of its own test, however loads, reruns and threads overlap, and a row shown as running is, or was orphaned. `CursorsInRange`: every cursor is on a row, and the tree lists the open tests in order. `SavedIsReadBack`: the form saved is the form read. `RunsEnd`: a run shown as running ends, also over a full channel. |
| `conversion` | holds | `RequestsSurvive`, `CodeSurvives`: what each format loses, and nothing else, is lost. `SplitAndMergeKeep`: when splitting and merging keep every entry. |
| `http_prescript` | violated | a script that runs before its request is written to a .http file as one that runs after it |
| `sandbox` | holds | `CallbacksJustified`, `SilentAfterClear`: what a timer may do, across runs of one runtime. `RunsSeeTheSetup`: inputs are seen whenever they were set, modules too in the pool, and none in a worker. `WorkerAnswerFaithful`: an answer is how the script ended. `NothingLingers`: calls return and every worker ends. |

Every property of a run that holds has a mutant of the code listed in
`PROJECT.json`, a change somebody might make, with which TLC finds it violated;
the definitions under a comment "A plausible bug" are those.

## Bounds

* `pool`: three tasks on two slots (so that a task finds none), two calls each,
  two runs per slot (a slot wears out within the run), one registration. The
  loss of all slots, the recycling of a slot by another task's scan and the
  hand-over between waiting tasks all occur. `MaxCalls` and `MaxGen` bound
  callers only.
* `runtime`: two scripts, the shortest history in which one can disturb the
  next; one rate-limited resource with limit 1 (all are counted alike); one log
  line allowed and up to two tried, plus the return value's line, so the quota
  is missed, met and exceeded. The bound on calls leaves out only further calls
  past the limit, which repeat the one counted.
* `flow`: all 512 graphs on three nodes with the middle one a group of two,
  cycles and self-loops included, graphs with a repeated id, an unknown id, no
  nodes, an empty group; two variables. Chains of three layers, diamonds over a
  shared dependency and a memo hit need three nodes.
* `server`, the lists of routes: three routes out of eighteen (two methods, a literal and two
  conflicting parametric patterns, no response or one of two), one override.
  Duplicates, a general route before a specific one and conflicts all occur. A
  collection is loaded without the server, so the lists are explored next to
  one state of it.
* `server`, in use: two connections, together three requests, two edits and one clear,
  at most three of these in one behaviour; history sizes 0 and 2. Three
  requests fill and turn the history; two edits overlap a reload.
* `tests`: two tests, in one collection, in two, or run singly; up to four scripts
  each; one store that is reset and one that is not, one variable name; two
  calls by all scripts together (reports at the end of a script not counted).
  A write in one collection seen in the next, a base memoized before the reset,
  a failure listed by the wrong test need at most two calls and two tests.
* `session`: collections of no test, one folder of two and two folders of one, a
  form with a nameless part, two runs, a channel of one message (so that a
  sender waits), three runs, loads and edits together
  (`MaxInputs`); the keys that only move are unbounded. A second run over a first in progress, a load
  under a run, a collapsed folder under the cursor need no more.
* `conversion`: thirty-two disks, each with collections of one to four requests
  chosen so that every construct of every format occurs, and three commands: two
  conversions there and back and one more. Longer chains meet no new document.
  Thirteen of the disks have one or two requests each with a name, body or script
  that .http files read differently; leaving out any one condition of `FitsHttp`,
  `FitsHttpFile`, `FitsHttpCode` or `Apart` that is about them makes TLC find a
  violation. `http_prescript` needs one command.
* `server_documented`: one request on one list of two routes, with a history of
  size zero.
* `sandbox`: two calls, the shortest history in which a run leaves something to
  the next; two timers, intervals called at most twice; one input and one module
  set at any moment; one timer in a streaming untrusted script (`MaxStreamed`),
  whose timers are those of any other script in the pool. The limits are bounds
  on what a script does, not on the code: a script that sets timers for ever is
  cut off. What else a body may wait for is `SharedRuntime`'s; here it goes on
  only after a callback.

Deadlock is not checked: every model stops when its callers have made their
calls, which is not an error.

## Fairness

* `RuntimePool`: a task that was woken is polled (`Poll`), and a script ends
  (`Checkin`, `EndIsolated`), because its watchdog ends it. Callers need not
  call, nor time pass. Polling is weakly fair: once a slot stays available
  the yield loop gets it; a task that could be overtaken for ever would need
  infinitely many calls.
* `SharedRuntime`: threads are scheduled, a deadline passes, a pending op
  completes (every op of the SDK has a delay or a client timeout of its own).
  Noticing a termination request is strongly fair, because a script may wait
  for one op after another and is interruptible only in between. Nothing is
  assumed of the script.
* `FlowRun`: the flow is polled, and a step ends: its request has the client's
  timeout, its scripts have a watchdog.
* `Sandbox`: delays elapse and results are delivered; a stretch of a script's own
  code ends (by itself or by its watchdog, which is `SharedRuntime`'s); the pipes
  and the workers progress, and a worker's own watchdog ends a script that never
  does. Nothing is assumed of the host's deadline, of the caller's patience, or of
  a worker dying.
* `Session`: the threads are scheduled and a test ends (its request has a
  timeout, its scripts have a watchdog); the loop polls the channel. No key is
  assumed to be pressed.
* `MockServer`: writes are reported and the watcher thread runs. Handlers are
  not assumed to progress; no property needs it.

## What is proved

`RuntimePoolProofs`, for every set of tasks, number of slots and run limit,
from `PoolAssumption` (sizes are naturals; the owners *free* and *lost* are no
tasks): `TypeCorrect`, `SlotsExclusive`, `ErrorsNeverLeak`, `RunsStayBounded`,
`LoaderStaysCurrent`, `NoSlotLost`, `PoolImplementsLease`. The inductive
invariant `PoolInv` is the conjunction of the type invariant and the properties:
none is inductive alone. That a slot is not given to two tasks, for
instance, needs that the slot of a running task is checked out, that in turn
that no scan recycles a checked-out slot and that a task's `at` is set exactly
while it runs (part of `TypeOK`). `NoReuseAfterError` of running scripts rests
on the same of idle slots, and `RunsBounded` of running ones on the strict bound
for idle ones. The refinement maps a slot to its owner: the task whose `at`
names it, *lost* if it is checked out and nobody's, *free* otherwise; each
action is then a grant, a release, a move to a private runtime, an abandonment
or a stutter.

`FlowRunnerProofs`, for every set of flows and variables: `DependenciesComeFirst`,
`NothingRunsOnReturn`, `FailureStopsTheFlow`, `FlowImplementsTaskGraph`. The
invariant `FlowInv` says that while the flow runs it is laid out, that a step
has started only if its layer has been reached, and that all steps of the
layers behind succeeded. The properties follow because in a layering whatever a
node needs is in a lower layer.

In the same module, of captures: `DependenciesAreSeen`, `LastCapturesWin`. The
invariant `CaptureInv` says that only steps that returned
successfully captured anything, that the outcomes collected while the flow runs
are those of the layers behind, that the environment has the last capture of each
variable among them, and that a step that started found the captures of all it
needs. That merging a layer keeps the last capture rests on a lemma: of steps in
one layer, one comes last in the order of outcomes.

`SharedRuntimeProofs`, for any number of runs, every set of rate-limited
resources, all limits, with watchdogs and without: `TypeCorrect`,
`VerdictsAreFaithful`, `StrayKillsAreLate`, `TrustedRunsAreAlone`. The invariant
`RuntimeInv` has seven parts of its own. `Progress` says which runs are behind and
which are to come; `FailuresAreGone` that the runtime of a failed run is not the one
in use; `FlagsOfRuns` that a run's `cancel` and `timed_out` were set by that run and
its own watchdog; `RequestsHaveReasons` that a termination request was made for
the run in progress or by a watchdog of an earlier, successful one;
`EndsAreEnds` that how a script ended fits the requests there are; `CountsAreKept`
that the flags of the limits say what was counted; `OutcomesAreTrue` what is said
of the runs that are over. `VerdictsAreFaithful` follows because the flags read at
the end of a run are its own and the out-of-memory flag does not outlive a failed
run's runtime. It says which reports are excluded by what happened, and no more:
a script that a late watchdog of an earlier run killed is reported as `Runtime`, or
as `RateLimitExceeded` after a denial, like one that died of itself
(`runtime_stray`), and a denial that was caught is blamed for a later death.

`SandboxProofs`, for any number of calls, timers, inputs and modules, and every
interval limit: `SetupIsSeen`, `AnswersAreTrue`, `CallbacksAreJustified`,
`ClearedTimersAreSilent`. `SetupIsSeen` says that a script sees all inputs set before
its call, and in the pool all modules registered before it; a worker is sent the
inputs and no modules. `SetupInv` relates the modules of the sandbox, of the
pool's loader and of a runtime that may be reused. `WorkerInv` says that a
worker's answer, and a success of its exit, fit how its script ended, and that
only an exited worker's output was classified. `TimerInv` says that only timers
of the run in progress are armed (a run ends drained, or takes its runtime
along), that what is cleared is not registered, and that an armed timer was
called as often as it was armed before, below its limit if it repeats.

`TestRunnerProofs`, for any set of stores (with any of them resettable), names and
results, any number of tests and calls, from `TestRunnerAssumption` (the
resettable stores are stores, the bounds are naturals): `TypeCorrect`,
`ScopesAreKept`, `CollectionsDoNotBleed`, `VerdictsAreJust`,
`ExchangesAreConsistent`. The invariant `TestInv` has six parts. `ShapeInv` says
which phases are behind, in progress and to come, whatever scripts a test has.
`ExchangeInv` says that from the end of the fetch on, what was sent is the
runner's request: no script that could change it runs after it. `SlotInv` says
that modules nobody has to answer for (the slot is new, or the scripts before
ended with `results()`) are as a new slot has them: this is what the proviso of
`ScopesKept` buys. `VerdictInv` says that while a script runs that inherited no
failure, what each module holds of failures is what the script met and was not
told of, and all of it of its own test. `ScopeInv` says that the promise is the
runner's stores between scripts, and within one agrees with the modules on what
was written and what a missing variable falls back to. `BleedInv` says that no
store that is reset holds a value from before the reset: not the runner's, and
not the deltas or memoized bases of the modules, unless a script somebody has to
answer for brought one along.

`SessionProofs`, for any collections, verdicts, size of the channel and number of
runs, loads and edits, from `SessionAssumption` (a collection is a list of
folders of tests; *running* is no verdict): `ResultsAreInTheirRows`,
`StatusesAreRight`. The invariant `SessionInv` says that runs whose receiver was
dropped are unheard (`ShapeInv`); that the messages of the run listened to fit how
far it is: its last word comes last, a test that has started is the one the run
is at or has its verdict under way, and a run of all tests is of the rows there
are and has given or will give each row it got past its verdict (`HeardInv`);
and that a row shown as running was orphaned, or the run is at it, or its verdict
is under way (`RowInv`). The delicate case is a load during a run: the rows are then
not those the run was started for, so the proof has to show that the receiver is
dropped in the same step.
`FlattenType` says that flattening folders gives a sequence of tests, for any
folders.

Its second half is about what is on show, for any directories, requests and texts
typed, from `SessionAssumption` and `EditorAssumption` (the lines of a form can be told
apart): `CursorsStayInRange`, `SavedFormsAreReadBack`. `ViewInv` is inductive together
with `SessionInv`. `ListInv` says that the folders lie one behind the other and end
with the last test, that there is a row per request, and that the tree is what
`rebuild_tree` makes of the folders; `OverlayInv` that a text under way fits the field
it is for, which confirming it relies on, and that every field of a form has a
name and a value without blank lines at its end, which is what the scan leaves of
a value. `TreeLaw` shows, folder by folder, that the tree lists what is open, in
order and once; `FoldersLaw` that a loaded collection has such folders. `ReadBack`
says that scanning the lines of any such form gives the form, field by field and line
by line (`FieldIsRead`, `ValueIsRead`): that no value runs into the next field and
no line is lost depends on the value being trimmed and the scan starting each part
afresh. `DeletedRow`, `AddedHeader`, `AddedField` and `ConfirmedEdit` carry the
editor through its keys.

`RouteRegistryProofs`, for any routes a file can declare, lists of routes and of
overrides of any length, from `RegistryAssumption` (paths are sequences, *any* is
no request's method): `DecidingRouteIsFound`, `OverridesTakeEffect`,
`OnePatternWins`. The invariant is only that the list holds such routes; the work
is in the operators. `ThoseFilters` says that keeping the wanted elements of a
sequence keeps the first of them that has any further property the first; it is
used three times, for the grouping by path and for both halves of the stable sort,
and gives that the first entry of a bucket for a method is the route that
decides (`BucketDecides`). `OnePatternWins` shows that the other theorems do not
hold because nothing is found: preference between patterns is strict and
transitive, and total between patterns that match one path and do not conflict, so
a table that can be built has one winner. `OverridePlace` says where an override
goes and that all else stays.

`MockServerProofs`, for every file the adapters can produce, any number of
connections, requests, reloads and clears, and every size of the history, from
`ServerAssumption` (files are lists of routes with lists of responses; patterns
are not empty and have ranks of their own): `HistoryIsAlwaysTheTail`,
`TypeCorrect`, `RotationIsFair`, `HistoryTellsOneRegistry`. `HistoryInv` says that
the history is as long as there is room for and equals the end of what was
recorded since the last clear, index by index; pushing onto a full history drops
exactly the entry that left the tail. `ServerInv` says that what is in service,
or read and about to be, did load (`TablesInv`); that every registry has a counter
for each of its entries (`CountersInv`); that what a handler found is what the
registry it loaded says, whatever was stored since (`HandlersInv`); and that the
number of times a response was chosen is determined by the counter: its quotient
by the length of the rotation, and one more for the responses up to the
remainder (`RotationInv`). Fairness is a consequence, because no two such numbers
differ by more than one. The lemmas they rest on are about the operators of
`RouteTable`: that grouping, sorting and overriding keep routes routes, that a lookup
returns an entry of the table, that the heuristic of the history has a first
pattern to name whenever one is similar (any non-empty set of patterns has a first
one, by the least length and among those the least rank), and about
division (`Division`, `NextTurn`).

Only model-checked: liveness (`EveryCallReturns`, `EveryRunEnds`, `FlowEnds`,
`WatcherConverges`, `RunsEnd`, `NothingLingers`), which the prover does not
reach; the conversions, which are recursive over documents; and that the search finds
a layering
(`ImplementsFlowRunner`), because it is recursive over the graph. The `TypeOK` of
`MockServer` and `TestRunner` is proved and not checked by a run; that of
`FlowLayers` only documents the types.

## Disagreements found

Four runs show the code doing something else than a comment or a document
says; `PROJECT.json` quotes both sides.

1. A dropped future loses a pool slot for good (`pool_leak`).
2. A watchdog that passed its check ends the next script in the runtime (`runtime_stray`).
3. The mock server (`server_documented`). `lookup` searches only the routes of the
   most specific pattern (`registry.rs:117`): `GET /users/me` is not found behind
   `POST /users/me` although `ANY /users/{id}` matches; by the steps of
   `docs/server/spec.md:279-285` a route whose method differs is skipped and the
   search goes on. `/_mock/history` is documented to list the last N matched
   requests (`:383`), N being the size of the buffer (`:437`); it lists unmatched ones
   too, and one entry when the size is zero (`server.rs:75`).
4. A pre-request script is written to a .http file with the mark of a
   post-response script (`http_prescript`; `main.rs:505`, against `README.md:61`).
   The terminal interface uses the right mark in the wrong place, behind the
   body, where it is read as body; so does the example at `README.md:69-73`.

Two more have no run, because no order of steps is needed to see them.

5. `split` is to write "one file per request entry" (`docs/client/cli.md:41`), but
   begins a file at every line with `###` (`main.rs:722`). The entry of
   `README.md:40-41`, with a title and a `@param` line, becomes a file with the bare
   title and one with the request, which is named after the parameter and reads
   as a request without a name. `SplitAndMergeKeep` has this under `Apart`, as one of
   the conditions under which a file is split into its entries.
6. `depends_on` of the inner steps of a parallel group is parsed and ignored
   (`flow_runner.rs:201`, against `flow.rs:104`).

Smaller ones, noted while reading and not given a run.

**Sandbox.** The wall-clock budget is not enforced while a script waits for an
op. A rate limit is blamed on the last resource denied, not the first
(`runtime.rs:60`). The return value's line counts against the log quota.
`PoolConfig::high_isolation` "never holds more than one V8 isolate", but
concurrent calls each build one. `child.rs:8` and `:386` claim a hard wall-clock
limit on the whole life of the child; the write of the job is not under it, and
a child whose host gave up is not killed (`kill_on_drop` is not set) but lives
until its own watchdog. The message of a filter that could not be installed is
written and then lost, because the exit status is looked at first. Whether a
script that runs too long is a `Timeout` or a `ChildProcess` error is a race.
Workers know nothing of registered modules, capabilities, extra packs and
limits of timers. Untrusted streaming runs are not in a process of their own.
`max_interval_calls = 0` calls an interval once. `docs/timer_sdk.rs:97` and a
comment in `timer_tests.rs` say that pending timers are cancelled at the end of
a run; they keep the run alive. That no callback of one run is called in the
next rests on the pool, which drops the runtime of a failed run.

**Script modules.** Variables of a collection that ended with a pre-script that
touched `pm` and no post-script are seen by the next collection on the same
runner (`http_runner.rs:1279` says they do not bleed), and those a pre-script
sets are lost if its slot is recycled before a post-script reports. `unset`
cannot remove a variable an earlier test set. Calling `results()` twice is
called harmless (`docs/client/postman.md:129`), but the first call takes the
failures and the writes with it and its value is dropped. `pm.variables.has`
calls a function that does not exist (`pm.js:185`).

**Mock server.** `POST /_mock/reload` is documented to re-read
the file and only counts routes (`docs/server/spec.md:385`, `server.rs:224`).
`/_mock/history` names the longest pattern that looks like
the path, not the one that answered. An edit between loading and watching is
never reported (`main.rs:104`). An override file that does not parse is ignored
in silence (`loader.rs:33`).

**Terminal interface.** A row stays "Running" for ever after its run failed or
was replaced, and the replaced run's thread goes on sending requests unheard.
Deleting the header with the boundary and saving drops the form's body; saving
drops the other headers of a form's parts; the value of a part without a name
runs into the next field; a value that looks like the delimiter is not read
back. Adding a header with the cursor on the first row computes `1 - 2`
(`app.rs`, near line 480). Opening a collection merges its env files into the
parameters before the load, and a load that fails leaves them. Rerun and
conversion read the files again, without the edits.

**Conversion.** Behind two scripts of one request written to a .http file all later
requests of the file are lost. A Bruno re-import puts the imports in front twice, after which
the scripts do not run, and indents the lines of a body after the first once
more each time. The Bruno exporter writes the query of a URL twice. A
`vars:pre-request` or OAuth 2 section before `script:pre-request` is lost. The
resolver generated for Postman's dynamic variables returns before the user's
pre-request script, and exporting and importing again declares it twice. The
command line takes any directory for a Bruno collection, so converting a
directory of .http files yields an empty one without a word, and it cannot
convert a single `.bru` file. Exports into a directory mix with the files there,
cases with one path overwrite each other, and a case with an empty name goes
into a hidden file. In .http files, a line that fits nowhere ends the file
silently, a line of a body that begins with `>` or `###` ends the body, a name with
`#` or `@` is cut or ends the file, code with `%}` in it is cut there, a body of one line that begins with `<` is read as a file, a first
body line that looks like a header is one if there are none, and a body file
that is missing fails the whole import. `README.md:31`, `:61`, `:71`,
`docs/client/cli.md:53`, `docs/client/bruno.md:209` and
`docs/client/adapters.md:200` promise more than this.

## What is not modelled

* The grammar inside a line and the parsing of documents (`hello_core`'s JSON,
  YAML and curl parsing, the OpenAPI and other ingest adapters of the server,
  `flow_parser.rs`, `render.rs`, import hoisting, transpiling): functions on text
  without state. Formats are modelled from the level of lines and fields up.
* Rendering of the terminal, its debug log, search and scrolling; the parsing of
  command-line arguments and reports: output only.
* `hello_client/src/runner.rs` drives the phases of a test through generated
  scripts; how it reads .http files is modelled (`HttpBody`, `HttpFormat`), the
  phases are those of `TestRunner` spelled as text.
* The other script packs (SQLite, hashing, text): wrappers of libraries. The
  module loader and the code cache: a lookup and a cache that is content-addressed.
  Unused sources of the client.
* V8, deno_core, tokio, matchit, notify, reqwest, seccomp: external, modelled by
  what the code relies on.
* Request guards of routes, which no adapter produces. URL and method allowlists
  and key namespaces of the ops: comparisons of strings.

## Plan

Done, in this order: the pool and its abstract specification, the script runtime,
the flow runner with its search and abstract specification, the test runner,
routing, the running mock server; the terminal interface, the formats and their
conversion, the sandbox with its timers and worker processes; theorems about the
pool, the flow runner with its captures, the script runtime, the sandbox, the
server's history and rotation, the scopes and verdicts of the test runner, the
results, statuses, cursors and forms of the session, and lookups.

What would come next:

1. A composition of `SharedRuntime` with `ScriptTimers`, so that a termination
   request meets a callback, and of `Sandbox` with `RuntimePool` for several
   callers.
2. The curl and OpenAPI readers at the level of the other formats, and a
   requirement of `Conversion` between runs of `TestRunner`: a converted
   collection has the verdicts of the original.
