-------------------------------- MODULE Session --------------------------------
(***************************************************************************)
(* The terminal interface of crate/hello_client_tui: the loop of run_tui   *)
(* with its overlays, the state of App, and the threads that run tests and *)
(* report through a bounded channel (runner.rs).  A key is an action, and  *)
(* so is a message taken from the channel; threads run in between.         *)
(*                                                                         *)
(* Files change as they like: every load yields one of Collections, a      *)
(* sequence of folders given by their tests, each with its request, or     *)
(* fails.  One parameter stands for the many of the table of parameters.   *)
(***************************************************************************)
EXTENDS RequestEditor

CONSTANTS Collections,  \* what loading may yield: sequences of sequences of requests
          Name,         \* the name of a parameter
          Values,       \* the values a parameter may have, Blank among them
          Verdicts,     \* of a test
          DirectoryOf,  \* external: the directories, each with its entries, those of
                        \* the browser: <<"parent" | "dir", directory>>, <<"file">>
          Capacity,     \* of the channel (64 in the code)
          MaxRuns,      \* bound: runs started
          MaxInputs     \* bound: runs, collections opened, edits of the editors together

Requests(collection) == UNION {Range(folder) : folder \in Range(collection)}

\* A collection is a sequence of folders, a folder a sequence of requests; a
\* verdict is not the status of a test that is under way (TestStatus); one can
\* go from a directory only to directories.
ASSUME SessionAssumption ==
  /\ \A collection \in Collections :
       /\ collection \in Seq(Seq(Requests(collection)))
       /\ \A request \in Requests(collection) :
            /\ request.headers \in Seq(Range(request.headers))
            /\ request.body \in Seq(Range(request.body))
  /\ "running" \notin Verdicts
  /\ DOMAIN DirectoryOf # {}
  /\ \A d \in DOMAIN DirectoryOf :
       /\ DirectoryOf[d] \in Seq(Range(DirectoryOf[d]))
       /\ \A entry \in Range(DirectoryOf[d]) :
            entry[1] \in {"parent", "dir"} => entry[2] \in DOMAIN DirectoryOf

VARIABLES overlay,    \* which show_ flag is set: "none", "browser", "editor", "params";
                      \* or the loop has ended: "quit", "panic"
          loaded,     \* whether sources is not empty
          generation, \* ordinal of the load that tests and cases are from
          folders,    \* App::folders
          tests,      \* App::tests: status, and the result if there is one
          cases,      \* App::cases: the request of each test
          tree,       \* App::tree
          cursor, phase,
          param,      \* the value of the parameter Name in App::params
          browser, editor, params,  \* the overlays
          runs,       \* the runner threads ever spawned, with their channels
          rx,         \* the channel listened to: an index of runs, 0 for none
          inputs      \* bound: collections opened and edits

app == <<generation, folders, tests, cases, tree, cursor, phase>>
overlays == <<browser, editor, params>>
vars == <<overlay, loaded, app, param, overlays, runs, rx, inputs>>

(***************************************************************************)
(* The tree of tests.                                                      *)
(***************************************************************************)
FolderItem(f) == <<"folder", f>>
TestItem(t) == <<"test", t>>

\* rebuild_tree: a single folder has no row of its own.
Tree(fs) ==
  FlattenSeq([f \in DOMAIN fs |->
    (IF Len(fs) > 1 THEN <<FolderItem(f)>> ELSE <<>>)
    \o IF Len(fs) > 1 /\ fs[f].collapsed THEN <<>>
       ELSE [i \in 1 .. fs[f].count |-> TestItem(fs[f].start + i)]])

\* The folders of a collection; load_collection leaves out empty ones.
FoldersOf(collection) ==
  [f \in DOMAIN collection |->
     [start |-> Len(FlattenSeq(SubSeq(collection, 1, f - 1))),
      count |-> Len(collection[f]), collapsed |-> FALSE]]

Pending == [status |-> "pending", result |-> <<>>]

\* The cursor starts on the first test, not on its folder.
FirstTest(fs) == IF Len(fs) > 1 THEN 1 ELSE 0

\* App::new, apply_collection, apply_rerun
Apply(collection, p) ==
  /\ generation' = generation + 1
  /\ folders' = FoldersOf(collection)
  /\ cases' = FlattenSeq(collection)
  /\ tests' = [i \in DOMAIN cases' |-> Pending]
  /\ tree' = Tree(folders')
  /\ cursor' = FirstTest(folders')
  /\ phase' = p

\* An overlay that is not shown is built anew when it is opened.
NoBrowser == [at |-> CHOOSE d \in DOMAIN DirectoryOf : TRUE, cursor |-> 0]
NoEditor == Opened(0, [method |-> Blank, url |-> Blank, headers |-> <<>>, body |-> <<Blank>>])

NoParams == ParamRows(<<>>)

CloseOverlays == browser' = NoBrowser /\ editor' = NoEditor /\ params' = NoParams

Init ==
  /\ overlay = "none"
  /\ loaded \in BOOLEAN
  /\ \E collection \in IF loaded THEN Collections ELSE {<<>>} :
       /\ folders = FoldersOf(collection)
       /\ cases = FlattenSeq(collection)
       /\ phase = IF cases = <<>> THEN "empty" ELSE "idle"
  /\ generation = 0
  /\ tests = [i \in DOMAIN cases |-> Pending]
  /\ tree = Tree(folders)
  /\ cursor = FirstTest(folders)
  /\ param = Blank
  /\ browser = NoBrowser /\ editor = NoEditor /\ params = NoParams
  /\ runs = <<>> /\ rx = 0
  /\ inputs = 0

(***************************************************************************)
(* Runner threads.                                                         *)
(***************************************************************************)
\* spawn_runner, spawn_single_runner, for the tests of those indices.
Spawn(which, single) ==
  [generation |-> generation', which |-> which, single |-> single, at |-> 1,
   stage |-> "building", channel |-> <<>>]

\* The receiver of a channel that is no longer listened to is dropped.  The
\* thread goes on with its tests, but nothing it reports is ever seen.
Unheard ==
  [i \in DOMAIN runs |-> [runs[i] EXCEPT !.channel = <<>>, !.stage = "unheard", !.at = 1]]

Budget == Len(runs) + inputs < MaxInputs

Listen(run) ==
  /\ Len(runs) < MaxRuns /\ Budget
  /\ runs' = Append(Unheard, run)
  /\ rx' = Len(runs) + 1

\* A plausible bug: a single run ends without a word.
LastWordOfFullRuns(run) == IF run.single THEN <<>> ELSE <<[what |-> "done"]>>

\* What a run reports when all its tests are over.
LastWord(run) == <<[what |-> IF run.single THEN "done single" ELSE "done"]>>

\* Thread r goes on as next and sends messages; a full channel holds it up.
Sends(r, next, messages) ==
  /\ Len(runs[r].channel) < Capacity
  /\ runs' = [runs EXCEPT ![r] = [next EXCEPT !.channel = @ \o messages]]

\* The HTTP runner is built; a failure ends the run, as that of a test does.
Build(r) ==
  /\ runs[r].stage = "building"
  /\ Sends(r, [runs[r] EXCEPT !.stage = "ready"], <<>>)

Begin(r) ==
  /\ runs[r].stage = "ready" /\ runs[r].at <= Len(runs[r].which)
  /\ Sends(r, [runs[r] EXCEPT !.stage = "testing"],
           <<[what |-> "started", test |-> runs[r].which[runs[r].at]]>>)

TestEnds(r) ==
  /\ runs[r].stage = "testing"
  /\ \E verdict \in Verdicts :
       Sends(r, [runs[r] EXCEPT !.stage = "ready", !.at = @ + 1],
             <<[what |-> "finished", test |-> runs[r].which[runs[r].at],
                status |-> verdict, generation |-> runs[r].generation]>>)

RunFails(r) ==
  /\ runs[r].stage \in {"building", "testing"}
  /\ Sends(r, [runs[r] EXCEPT !.stage = "over"], <<[what |-> "error"]>>)

RunEnds(r) ==
  /\ runs[r].stage = "ready" /\ runs[r].at > Len(runs[r].which)
  /\ Sends(r, [runs[r] EXCEPT !.stage = "over"], LastWord(runs[r]))

Thread(r) ==
  /\ Build(r) \/ Begin(r) \/ TestEnds(r) \/ RunFails(r) \/ RunEnds(r)
  /\ UNCHANGED <<overlay, loaded, app, param, overlays, rx, inputs>>

(***************************************************************************)
(* Messages taken from the channel by the loop of run_tui.                 *)
(***************************************************************************)
Looping == overlay \notin {"quit", "panic"}

\* A plausible bug: a result is stored and the status of its row forgotten.
HandleHalf(m) ==
  CASE m.what = "started" ->
         /\ phase' = "running"
         /\ tests' = [i \in DOMAIN tests |->
                        IF i = m.test THEN [tests[i] EXCEPT !.status = "running"]
                        ELSE tests[i]]
    [] m.what = "finished" ->
         /\ tests' = [i \in DOMAIN tests |->
                        IF i = m.test THEN [tests[i] EXCEPT !.result = <<m>>] ELSE tests[i]]
         /\ UNCHANGED phase
    [] m.what = "done" -> phase' = "done" /\ UNCHANGED tests
    [] m.what = "done single" -> phase' = "idle" /\ UNCHANGED tests
    [] m.what = "error" -> phase' = "error" /\ UNCHANGED tests

\* on_test_started, on_test_finished, on_done, on_done_single, on_error: a
\* row that does not exist is left alone.
Handle(m) ==
  CASE m.what = "started" ->
         /\ phase' = "running"
         /\ tests' = [i \in DOMAIN tests |->
                        IF i = m.test THEN [tests[i] EXCEPT !.status = "running"]
                        ELSE tests[i]]
    [] m.what = "finished" ->
         /\ tests' = [i \in DOMAIN tests |->
                        IF i = m.test THEN [status |-> m.status, result |-> <<m>>]
                        ELSE tests[i]]
         /\ UNCHANGED phase
    [] m.what = "done" -> phase' = "done" /\ UNCHANGED tests
    [] m.what = "done single" -> phase' = "idle" /\ UNCHANGED tests
    [] m.what = "error" -> phase' = "error" /\ UNCHANGED tests

Receive ==
  /\ Looping /\ rx # 0 /\ runs[rx].channel # <<>>
  /\ Handle(Head(runs[rx].channel))
  /\ runs' = [runs EXCEPT ![rx].channel = Tail(@)]
  /\ UNCHANGED <<overlay, loaded, generation, folders, cases, tree, cursor, param,
                 overlays, rx, inputs>>

(***************************************************************************)
(* Keys of the main view.                                                  *)
(***************************************************************************)
Main == overlay = "none"

\* on_error
ShowError == phase' = "error"

Select(c) ==
  /\ Main
  /\ c \in 0 .. Len(tree) - 1 /\ c \in {cursor - 1, cursor + 1}
  /\ cursor' = c
  /\ UNCHANGED <<overlay, loaded, generation, folders, tests, cases, tree, phase, param,
                 overlays, runs, rx, inputs>>

\* The cursor after the tree has changed.
Clamped(c, rows) == IF c >= Len(rows) THEN Len(rows) - 1 ELSE c

\* Enter on a folder.
ToggleFolder ==
  /\ Main /\ cursor < Len(tree) /\ tree[cursor + 1][1] = "folder"
  /\ folders' = [folders EXCEPT ![tree[cursor + 1][2]].collapsed = ~@]
  /\ tree' = Tree(folders')
  /\ cursor' = Clamped(cursor, tree')
  /\ UNCHANGED <<overlay, loaded, generation, tests, cases, phase, param, overlays, runs,
                 rx, inputs>>

\* Enter on a test: run_selected.
RunSelected ==
  /\ Main /\ cursor < Len(tree) /\ tree[cursor + 1][1] = "test"
  /\ LET ti == tree[cursor + 1][2]
     IN /\ tests' = [tests EXCEPT ![ti] = Pending]
        /\ phase' = "running"
        /\ UNCHANGED generation
        /\ Listen(Spawn(<<ti>>, TRUE))
  /\ UNCHANGED <<overlay, loaded, folders, cases, tree, cursor, param, overlays, inputs>>

\* rerun: what is on disk now is loaded and run; if that fails, the old rows
\* stay and so does the run listened to.
Rerun ==
  \/ /\ ShowError
     /\ UNCHANGED <<generation, folders, tests, cases, tree, cursor, runs, rx>>
  \/ \E collection \in Collections :
       /\ collection # <<>>
       /\ Apply(collection, "running")
       /\ Listen(Spawn([i \in DOMAIN cases' |-> i], FALSE))

RerunKey ==
  /\ Main /\ loaded
  /\ Rerun
  /\ UNCHANGED <<overlay, loaded, param, overlays, inputs>>

\* The keys that open an overlay, and q.
OpenRequestEditor ==
  /\ Main /\ cursor < Len(tree) /\ tree[cursor + 1][1] = "test"
  /\ overlay' = "editor"
  /\ editor' = Opened(tree[cursor + 1][2], cases[tree[cursor + 1][2]])
  /\ UNCHANGED <<loaded, app, param, browser, params, runs, rx, inputs>>

OpenParams ==
  /\ Main
  /\ overlay' = "params"
  /\ params' = ParamRows(IF param = Blank THEN <<>> ELSE << <<Name, param>> >>)
  /\ UNCHANGED <<loaded, app, param, browser, editor, runs, rx, inputs>>

OpenBrowser ==
  /\ Main
  /\ overlay' = "browser"
  /\ browser' \in [at : DOMAIN DirectoryOf, cursor : {0}]
  /\ UNCHANGED <<loaded, app, param, editor, params, runs, rx, inputs>>

Quit ==
  /\ Main
  /\ overlay' = "quit"
  /\ UNCHANGED <<loaded, app, param, overlays, runs, rx, inputs>>

(***************************************************************************)
(* Keys of the file browser.                                               *)
(***************************************************************************)
Entries == DirectoryOf[browser.at]

BrowserMoves(c) ==
  /\ overlay = "browser"
  /\ c \in 0 .. Len(Entries) - 1 /\ c \in {browser.cursor - 1, browser.cursor + 1}
  /\ browser' = [browser EXCEPT !.cursor = c]
  /\ UNCHANGED <<overlay, loaded, app, param, editor, params, runs, rx, inputs>>

\* go_parent, enter_dir: the listing starts again at its top.
ChangeDirectory ==
  /\ overlay = "browser"
  /\ \E i \in DOMAIN Entries :
       /\ \/ Entries[i][1] = "parent"
          \/ Entries[i][1] = "dir" /\ i = browser.cursor + 1
       /\ browser' = [at |-> Entries[i][2], cursor |-> 0]
  /\ UNCHANGED <<overlay, loaded, app, param, editor, params, runs, rx, inputs>>

\* or_insert: a parameter that has a value keeps it.
Merged(value, new) == IF value = Blank THEN new ELSE value

\* A plausible bug: the old run is still listened to.
DeafToNothing == runs' = runs /\ rx' = rx

\* Nothing is listened to.
Deaf == runs' = Unheard /\ rx' = 0

\* open_collection, of the directory shown or the file under the cursor.  The
\* parameters of the new environment files are there before its collection is
\* loaded, and stay when that fails.
OpenCollection ==
  /\ overlay = "browser" /\ Budget
  /\ inputs' = inputs + 1
  /\ \E fromEnvFile \in Values :
       \/ /\ param' \in {param, Merged(param, fromEnvFile)}
          /\ ShowError
          /\ UNCHANGED <<overlay, loaded, generation, folders, tests, cases, tree, cursor,
                         runs, rx>>
       \/ \E collection \in Collections, embedded \in Values :
            /\ param' = Merged(Merged(param, fromEnvFile), embedded)
            /\ loaded' = TRUE
            /\ Apply(collection, "idle")
            /\ Deaf
            /\ overlay' = "none"
  /\ IF overlay' = "none" THEN CloseOverlays ELSE UNCHANGED overlays

(***************************************************************************)
(* Keys of the two editors; any overlay is left with Esc.                  *)
(***************************************************************************)
Edit(new) ==
  /\ editor' = new
  /\ UNCHANGED <<overlay, loaded, app, param, browser, params, runs, rx>>

MoveInRequest ==
  /\ overlay = "editor" /\ ~editor.editing
  /\ \E new \in {Up(editor), Down(editor), SwitchColumn(editor)} : Edit(new)
  /\ UNCHANGED inputs

EditRow ==
  /\ overlay = "editor" /\ ~editor.editing /\ Budget
  /\ \E new \in {StartEdit(editor), AddRow(editor), DeleteRow(editor)} : Edit(new)
  /\ inputs' = inputs + 1

\* With overflow checks, as in a debug build, adding a header on row 0 ends
\* the program: 1 - 2 in add_header.
AddHeaderOverflows ==
  /\ overlay = "editor" /\ ~editor.editing /\ editor.cursor = 0
  /\ overlay' = "panic"
  /\ UNCHANGED <<loaded, app, param, overlays, runs, rx, inputs>>

\* The keys of a text, then Enter or Esc.
EditText ==
  /\ overlay = "editor" /\ editor.editing /\ Budget
  /\ \E new \in {ConfirmEdit([editor EXCEPT !.input = <<t>>]) : t \in Typed}
               \cup {ConfirmEdit(editor), CancelEdit(editor)} : Edit(new)
  /\ inputs' = inputs + 1

SaveRequest ==
  /\ overlay = "editor" /\ ~editor.editing
  /\ cases' = [cases EXCEPT ![editor.test] = Saved(editor)]
  /\ overlay' = "none" /\ CloseOverlays
  /\ UNCHANGED <<loaded, generation, folders, tests, tree, cursor, phase, param, runs, rx,
                 inputs>>

EditParams(new) ==
  /\ params' = new
  /\ UNCHANGED <<overlay, loaded, app, param, browser, editor, runs, rx>>

MoveInParams ==
  /\ overlay = "params" /\ params.mode = "navigate"
  /\ \E new \in {ParamUp(params), ParamDown(params)} : EditParams(new)
  /\ UNCHANGED inputs

ParamKey ==
  /\ overlay = "params" /\ Budget
  /\ inputs' = inputs + 1
  /\ \/ /\ params.mode = "navigate"
        /\ \E new \in {AddParam(params), DeleteParam(params), EditParam(params, "key"),
                       EditParam(params, "value")} : EditParams(new)
     \/ /\ params.mode # "navigate"
        /\ \E new \in {ConfirmParam([params EXCEPT !.input = t]) : t \in {Name} \cup Values}
                     \cup {ConfirmParam(params), CancelParam(params)} : EditParams(new)

\* r in the parameters: they count from now on, and everything runs again.
RerunWithParams ==
  /\ overlay = "params" /\ params.mode = "navigate"
  /\ param' = ParamsOf(params, Name)
  /\ overlay' = "none" /\ CloseOverlays
  /\ Rerun
  /\ UNCHANGED <<loaded, inputs>>

Escape ==
  /\ overlay \in {"browser", "editor", "params"}
  /\ overlay = "editor" => ~editor.editing
  /\ overlay = "params" => params.mode = "navigate"
  /\ overlay' = "none" /\ CloseOverlays
  /\ UNCHANGED <<loaded, app, param, runs, rx, inputs>>

MainKey ==
  \/ Select(cursor - 1) \/ Select(cursor + 1)
  \/ ToggleFolder \/ RunSelected \/ RerunKey
  \/ OpenRequestEditor \/ OpenParams \/ OpenBrowser \/ Quit

OverlayKey ==
  \/ BrowserMoves(browser.cursor - 1) \/ BrowserMoves(browser.cursor + 1)
  \/ ChangeDirectory \/ OpenCollection
  \/ MoveInRequest \/ EditRow \/ AddHeaderOverflows \/ EditText \/ SaveRequest
  \/ MoveInParams \/ ParamKey \/ RerunWithParams \/ Escape

Next ==
  \/ Receive
  \/ \E r \in DOMAIN runs : Thread(r)
  \/ MainKey
  \/ OverlayKey

\* The loop turns, and threads run: a test ends by the time limits of its
\* scripts and its request.  Nobody has to press a key.
Spec ==
  /\ Init /\ [][Next]_vars
  /\ WF_vars(Receive)
  /\ \A r \in 1 .. MaxRuns : WF_vars(r \in DOMAIN runs /\ Thread(r))

(***************************************************************************)
(* Properties.                                                             *)
(***************************************************************************)
\* A result is shown in the row of the test it belongs to, of the collection
\* on show: no message of a run started before a reload or for other tests
\* gets through (spawn_runner, run_tui).
ResultsLand ==
  \A i \in DOMAIN tests : \A k \in DOMAIN tests[i].result :
    LET m == tests[i].result[k] IN m.generation = generation /\ m.test = i

\* Row i was last reported by a run that is no longer listened to.
Orphaned(i) ==
  \E r \in DOMAIN runs \ {rx} :
    runs[r].generation = generation /\ \E k \in DOMAIN runs[r].which : runs[r].which[k] = i

\* When a run is done every test has a verdict.  A row is shown as running
\* while its test runs or its result is under way; otherwise its run failed
\* at it, or another run took its place (on_error and run_selected leave it so).
StatusesFit ==
  /\ phase = "done" => \A i \in DOMAIN tests : tests[i].status \in Verdicts
  /\ \A i \in DOMAIN tests : tests[i].status = "running" =>
       \/ Orphaned(i)
       \/ /\ rx # 0
          /\ \/ /\ runs[rx].stage \in {"testing", "over"}
                /\ runs[rx].at <= Len(runs[rx].which)
                /\ runs[rx].which[runs[rx].at] = i
             \/ \E k \in DOMAIN runs[rx].channel :
                  runs[rx].channel[k].what = "finished" /\ runs[rx].channel[k].test = i

\* Every cursor is on a row that is there, if there is any, and the tree
\* lists each test of the folders that are open, in order and once.
CursorsInRange ==
  /\ tree # <<>> => cursor \in 0 .. Len(tree) - 1
  /\ Entries # <<>> => browser.cursor \in 0 .. Len(Entries) - 1
  /\ editor.cursor \in 0 .. RowCount(editor) - 1
  /\ params.rows # <<>> => params.cursor \in 0 .. Len(params.rows) - 1
  /\ LET rows == {k \in DOMAIN tree : tree[k][1] = "test"}
     IN /\ {tree[k][2] : k \in rows} =
             {i \in DOMAIN tests : Len(folders) = 1 \/ \E f \in DOMAIN folders :
                /\ ~folders[f].collapsed
                /\ i \in folders[f].start + 1 .. folders[f].start + folders[f].count}
        /\ \A k, l \in rows : k < l => tree[k][2] < tree[l][2]

\* The form that is saved is the form that is read when the test is opened
\* again, if the headers still have the boundary and no value looks like it.
SavedIsReadBack ==
  LET again == Opened(editor.test, Saved(editor))
  IN /\ editor.multipart /\ HasBoundary(editor.headers)
     /\ \A i \in DOMAIN editor.form : \A k \in DOMAIN editor.form[i][2] :
          editor.form[i][2][k] \notin {Delimiter, End}
     => again.form = editor.form

\* A run that is shown comes to an end, unless the loop ends before.
RunsEnd == phase = "running" ~> phase # "running" \/ ~Looping
================================================================================
