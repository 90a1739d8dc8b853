----------------------------- MODULE MockServer ------------------------------
(***************************************************************************)
(* The mock server at run time: the request handler, the history and the   *)
(* admin API of crate/hello_server/src/server.rs, the file watcher thread  *)
(* of watcher.rs, the files it reloads (loader.rs), over the lookup tables *)
(* of RouteTable.                                                          *)
(*                                                                         *)
(* Handlers run on several threads and the watcher on its own.  They share *)
(* the ArcSwap registry, the counters inside a registry, and the locked    *)
(* history; each access is a step.  A file is written at any moment, and   *)
(* the operating system reports it some time later.                        *)
(***************************************************************************)
EXTENDS RouteTable

CONSTANTS Conn,         \* connections, one request at a time on each
          Request,      \* the requests: [method, path, want]
          SpecFile,     \* contents of the spec file: a list of routes, or Broken
          SidecarFile,  \* contents of the override file; <<>> if none is read
          Broken,       \* a spec file the adapter rejects
          HistorySizes, \* values of config.history_size
          MaxRequests,  \* bound: requests
          MaxEdits,     \* bound: files written
          MaxClears,    \* bound: history deletions
          MaxInputs     \* bound: all of these together

\* The routes a file can declare.
Declared == UNION {ToSet(f) : f \in (SpecFile \ {Broken}) \cup SidecarFile}

\* Files are lists of routes with a list of responses each.  A pattern has a
\* segment, and no two patterns have one rank.
ASSUME ServerAssumption ==
  /\ SpecFile \ {Broken} \subseteq Seq(Declared) /\ SidecarFile \subseteq Seq(Declared)
  /\ \A r \in Declared :
       /\ r.path \in DOMAIN Length /\ r.responses \in Seq(ToSet(r.responses))
       /\ r.selection \in {"First", "RoundRobin", "Random", "MatchStatus"}
  /\ \A p \in DOMAIN Length :
       /\ p # <<>> /\ Length[p] \in Nat /\ Rank[p] \in Nat
       /\ \A q \in DOMAIN Length : Rank[p] = Rank[q] => p = q
  /\ HistorySizes \subseteq Nat
  /\ MaxRequests \in Nat /\ MaxEdits \in Nat /\ MaxClears \in Nat
  /\ MaxInputs \in Nat

VARIABLES
  history_size, \* config.history_size
  disk,       \* the two files: [spec, sidecar]
  unreported, \* writes the operating system has yet to report
  events,     \* the watcher's channel: "change", or "other" (removals, errors)
  watcher,    \* the watcher thread: see TypeOK
  loaded,     \* what it has read so far
  tables,     \* every registry stored; the last one is state.registry
  counter,    \* counter[g] : the counters of registry g, by entry
  req,        \* req[c] : the handler of connection c
  history,    \* ServerState::history
  requests, edits, clears, \* counts, for the bounds
  pushed,     \* history: what was pushed since the last clear
  picked,     \* history: the selections made, a bag
  missed      \* history: the last write came before the watch was registered

watching == <<unreported, events, watcher, loaded, missed>>
serving == <<counter, req, history, requests, pushed, picked>>
vars == <<history_size, disk, edits, clears, watching, tables, serving>>

\* What a load that failed leaves: a collection without routes is an error too.
Failed == <<>>

\* loader::load after both files are read, then RouteRegistry::build.
Load(spec, sidecar) ==
  IF spec = Broken THEN Failed
  ELSE LET routes == ApplySidecar(spec, sidecar)
       IN IF routes = <<>> \/ ~Buildable(routes) THEN Failed ELSE routes

Files == [spec : SpecFile, sidecar : SidecarFile]
LoadableFiles == {f \in Files : Load(f.spec, f.sidecar) # Failed}

Serving == tables[Len(tables)]

Entries(routes) ==
  UNION {{[path |-> p, index |-> i] : i \in DOMAIN Bucket(routes, p)} :
           p \in Patterns(routes)}

NoCounts(routes) == [e \in Entries(routes) |-> 0]

Idle == [pc |-> "idle", with |-> 0, asked |-> <<>>, entry |-> NoEntry,
         choice |-> 0]

\* main: the spec is loaded, then served, then watched if --watch was given.
Init ==
  /\ history_size \in HistorySizes
  /\ disk \in LoadableFiles
  /\ unreported = 0 /\ events = <<>>
  /\ watcher \in {"starting", "off"}
  /\ loaded = Failed
  /\ tables = <<Load(disk.spec, disk.sidecar)>>
  /\ counter = <<NoCounts(tables[1])>>
  /\ req = [c \in Conn |-> Idle]
  /\ history = <<>> /\ pushed = <<>> /\ picked = EmptyBag
  /\ requests = 0 /\ edits = 0 /\ clears = 0
  /\ missed = FALSE

InputLeft == requests + edits + clears < MaxInputs

-----------------------------------------------------------------------------
(* The files and the watcher thread.                                       *)

\* A file is saved; nothing reports it unless the watch is registered.
Write(files) ==
  /\ edits < MaxEdits /\ InputLeft
  /\ files # disk
  /\ disk' = files
  /\ edits' = edits + 1
  /\ unreported' = IF watcher \in {"off", "starting"} THEN unreported
                   ELSE unreported + 1
  /\ missed' = (watcher \in {"off", "starting"})
  /\ UNCHANGED <<history_size, clears, events, watcher, loaded, tables, serving>>

\* The operating system reports a write, perhaps after an event of a kind
\* that is of no interest.
Report ==
  /\ unreported > 0
  /\ unreported' = unreported - 1
  /\ \/ events' = Append(events, "change")
     \/ events' = events \o <<"other", "change">>
  /\ UNCHANGED <<history_size, disk, edits, clears, watcher, loaded, missed, tables,
                 serving>>

\* What no step of the watcher but Store touches.
WatcherOnly ==
  UNCHANGED <<history_size, disk, edits, clears, unreported, missed, serving>>

\* watcher.watch() returns: from here on writes are reported.
Register ==
  /\ watcher = "starting"
  /\ watcher' = "receiving"
  /\ UNCHANGED <<events, loaded, tables>>
  /\ WatcherOnly

\* rx.recv(): an event that is not a change is skipped.
Receive ==
  /\ watcher = "receiving"
  /\ events # <<>>
  /\ events' = Tail(events)
  /\ watcher' = IF Head(events) = "change" THEN "draining" ELSE "receiving"
  /\ UNCHANGED <<loaded, tables>>
  /\ WatcherOnly

\* rx.recv_timeout(200 ms): at most one more event, whatever it is.
Drain ==
  /\ watcher = "draining"
  /\ events' = IF events = <<>> THEN <<>> ELSE Tail(events)
  /\ watcher' = "reading"
  /\ UNCHANGED <<loaded, tables>>
  /\ WatcherOnly

\* reload(): the spec file is read, and ingested.
ReadSpec ==
  /\ watcher = "reading"
  /\ loaded' = disk.spec
  /\ watcher' = IF disk.spec = Broken THEN "receiving" ELSE "merging"
  /\ UNCHANGED <<events, tables>>
  /\ WatcherOnly

\* The override file is read and merged; a load that fails is only logged.
ReadSidecar ==
  /\ watcher = "merging"
  /\ loaded' = Load(loaded, disk.sidecar)
  /\ watcher' = IF loaded' = Failed THEN "receiving" ELSE "storing"
  /\ UNCHANGED <<events, tables>>
  /\ WatcherOnly

\* A plausible bug: the events are drained once the reload is done.
StoreThenDrain ==
  /\ watcher = "storing"
  /\ tables' = Append(tables, loaded)
  /\ counter' = Append(counter, NoCounts(loaded))
  /\ watcher' = "receiving"
  /\ events' = <<>>
  /\ UNCHANGED <<history_size, disk, edits, clears, unreported, loaded, missed, req,
                 history, requests, pushed, picked>>

\* state.registry.store: a registry of its own, with counters at zero.
Store ==
  /\ watcher = "storing"
  /\ tables' = Append(tables, loaded)
  /\ counter' = Append(counter, NoCounts(loaded))
  /\ watcher' = "receiving"
  /\ UNCHANGED <<history_size, disk, edits, clears, unreported, events, loaded,
                 missed, req, history, requests, pushed, picked>>

-----------------------------------------------------------------------------
(* handle_mock.                                                            *)

\* What no step of a handler touches.
HandlerOnly == UNCHANGED <<history_size, disk, edits, clears, watching, tables>>

\* A request arrives; registry.load().
Arrive(c) ==
  /\ req[c].pc = "idle"
  /\ requests < MaxRequests /\ InputLeft
  /\ requests' = requests + 1
  /\ \E r \in Request :
       req' = [req EXCEPT ![c] = [Idle EXCEPT !.pc = "loaded", !.asked = r,
                                              !.with = Len(tables)]]
  /\ UNCHANGED <<counter, history, pushed, picked>>
  /\ HandlerOnly

\* The first response that has one of the statuses, or else response 1.
WithStatus(responses, statuses) ==
  LET i == SelectInSeq(responses, LAMBDA x : x.status \in statuses)
  IN IF i = 0 THEN 1 ELSE i

\* select_response: the responses it may choose (several for Random only,
\* whose hash of the counter is left abstract).
Selectable(entry, count, want) ==
  LET n == Len(entry.responses)
  IN CASE entry.selection = "First" -> {1}
       [] entry.selection = "RoundRobin" -> {(count % n) + 1}
       [] entry.selection = "Random" -> 1 .. n
       [] entry.selection = "MatchStatus" ->
            IF want # 0
            THEN {WithStatus(entry.responses, {want})}
            ELSE {WithStatus(entry.responses, 200 .. 299)}

Counts(entry) == entry.selection \in {"RoundRobin", "Random"}

\* registry.lookup in registry g, with the fetch_add of select_response on the
\* counters of registry k.
LookUpIn(c, g, k) ==
  LET asked == req[c].asked
      e == Lookup(tables[g], asked.method, asked.path)
      entry == EntryAt(tables[g], e)
      count == IF e \in DOMAIN counter[k] THEN counter[k][e] ELSE 0
  IN /\ req[c].pc = "loaded"
     /\ IF e = NoEntry
        THEN /\ req' = [req EXCEPT ![c].pc = "missed"]
             /\ UNCHANGED <<counter, picked>>
        ELSE \E i \in Selectable(entry, count, asked.want) :
               /\ req' = [req EXCEPT ![c].pc = "found", ![c].entry = e,
                                     ![c].choice = i]
               /\ counter' = [counter EXCEPT ![k] = [x \in DOMAIN @ |->
                    IF x = e /\ Counts(entry) THEN @[x] + 1 ELSE @[x]]]
               /\ picked' = picked (+) SetToBag({[with |-> g, entry |-> e, choice |-> i]})
     /\ UNCHANGED <<history, requests, pushed>>
     /\ HandlerOnly

\* A plausible bug: the counters are the ones in service now.
LookUpSharedCounts(c) == LookUpIn(c, req[c].with, Len(tables))

\* The handler looks up in the registry it loaded.
LookUp(c) == LookUpIn(c, req[c].with, req[c].with)

PushWhileRoom(h, x) == IF Len(h) >= history_size /\ h # <<>> THEN h ELSE Append(h, x)

\* push_history (pop_front of an empty deque does nothing).
Push(h, x) ==
  Append(IF Len(h) >= history_size /\ h # <<>> THEN Tail(h) ELSE h, x)

HistoryEntry(asked, status, matched) ==
  [method |-> asked.method, path |-> asked.path, status |-> status,
   matched |-> matched]

\* The entry is pushed; a response without delay leaves in the same poll.
Pushed(c, x, slow) ==
  /\ history' = Push(history, x)
  /\ pushed' = Append(pushed, x)
  /\ req' = [req EXCEPT ![c] = IF slow THEN [Idle EXCEPT !.pc = "delayed"] ELSE Idle]
  /\ UNCHANGED <<counter, requests, picked>>
  /\ HandlerOnly

Chosen(r) == EntryAt(tables[r.with], r.entry).responses[r.choice]

\* A plausible bug: the entry is annotated from the registry in service now.
RecordFoundNow(c) ==
  LET r == req[c]
  IN /\ r.pc = "found"
     /\ Pushed(c, HistoryEntry(r.asked, Chosen(r).status,
                               Annotated(Serving, r.asked.path)), Chosen(r).slow)

\* The arm of a request that matched.
RecordFound(c) ==
  LET r == req[c]
  IN /\ r.pc = "found"
     /\ Pushed(c, HistoryEntry(r.asked, Chosen(r).status,
                               Annotated(tables[r.with], r.asked.path)), Chosen(r).slow)

\* The arm of a request that did not: it is in the history too.
RecordMissed(c) ==
  /\ req[c].pc = "missed"
  /\ Pushed(c, HistoryEntry(req[c].asked, 404, <<>>), FALSE)

\* The delay ends: the answer is sent, or before that the TimeoutLayer answers
\* or the client leaves.
Finish(c) ==
  /\ req[c].pc = "delayed"
  /\ req' = [req EXCEPT ![c] = Idle]
  /\ UNCHANGED <<counter, history, requests, pushed, picked>>
  /\ HandlerOnly

-----------------------------------------------------------------------------
(* The admin API.  Its other requests, POST /_mock/reload among them, only *)
(* read the state.                                                         *)

\* DELETE /_mock/history
ClearHistory ==
  /\ clears < MaxClears /\ InputLeft
  /\ clears' = clears + 1
  /\ history' = <<>>
  /\ pushed' = <<>>
  /\ UNCHANGED <<history_size, disk, edits, watching, tables, counter, req, requests,
                 picked>>

Watcher == Register \/ Receive \/ Drain \/ ReadSpec \/ ReadSidecar \/ Store

Handler(c) ==
  Arrive(c) \/ LookUp(c) \/ RecordFound(c) \/ RecordMissed(c) \/ Finish(c)

Next ==
  \/ \E files \in Files : Write(files)
  \/ Report
  \/ Watcher
  \/ \E c \in Conn : Handler(c)
  \/ ClearHistory

Spec == Init /\ [][Next]_vars

\* The operating system reports what was written, and the watcher thread runs.
FairSpec == Spec /\ WF_vars(Report) /\ WF_vars(Watcher)

-----------------------------------------------------------------------------
\* The variables keep their types: in particular what is in service always
\* loaded without error, and the history never outgrows its size (one, when
\* the size is zero).
TypeOK ==
  /\ history_size \in HistorySizes
  /\ disk \in Files
  /\ unreported \in Nat
  /\ events \in Seq({"change", "other"})
  /\ watcher \in {"off", "starting", "receiving", "draining", "reading",
                   "merging", "storing"}
  /\ tables \in Seq({Load(f.spec, f.sidecar) : f \in LoadableFiles})
  /\ DOMAIN counter = DOMAIN tables
  /\ \A g \in DOMAIN tables : counter[g] \in [Entries(tables[g]) -> Nat]
  /\ \A c \in Conn :
       /\ req[c].pc \in {"idle", "loaded", "found", "missed", "delayed"}
       /\ req[c].with \in {0} \cup DOMAIN tables
       /\ req[c].pc = "found" =>
            req[c].choice \in DOMAIN EntryAt(tables[req[c].with], req[c].entry).responses
  /\ Len(history) <= Max({1, history_size})

\* The history is the tail of what the handlers recorded since it was last
\* cleared, in the order they took the lock: none is lost before it is old
\* enough, and none reappears after a clear.  It has history_size entries at
\* most, or one if that is zero, and requests that no route matched are among
\* them; docs/server/spec.md says otherwise of both (HistoryAsDocumented).
HistoryIsTheTail ==
  LET n == Len(history)
  IN /\ history = SubSeq(pushed, Len(pushed) - n + 1, Len(pushed))
     /\ n = Min({Len(pushed), Max({1, history_size})})

\* match_request as docs/server/spec.md:279-285 has it: the first route in the
\* order of the file that matches in path and in method; others are skipped.
Documented(routes, method, path) ==
  SelectInSeq(routes, LAMBDA r : /\ PatternMatches(r.path, path)
                                 /\ MethodMatches(r, method))

\* The history as docs/server/spec.md has it: the "Last N matched requests"
\* (line 383), N being the size of the buffer (line 437), each answered by the
\* route of the documented search.
HistoryAsDocumented ==
  /\ Len(history) <= history_size
  /\ \A i \in DOMAIN history : \E g \in DOMAIN tables :
       LET h == history[i]
           n == Documented(tables[g], h.method, h.path)
       IN /\ h.matched # <<>> /\ n # 0
          /\ h.status \in {r.status : r \in ToSet(tables[g][n].responses)}

\* How often response i of entry e of registry g was selected.
Times(g, e, i) ==
  LET x == [with |-> g, entry |-> e, choice |-> i]
  IN IF BagIn(x, picked) THEN picked[x] ELSE 0

\* Round robin stays fair under concurrent handlers and reloads: of the
\* responses of one entry of one registry, none was chosen twice more than
\* another.
RoundRobinIsFair ==
  \A g \in DOMAIN tables : \A e \in Entries(tables[g]) :
    LET entry == EntryAt(tables[g], e)
    IN entry.selection = "RoundRobin" =>
         \A i, j \in DOMAIN entry.responses : Times(g, e, i) <= Times(g, e, j) + 1

\* History entry h is what a registry says of the request.
Says(routes, h) ==
  LET e == Lookup(routes, h.method, h.path)
  IN IF h.matched = <<>> THEN e = NoEntry
     ELSE /\ e # NoEntry
          /\ \E r \in ToSet(EntryAt(routes, e).responses) : r.status = h.status
          /\ h.matched = Annotated(routes, h.path)

\* A reload never shows in the middle of a request: every history entry is
\* what some one registry, in service at some time, says of its request.
HistoryIsConsistent ==
  \A i \in DOMAIN history : \E g \in DOMAIN tables : Says(tables[g], history[i])

\* What the files on disk should be served as.
Expected == Load(disk.spec, disk.sidecar)

\* Hot reload converges: once the files are left alone, the server ends up
\* serving them, if they load and were last written under the watch, however
\* the writes, the reports, the drain and the two reads interleave.
WatcherConverges ==
  <>[](~missed /\ Expected # Failed => Serving = Expected)
=============================================================================
