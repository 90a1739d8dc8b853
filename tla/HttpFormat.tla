---------------------------- MODULE HttpFormat ----------------------------
(***************************************************************************)
(* .http files: what the parser reads from their lines, and the lines the  *)
(* two programs write.  A script block is one element with its code.       *)
(***************************************************************************)
EXTENDS HttpBody

CONSTANTS
  Marked,       \* lines of bodies and scripts that begin like a title, a script
                \* file or a request, with the element they are read as
  Segments,     \* names with a # or an @, with the segments they are read as
  Closing       \* statements with %} in them, with the text before and behind

Title(name) == [kind |-> "title", name |-> name]
RequestLine(method, url) == [kind |-> "request", method |-> method, url |-> url]
Text(line) == [kind |-> "text", line |-> line]
Texts(lines) == Each(Text, lines)
PreBlock(code) == [kind |-> "pre", code |-> code]
PostBlock(code) == [kind |-> "post", code |-> code]
PostFile(path) == [kind |-> "postfile", path |-> path]
BlankLine == Text("")
IsBlank(l) == l = BlankLine

\* What a line of a body or a script is to the parser, and the text of a line.
LineOf(line) == IF line \in DOMAIN Marked THEN Marked[line] ELSE Text(line)
LinesOf(text) == Each(LineOf, text)
LineText(l) ==
  CASE l.kind = "text"     -> l.line
    [] l.kind = "title"    -> "### " \o Run(LAMBDA a, b : a \o "/" \o b, l.name[1], Tail(l.name))
    [] l.kind = "request"  -> l.method \o " " \o Concat(l.url)
    [] l.kind = "postfile" -> "> " \o l.path

(***************************************************************************)
(* The parser, line by line.  A phase says what has been read of the open  *)
(* entry: nothing ("start"), its metadata ("meta"), blank lines after it   *)
(* ("gap"), a pre-request script ("ready"), the request line ("top"), at   *)
(* least one header ("headers"), the headers and more ("body").  A line    *)
(* that fits nowhere ends the parse ("stop"): the entries read so far are  *)
(* the result, and nothing is reported.                                    *)
(***************************************************************************)
NoEntry == [name |-> <<>>, pre |-> None, method |-> "", url |-> <<>>,
            headers |-> <<>>, lines |-> <<>>, post |-> None]
Fresh(entries) == [phase |-> "start", entry |-> NoEntry, entries |-> entries]

\* The lines of a script block, where it is read as text.
BlockLines(mark, code) == <<mark \o " {%">> \o code \o <<"%}">>

\* A block ends at the first %}: what follows are lines like any other.  A
\* block with more on the line of its end is no block.
ReadBlock(code) ==
  LET k    == SelectInSeq(code, LAMBDA piece : piece \in DOMAIN Closing)
      left == SubSeq(code, k + 1, Len(code)) \o <<"%}">>
  IN  CASE k = 0 -> [ends |-> TRUE, code |-> code, rest |-> <<>>]
        [] k # 0 /\ Closing[code[k]][2] = "" ->
             [ends |-> TRUE, code |-> Append(SubSeq(code, 1, k - 1), Closing[code[k]][1]),
              rest |-> LinesOf(left)]
        [] OTHER -> [ends |-> FALSE, code |-> None, rest |-> <<>>]

\* The code in a file.
Unread == "no such file"
FileScript(path) == IF path \in DOMAIN Files THEN Files[path] ELSE <<Unread, path>>

\* A title is cut into descriptions, hashtags and parameters; at a piece that
\* is none of these, a loose one, the parse ends.  The descriptions of an
\* entry are joined with a blank.
Segment(kind, name) == [kind |-> kind, name |-> name]
SegmentsOf(name) ==
  CASE name \in DOMAIN Segments -> Segments[name]
    [] Unnamed(name)            -> <<>>
    [] OTHER                    -> <<Segment("description", name)>>
Loose(name) == \E seg \in ToSet(SegmentsOf(name)) : seg.kind = "loose"

JoinNames(a, b) ==
  IF a = <<>> THEN b ELSE [a EXCEPT ![Len(a)] = @ \o " " \o b[1]] \o Tail(b)
Described(before, name) ==
  Run(LAMBDA a, seg : IF seg.kind = "description" THEN JoinNames(a, seg.name) ELSE a,
      before, SegmentsOf(name))

\* A URL ends at the first dynamic variable; the rest of the line, and all
\* that follows, is read as the body.
Cut(url) == SelectInSeq(url, LAMBDA p : p \in Dynamic)
Open(s, l) ==
  LET cut == Cut(l.url)
      end == IF cut = 0 THEN Len(l.url) ELSE cut - 1
  IN  [s EXCEPT !.phase = IF cut = 0 THEN "top" ELSE "body",
                !.entry.method = l.method, !.entry.url = SubSeq(l.url, 1, end),
                !.entry.lines = IF cut = 0 THEN <<>> ELSE <<Concat(SubSeq(l.url, cut, Len(l.url)))>>]

\* Headers are kept in a map: the last of two with one name stays.
Insert(headers, h) == Append(SelectSeq(headers, LAMBDA g : g[1] # h[1]), h)

\* A plausible bug: the headers of an entry stay for the next.
FinishKeepingHeaders(s, post) ==
  [Fresh(Append(s.entries, [s.entry EXCEPT !.post = post])) EXCEPT !.entry.headers = s.entry.headers]

Finish(s, post) == Fresh(Append(s.entries, [s.entry EXCEPT !.post = post]))
Requested(s) == s.phase \in {"top", "headers", "body"}

InBody(s, line) == [s EXCEPT !.phase = "body", !.entry.lines = Append(@, line)]

RECURSIVE ParseLine(_, _)
ParseLines(s, lines) == Run(LAMBDA r, l : ParseLine(r, l), s, lines)

BeforeRequest(s, l) ==
  LET pre(code)  == [s EXCEPT !.phase = "ready", !.entry.pre = code]
      stopped    == [s EXCEPT !.phase = "stop"]
      opened(block) == IF block.ends THEN ParseLines(pre(block.code), block.rest) ELSE stopped
  IN  CASE IsBlank(l) -> [s EXCEPT !.phase = IF @ = "meta" THEN "gap" ELSE @]
        [] l.kind = "title" /\ s.phase \in {"start", "meta"} /\ ~Loose(l.name) ->
             [s EXCEPT !.phase = "meta", !.entry.name = Described(@, l.name)]
        [] l.kind = "pre" /\ s.phase # "ready" -> Of(ReadBlock(l.code), opened)
        [] l.kind = "text" /\ l.line \in DOMAIN References /\ s.phase # "ready" ->
             pre(FileScript(References[l.line]))
        [] l.kind = "request" -> Open(s, l)
        [] OTHER -> stopped

\* The blank lines after the request line are skipped, so a first line of
\* the body that reads as a header is taken for one when there are none.  A
\* title and the mark of a script end a body, not the headers.
ReadsAsHeader(s, l) ==
  s.phase \in {"top", "headers"} /\ l.kind \notin {"pre", "post"} /\ HeaderLike(LineText(l))

AfterRequest(s, l) ==
  LET closed(block) == IF block.ends THEN ParseLines(Finish(s, block.code), block.rest)
                       ELSE [Finish(s, None) EXCEPT !.phase = "stop"]
  IN  CASE ReadsAsHeader(s, l) ->
             [s EXCEPT !.phase = "headers", !.entry.headers = Insert(@, AsHeader(LineText(l)))]
        [] l.kind = "post" -> Of(ReadBlock(l.code), closed)
        [] l.kind = "postfile" /\ ~ReadsAsHeader(s, l) -> Finish(s, FileScript(l.path))
        [] l.kind = "title" /\ ~ReadsAsHeader(s, l) -> BeforeRequest(Finish(s, None), l)
        [] l.kind = "pre" -> ParseLines(s, LinesOf(BlockLines("<", l.code)))
        [] s.phase = "top" /\ IsBlank(l) -> s
        [] OTHER -> InBody(s, LineText(l))

ParseLine(s, l) ==
  IF s.phase = "stop" THEN s
  ELSE IF Requested(s) THEN AfterRequest(s, l) ELSE BeforeRequest(s, l)

request_collection(file) ==
  LET end == ParseLines(Fresh(<<>>), file)
  IN  IF Requested(end) THEN Append(end.entries, end.entry) ELSE end.entries

(***************************************************************************)
(* Entries become test cases; one that fails, fails the import.            *)
(***************************************************************************)
BodyOf(entry) ==
  LET coerced(body) == coerce_body_by_content_type(entry.headers, body)
      read(lines)   == Of(interpret_body(lines), coerced)
  IN  Of(Trimmed(entry.lines), read)

entry_to_test_case(entry) ==
  LET label == [UrlName(entry.url) EXCEPT ![1] = entry.method \o " " \o @]
      case(body) ==
        Case(IF entry.name = <<>> THEN label ELSE entry.name, entry.method, entry.url,
             SentHeaders(entry.headers, body), resolve_body(body), entry.pre, entry.post)
  IN  Of(BodyOf(entry), case)

HttpReadable(file) ==
  \A e \in ToSet(request_collection(file)) :
    Resolvable(BodyOf(e)) /\ Unread \notin ToSet(e.pre) \cup ToSet(e.post)

HttpImport(file) ==
  Each(entry_to_test_case, request_collection(file))

(***************************************************************************)
(* Writing.  Both programs write the script before the request behind its  *)
(* body, the command line with the mark of a post-response script.         *)
(***************************************************************************)
Block(by, code) == IF by = "cli" THEN PostBlock(code) ELSE PreBlock(code)

WriteCase(tc, by) ==
  LET some(text, lines) == IF Absent(text) THEN <<>> ELSE <<BlankLine>> \o lines
  IN  <<Title(tc.name), BlankLine, RequestLine(tc.method, tc.url)>> \o Texts(Each(HeaderLine, tc.headers))
      \o some(tc.body, LinesOf(tc.body)) \o some(tc.pre, <<Block(by, tc.pre)>>)
      \o some(tc.post, <<PostBlock(tc.post)>>)

serialize_to_http(cases, by) ==
  Run(LAMBDA text, tc :
        text \o (IF text = <<>> THEN <<>> ELSE <<BlankLine, BlankLine>>) \o WriteCase(tc, by),
      <<>>, cases)
=============================================================================
