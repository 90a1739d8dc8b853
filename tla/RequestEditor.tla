----------------------------- MODULE RequestEditor -----------------------------
(***************************************************************************)
(* The two editors of crate/hello_client_tui/src/app.rs, as operators on   *)
(* their state: RequestEditor, with the form fields it reads out of a      *)
(* multipart body and writes back into one, and ParamEditor.               *)
(*                                                                         *)
(* A body is a sequence of lines, a line is a text.  Form is the content   *)
(* type of a multipart form with its boundary.                             *)
(***************************************************************************)
EXTENDS Integers, SequencesExt

CONSTANTS Blank,        \* the empty text
          Form,         \* the value of a Content-Type header with a form boundary
          Delimiter,    \* the line "--boundary", and any that starts with it
          End,          \* the line "--boundary--"
          Disposition,  \* a function: the Content-Disposition line of a field's name
          Typed         \* the texts a user may type

\* The lines of a form can be told apart, and a name is read back from its
\* line: it has no semicolon and no quotation mark at an end, with which
\* extract_form_field_name takes another name.
ASSUME EditorAssumption ==
  /\ Delimiter # End /\ Blank \notin {Delimiter, End}
  /\ Typed \cup {Blank} \subseteq DOMAIN Disposition
  /\ \A n \in DOMAIN Disposition :
       /\ Disposition[n] \notin {Blank, Delimiter, End}
       /\ \A m \in DOMAIN Disposition : Disposition[m] = Disposition[n] => m = n

ContentType == "content-type"

(***************************************************************************)
(* Forms in bodies.                                                        *)
(***************************************************************************)
HasBoundary(headers) == \E i \in DOMAIN headers : headers[i] = <<ContentType, Form>>

\* The lines of a value without the blank ones at its end; one line at least.
Trimmed(lines) ==
  LET last == {i \in DOMAIN lines : lines[i] # Blank}
  IN IF last = {} THEN <<Blank>>
     ELSE SubSeq(lines, 1, CHOOSE i \in last : \A j \in last : j <= i)

\* The fields once a delimiter closes a part: only a part with a name is one.
Closed(scan) ==
  scan.fields \o [i \in DOMAIN scan.name |-> <<scan.name[i], Trimmed(scan.value)>>]

\* A line of a part: a header of it, the blank line below them, its value.
ScanPart(scan, l) ==
  IF scan.at = "value" THEN [scan EXCEPT !.value = Append(@, l)]
  ELSE IF l = Blank THEN [scan EXCEPT !.at = "value"]
  ELSE IF \E n \in DOMAIN Disposition : Disposition[n] = l
       THEN [scan EXCEPT !.name = <<CHOOSE n \in DOMAIN Disposition : Disposition[n] = l>>]
       ELSE scan

\* A plausible bug: the value of a field runs on into the next one.
ScanLineKeepingValue(scan, l) ==
  CASE scan.at = "over" -> scan
    [] scan.at # "over" /\ l = End -> [scan EXCEPT !.fields = Closed(scan), !.at = "over"]
    [] scan.at # "over" /\ l = Delimiter ->
         [scan EXCEPT !.fields = Closed(scan), !.name = <<>>, !.at = "headers"]
    [] scan.at \in {"headers", "value"} /\ l \notin {End, Delimiter} -> ScanPart(scan, l)
    [] OTHER -> scan

\* One turn of the loop of parse_multipart_fields.  The value of a part
\* without a name stays, and begins the value of the next part.
ScanLine(scan, l) ==
  CASE scan.at = "over" -> scan
    [] scan.at # "over" /\ l = End -> [scan EXCEPT !.fields = Closed(scan), !.at = "over"]
    [] scan.at # "over" /\ l = Delimiter ->
         [scan EXCEPT !.fields = Closed(scan), !.name = <<>>, !.at = "headers",
                      !.value = IF scan.name = <<>> THEN @ ELSE <<>>]
    [] scan.at \in {"headers", "value"} /\ l \notin {End, Delimiter} -> ScanPart(scan, l)
    [] OTHER -> scan

\* The loop, from some state of it over some lines.
Scanned(scan, lines) ==
  LET after[n \in 0 .. Len(lines)] ==
        IF n = 0 THEN scan ELSE ScanLine(after[n - 1], lines[n])
  IN after[Len(lines)]

NotBegun == [fields |-> <<>>, name |-> <<>>, value |-> <<>>, at |-> "preamble"]

\* parse_multipart_fields, of a body whose headers have the boundary
Fields(body) == Scanned(NotBegun, body).fields

\* serialize_form_body
Serialized(fields) ==
  FlattenSeq([i \in DOMAIN fields |->
                <<Delimiter, Disposition[fields[i][1]], Blank>> \o fields[i][2]])
  \o <<End>>

(***************************************************************************)
(* RequestEditor.  Rows: 0 the method, 1 the URL, then the headers, then   *)
(* the form fields (one empty row if there are none) or the body.          *)
(***************************************************************************)
Opened(ti, request) ==
  [test |-> ti, method |-> request.method, url |-> request.url,
   headers |-> request.headers, body |-> request.body,
   multipart |-> HasBoundary(request.headers),
   form |-> IF HasBoundary(request.headers) THEN Fields(request.body) ELSE <<>>,
   cursor |-> 0, editing |-> FALSE, key |-> TRUE, input |-> <<Blank>>]

BodyRow(e) == 2 + Len(e.headers)
RowCount(e) ==
  BodyRow(e) + IF e.form = <<>> THEN 1 ELSE Len(e.form)

InForm(e) == e.multipart /\ e.cursor >= BodyRow(e)
OnField(e) == InForm(e) /\ e.cursor - BodyRow(e) < Len(e.form)
Field(e) == 1 + e.cursor - BodyRow(e)
OnHeader(e) == e.cursor \in 2 .. BodyRow(e) - 1
Header(e) == e.cursor - 1

Up(e) == IF e.cursor > 0 THEN [e EXCEPT !.cursor = @ - 1] ELSE e
Down(e) == IF e.cursor + 1 < RowCount(e) THEN [e EXCEPT !.cursor = @ + 1] ELSE e

\* Tab, in a row with two columns or not.
SwitchColumn(e) == IF OnHeader(e) \/ InForm(e) THEN [e EXCEPT !.key = ~@] ELSE Down(e)

\* What start_edit copies into the input: a text is a value of one line.
Cell(e) ==
  CASE e.cursor = 0 -> <<e.method>>
    [] e.cursor = 1 -> <<e.url>>
    [] OnHeader(e) -> <<IF e.key THEN e.headers[Header(e)][1] ELSE e.headers[Header(e)][2]>>
    [] OnField(e) -> IF e.key THEN <<e.form[Field(e)][1]>> ELSE e.form[Field(e)][2]
    [] OTHER -> e.body

StartEdit(e) ==
  IF InForm(e) /\ ~OnField(e) THEN e
  ELSE [e EXCEPT !.input = Cell(e), !.editing = TRUE]

Ended(e) == [e EXCEPT !.editing = FALSE, !.input = <<Blank>>]

\* confirm_edit: a key is followed by its value.
ConfirmEdit(e) ==
  LET text == Head(e.input)
      next == [e EXCEPT !.key = FALSE]
  IN CASE e.cursor = 0 -> Ended([e EXCEPT !.method = text])
       [] e.cursor = 1 -> Ended([e EXCEPT !.url = text])
       [] OnHeader(e) /\ e.key ->
            [next EXCEPT !.headers[Header(e)][1] = text, !.input = Cell(next)]
       [] OnHeader(e) /\ ~e.key ->
            Ended([e EXCEPT !.headers[Header(e)][2] = text, !.key = TRUE])
       [] OnField(e) /\ e.key ->
            [next EXCEPT !.form[Field(e)][1] = text, !.input = Cell(next)]
       [] OnField(e) /\ ~e.key ->
            Ended([e EXCEPT !.form[Field(e)][2] = e.input, !.key = TRUE])
       [] OTHER -> Ended([e EXCEPT !.body = e.input])

CancelEdit(e) == [Ended(e) EXCEPT !.key = TRUE]

\* add_header outside a form: below the cursor, at the end if the cursor is
\* beyond the headers.  On row 0 the subtraction wraps around, and the header
\* goes to the end too.
AddHeader(e) ==
  LET at == IF e.cursor = 0 THEN Len(e.headers)
            ELSE IF e.cursor > Len(e.headers) THEN Len(e.headers) ELSE e.cursor - 1
  IN StartEdit([e EXCEPT !.headers = InsertAt(@, at + 1, <<Blank, Blank>>),
                         !.cursor = 2 + at, !.key = TRUE])

\* add_form_field, with the cursor in the form.
AddField(e) ==
  LET below == e.cursor - BodyRow(e) + 1
      at == IF below > Len(e.form) THEN Len(e.form) ELSE below
  IN StartEdit([e EXCEPT !.form = InsertAt(@, at + 1, <<Blank, <<Blank>> >>),
                         !.cursor = BodyRow(e) + at, !.key = TRUE])

AddRow(e) == IF InForm(e) THEN AddField(e) ELSE AddHeader(e)

InRange(e) == IF e.cursor >= RowCount(e) THEN [e EXCEPT !.cursor = RowCount(e) - 1] ELSE e

\* A plausible bug: the cursor stays where the last row was.
DeleteRowOnly(e) ==
  CASE OnField(e) -> [e EXCEPT !.form = RemoveAt(@, Field(e))]
    [] OnHeader(e) -> InRange([e EXCEPT !.headers = RemoveAt(@, Header(e))])
    [] OTHER -> e

\* delete_form_field, delete_header
DeleteRow(e) ==
  CASE OnField(e) -> InRange([e EXCEPT !.form = RemoveAt(@, Field(e))])
    [] OnHeader(e) -> InRange([e EXCEPT !.headers = RemoveAt(@, Header(e))])
    [] OTHER -> e

\* save_request_editor: the request of the test from now on.
Saved(e) ==
  [method |-> e.method, url |-> e.url, headers |-> e.headers,
   body |-> CASE ~e.multipart -> e.body
              [] e.multipart /\ HasBoundary(e.headers) -> Serialized(e.form)
              [] OTHER -> <<Blank>>]

(***************************************************************************)
(* ParamEditor, over rows of a name and a value.                           *)
(***************************************************************************)
ParamRows(rows) ==
  [rows |-> rows, cursor |-> 0, mode |-> "navigate", input |-> Blank]

ParamUp(p) == IF p.cursor > 0 THEN [p EXCEPT !.cursor = @ - 1] ELSE p
ParamDown(p) == IF p.cursor + 1 < Len(p.rows) THEN [p EXCEPT !.cursor = @ + 1] ELSE p

AddParam(p) ==
  [p EXCEPT !.rows = Append(@, <<Blank, Blank>>), !.cursor = Len(p.rows),
            !.input = Blank, !.mode = "key"]

DeleteParam(p) ==
  IF p.rows = <<>> THEN p
  ELSE [p EXCEPT !.rows = RemoveAt(@, p.cursor + 1),
                 !.cursor = IF @ + 1 >= Len(p.rows) /\ @ > 0 THEN @ - 1 ELSE @]

\* start_edit_key, start_edit_value
EditParam(p, mode) ==
  IF p.cursor >= Len(p.rows) THEN p
  ELSE [p EXCEPT !.mode = mode,
                 !.input = p.rows[p.cursor + 1][IF mode = "key" THEN 1 ELSE 2]]

ConfirmParam(p) ==
  IF p.mode = "key"
  THEN EditParam([p EXCEPT !.rows[p.cursor + 1][1] = p.input], "value")
  ELSE [p EXCEPT !.rows[p.cursor + 1][2] = p.input, !.mode = "navigate", !.input = Blank]

CancelParam(p) == [p EXCEPT !.mode = "navigate", !.input = Blank]

\* to_params: of several rows with one name the last counts.
ParamsOf(p, name) ==
  LET rows == {i \in DOMAIN p.rows : p.rows[i][1] = name}
  IN IF rows = {} THEN Blank
     ELSE p.rows[CHOOSE i \in rows : \A j \in rows : j <= i][2]
================================================================================
