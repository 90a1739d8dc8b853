----------------------- MODULE OpenCollectionFormat -----------------------
(***************************************************************************)
(* OpenCollection documents, version 1.0.0, in one file: what the adapter  *)
(* reads from a tree of items, and the flat list it writes.                *)
(***************************************************************************)
EXTENDS TestCases

(***************************************************************************)
(* The document.  An item with items is a folder; an item with neither     *)
(* items nor an http request (graphql, grpc, websocket) is skipped.  A     *)
(* field holds a list of values, none when it has no value.                *)
(***************************************************************************)
OcFolder(name, items) == [name |-> name, folder |-> TRUE, items |-> items]
OcItem(name, http, auth, scripts, assertions) ==
  [name |-> name, folder |-> FALSE, http |-> http, auth |-> auth,
   scripts |-> scripts, assertions |-> assertions]
Http(method, url, headers, auth, body) ==
  [method |-> method, url |-> url, headers |-> headers, auth |-> auth, body |-> body]
OcField(name, values, disabled) == [name |-> name, values |-> values, disabled |-> disabled]
OcBody(type, contentType, text, fields) ==
  [type |-> type, contentType |-> contentType, text |-> text, fields |-> fields]
Script(type, code) == [type |-> type, code |-> code, disabled |-> FALSE]

Given(fields) == SelectSeq(fields, LAMBDA f : ~f.disabled /\ f.values # <<>>)

(***************************************************************************)
(* Import.                                                                 *)
(***************************************************************************)
apply_auth_headers(auth) ==
  CASE auth = <<"bearer">>        -> << <<"Authorization", "Bearer t">> >>
    [] auth = <<"basic">>         -> << <<"Authorization", "Basic u:p">> >>
    [] auth = <<"apikey header">> -> << <<"X-API-Key", "k">> >>
    [] OTHER                      -> <<>>

\* A body brings its content type along, whatever the headers already say.
TypeHeader(body) ==
  CASE body.type = "raw" /\ body.contentType # <<>> -> << <<"Content-Type", body.contentType[1]>> >>
    [] body.type = "formUrlEncoded" -> << <<"Content-Type", "application/x-www-form-urlencoded">> >>
    [] OTHER -> <<>>

build_body(body) ==
  LET fields == Each(LAMBDA f : f.values[1], Given(body.fields))
  IN  CASE body.type = "raw" -> body.text
        [] body.type \in {"formUrlEncoded", "multipartForm"} ->
             IF fields = <<>> THEN None ELSE FormLine(fields)
        [] OTHER -> None

\* The code of all scripts of the given types; an assertion is code when its
\* operator is known.
CodeOf(item, types) ==
  LET live == SelectSeq(item.scripts,
                LAMBDA s : ~s.disabled /\ ~Blank(s.code) /\ s.type \in types)
  IN  FlatEach(LAMBDA s : s.code, live)

AssertionCode(item) ==
  LET live == SelectSeq(item.assertions, LAMBDA a : ~a.disabled /\ a.known)
  IN  Each(LAMBDA a : a.check, live)

build_scripts(item) ==
  LET pre  == CodeOf(item, {"before-request"})
      post == CodeOf(item, {"after-response", "tests"}) \o AssertionCode(item)
  IN  <<IF pre = <<>> THEN None ELSE PreScript(pre),
        IF post = <<>> THEN None
        ELSE IF Last(post) \in Returns THEN <<ImportPost>> \o post ELSE PostScript(post)>>

\* The item's authentication comes before the request's own.
build_test_case(name, item) ==
  LET http    == item.http[1]
      plain   == Each(LAMBDA h : <<h.name, h.values[1]>>, Given(http.headers))
      auth    == IF item.auth # <<>> THEN item.auth ELSE http.auth
      body    == http.body
      scripts == build_scripts(item)
  IN  Case(name, http.method, http.url,
           plain \o apply_auth_headers(auth) \o (IF body = <<>> THEN <<>> ELSE TypeHeader(body[1])),
           IF body = <<>> THEN None ELSE build_body(body[1]),
           scripts[1], scripts[2])

RECURSIVE flatten_item(_, _)
flatten_item(item, prefix) ==
  LET name == prefix \o item.name
  IN  IF item.folder
      THEN FlatEach(LAMBDA sub : flatten_item(sub, name), item.items)
      ELSE IF item.http = <<>> THEN <<>> ELSE <<build_test_case(name, item)>>

OpenCollectionImport(items) == FlatEach(LAMBDA item : flatten_item(item, <<>>), items)

(***************************************************************************)
(* Export: no folders, every body raw with a content type of its own.      *)
(***************************************************************************)
ContentType(headers) ==
  LET types == SelectSeq(headers, LAMBDA h : h[1] = "Content-Type")
  IN  IF types = <<>> THEN "text/plain" ELSE types[1][2]

OcExportItem(tc) ==
  LET headers == Each(LAMBDA h : OcField(h[1], <<h[2]>>, FALSE), tc.headers)
      body    == IF Absent(tc.body) THEN <<>>
                 ELSE <<OcBody("raw", <<ContentType(tc.headers)>>, tc.body, <<>>)>>
      pre     == IF Absent(tc.pre) THEN <<>>
                 ELSE <<Script("before-request", StripPrefix(tc.pre, <<ImportPre>>))>>
      post    == IF Absent(tc.post) THEN <<>>
                 ELSE <<Script("tests", StripSuffix(StripPrefix(tc.post, <<ImportPost>>),
                                                    <<ReturnResults>>))>>
  IN  OcItem(tc.name, <<Http(tc.method, tc.url, headers, <<>>, body)>>, <<>>, pre \o post, <<>>)

OpenCollectionExport(tests) == Each(OcExportItem, tests)
=============================================================================
