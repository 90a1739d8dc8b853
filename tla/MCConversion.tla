--------------------------- MODULE MCConversion ---------------------------
(***************************************************************************)
(* Small collections of every format, chosen so that each feature of an    *)
(* importer and each circumstance of a loss occurs.                        *)
(***************************************************************************)
EXTENDS Conversion

JsonLine == "{a: 1}"
Base == "h/a"
MCParts == [b \in {"h/a", "h/b"} |-> IF b = "h/a" THEN <<"h", "a">> ELSE <<"h", "b">>]
MCPairs == { <<"Content-Type", "application/json">>, <<"Content-Type", "text/plain">>,
  <<"Content-Type", "multipart/form-data">>, <<"Content-Type", MultipartType>>,
  <<"Content-Type", UrlEncodedType>>, <<"Content-Type", "application/xml">>,
  <<"Accept", "x">>, <<"Accept", "y">>, <<"X-API-Key", "k">>, <<"Authorization", "Bearer t">>,
  <<"Authorization", "Basic u:p">>, <<"Authorization", "MAC t">>, <<"{a", "1}">>, <<"f", "v">>,
  <<"Content-Disposition", "form-data; name=f">>, <<"Content-Disposition", "form-data; name=g; filename=d">>,
  <<"Content-Disposition", "form-data; name=files">>, <<"Content-Type", "x">>, <<"### a", "b">> }
Item1(name, value) == [kind |-> "field", key |-> name, value |-> value]
MCFields == [l \in {"f = v", "g = < data"} |->
  IF l = "f = v" THEN Field("f", "v", << <<"type", "text/plain">> >>)
  ELSE Field("g", "< data", << <<"filename", "d">> >>)]
MCYaml == [l \in {"f: v", "files:", "- file: < data", "type: x"} |->
  CASE l = "f: v" -> Item1("f", "v")
    [] l = "files:" -> [kind |-> "list", key |-> "files", value |-> ""]
    [] l = "- file: < data" -> [kind |-> "item", key |-> "file", value |-> "< data"]
    [] l = "type: x" -> [kind |-> "prop", key |-> "type", value |-> "x"]]
MCReferences == [l \in {"< data", "< lost", "<x/>"} |->
  CASE l = "< data" -> "data" [] l = "< lost" -> "lost" [] OTHER -> "x/>"]
MCFiles == [p \in {"data"} |-> <<"content">>]
MCTypes == [p \in {"data"} |-> "text/plain"]
MCEnv == <<"env()">>
MCMarked == [l \in {"> data", "> lost", "### note", "GET h/a"} |->
  CASE l = "> data" -> PostFile("data") [] l = "> lost" -> PostFile("lost")
    [] l = "### note" -> Title(<<"note">>) [] OTHER -> RequestLine("GET", <<Base>>)]
Tag == Segment("hashtag", <<"t">>)
MCSegments == [n \in {<<"p #t">>, <<"b@c">>, <<"@id 42">>} |->
  CASE n = <<"p #t">> -> <<Segment("description", <<"p">>), Tag>>
    [] n = <<"b@c">>  -> <<Segment("description", <<"b">>), Segment("loose", <<"@c">>)>>
    [] OTHER          -> <<Segment("param", <<"id">>)>>]
MCClosing == [p \in {"/* {%}", "say('{%}')"} |->
  IF p = "/* {%}" THEN <<"/* {", "">> ELSE <<"say('{", "')">>]
MCOdd == [p \in {"GET h", "PUT h", "p all", "a?q=1", "p #t", "b@c", "@id 42", "a: b"} |->
  CASE p = "GET h" -> "GET_h" [] p = "PUT h" -> "PUT_h" [] p = "p all" -> "p_all"
    [] p = "p #t" -> "p__t" [] p = "b@c" -> "b_c" [] p = "@id 42" -> "_id_42" [] p = "a: b" -> "a__b"
    [] OTHER -> "a_q_1"]
MCFileNames == <<"GET_h/a", "GET_h_a", "PUT_h/a", "PUT_h_a", "U/p", "U/p_all", "U/q", "U_p", "U_p_all", "U_q",
  "_id_42", "a", "a__b", "all", "b", "b_c", "c", "collection", "d", "h/a_q_1", "h_a", "h_a_q_1", "note",
  "p", "p__t", "request">>

(***************************************************************************)
(* Postman.                                                                *)
(***************************************************************************)
Off == TRUE
On == FALSE
PE(listen, code) == Event(listen, code)
PmFolders == Collection(<<
  Folder(<<"U">>, <<
    Item(<<"p">>, <<Request("GET", <<Base, "?q=1">>, << Pair("Accept", "x", On) >>, <<>>, <<>>)>>,
         <<PE("prerequest", <<"set()">>), PE("test", <<"check()">>)>>)>>,
    <<Request("GET", <<Base>>, <<>>, <<"basic">>, <<>>)>>),
  Item(<<"a">>, <<Request("POST", <<Base>>, << Pair("Content-Type", "application/json", On) >>,
       <<"none">>, <<Raw(<<JsonLine>>)>>)>>, <<PE("test", <<"">>)>>),
  Folder(<<"U">>, << Item(<<"q">>, <<Request("PUT", <<"h/b", "{{$guid}}">>, <<>>, <<>>, <<>>)>>,
         <<PE("prerequest", <<"set()">>)>>)>>, <<>>)>>, <<"bearer">>)
PmBodies == Collection(<<
  Item(<<"a">>, <<Request("POST", <<Base>>, << Pair("Accept", "x", Off) >>, <<"apikey query">>,
       <<Fields("urlencoded", << Pair("f", "f=1", On), Pair("g", "g=2", Off), Pair("h", "{{$guid}}", On) >>)>>)>>, <<>>),
  Item(<<"b">>, <<Request("POST", <<Base>>, <<>>, <<"oauth2 prefix">>,
       <<Fields("formdata", << Pair("f", "f=1", On), Pair("g", "g=<file:x>", On) >>)>>)>>,
       << [PE("test", <<"old()">>) EXCEPT !.disabled = TRUE], PE("test", <<"check()">>) >>),
  Item(<<"c">>, <<Request("POST", <<Base>>, <<>>, <<"apikey header">>, <<Raw(<<"">>)>>)>>, <<>>),
  Item(<<"d">>, <<>>, <<>>)>>, <<>>)

PmXml == Collection(<<
  Item(<<"a">>, <<Request("POST", <<Base>>, << Pair("Content-Type", "application/xml", On) >>, <<>>,
       <<Raw(<<"<x/>">>)>>)>>, <<>>),
  Item(<<"b">>, <<Request("POST", <<Base>>, <<>>, <<>>, <<Raw(<<"text", "", "more">>)>>)>>, <<>>)>>, <<>>)

\* Names, bodies and scripts that .http files read differently.
PmItem(name, headers, body, events) ==
  Item(name, <<Request("POST", <<Base>>, headers, <<>>, IF Absent(body) THEN <<>> ELSE <<Raw(body)>>)>>, events)
Accepts == << Pair("Accept", "x", On) >>
Check(code) == <<PE("test", code)>>
Of1(name, headers, body, events) == Collection(<<PmItem(name, headers, body, events)>>, <<>>)
Of2(first, second) == Collection(<<first, second>>, <<>>)
Plain(name) == PmItem(name, Accepts, None, <<>>)
PmOdd == {
  Of1(<<"p #t">>, Accepts, None, <<>>),
  Of1(<<"b@c">>, Accepts, None, <<>>),
  Of2(PmItem(<<"b">>, <<>>, None, <<>>), Plain(<<"a: b">>)),
  Of2(Plain(<<"b">>), Plain(<<"a: b">>)),
  Of1(<<"a">>, Accepts, <<"> data", "GET h/a">>, <<>>),
  Of1(<<"a">>, Accepts, <<"text", "> lost">>, Check(<<"check()">>)),
  Of1(<<"a">>, Accepts, <<"text", "### note">>, Check(<<"check()">>)),
  Of2(PmItem(<<"a">>, Accepts, <<"text", "### note", "< data", "GET h/a">>, <<>>), Plain(<<"b">>)),
  Of2(PmItem(<<"a">>, Accepts, <<"GET h/a">>, <<>>), Plain(<<"b">>)),
  Of1(<<"a">>, Accepts, None, Check(<<"/* {%}", "*/">>)),
  Of1(<<"a">>, Accepts, None, Check(<<"/* {%}", "GET h/a", "*/">>)),
  Of2(PmItem(<<"a">>, Accepts, None, Check(<<"/* {%}", "*/">>)), Plain(<<"b">>)),
  Of1(<<"a">>, Accepts, None, Check(<<"say('{%}')">>)) }

(***************************************************************************)
(* Bruno.                                                                  *)
(***************************************************************************)
BruScripts == [n \in {"a", "b", "collection"} |->
  CASE n = "a" -> << Meta(<<"a">>, "http", 2), Method("GET", <<Base>>), Section("auth:oauth2", <<>>),
                     Section("script:pre-request", <<"set()">>), Section("vars:pre-request", <<"v()">>),
                     Section("docs", <<>>) >>
    [] n = "b" -> << Meta(<<"U", "p">>, "http", 1), Method("GET", <<Base>>),
                     Section("test", <<"check()">>) >>
    [] OTHER   -> << Meta(<<"c">>, "collection", 0), Section("script:pre-request", <<"all()">>) >>]
BruBodies == [n \in {"a", "b", "c"} |->
  CASE n = "a" -> << Meta(<<"a">>, "http", 0), Method("POST", <<Base>>), Section("headers", << <<"Accept", "x">> >>),
                     Section("body:json", <<JsonLine>>), Section("auth:bearer", << <<"Authorization", "Bearer t">> >>),
                     Section("assert", <<"ok()">>), Section("test", <<"check()">>) >>
    [] n = "b" -> << Meta(<<"U", "p">>, "http", 1), Method("POST", <<Base>>), Section("body:text", <<"{open">>),
                     Section("test", <<"check()">>) >>
    [] OTHER   -> << Method("PUT", <<Base>>), Section("body:form-urlencoded", <<"f=1", "g=2">>),
                     Section("params:query", <<"?q=1">>), Section("vars:pre-request", <<"v()">>) >>]

(***************************************************************************)
(* OpenCollection.                                                         *)
(***************************************************************************)
OcItems == <<
  OcFolder(<<"U">>, << OcItem(<<"p">>, <<Http("GET", <<Base>>, <<OcField("Accept", <<"x">>, On)>>, <<"basic">>, <<>>)>>,
    <<"bearer">>, <<Script("before-request", <<"set()">>), Script("tests", <<"check()">>)>>,
    << [known |-> TRUE, disabled |-> FALSE, check |-> "ok()"] >>) >>),
  OcItem(<<"a">>, <<Http("POST", <<Base>>, <<OcField("Accept", <<>>, On)>>, <<>>,
    <<OcBody("raw", <<"application/json">>, <<JsonLine>>, <<>>)>>)>>, <<>>,
    <<Script("after-response", <<"check()", ReturnResults>>)>>, <<>>),
  OcItem(<<"b">>, <<Http("POST", <<Base>>, <<>>, <<>>,
    <<OcBody("formUrlEncoded", <<>>, None, <<OcField("f", <<"f=1">>, On), OcField("g", <<>>, On)>>)>>)>>, <<>>, <<>>, <<>>),
  OcItem(<<"c">>, <<>>, <<>>, <<>>, <<>>)>>

(***************************************************************************)
(* .http files.                                                            *)
(***************************************************************************)
HttpScripts == <<
  Title(<<"U", "p">>), Title(<<"all">>), BlankLine, PreBlock(<<"set()">>), RequestLine("GET", <<Base>>),
  Text("Accept: x"), Text("Accept: y"), BlankLine, PostBlock(<<"check()">>), BlankLine,
  RequestLine("GET", <<Base>>), BlankLine, Title(<<"b">>), RequestLine("POST", <<Base>>), BlankLine, Text(JsonLine),
  PostBlock(<<"check()">>), PostBlock(<<"more()">>), Title(<<"c">>), RequestLine("GET", <<Base>>)>>
HttpShort == <<
  Title(<<"a">>), RequestLine("GET", <<Base>>), PostBlock(<<"check()">>),
  Title(<<"b">>), PreBlock(<<"set()">>), RequestLine("POST", <<Base>>), Text("Content-Type: text/plain"), BlankLine,
  Text("text"), Title(<<"a">>), RequestLine("PUT", <<Base>>)>>
HttpForms == <<
  Title(<<"a">>), RequestLine("POST", <<Base>>), Text("Accept: x"), BlankLine, Text("--b"), Text("Content-Disposition: form-data; name=f"), BlankLine,
  Text("text"), Text("--b"), BlankLine, Text("< data"), Text("--b--"), BlankLine,
  Title(<<"b">>), RequestLine("POST", <<Base>>), Text("Content-Type: multipart/form-data"), BlankLine,
  Text("f = v"), Text("g = < data"), BlankLine,
  Title(<<"c">>), RequestLine("POST", <<Base>>), Text("Content-Type: multipart/form-data"), BlankLine,
  Text("f: v"), Text("files:"), Text("- file: < data"), Text("type: x"), BlankLine,
  Title(<<"d">>), RequestLine("POST", <<Base>>), Text("Accept: x"), BlankLine, Text("[form-urlencoded]"), Text("f = v")>>
HttpFile == <<
  Title(<<"a">>), RequestLine("POST", <<Base>>), Text("Accept: x"), BlankLine, Text("< data")>>
HttpUnnamed == <<
  RequestLine("GET", <<Base>>), PostBlock(<<"check()">>), BlankLine, PostBlock(<<"more()">>),
  Title(<<"">>), RequestLine("POST", <<Base>>), Text("{a: 1"), BlankLine,
  Title(<<"">>), RequestLine("PUT", <<Base>>), Text("{a: 1")>>
HttpUntitled == <<
  RequestLine("GET", <<Base>>), Text("Accept: x"), Title(<<"b">>), RequestLine("PUT", <<Base>>)>>
HttpLost == <<
  Title(<<"a">>), RequestLine("GET", <<Base>>), Text("Accept: x"), BlankLine,
  Title(<<"b">>), RequestLine("POST", <<Base>>), Text("Accept: x"), BlankLine, Text("< lost")>>


\* An entry with a second line of metadata, and blocks that end early.
HttpTagged == <<
  Title(<<"U", "p">>), Title(<<"@id 42">>), BlankLine, RequestLine("GET", <<Base>>), Text("Accept: x"), BlankLine,
  Title(<<"p #t">>), RequestLine("PUT", <<Base>>), PostFile("data"), Title(<<"b@c">>), RequestLine("GET", <<Base>>)>>
HttpCut == <<
  Title(<<"a">>), Text("< data"), RequestLine("GET", <<Base>>), Title(<<"a: b">>), BlankLine, Title(<<"b">>),
  PreBlock(<<"/* {%}", "GET h/a", "*/">>), BlankLine, Title(<<"c">>), PreBlock(<<"say('{%}')">>), RequestLine("GET", <<Base>>)>>

\* A directory as people write it: a file without a title, one that ends in
\* the middle of an entry, one the parser gives up on.
SplitFiles == [n \in {"a", "b", "c"} |->
  CASE n = "a" -> <<RequestLine("GET", <<Base>>), Text("Accept: x")>>
    [] n = "b" -> <<RequestLine("PUT", <<Base>>), PostBlock(<<"check()">>)>>
    [] OTHER   -> <<Title(<<"c">>), RequestLine("GET", <<Base>>), BlankLine>>]
SplitParts == [n \in {"a", "b", "d"} |->
  CASE n = "a" -> <<Title(<<"a">>), RequestLine("GET", <<Base>>), PostBlock(<<"check()">>), PostBlock(<<"more()">>)>>
    [] n = "b" -> <<BlankLine>>
    [] OTHER   -> <<Title(<<"d">>)>>]

OddDisks == {[EmptyDisk EXCEPT !.postman = <<c>>] : c \in PmOdd}

MCDisks == OddDisks \cup
  {[EmptyDisk EXCEPT !.postman = <<PmFolders>>], [EmptyDisk EXCEPT !.postman = <<PmBodies>>],
   [EmptyDisk EXCEPT !.postman = <<PmXml>>],
   [EmptyDisk EXCEPT !.http = <<HttpTagged>>], [EmptyDisk EXCEPT !.http = <<HttpCut>>],
   [EmptyDisk EXCEPT !.bruno = BruScripts], [EmptyDisk EXCEPT !.bruno = BruBodies],
   [EmptyDisk EXCEPT !.opencollection = <<OcItems>>],
   [EmptyDisk EXCEPT !.http = <<HttpScripts>>], [EmptyDisk EXCEPT !.http = <<HttpShort>>],
   [EmptyDisk EXCEPT !.http = <<HttpForms>>], [EmptyDisk EXCEPT !.http = <<HttpFile>>],
   [EmptyDisk EXCEPT !.http = <<HttpUnnamed>>], [EmptyDisk EXCEPT !.http = <<HttpUntitled>>],
   [EmptyDisk EXCEPT !.http = <<HttpLost>>],
   [EmptyDisk EXCEPT !.http = <<HttpFile>>, !.opencollection = <<OcItems>>],
   [EmptyDisk EXCEPT !.opencollection = <<OcItems>>, !.bruno = [n \in {"collection"} |-> BruScripts[n]]],
   [EmptyDisk EXCEPT !.split = SplitFiles], [EmptyDisk EXCEPT !.split = SplitParts]}

\* Where a pre-request script is found on the way to an .http file.
MCScripted == {[EmptyDisk EXCEPT !.postman = <<PmFolders>>], [EmptyDisk EXCEPT !.opencollection = <<OcItems>>]}
=============================================================================
