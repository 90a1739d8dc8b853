--------------------------- MODULE PostmanFormat ---------------------------
(***************************************************************************)
(* Postman collections, versions 2.0 and 2.1: what the adapter reads from  *)
(* a tree of folders and requests, and the tree it writes.                 *)
(***************************************************************************)
EXTENDS TestCases

(***************************************************************************)
(* The document.  An item is a folder when it has items of its own; it may *)
(* carry a request all the same, whose authentication its items inherit.   *)
(* "auth" and "body" hold at most one element.                             *)
(***************************************************************************)
Request(method, url, header, auth, body) ==
  [method |-> method, url |-> url, header |-> header, auth |-> auth, body |-> body]

Item(name, request, event) == [name |-> name, folder |-> FALSE, item |-> <<>>,
                               request |-> request, event |-> event]
Folder(name, item, request) == [name |-> name, folder |-> TRUE, item |-> item,
                                request |-> request, event |-> <<>>]
Collection(item, auth) == [item |-> item, auth |-> auth]

Enabled(entries) == SelectSeq(entries, LAMBDA e : ~e.disabled)
Pair(key, value, disabled) == [key |-> key, value |-> value, disabled |-> disabled]
Raw(text) == [mode |-> "raw", text |-> text, fields |-> <<>>]
Fields(mode, fields) == [mode |-> mode, text |-> <<>>, fields |-> fields]

(***************************************************************************)
(* Import.                                                                 *)
(***************************************************************************)
\* The innermost authentication wins, "none" included.
EffectiveAuth(own, parent) == IF own # <<>> THEN own ELSE parent

auth_to_headers(auth) ==
  CASE auth = <<"bearer">>        -> << <<"Authorization", "Bearer t">> >>
    [] auth = <<"basic">>         -> << <<"Authorization", "Basic u:p">> >>
    [] auth = <<"apikey header">> -> << <<"X-API-Key", "k">> >>
    [] auth = <<"oauth2 prefix">> -> << <<"Authorization", "MAC t">> >>
    [] OTHER                      -> <<>>

append_apikey_query(url, auth) == IF auth = <<"apikey query">> THEN Append(url, "k=1") ELSE url

\* Percent-encoding turns the braces of a dynamic variable into text.
Encoded(piece) == IF piece \in Dynamic THEN "encoded" ELSE piece

ImportedBody(body) ==
  LET values == Each(LAMBDA f : f.value, Enabled(body[1].fields))
  IN  IF body = <<>> THEN None
      ELSE CASE body[1].mode = "raw"        -> body[1].text
             [] body[1].mode = "urlencoded" ->
                  FormLine(Each(Encoded, values))
             [] body[1].mode = "formdata"   ->
                  IF values = <<>> THEN None ELSE FormLine(values)
             [] OTHER                       -> None

ImportedHeaders(request, auth) ==
  LET plain   == Each(LAMBDA h : <<h.key, h.value>>, Enabled(request.header))
      headers == plain \o auth_to_headers(auth)
  IN  IF request.body # <<>> /\ request.body[1].mode = "formdata"
      THEN WithType(headers, "multipart/form-data") ELSE headers

\* The code of the first enabled event of a kind; a blank one counts as none.
EventCode(events, listen) ==
  LET found == SelectSeq(events, LAMBDA e : e.listen = listen /\ ~e.disabled)
  IN  IF found = <<>> \/ Blank(found[1].exec) THEN None ELSE found[1].exec

build_dynamic_var_script(url, headers, body) ==
  IF HasDynamic(url) \/ HasDynamic(body) \/ \E i \in DOMAIN headers : headers[i][2] \in Dynamic
  THEN Resolver ELSE None

Imported(item, path, parent) ==
  LET auth    == EffectiveAuth(item.request[1].auth, parent)
      url     == append_apikey_query(item.request[1].url, auth)
      headers == ImportedHeaders(item.request[1], auth)
      body    == ImportedBody(item.request[1].body)
      code    == build_dynamic_var_script(url, headers, body) \o EventCode(item.event, "prerequest")
      test    == EventCode(item.event, "test")
  IN  Case(path \o item.name, item.request[1].method, url, headers, body,
           IF Absent(code) THEN None ELSE PreScript(code),
           IF Absent(test) THEN None ELSE PostScript(test))

\* An item with neither items nor a request is skipped.
RECURSIVE collect_items(_, _, _)
collect_items(items, path, parent) ==
  LET from(item) ==
        IF item.folder
        THEN collect_items(item.item, path \o item.name,
               IF item.request = <<>> THEN parent ELSE EffectiveAuth(item.request[1].auth, parent))
        ELSE IF item.request = <<>> THEN <<>> ELSE <<Imported(item, path, parent)>>
  IN  FlatEach(from, items)

PostmanImport(collection) == collect_items(collection.item, <<>>, collection.auth)

(***************************************************************************)
(* Export.                                                                 *)
(***************************************************************************)
Event(listen, exec) == [listen |-> listen, exec |-> exec, disabled |-> FALSE]

tc_to_item(name, tc) ==
  LET header == Each(LAMBDA h : Pair(h[1], h[2], FALSE), tc.headers)
      body   == IF Absent(tc.body) THEN <<>> ELSE <<Raw(tc.body)>>
      pre    == IF Absent(tc.pre) THEN <<>>
                ELSE <<Event("prerequest", StripPrefix(tc.pre, <<ImportPre>>))>>
      post   == IF Absent(tc.post) THEN <<>>
                ELSE <<Event("test", StripSuffix(StripPrefix(tc.post, <<ImportPost>>),
                                                 <<ReturnResults>>))>>
  IN  Item(name, <<Request(tc.method, tc.url, header, <<>>, body)>>, pre \o post)

\* Cases whose names begin with the same part go to one folder, where the
\* first of them stood.  "tagged" pairs the rest of a name with its case.
RECURSIVE group_into_folders(_)
group_into_folders(tagged) ==
  LET leaf(t)   == Len(t[1]) <= 1
      first(t)  == t[1][1]
      opens(i)  == leaf(tagged[i]) \/ \A j \in 1..(i - 1) : leaf(tagged[j]) \/ first(tagged[j]) # first(tagged[i])
      within(f) == LET same == SelectSeq(tagged, LAMBDA t : ~leaf(t) /\ first(t) = f)
                   IN  Each(LAMBDA t : <<Tail(t[1]), t[2]>>, same)
      entry(t)  == IF leaf(t) THEN tc_to_item(t[1], t[2])
                   ELSE Folder(<<first(t)>>, group_into_folders(within(first(t))), <<>>)
      places    == SelectSeq([i \in DOMAIN tagged |-> i], LAMBDA i : opens(i))
  IN  Each(LAMBDA i : entry(tagged[i]), places)

PostmanExport(tests) ==
  Collection(group_into_folders(Each(LAMBDA tc : <<tc.name, tc>>, tests)), <<>>)
=============================================================================
