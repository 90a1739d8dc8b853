---------------------------- MODULE BrunoFormat ----------------------------
(***************************************************************************)
(* Bruno collections: a directory of .bru files, each a sequence of named  *)
(* sections in braces.  What the adapter reads and the files it writes.    *)
(***************************************************************************)
EXTENDS TestCases

CONSTANTS
  FileNames,   \* the names a file can have, in the order paths sort in
  EnvVars,     \* the statements that set the variables of an environment
  BraceOpen    \* body lines with a brace that is not closed

(***************************************************************************)
(* Sections.  A directory is a function from the names of its files; "meta"*)
(* holds the name, the type and the position of a file, 0 when it has      *)
(* none.  Key-value pairs are the enabled ones: parse_kv skips comments,   *)
(* disabled lines and lines without a colon.                               *)
(***************************************************************************)
Meta(name, type, seq) == [kind |-> "meta", name |-> name, type |-> type, seq |-> seq]
Method(method, url) == [kind |-> "method", method |-> method, url |-> url]
Section(kind, content) == [kind |-> kind, content |-> content]
Methods == {"GET", "POST", "PUT", "DELETE", "PATCH", "HEAD", "OPTIONS"}

\* Parsing ends without a word at the first section whose braces do not
\* balance.
parse_sections(file) ==
  LET open(s) == "content" \in DOMAIN s /\ \E i \in DOMAIN s.content : s.content[i] \in BraceOpen
      first   == SelectInSeq(file, open)
  IN  IF first = 0 THEN file ELSE SubSeq(file, 1, first - 1)

OfKind(file, kind) == SelectSeq(parse_sections(file), LAMBDA s : s.kind = kind)

(***************************************************************************)
(* Import of one file: the sections in turn, each changing the case.       *)
(***************************************************************************)
BodyTypes == [k \in {"body:json", "body:text", "body:xml"} |->
  CASE k = "body:json" -> "application/json"
    [] k = "body:text" -> "text/plain"
    [] OTHER           -> "application/xml"]
FormTypes == [k \in {"body:form-urlencoded", "body:form-data", "body:multipart-form"} |->
  IF k = "body:form-urlencoded" THEN "application/x-www-form-urlencoded" ELSE "multipart/form-data"]
Tests == {"script:post-response", "script:tests", "test"}
AuthKinds == {"auth:bearer", "auth:basic", "auth:apikey"}

ReadBody(tc, s) ==
  CASE s.kind \in DOMAIN BodyTypes ->
         [tc EXCEPT !.body = IF Blank(s.content) THEN @ ELSE Trimmed(s.content),
                    !.headers = WithType(@, BodyTypes[s.kind])]
    [] s.kind \in DOMAIN FormTypes /\ s.content # <<>> ->
         [tc EXCEPT !.body = FormLine(s.content), !.headers = WithType(@, FormTypes[s.kind])]
    [] s.kind = "body:file" /\ ~Blank(s.content) -> [tc EXCEPT !.body = s.content]
    [] OTHER -> tc

\* A script replaces what is there; every section of tests is wrapped by
\* itself and joined to what is there.
ReadScript(tc, s) ==
  CASE s.kind = "script:pre-request" /\ ~Blank(s.content) -> [tc EXCEPT !.pre = PreScript(s.content)]
    [] s.kind \in Tests \cup {"assert"} /\ ~Blank(s.content) ->
         [tc EXCEPT !.post = Joined(@, PostScript(s.content))]
    [] OTHER -> tc

\* Code generated for variables and for the exchange of a token is put
\* behind the script that is there.
ReadGenerated(tc, s) ==
  LET add(code) == [tc EXCEPT !.pre = IF Absent(@) THEN PreScript(code) ELSE @ \o code]
  IN  CASE s.kind = "vars:pre-request" /\ s.content # <<>> -> add(s.content)
        [] s.kind = "auth:oauth2" -> add(TokenExchange)
        [] OTHER -> tc

ReadSection(tc, s) ==
  CASE s.kind = "meta" -> [tc EXCEPT !.name = s.name]
    [] s.kind = "method" -> [tc EXCEPT !.method = s.method, !.url = s.url]
    [] s.kind \in {"headers"} \cup AuthKinds -> [tc EXCEPT !.headers = @ \o s.content]
    [] s.kind = "params:query" -> [tc EXCEPT !.url = @ \o s.content]
    [] OTHER -> ReadGenerated(ReadScript(ReadBody(tc, s), s), s)

parse_bru(file) ==
  LET read == Run(ReadSection, Case(<<"">>, "GET", <<>>, <<>>, None, None, None), parse_sections(file))
  IN  [read EXCEPT !.name = IF Unnamed(@) THEN UrlName(read.url) ELSE @]

(***************************************************************************)
(* Import of a directory: the files by position and then by path, those    *)
(* without a position last.  A file of type folder or collection holds     *)
(* scripts for all the others; the last such file wins.                    *)
(***************************************************************************)
Listing(dir) == SelectSeq(FileNames, LAMBDA n : n \in DOMAIN dir)

IsFolderFile(file) ==
  LET meta == OfKind(file, "meta")
  IN  meta # <<>> /\ meta[1].type \in {"folder", "collection"}

Position(file) ==
  LET meta == OfKind(file, "meta")
  IN  IF meta = <<>> THEN 0 ELSE meta[Len(meta)].seq

Sorted(dir) ==
  LET files    == SelectSeq(Listing(dir), LAMBDA n : ~IsFolderFile(dir[n]))
      place(n) == CHOOSE i \in DOMAIN files : files[i] = n
      last     == 1000
      key(n)   == IF Position(dir[n]) = 0 THEN last ELSE Position(dir[n])
      before(m, n) == key(m) < key(n) \/ (key(m) = key(n) /\ place(m) < place(n))
  IN  SortSeq(files, before)

FolderScript(dir, kinds) ==
  LET folders == SelectSeq(Listing(dir), LAMBDA n : IsFolderFile(dir[n]))
      found   == SelectSeq(FlatEach(LAMBDA n : parse_sections(dir[n]), folders),
                           LAMBDA s : s.kind \in kinds /\ ~Blank(s.content))
  IN  IF found = <<>> THEN None ELSE found[Len(found)].content

WithFolder(tc, pre, post) ==
  [tc EXCEPT !.pre  = IF Absent(pre) THEN @ ELSE Before(pre, @),
             !.post = IF Absent(post) THEN @ ELSE Joined(@, post)]

import_dir(dir) ==
  LET before == FolderScript(dir, {"script:pre-request"})
      behind == FolderScript(dir, Tests)
      pre    == IF Absent(before) THEN None ELSE PreScript(before)
      post   == IF Absent(behind) THEN None ELSE PostScript(behind)
  IN  Each(LAMBDA n : WithFolder(parse_bru(dir[n]), pre, post), Sorted(dir))

\* With an environment its variables are set before anything else.
import_dir_with_env(dir) ==
  LET set(tc) == [tc EXCEPT !.pre = Before(PreScript(EnvVars), @)]
  IN  IF EnvVars = <<>> THEN import_dir(dir) ELSE Each(set, import_dir(dir))

(***************************************************************************)
(* Export of one case.  The query of the URL is written twice, in the URL  *)
(* and in a section, and so are the imports a script begins with, as part  *)
(* of the script.  Credentials are written for two schemes only.  Lines    *)
(* are indented, which a body keeps in all lines but its first.            *)
(***************************************************************************)
Authorization(tc) == SelectSeq(tc.headers, LAMBDA h : h[1] = "Authorization")
Schemes == [h \in {"Bearer t", "Basic u:p"} |-> IF h = "Bearer t" THEN "auth:bearer" ELSE "auth:basic"]

Indented(lines) == [i \in DOMAIN lines |-> IF i = 1 THEN lines[i] ELSE "  " \o lines[i]]

export_bru(tc, seq) ==
  LET plain == SelectSeq(tc.headers, LAMBDA h : h[1] # "Authorization")
      known == SelectSeq(Authorization(tc), LAMBDA h : h[2] \in DOMAIN Schemes)
      body  == Trimmed(tc.body)
      query == SelectSeq(tc.url, LAMBDA p : p \in Queries)
      method == IF tc.method \in Methods THEN Method(tc.method, tc.url)
                ELSE Section(tc.method, tc.url)
      some(content, section) == IF content = <<>> THEN <<>> ELSE <<section>>
  IN  <<Meta(tc.name, "http", seq), method>>
      \o some(tc.headers, Section("headers", plain))
      \o some(tc.body, Section(IF body # <<>> /\ body[1] \in Json THEN "body:json" ELSE "body:text",
                               Indented(body)))
      \o Each(LAMBDA h : Section(Schemes[h[2]], <<h>>), known)
      \o some(tc.pre, Section("script:pre-request", tc.pre))
      \o some(tc.post, Section("test", tc.post))
      \o some(query, Section("params:query", query))
=============================================================================
