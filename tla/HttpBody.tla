----------------------------- MODULE HttpBody -----------------------------
(***************************************************************************)
(* The body of a request in an .http file: what kind of body its lines     *)
(* are, and the text and the content type it is sent with.  One boundary   *)
(* stands for the fresh one every form is given and for those that occur   *)
(* in files.                                                               *)
(***************************************************************************)
EXTENDS TestCases

CONSTANTS
  References,   \* "< path" lines, with their paths
  FieldLines,   \* "name = value" lines, with the field each stands for
  YamlLines,    \* lines of the colon form, with what each stands for
  Files,        \* the readable files, with their lines
  FileTypes     \* the content types that names of files give away

Boundary == "--b"
End == "--b--"
MultipartType == "multipart/form-data; boundary=b"
UrlEncodedType == "application/x-www-form-urlencoded"

Kind(kind, content) == [kind |-> kind, content |-> content]
HeaderLine(pair) == pair[1] \o ": " \o pair[2]
HeaderLike(line) == \E p \in Pairs : line = HeaderLine(p)
AsHeader(line) == CHOOSE p \in Pairs : line = HeaderLine(p)

(***************************************************************************)
(* Multipart bodies, scanned line by line after the first boundary: the    *)
(* headers of a part end at a blank line only, its content at a boundary.  *)
(***************************************************************************)
NoPart == [headers |-> <<>>, content |-> <<>>]
ScanMultipart(s, line) ==
  LET closed == [s EXCEPT !.parts = Append(@, s.part), !.part = NoPart]
  IN  CASE s.mode = "done" -> s
        [] s.mode \in {"start", "headers"} ->
             IF s.mode = "start" /\ Bare(line) = End THEN [s EXCEPT !.mode = "done"]
             ELSE IF Bare(line) = "" THEN [s EXCEPT !.mode = "content"]
             ELSE [s EXCEPT !.mode = "headers",
                            !.part.headers = IF HeaderLike(Bare(line)) THEN Append(@, line) ELSE @]
        [] s.mode = "content" /\ Bare(line) = Boundary -> [closed EXCEPT !.mode = "start"]
        [] s.mode = "content" /\ Bare(line) = End -> [closed EXCEPT !.mode = "done"]
        [] OTHER -> [s EXCEPT !.part.content = Append(@, line)]

parse_multipart_body(lines) ==
  LET first == [mode |-> "start", part |-> NoPart, parts |-> <<>>]
      end   == Run(ScanMultipart, first, Tail(lines))
  IN  IF end.mode \in {"headers", "content"} THEN Append(end.parts, end.part) ELSE end.parts

(***************************************************************************)
(* Fields.  An item of a list becomes a field of its own: its file, or     *)
(* else its first property, is the value, the others are attributes.       *)
(***************************************************************************)
FieldsOf(lines) ==
  Each(LAMBDA l : FieldLines[Bare(l)], SelectSeq(lines, LAMBDA l : Bare(l) \in DOMAIN FieldLines))

Field(name, value, attrs) == [name |-> name, value |-> value, attrs |-> attrs]

ItemField(name, props) ==
  LET files == SelectSeq(props, LAMBDA p : p[1] = "file")
      value == IF files = <<>> THEN props[1] ELSE files[1]
  IN  Field(name, value[2], SelectSeq(props, LAMBDA p : p[1] # value[1]))

\* "list" is the name of the open list and "props" those of its open item.
ScanYaml(s, line) ==
  LET l      == YamlLines[Bare(line)]
      closed == IF s.props = <<>> THEN s
                ELSE [s EXCEPT !.fields = Append(@, ItemField(s.list, s.props)), !.props = <<>>]
  IN  IF Bare(line) \notin DOMAIN YamlLines THEN closed
      ELSE CASE l.kind = "field" -> [closed EXCEPT !.fields = Append(@, Field(l.key, l.value, <<>>)),
                                                   !.list = ""]
             [] l.kind = "list"  -> [closed EXCEPT !.list = l.key]
             [] l.kind = "item" /\ s.list # "" -> [closed EXCEPT !.props = << <<l.key, l.value>> >>]
             [] l.kind = "prop" /\ s.props # <<>> -> [s EXCEPT !.props = Append(@, <<l.key, l.value>>)]
             [] OTHER -> closed

parse_yaml_multipart_body(lines) ==
  LET end == Run(ScanYaml, [list |-> "", props |-> <<>>, fields |-> <<>>], lines)
  IN  IF end.props = <<>> THEN end.fields ELSE Append(end.fields, ItemField(end.list, end.props))

LooksLikeFields(lines) == \E i \in DOMAIN lines : Bare(lines[i]) \in DOMAIN FieldLines
LooksLikeYaml(lines) ==
  /\ lines[1] \notin Json \cup Xml
  /\ \E i \in DOMAIN lines : Bare(lines[i]) \in DOMAIN YamlLines /\ YamlLines[Bare(lines[i])].kind \in {"field", "list"}

(***************************************************************************)
(* The kind of a body: by its own form first, then by the content type.    *)
(***************************************************************************)
interpret_body(lines) ==
  CASE lines = <<>> -> Kind("none", <<>>)
    [] Len(lines) = 1 /\ lines[1] \in DOMAIN References -> Kind("file", References[lines[1]])
    [] lines # <<>> /\ lines[1] = Boundary /\ parse_multipart_body(lines) # <<>> ->
         Kind("multipart", parse_multipart_body(lines))
    [] lines # <<>> /\ lines[1] = "[form]" -> Kind("form", FieldsOf(Tail(lines)))
    [] lines # <<>> /\ lines[1] = "[form-urlencoded]" -> Kind("urlencoded", FieldsOf(Tail(lines)))
    [] OTHER -> Kind("raw", lines)

HeaderType(headers) ==
  LET types == SelectSeq(headers, LAMBDA h : h[1] = "Content-Type")
  IN  IF types = <<>> THEN "" ELSE types[1][2]

coerce_body_by_content_type(headers, body) ==
  LET type == HeaderType(headers)
  IN  CASE body.kind = "raw" /\ type = "multipart/form-data" /\ LooksLikeFields(body.content) ->
             Kind("form", FieldsOf(body.content))
        [] body.kind = "raw" /\ type = "multipart/form-data" /\ ~LooksLikeFields(body.content)
             /\ LooksLikeYaml(body.content) -> Kind("form", parse_yaml_multipart_body(body.content))
        [] body.kind = "raw" /\ type = UrlEncodedType /\ LooksLikeFields(body.content) ->
             Kind("urlencoded", FieldsOf(body.content))
        [] OTHER -> body

(***************************************************************************)
(* What is sent: a form always gets a content type with a boundary, any    *)
(* other body one it gives away, unless there is one already.              *)
(***************************************************************************)
detect_content_type(body) ==
  CASE body.kind = "multipart" -> MultipartType
    [] body.kind = "urlencoded" -> UrlEncodedType
    [] body.kind = "raw" /\ body.content[1] \in Json -> "application/json"
    [] body.kind = "raw" /\ body.content[1] \in Xml -> "application/xml"
    [] body.kind = "file" /\ body.content \in DOMAIN FileTypes -> FileTypes[body.content]
    [] OTHER -> ""

SentHeaders(headers, body) ==
  LET replace(h) == IF h[1] = "Content-Type" THEN <<"Content-Type", MultipartType>> ELSE h
  IN  IF body.kind = "form" THEN WithType(Each(replace, headers), MultipartType)
      ELSE IF detect_content_type(body) = "" THEN headers
      ELSE WithType(headers, detect_content_type(body))

PartPath(content) ==
  IF Len(content) = 1 /\ content[1] \in DOMAIN References THEN <<References[content[1]]>> ELSE <<>>

FormPart(f) ==
  LET type  == SelectSeq(f.attrs, LAMBDA a : a[1] \in {"type", "Content-Type"})
      other == SelectSeq(f.attrs, LAMBDA a : a[1] \notin {"type", "Content-Type"})
      named == "Content-Disposition: form-data; name=" \o f.name
  IN  [headers |-> <<named \o Concat(Each(LAMBDA a : "; " \o a[1] \o "=" \o a[2], other))>>
                   \o Each(LAMBDA a : "Content-Type: " \o a[2], type),
       content |-> <<f.value>>]

PartsOf(body) ==
  CASE body.kind = "multipart" -> body.content
    [] body.kind = "form" -> Each(FormPart, body.content)
    [] OTHER -> <<>>

\* A part or a body that refers to a file that cannot be read fails the import.
PathsOf(body) ==
  IF body.kind = "file" THEN {body.content}
  ELSE UNION {ToSet(PartPath(Trimmed(PartsOf(body)[i].content))) : i \in DOMAIN PartsOf(body)}

Resolvable(body) == PathsOf(body) \subseteq DOMAIN Files

PartLines(part) ==
  LET content == Trimmed(part.content)
      path    == PartPath(content)
      text    == IF path # <<>> THEN Files[path[1]] ELSE IF content = <<>> THEN <<"">> ELSE content
  IN  <<Boundary>> \o part.headers \o <<"">> \o text

resolve_body(body) ==
  CASE body.kind \in {"multipart", "form"} -> FlatEach(PartLines, PartsOf(body)) \o <<End>>
    [] body.kind = "urlencoded" -> FormLine(Each(LAMBDA f : f.name \o "=" \o f.value, body.content))
    [] body.kind = "file" -> Files[body.content]
    [] OTHER -> body.content
=============================================================================
