---------------------------- MODULE Conversion ----------------------------
(***************************************************************************)
(* Collections on a disk and the commands that turn one into another: the  *)
(* conversion of the command line and of the terminal interface, and the   *)
(* splitting and merging of .http files.  Each format has one place.       *)
(***************************************************************************)
EXTENDS HttpFormat, PostmanFormat, OpenCollectionFormat, BrunoFormat, FiniteSets

CONSTANTS
  StartDisks,      \* the disks a run may start from
  Odd,             \* parts of names with characters a file name cannot keep
  MaxCommands      \* bound on the commands of a run

VARIABLES
  disk,     \* what each place holds
  last,     \* the last command: what it was, from where, to where, by whom
  commands  \* how many there were

vars == <<disk, last, commands>>

\* A place for one file holds at most one document; the places for many
\* files are functions from names to files.
Places == {"http", "postman", "opencollection", "bruno", "split"}
NoFiles == [n \in {} |-> <<>>]
EmptyDisk == [http |-> <<>>, postman |-> <<>>, opencollection |-> <<>>,
              bruno |-> NoFiles, split |-> NoFiles]
Holds(place) == DOMAIN disk[place] # {}

Command(what, from, to, by) == [what |-> what, from |-> from, to |-> to, by |-> by]

Init ==
  /\ disk \in StartDisks
  /\ last = Command("none", "", "", "")
  /\ commands = 0

(***************************************************************************)
(* Names of files.                                                         *)
(***************************************************************************)
sanitize(part) == IF part \in DOMAIN Odd THEN Odd[part] ELSE part
PathFrom(name, separator) ==
  LET parts == Each(sanitize, name)
  IN  Run(LAMBDA a, b : a \o separator \o b, parts[1], Tail(parts))

\* In a .bru file name a slash is a character like any other.
BruName(name) == PathFrom(name, "_")
name_to_path(name) == PathFrom(name, "/")

\* Files are written in turn, each over one of its name.
Written(dir, names, files) ==
  LET new == [n \in ToSet(names) |->
               files[CHOOSE i \in DOMAIN names :
                       names[i] = n /\ \A j \in DOMAIN names : names[j] = n => j <= i]]
  IN  [n \in DOMAIN dir \cup DOMAIN new |-> IF n \in DOMAIN new THEN new[n] ELSE dir[n]]

(***************************************************************************)
(* Reading.  To the command line any directory is a Bruno collection, so   *)
(* it finds nothing in one of .http files; the terminal interface loads    *)
(* every file of one.  A file without a name before its extension is       *)
(* hidden from both.                                                       *)
(***************************************************************************)
FilesOf(dir) == Each(LAMBDA n : dir[n], Listing(dir))

HttpFiles(place) ==
  CASE place = "http" -> disk.http [] place = "split" -> FilesOf(disk.split) [] OTHER -> <<>>

Readable(place) == \A file \in ToSet(HttpFiles(place)) : HttpReadable(file)

Entries(place) == FlatEach(HttpImport, HttpFiles(place))

import_collection(place) ==
  CASE place \in {"http", "split"} -> Entries(place)
    [] place = "postman"           -> PostmanImport(disk.postman[1])
    [] place = "opencollection"    -> OpenCollectionImport(disk.opencollection[1])
    [] place = "bruno"             -> import_dir(disk.bruno)

\* What a program reads in a place; only the terminal interface knows of
\* Bruno's environments.
Loaded(place, by) ==
  CASE by = "cli" /\ place = "split" -> <<>>
    [] by = "tui" /\ place = "bruno" -> import_dir_with_env(disk.bruno)
    [] OTHER                         -> import_collection(place)

(***************************************************************************)
(* Writing.                                                                *)
(***************************************************************************)
export_collection(cases, to, by) ==
  LET single(tc)   == serialize_to_http(<<tc>>, by)
      names(F(_))  == Each(LAMBDA tc : F(tc.name), cases)
      bru(tc)      == export_bru(tc, 1)
  IN  CASE to = "http"           -> <<serialize_to_http(cases, by)>>
        [] to = "postman"        -> <<PostmanExport(cases)>>
        [] to = "opencollection" -> <<OpenCollectionExport(cases)>>
        [] to = "bruno"          -> Written(disk.bruno, names(BruName), Each(bru, cases))
        [] to = "split"          -> Written(disk.split, names(name_to_path), Each(single, cases))

\* The format a place is taken for by the command line.
Format(place) == IF place = "split" THEN "bruno" ELSE place
OutputFormat(place) == IF place = "split" THEN "http" ELSE place

Convert(from, to, by) ==
  /\ Holds(from)
  /\ by = "cli" => Format(from) # OutputFormat(to)
  /\ by = "tui" => to \in {"http", "postman", "opencollection"}
  /\ Readable(from) \/ (by = "cli" /\ from = "split")
  /\ \E cases \in {Loaded(from, by)} :
       disk' = [disk EXCEPT ![to] = export_collection(cases, to, by)]
  /\ last' = Command("convert", from, to, by)

\* A collection with a file that cannot be read is reported; nothing is written.
ConvertFails(from, to, by) ==
  /\ Holds(from)
  /\ by = "cli" => from = "http" /\ OutputFormat(to) # "http"
  /\ by = "tui" => to \in {"http", "postman", "opencollection"}
  /\ ~Readable(from)
  /\ last' = Command("failed", from, to, by)
  /\ UNCHANGED disk

(***************************************************************************)
(* Splitting cuts a file at every line of metadata, without parsing it;    *)
(* merging puts files one after another, in the order of their paths.      *)
(***************************************************************************)
Chunks(file, starts) ==
  LET end(k) == IF k = Len(starts) THEN Len(file) ELSE starts[k + 1] - 1
      chunks == [k \in DOMAIN starts |-> SubSeq(file, starts[k], end(k))]
  IN  SelectSeq(chunks, LAMBDA c : \E i \in DOMAIN c : ~IsBlank(c[i]))

Titles(file) == SelectSeq([i \in DOMAIN file |-> i], LAMBDA i : file[i].kind = "title")

\* A plausible bug: what stands before the first title is dropped.
SplitFromFirstTitle(file) == Chunks(file, Titles(file))

split_http_raw(file) ==
  LET titles == Titles(file)
  IN  Chunks(file, IF titles # <<>> /\ titles[1] = 1 THEN titles ELSE <<1>> \o titles)

ChunkName(chunk) ==
  IF chunk[1].kind = "title" /\ ~Unnamed(chunk[1].name) THEN chunk[1].name ELSE <<"request">>

TrimmedEnd(file) ==
  LET solid == {i \in DOMAIN file : ~IsBlank(file[i])}
  IN  IF solid = {} THEN <<>>
      ELSE SubSeq(file, 1, CHOOSE i \in solid : \A j \in solid : j <= i)

\* The files with something in them.
Solid(files) == SelectSeq(files, LAMBDA f : TrimmedEnd(f) # <<>>)

cmd_split ==
  /\ Holds("http")
  /\ LET chunks == split_http_raw(disk.http[1])
     IN  /\ chunks # <<>>
         /\ disk' = [disk EXCEPT !.split =
              Written(@, Each(LAMBDA c : name_to_path(ChunkName(c)), chunks), Each(TrimmedEnd, chunks))]
  /\ last' = Command("split", "http", "split", "cli")

MergeGap == <<BlankLine, BlankLine>>
cmd_merge ==
  /\ Holds("split")
  /\ LET merged == Run(LAMBDA text, f : text \o (IF text = <<>> THEN <<>> ELSE MergeGap) \o TrimmedEnd(f),
                       <<>>, Solid(FilesOf(disk.split)))
     IN  disk' = [disk EXCEPT !.http = <<merged>>]
  /\ last' = Command("merge", "split", "http", "cli")

Next ==
  /\ commands < MaxCommands
  /\ commands' = commands + 1
  /\ \/ \E from, to \in Places, by \in {"cli", "tui"} :
          \/ Convert(from, to, by)
          \/ ConvertFails(from, to, by)
     \/ cmd_split
     \/ cmd_merge

Spec == Init /\ [][Next]_vars

-----------------------------------------------------------------------------
(***************************************************************************)
(* What a command keeps.  Headers are compared without their order, and so *)
(* are cases.                                                              *)
(***************************************************************************)
SameUpToOrder(a, b, Same(_, _)) ==
  /\ Len(a) = Len(b)
  /\ \A i \in DOMAIN a : Cardinality({j \in DOMAIN a : Same(a[i], a[j])})
                        = Cardinality({j \in DOMAIN b : Same(a[i], b[j])})

SameRequest(a, b) ==
  /\ a.name = b.name /\ a.method = b.method /\ a.url = b.url /\ a.body = b.body
  /\ SameUpToOrder(a.headers, b.headers, LAMBDA g, h : g = h)

SameCode(a, b) ==
  SameRequest(a, b) /\ Reached(a.pre) = Reached(b.pre) /\ Reached(a.post) = Reached(b.post)

SameRequests(a, b) == SameUpToOrder(a, b, SameRequest)
SameCases(a, b) == SameUpToOrder(a, b, SameCode)

Distinct(seq) == \A i, j \in DOMAIN seq : seq[i] = seq[j] => i = j
Names(cases, F(_)) == Each(LAMBDA tc : F(tc.name), cases)

\* Files of a directory are only ever written, never removed: those that
\* stay must have no request in them.
NoneLeft(dir, names, Empty(_)) == \A n \in DOMAIN dir \ ToSet(names) : Empty(dir[n])
Only(dir, names, Empty(_)) == Distinct(names) /\ NoneLeft(dir, names, Empty)
Requestless(file) == request_collection(file) = <<>>

(***************************************************************************)
(* The cases a format has room for.                                        *)
(***************************************************************************)
FitsOpenCollection(tc) == Absent(tc.body)

FitsBruno(tc) ==
  /\ tc.method \in Methods
  /\ ~Unnamed(tc.name)
  /\ \A i \in DOMAIN tc.url : tc.url[i] \notin Queries
  /\ Authorization(tc) = SelectSeq(tc.headers, LAMBDA h : h[2] \in DOMAIN Schemes)
  /\ Absent(tc.body) \/ (Len(tc.body) = 1 /\ ~Blank(tc.body) /\ Typed(tc.headers)
                           /\ tc.body[1] \notin BraceOpen)

\* What is sent for a form that is written down part by part.
Resent(lines) == Of(interpret_body(lines), LAMBDA body : IF Resolvable(body) THEN resolve_body(body) ELSE None)

\* A body is read back as it is when it is not taken for headers, for fields
\* or for a file, no line of it is taken for a title or a script, the parts of a form have no blanks to trim, and the content
\* type it would be given is there.
PlainBody(tc) ==
  LET type == HeaderType(tc.headers)
      shorthand == \/ type = "multipart/form-data"
                      /\ (LooksLikeFields(tc.body) \/ LooksLikeYaml(tc.body))
                   \/ type = UrlEncodedType /\ LooksLikeFields(tc.body)
  IN  /\ ~Blank(tc.body)
      /\ Trimmed(tc.body) = tc.body
      /\ tc.headers # <<>> \/ ~HeaderLike(tc.body[1])
      /\ \A i \in DOMAIN tc.body : LineOf(tc.body[i]).kind \notin {"title", "postfile"}
      /\ tc.body[1] \in Json \cup Xml \cup {Boundary} => Typed(tc.headers)
      /\ Len(tc.body) = 1 => tc.body[1] \notin DOMAIN References
      /\ tc.body[1] \notin {"[form]", "[form-urlencoded]"}
      /\ tc.body[1] = Boundary => Resent(tc.body) = tc.body
      /\ ~shorthand

\* The name must have no hashtags and parameters in it, nor loose pieces.
FitsHttp(tc) ==
  /\ ~Unnamed(tc.name)
  /\ ~Loose(tc.name) /\ Described(<<>>, tc.name) = tc.name
  /\ Cut(tc.url) = 0
  /\ Distinct(Each(LAMBDA h : h[1], tc.headers))
  /\ Absent(tc.body) \/ PlainBody(tc)

\* The block behind a request that is read as its script, and the lines from
\* there on that are read as the beginning of a next entry, or that end the
\* parse: what is left of that block, and the second block.
FirstBlock(tc) == ReadBlock(IF Absent(tc.pre) THEN tc.post ELSE tc.pre)
Behind(tc) ==
  LET second == IF Absent(tc.pre) \/ Absent(tc.post) THEN <<>> ELSE <<PostBlock(tc.post)>>
      rest(block) == (IF block.ends THEN block.rest ELSE <<Text("%}")>>) \o second
  IN  Of(FirstBlock(tc), rest)
NoMore(tc) == request_collection(Behind(tc)) = <<>>

\* A title right behind the line of a request can read as a header of it.
BareRequest(tc) == tc.headers = <<>> /\ Absent(tc.body) /\ Absent(tc.pre) /\ Absent(tc.post)
TitleStays(tc, next) == BareRequest(tc) => ~HeaderLike(LineText(Title(next.name)))

\* In one file whatever is left behind a request hides all later requests;
\* written by the terminal interface, a pre-request script ends up in a body.
FitsHttpFile(cases, by) ==
  /\ \A i \in DOMAIN cases : FitsHttp(cases[i]) /\ NoMore(cases[i])
  /\ \A i \in 1..(Len(cases) - 1) : Absent(Behind(cases[i])) /\ TitleStays(cases[i], cases[i + 1])
  /\ by = "tui" => \A i \in DOMAIN cases : Absent(cases[i].pre)

RequestsFit(cases, to, by) ==
  CASE to = "postman"        -> TRUE
    [] to = "opencollection" -> \A i \in DOMAIN cases : FitsOpenCollection(cases[i])
    [] to = "bruno"          -> /\ \A i \in DOMAIN cases : FitsBruno(cases[i])
                                /\ Only(disk.bruno, Names(cases, BruName), IsFolderFile)
    [] to = "http"           -> FitsHttpFile(cases, by)
    [] to = "split"          -> /\ \A i \in DOMAIN cases : FitsHttp(cases[i]) /\ NoMore(cases[i])
                                /\ Only(disk.split, Names(cases, name_to_path), Requestless)

\* A file that is left can hold just the case that another was written over.
Muddled(cases, to) ==
  LET muddled(dir, names, Empty(_)) == ~Distinct(names) /\ ~NoneLeft(dir, names, Empty)
  IN  \/ to = "bruno" /\ muddled(disk.bruno, Names(cases, BruName), IsFolderFile)
      \/ to = "split" /\ muddled(disk.split, Names(cases, name_to_path), Requestless)

\* RequestsSurvive: what a conversion wrote reads as the requests that were
\* converted, exactly when the target has room for them: RequestsFit names the
\* circumstances in which requests change or vanish, for methods of letters
\* only, URLs with a path and without blanks, and names, headers and code
\* without blanks at their ends (export_collection, serialize_to_http and
\* run_convert with the importers).
RequestsSurvive ==
  [][\A from, to \in Places, by \in {"cli", "tui"} :
       last' = Command("convert", from, to, by) =>
         \E before \in {Loaded(from, by)} :
           \/ Muddled(before, to)
           \/ (Readable(to)' /\ \E after \in {import_collection(to)'} : SameRequests(before, after))
                <=> RequestsFit(before, to, by)]_vars

(***************************************************************************)
(* The scripts a format has room for.                                      *)
(***************************************************************************)
Runs(script) == Reached(script) # <<>>
RunsBehind(script, import) == Runs(script) /\ IsPrefix(<<import>>, script)
Uses(tc) == HasDynamic(tc.url) \/ HasDynamic(tc.body) \/ \E i \in DOMAIN tc.headers : tc.headers[i][2] \in Dynamic

\* An exporter takes the import of its own phase off, and the importer puts
\* it back: an import of the other phase ends up behind it.
OwnImports(tc) == ~RunsBehind(tc.pre, ImportPost) /\ ~RunsBehind(tc.post, ImportPre)

\* The generated resolver comes before the code and returns.
FitsPostmanCode(tc) == OwnImports(tc) /\ (Uses(tc) => ~Absent(tc.pre) /\ ~Runs(tc.pre))

\* The Bruno exporter takes no import off, and a folder's scripts that are
\* already there are added to every case.
FitsBrunoCode(tc) ==
  /\ \A n \in DOMAIN disk.bruno : ~IsFolderFile(disk.bruno[n])
  /\ \A script \in {tc.pre, tc.post}, import \in Imports : ~RunsBehind(script, import)

\* The script before the request is moved behind it, and only the first of
\* two is read, up to the end of its block.
FitsHttpCode(tc) == ~Runs(tc.pre) /\ Reached(FirstBlock(tc).code) = Reached(tc.post)

CodeFits(cases, to) ==
  LET all(Fits(_)) == \A i \in DOMAIN cases : Fits(cases[i])
  IN  CASE to = "postman"           -> all(FitsPostmanCode)
        [] to = "opencollection"    -> all(OwnImports)
        [] to = "bruno"             -> all(FitsBrunoCode)
        [] to \in {"http", "split"} -> all(FitsHttpCode)

\* CodeSurvives: when its requests survive a conversion, so does the code of
\* its scripts that is ever run, exactly when it begins with the imports the
\* exporter takes off and the importer puts nothing in its way
\* (StripPrefix in the exporters, PreScript and PostScript in the importers).
CodeSurvives ==
  [][\A from, to \in Places, by \in {"cli", "tui"} :
       last' = Command("convert", from, to, by) =>
         \E before \in {Loaded(from, by)} :
           RequestsFit(before, to, by) =>
             ((\E after \in {import_collection(to)'} : SameCases(before, after))
               <=> CodeFits(before, to))]_vars

\* PreScriptStaysBefore: a script that runs before its request does so in the
\* .http file it is written to (README.md:61: "`< script.js` or `< {% ... %}`
\* - pre-request script (runs before fetch)").  Both serialize_to_http write
\* it behind the body, the command line with the mark of a post-response
\* script, the terminal interface with one that is text there.
PreScriptStaysBefore ==
  [][\A from \in Places, to \in {"http", "split"}, by \in {"cli", "tui"} :
       last' = Command("convert", from, to, by) /\ Readable(to)' =>
         \A tc \in ToSet(Loaded(from, by)) :
           Runs(tc.pre) => \E read \in ToSet(import_collection(to)') :
                             read.name = tc.name /\ Reached(read.pre) = Reached(tc.pre)]_vars

(***************************************************************************)
(* Splitting and merging, on the entries the parser reads.                 *)
(***************************************************************************)
EntriesOf(files) ==
  LET entry(e) == [e EXCEPT !.lines = Trimmed(@)]
  IN  Each(entry, FlatEach(request_collection, files))

EndPhase(file) == ParseLines(Fresh(<<>>), file).phase
Opening(file) == file[SelectInSeq(file, LAMBDA l : ~IsBlank(l))]

\* A file that does not begin with a title continues the one before it, so
\* does one whose title reads as a header of that, and one the parser gives
\* up on, or that ends before a request, is the last with anything to read.
Apart(files, gap) ==
  \A i \in 1..(Len(files) - 1) :
    \E end \in {EndPhase(files[i] \o gap)} :
      \/ end = "start"
      \/ /\ end \in {"top", "headers", "body"} /\ Opening(files[i + 1]).kind = "title"
         /\ end # "body" => ~HeaderLike(LineText(Opening(files[i + 1])))
      \/ /\ end \in {"meta", "gap", "ready", "stop"}
         /\ EntriesOf(SubSeq(files, i + 1, Len(files))) = <<>>

SplitFits(file, dir) ==
  LET chunks == split_http_raw(file)
  IN  Apart(chunks, <<>>) /\ Only(dir, Each(LAMBDA c : name_to_path(ChunkName(c)), chunks), Requestless)

\* SplitAndMergeKeep: splitting a file and merging a directory keep every
\* entry, the first up to order and the second in the order of the files,
\* exactly when the parts are read alone as they are read together, no two
\* have one path, and no file with a request is left from before (cmd_split
\* writes over what is there; neither command parses anything).  The manual
\* promises one file for each entry (docs/client/cli.md:41); an entry with
\* two lines of metadata, as in README.md:40-41, is cut in two, and keeps
\* only what stands behind the second.
SplitAndMergeKeep ==
  [][/\ last'.what = "split" =>
          (SameUpToOrder(EntriesOf(disk.http), EntriesOf(FilesOf(disk'.split)), LAMBDA a, b : a = b)
             <=> SplitFits(disk.http[1], disk.split))
     /\ last'.what = "merge" =>
          (EntriesOf(FilesOf(disk.split)) = EntriesOf(disk'.http)
             <=> Apart(Solid(FilesOf(disk.split)), MergeGap))]_vars
=============================================================================
