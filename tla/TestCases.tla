----------------------------- MODULE TestCases -----------------------------
(***************************************************************************)
(* What every importer builds and every exporter takes: a test case, that  *)
(* is a request with a script before it and one after it.                  *)
(*                                                                         *)
(* A text is a sequence of pieces and a piece is a string: a URL is its    *)
(* base followed by its query parameters, a body is its lines, a script is *)
(* its statements.  What the formats tell apart about a piece is given by  *)
(* the sets below.  An absent body or script is the empty sequence; a body *)
(* that is present and empty is the one empty line.  A name is the         *)
(* sequence of the parts that slashes separate.                            *)
(***************************************************************************)
EXTENDS Integers, Sequences, SequencesExt

CONSTANTS
  Dynamic,      \* pieces with a dynamic variable, as in {{$guid}}
  Queries,      \* pieces of a URL that are query parameters
  Json,         \* first lines of bodies that are JSON
  Xml,          \* first lines of bodies that are XML
  Pairs,        \* the pairs of a name and a value that read as a header
  Parts         \* the parts of a URL's base that slashes separate

None == <<>>
Absent(text) == text = None

\* A value, evaluated once and used under a name.
Of(value, F(_)) == CHOOSE r \in {F(v) : v \in {value}} : TRUE

\* A line without its indentation.
RECURSIVE Bare(_)
Bare(line) ==
  IF Len(line) > 1 /\ SubSeq(line, 1, 2) = "  " THEN Bare(SubSeq(line, 3, Len(line))) ELSE line

\* A text with nothing but blanks in it.
Blank(text) == \A i \in DOMAIN text : Bare(text[i]) = ""

\* Without the blank lines at both ends and the indentation of the first.
Trimmed(lines) ==
  LET solid(l) == l # "" /\ Bare(l) # ""
      from(text, first) ==
        IF first = 0 THEN <<>>
        ELSE <<Bare(text[first])>> \o SubSeq(text, first + 1, SelectLastInSeq(text, solid))
      trim(text) == Of(SelectInSeq(text, solid), LAMBDA first : from(text, first))
  IN  Of(lines, trim)

\* A fold from the left in which every intermediate result is a value.
Run(Step(_, _), first, seq) ==
  LET run(s) == LET after[i \in 0..Len(s)] ==
                      IF i = 0 THEN first ELSE Of(after[i - 1], LAMBDA r : Step(r, s[i]))
                IN  after[Len(s)]
  IN  Of(seq, run)

\* What an operator makes of each element, and the same put end to end.
Each(F(_), seq) == Run(LAMBDA made, e : Append(made, F(e)), <<>>, seq)
FlatEach(F(_), seq) == Run(LAMBDA made, e : made \o F(e), <<>>, seq)

Concat(text) == Run(LAMBDA a, b : a \o b, "", text)

\* The pieces of a form are one line.
FormLine(fields) == <<Run(LAMBDA a, b : IF a = "" THEN b ELSE a \o "&" \o b, "", fields)>>

HasDynamic(text) == \E i \in DOMAIN text : text[i] \in Dynamic

(***************************************************************************)
(* A test case.  Headers are pairs of a name and a value, in order.        *)
(***************************************************************************)
Case(name, method, url, headers, body, pre, post) ==
  [name |-> name, method |-> method, url |-> url, headers |-> headers,
   body |-> body, pre |-> pre, post |-> post]

\* A request without a name is named after its URL.
UrlName(url) ==
  IF url = <<>> THEN <<"">>
  ELSE LET parts == Parts[url[1]]
       IN  [parts EXCEPT ![Len(parts)] = @ \o Concat(Tail(url))]
Unnamed(name) == name = <<"">>

HasHeader(headers, name) == \E i \in DOMAIN headers : headers[i][1] = name

Typed(headers) == HasHeader(headers, "Content-Type")

WithType(headers, type) ==
  IF Typed(headers) THEN headers ELSE Append(headers, <<"Content-Type", type>>)

(***************************************************************************)
(* Scripts.  The adapters put an import of the sandbox's pm module in      *)
(* front of imported code, and the return of the results behind a          *)
(* post-response script.                                                   *)
(***************************************************************************)
ImportPre == "import { pm, bru, req }"
ImportPost == "import { pm, res, bru, test, expect, results }"
Imports == {ImportPre, ImportPost}
ReturnResults == "return results();"

\* Generated code that declares the constant _req and returns the request.
Resolver == <<"const _req = resolve", "return _req;">>
TokenExchange == <<"const _req = token", "return _req;">>
Declaring == {"const _req = resolve", "const _req = token"}
Returns == {ReturnResults, "return _req;"}

\* A plausible bug: an exporter that leaves the import where it is.
StripNothing(text, prefix) == text

StripPrefix(text, prefix) ==
  IF IsPrefix(prefix, text) THEN SubSeq(text, Len(prefix) + 1, Len(text)) ELSE text

StripSuffix(text, suffix) ==
  IF IsSuffix(suffix, text) THEN SubSeq(text, 1, Len(text) - Len(suffix)) ELSE text

PreScript(code) == <<ImportPre>> \o code
PostScript(code) == <<ImportPost>> \o code \o <<ReturnResults>>

\* A script that was already there, then another.
Joined(existing, script) == IF Absent(existing) THEN script ELSE existing \o script

\* A script put before the code of one that begins with the preamble.
Before(script, existing) == IF Absent(existing) THEN script ELSE script \o Tail(existing)

(***************************************************************************)
(* What the sandbox makes of a script.  Only leading imports are hoisted   *)
(* out of the function around the script, so a later one is a syntax       *)
(* error, and so are two declarations of one name.  Code after the first   *)
(* return is never reached.                                                *)
(***************************************************************************)
Compiles(script) ==
  LET at(set) == {i \in DOMAIN script : script[i] \in set}
  IN  /\ at(Imports) \subseteq {1}
      /\ \A i, j \in at(Declaring) : i = j

Reached(script) ==
  LET first == SelectInSeq(script, LAMBDA p : p \in Returns)
      end   == IF first = 0 THEN Len(script) ELSE first
  IN  IF Compiles(script)
      THEN SelectSeq(SubSeq(script, 1, end), LAMBDA p : p \notin Imports \cup {ReturnResults})
      ELSE <<>>
=============================================================================
