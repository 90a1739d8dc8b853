------------------------------ MODULE RouteTable ------------------------------
(***************************************************************************)
(* How the mock server turns a list of routes into a lookup table and      *)
(* finds the route of a request: RouteRegistry::build and ::lookup in      *)
(* crate/hello_server/src/registry.rs, and the override files of           *)
(* ingest/sidecar.rs.                                                      *)
(*                                                                         *)
(* A path is a sequence of segments; the segments in Param are the         *)
(* "{name}" ones.  Strings are only compared, so their length and their    *)
(* lexicographic rank are constants.  Request guards are left out: no      *)
(* ingest adapter produces a route that has one.                           *)
(***************************************************************************)
EXTENDS Integers, Sequences, SequencesExt

CONSTANTS Param,     \* path segments of the form {name}
          AnyMethod, \* RouteMethod::Any
          Length,    \* Length[p] : the length of pattern p as a string
          Rank       \* Rank[p] : its place in lexicographic order

\* A route: [method, path, responses, selection]; a response: [status, slow],
\* slow when delay_ms > 0.

Patterns(routes) == {routes[i].path : i \in DOMAIN routes}

MethodMatches(route, method) == route.method \in {method, AnyMethod}

-----------------------------------------------------------------------------
(* Building the table.                                                     *)

\* A plausible bug: the entries stay in the order of the file.
FileOrder(entries) == entries

\* The elements of s that are wanted, in order.
Those(s, wanted) ==
  LET those[n \in 0 .. Len(s)] ==
        IF n = 0 THEN <<>>
        ELSE IF s[n] \in wanted THEN Append(those[n - 1], s[n]) ELSE those[n - 1]
  IN those[Len(s)]

\* The stable sort that puts entries for any method after the others.
SpecificFirst(entries) ==
  LET any == {e \in ToSet(entries) : e.method = AnyMethod}
  IN Those(entries, ToSet(entries) \ any) \o Those(entries, any)

\* buckets: the entries of one path pattern.
Bucket(routes, p) == SpecificFirst(Those(routes, {r \in ToSet(routes) : r.path = p}))

\* The order of path_order, and so of the summaries: longer patterns first.
SortsBefore(p, q) ==
  \/ Length[p] > Length[q]
  \/ Length[p] = Length[q] /\ Rank[p] < Rank[q]

\* matchit refuses a pattern that differs from another in parameter names only.
Conflict(p, q) ==
  /\ p # q
  /\ Len(p) = Len(q)
  /\ \A i \in DOMAIN p : p[i] = q[i] \/ {p[i], q[i]} \subseteq Param

Buildable(routes) ==
  \A p, q \in Patterns(routes) : ~Conflict(p, q)

-----------------------------------------------------------------------------
(* Finding the route of a request.                                         *)

PatternMatches(p, path) ==
  /\ Len(p) = Len(path)
  /\ \A i \in DOMAIN p : p[i] \in Param \/ p[i] = path[i]

\* matchit prefers a literal segment to a parameter, from left to right.
MoreSpecific(p, q) ==
  \E i \in DOMAIN p :
    /\ p[i] \notin Param /\ q[i] \in Param
    /\ \A j \in 1 .. i - 1 : p[j] \in Param <=> q[j] \in Param

\* router.at(path): the pattern of the bucket, as a set of at most one element.
RouterAt(routes, path) ==
  LET matching == {p \in Patterns(routes) : PatternMatches(p, path)}
  IN {p \in matching : \A q \in matching \ {p} : MoreSpecific(p, q)}

NoEntry == [path |-> <<>>, index |-> 0]

\* The first entry for the method, 0 if there is none.
FirstFor(bucket, method) ==
  SelectInSeq(bucket, LAMBDA e : MethodMatches(e, method))

\* lookup: the bucket's first entry for the method.  When that entry has no
\* responses, select_response's None ends the search.
Lookup(routes, method, path) ==
  LET first(p) == FirstFor(Bucket(routes, p), method)
      hits == {p \in RouterAt(routes, path) :
                 first(p) # 0 /\ Bucket(routes, p)[first(p)].responses # <<>>}
  IN IF hits = {} THEN NoEntry
     ELSE LET p == CHOOSE q \in hits : TRUE
          IN [path |-> p, index |-> first(p)]

EntryAt(routes, entry) == Bucket(routes, entry.path)[entry.index]

\* The matched_route of a history entry: the first of the summaries whose
\* pattern looks like the path (matchit_path_matches).
Annotated(routes, path) ==
  LET similar == {p \in Patterns(routes) : PatternMatches(p, path)}
  IN IF similar = {} THEN <<>>
     ELSE CHOOSE p \in similar : \A q \in similar \ {p} : SortsBefore(p, q)

-----------------------------------------------------------------------------
(* The override file.                                                      *)

\* A plausible bug: the last route for the method and path is replaced.
OverrideLast(routes, r) ==
  LET i == SelectLastInSeq(routes,
             LAMBDA x : x.path = r.path /\ x.method = r.method)
  IN IF i = 0 THEN Append(routes, r) ELSE ReplaceAt(routes, i, r)

\* One entry of apply_sidecar: replace the first route for the method and
\* path, or append.
Override(routes, r) ==
  LET i == SelectInSeq(routes,
             LAMBDA x : x.path = r.path /\ x.method = r.method)
  IN IF i = 0 THEN Append(routes, r) ELSE ReplaceAt(routes, i, r)

ApplySidecar(routes, overrides) ==
  LET merged[n \in 0 .. Len(overrides)] ==
        IF n = 0 THEN routes ELSE Override(merged[n - 1], overrides[n])
  IN merged[Len(overrides)]
=============================================================================
