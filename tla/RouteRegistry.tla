---------------------------- MODULE RouteRegistry ----------------------------
(***************************************************************************)
(* Loading a collection, route by route, then its override file, and what  *)
(* lookups in the table built from it find (RouteTable).                   *)
(***************************************************************************)
EXTENDS RouteTable

CONSTANTS Method,       \* request methods
          Path,         \* request paths, as sequences of segments
          Route,        \* the routes a file can declare
          MaxRoutes,    \* bound: routes ingested
          MaxOverrides  \* bound: overrides applied

ASSUME RegistryAssumption ==
  /\ AnyMethod \notin Method
  /\ \A r \in Route : r.path \in Seq(ToSet(r.path))
  /\ MaxRoutes \in Nat /\ MaxOverrides \in Nat

VARIABLES routes,   \* MockCollection::routes
          overrides \* the overrides applied so far

registry_vars == <<routes, overrides>>

RegistryInit == routes = <<>> /\ overrides = <<>>

\* The adapter appends the next request of the file.
Ingest(r) ==
  /\ overrides = <<>>
  /\ Len(routes) < MaxRoutes
  /\ routes' = Append(routes, r)
  /\ UNCHANGED overrides

\* apply_sidecar takes the next override.
Sidecar(r) ==
  /\ Len(overrides) < MaxOverrides
  /\ overrides' = Append(overrides, r)
  /\ routes' = Override(routes, r)

RegistryNext == \E r \in Route : Ingest(r) \/ Sidecar(r)

RegistrySpec == RegistryInit /\ [][RegistryNext]_registry_vars

-----------------------------------------------------------------------------
\* The route a request gets by the code's rule, told from the list alone: of
\* those with the winning pattern that accept the method, the first that names
\* the method, or else the first for any method.
Deciding(method, path) ==
  LET pattern == RouterAt(routes, path)
      accepts == {i \in DOMAIN routes :
                    routes[i].path \in pattern /\ MethodMatches(routes[i], method)}
      named == {i \in accepts : routes[i].method = method}
  IN {i \in accepts : \A j \in accepts :
        \/ i \in named /\ j \notin named
        \/ (i \in named <=> j \in named) /\ i <= j}

\* Grouping by path, sorting the buckets and searching them finds, for every
\* request, the route the file's order decides on within the most specific
\* pattern, and no other: grouping never lets a route for any method or a later
\* duplicate win.  That only this pattern's routes are searched is the code's
\* rule and not the documentation's (docs/server/spec.md:279-285 goes on to the
\* next route when the method differs); HistoryAsDocumented is refuted by it.
FindsTheDecidingRoute ==
  Buildable(routes) =>
    \A method \in Method, path \in Path :
      LET entry == Lookup(routes, method, path)
          deciding == Deciding(method, path)
      IN IF entry = NoEntry
         THEN \A i \in deciding : routes[i].responses = <<>>
         ELSE \E i \in deciding : EntryAt(routes, entry) = routes[i]

\* An override takes effect at once: whatever the file declared, duplicates
\* included, a request for its method (any method, if no other route is named
\* for it) and its path is answered by the override.
OverrideTakesEffect ==
  [][\A r \in Route :
       Sidecar(r) /\ Buildable(routes') /\ r.responses # <<>> =>
         \A method \in Method, path \in Path :
           /\ RouterAt(routes', path) = {r.path}
           /\ \/ r.method = method
              \/ r.method = AnyMethod
                 /\ \A i \in DOMAIN routes :
                      routes[i].path = r.path => routes[i].method # method
           => LET entry == Lookup(routes', method, path)
              IN entry # NoEntry /\ EntryAt(routes', entry) = r]_registry_vars

=============================================================================
