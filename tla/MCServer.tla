------------------------------ MODULE MCServer -------------------------------
(***************************************************************************)
(* The mock server for TLC.  MockServer: a spec file that uses every       *)
(* selection strategy and is edited, emptied or broken, and an override    *)
(* file that adds a route with more responses in rotation.  RouteRegistry: *)
(* a literal pattern, two parametric ones that conflict, two methods,      *)
(* routes told apart by their responses.                                   *)
(*                                                                         *)
(* A collection is loaded before the server runs and without it, so the    *)
(* lists of routes are explored next to one state of the server only, and  *)
(* the server next to the empty list.                                      *)
(***************************************************************************)
EXTENDS MockServer, RouteRegistry

Params == {"{id}", "{name}"}

Me == <<"users", "me">>
ById == <<"users", "{id}">>
ByName == <<"users", "{name}">>

PatternLength == (Me :> 9) @@ (ById :> 11) @@ (ByName :> 13)
PatternRank == (Me :> 1) @@ (ById :> 2) @@ (ByName :> 3)

Response(status, slow) == [status |-> status, slow |-> slow]

RouteFor(method, path, responses, selection) ==
  [method |-> method, path |-> path, responses |-> responses,
   selection |-> selection]

-----------------------------------------------------------------------------
(* Lists of routes.                                                        *)

Methods == {"GET", "POST"}
Paths == {Me, <<"users", "42">>, <<"orders", "42">>}

Routes ==
  {RouteFor(m, p, a, "First") :
     m \in {"GET", AnyMethod}, p \in {Me, ById, ByName},
     a \in {<<>>, <<Response(200, FALSE)>>, <<Response(201, FALSE)>>}}

-----------------------------------------------------------------------------
(* A server that is used while its files change.                           *)

InTurn ==
  <<RouteFor("GET", Me, <<Response(200, FALSE), Response(503, TRUE)>>, "RoundRobin")>>
OtherWays ==
  <<RouteFor("GET", ById, <<Response(404, FALSE), Response(200, FALSE)>>, "MatchStatus"),
    RouteFor("GET", Me, <<Response(200, FALSE), Response(503, FALSE)>>, "Random")>>
ThreeInTurn ==
  <<RouteFor("GET", Me,
             <<Response(201, FALSE), Response(202, FALSE), Response(418, FALSE)>>,
             "RoundRobin")>>

SpecFiles == {InTurn, OtherWays, <<>>, Broken}
SidecarFiles == {<<>>, ThreeInTurn}

Ask(path, want) == [method |-> "GET", path |-> path, want |-> want]

Asked == {Ask(Me, 0), Ask(<<"users", "42">>, 0), Ask(<<"users", "42">>, 200)}

-----------------------------------------------------------------------------
(* A file whose more specific pattern has a route for another method.      *)

OtherMethod ==
  <<RouteFor(AnyMethod, ById, <<Response(200, FALSE)>>, "First"),
    RouteFor("POST", Me, <<Response(201, FALSE)>>, "First")>>

OneFile == {OtherMethod}
NoSidecar == {<<>>}
AskForMe == {Ask(Me, 0)}

-----------------------------------------------------------------------------
\* The state of the server next to which the lists of routes are explored.
Unused ==
  /\ disk = [spec |-> InTurn, sidecar |-> <<>>]
  /\ history_size = 0 /\ watcher = "off"
  /\ requests = 0 /\ edits = 0 /\ clears = 0

InitBoth == Init /\ RegistryInit

NextBoth ==
  \/ RegistryInit /\ Next /\ UNCHANGED registry_vars
  \/ Unused /\ RegistryNext /\ UNCHANGED vars

BothSpec == InitBoth /\ [][NextBoth]_<<vars, registry_vars>>

\* RegistryInit says that no list is being explored; the server is fair then.
FairBothSpec ==
  /\ BothSpec
  /\ WF_vars(RegistryInit /\ Report) /\ WF_vars(RegistryInit /\ Watcher)
=============================================================================
