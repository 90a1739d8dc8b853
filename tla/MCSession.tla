------------------------------- MODULE MCSession -------------------------------
(***************************************************************************)
(* Session for TLC: collections of no test, one, and two in one folder or  *)
(* two; a plain request and one with a form; a directory and one below it. *)
(***************************************************************************)
EXTENDS Session, TLC

\* The line that names a field, for the names there are.
Lines == ("" :> "name=") @@ ("a" :> "name=a") @@ ("--b" :> "name=--b")

Plain == [method |-> "m", url |-> "u", headers |-> <<>>, body |-> <<"text">>]

\* Two fields, one with a header of its own, and a part without a name.
Upload ==
  [method |-> "m", url |-> "u", headers |-> << <<ContentType, "form">> >>,
   body |-> <<"--b", "name=a", "type", "", "x", "", "--b", "", "y", "--b", "name=", "", "", "--b--">>]

AllCollections == {<<>>, << <<Plain, Upload>> >>, << <<Plain>>, <<Plain>> >>}

Disk == ("top" :> << <<"dir", "sub">> >>)
        @@ ("sub" :> << <<"parent", "top">>, <<"file">> >>)
================================================================================
