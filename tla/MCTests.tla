-------------------------------- MODULE MCTests --------------------------------
(***************************************************************************)
(* Two stores, of which one is reset between collections, and one key.     *)
(***************************************************************************)
EXTENDS TestRunner
================================================================================
