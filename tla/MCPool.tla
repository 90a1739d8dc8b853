------------------------------- MODULE MCPool --------------------------------
(***************************************************************************)
(* RuntimePool for TLC: constants are given by the configurations.         *)
(***************************************************************************)
EXTENDS RuntimePool
=============================================================================
