------------------------------ MODULE MCRuntime ------------------------------
(***************************************************************************)
(* SharedRuntime for TLC: one rate-limited resource stands for the three,  *)
(* which are counted in the same way.                                      *)
(***************************************************************************)
EXTENDS SharedRuntime

OneResource == {"emit"}
=============================================================================
