------------------------------- MODULE MCBreaker -------------------------------
(***************************************************************************)
(* The breakers under the dispatcher, with the history of the failures     *)
(* that requests met.                                                      *)
(***************************************************************************)
EXTENDS MCDispatch, Failures
=============================================================================
