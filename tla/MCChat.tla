-------------------------------- MODULE MCChat ---------------------------------
(***************************************************************************)
(* Requests of one key.                                                    *)
(***************************************************************************)
EXTENDS Chat
=============================================================================
