------------------------------- MODULE MCScreen -------------------------------
(***************************************************************************)
(* Screen on a few cells.                                                  *)
(***************************************************************************)
EXTENDS Screen

===============================================================================
