------------------------------ MODULE MCActions ------------------------------
(***************************************************************************)
(* Small instances of Actions, given by the configurations: one or two     *)
(* runs, one host, and fewer places for records than there are keys.       *)
(***************************************************************************)
EXTENDS Actions
=============================================================================
