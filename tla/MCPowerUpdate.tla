---------------------------- MODULE MCPowerUpdate -----------------------------
(***************************************************************************)
(* Two checks, two updates and one loss of power: enough for a check that  *)
(* is asked for during another one, for an update over the files of an     *)
(* earlier one, and for a package that is left half extracted.             *)
(***************************************************************************)
EXTENDS PowerUpdate
=============================================================================
