--------------------------- MODULE MCScriptUpdate ----------------------------
(***************************************************************************)
(* Four checks and three upgrades with two losses of the link: enough for  *)
(* the answer to an abandoned check to arrive during a later check or      *)
(* upgrade.                                                                *)
(***************************************************************************)
EXTENDS ScriptUpdate
=============================================================================
