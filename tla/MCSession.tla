----------------------------- MODULE MCSession -----------------------------
(***************************************************************************)
(* Two heaters, one of them configured, and two values: enough for a       *)
(* configuration that gains or loses an object over a restart, for the     *)
(* default choice of cards, and for a value that is stale.                 *)
(***************************************************************************)
EXTENDS Session

CONSTANTS extruder, bed, v1, v2

MCObjects == {extruder, bed}
MCConfigured == {extruder}
MCValues == {v1, v2}
=============================================================================
