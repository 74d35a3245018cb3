---------------------------- MODULE MCPrintStatus ----------------------------
(***************************************************************************)
(* Two files, two values of the pins.                                      *)
(***************************************************************************)
EXTENDS PrintStatus

CONSTANTS f1, f2, off, on

MCFiles == {f1, f2}
MCModes == {off, on}
=============================================================================
