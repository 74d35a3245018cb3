--------------------------- MODULE MCExcludeObject ---------------------------
(***************************************************************************)
(* Two labels, a print or restart besides the one under way, and one       *)
(* command waiting: enough for an object that is labeled ahead of one      *)
(* already listed, and for a mark that a new print makes obsolete.         *)
(***************************************************************************)
EXTENDS ExcludeObject

MCNames == {1, 2}
=============================================================================
