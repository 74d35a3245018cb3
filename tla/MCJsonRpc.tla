------------------------------ MODULE MCJsonRpc ------------------------------
(***************************************************************************)
(* The LVGL thread and the WebSocket loop thread make four calls between   *)
(* them, one of them without a callback, over a connection that opens and  *)
(* is lost at any moment.                                                  *)
(***************************************************************************)
EXTENDS JsonRpc

CONSTANTS ui, ws, r1, r2, r3, g1

MCThreads == {ui, ws}
MCRequests == {r1, r2, r3, g1}
MCCb == {r1, r2, r3}
=============================================================================
