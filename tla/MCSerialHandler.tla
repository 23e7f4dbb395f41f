--------------------------- MODULE MCSerialHandler ---------------------------
(* Two producers and the reader share a pool of three buffers and a heap   *)
(* buffer: enough for two tasks to fight over the last one.                *)
EXTENDS SerialHandler, TLC
=============================================================================
