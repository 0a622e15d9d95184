--------------------------- MODULE MCServerDrain ---------------------------
(* ServerDrain on a few connections.                                       *)
EXTENDS ServerDrain

CONSTANTS c1, c2
=============================================================================
