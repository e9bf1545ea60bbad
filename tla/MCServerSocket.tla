--------------------------- MODULE MCServerSocket ---------------------------
(* ServerSocket on small instances; the constants are given in the cfgs.   *)
EXTENDS ServerSocket
=============================================================================
