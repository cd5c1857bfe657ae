--------------------------- MODULE MCGoldenStore ----------------------------
(***************************************************************************)
(* One server with two requests and one command, for TLC.                  *)
(***************************************************************************)
EXTENDS GoldenStore

CONSTANTS c1, c2, c3, srv, cmd

MCProcOf == [c \in Caller |-> IF c = c3 THEN cmd ELSE srv]
=============================================================================
