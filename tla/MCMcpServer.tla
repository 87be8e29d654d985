---------------------------- MODULE MCMcpServer ----------------------------
(* A small instance of McpServer for TLC: a connection in use as session,  *)
(* one pending, one being opened.                                          *)
EXTENDS McpServer

CONSTANTS a, b, c

ThreeConns == {a, b, c}
=============================================================================
