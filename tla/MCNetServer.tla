---------------------------- MODULE MCNetServer ----------------------------
(* A small instance of NetServer: two slots and enough connections that one *)
(* of them is used again.                                                  *)
EXTENDS NetServer

MCPlatforms == {"win32", "linux"}
=============================================================================
