---------------------------- MODULE MCNetClient ----------------------------
(* A small instance of NetClient: a server connected to two others.        *)
EXTENDS NetClient

=============================================================================
