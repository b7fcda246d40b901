--------------------------- MODULE MCServerLogin ---------------------------
(* A small instance of ServerLogin: one login server, one front end and one *)
(* data server, one of which comes back.                                   *)
EXTENDS ServerLogin

=============================================================================
