--------------------------- MODULE MCClientRoute ---------------------------
(* A small instance of ClientRoute: two session IDs that are used again,    *)
(* two login servers to choose from and one data server.                   *)
EXTENDS ClientRoute

=============================================================================
