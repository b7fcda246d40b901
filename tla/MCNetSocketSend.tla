-------------------------- MODULE MCNetSocketSend --------------------------
(* A small instance of NetSocketSend: bodies of one and two cells, an array *)
(* that a frame may split, and a cache that dead space in front can fill.  *)
EXTENDS NetSocketSend

MCBodies == {<<5>>, <<6, 7>>}
=============================================================================
