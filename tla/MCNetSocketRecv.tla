-------------------------- MODULE MCNetSocketRecv --------------------------
(* A small instance of NetSocketRecv.  With MinBody 2 and MaxRecv 4 the     *)
(* bodies are too short, plain, of the largest size that fits m_cBodyBuffer*)
(* (one whose cells read as lengths), of the size only the check admits,   *)
(* and too long.                                                           *)
EXTENDS NetSocketRecv

MCBodies == {<<9>>, <<2, 0>>, <<2, 7, 3>>, <<1, 2, 3, 4>>, <<5, 5, 5, 5, 5>>}
=============================================================================
