---------------------------- MODULE MCNetChannel ----------------------------
(* A small instance of NetChannel: frames that one async_write splits, and *)
(* caches that overflow when three of them wait.                           *)
EXTENDS NetChannel

MCBodies == {<<2, 0>>, <<1, 2, 3, 4>>}
=============================================================================
