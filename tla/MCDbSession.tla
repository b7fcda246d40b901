---------------------------- MODULE MCDbSession ----------------------------
(* A small instance of DbSession: enough statements for one to rob another *)
(* while a third is queued.                                                *)
EXTENDS DbSession
=============================================================================
