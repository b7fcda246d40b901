--------------------------- MODULE MCDbRecordSet ---------------------------
(* A small instance of DbRecordSet: a table of up to two rows.             *)
EXTENDS DbRecordSet

=============================================================================
