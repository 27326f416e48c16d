---------------------------- MODULE MCPgExecQueue ----------------------------
(* PgExecQueue on the instance of MCExecQueue. *)
EXTENDS MCExecQueue, PgExecQueue

=============================================================================
