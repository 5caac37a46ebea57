--------------------------- MODULE MCServerManager ---------------------------
(***************************************************************************)
(* ServerManager with the servers that its configurations name.            *)
(***************************************************************************)
EXTENDS ServerManager
=============================================================================
