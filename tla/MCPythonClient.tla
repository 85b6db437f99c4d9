--------------------------- MODULE MCPythonClient ---------------------------
(***************************************************************************)
(* PythonClient with calls of request() and a close() that compete for the *)
(* lock.                                                                   *)
(***************************************************************************)
EXTENDS PythonClient
=============================================================================
