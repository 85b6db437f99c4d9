---------------------------- MODULE MCSessionStore ----------------------------
(***************************************************************************)
(* SessionStore with two runs of two sessions each, which may carry the    *)
(* same second, and one power failure.                                     *)
(***************************************************************************)
EXTENDS SessionStore
===============================================================================
