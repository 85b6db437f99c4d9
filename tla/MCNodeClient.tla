---------------------------- MODULE MCNodeClient ----------------------------
(***************************************************************************)
(* NodeClient with three requests: enough for one in flight, one behind it *)
(* in the queue, and one made after a close, a timeout or a crash.         *)
(***************************************************************************)
EXTENDS NodeClient
=============================================================================
