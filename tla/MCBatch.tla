------------------------------- MODULE MCBatch -------------------------------
(***************************************************************************)
(* Batch with two workers and three URLs: the first two go through one     *)
(* proxy, so that both workers can ask for its client at once, and the     *)
(* last lists the first again.                                             *)
(***************************************************************************)
EXTENDS Batch

MCJobs == <<[url |-> "a", proxy |-> "x"], [url |-> "b", proxy |-> "x"], [url |-> "a", proxy |-> "y"]>>
===============================================================================
