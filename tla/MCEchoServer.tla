----------------------------- MODULE MCEchoServer -----------------------------
(***************************************************************************)
(* EchoServer with two browsers measured at once: the first has two        *)
(* connections to the main listener, so that its report can come over      *)
(* another one than its page, and makes the HTTP/1.1 hop; the second is    *)
(* the one its parts must not be mixed up with.                            *)
(***************************************************************************)
EXTENDS EchoServer, TLC

CONSTANTS m1, m2, n1, d1, b1, b2, w1, w2

MCOwner    == (m1 :> b1) @@ (m2 :> b1) @@ (n1 :> b2) @@ (d1 :> b1)
MCRequests == (m1 :> 2) @@ (m2 :> 1) @@ (n1 :> 1)
MCLaunches == (w1 :> b1) @@ (w2 :> b2)
===============================================================================
