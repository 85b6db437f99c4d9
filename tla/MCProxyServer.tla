---------------------------- MODULE MCProxyServer ----------------------------
(***************************************************************************)
(* ProxyServer with two connections, one of which can slip between Accept  *)
(* and Close while the other is being closed; two callers of Close; and    *)
(* room for the certificate of one host, so that the second CONNECT finds  *)
(* it or throws it out.                                                    *)
(***************************************************************************)
EXTENDS ProxyServer
==============================================================================
