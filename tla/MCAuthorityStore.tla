--------------------------- MODULE MCAuthorityStore ---------------------------
(***************************************************************************)
(* A certificate authority from its files to the certificates it mints.    *)
(* AuthorityStore with three starts of the proxy, which may overlap in any *)
(* way: a failure, a recovery and a third that must accept what it finds,  *)
(* or two that race and one that meets what they leave.  Once all of them  *)
(* serve, one authority is asked for certificates (LeafCache) of one host  *)
(* more than there is room for, in any order, until MaxMinted were minted: *)
(* every place is given up and filled again, and more than once.  Files    *)
(* and cache share nothing but the authority, so nothing is lost by        *)
(* leaving the files alone from the first certificate on.                  *)
(***************************************************************************)
EXTENDS AuthorityStore, LeafCache

CONSTANT MaxMinted   \* bound on the certificates minted

MCInit == AuthorityInit /\ LeafInit

Certificates ==
    /\ \A p \in Procs : at[p] = "serving"
    /\ minted < MaxMinted
    /\ LeafNext
    /\ UNCHANGED authorityVars

MCNext == \/ minted = 0 /\ AuthorityNext /\ UNCHANGED leafVars
          \/ Certificates

MCSpec == MCInit /\ [][MCNext]_<<authorityVars, leafVars>>
==============================================================================
