------------------------------- MODULE LeafCache -------------------------------
(***************************************************************************)
(* The certificates the proxy's authority has minted (CA.leafFor in        *)
(* src/proxy/ca.go): a map from host to certificate bounded by throwing    *)
(* out the oldest, kept next to the order in which the hosts came.  The    *)
(* mutex of the CA is held for the whole call, so a call is one step.      *)
(***************************************************************************)
EXTENDS Naturals, Sequences, FiniteSets

CONSTANTS Hosts,      \* the hosts clients ask to be connected to
          MaxLeaves   \* maxCachedLeafCertificates

ASSUME LeafAssumption == MaxLeaves \in Nat \ {0}

VARIABLES leaves,     \* CA.leaves: for each host held, when its certificate was minted
          leafOrder,  \* CA.leafOrder
          minted      \* how many certificates were minted so far

leafVars == <<leaves, leafOrder, minted>>

LeafInit == /\ leaves = << >>
            /\ leafOrder = << >>
            /\ minted = 0

Cached(h) == h \in DOMAIN leaves

Holding(H, h) == [x \in H \cup {h} |-> IF x = h THEN minted + 1 ELSE leaves[x]]

\* Mutant: the map makes room and the order does not forget.
EvictKeepingOrder(h) == /\ leaves' = Holding(DOMAIN leaves \ {Head(leafOrder)}, h)
                        /\ leafOrder' = Append(leafOrder, h)

Evict(h) == /\ leaves' = Holding(DOMAIN leaves \ {Head(leafOrder)}, h)
            /\ leafOrder' = Append(Tail(leafOrder), h)

Insert(h) == /\ leaves' = Holding(DOMAIN leaves, h)
             /\ leafOrder' = Append(leafOrder, h)

Mint(h) == /\ ~Cached(h)
           /\ minted' = minted + 1
           /\ IF Cardinality(DOMAIN leaves) >= MaxLeaves THEN Evict(h) ELSE Insert(h)

Hit(h) == Cached(h) /\ UNCHANGED leafVars

LeafFor(h) == Hit(h) \/ Mint(h)

\* A key that cannot be generated or a signature that fails caches nothing.
LeafFails(h) == ~Cached(h) /\ UNCHANGED leafVars

LeafNext == \E h \in Hosts : LeafFor(h) \/ LeafFails(h)

LeafSpec == LeafInit /\ [][LeafNext]_leafVars

-----------------------------------------------------------------------------
(* The parts of what the map and the order promise together.               *)

SameHosts == DOMAIN leaves = {leafOrder[i] : i \in 1..Len(leafOrder)}

OldestFirst == \A i, j \in 1..Len(leafOrder) : i < j => leaves[leafOrder[i]] < leaves[leafOrder[j]]

Bounded == Len(leafOrder) <= MaxLeaves

\* The map and the order never drift apart over any number of hits, misses and
\* evictions: the same hosts, each once and oldest first, never more than the
\* bound; so an eviction always removes the certificate held longest.
LeafSound == SameHosts /\ OldestFirst /\ Bounded
===============================================================================
