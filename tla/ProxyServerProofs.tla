-------------------------- MODULE ProxyServerProofs --------------------------
(***************************************************************************)
(* Closing the proxy is safe for any number of connections and of callers  *)
(* of Close: nothing slips behind the snapshot, the WaitGroup is exact,    *)
(* and whoever has returned from Close leaves nothing running or open; the *)
(* certificate cache its handlers share is sound by itself and under them. *)
(* The authority that signs the certificates: however many starts of the   *)
(* proxy read, write, fail, die or lose power over its two files, those    *)
(* that serve agree with the files and a certificate that is there stays,  *)
(* but for the starts that overlap one which has read neither file.        *)
(***************************************************************************)
EXTENDS ProxyServer, AuthorityStore, FiniteSetTheorems, FunctionTheorems, SequenceTheorems, TLAPS

-----------------------------------------------------------------------------
(* The certificate cache is sound for every bound, every set of hosts and  *)
(* every sequence of calls.                                                *)

LeafType == /\ leafOrder \in Seq(Hosts)
            /\ minted \in Nat
            /\ leaves \in [DOMAIN leaves -> Nat]
            /\ \A h \in DOMAIN leaves : leaves[h] <= minted

\* What is inductive: the cache is sound and no certificate is newer than the
\* last one minted.
LeafInv == LeafType /\ LeafSound

-----------------------------------------------------------------------------
(* The bound is tested on the map, the eviction works on the order: sound, *)
(* the two have the same size.                                             *)
LEMMA MapAsLongAsOrder ==
  ASSUME LeafInv
  PROVE  Cardinality(DOMAIN leaves) = Len(leafOrder)
<1> DEFINE n == Len(leafOrder)
           D == DOMAIN leaves
<1>1. n \in Nat /\ DOMAIN leafOrder = 1..n
  BY LenProperties DEF LeafInv, LeafType
<1>2. leafOrder \in [1..n -> D]
  <2>1. \A i \in 1..n : leafOrder[i] \in D
    BY DEF LeafInv, LeafSound, SameHosts
  <2>2. leafOrder \in [1..n -> Hosts]
    BY LenProperties DEF LeafInv, LeafType
  <2> QED BY <2>1, <2>2
<1>3. \A i, j \in 1..n : leafOrder[i] = leafOrder[j] => i = j
  <2> SUFFICES ASSUME NEW i \in 1..n, NEW j \in 1..n, leafOrder[i] = leafOrder[j], i # j
               PROVE  FALSE
    OBVIOUS
  <2>1. leaves[leafOrder[i]] \in Nat /\ leaves[leafOrder[j]] \in Nat
    BY <1>2 DEF LeafInv, LeafType
  <2>2. i < j \/ j < i
    BY <1>1
  <2> QED BY <2>1, <2>2 DEF LeafInv, LeafSound, OldestFirst
<1>4. \A h \in D : \E i \in 1..n : leafOrder[i] = h
  BY DEF LeafInv, LeafSound, SameHosts
<1>5. leafOrder \in Bijection(1..n, D)
  BY <1>2, <1>3, <1>4, Fun_IsBij
<1> QED BY <1>1, <1>5, FS_CountingElements DEF ExistsBijection

\* An empty cache is sound.
LEMMA LeafInitSound == LeafInit => LeafInv
BY LeafAssumption DEF LeafInit, LeafInv, LeafType, LeafSound, SameHosts, OldestFirst, Bounded

-----------------------------------------------------------------------------
\* Adding a host that is not held keeps map and order one and the same set.
LEMMA InsertSound ==
  ASSUME LeafInv, NEW h \in Hosts, ~Cached(h), Len(leafOrder) < MaxLeaves,
         Insert(h), minted' = minted + 1
  PROVE  LeafInv'
<1> DEFINE n == Len(leafOrder)
<1>1. /\ n \in Nat
      /\ leafOrder' \in Seq(Hosts)
      /\ Len(leafOrder') = n + 1
      /\ \A i \in 1..n : leafOrder'[i] = leafOrder[i]
      /\ leafOrder'[n + 1] = h
  BY AppendProperties, LenProperties DEF LeafInv, LeafType, Insert
<1>2. /\ DOMAIN leaves' = DOMAIN leaves \cup {h}
      /\ leaves'[h] = minted + 1
      /\ \A x \in DOMAIN leaves : leaves'[x] = leaves[x]
  BY DEF Insert, Holding, Cached
<1>3. \A i \in 1..n : leafOrder[i] \in DOMAIN leaves
  BY DEF LeafInv, LeafSound, SameHosts
<1>4. LeafType'
  <2>1. leaves' \in [DOMAIN leaves' -> Nat]
    BY <1>2 DEF LeafInv, LeafType, Insert, Holding
  <2>2. \A x \in DOMAIN leaves' : leaves'[x] <= minted'
    BY <1>2 DEF LeafInv, LeafType
  <2> QED BY <1>1, <2>1, <2>2 DEF LeafInv, LeafType
<1>5. SameHosts'
  <2>1. 1..(n + 1) = (1..n) \cup {n + 1}
    BY <1>1
  <2> QED BY <1>1, <1>2, <2>1 DEF LeafInv, LeafSound, SameHosts
<1>6. OldestFirst'
  <2> SUFFICES ASSUME NEW i \in 1..(n + 1), NEW j \in 1..(n + 1), i < j
               PROVE  leaves'[leafOrder'[i]] < leaves'[leafOrder'[j]]
    BY <1>1 DEF OldestFirst
  <2>1. i \in 1..n
    BY <1>1
  <2>2. CASE j \in 1..n
    BY <1>1, <1>2, <1>3, <2>1, <2>2 DEF LeafInv, LeafSound, OldestFirst
  <2>3. CASE j = n + 1
    <3>1. leaves'[leafOrder'[i]] = leaves[leafOrder[i]] /\ leaves[leafOrder[i]] \in Nat
      BY <1>1, <1>2, <1>3, <2>1 DEF LeafInv, LeafType
    <3>2. leaves[leafOrder[i]] <= minted /\ minted \in Nat
      BY <1>3, <2>1 DEF LeafInv, LeafType
    <3> QED BY <1>1, <1>2, <2>3, <3>1, <3>2
  <2> QED BY <1>1, <2>2, <2>3
<1>7. Bounded'
  BY <1>1, LeafAssumption DEF Bounded
<1> QED BY <1>4, <1>5, <1>6, <1>7 DEF LeafInv, LeafSound

\* Throwing out the oldest takes one host from the map and the same one from the order.
LEMMA EvictSound ==
  ASSUME LeafInv, NEW h \in Hosts, ~Cached(h), Len(leafOrder) >= MaxLeaves,
         Evict(h), minted' = minted + 1
  PROVE  LeafInv'
<1> DEFINE n == Len(leafOrder)
           first == Head(leafOrder)
           kept == DOMAIN leaves \ {first}
<1>1. /\ n \in Nat \ {0}
      /\ leafOrder # << >>
      /\ first = leafOrder[1]
      /\ Tail(leafOrder) \in Seq(Hosts)
      /\ Len(Tail(leafOrder)) = n - 1
      /\ \A i \in 1..(n - 1) : Tail(leafOrder)[i] = leafOrder[i + 1]
  BY HeadTailProperties, LenProperties, LeafAssumption DEF LeafInv, LeafType
<1>0. n \in Nat \ {0}
  BY <1>1
<1>2. /\ leafOrder' \in Seq(Hosts)
      /\ Len(leafOrder') = n
      /\ \A i \in 1..(n - 1) : leafOrder'[i] = leafOrder[i + 1]
      /\ leafOrder'[n] = h
  BY <1>1, AppendProperties DEF Evict
<1>3. /\ DOMAIN leaves' = kept \cup {h}
      /\ leaves'[h] = minted + 1
      /\ \A x \in kept : leaves'[x] = leaves[x]
  BY DEF Evict, Holding, Cached
<1>4. \A i \in 1..n : leafOrder[i] \in DOMAIN leaves /\ leaves[leafOrder[i]] \in Nat
  BY DEF LeafInv, LeafSound, SameHosts, LeafType
<1>5. \A i \in 2..n : leafOrder[i] \in kept
  <2> SUFFICES ASSUME NEW i \in 2..n PROVE leafOrder[i] # first
    BY <1>1, <1>4
  <2>1. leaves[leafOrder[1]] < leaves[leafOrder[i]]
    BY <1>1 DEF LeafInv, LeafSound, OldestFirst
  <2> QED BY <1>1, <1>4, <2>1
<1>6. \A i \in 1..(n - 1) : /\ leafOrder'[i] \in kept
                            /\ leaves'[leafOrder'[i]] = leaves[leafOrder[i + 1]]
  BY <1>1, <1>2, <1>3, <1>5
<1>7. LeafType'
  <2>1. leaves' \in [DOMAIN leaves' -> Nat]
    BY <1>3 DEF LeafInv, LeafType, Evict, Holding
  <2>2. \A x \in DOMAIN leaves' : leaves'[x] <= minted'
    BY <1>3 DEF LeafInv, LeafType
  <2> QED BY <1>2, <2>1, <2>2 DEF LeafInv, LeafType
<1>8. SameHosts'
  <2>1. \A x \in kept : \E i \in 1..(n - 1) : leafOrder'[i] = x
    <3> SUFFICES ASSUME NEW x \in kept PROVE \E i \in 1..(n - 1) : leafOrder'[i] = x
      OBVIOUS
    <3>1. PICK j \in 1..n : leafOrder[j] = x
      BY DEF LeafInv, LeafSound, SameHosts
    <3>2. j # 1
      BY <1>1, <3>1
    <3>3. j - 1 \in 1..(n - 1) /\ leafOrder'[j - 1] = x
      BY <1>1, <1>2, <3>1, <3>2
    <3> QED BY <3>3
  <2>2. \A i \in 1..n : leafOrder'[i] \in kept \cup {h}
    <3> SUFFICES ASSUME NEW i \in 1..n PROVE leafOrder'[i] \in kept \cup {h}
      OBVIOUS
    <3>1. i = n \/ i \in 1..(n - 1)
      BY <1>0
    <3> QED BY <1>2, <1>6, <3>1
  <2>3. n \in 1..n /\ 1..(n - 1) \subseteq 1..n
    BY <1>1
  <2> QED BY <1>2, <1>3, <2>1, <2>2, <2>3 DEF SameHosts
<1>9. OldestFirst'
  <2> SUFFICES ASSUME NEW i \in 1..n, NEW j \in 1..n, i < j
               PROVE  leaves'[leafOrder'[i]] < leaves'[leafOrder'[j]]
    BY <1>2 DEF OldestFirst
  <2>1. i \in 1..(n - 1) /\ i + 1 \in 1..n
    BY <1>1
  <2>2. CASE j = n
    <3>1. leaves[leafOrder[i + 1]] \in Nat /\ leaves[leafOrder[i + 1]] <= minted /\ minted \in Nat
      BY <1>4, <2>1 DEF LeafInv, LeafType
    <3> QED BY <1>2, <1>3, <1>6, <2>1, <2>2, <3>1
  <2>3. CASE j \in 1..(n - 1)
    <3>1. j + 1 \in 1..n /\ i + 1 < j + 1
      BY <1>1, <2>3
    <3>2. leaves[leafOrder[i + 1]] < leaves[leafOrder[j + 1]]
      BY <2>1, <3>1 DEF LeafInv, LeafSound, OldestFirst
    <3> QED BY <1>6, <2>1, <2>3, <3>2
  <2>4. j = n \/ j \in 1..(n - 1)
    BY <1>0
  <2> QED BY <2>2, <2>3, <2>4
<1>10. Bounded'
  BY <1>2 DEF LeafInv, LeafSound, Bounded
<1> QED BY <1>7, <1>8, <1>9, <1>10 DEF LeafInv, LeafSound

\* Whatever leafFor does for a host, found, minted or minted over the oldest, the cache stays sound.
LEMMA LeafForSound ==
  ASSUME LeafInv, NEW h \in Hosts, LeafFor(h) \/ LeafFails(h)
  PROVE  LeafInv'
<1>1. CASE UNCHANGED leafVars
  BY <1>1 DEF leafVars, LeafInv, LeafType, LeafSound, SameHosts, OldestFirst, Bounded
<1>2. CASE Mint(h)
  <2>1. CASE Cardinality(DOMAIN leaves) >= MaxLeaves
    BY <1>2, <2>1, MapAsLongAsOrder, EvictSound DEF Mint
  <2>2. CASE ~(Cardinality(DOMAIN leaves) >= MaxLeaves)
    <3>1. Len(leafOrder) \in Nat /\ MaxLeaves \in Nat
      BY LenProperties, LeafAssumption DEF LeafInv, LeafType
    <3>2. Len(leafOrder) < MaxLeaves
      BY <2>2, <3>1, MapAsLongAsOrder
    <3> QED BY <1>2, <2>2, <3>2, InsertSound DEF Mint
  <2> QED BY <2>1, <2>2
<1> QED BY <1>1, <1>2 DEF LeafFor, LeafFails, Hit

-----------------------------------------------------------------------------
(* Over any number of CONNECTs, leafFor keeps the map and the order of the *)
(* cache in step and within the bound.                                     *)
THEOREM LeafCacheSound == LeafSpec => []LeafSound
<1>1. LeafInit => LeafInv
  BY LeafInitSound
<1>2. LeafInv /\ [LeafNext]_leafVars => LeafInv'
  <2> SUFFICES ASSUME LeafInv, [LeafNext]_leafVars PROVE LeafInv'
    OBVIOUS
  <2>1. CASE LeafNext
    BY <2>1, LeafForSound DEF LeafNext
  <2>2. CASE UNCHANGED leafVars
    BY <2>2 DEF leafVars, LeafInv, LeafType, LeafSound, SameHosts, OldestFirst, Bounded
  <2> QED BY <2>1, <2>2
<1>3. LeafInv => LeafSound
  BY DEF LeafInv
<1> QED BY <1>1, <1>2, <1>3, PTL DEF LeafSpec

-----------------------------------------------------------------------------
(* The proxy: the parts of its inductive invariant.                        *)

\* conns holds the connections between track and forget, and no other.
Tracked == \A c \in Conns : c \in conns <=>
             phase[c] \in {"read", "handshake", "do", "write", "reject", "leave"}

\* A server end is open from the backlog to the end of its handler.
OpenEnds == \A c \in open : phase[c] \notin {"none", "finish", "done"}

\* Accept hands over one connection at a time.
Handover == \A c \in Conns : phase[c] = "accepted" <=> acceptor = "got" /\ accepted = c

\* The listener is closed by the first caller of Close, the loop ends after it.
Listener == /\ listening <=> once = "unused"
            /\ ~listening => \A c \in Conns : phase[c] # "backlog"

\* One caller runs the body of Close; nobody returns before it has finished.
OneCloser ==
  /\ \A k \in Closers : closer[k] \in {"snapshot", "closing"} => once = "running"
  /\ \A k, l \in Closers :
       closer[k] \in {"snapshot", "closing"} /\ closer[l] \in {"snapshot", "closing"} => k = l
  /\ \A k \in Closers : closer[k] = "returned" => once = "done"
  /\ \A k \in Closers : closer[k] = "closing" => closed
  /\ once = "done" => closed /\ wg = 0

\* Everything but the count of the WaitGroup, which needs cardinalities.
ProxyStructure == /\ TypeOK
                  /\ Tracked
                  /\ OpenEnds
                  /\ Handover
                  /\ Listener
                  /\ OneCloser
                  /\ NoneSlipsBehind

ProxyInv == ProxyStructure /\ WaitGroupExact

-----------------------------------------------------------------------------
(* The WaitGroup.                                                          *)

LEMMA HandlersFinite == IsFiniteSet(Handlers)
BY ProxyAssumption, FS_Subset DEF Handlers

\* So the number of handlers is a number.
LEMMA HandlersCount == Cardinality(Handlers) \in Nat
BY HandlersFinite, FS_CardinalityType

\* An empty count: no goroutine is left.
LEMMA NobodyLeft ==
  ASSUME ProxyInv, wg = 0
  PROVE  acceptor = "done" /\ Handlers = {}
<1>1. Cardinality(Handlers) = 0 /\ acceptor = "done"
  BY HandlersCount DEF ProxyInv, WaitGroupExact
<1> QED BY <1>1, HandlersFinite, FS_EmptySet

\* Steps that neither start nor end a goroutine.
LEMMA CountKept ==
  ASSUME ProxyInv, Handlers' = Handlers, UNCHANGED <<wg, acceptor>>
  PROVE  WaitGroupExact'
BY DEF ProxyInv, WaitGroupExact

\* Accept starts no handler.
LEMMA CountAccept ==
  ASSUME ProxyInv, Accept
  PROVE  WaitGroupExact'
<1>1. Handlers' = Handlers
  BY DEF Accept, Handlers, Handling, ProxyInv, ProxyStructure, TypeOK
<1>2. wg > 0
  BY HandlersCount DEF Accept, ProxyInv, WaitGroupExact
<1> QED BY <1>1, <1>2 DEF Accept, ProxyInv, WaitGroupExact

\* A go statement adds one handler, as wg.Add(1) does.
LEMMA CountSpawn ==
  ASSUME ProxyInv, Spawn
  PROVE  WaitGroupExact'
<1>1. accepted \in Conns /\ phase[accepted] = "accepted"
  BY DEF Spawn, ProxyInv, ProxyStructure, TypeOK, Handover
<1>2. Handlers' = Handlers \cup {accepted} /\ accepted \notin Handlers
  BY <1>1 DEF Spawn, Handlers, Handling, ProxyInv, ProxyStructure, TypeOK
<1>3. Cardinality(Handlers') = Cardinality(Handlers) + 1
  BY <1>2, HandlersFinite, FS_AddElement
<1> QED BY <1>3, HandlersCount DEF Spawn, ProxyInv, WaitGroupExact

\* The accept loop gives back its own count.
LEMMA CountAcceptFails ==
  ASSUME ProxyInv, AcceptFails
  PROVE  WaitGroupExact'
<1>1. Handlers' = Handlers
  BY DEF AcceptFails, connVars, Handlers, Handling
<1> QED BY <1>1, HandlersCount DEF AcceptFails, ProxyInv, WaitGroupExact

\* A handler that ends takes one away, as wg.Done does.
LEMMA CountFinish ==
  ASSUME ProxyInv, NEW c \in Conns, Finish(c)
  PROVE  WaitGroupExact'
<1>1. Handlers' = Handlers \ {c} /\ c \in Handlers
  BY DEF Finish, Goto, Handlers, Handling, ProxyInv, ProxyStructure, TypeOK
<1>2. Cardinality(Handlers') = Cardinality(Handlers) - 1
  BY <1>1, HandlersFinite, FS_RemoveElement
<1>3. Cardinality(Handlers) # 0
  BY <1>1, HandlersFinite, FS_EmptySet
<1> QED BY <1>2, <1>3, HandlersCount DEF Finish, handlerOthers, acceptVars, ProxyInv, WaitGroupExact
-----------------------------------------------------------------------------
(* One step of each kind keeps the structure.                              *)

LEMMA ClientStep ==
  ASSUME ProxyInv, NEW c \in Conns, Dial(c) \/ HangUp(c)
  PROVE  ProxyStructure' /\ Handlers' = Handlers
<1>1. CASE Dial(c)
  BY <1>1 DEF Dial, acceptVars, closeVars, Handlers, Handling, ProxyInv, ProxyStructure, TypeOK, Phases, Tracked,
      OpenEnds, Handover, Listener, OneCloser, NoneSlipsBehind
<1>2. CASE HangUp(c)
  BY <1>2 DEF HangUp, acceptVars, closeVars, Handlers, Handling, ProxyInv, ProxyStructure, TypeOK, Phases, Tracked,
      OpenEnds, Handover, Listener, OneCloser, NoneSlipsBehind
<1> QED BY <1>1, <1>2

\* The accept loop keeps the structure.
LEMMA AcceptLoopStep ==
  ASSUME ProxyInv, AcceptStep
  PROVE  ProxyStructure'
<1>1. CASE Accept
  BY <1>1, ProxyAssumption DEF Accept, closeVars, ProxyInv, ProxyStructure, TypeOK, Phases, Tracked,
      OpenEnds, Handover, Listener, OneCloser, NoneSlipsBehind
<1>2. CASE Spawn
  BY <1>2, NobodyLeft DEF Spawn, closeVars, ProxyInv, ProxyStructure, TypeOK, Phases, Tracked,
      OpenEnds, Handover, Listener, OneCloser, NoneSlipsBehind
<1>3. CASE AcceptFails
  BY <1>3, NobodyLeft DEF AcceptFails, connVars, closeVars, ProxyInv, ProxyStructure, TypeOK, Phases, Tracked,
      OpenEnds, Handover, Listener, OneCloser, NoneSlipsBehind
<1> QED BY <1>1, <1>2, <1>3 DEF AcceptStep

\* A handler's step short of its last keeps the structure.
LEMMA HandlerStepKeeps ==
  ASSUME ProxyInv, NEW c \in Conns, Track(c) \/ Do(c) \/ Broken(c) \/ Forget(c)
  PROVE  ProxyStructure' /\ Handlers' = Handlers
<1> USE DEF Goto, handlerOthers, acceptVars, closeVars, Handlers, Handling, ProxyInv, ProxyStructure, TypeOK, Phases, Tracked,
      OpenEnds, Handover, Listener, OneCloser, NoneSlipsBehind
<1>1. CASE Track(c)
  BY <1>1 DEF Track
<1>2. CASE Do(c)
  BY <1>2 DEF Do
<1>3. CASE Broken(c)
  BY <1>3 DEF Broken
<1>4. CASE Forget(c)
  BY <1>4 DEF Forget
<1> QED BY <1>1, <1>2, <1>3, <1>4

\* The last step of a handler keeps the structure.
LEMMA FinishKeeps ==
  ASSUME ProxyInv, NEW c \in Conns, Finish(c)
  PROVE  ProxyStructure'
<1>1. wg # 0
  BY NobodyLeft DEF Finish, Handlers, Handling
<1>2. wg' \in Nat
  BY <1>1 DEF Finish, ProxyInv, ProxyStructure, TypeOK, Phases, Tracked,
      OpenEnds, Handover, Listener, OneCloser, NoneSlipsBehind
<1> QED BY <1>1, <1>2 DEF Finish, Goto, handlerOthers, acceptVars, closeVars, ProxyInv, ProxyStructure, TypeOK, Phases, Tracked,
      OpenEnds, Handover, Listener, OneCloser, NoneSlipsBehind

\* A step that waits for the client keeps the structure.
LEMMA PeerStepKeeps ==
  ASSUME ProxyInv, NEW c \in Conns, PeerStep(c)
  PROVE  ProxyStructure' /\ Handlers' = Handlers
<1> USE DEF Goto, handlerOthers, acceptVars, closeVars, Handlers, Handling, ProxyInv, ProxyStructure, TypeOK, Phases, Tracked,
      OpenEnds, Handover, Listener, OneCloser, NoneSlipsBehind
<1>1. CASE ReadRequest(c)
  <2>1. /\ requests' = [requests EXCEPT ![c] = @ + 1]
        /\ requests[c] + 1 \in 0..MaxRequests
        /\ phase[c] = "read"
        /\ \E p \in {"do", "reject", "handshake", "leave"} : phase' = [phase EXCEPT ![c] = p]
    BY <1>1, ProxyAssumption DEF ReadRequest
  <2> QED BY <1>1, <2>1 DEF ReadRequest
<1>2. CASE Handshake(c)
  BY <1>2 DEF Handshake
<1>3. CASE WriteResponse(c)
  BY <1>3 DEF WriteResponse
<1>4. CASE TooLarge(c)
  BY <1>4 DEF TooLarge
<1>5. CASE IdleTimeout(c)
  BY <1>5 DEF IdleTimeout
<1> QED BY <1>1, <1>2, <1>3, <1>4, <1>5 DEF PeerStep

\* Each step of Close keeps the structure.
LEMMA CloseStepKeeps ==
  ASSUME ProxyInv, NEW k \in Closers, CloseStep(k)
  PROVE  ProxyStructure' /\ Handlers' = Handlers
<1> USE DEF closeOthers, acceptVars, connVars, Handlers, Handling, ProxyInv, ProxyStructure, TypeOK, Phases, Tracked,
      OpenEnds, Handover, Listener, OneCloser, NoneSlipsBehind
<1>1. CASE CloseBegin(k)
  BY <1>1 DEF CloseBegin
<1>2. CASE CloseAgain(k)
  BY <1>2 DEF CloseAgain
<1>3. CASE TakeSnapshot(k)
  BY <1>3 DEF TakeSnapshot
<1>4. CASE CloseConn(k)
  BY <1>4 DEF CloseConn
<1>5. CASE CloseWaited(k)
  BY <1>5 DEF CloseWaited
<1> QED BY <1>1, <1>2, <1>3, <1>4, <1>5 DEF CloseStep
-----------------------------------------------------------------------------
(* The invariant.                                                          *)

LEMMA ProxyInit ==
  ASSUME Init
  PROVE  ProxyInv
<1>1. Handlers = {}
  BY DEF Init, Handlers, Handling
<1>2. WaitGroupExact
  <2>1. Cardinality(Handlers) = 0
    BY <1>1, FS_EmptySet
  <2> QED BY <2>1 DEF Init, WaitGroupExact
<1>3. TypeOK
  <2>1. [c \in Conns |-> 0] \in [Conns -> 0..MaxRequests]
    BY ProxyAssumption
  <2> QED BY <2>1 DEF Init, TypeOK, Phases
<1>4. /\ Tracked /\ OpenEnds /\ Handover /\ Listener /\ OneCloser /\ NoneSlipsBehind
  BY DEF Init, Tracked, OpenEnds, Handover, Listener, OneCloser, NoneSlipsBehind
<1> QED BY <1>2, <1>3, <1>4 DEF ProxyInv, ProxyStructure

\* Every step of the proxy keeps the invariant.
LEMMA ProxyStep ==
  ASSUME ProxyInv, Next
  PROVE  ProxyInv'
<1>1. CASE AcceptStep
  <2>1. ProxyStructure'
    BY <1>1, AcceptLoopStep
  <2>2. WaitGroupExact'
    BY <1>1, CountAccept, CountSpawn, CountAcceptFails DEF AcceptStep
  <2> QED BY <2>1, <2>2 DEF ProxyInv
<1>2. ASSUME NEW c \in Conns, Dial(c) \/ HangUp(c)
      PROVE  ProxyInv'
  <2>1. UNCHANGED <<wg, acceptor>>
    BY <1>2 DEF Dial, HangUp, acceptVars
  <2> QED BY <1>2, <2>1, ClientStep, CountKept DEF ProxyInv
<1>3. ASSUME NEW c \in Conns, HandlerStep(c)
      PROVE  ProxyInv'
  <2>1. CASE Finish(c)
    BY <2>1, FinishKeeps, CountFinish DEF ProxyInv
  <2>2. CASE Track(c) \/ Do(c) \/ Broken(c) \/ Forget(c)
    <3>1. UNCHANGED <<wg, acceptor>>
      BY <2>2 DEF Track, Do, Broken, Forget, handlerOthers, acceptVars
    <3> QED BY <2>2, <3>1, HandlerStepKeeps, CountKept DEF ProxyInv
  <2> QED BY <1>3, <2>1, <2>2 DEF HandlerStep
<1>4. ASSUME NEW c \in Conns, PeerStep(c)
      PROVE  ProxyInv'
  <2>1. UNCHANGED <<wg, acceptor>>
    BY <1>4 DEF PeerStep, ReadRequest, Handshake, WriteResponse, TooLarge, IdleTimeout, handlerOthers, acceptVars
  <2> QED BY <1>4, <2>1, PeerStepKeeps, CountKept DEF ProxyInv
<1>5. ASSUME NEW k \in Closers, CloseStep(k)
      PROVE  ProxyInv'
  <2>1. UNCHANGED <<wg, acceptor>>
    BY <1>5 DEF CloseStep, CloseBegin, CloseAgain, TakeSnapshot, CloseConn, CloseWaited, closeOthers, acceptVars
  <2> QED BY <1>5, <2>1, CloseStepKeeps, CountKept DEF ProxyInv
<1> QED BY <1>1, <1>2, <1>3, <1>4, <1>5 DEF Next

\* A stuttering step keeps the invariant.
LEMMA ProxyStutter ==
  ASSUME ProxyInv, UNCHANGED vars
  PROVE  ProxyInv'
<1> USE DEF vars, acceptVars, connVars, closeVars
<1>1. Handlers' = Handlers
  BY DEF Handlers, Handling
<1>2. WaitGroupExact'
  BY <1>1 DEF ProxyInv, WaitGroupExact
<1>3. ProxyStructure'
  BY DEF ProxyInv, ProxyStructure, TypeOK, Phases, Tracked, OpenEnds, Handover, Listener, OneCloser, NoneSlipsBehind
<1> QED BY <1>2, <1>3 DEF ProxyInv

\* The structure and the count are inductive together: the structure says which
\* goroutines there can be, the count that none is left when Close goes on.
THEOREM ProxyInvariant == Spec => []ProxyInv
<1>1. Init => ProxyInv
  BY ProxyInit
<1>2. ProxyInv /\ [Next]_vars => ProxyInv'
  BY ProxyStep, ProxyStutter
<1> QED BY <1>1, <1>2, PTL DEF Spec

\* Every field of the proxy keeps its type.
THEOREM ProxyTypeCorrect == Spec => []TypeOK
<1>1. ProxyInv => TypeOK
  BY DEF ProxyInv, ProxyStructure
<1> QED BY <1>1, ProxyInvariant, PTL

\* wg.Wait waits for the accept loop and for every handler, and for nothing else.
THEOREM WaitGroupCounts == Spec => []WaitGroupExact
<1>1. ProxyInv => WaitGroupExact
  BY DEF ProxyInv
<1> QED BY <1>1, ProxyInvariant, PTL

\* No connection is registered behind the back of a Close that has looked.
THEOREM CloseSeesAll == Spec => []NoneSlipsBehind
<1>1. ProxyInv => NoneSlipsBehind
  BY DEF ProxyInv, ProxyStructure
<1> QED BY <1>1, ProxyInvariant, PTL

\* Whoever returns from Close leaves no goroutine and no open connection.
THEOREM CloseIsComplete == Spec => []CloseLeavesNothing
<1>1. ProxyInv => CloseLeavesNothing
  <2> SUFFICES ASSUME ProxyInv, NEW k \in Closers, closer[k] = "returned"
               PROVE  /\ acceptor = "done"
                      /\ \A c \in Conns : ~Handling(c) /\ phase[c] # "accepted" /\ c \notin open
                      /\ conns = {}
    BY DEF CloseLeavesNothing
  <2>1. once = "done" /\ wg = 0
    BY DEF ProxyInv, ProxyStructure, OneCloser
  <2>2. acceptor = "done" /\ Handlers = {}
    BY <2>1, NobodyLeft
  <2>3. \A c \in Conns : ~Handling(c)
    BY <2>2 DEF Handlers
  <2>4. \A c \in Conns : phase[c] # "accepted" /\ phase[c] # "backlog"
    BY <2>1, <2>2 DEF ProxyInv, ProxyStructure, Handover, Listener
  <2>5. \A c \in Conns : phase[c] \in {"none", "done"}
    BY <2>3, <2>4 DEF Handling
  <2>6. \A c \in Conns : c \notin open /\ c \notin conns
    BY <2>5 DEF ProxyInv, ProxyStructure, OpenEnds, Tracked
  <2>7. conns = {}
    BY <2>6 DEF ProxyInv, ProxyStructure, TypeOK
  <2> QED BY <2>2, <2>3, <2>4, <2>6, <2>7
<1> QED BY <1>1, ProxyInvariant, PTL

-----------------------------------------------------------------------------
(* The certificates.                                                       *)

\* The proxy touches the certificates through leafFor alone.
LEMMA LeavesByLeafForAlone ==
  ASSUME Next
  PROVE  UNCHANGED leafVars \/ \E h \in Hosts : LeafFor(h) \/ LeafFails(h)
<1>1. CASE AcceptStep
  BY <1>1 DEF AcceptStep, Accept, Spawn, AcceptFails
<1>2. ASSUME NEW c \in Conns, Dial(c) \/ HangUp(c) \/ HandlerStep(c)
      PROVE  UNCHANGED leafVars
  BY <1>2 DEF Dial, HangUp, HandlerStep, Track, Do, Broken, Forget, Finish
<1>3. ASSUME NEW c \in Conns, PeerStep(c)
      PROVE  UNCHANGED leafVars \/ \E h \in Hosts : LeafFor(h) \/ LeafFails(h)
  BY <1>3 DEF PeerStep, ReadRequest, Handshake, WriteResponse, TooLarge, IdleTimeout
<1>4. ASSUME NEW k \in Closers, CloseStep(k)
      PROVE  UNCHANGED leafVars
  BY <1>4 DEF CloseStep, CloseBegin, CloseAgain, TakeSnapshot, CloseConn, CloseWaited, closeOthers
<1> QED BY <1>1, <1>2, <1>3, <1>4 DEF Next

\* Whatever connections ask for, in whatever order, the map of certificates and
\* the order they are thrown out in stay in step and bounded.
THEOREM ProxyLeavesSound == Spec => []LeafSound
<1>1. Init => LeafInv
  BY LeafInitSound DEF Init
<1>2. LeafInv /\ [Next]_vars => LeafInv'
  <2> SUFFICES ASSUME LeafInv, [Next]_vars PROVE LeafInv'
    OBVIOUS
  <2>1. CASE UNCHANGED leafVars
    BY <2>1 DEF leafVars, LeafInv, LeafType, LeafSound, SameHosts, OldestFirst, Bounded
  <2>2. UNCHANGED leafVars \/ \E h \in Hosts : LeafFor(h) \/ LeafFails(h)
    BY LeavesByLeafForAlone DEF vars
  <2> QED BY <2>1, <2>2, LeafForSound
<1>3. LeafInv => LeafSound
  BY DEF LeafInv
<1> QED BY <1>1, <1>2, <1>3, PTL DEF Spec

-----------------------------------------------------------------------------
(* The authority on disk. *)

\* What a file can hold.
Contents == Procs \cup {NoFile, Mine, Other, Torn}

Temp == [path : Paths \cup {NoFile}, data : Contents,
         at : {"none", "created", "filled", "closed", "left"}, synced : BOOLEAN]

\* Every variable holds what the code can put there.
AuthorityTypeOK ==
  /\ disk \in [Paths -> Contents]
  /\ settled \in [Paths -> Contents]
  /\ unsynced \in SUBSET Paths
  /\ temp \in [Procs -> Temp]
  /\ at \in [Procs -> Starting \cup {"new", "failed", "serving", "dead"}]
  /\ found \in [Procs -> [Paths -> Contents]]
  /\ serves \in [Procs -> Contents]
  /\ overlapped \in BOOLEAN
  /\ losses \in Nat

Early   == {"new", "readCert", "readKey"}
Filling == {"keyWrite", "certNext", "certWrite", "undo"}

\* A start makes an authority of its own because it read neither file, and writes the
\* key and then the certificate of it.
Writers == \A p \in Procs :
  /\ at[p] \in Filling => Missing(p) = Paths
  /\ at[p] = "keyWrite" => temp[p].path = Key /\ temp[p].data = p
  /\ at[p] = "certWrite" => temp[p].path = Cert /\ temp[p].data = p

\* What a start has read, written or taken to serve with is still there, unless starts
\* overlapped and another one had read neither file.
Raced(p) == overlapped /\ Rival(p)
StillThere == \A p \in Procs :
  /\ at[p] = "readKey" => found[p][Cert] = disk[Cert] \/ Raced(p)
  /\ at[p] = "decide" => (found[p][Cert] = disk[Cert] /\ found[p][Key] = disk[Key]) \/ Raced(p)
  /\ at[p] \in {"certNext", "certWrite"} => disk[Key] = p \/ Raced(p)
  /\ at[p] = "serving" => Agrees(p) \/ Raced(p)

\* Who serves has an authority.
ServesOne == \A p \in Procs : at[p] = "serving" => serves[p] # NoFile

\* While no two starts overlap, one is under way at a time, and it fills in files where
\* there is no certificate.
Alone ==
  /\ \A p, q \in Procs : at[p] \in Starting /\ at[q] \in Starting => p = q
  /\ \A p \in Procs : at[p] \in Filling => disk[Cert] = NoFile

\* No certificate of a start is without its key, unless starts overlapped or power failed.
PairWhole == disk[Cert] \in Procs => disk[Key] = disk[Cert] \/ overlapped \/ losses # 0

AuthorityInv ==
  AuthorityTypeOK /\ Writers /\ StillThere /\ ServesOne /\ PairWhole /\ (~overlapped => Alone)

-----------------------------------------------------------------------------
(* Its initial states. *)

\* What is there from before is no authority of a start to come.
LEMMA AuthorityInitHolds == AuthorityInit => AuthorityInv
<1> SUFFICES ASSUME AuthorityInit PROVE AuthorityInv
  OBVIOUS
<1>1. PICK c \in {NoFile, Mine}, k \in {NoFile, Mine, Other} : disk = [f \in Paths |-> IF f = Cert THEN c ELSE k]
  BY DEF AuthorityInit
<1>2. disk \in [Paths -> Contents] /\ disk[Cert] = c
  BY <1>1, AuthorityAssumption DEF Contents
<1>3. NoTemp \in Temp
  BY DEF NoTemp, Temp, Contents
<1>4. AuthorityTypeOK
  BY <1>2, <1>3 DEF AuthorityInit, AuthorityTypeOK, Contents
<1>5. Writers /\ StillThere /\ ServesOne /\ Alone
  BY DEF AuthorityInit, Writers, StillThere, ServesOne, Alone, Starting, Filling
<1>6. PairWhole
  BY <1>2, AuthorityAssumption DEF PairWhole
<1> QED BY <1>4, <1>5, <1>6 DEF AuthorityInv

-----------------------------------------------------------------------------
(* Its steps. *)

\* A step of one start leaves what the others have alone.
ItsOwn(p) == \A q \in Procs \ {p} : /\ at'[q] = at[q] /\ found'[q] = found[q]
                                    /\ serves'[q] = serves[q] /\ temp'[q] = temp[q]

\* What a step of p does to each variable.
Changes(p, a, t, g, s) ==
  /\ MoveTo(p, a) /\ a \in Starting \cup {"failed", "serving", "dead"}
  /\ temp' = [temp EXCEPT ![p] = t] /\ t \in Temp
  /\ found' = [found EXCEPT ![p] = g] /\ g \in [Paths -> Contents]
  /\ serves' = [serves EXCEPT ![p] = s] /\ s \in Contents
  /\ disk' \in [Paths -> Contents] /\ unsynced' \in SUBSET Paths /\ overlapped' \in BOOLEAN
  /\ settled' = settled /\ losses' = losses

\* It keeps their types, and what the other starts have.
LEMMA MovedTypes ==
  ASSUME AuthorityTypeOK, NEW p \in Procs, NEW a, NEW t, NEW g, NEW s, Changes(p, a, t, g, s)
  PROVE  /\ AuthorityTypeOK' /\ ItsOwn(p)
         /\ at'[p] = a /\ temp'[p] = t /\ found'[p] = g /\ serves'[p] = s
<1>1. temp' \in [Procs -> Temp] /\ temp'[p] = t /\ \A q \in Procs \ {p} : temp'[q] = temp[q]
  BY DEF AuthorityTypeOK, Changes
<1>2. /\ found' \in [Procs -> [Paths -> Contents]] /\ found'[p] = g
      /\ \A q \in Procs \ {p} : found'[q] = found[q]
  BY DEF AuthorityTypeOK, Changes
<1>3. /\ serves' \in [Procs -> Contents] /\ serves'[p] = s
      /\ \A q \in Procs \ {p} : serves'[q] = serves[q]
  BY DEF AuthorityTypeOK, Changes
<1>4. /\ at' \in [Procs -> Starting \cup {"new", "failed", "serving", "dead"}] /\ at'[p] = a
      /\ \A q \in Procs \ {p} : at'[q] = at[q]
  BY DEF AuthorityTypeOK, MoveTo, Changes
<1>5. AuthorityTypeOK'
  BY <1>1, <1>2, <1>3, <1>4 DEF AuthorityTypeOK, Changes
<1> QED BY <1>1, <1>2, <1>3, <1>4, <1>5 DEF ItsOwn

\* A rival stays one: it does not read again.
LEMMA RivalStays ==
  ASSUME NEW q \in Procs, Rival(q),
         \A r \in Procs : at[r] \notin Early => at'[r] \notin Early /\ found'[r] = found[r]
  PROVE  Rival(q)'
<1>1. PICK r \in Procs \ {q} : Missing(r) = Paths /\ at[r] \notin Early
  BY DEF Rival, Early
<1>2. Missing(r)' = Paths /\ at'[r] \notin Early
  BY <1>1 DEF Missing
<1> QED BY <1>2 DEF Rival, Early

\* p moves on, and no file changes: what it has done so far is what its place asks for.
MovesOn(p) ==
  /\ overlapped => overlapped'
  /\ ~overlapped' /\ at'[p] \in Starting => at[p] \in Starting \/ \A q \in Procs : at[q] \notin Starting
  /\ at[p] \notin Early => at'[p] \notin Early /\ found'[p] = found[p]
  /\ at'[p] \in Filling => Missing(p)' = Paths /\ (~overlapped' => disk[Cert] = NoFile)
  /\ at'[p] = "keyWrite" => temp'[p].path = Key /\ temp'[p].data = p
  /\ at'[p] = "certWrite" => temp'[p].path = Cert /\ temp'[p].data = p
  /\ at'[p] = "readKey" => found'[p][Cert] = disk[Cert] \/ Raced(p)
  /\ at'[p] = "decide" => (found'[p][Cert] = disk[Cert] /\ found'[p][Key] = disk[Key]) \/ Raced(p)
  /\ at'[p] \in {"certNext", "certWrite"} => disk[Key] = p \/ Raced(p)
  /\ at'[p] = "serving" => serves'[p] # NoFile
  /\ at'[p] = "serving" => (disk[Cert] = serves'[p] /\ disk[Key] = serves'[p]) \/ Raced(p)

\* It keeps the invariant.
LEMMA Moved ==
  ASSUME AuthorityInv, AuthorityTypeOK', NEW p \in Procs, ItsOwn(p), MovesOn(p),
         disk' = disk, losses' = losses
  PROVE  AuthorityInv'
<1>1. \A q \in Procs : q # p => /\ at'[q] = at[q] /\ found'[q] = found[q]
                                /\ serves'[q] = serves[q] /\ temp'[q] = temp[q]
  BY DEF ItsOwn
<1>2. \A q \in Procs : Raced(q) => Raced(q)'
  <2>1. \A r \in Procs : at[r] \notin Early => at'[r] \notin Early /\ found'[r] = found[r]
    BY <1>1 DEF MovesOn
  <2> QED BY <2>1, RivalStays DEF Raced, MovesOn
<1>3. Writers'
  <2>1. \A q \in Procs : q # p => Missing(q)' = Missing(q)
    BY <1>1 DEF Missing
  <2> QED BY <1>1, <2>1 DEF AuthorityInv, Writers, Filling, MovesOn
<1>4. StillThere'
  <2>1. \A q \in Procs : q # p => Agrees(q)' = Agrees(q)
    BY <1>1 DEF Agrees
  <2>2. at'[p] = "serving" => Agrees(p)' \/ Raced(p)
    BY DEF Agrees, MovesOn
  <2> QED BY <1>1, <1>2, <2>1, <2>2 DEF AuthorityInv, StillThere, MovesOn
<1>5. ServesOne'
  BY <1>1 DEF AuthorityInv, ServesOne, MovesOn
<1>6. PairWhole'
  BY DEF AuthorityInv, PairWhole, MovesOn
<1>7. ~overlapped' => Alone'
  BY <1>1 DEF AuthorityInv, Alone, Filling, Starting, MovesOn
<1> QED BY <1>3, <1>4, <1>5, <1>6, <1>7 DEF AuthorityInv

\* A start that read neither file changes one: whoever else had anything to do with the
\* files has a rival in it, and overlapped with it.
LEMMA FileChanged ==
  ASSUME AuthorityInv, AuthorityTypeOK', NEW p \in Procs, ItsOwn(p), at[p] \in Filling,
         found' = found, losses' = losses, overlapped' = overlapped,
         at'[p] \in {"certNext", "serving", "failed"},
         at'[p] = "certNext" => disk'[Key] = p /\ disk'[Cert] = disk[Cert],
         at'[p] = "serving" => /\ at[p] = "certWrite" /\ disk'[Cert] = p /\ disk'[Key] = disk[Key]
                               /\ serves'[p] = p,
         at'[p] = "failed" => disk'[Cert] = disk[Cert]
  PROVE  AuthorityInv'
<1>1. \A q \in Procs : q # p => /\ at'[q] = at[q] /\ serves'[q] = serves[q] /\ temp'[q] = temp[q]
  BY DEF ItsOwn
<1>2. Missing(p) = Paths /\ \A q \in Procs : Missing(q)' = Missing(q)
  BY DEF AuthorityInv, Writers, Missing
<1>3. \A q \in Procs : q # p => Rival(q)'
  BY <1>2 DEF Rival
<1>4. Raced(p) => Raced(p)'
  <2>1. \A r \in Procs : at[r] \notin Early => at'[r] \notin Early /\ found'[r] = found[r]
    BY <1>1 DEF Early
  <2> QED BY <2>1, RivalStays DEF Raced
<1>5. \A q \in Procs : q # p /\ at[q] \in Starting \cup {"serving"} => overlapped
  <2> SUFFICES ASSUME NEW q \in Procs, q # p, at[q] \in Starting \cup {"serving"}, ~overlapped
               PROVE  FALSE
    OBVIOUS
  <2>1. disk[Cert] = NoFile /\ at[q] \notin Starting
    BY DEF AuthorityInv, Alone, Filling, Starting
  <2>2. Agrees(q) /\ serves[q] # NoFile
    BY <2>1 DEF AuthorityInv, StillThere, ServesOne, Raced
  <2> QED BY <2>1, <2>2 DEF Agrees
<1>6. \A q \in Procs : q # p /\ at'[q] \in Starting \cup {"serving"} => Raced(q)'
  BY <1>1, <1>3, <1>5 DEF Raced
<1>7. p # NoFile /\ Cert # Key
  BY AuthorityAssumption
<1>8. Writers'
  BY <1>1, <1>2 DEF AuthorityInv, Writers, Filling
<1>9. StillThere'
  <2>1. at'[p] = "serving" => Agrees(p)' \/ Raced(p)'
    BY <1>4 DEF AuthorityInv, StillThere, Agrees
  <2> QED BY <1>6, <2>1 DEF StillThere, Starting
<1>10. ServesOne'
  BY <1>1, <1>7 DEF AuthorityInv, ServesOne
<1>11. PairWhole'
  <2>1. at'[p] = "serving" => disk'[Key] = disk'[Cert] \/ overlapped
    BY DEF AuthorityInv, StillThere, Raced
  <2>2. disk'[Cert] = disk[Cert] => disk[Cert] = NoFile \/ overlapped
    <3> CASE ~overlapped
      BY DEF AuthorityInv, Alone
    <3> QED OBVIOUS
  <2>3. NoFile \notin Procs
    BY AuthorityAssumption
  <2> QED BY <2>1, <2>2, <2>3 DEF PairWhole
<1>12. ~overlapped' => Alone'
  <2> SUFFICES ASSUME ~overlapped PROVE Alone'
    OBVIOUS
  <2>1. \A q \in Procs : q # p => at'[q] \notin Starting
    BY <1>1, <1>5
  <2>2. disk[Cert] = NoFile
    BY DEF AuthorityInv, Alone
  <2> QED BY <2>1, <2>2 DEF Alone, Filling, Starting
<1> QED BY <1>8, <1>9, <1>10, <1>11, <1>12 DEF AuthorityInv

\* What a step does not mention is as it was.
LEMMA Kept ==
  ASSUME AuthorityTypeOK, NEW p \in Procs
  PROVE  /\ temp[p] \in Temp /\ temp = [temp EXCEPT ![p] = temp[p]]
         /\ found[p] \in [Paths -> Contents] /\ found = [found EXCEPT ![p] = found[p]]
         /\ serves[p] \in Contents /\ serves = [serves EXCEPT ![p] = serves[p]]
<1>1. temp \in [Procs -> Temp] /\ found \in [Procs -> [Paths -> Contents]] /\ serves \in [Procs -> Contents]
  BY DEF AuthorityTypeOK
<1>2. temp[p] \in Temp /\ temp = [temp EXCEPT ![p] = temp[p]]
  BY <1>1
<1>3. found[p] \in [Paths -> Contents] /\ found = [found EXCEPT ![p] = found[p]]
  BY <1>1
<1>4. serves[p] \in Contents /\ serves = [serves EXCEPT ![p] = serves[p]]
  BY <1>1
<1> QED BY <1>2, <1>3, <1>4

\* What the lemmas on steps cite of the invariant.
LEMMA Known ==
  ASSUME AuthorityInv, NEW p \in Procs
  PROVE  /\ AuthorityTypeOK
         /\ disk \in [Paths -> Contents] /\ unsynced \in SUBSET Paths /\ overlapped \in BOOLEAN
         /\ Cert \in Paths /\ Key \in Paths /\ Cert # Key
         /\ p \in Contents /\ p # NoFile /\ NoFile \in Contents /\ NoTemp \in Temp
BY AuthorityAssumption DEF AuthorityInv, AuthorityTypeOK, Contents, NoTemp, Temp

\* A start reads, gives up, or is killed.
LEMMA ReadDone ==
  ASSUME AuthorityInv, NEW p \in Procs, Start(p) \/ ReadCert(p) \/ ReadKey(p) \/ Refuse(p) \/ Killed(p)
  PROVE  AuthorityInv' /\ disk' = disk
<1>1. UNCHANGED <<disk, settled, unsynced, temp, serves, losses>>
  BY DEF Start, ReadCert, ReadKey, Refuse, Killed, fileVars
<1>2. temp' = [temp EXCEPT ![p] = temp[p]] /\ serves' = [serves EXCEPT ![p] = serves[p]]
  BY <1>1, Known, Kept
<1>3. CASE Start(p)
  <2>1. /\ MoveTo(p, "readCert") /\ found' = [found EXCEPT ![p] = found[p]] /\ at[p] = "new"
        /\ overlapped' = (overlapped \/ \E q \in Procs : at[q] \in Starting)
    BY <1>3, Known, Kept DEF Start
  <2>2. AuthorityTypeOK' /\ ItsOwn(p) /\ at'[p] = "readCert" /\ found'[p] = found[p]
    <3>1. Changes(p, "readCert", temp[p], found[p], serves[p])
      BY <1>1, <1>2, <2>1, Known, Kept DEF Changes, Starting
    <3> QED BY <3>1, MovedTypes, Known
  <2>3. MovesOn(p)
    BY <1>1, <2>1, <2>2 DEF MovesOn, Early, Filling, Starting
  <2> QED BY <1>1, <2>3, <2>2, Moved
<1>4. CASE ReadCert(p)
  <2> DEFINE g == [found[p] EXCEPT ![Cert] = disk[Cert]]
  <2>1. g \in [Paths -> Contents] /\ g[Cert] = disk[Cert]
    BY Known, Kept
  <2>2. /\ MoveTo(p, "readKey") /\ found' = [found EXCEPT ![p] = g] /\ at[p] = "readCert"
        /\ overlapped' = overlapped
    BY <1>4 DEF ReadCert
  <2> HIDE DEF g
  <2>3. AuthorityTypeOK' /\ ItsOwn(p) /\ at'[p] = "readKey" /\ found'[p] = g
    <3>1. Changes(p, "readKey", temp[p], g, serves[p])
      BY <1>1, <1>2, <2>1, <2>2, Known, Kept DEF Changes, Starting
    <3> QED BY <3>1, MovedTypes, Known
  <2>4. MovesOn(p)
    BY <1>1, <2>1, <2>2, <2>3 DEF MovesOn, Early, Filling, Starting
  <2> QED BY <1>1, <2>4, <2>3, Moved
<1>5. CASE ReadKey(p)
  <2> DEFINE g == [found[p] EXCEPT ![Key] = disk[Key]]
  <2>1. g \in [Paths -> Contents] /\ g[Key] = disk[Key] /\ g[Cert] = found[p][Cert]
    BY Known, Kept
  <2>2. /\ MoveTo(p, "decide") /\ found' = [found EXCEPT ![p] = g] /\ at[p] = "readKey"
        /\ overlapped' = overlapped
    BY <1>5 DEF ReadKey
  <2> HIDE DEF g
  <2>3. AuthorityTypeOK' /\ ItsOwn(p) /\ at'[p] = "decide" /\ found'[p] = g
    <3>1. Changes(p, "decide", temp[p], g, serves[p])
      BY <1>1, <1>2, <2>1, <2>2, Known, Kept DEF Changes, Starting
    <3> QED BY <3>1, MovedTypes, Known
  <2>4. found[p][Cert] = disk[Cert] \/ Raced(p)
    BY <2>2 DEF AuthorityInv, StillThere
  <2>5. MovesOn(p)
    BY <1>1, <2>1, <2>2, <2>3, <2>4 DEF MovesOn, Early, Filling, Starting
  <2> QED BY <1>1, <2>5, <2>3, Moved
<1>6. CASE Refuse(p) \/ Killed(p)
  <2>1. PICK a \in {"failed", "dead"} : MoveTo(p, a)
    BY <1>6 DEF Refuse, Killed
  <2>2. found' = [found EXCEPT ![p] = found[p]] /\ overlapped' = overlapped
    BY <1>6, Known, Kept DEF Refuse, Killed
  <2>3. AuthorityTypeOK' /\ ItsOwn(p) /\ at'[p] = a /\ found'[p] = found[p]
    <3>1. Changes(p, a, temp[p], found[p], serves[p])
      BY <1>1, <1>2, <2>1, <2>2, Known, Kept DEF Changes, Starting
    <3> QED BY <3>1, MovedTypes, Known
  <2>4. MovesOn(p)
    BY <1>6, <2>1, <2>2, <2>3 DEF MovesOn, Early, Filling, Starting
  <2> QED BY <1>1, <2>4, <2>3, Moved
<1> QED BY <1>1, <1>3, <1>4, <1>5, <1>6

\* A start decides by what it read: it serves with a pair, or begins one of its own.
LEMMA DecideDone ==
  ASSUME AuthorityInv, NEW p \in Procs, Load(p) \/ Create(p)
  PROVE  AuthorityInv' /\ disk' = disk
<1>1. /\ UNCHANGED <<disk, settled, unsynced, losses, overlapped, found>> /\ at[p] = "decide"
      /\ found' = [found EXCEPT ![p] = found[p]]
  BY Known, Kept DEF Load, Create, CreateTemp, fileVars
<1>2. (found[p][Cert] = disk[Cert] /\ found[p][Key] = disk[Key]) \/ Raced(p)
  BY <1>1 DEF AuthorityInv, StillThere
<1>3. CASE Load(p)
  <2>1. /\ MoveTo(p, "serving") /\ temp' = [temp EXCEPT ![p] = temp[p]]
        /\ serves' = [serves EXCEPT ![p] = found[p][Cert]]
    BY <1>3, Known, Kept DEF Load, fileVars
  <2>2. found[p][Cert] \in Contents /\ found[p][Cert] # NoFile /\ found[p][Key] = found[p][Cert]
    BY <1>3, Known, Kept DEF Load, Missing
  <2>3. AuthorityTypeOK' /\ ItsOwn(p) /\ at'[p] = "serving" /\ serves'[p] = found[p][Cert]
    <3>1. Changes(p, "serving", temp[p], found[p], found[p][Cert])
      BY <1>1, <2>1, <2>2, Known, Kept DEF Changes
    <3> QED BY <3>1, MovedTypes, Known
  <2>4. MovesOn(p)
    BY <1>1, <1>2, <2>2, <2>3 DEF MovesOn, Early, Filling, Starting
  <2> QED BY <1>1, <2>4, <2>3, Moved
<1>4. CASE Create(p)
  <2> DEFINE t == [path |-> Key, data |-> p, at |-> "created", synced |-> FALSE]
  <2>1. t \in Temp /\ t.path = Key /\ t.data = p
    BY Known DEF Temp
  <2>2. /\ MoveTo(p, "keyWrite") /\ temp' = [temp EXCEPT ![p] = t]
        /\ serves' = [serves EXCEPT ![p] = serves[p]]
    BY <1>4, Known, Kept DEF Create, CreateTemp
  <2>3. Missing(p) = Paths /\ Missing(p)' = Missing(p) /\ found[p][Cert] = NoFile
    BY <1>1, <1>4, Known DEF Create, Missing
  <2> HIDE DEF t
  <2>4. AuthorityTypeOK' /\ ItsOwn(p) /\ at'[p] = "keyWrite" /\ temp'[p] = t /\ found'[p] = found[p]
    <3>1. Changes(p, "keyWrite", t, found[p], serves[p])
      BY <1>1, <2>1, <2>2, Known, Kept DEF Changes, Starting
    <3> QED BY <3>1, MovedTypes, Known
  <2>5. ~overlapped' => disk[Cert] = NoFile
    BY <1>1, <1>2, <2>3 DEF Raced
  <2>6. MovesOn(p)
    BY <1>1, <2>1, <2>3, <2>4, <2>5 DEF MovesOn, Early, Filling, Starting
  <2> QED BY <1>1, <2>6, <2>4, Moved
<1> QED BY <1>1, <1>3, <1>4

\* A temporary file is filled, synced or begun, or a call fails: no file changes.
LEMMA UnderWay ==
  ASSUME AuthorityInv, NEW p \in Procs, NEW a \in {"keyWrite", "certWrite", "undo", "failed"},
         MoveTo(p, a) \/ (at[p] = a /\ at' = at), at[p] \in Filling,
         UNCHANGED <<disk, settled, unsynced, found, serves, overlapped, losses>>,
         NEW t \in Temp, temp' = [temp EXCEPT ![p] = t],
         a = "keyWrite" => t.path = Key /\ t.data = p,
         a = "certWrite" => t.path = Cert /\ t.data = p /\ (disk[Key] = p \/ Raced(p))
  PROVE  AuthorityInv'
<1>1. MoveTo(p, a)
  BY DEF MoveTo, AuthorityInv, AuthorityTypeOK
<1>2. found' = [found EXCEPT ![p] = found[p]] /\ serves' = [serves EXCEPT ![p] = serves[p]]
  BY Known, Kept
<1>3. AuthorityTypeOK' /\ ItsOwn(p) /\ at'[p] = a /\ temp'[p] = t
  <2>1. Changes(p, a, t, found[p], serves[p])
    BY <1>1, <1>2, Known, Kept DEF Changes, Starting
  <2> QED BY <2>1, MovedTypes, Known
<1>4. Missing(p)' = Paths /\ at[p] \in Starting /\ at[p] \notin Early
  BY DEF AuthorityInv, Writers, Missing, Filling, Starting, Early
<1>5. ~overlapped => disk[Cert] = NoFile
  BY DEF AuthorityInv, Alone
<1>6. MovesOn(p)
  BY <1>3, <1>4, <1>5 DEF MovesOn, Early, Filling, Starting
<1> QED BY <1>3, <1>6, Moved

\* A temporary file is filled and synced under the name it has.
LEMMA WriteOnDone ==
  ASSUME AuthorityInv, NEW p \in Procs, WriteOn(p)
  PROVE  AuthorityInv' /\ disk' = disk
<1>1. PICK t \in Temp : /\ temp' = [temp EXCEPT ![p] = t]
                        /\ t.path = temp[p].path /\ t.data = temp[p].data
  <2>1. temp[p] \in Temp
    BY Known, Kept
  <2>2. CASE FillTemp(p)
    <3> DEFINE t == [temp[p] EXCEPT !.at = "filled"]
    <3>1. t \in Temp /\ t.path = temp[p].path /\ t.data = temp[p].data
      BY <2>1 DEF Temp
    <3>2. temp' = [temp EXCEPT ![p] = t]
      BY <2>2 DEF FillTemp
    <3> QED BY <3>1, <3>2
  <2>3. CASE CloseTemp(p)
    <3> DEFINE t == [[temp[p] EXCEPT !.at = "closed"] EXCEPT !.synced = TRUE]
    <3>1. t \in Temp /\ t.path = temp[p].path /\ t.data = temp[p].data
      BY <2>1 DEF Temp
    <3>2. temp' = [temp EXCEPT ![p] = t]
      BY <2>1, <2>3, Known DEF CloseTemp, AuthorityTypeOK
    <3> QED BY <3>1, <3>2
  <2> QED BY <2>2, <2>3 DEF WriteOn, Writing
<1>2. UNCHANGED <<disk, settled, unsynced, at, found, serves, overlapped, losses>>
  BY DEF WriteOn, Writing, FillTemp, CloseTemp, startVars
<1>3. /\ at[p] \in {"keyWrite", "certWrite"} /\ at[p] \in Filling
      /\ at[p] = "keyWrite" => t.path = Key /\ t.data = p
      /\ at[p] = "certWrite" => t.path = Cert /\ t.data = p /\ (disk[Key] = p \/ Raced(p))
  BY <1>1 DEF WriteOn, AuthorityInv, Writers, StillThere, Filling
<1> QED BY <1>1, <1>2, <1>3, UnderWay

\* A call fails, and the temporary file is removed or left; or the second file is begun.
LEMMA NotRenamedDone ==
  ASSUME AuthorityInv, NEW p \in Procs, KeyFails(p) \/ BeginCert(p) \/ CertFails(p)
  PROVE  AuthorityInv' /\ disk' = disk
<1>1. UNCHANGED <<disk, settled, unsynced, found, serves, overlapped, losses>> /\ at[p] \in Filling
  BY DEF KeyFails, BeginCert, CertFails, GiveUp, CreateTemp, fileVars, Filling
<1>2. CASE BeginCert(p)
  <2> DEFINE t == [path |-> Cert, data |-> p, at |-> "created", synced |-> FALSE]
  <2>1. t \in Temp /\ t.path = Cert /\ t.data = p
    BY Known DEF Temp
  <2>2. temp' = [temp EXCEPT ![p] = t] /\ MoveTo(p, "certWrite") /\ (disk[Key] = p \/ Raced(p))
    BY <1>2 DEF BeginCert, CreateTemp, AuthorityInv, StillThere
  <2> HIDE DEF t
  <2> QED BY <1>1, <2>1, <2>2, UnderWay
<1>3. CASE KeyFails(p) \/ CertFails(p)
  <2>1. PICK t \in Temp : temp' = [temp EXCEPT ![p] = t]
    <3>1. CASE GiveUp(p)
      <4>1. [temp[p] EXCEPT !.at = "left"] \in Temp
        BY Known, Kept DEF Temp
      <4> QED BY <3>1, <4>1, Known DEF GiveUp
    <3>2. CASE UNCHANGED fileVars
      BY <3>2, Known, Kept DEF fileVars
    <3> QED BY <1>3, <3>1, <3>2 DEF KeyFails, CertFails
  <2>2. PICK a \in {"undo", "failed"} : MoveTo(p, a)
    BY <1>3 DEF KeyFails, CertFails
  <2> QED BY <1>1, <2>1, <2>2, UnderWay
<1> QED BY <1>1, <1>2, <1>3

\* Both renames, and the removal of a key without its certificate.
LEMMA FileDone ==
  ASSUME AuthorityInv, NEW p \in Procs, KeyWritten(p) \/ CertWritten(p) \/ Undo(p)
  PROVE  /\ AuthorityInv' /\ losses' = losses
         /\ Missing(p) = Paths /\ at[p] \in {"keyWrite", "certWrite", "undo"} /\ at'[p] # at[p]
         /\ disk[Cert] = NoFile \/ overlapped
<1>1. /\ at[p] \in Filling /\ UNCHANGED <<settled, found, overlapped, losses>>
      /\ found' = [found EXCEPT ![p] = found[p]] /\ at[p] \in {"keyWrite", "certWrite", "undo"}
  BY Known, Kept DEF KeyWritten, CertWritten, Undo, Rename, Filling
<1>2. Missing(p) = Paths /\ (disk[Cert] = NoFile \/ overlapped)
  BY <1>1 DEF AuthorityInv, Writers, Alone
<1>3. CASE KeyWritten(p)
  <2>1. /\ disk' = [disk EXCEPT ![Key] = p] /\ temp' = [temp EXCEPT ![p] = NoTemp]
        /\ unsynced' \in SUBSET Paths /\ MoveTo(p, "certNext") /\ at[p] = "keyWrite"
        /\ serves' = [serves EXCEPT ![p] = serves[p]]
    <3>1. temp[p].path = Key /\ temp[p].data = p /\ Rename(p) /\ at[p] = "keyWrite" /\ serves' = serves
      BY <1>3 DEF KeyWritten, AuthorityInv, Writers
    <3> QED BY <1>3, <3>1, Known, Kept DEF KeyWritten, Rename
  <2>2. disk' \in [Paths -> Contents] /\ disk'[Key] = p /\ disk'[Cert] = disk[Cert]
    BY <2>1, Known
  <2>3. AuthorityTypeOK' /\ ItsOwn(p) /\ at'[p] = "certNext"
    <3>1. Changes(p, "certNext", NoTemp, found[p], serves[p])
      BY <1>1, <2>1, <2>2, Known, Kept DEF Changes, Starting
    <3> QED BY <3>1, MovedTypes, Known
  <2> QED BY <1>1, <1>2, <2>1, <2>2, <2>3, FileChanged
<1>4. CASE CertWritten(p)
  <2>1. /\ disk' = [disk EXCEPT ![Cert] = p] /\ temp' = [temp EXCEPT ![p] = NoTemp]
        /\ unsynced' \in SUBSET Paths /\ MoveTo(p, "serving") /\ at[p] = "certWrite"
        /\ serves' = [serves EXCEPT ![p] = p]
    <3>1. temp[p].path = Cert /\ temp[p].data = p /\ Rename(p) /\ at[p] = "certWrite"
      BY <1>4 DEF CertWritten, AuthorityInv, Writers
    <3> QED BY <1>4, <3>1, Known DEF CertWritten, Rename
  <2>2. disk' \in [Paths -> Contents] /\ disk'[Cert] = p /\ disk'[Key] = disk[Key]
    BY <2>1, Known
  <2>3. AuthorityTypeOK' /\ ItsOwn(p) /\ at'[p] = "serving" /\ serves'[p] = p
    <3>1. Changes(p, "serving", NoTemp, found[p], p)
      BY <1>1, <2>1, <2>2, Known, Kept DEF Changes
    <3> QED BY <3>1, MovedTypes, Known
  <2> QED BY <1>1, <1>2, <2>1, <2>2, <2>3, FileChanged
<1>5. CASE Undo(p)
  <2>1. /\ disk' \in {[disk EXCEPT ![Key] = NoFile], disk} /\ MoveTo(p, "failed") /\ at[p] = "undo"
        /\ temp' = [temp EXCEPT ![p] = temp[p]] /\ serves' = [serves EXCEPT ![p] = serves[p]]
        /\ unsynced' \in SUBSET Paths
    BY <1>5, Known, Kept DEF Undo
  <2>2. disk' \in [Paths -> Contents] /\ disk'[Cert] = disk[Cert]
    BY <2>1, Known
  <2>3. AuthorityTypeOK' /\ ItsOwn(p) /\ at'[p] = "failed"
    <3>1. Changes(p, "failed", temp[p], found[p], serves[p])
      BY <1>1, <2>1, <2>2, Known, Kept DEF Changes
    <3> QED BY <3>1, MovedTypes, Known
  <2> QED BY <1>1, <1>2, <2>1, <2>2, <2>3, FileChanged
<1> QED BY <1>3, <1>4, <1>5

\* Only what would settle changes.
LEMMA Unmoved ==
  ASSUME AuthorityInv, UNCHANGED <<disk, unsynced, temp, at, found, serves, overlapped, losses>>,
         settled' \in [Paths -> Contents]
  PROVE  AuthorityInv'
<1>1. AuthorityTypeOK'
  BY DEF AuthorityInv, AuthorityTypeOK, Temp, Contents, Starting
<1>2. Writers'
  BY DEF AuthorityInv, Writers, Missing, Filling
<1>3. StillThere'
  BY DEF AuthorityInv, StillThere, Raced, Rival, Missing, Agrees
<1>4. ServesOne' /\ PairWhole' /\ (~overlapped' => Alone')
  BY DEF AuthorityInv, ServesOne, PairWhole, Alone, Filling, Starting
<1> QED BY <1>1, <1>2, <1>3, <1>4 DEF AuthorityInv

\* When the power fails everybody stops; a path that settles changes no file.
LEMMA MachineDone ==
  ASSUME AuthorityInv, PowerFails \/ SettleFile
  PROVE  AuthorityInv' /\ (disk' = disk \/ losses' # losses)
<1>1. CASE PowerFails
  <2>1. /\ losses' = losses + 1 /\ losses \in Nat /\ UNCHANGED <<temp, found, serves, overlapped>>
        /\ unsynced' = {} /\ settled' = disk'
        /\ at' = [p \in Procs |-> IF at[p] \in Starting \cup {"serving"} THEN "dead" ELSE at[p]]
    BY <1>1 DEF PowerFails, PowerLoss, AuthorityInv, AuthorityTypeOK
  <2>2. disk' \in [Paths -> Contents]
    <3>1. PICK kept \in SUBSET Paths :
            disk' = [f \in Paths |-> IF f \notin kept THEN settled[f]
                                     ELSE IF f \in unsynced THEN Torn ELSE disk[f]]
      BY <1>1 DEF PowerFails, PowerLoss
    <3>2. disk \in [Paths -> Contents] /\ settled \in [Paths -> Contents] /\ Torn \in Contents
      BY DEF AuthorityInv, AuthorityTypeOK, Contents
    <3> QED BY <3>1, <3>2
  <2>3. at' \in [Procs -> Starting \cup {"new", "failed", "serving", "dead"}]
        /\ \A q \in Procs : at'[q] \notin Starting \cup {"serving"}
    BY <2>1 DEF AuthorityInv, AuthorityTypeOK, Starting
  <2>4. AuthorityTypeOK'
    BY <2>1, <2>2, <2>3 DEF AuthorityInv, AuthorityTypeOK, Temp, Contents, Starting
  <2>5. Writers' /\ StillThere' /\ ServesOne' /\ Alone'
    BY <2>3 DEF Writers, StillThere, ServesOne, Alone, Filling, Starting
  <2>6. losses' # losses /\ PairWhole'
    BY <2>1 DEF PairWhole
  <2> QED BY <2>4, <2>5, <2>6 DEF AuthorityInv
<1>2. CASE SettleFile
  <2>1. UNCHANGED <<disk, unsynced, temp, at, found, serves, overlapped, losses>>
    BY <1>2 DEF SettleFile, Settle, startVars
  <2>2. settled' \in [Paths -> Contents]
    BY <1>2 DEF SettleFile, Settle, AuthorityInv, AuthorityTypeOK
  <2> QED BY <2>1, <2>2, Unmoved
<1> QED BY <1>1, <1>2

\* Every step keeps the invariant, and once there is a certificate only a power failure or
\* a start that overlapped another and had read neither file changes one.
LEMMA AuthorityStep ==
  AuthorityInv /\ [AuthorityNext]_authorityVars =>
    AuthorityInv' /\ (disk[Cert] # NoFile /\ disk' # disk =>
      \/ losses' # losses
      \/ overlapped /\ \E p \in Procs :
           Missing(p) = Paths /\ at[p] \in {"keyWrite", "certWrite", "undo"} /\ at'[p] # at[p])
<1> DEFINE OnlySo == disk[Cert] # NoFile /\ disk' # disk =>
      \/ losses' # losses
      \/ overlapped /\ \E p \in Procs :
           Missing(p) = Paths /\ at[p] \in {"keyWrite", "certWrite", "undo"} /\ at'[p] # at[p]
<1> SUFFICES ASSUME AuthorityInv, [AuthorityNext]_authorityVars PROVE AuthorityInv' /\ OnlySo
  OBVIOUS
<1>1. ASSUME NEW p \in Procs, StartStep(p) PROVE AuthorityInv' /\ OnlySo
  BY <1>1, ReadDone, DecideDone, WriteOnDone, NotRenamedDone, FileDone DEF StartStep
<1>2. CASE UNCHANGED authorityVars
  <2>1. UNCHANGED <<disk, settled, unsynced, temp, at, found, serves, overlapped, losses>>
    BY <1>2 DEF authorityVars, startVars, fileVars
  <2>2. settled \in [Paths -> Contents]
    BY DEF AuthorityInv, AuthorityTypeOK
  <2> QED BY <2>1, <2>2, Unmoved
<1> QED BY <1>1, <1>2, MachineDone DEF AuthorityNext

-----------------------------------------------------------------------------
(* Its theorems. *)

\* The invariant holds however starts of the proxy overlap.
THEOREM AuthorityInductive == AuthoritySpec => []AuthorityInv
<1>1. AuthorityInit => AuthorityInv
  BY AuthorityInitHolds
<1>2. AuthorityInv /\ [AuthorityNext]_authorityVars => AuthorityInv'
  BY AuthorityStep
<1> QED BY <1>1, <1>2, PTL DEF AuthoritySpec

\* Whoever serves does so with the authority in the two files unless starts overlapped and
\* another had read neither file, and no start that died leaves a certificate without its
\* key unless starts overlapped or the power failed.
THEOREM ServesWhatIsThere == AuthoritySpec => []OneAuthority
<1>1. AuthorityInv => OneAuthority
  BY DEF AuthorityInv, StillThere, PairWhole, Raced, OneAuthority
<1> QED BY <1>1, AuthorityInductive, PTL

\* Once there is a certificate somebody may trust, only a power failure or a start that
\* overlapped another and had read neither file changes either file.
THEOREM CertificateStays == AuthoritySpec => TrustedStays
<1>1. AuthorityInv /\ [AuthorityNext]_authorityVars =>
        [disk[Cert] # NoFile /\ disk' # disk =>
           \/ losses' # losses
           \/ overlapped /\ \E p \in Procs :
                Missing(p) = Paths /\ at[p] \in {"keyWrite", "certWrite", "undo"} /\ at'[p] # at[p]]_authorityVars
  BY AuthorityStep
<1> QED BY <1>1, AuthorityInductive, PTL DEF AuthoritySpec, TrustedStays
==============================================================================
