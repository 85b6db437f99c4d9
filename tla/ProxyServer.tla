------------------------------ MODULE ProxyServer ------------------------------
(***************************************************************************)
(* The MITM proxy (src/proxy/proxy.go): the accept loop, one goroutine per *)
(* connection, and any number of callers of Close.  A step is what a       *)
(* goroutine does between two points where another can act; a section of   *)
(* code under Server.mu is one step.  The certificates of CONNECT come     *)
(* from LeafCache.                                                         *)
(***************************************************************************)
EXTENDS LeafCache

CONSTANTS Conns,        \* the connections clients open
          Closers,      \* the callers of Close
          None,         \* no connection
          MaxRequests   \* how many requests a client sends on a connection

ASSUME ProxyAssumption == /\ IsFiniteSet(Conns)
                          /\ None \notin Conns
                          /\ MaxRequests \in Nat

VARIABLES listening,    \* the listener is open
          acceptor,     \* "wait", "got" (Accept returned accepted), "done"
          accepted,     \* the connection Accept returned
          phase,        \* where the goroutine of each connection is
          open,         \* connections whose server end is open
          peer,         \* connections whose client end is open
          requests,     \* requests read from each connection
          tunnel,       \* connections that speak TLS since their CONNECT
          conns,        \* Server.conns
          closed,       \* Server.closed
          wg,           \* the counter of Server.wg
          once,         \* Server.closeOnce: "unused", "running", "done"
          snapshot,     \* what Close has still to close
          closer        \* where each caller of Close is

acceptVars == <<listening, acceptor, accepted>>
connVars   == <<phase, open, peer, requests, tunnel>>
closeVars  == <<closed, once, snapshot, closer>>
vars       == <<acceptVars, connVars, conns, wg, closeVars, leafVars>>

Phases == {"none", "backlog", "accepted", "start", "read", "handshake", "do", "write", "reject", "leave",
           "finish", "done"}

Init == /\ listening = TRUE
        /\ acceptor = "wait"
        /\ accepted = None
        /\ phase = [c \in Conns |-> "none"]
        /\ open = {}
        /\ peer = {}
        /\ requests = [c \in Conns |-> 0]
        /\ tunnel = {}
        /\ conns = {}
        /\ closed = FALSE
        /\ wg = 1
        /\ once = "unused"
        /\ snapshot = {}
        /\ closer = [k \in Closers |-> "idle"]
        /\ LeafInit

-----------------------------------------------------------------------------
(* The clients.                                                            *)

Dial(c) == /\ listening
           /\ phase[c] = "none"
           /\ phase' = [phase EXCEPT ![c] = "backlog"]
           /\ open' = open \cup {c}
           /\ peer' = peer \cup {c}
           /\ UNCHANGED <<requests, tunnel, acceptVars, conns, wg, closeVars, leafVars>>

HangUp(c) == /\ c \in peer
             /\ peer' = peer \ {c}
             /\ UNCHANGED <<phase, open, requests, tunnel, acceptVars, conns, wg, closeVars, leafVars>>

-----------------------------------------------------------------------------
(* accept()                                                                *)

Accept == /\ acceptor = "wait"
          /\ listening
          /\ \E c \in Conns : /\ phase[c] = "backlog"
                              /\ accepted' = c
                              /\ phase' = [phase EXCEPT ![c] = "accepted"]
          /\ acceptor' = "got"
          /\ UNCHANGED <<listening, open, peer, requests, tunnel, conns, wg, closeVars, leafVars>>

\* Mutants: a handler the WaitGroup does not count; the connection of the last
\* round of the loop is kept.
SpawnUncounted == /\ acceptor = "got"
                  /\ phase' = [phase EXCEPT ![accepted] = "start"]
                  /\ acceptor' = "wait"
                  /\ accepted' = None
                  /\ UNCHANGED <<wg, listening, open, peer, requests, tunnel, conns, closeVars, leafVars>>

\* wg.Add(1) and the go statement.
Spawn == /\ acceptor = "got"
         /\ wg' = wg + 1
         /\ phase' = [phase EXCEPT ![accepted] = "start"]
         /\ acceptor' = "wait"
         /\ accepted' = None
         /\ UNCHANGED <<listening, open, peer, requests, tunnel, conns, closeVars, leafVars>>

\* On any error: the listener is closed, or the system refuses.
AcceptFails == /\ acceptor = "wait"
               /\ acceptor' = "done"
               /\ wg' = wg - 1
               /\ UNCHANGED <<listening, accepted, connVars, conns, closeVars, leafVars>>

-----------------------------------------------------------------------------
(* handle(), serveConnect() and forward()                                  *)

handlerOthers == <<acceptVars, closeVars>>

Goto(c, p) == phase' = [phase EXCEPT ![c] = p]

\* Mutant: registered without asking whether the server is still open.
TrackAlways(c) == /\ phase[c] = "start"
                  /\ Goto(c, "read")
                  /\ conns' = conns \cup {c}
                  /\ UNCHANGED <<open, peer, requests, tunnel, wg, handlerOthers, leafVars>>

Track(c) == /\ phase[c] = "start"
            /\ IF closed
               THEN Goto(c, "finish") /\ open' = open \ {c} /\ UNCHANGED conns
               ELSE Goto(c, "read") /\ conns' = conns \cup {c} /\ UNCHANGED open
            /\ UNCHANGED <<peer, requests, tunnel, wg, handlerOthers, leafVars>>

Connected(c) == c \in open /\ c \in peer

\* http.ReadRequest, and what the request asks for: something to forward,
\* something whose body is over the limit, or a tunnel, once per connection.
ReadRequest(c) ==
  /\ phase[c] = "read"
  /\ Connected(c)
  /\ requests[c] < MaxRequests
  /\ requests' = [requests EXCEPT ![c] = @ + 1]
  /\ \/ Goto(c, "do") /\ UNCHANGED leafVars
     \/ Goto(c, "reject") /\ UNCHANGED leafVars
     \/ /\ c \notin tunnel
        /\ \E h \in Hosts : \/ LeafFor(h) /\ Goto(c, "handshake")
                            \/ LeafFails(h) /\ Goto(c, "leave")
  /\ UNCHANGED <<open, peer, tunnel, conns, wg, handlerOthers>>

\* The client may refuse the certificate; afterwards requests are read over TLS.
Handshake(c) == /\ phase[c] = "handshake"
                /\ Connected(c)
                /\ \/ Goto(c, "read") /\ tunnel' = tunnel \cup {c}
                   \/ Goto(c, "leave") /\ UNCHANGED tunnel
                /\ UNCHANGED <<open, peer, requests, conns, wg, handlerOthers, leafVars>>

\* Client.Do returns, with a response or an error (502); nothing cancels it.
Do(c) == /\ phase[c] = "do"
         /\ Goto(c, "write")
         /\ UNCHANGED <<open, peer, requests, tunnel, conns, wg, handlerOthers, leafVars>>

WriteResponse(c) == /\ phase[c] = "write"
                    /\ Connected(c)
                    /\ Goto(c, "read")
                    /\ UNCHANGED <<open, peer, requests, tunnel, conns, wg, handlerOthers, leafVars>>

\* 413, after which the connection ends.
TooLarge(c) == /\ phase[c] = "reject"
               /\ Connected(c)
               /\ Goto(c, "leave")
               /\ UNCHANGED <<open, peer, requests, tunnel, conns, wg, handlerOthers, leafVars>>

\* A read or write fails at an end that is closed ...
Broken(c) == /\ phase[c] \in {"read", "handshake", "write", "reject"}
             /\ ~Connected(c)
             /\ Goto(c, "leave")
             /\ UNCHANGED <<open, peer, requests, tunnel, conns, wg, handlerOthers, leafVars>>

\* ... and when the peer has been silent for the idle time.
IdleTimeout(c) == /\ phase[c] \in {"read", "handshake", "write", "reject"}
                  /\ Goto(c, "leave")
                  /\ UNCHANGED <<open, peer, requests, tunnel, conns, wg, handlerOthers, leafVars>>

\* Mutant: the connection is closed and stays in the set.
ForgetNothing(c) == /\ phase[c] = "leave"
                    /\ open' = open \ {c}
                    /\ Goto(c, "finish")
                    /\ UNCHANGED <<peer, requests, tunnel, conns, wg, handlerOthers, leafVars>>

Forget(c) == /\ phase[c] = "leave"
             /\ conns' = conns \ {c}
             /\ open' = open \ {c}
             /\ Goto(c, "finish")
             /\ UNCHANGED <<peer, requests, tunnel, wg, handlerOthers, leafVars>>

Finish(c) == /\ phase[c] = "finish"
             /\ wg' = wg - 1
             /\ Goto(c, "done")
             /\ UNCHANGED <<open, peer, requests, tunnel, conns, handlerOthers, leafVars>>

-----------------------------------------------------------------------------
(* Close()                                                                 *)

closeOthers == <<acceptor, accepted, connVars, conns, leafVars>>

\* closeOnce.Do: the first caller runs the body.  Closing the listener resets
\* what is still in its backlog.
CloseBegin(k) ==
  /\ closer[k] = "idle"
  /\ once = "unused"
  /\ once' = "running"
  /\ listening' = FALSE
  /\ phase' = [c \in Conns |-> IF phase[c] = "backlog" THEN "done" ELSE phase[c]]
  /\ open' = open \ {c \in Conns : phase[c] = "backlog"}
  /\ closer' = [closer EXCEPT ![k] = "snapshot"]
  /\ UNCHANGED <<acceptor, accepted, peer, requests, tunnel, conns, leafVars, wg, closed, snapshot>>

\* Mutant: a flag instead of the Once, so a second caller does not wait.
CloseAgainAtOnce(k) ==
  /\ closer[k] = "idle"
  /\ once # "unused"
  /\ closer' = [closer EXCEPT ![k] = "returned"]
  /\ UNCHANGED <<closeOthers, listening, wg, closed, once, snapshot>>

\* Every other caller waits until the body has run.
CloseAgain(k) ==
  /\ closer[k] = "idle"
  /\ once = "done"
  /\ closer' = [closer EXCEPT ![k] = "returned"]
  /\ UNCHANGED <<closeOthers, listening, wg, closed, once, snapshot>>

TakeSnapshot(k) ==
  /\ closer[k] = "snapshot"
  /\ closed' = TRUE
  /\ snapshot' = conns
  /\ closer' = [closer EXCEPT ![k] = "closing"]
  /\ UNCHANGED <<closeOthers, listening, wg, once>>

CloseConn(k) ==
  /\ closer[k] = "closing"
  /\ \E c \in snapshot : /\ snapshot' = snapshot \ {c}
                         /\ open' = open \ {c}
  /\ UNCHANGED <<acceptVars, phase, peer, requests, tunnel, conns, wg, closed, once, closer, leafVars>>

CloseWaited(k) ==
  /\ closer[k] = "closing"
  /\ snapshot = {}
  /\ wg = 0
  /\ once' = "done"
  /\ closer' = [closer EXCEPT ![k] = "returned"]
  /\ UNCHANGED <<closeOthers, listening, wg, closed, snapshot>>

-----------------------------------------------------------------------------
\* The steps of a handler that wait for nobody but the program itself.
HandlerStep(c) == Track(c) \/ Do(c) \/ Broken(c) \/ Forget(c) \/ Finish(c)

\* The steps that wait for the client.
PeerStep(c) == ReadRequest(c) \/ Handshake(c) \/ WriteResponse(c) \/ TooLarge(c) \/ IdleTimeout(c)

AcceptStep == Accept \/ Spawn \/ AcceptFails

CloseStep(k) == CloseBegin(k) \/ CloseAgain(k) \/ TakeSnapshot(k) \/ CloseConn(k) \/ CloseWaited(k)

Next == \/ AcceptStep
        \/ \E c \in Conns : Dial(c) \/ HangUp(c) \/ HandlerStep(c) \/ PeerStep(c)
        \/ \E k \in Closers : CloseStep(k)

Spec == Init /\ [][Next]_vars

\* Goroutines are scheduled and Client.Do returns (the client has a timeout); a
\* caller that began to close goes on.  Nothing is assumed of the clients, and
\* the idle timeout, half a minute away, is not relied on.
Fairness == /\ WF_vars(Spawn \/ (~listening /\ AcceptFails))
            /\ \A c \in Conns : WF_vars(HandlerStep(c))
            /\ \A k \in Closers : WF_vars(closer[k] # "idle" /\ CloseStep(k))

FairSpec == Spec /\ Fairness

-----------------------------------------------------------------------------
Handling(c) == phase[c] \notin {"none", "backlog", "accepted", "done"}

Handlers == {c \in Conns : Handling(c)}

\* Every field keeps its type.
TypeOK ==
  /\ listening \in BOOLEAN /\ closed \in BOOLEAN
  /\ acceptor \in {"wait", "got", "done"}
  /\ accepted \in Conns \cup {None}
  /\ acceptor = "got" <=> accepted # None
  /\ phase \in [Conns -> Phases]
  /\ open \subseteq Conns /\ peer \subseteq Conns /\ conns \subseteq Conns /\ snapshot \subseteq Conns
  /\ requests \in [Conns -> 0..MaxRequests]
  /\ tunnel \subseteq Conns
  /\ wg \in Nat
  /\ once \in {"unused", "running", "done"}
  /\ closer \in [Closers -> {"idle", "snapshot", "closing", "returned"}]

\* The WaitGroup counts the goroutines: the accept loop and the handlers.  It is
\* never raised from zero, where Wait may already have returned.
WaitGroupExact ==
  /\ wg = Cardinality(Handlers) + (IF acceptor = "done" THEN 0 ELSE 1)
  /\ acceptor = "got" => wg > 0

\* No handler slips behind Close: once the snapshot is taken, a connection that
\* is tracked and open is one Close is about to close.
NoneSlipsBehind ==
  \A k \in Closers : closer[k] = "closing" => conns \cap open \subseteq snapshot

\* When any caller of Close has returned, the first or a later one, there is no
\* goroutine left, and no connection that was accepted is open.
CloseLeavesNothing ==
  \A k \in Closers : closer[k] = "returned" =>
    /\ acceptor = "done"
    /\ \A c \in Conns : ~Handling(c) /\ phase[c] # "accepted" /\ c \notin open
    /\ conns = {}

\* Close returns even when every client keeps its connection open and is silent.
CloseReturns == \A k \in Closers : closer[k] # "idle" ~> closer[k] = "returned"

\* A connection whose client hung up is let go of, by its goroutine and by conns.
HungUpIsForgotten ==
  \A c \in Conns : (c \in conns /\ c \notin peer) ~> (c \notin conns /\ phase[c] = "done")
===============================================================================
