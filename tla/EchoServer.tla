------------------------------ MODULE EchoServer ------------------------------
(***************************************************************************)
(* The echo server (src/echo/server.go, h1.go, h2.go): connections to its  *)
(* two listeners, the navigations it files reports under, the queue of     *)
(* completed captures that Await serves; with the callers that have        *)
(* launched a browser and wait for it (measureBrowserNavigation of         *)
(* src/measure.go).  A section of code under Server.mu or Session.mu is    *)
(* one step.  A session is its connection.                                 *)
(*                                                                         *)
(* navigations, navigationByID and nextNavigation grow together, so they   *)
(* are one sequence: the token of a navigation is its index in it.         *)
(***************************************************************************)
EXTENDS Naturals, Sequences, FiniteSets

CONSTANTS Conns,         \* connections to the main listener
          CaptureConns,  \* connections to the HTTP/1.1 listener
          Callers,       \* calls of measureBrowserNavigation
          Owner,         \* the browser that opens each connection
          Launches,      \* the browser each caller launches
          None,          \* no connection, no browser
          MaxRequests    \* how many requests come over each connection

Sessions == Conns \cup CaptureConns
Browsers == {Launches[w] : w \in Callers}

ASSUME EchoAssumption == /\ Conns \cap CaptureConns = {}
                         /\ Owner \in [Sessions -> Browsers]
                         /\ None \notin Sessions \cup Browsers
                         /\ MaxRequests \in [Conns -> Nat]

VARIABLES closed,        \* Server.closed
          phase,         \* where the handler of each connection is
          requests,      \* requests read from each connection
          first,         \* Session.http2: the first request, "document" or "other"
          target,        \* the session a report is being filed under
          navigations,   \* Server.navigations
          pages,         \* sessions filed there for the page they loaded
          http1,         \* Session.http1: the connection the request came over
          navigator,     \* Session.navigator: the browser it describes
          completed,     \* Server.completed
          woken,         \* callers whose ready channel has been closed
          caller,        \* where each caller is
          result,        \* the session each caller got from Await
          running,       \* the browsers that run
          tokens         \* the tokens each browser has been given

connVars == <<phase, requests, first, target>>
filing   == <<navigations, pages, http1, navigator>>
waiting  == <<completed, woken, caller, result, running>>
vars     == <<closed, connVars, filing, waiting, tokens>>

Init == /\ closed = FALSE
        /\ phase = [c \in Sessions |-> "read"]
        /\ requests = [c \in Conns |-> 0]
        /\ first = [c \in Conns |-> None]
        /\ target = [c \in Sessions |-> None]
        /\ navigations = <<>> /\ pages = {}
        /\ http1 = [c \in Sessions |-> None]
        /\ navigator = [c \in Sessions |-> None]
        /\ completed = <<>> /\ woken = {}
        /\ caller = [w \in Callers |-> "looking"]
        /\ result = [w \in Callers |-> None]
        /\ running = Browsers
        /\ tokens = [b \in Browsers |-> {}]

Goto(c, p) == phase' = [phase EXCEPT ![c] = p]

-----------------------------------------------------------------------------
(* Requests on the main listener: route().  The response is written by the *)
(* goroutine that read the request and seen by its browser alone, so it is *)
(* part of the last step; a page that is lost is one never reported from.  *)
(* These connections have negotiated HTTP/2.                               *)

\* The token of the session's own navigation, 0 when it has none.
Token(c) == IF \E t \in DOMAIN navigations : navigations[t] = c
            THEN CHOOSE t \in DOMAIN navigations : navigations[t] = c
            ELSE 0

\* The first request of a connection is kept, whatever it is.
RecordRequest(c, kind) == first' = [first EXCEPT ![c] = IF @ = None THEN kind ELSE @]

\* A request over a connection its browser still uses.
ReadRequest(c, kind) ==
  /\ c \in Conns
  /\ phase[c] = "read"
  /\ Owner[c] \in running
  /\ requests[c] < MaxRequests[c]
  /\ requests' = [requests EXCEPT ![c] = @ + 1]
  /\ RecordRequest(c, kind)

\* The page with token t reaches the browser.
Serve(c, t) == tokens' = [tokens EXCEPT ![Owner[c]] = @ \cup {t}]

\* GET /: setNavigation.  A connection keeps the navigation it has; a token in
\* the URL is the return from the HTTP/1.1 hop (or unknown, and refused) and the
\* page gets it back; otherwise it is a new one.
Load(c) ==
  /\ ReadRequest(c, "document")
  /\ \/ /\ Token(c) # 0
        /\ Serve(c, Token(c))
        /\ UNCHANGED <<navigations, pages>>
     \/ /\ Token(c) = 0
        /\ UNCHANGED <<navigations, pages, tokens>>
     \/ /\ Token(c) = 0
        /\ navigations' = Append(navigations, c)
        /\ pages' = pages \cup {c}
        /\ Serve(c, Len(navigations'))
  /\ UNCHANGED <<phase, target, http1, navigator, closed, waiting>>

\* Mutant of captureSession: whatever the token says, the report is filed under
\* the navigation that came last.
CollectForLast(c) ==
  /\ ReadRequest(c, "other")
  /\ navigations # <<>>
  /\ target' = [target EXCEPT ![c] = navigations[Len(navigations)]]
  /\ Goto(c, "navigator")
  /\ UNCHANGED <<filing, closed, waiting, tokens>>

\* POST /collect: captureSession.  Without a token the report is filed under the
\* connection's own navigation, and the connection becomes one if it is none.
Collect(c) ==
  /\ ReadRequest(c, "other")
  /\ \E t \in tokens[Owner[c]] \cup {0} :
       /\ target' = [target EXCEPT ![c] = IF t = 0 THEN c ELSE navigations[t]]
       /\ navigations' = IF t = 0 /\ Token(c) = 0 THEN Append(navigations, c) ELSE navigations
  /\ Goto(c, "navigator")
  /\ UNCHANGED <<pages, http1, navigator, closed, waiting, tokens>>

SetNavigator(c) ==
  /\ phase[c] = "navigator"
  /\ navigator' = [navigator EXCEPT ![target[c]] = Owner[c]]
  /\ Goto(c, "complete")
  /\ UNCHANGED <<requests, first, target, navigations, pages, http1, closed, waiting, tokens>>

\* /api/all, /favicon.ico, and a report that is refused with a 400.
Other(c) == /\ ReadRequest(c, "other")
            /\ UNCHANGED <<phase, target, closed, filing, waiting, tokens>>

-----------------------------------------------------------------------------
(* The one request of a connection to the HTTP/1.1 listener:               *)
(* serveCaptureHTTP1().                                                    *)

ReadCapture(c) == /\ c \in CaptureConns
                  /\ phase[c] = "read"
                  /\ Owner[c] \in running
                  /\ UNCHANGED <<requests, first, navigations, pages, navigator, closed, waiting, tokens>>

\* /api/all, an unknown token, a cold navigation whose answer was not received.
OtherCapture(c) == /\ ReadCapture(c)
                   /\ http1' = [http1 EXCEPT ![c] = c]
                   /\ Goto(c, "done")
                   /\ UNCHANGED target

\* /?http1=cold: a capture of its own, completed once it has been answered.
Cold(c) == /\ ReadCapture(c)
           /\ http1' = [http1 EXCEPT ![c] = c]
           /\ target' = [target EXCEPT ![c] = c]
           /\ Goto(c, "complete")

\* /?navigation=token: attachHTTP1, and a redirect back to the page.
Hop(c) == /\ ReadCapture(c)
          /\ \E t \in tokens[Owner[c]] : http1' = [http1 EXCEPT ![c] = c, ![navigations[t]] = c]
          /\ Goto(c, "done")
          /\ UNCHANGED target

-----------------------------------------------------------------------------
\* Mutant: the capture is queued and the channel stays open.
CompleteSilently(c) ==
  /\ phase[c] = "complete"
  /\ completed' = Append(completed, target[c])
  /\ target' = [target EXCEPT ![c] = None]
  /\ Goto(c, IF c \in Conns THEN "read" ELSE "done")
  /\ UNCHANGED <<woken, requests, first, caller, result, running, closed, filing, tokens>>

\* complete(): the channel everybody waits on is closed and replaced.
Complete(c) ==
  /\ phase[c] = "complete"
  /\ completed' = Append(completed, target[c])
  /\ woken' = woken \cup {w \in Callers : caller[w] = "waiting"}
  /\ target' = [target EXCEPT ![c] = None]
  /\ Goto(c, IF c \in Conns THEN "read" ELSE "done")
  /\ UNCHANGED <<requests, first, caller, result, running, closed, filing, tokens>>

-----------------------------------------------------------------------------
(* measureBrowserNavigation() and Await().                                 *)

Move(w, p) == caller' = [caller EXCEPT ![w] = p]

\* closeBrowser, deferred: the measurement is over, however Await returned.
Return(w) == /\ Move(w, "returned")
             /\ running' = running \ {Launches[w]}

\* The section under the lock: a capture, or the channel to wait on.
Look(w) ==
  /\ caller[w] = "looking"
  /\ \/ /\ completed # <<>>
        /\ result' = [result EXCEPT ![w] = Head(completed)]
        /\ completed' = Tail(completed)
        /\ Return(w)
     \/ /\ completed = <<>>
        /\ Move(w, "waiting")
        /\ UNCHANGED <<result, completed, running>>
  /\ UNCHANGED <<woken, connVars, closed, filing, tokens>>

Wake(w) == /\ caller[w] = "waiting"
           /\ w \in woken
           /\ woken' = woken \ {w}
           /\ Move(w, "looking")
           /\ UNCHANGED <<completed, result, running, connVars, closed, filing, tokens>>

LeaveSelect(w) == /\ caller[w] = "waiting"
                  /\ woken' = woken \ {w}
                  /\ Return(w)
                  /\ UNCHANGED <<completed, result, connVars, closed, filing, tokens>>

Deadline(w) == LeaveSelect(w)

ServerClosed(w) == closed /\ LeaveSelect(w)

\* Close(), as far as those who wait see it: it closes the channel first, and
\* requests are still served until it has closed their connections.
Close == /\ closed' = TRUE
         /\ UNCHANGED <<connVars, filing, waiting, tokens>>

-----------------------------------------------------------------------------
\* What a handler does without waiting for its peer, ...
HandlerStep(c) == SetNavigator(c) \/ Complete(c)

\* ... and what it does when the peer has sent a request.
PeerStep(c) == Load(c) \/ Collect(c) \/ Other(c) \/ OtherCapture(c) \/ Cold(c) \/ Hop(c)

AwaitStep(w) == Look(w) \/ Wake(w) \/ ServerClosed(w)

Next == \/ \E c \in Sessions : HandlerStep(c) \/ PeerStep(c)
        \/ \E w \in Callers : AwaitStep(w) \/ Deadline(w)
        \/ Close

Spec == Init /\ [][Next]_vars

\* Goroutines are scheduled.  Nothing is assumed of the browsers, and the
\* deadline of a caller is not relied on.
Fairness == /\ \A c \in Sessions : WF_vars(HandlerStep(c))
            /\ \A w \in Callers : WF_vars(AwaitStep(w))

FairSpec == Spec /\ Fairness

-----------------------------------------------------------------------------
\* Every capture that was completed, handed out or not.
Captured == {completed[i] : i \in DOMAIN completed} \cup ({result[w] : w \in Callers} \ {None})

\* A capture is whole and of one browser: the connection, what JavaScript
\* reported and the HTTP/1.1 request attached come from the same one, whichever
\* connections it used and whoever else is being measured.
OneBrowserPerCapture ==
  \A s \in Captured : /\ s \in Conns => navigator[s] = Owner[s]
                      /\ http1[s] # None => Owner[http1[s]] = Owner[s]

\* Completed captures are handed out once, the oldest first, to whoever waits, and
\* no wake-up is lost between a look at the queue and the wait.
Queue == INSTANCE CaptureQueue WITH
           queue <- completed,
           caller <- [w \in Callers |-> IF caller[w] = "returned" THEN "returned" ELSE "waiting"]
HandsOut == Queue!Spec

\* Await returns the session that carried the document navigation: the request it
\* recorded is the one that loaded the page, never a fetch.
NavigationHeaders == \A s \in Captured \cap pages : first[s] = "document"
===============================================================================
