--------------------------- MODULE EchoServerProofs ---------------------------
(***************************************************************************)
(* For any number of connections, callers and navigations: a capture is of *)
(* one browser, and the captures are handed out as CaptureQueue says.      *)
(***************************************************************************)
EXTENDS EchoServer, SequenceTheorems, TLAPS

\* Every variable holds what the code can put there.
TypeOK ==
  /\ closed \in BOOLEAN
  /\ phase \in [Sessions -> {"read", "navigator", "complete", "done"}]
  /\ requests \in [Conns -> Nat]
  /\ first \in [Conns -> {None, "document", "other"}]
  /\ target \in [Sessions -> Sessions \cup {None}]
  /\ navigations \in Seq(Conns)
  /\ pages \in SUBSET Conns
  /\ http1 \in [Sessions -> CaptureConns \cup {None}]
  /\ navigator \in [Sessions -> Browsers \cup {None}]
  /\ completed \in Seq(Sessions)
  /\ woken \in SUBSET Callers
  /\ caller \in [Callers -> {"looking", "waiting", "returned"}]
  /\ result \in [Callers -> Sessions \cup {None}]
  /\ running \in SUBSET Browsers
  /\ tokens \in [Browsers -> SUBSET Nat]

\* A browser knows the tokens of its own navigations.
TokensOwn == \A b \in Browsers : \A t \in tokens[b] :
               t \in 1..Len(navigations) /\ Owner[navigations[t]] = b

\* A report is filed under a session of the browser that sent it.
FiledOwn == \A c \in Sessions : phase[c] \in {"navigator", "complete"} =>
              target[c] \in Sessions /\ Owner[target[c]] = Owner[c]

\* What has been filed in a session comes from the browser of its connection.
PartsOwn == \A s \in Sessions : /\ navigator[s] \in {None, Owner[s]}
                                /\ http1[s] # None => Owner[http1[s]] = Owner[s]

\* A session that can be reported to a caller has its JavaScript report, unless
\* it is a connection of the HTTP/1.1 listener, which has none.
Reported(s) == s \in Conns => navigator[s] = Owner[s]

CapturesReported ==
  /\ \A c \in Sessions : phase[c] = "complete" => Reported(target[c])
  /\ \A i \in 1..Len(completed) : Reported(completed[i])
  /\ \A w \in Callers : result[w] # None => Reported(result[w])

IInv == TypeOK /\ TokensOwn /\ FiledOwn /\ PartsOwn /\ CapturesReported

-----------------------------------------------------------------------------
\* The token of a session leads back to that session.
LEMMA TokenOwn ==
  ASSUME TypeOK, NEW c \in Conns, Token(c) # 0
  PROVE  Token(c) \in 1..Len(navigations) /\ navigations[Token(c)] = c
<1>1. DOMAIN navigations = 1..Len(navigations)
  BY LenProperties DEF TypeOK
<1>2. \E t \in DOMAIN navigations : navigations[t] = c
  BY DEF Token
<1> QED BY <1>1, <1>2 DEF Token

\* A navigation added at the end leaves the tokens of the others as they are.
LEMMA NavigationAdded ==
  ASSUME TypeOK, NEW c \in Conns, navigations' = Append(navigations, c)
  PROVE  /\ navigations' \in Seq(Conns) /\ Len(navigations) \in Nat
         /\ Len(navigations') = Len(navigations) + 1
         /\ navigations'[Len(navigations) + 1] = c
         /\ \A t \in 1..Len(navigations) : navigations'[t] = navigations[t] /\ t \in 1..Len(navigations')
BY AppendProperties, LenProperties DEF TypeOK

\* A server that has just been started.
LEMMA InitHolds == Init => IInv
<1> SUFFICES ASSUME Init PROVE IInv
  OBVIOUS
<1>1. TypeOK
  <2>1. navigations \in Seq(Conns) /\ completed \in Seq(Sessions)
    BY EmptySeq DEF Init
  <2> QED BY <2>1 DEF Init, TypeOK
<1>2. CapturesReported
  <2>1. \A i \in 1..Len(completed) : FALSE
    BY EmptySeq DEF Init
  <2> QED BY <2>1 DEF Init, CapturesReported
<1> QED BY <1>1, <1>2, EchoAssumption DEF Init, IInv, TokensOwn, FiledOwn, PartsOwn

\* A request on the main listener: the page gets a token of its own navigation.
LEMMA LoadKeeps == ASSUME IInv, NEW c \in Sessions, Load(c) PROVE IInv'
<1> USE EchoAssumption
<1>1. /\ c \in Conns /\ requests[c] \in Nat
      /\ requests' = [requests EXCEPT ![c] = requests[c] + 1] /\ Owner[c] \in Browsers
      /\ first' = [first EXCEPT ![c] = IF @ = None THEN "document" ELSE @]
  BY DEF Load, ReadRequest, RecordRequest, IInv, TypeOK, Sessions
<1>2. UNCHANGED <<phase, target, http1, navigator, closed, waiting>>
  BY DEF Load
<1>3. requests' \in [Conns -> Nat] /\ first' \in [Conns -> {None, "document", "other"}]
  BY <1>1 DEF IInv, TypeOK
<1>4. /\ navigations' \in Seq(Conns) /\ pages' \in SUBSET Conns
      /\ tokens' \in [Browsers -> SUBSET Nat] /\ TokensOwn'
  <2>1. CASE Token(c) # 0 /\ Serve(c, Token(c)) /\ UNCHANGED <<navigations, pages>>
    <3>1. Token(c) \in 1..Len(navigations) /\ navigations[Token(c)] = c /\ Token(c) \in Nat
      BY <1>1, <2>1, TokenOwn DEF IInv
    <3>2. \A b \in Browsers : tokens'[b] = IF b = Owner[c] THEN tokens[b] \cup {Token(c)} ELSE tokens[b]
      BY <1>1, <2>1 DEF Serve, IInv, TypeOK
    <3>3. tokens' \in [Browsers -> SUBSET Nat]
      BY <1>1, <2>1, <3>1 DEF Serve, IInv, TypeOK
    <3> QED BY <2>1, <3>1, <3>2, <3>3 DEF IInv, TypeOK, TokensOwn
  <2>2. CASE UNCHANGED <<navigations, pages, tokens>>
    BY <2>2 DEF IInv, TypeOK, TokensOwn
  <2>3. CASE /\ navigations' = Append(navigations, c) /\ pages' = pages \cup {c}
             /\ Serve(c, Len(navigations'))
    <3>1. /\ navigations' \in Seq(Conns) /\ Len(navigations) \in Nat
          /\ Len(navigations') = Len(navigations) + 1
          /\ navigations'[Len(navigations')] = c
          /\ \A t \in 1..Len(navigations) : navigations'[t] = navigations[t] /\ t \in 1..Len(navigations')
      BY <1>1, <2>3, NavigationAdded DEF IInv
    <3>2. \A b \in Browsers : tokens'[b] = IF b = Owner[c] THEN tokens[b] \cup {Len(navigations')} ELSE tokens[b]
      BY <1>1, <2>3 DEF Serve, IInv, TypeOK
    <3>3. tokens' \in [Browsers -> SUBSET Nat]
      BY <1>1, <2>3, <3>1 DEF Serve, IInv, TypeOK
    <3>4. ASSUME NEW b \in Browsers, NEW t \in tokens'[b]
          PROVE  t \in 1..Len(navigations') /\ Owner[navigations'[t]] = b
      <4>1. CASE t \in tokens[b]
        <5>1. t \in 1..Len(navigations) /\ Owner[navigations[t]] = b
          BY <4>1 DEF IInv, TokensOwn
        <5> QED BY <3>1, <5>1
      <4>2. CASE b = Owner[c] /\ t = Len(navigations')
        BY <3>1, <4>2
      <4> QED BY <3>2, <3>4, <4>1, <4>2
    <3> QED BY <1>1, <2>3, <3>1, <3>3, <3>4 DEF IInv, TypeOK, TokensOwn
  <2> QED BY <2>1, <2>2, <2>3 DEF Load
<1> QED BY <1>2, <1>3, <1>4 DEF IInv, TypeOK, FiledOwn, PartsOwn, CapturesReported, Reported, waiting

\* A report is filed under the sender's own connection, or under the navigation of
\* a token the sender was given.
LEMMA CollectKeeps == ASSUME IInv, NEW c \in Sessions, Collect(c) PROVE IInv'
<1> USE EchoAssumption
<1>1. /\ c \in Conns /\ requests[c] \in Nat /\ phase[c] = "read" /\ Owner[c] \in Browsers
      /\ requests' = [requests EXCEPT ![c] = requests[c] + 1]
      /\ first' = [first EXCEPT ![c] = IF @ = None THEN "other" ELSE @]
      /\ phase' = [phase EXCEPT ![c] = "navigator"]
  BY DEF Collect, ReadRequest, RecordRequest, Goto, IInv, TypeOK, Sessions
<1>2. UNCHANGED <<pages, http1, navigator, closed, waiting, tokens>>
  BY DEF Collect
<1>3. requests' \in [Conns -> Nat] /\ first' \in [Conns -> {None, "document", "other"}]
      /\ phase' \in [Sessions -> {"read", "navigator", "complete", "done"}]
  BY <1>1 DEF IInv, TypeOK
<1>4. PICK t \in tokens[Owner[c]] \cup {0} :
        /\ target' = [target EXCEPT ![c] = IF t = 0 THEN c ELSE navigations[t]]
        /\ navigations' = IF t = 0 /\ Token(c) = 0 THEN Append(navigations, c) ELSE navigations
  BY DEF Collect
<1> DEFINE s == IF t = 0 THEN c ELSE navigations[t]
<1>5. s \in Conns /\ Owner[s] = Owner[c]
  <2>1. CASE t = 0
    BY <1>1, <2>1
  <2>2. CASE t # 0
    <3>1. t \in 1..Len(navigations) /\ Owner[navigations[t]] = Owner[c]
      BY <1>1, <1>4, <2>2 DEF IInv, TokensOwn
    <3>2. navigations[t] \in Conns
      BY <3>1, ElementOfSeq DEF IInv, TypeOK
    <3> QED BY <2>2, <3>1, <3>2
  <2> QED BY <2>1, <2>2
<1>6. target' = [target EXCEPT ![c] = s]
  BY <1>4
<1> HIDE DEF s
<1>7. navigations' \in Seq(Conns) /\ TokensOwn'
  <2>1. CASE navigations' = Append(navigations, c)
    <3>1. /\ navigations' \in Seq(Conns)
          /\ \A x \in 1..Len(navigations) : navigations'[x] = navigations[x] /\ x \in 1..Len(navigations')
      BY <1>1, <2>1, NavigationAdded DEF IInv
    <3>2. tokens' = tokens /\ TokensOwn
      BY <1>2 DEF IInv
    <3>3. TokensOwn'
      BY <3>1, <3>2 DEF TokensOwn
    <3> QED BY <3>1, <3>3
  <2>2. CASE navigations' = navigations
    BY <1>2, <2>2 DEF IInv, TypeOK, TokensOwn
  <2> QED BY <1>4, <2>1, <2>2
<1>8. target' \in [Sessions -> Sessions \cup {None}] /\ FiledOwn'
  BY <1>1, <1>5, <1>6 DEF IInv, TypeOK, FiledOwn, Sessions
<1>9. CapturesReported'
  <2>1. \A x \in Sessions : phase'[x] = "complete" => phase[x] = "complete" /\ target'[x] = target[x]
    BY <1>1, <1>6 DEF IInv, TypeOK
  <2> QED BY <1>2, <2>1 DEF IInv, CapturesReported, Reported, waiting
<1> QED BY <1>2, <1>3, <1>7, <1>8, <1>9 DEF IInv, TypeOK, PartsOwn, waiting

\* setNavigator overwrites a report with one of the same browser.
LEMMA SetNavigatorKeeps == ASSUME IInv, NEW c \in Sessions, SetNavigator(c) PROVE IInv'
<1> USE EchoAssumption
<1>1. /\ phase[c] = "navigator" /\ phase' = [phase EXCEPT ![c] = "complete"]
      /\ navigator' = [navigator EXCEPT ![target[c]] = Owner[c]]
      /\ target[c] \in Sessions /\ Owner[target[c]] = Owner[c] /\ Owner[c] \in Browsers
  BY DEF SetNavigator, Goto, IInv, FiledOwn
<1>2. UNCHANGED <<requests, first, target, navigations, pages, http1, closed, waiting, tokens>>
  BY DEF SetNavigator
<1>3. \A s \in Sessions : navigator'[s] = IF s = target[c] THEN Owner[s] ELSE navigator[s]
  BY <1>1 DEF IInv, TypeOK
<1>4. Reported(target[c])'
  BY <1>1, <1>2, <1>3 DEF Reported
<1>5. CapturesReported'
  <2>1. \A x \in Sessions : phase'[x] = "complete" => x = c \/ phase[x] = "complete"
    BY <1>1 DEF IInv, TypeOK
  <2> QED BY <1>2, <1>3, <1>4, <2>1 DEF IInv, CapturesReported, Reported, waiting, Sessions
<1>6. /\ navigator' \in [Sessions -> Browsers \cup {None}]
      /\ phase' \in [Sessions -> {"read", "navigator", "complete", "done"}]
  BY <1>1 DEF IInv, TypeOK
<1>7. TypeOK'
  BY <1>2, <1>6 DEF IInv, TypeOK, waiting
<1>8. TokensOwn' /\ FiledOwn' /\ PartsOwn'
  BY <1>1, <1>2, <1>3 DEF IInv, TypeOK, TokensOwn, FiledOwn, PartsOwn
<1> QED BY <1>5, <1>7, <1>8 DEF IInv

\* The HTTP/1.1 listener: a request is attached to its own connection, and by the
\* hop to a navigation of the same browser.
LEMMA CaptureKeeps ==
  ASSUME IInv, NEW c \in Sessions, OtherCapture(c) \/ Cold(c) \/ Hop(c)
  PROVE  IInv'
<1> USE EchoAssumption
<1>1. /\ c \in CaptureConns /\ c \notin Conns /\ phase[c] = "read"
      /\ UNCHANGED <<requests, first, navigations, pages, navigator, closed, waiting, tokens>>
  BY DEF OtherCapture, Cold, Hop, ReadCapture
<1>2. PICK h \in {c} \cup {navigations[t] : t \in tokens[Owner[c]]} :
        http1' = [http1 EXCEPT ![c] = c, ![h] = c]
  <2>1. CASE http1' = [http1 EXCEPT ![c] = c]
    <3>1. [http1 EXCEPT ![c] = c] = [http1 EXCEPT ![c] = c, ![c] = c]
      BY DEF IInv, TypeOK
    <3> QED BY <2>1, <3>1
  <2>2. CASE \E t \in tokens[Owner[c]] : http1' = [http1 EXCEPT ![c] = c, ![navigations[t]] = c]
    BY <2>2
  <2> QED BY <2>1, <2>2 DEF OtherCapture, Cold, Hop
<1>3. h \in Sessions /\ Owner[h] = Owner[c]
  <2>1. ASSUME NEW t \in tokens[Owner[c]]
        PROVE  navigations[t] \in Conns /\ Owner[navigations[t]] = Owner[c]
    <3>1. t \in 1..Len(navigations) /\ Owner[navigations[t]] = Owner[c]
      BY DEF IInv, TokensOwn
    <3> QED BY <3>1, ElementOfSeq DEF IInv, TypeOK
  <2> QED BY <2>1 DEF Sessions
<1>4. \A s \in Sessions : http1'[s] = IF s \in {c, h} THEN c ELSE http1[s]
  BY <1>2, <1>3 DEF IInv, TypeOK
<1>5. /\ \A s \in Sessions : http1'[s] # None => Owner[http1'[s]] = Owner[s]
      /\ http1' \in [Sessions -> CaptureConns \cup {None}]
  <2>1. http1' \in [Sessions -> CaptureConns \cup {None}]
    BY <1>1, <1>2 DEF IInv, TypeOK
  <2> QED BY <1>3, <1>4, <2>1 DEF IInv, PartsOwn
<1>6. \/ phase' = [phase EXCEPT ![c] = "done"] /\ target' = target
      \/ phase' = [phase EXCEPT ![c] = "complete"] /\ target' = [target EXCEPT ![c] = c]
  BY DEF OtherCapture, Cold, Hop, Goto
<1>7. /\ phase' \in [Sessions -> {"read", "navigator", "complete", "done"}]
      /\ target' \in [Sessions -> Sessions \cup {None}]
      /\ FiledOwn' /\ CapturesReported'
  <2>1. /\ phase' \in [Sessions -> {"read", "navigator", "complete", "done"}]
        /\ target' \in [Sessions -> Sessions \cup {None}]
    <3>1. /\ phase \in [Sessions -> {"read", "navigator", "complete", "done"}]
          /\ target \in [Sessions -> Sessions \cup {None}]
      BY DEF IInv, TypeOK
    <3>2. CASE phase' = [phase EXCEPT ![c] = "done"] /\ target' = target
      BY <3>1, <3>2
    <3>3. CASE phase' = [phase EXCEPT ![c] = "complete"] /\ target' = [target EXCEPT ![c] = c]
      BY <3>1, <3>3 DEF Sessions
    <3> QED BY <1>6, <3>2, <3>3
  <2>2. \A x \in Sessions : /\ phase'[x] = IF x = c THEN phase'[c] ELSE phase[x]
                            /\ target'[x] = IF x = c THEN target'[c] ELSE target[x]
    BY <1>6 DEF IInv, TypeOK
  <2>3. phase'[c] = "done" \/ (phase'[c] = "complete" /\ target'[c] = c)
    BY <1>6 DEF IInv, TypeOK
  <2>4. FiledOwn'
    BY <2>2, <2>3 DEF IInv, FiledOwn
  <2>5. \A s : Reported(s)' = Reported(s)
    BY <1>1 DEF Reported
  <2>6. CapturesReported'
    BY <1>1, <2>2, <2>3 DEF IInv, CapturesReported, Reported, waiting
  <2> QED BY <2>1, <2>4, <2>6
<1> QED BY <1>1, <1>5, <1>7 DEF IInv, TypeOK, TokensOwn, PartsOwn, waiting

\* A request that files nothing.
LEMMA OtherKeeps == ASSUME IInv, NEW c \in Sessions, Other(c) PROVE IInv'
<1>1. /\ c \in Conns /\ requests' = [requests EXCEPT ![c] = @ + 1]
      /\ first' = [first EXCEPT ![c] = IF @ = None THEN "other" ELSE @]
      /\ UNCHANGED <<phase, target, closed, filing, waiting, tokens>>
  BY DEF Other, ReadRequest, RecordRequest
<1>2. requests' \in [Conns -> Nat] /\ first' \in [Conns -> {None, "document", "other"}]
  BY <1>1 DEF IInv, TypeOK
<1> QED BY <1>1, <1>2 DEF IInv, TypeOK, TokensOwn, FiledOwn, PartsOwn, CapturesReported, Reported,
                          filing, waiting

\* A capture joins the queue with its report in it.
LEMMA CompleteKeeps ==
  ASSUME IInv, NEW c \in Sessions, Complete(c)
  PROVE  IInv' /\ target[c] \in Sessions
<1>1. /\ phase[c] = "complete" /\ completed' = Append(completed, target[c])
      /\ woken' \in SUBSET Callers
      /\ target' = [target EXCEPT ![c] = None]
      /\ phase' = [phase EXCEPT ![c] = IF c \in Conns THEN "read" ELSE "done"]
      /\ UNCHANGED <<requests, first, caller, result, running, closed, filing, tokens>>
  BY DEF Complete, Goto, IInv, TypeOK
<1>2. target[c] \in Sessions /\ Reported(target[c])
  BY <1>1 DEF IInv, FiledOwn, CapturesReported
<1>3. /\ completed' \in Seq(Sessions)
      /\ \A i \in 1..Len(completed') : \/ completed'[i] = target[c]
                                       \/ i \in 1..Len(completed) /\ completed'[i] = completed[i]
  BY <1>1, <1>2, AppendProperties, LenProperties DEF IInv, TypeOK
<1>4. /\ phase' \in [Sessions -> {"read", "navigator", "complete", "done"}]
      /\ target' \in [Sessions -> Sessions \cup {None}]
  BY <1>1 DEF IInv, TypeOK
<1>5. \A x \in Sessions : phase'[x] \in {"navigator", "complete"} =>
                            x # c /\ phase[x] = phase'[x] /\ target'[x] = target[x]
  BY <1>1 DEF IInv, TypeOK
<1>6. TypeOK'
  BY <1>1, <1>3, <1>4 DEF IInv, TypeOK, filing
<1>7. FiledOwn'
  BY <1>5 DEF IInv, FiledOwn
<1>8. CapturesReported'
  BY <1>1, <1>2, <1>3, <1>5 DEF IInv, CapturesReported, Reported, filing
<1>9. TokensOwn' /\ PartsOwn'
  BY <1>1 DEF IInv, TokensOwn, PartsOwn, filing
<1> QED BY <1>2, <1>6, <1>7, <1>8, <1>9 DEF IInv

\* Callers move the captures from the queue to their results.
LEMMA CallerKeeps ==
  ASSUME IInv, NEW w \in Callers, AwaitStep(w) \/ Deadline(w)
  PROVE  IInv'
<1>1. UNCHANGED <<connVars, closed, filing, tokens>>
  BY DEF AwaitStep, Deadline, ServerClosed, Look, Wake, LeaveSelect
<1>2. woken' \in SUBSET Callers /\ running' \in SUBSET Browsers
      /\ caller' \in [Callers -> {"looking", "waiting", "returned"}]
  BY DEF AwaitStep, Deadline, ServerClosed, Look, Wake, LeaveSelect, Move, Return, IInv, TypeOK
<1>3. /\ result' \in [Callers -> Sessions \cup {None}] /\ completed' \in Seq(Sessions)
      /\ \A i \in 1..Len(completed') : Reported(completed'[i])
      /\ \A v \in Callers : result'[v] # None => Reported(result'[v])
  <2>1. CASE UNCHANGED <<result, completed>>
    BY <2>1 DEF IInv, TypeOK, CapturesReported
  <2>2. CASE /\ completed # <<>> /\ completed' = Tail(completed)
             /\ result' = [result EXCEPT ![w] = Head(completed)]
    <3>1. /\ Head(completed) \in Sessions /\ Reported(Head(completed))
          /\ Tail(completed) \in Seq(Sessions)
          /\ \A i \in 1..Len(Tail(completed)) : Reported(Tail(completed)[i])
      <4>1. completed \in Seq(Sessions) /\ Len(completed) \in Nat /\ 1 \in 1..Len(completed)
        BY <2>2, LenProperties, EmptySeq DEF IInv, TypeOK
      <4>2. Head(completed) = completed[1] /\ Head(completed) \in Sessions
        BY <2>2, <4>1, ElementOfSeq
      <4>3. /\ Tail(completed) \in Seq(Sessions)
            /\ \A i \in 1..Len(Tail(completed)) :
                 i + 1 \in 1..Len(completed) /\ Tail(completed)[i] = completed[i + 1]
        BY <2>2, <4>1, HeadTailProperties
      <4> QED BY <4>1, <4>2, <4>3 DEF IInv, CapturesReported
    <3>2. \A v \in Callers : result'[v] = IF v = w THEN Head(completed) ELSE result[v]
      BY <2>2 DEF IInv, TypeOK
    <3>3. result' \in [Callers -> Sessions \cup {None}]
      BY <2>2, <3>1 DEF IInv, TypeOK
    <3> QED BY <2>2, <3>1, <3>2, <3>3 DEF IInv, CapturesReported
  <2> QED BY <2>1, <2>2 DEF AwaitStep, Deadline, ServerClosed, Look, Wake, LeaveSelect
<1> QED BY <1>1, <1>2, <1>3 DEF IInv, TypeOK, TokensOwn, FiledOwn, PartsOwn, CapturesReported,
                                Reported, connVars, filing

\* The invariant is inductive.
LEMMA Step == IInv /\ [Next]_vars => IInv'
<1> SUFFICES ASSUME IInv, [Next]_vars PROVE IInv'
  OBVIOUS
<1>1. ASSUME NEW c \in Sessions, HandlerStep(c) PROVE IInv'
  BY <1>1, SetNavigatorKeeps, CompleteKeeps DEF HandlerStep
<1>2. ASSUME NEW c \in Sessions, PeerStep(c) PROVE IInv'
  BY <1>2, LoadKeeps, CollectKeeps, OtherKeeps, CaptureKeeps DEF PeerStep
<1>3. ASSUME NEW w \in Callers, AwaitStep(w) \/ Deadline(w) PROVE IInv'
  BY <1>3, CallerKeeps
<1>4. CASE Close
  BY <1>4 DEF Close, IInv, TypeOK, TokensOwn, FiledOwn, PartsOwn, CapturesReported, Reported,
              connVars, filing, waiting
<1>5. CASE UNCHANGED vars
  BY <1>5 DEF vars, IInv, TypeOK, TokensOwn, FiledOwn, PartsOwn, CapturesReported, Reported,
              connVars, filing, waiting
<1> QED BY <1>1, <1>2, <1>3, <1>4, <1>5 DEF Next

-----------------------------------------------------------------------------
(* The theorems. *)

\* Whatever the browsers send, over whichever connections, the invariant holds.
THEOREM Inductive == Spec => []IInv
<1> QED BY InitHolds, Step, PTL DEF Spec

\* No capture mixes two browsers: not the JavaScript report, not the HTTP/1.1
\* request that the hop attaches.
THEOREM CapturesUnmixed == Spec => []OneBrowserPerCapture
<1>1. ASSUME IInv PROVE OneBrowserPerCapture
  <2>1. ASSUME NEW s \in Captured PROVE s \in Sessions /\ Reported(s)
    <3>1. CASE \E i \in DOMAIN completed : s = completed[i]
      BY <1>1, <3>1, LenProperties, ElementOfSeq DEF IInv, TypeOK, CapturesReported
    <3>2. CASE \E w \in Callers : s = result[w] /\ s # None
      BY <1>1, <3>2 DEF IInv, TypeOK, CapturesReported
    <3> QED BY <2>1, <3>1, <3>2 DEF Captured
  <2> QED BY <1>1, <2>1 DEF OneBrowserPerCapture, IInv, PartsOwn, Reported
<1> QED BY <1>1, Inductive, PTL

\* The queue of captures behaves as CaptureQueue promises: in order, each of them
\* to one caller, and nothing that is handed out comes back.
THEOREM QueueImplemented == Spec => Queue!Init /\ [][Queue!Next]_(Queue!vars)
<1> DEFINE stand(w) == IF caller[w] = "returned" THEN "returned" ELSE "waiting"
<1>1. Init => Queue!Init
  BY DEF Init, Queue!Init
<1>2. ASSUME IInv, [Next]_vars PROVE [Queue!Next]_(Queue!vars)
  <2>1. ASSUME NEW c \in Sessions, HandlerStep(c) PROVE [Queue!Next]_(Queue!vars)
    <3>1. CASE SetNavigator(c)
      BY <3>1 DEF SetNavigator, waiting, Queue!vars
    <3>2. CASE Complete(c)
      <4>1. target[c] \in Sessions
        BY <1>2, <3>2, CompleteKeeps
      <4> QED BY <3>2, <4>1 DEF Complete, Queue!Next, Queue!Complete
    <3> QED BY <2>1, <3>1, <3>2 DEF HandlerStep
  <2>2. ASSUME NEW c \in Sessions, PeerStep(c) PROVE [Queue!Next]_(Queue!vars)
    BY <2>2 DEF PeerStep, Load, Collect, Other, OtherCapture, Cold, Hop, ReadCapture,
                waiting, Queue!vars
  <2>3. ASSUME NEW w \in Callers, Look(w) PROVE [Queue!Next]_(Queue!vars)
    <3>1. CASE /\ completed # <<>> /\ Return(w) /\ completed' = Tail(completed)
               /\ result' = [result EXCEPT ![w] = Head(completed)]
      BY <1>2, <2>3, <3>1 DEF Look, Return, Move, IInv, TypeOK, Queue!Next, Queue!Take
    <3>2. CASE Move(w, "waiting") /\ UNCHANGED <<result, completed, running>>
      BY <1>2, <2>3, <3>2 DEF Look, Move, IInv, TypeOK, Queue!vars
    <3> QED BY <2>3, <3>1, <3>2 DEF Look
  <2>4. ASSUME NEW w \in Callers, Wake(w) PROVE [Queue!Next]_(Queue!vars)
    BY <1>2, <2>4 DEF Wake, Move, IInv, TypeOK, Queue!vars
  <2>5. ASSUME NEW w \in Callers, LeaveSelect(w) PROVE [Queue!Next]_(Queue!vars)
    BY <1>2, <2>5 DEF LeaveSelect, Return, Move, IInv, TypeOK, Queue!Next, Queue!GiveUp
  <2>6. CASE Close
    BY <2>6 DEF Close, waiting, Queue!Next, Queue!Close
  <2>7. CASE UNCHANGED vars
    BY <2>7 DEF vars, waiting, Queue!vars
  <2> QED BY <1>2, <2>1, <2>2, <2>3, <2>4, <2>5, <2>6, <2>7
          DEF Next, AwaitStep, Deadline, ServerClosed
<1>3. IInv /\ [Next]_vars => [Queue!Next]_(Queue!vars)
  BY <1>2
<1> QED BY <1>1, <1>3, Inductive, PTL DEF Spec
===============================================================================
