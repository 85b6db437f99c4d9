------------------------------- MODULE Client -------------------------------
(***************************************************************************)
(* One client (src/client.go) and the loops of the daemon that share it    *)
(* (Serve and handle in src/daemon/daemon.go): a line in, Client.Do hop by *)
(* hop, a line out.  The command runs one loop; the proxy and the batch    *)
(* call Do of one client from many goroutines, and Serve takes any client, *)
(* so the loops here are several.                                          *)
(*                                                                         *)
(* The transport is external: it opens a connection of either protocol,    *)
(* follows redirects with the headers it finds safe, and gives up at the   *)
(* deadline New gave it.  A hop carries the block for HTTP/2 and the       *)
(* layout for HTTP/1.1 that the context of its request holds.              *)
(***************************************************************************)
EXTENDS HeaderBlock, WarmSession

CONSTANTS Input,    \* for each loop the lines it is sent
          Shared,   \* Profile.Headers
          HTTP1,    \* Profile.HTTP1: [order, headers]
          Extra,    \* the headers of WithHeaders
          Targets,  \* the hosts redirects lead to (a bound)
          Configs,  \* how clients are built: [http1, jar]
          None      \* a hop that no redirect led to

\* A line is [kind, id, host, headers, order, cookies]; "ask" is the one kind whose request
\* can be made (in Do, fhttp.NewRequest refuses an URL before anything is changed).
Refused == {"syntax", "shape", "nourl", "badurl", "casing", "badcookie", "badbody"}
ASSUME ClientAssumption ==
    /\ \A c \in Callers : Input[c] \in Seq(ToSet(Input[c]))
    /\ \A c \in Callers : \A i \in DOMAIN Input[c] :
         /\ Input[c][i].kind \in Refused \cup {"ask", "blank", "toolong"}
         /\ Input[c][i].host \in Hosts
         /\ IsFiniteSet(DOMAIN Input[c][i].headers)
         /\ Input[c][i].order \in Seq(ToSet(Input[c][i].order))
    /\ \A h \in {Shared, HTTP1.headers, Extra, HTTP1.order} : h \in Seq(ToSet(h))
    /\ None \notin Hosts /\ Targets \subseteq Hosts
    \* validateHTTP1
    /\ HTTP1.order[1] = "host" /\ IsInjective(HTTP1.order)
    /\ \A i \in DOMAIN HTTP1.headers : HTTP1.headers[i].name \in ToSet(HTTP1.order) \ {"host"}

VARIABLES pc,       \* where each loop is
          pos,      \* the line it is at
          hop,      \* the hop its request is at, or None
          replies,  \* what it has written: [id, ok]
          closed,   \* Client.closed
          config    \* how this client was built

loopVars == <<pc, pos, hop, replies>>
vars == <<loopVars, closed, config, warmVars>>

-----------------------------------------------------------------------------
(* What a request looks like on the wire. *)

headers == Merge(Shared, Extra)
http1Headers == Merge(HTTP1Headers(Shared, HTTP1), Extra)
Line(c) == Input[c][pos[c]]
Given(line) == OrderedHeaders(line.headers, line.order, NamesOf(headers))

\* Whether a redirect from one host to another keeps the credentials.
SameSite(from, to) == <<to, from>> \in Under
Credentials == {"authorization", "cookie"}

\* The two layouts of the first request for each line: the block fhttp copies from on
\* every hop, and the one measured on HTTP/1.1.
Original == [c \in Callers |-> [i \in DOMAIN Input[c] |->
    LET line == Input[c][i] IN LegacyLayout(Merge(headers, Given(line)), line.host)]]
Measured == [c \in Callers |-> [i \in DOMAIN Input[c] |->
    LET line == Input[c][i]
    IN MeasuredLayout(Merge(http1Headers, Given(line)), HTTP1.order, line.host)]]

\* The headers of a redirect: those of the first request that are safe for its host.
Copied(block, first, to, last) ==
    LET kept == DOMAIN block.values \ ({"host", "referer"} \cup IF SameSite(first, to) THEN {} ELSE Credentials)
    IN [order  |-> block.order,
        values |-> [n \in kept \cup {"referer"} |-> IF n \in kept THEN block.values[n] ELSE <<last>>]]

\* The hops of a request, and the layouts in the context of each (prepareRedirectLayout).
FirstHop(c, proto) ==
    [host  |-> Line(c).host, from |-> None, proto |-> proto,
     block |-> Original[c][pos[c]], http1 |-> Measured[c][pos[c]]]
NextHop(c, to, proto) ==
    LET current == Copied(Original[c][pos[c]], Line(c).host, to, hop[c].host)
    IN [host  |-> to, from |-> hop[c].host, proto |-> proto, block |-> current,
        http1 |-> RedirectLayout(hop[c].http1, hop[c].block, current, to)]

\* What a hop is written from: on an HTTP/1.1 connection the measured layout replaces
\* the block (withProtocolLayouts).
OnHTTP1(c) == config.http1 /\ hop[c].proto = "h1"
Wire(c) ==
    LET block == hop[c].block
        http1 == hop[c].http1
    IN IF OnHTTP1(c) THEN ApplyLayout(block, http1, Managed(block, http1)) ELSE block

-----------------------------------------------------------------------------
Init ==
    /\ WarmInit
    /\ pc = [c \in Callers |-> "idle"]
    /\ pos = [c \in Callers |-> 1]
    /\ hop = [c \in Callers |-> None]
    /\ replies = [c \in Callers |-> <<>>]
    /\ closed = FALSE
    /\ config \in Configs

\* The reply is written and the next line read, or the pipe is broken and Serve returns.
Reply(c, id, ok) ==
    /\ hop' = [hop EXCEPT ![c] = None]
    /\ pos' = [pos EXCEPT ![c] = @ + 1]
    /\ \/ /\ replies' = [replies EXCEPT ![c] = Append(@, [id |-> id, ok |-> ok])]
          /\ pc' = [pc EXCEPT ![c] = "idle"]
       \/ /\ pc' = [pc EXCEPT ![c] = "ended"]
          /\ UNCHANGED replies

HasLine(c, kinds) == pc[c] = "idle" /\ pos[c] \in DOMAIN Input[c] /\ Line(c).kind \in kinds

SkipBlank(c) ==
    /\ HasLine(c, {"blank"})
    /\ pos' = [pos EXCEPT ![c] = @ + 1]
    /\ UNCHANGED <<pc, hop, replies, closed, config, warmVars>>

\* The input ends, or a line is longer than the scanner's buffer.
ServeReturns(c) ==
    /\ pc[c] = "idle" /\ (pos[c] \in DOMAIN Input[c] => Line(c).kind = "toolong")
    /\ pc' = [pc EXCEPT ![c] = "ended"]
    /\ UNCHANGED <<pos, hop, replies, closed, config, warmVars>>

\* Mutant: the errors of handle are written without the id
RefuseWithoutID(c) ==
    /\ HasLine(c, Refused)
    /\ Reply(c, 0, FALSE)
    /\ UNCHANGED <<closed, config, warmVars>>
\* handle refuses a line before it asks the client; a syntax error leaves the id at 0.
Refuse(c) ==
    /\ HasLine(c, Refused)
    /\ Reply(c, IF Line(c).kind = "syntax" THEN 0 ELSE Line(c).id, FALSE)
    /\ UNCHANGED <<closed, config, warmVars>>

\* Do on a closed client.
RefuseClosed(c) ==
    /\ HasLine(c, {"ask"}) /\ closed
    /\ Reply(c, Line(c).id, FALSE)
    /\ UNCHANGED <<closed, config, warmVars>>

\* Mutant: a cookie another goroutine has taken is thought to be in the jar already
AskUnlocked(c) ==
    /\ HasLine(c, {"ask"}) /\ ~closed
    /\ LET h == Line(c).host
           fresh == {w \in Warm : Belongs(w, h) /\ SeedKey(w, h) \notin seeded}
       IN pc' = [pc EXCEPT ![c] = IF config.jar /\ fresh # {} THEN "asked" ELSE "seeded"]
    /\ UNCHANGED <<pos, hop, replies, closed, config, warmVars>>
\* Do up to seedWarmCookies, which returns at once without a session or a jar.
Ask(c) ==
    /\ HasLine(c, {"ask"}) /\ ~closed
    /\ pc' = [pc EXCEPT ![c] = IF config.jar /\ Warm # {} THEN "asked" ELSE "seeded"]
    /\ UNCHANGED <<pos, hop, replies, closed, config, warmVars>>

Seed(c) ==
    /\ pc[c] = "asked"
    /\ TakeWarm(c, Line(c).host)
    /\ pc' = [pc EXCEPT ![c] = "filing"]
    /\ UNCHANGED <<pos, hop, replies, closed, config>>

File(c) ==
    /\ pc[c] = "filing"
    /\ FileWarm(c)
    /\ pc' = [pc EXCEPT ![c] = "seeded"]
    /\ UNCHANGED <<pos, hop, replies, closed, config>>

\* The request's own cookies, the layouts, and the first hop on a connection of either kind.
Send(c) ==
    /\ pc[c] = "seeded"
    /\ FileGiven(IF config.jar THEN Line(c).cookies ELSE {}, Line(c).host)
    /\ \E proto \in {"h1", "h2"} :
         hop' = [hop EXCEPT ![c] = FirstHop(c, proto)]
    /\ pc' = [pc EXCEPT ![c] = "sent"]
    /\ UNCHANGED <<pos, replies, closed, config>>

JarHears(h) == IF config.jar THEN SiteSets(h) ELSE UNCHANGED warmVars

\* A redirect is answered and the next hop sent.  No count limits how many there are: the
\* redirect function New installs for a profile with HTTP/1.1 replaces the transport's own,
\* and without one the transport's limit is one more way to Fail.
Redirect(c) ==
    /\ pc[c] = "sent"
    /\ JarHears(hop[c].host)
    /\ \E to \in Targets, proto \in {"h1", "h2"} :
         hop' = [hop EXCEPT ![c] = NextHop(c, to, proto)]
    /\ UNCHANGED <<pc, pos, replies, closed, config>>

Respond(c) ==
    /\ pc[c] = "sent"
    /\ JarHears(hop[c].host)
    /\ pc' = [pc EXCEPT ![c] = "reading"]
    /\ UNCHANGED <<pos, hop, replies, closed, config>>

\* The body is read within the limit, or is too large, or a header is not valid UTF-8.
Finish(c) ==
    /\ pc[c] = "reading"
    /\ \E ok \in BOOLEAN : Reply(c, Line(c).id, ok)
    /\ UNCHANGED <<closed, config, warmVars>>

\* Mutant: the deadline covers the first hop only
FailFirstHop(c) ==
    /\ pc[c] \in {"sent", "reading"} /\ hop[c].from = None
    /\ Reply(c, Line(c).id, FALSE)
    /\ UNCHANGED <<closed, config, warmVars>>
\* The transport fails, or the deadline over the whole exchange passes.
Fail(c) ==
    /\ pc[c] \in {"sent", "reading"}
    /\ Reply(c, Line(c).id, FALSE)
    /\ UNCHANGED <<closed, config, warmVars>>

\* Close only keeps later calls of Do away.
Close ==
    /\ ~closed
    /\ closed' = TRUE
    /\ UNCHANGED <<loopVars, config, warmVars>>

Proceed(c) ==
    \/ SkipBlank(c) \/ ServeReturns(c) \/ Refuse(c) \/ RefuseClosed(c)
    \/ Ask(c) \/ Seed(c) \/ File(c) \/ Send(c) \/ Finish(c)

Next == \/ Close
        \/ \E c \in Callers : Proceed(c) \/ Redirect(c) \/ Respond(c) \/ Fail(c)

Spec == Init /\ [][Next]_vars
FairSpec == Spec /\ \A c \in Callers : WF_vars(Proceed(c)) /\ WF_vars(Fail(c))

-----------------------------------------------------------------------------
(* Properties. *)

AtHosts == {"asked", "filing", "seeded", "sent", "reading"}
ClientTypeOK ==
    /\ WarmTypeOK
    /\ pc \in [Callers -> AtHosts \cup {"idle", "ended"}]
    /\ pos \in [Callers -> Nat]
    /\ \A c \in Callers : pc[c] \in AtHosts => pos[c] \in DOMAIN Input[c]
    /\ closed \in BOOLEAN
    /\ config \in Configs

\* No request leaves before all the session holds for its host is in the jar, whichever
\* goroutine took it to file: warmMu is held across seedCookies.
WarmFirst ==
    \A c \in Callers :
        config.jar /\ pc[c] \in {"seeded", "sent", "reading"} => WarmFiled(Line(c).host)

\* A cookie of the session that was filed stays filed, and never again replaces what a
\* request or a site put in its place (warmSeeded).
StaysFiled(w, h) ==
    Filed(w, h) => Filed(w, h)' /\ (jar'[JarKey(w, h)] = "warm" => jar[JarKey(w, h)] = "warm")
SeededOnce == [][\A w \in Warm, h \in Hosts : StaysFiled(w, h)]_vars

\* The hop c is at left the site it asked: neither a credential the caller gave nor the
\* first host goes with it, over either protocol and after any number of hops
\* (prepareRedirectLayout builds on what fhttp kept).
NothingAcrossOrigins ==
    \A c \in Callers :
        pc[c] = "sent" /\ ~SameSite(Line(c).host, hop[c].host) =>
            LET wire == Wire(c)
            IN /\ DOMAIN wire.values \cap Credentials = {}
               /\ ToSet(wire.order) \cap Credentials \cap DOMAIN wire.values = {}
               /\ "host" \in DOMAIN wire.values => wire.values["host"] = <<hop[c].host>>

\* What the browser was measured to send on the protocol of c's connection, by reference
\* to the profile alone: the order, the names that have values, and the values of each.
MeasuredOrder(c) == IF OnHTTP1(c) THEN HTTP1.order ELSE NamesOf(Shared)
MeasuredNames(c) ==
    {n \in ToSet(MeasuredOrder(c)) : Has(Shared, n) \/ (OnHTTP1(c) /\ Has(HTTP1.headers, n))}
MeasuredValues(c, n) == Values(IF OnHTTP1(c) /\ Has(HTTP1.headers, n) THEN HTTP1.headers ELSE Shared, n)
\* What the caller put over it.
Own(c) == Merge(Extra, Given(Line(c)))

\* In s, m comes before the first n.
Leads(s, m, n) == \E i \in DOMAIN s : s[i] = m /\ n \notin {s[j] : j \in 1..i}

\* The measured names are sent once each and in the order measured, ...
OrderKept(c) ==
    LET order == Wire(c).order
    IN \A i, j \in DOMAIN order :
         i < j /\ {order[i], order[j]} \subseteq MeasuredNames(c) => Leads(MeasuredOrder(c), order[i], order[j])
\* ... nothing measured on the other protocol goes with them, and every name has the
\* caller's value, or else the one measured on this protocol.
ValuesKept(c) ==
    \A n \in DOMAIN Wire(c).values \ {"host", "referer"} :
        IF Has(Own(c), n) THEN Wire(c).values[n] = Values(Own(c), n)
        ELSE n \in MeasuredNames(c) /\ Wire(c).values[n] = MeasuredValues(c, n)

\* Every hop looks as the profile was measured on its protocol, whatever the caller adds
\* and however many redirects, on connections of either kind, led to it.
WireAsMeasured == \A c \in Callers : pc[c] = "sent" => OrderKept(c) /\ ValuesKept(c)

\* The lines c took to answer, and which of them line i is.
Taken(c) == {i \in 1..(pos[c] - 1) : Input[c][i].kind # "blank"}
Turn(c, i) == Cardinality({j \in Taken(c) : j <= i})

\* The answers of a loop are those to the lines it took, in order and with their ids (0
\* for what is no JSON at all); only the last can be missing, when the pipe broke.
AnsweredInOrder ==
    \A c \in Callers :
        /\ Len(replies[c]) \in {Cardinality(Taken(c)), Cardinality(Taken(c)) - 1}
        /\ Len(replies[c]) < Cardinality(Taken(c)) => pc[c] = "ended"
        /\ \A i \in Taken(c) : Turn(c, i) \in DOMAIN replies[c] =>
              LET line   == Input[c][i]
                  answer == replies[c][Turn(c, i)]
              IN /\ answer.id = IF line.kind = "syntax" THEN 0 ELSE line.id
                 /\ answer.ok => line.kind = "ask"

\* No line, redirect loop or held lock keeps a loop for ever: the deadline covers the whole
\* exchange, and the lock is never held while waiting.
EveryLineSettled == \A c \in Callers : pc[c] \in AtHosts ~> pc[c] \in {"idle", "ended"}
=============================================================================
