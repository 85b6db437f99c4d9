------------------------------ MODULE MCClient ------------------------------
(* Two loops, three hosts, one session and one profile, measured on both protocols. *)
EXTENDS Client

CONSTANTS l1, l2, a, sub, ip

F(name, value) == [name |-> name, value |-> value]
L(kind, id, host, given, order, cookies) ==
    [kind |-> kind, id |-> id, host |-> host, headers |-> given, order |-> order, cookies |-> cookies]
NoHeaders == [n \in {} |-> ""]

MCHosts == {a, sub, ip}
MCUnder == {<<h, h>> : h \in MCHosts} \cup {<<sub, a>>}
MCWarm == {[name |-> "s", domain |-> a], [name |-> "s", domain |-> NoDomain], [name |-> "s", domain |-> ip]}
MCSettable == {[name |-> "s", scope |-> a, hostOnly |-> FALSE]}
MCShared == <<F("ua", "h2"), F("accept", "h2"), F("priority", "h2")>>
MCHTTP1 == [order |-> <<"host", "connection", "accept", "ua">>, headers |-> <<F("connection", "h1"), F("accept", "h1")>>]
MCExtra == <<F("x-team", "own")>>
MCConfigs == {[http1 |-> TRUE, jar |-> TRUE], [http1 |-> FALSE, jar |-> FALSE]}
MCInput ==
    (l1 :> <<L("ask", 1, a, [n \in {"ua", "authorization", "cookie"} |-> "mine"], <<>>, {}),
             L("blank", 0, a, NoHeaders, <<>>, {}),
             L("syntax", 2, a, NoHeaders, <<>>, {}),
             L("ask", 3, ip, NoHeaders, <<>>, {})>>)
 @@ (l2 :> <<L("ask", 1, a, NoHeaders, <<>>, {}),
             L("shape", 2, a, NoHeaders, <<>>, {}),
             L("ask", 3, sub, [n \in {"priority", "authorization"} |-> "mine"], <<"priority">>, {"s"}),
             L("toolong", 4, a, NoHeaders, <<>>, {})>>)
=============================================================================
