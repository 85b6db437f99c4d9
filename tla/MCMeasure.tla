------------------------------ MODULE MCMeasure ------------------------------
(* A browser that goes through three versions: one that does not say it       *)
(* navigates by itself, the one the shipped profile is of, and one that       *)
(* differs from it in an order JA4 keeps and in its headers.                  *)
EXTENDS Measure

F(n, v) == [name |-> n, value |-> v]
Ext(t, d) == [type |-> t, data |-> d]

Hello(sigAlgs) ==
    [version |-> 771, ciphers |-> <<Slot, 4865, 4866>>,
     extensions |-> <<Ext(Slot, <<>>), Ext(ExtServerName, <<Host>>),
                      Ext(ExtSupportedGroups, <<Slot, 29>>),
                      Ext(ExtSignatureAlgorithms, sigAlgs), Ext(ExtALPN, <<"h2", "http/1.1">>)>>]
Preamble(fields) ==
    [settings |-> <<<<1, 65536>>, <<4, 6291456>>>>, window |-> 15663105, priorities |-> <<>>,
     headerPriority |-> <<0, 255>>,
     fields |-> <<F(":method", "GET"), F(":authority", Host), F(":scheme", "https"), F(":path", "/")>>
                \o fields]
Fetch(user) == <<F("sec-fetch-site", "none"), F("sec-fetch-mode", "navigate")>>
               \o user \o <<F("sec-fetch-dest", "document")>>
User == <<F("sec-fetch-user", "?1")>>

\* On HTTP/1.1 the languages are others, and a connection header comes in.
Browser(agent, sigAlgs, user) ==
    [hello |-> Hello(sigAlgs), agent |-> agent,
     http2 |-> Preamble(<<F("user-agent", agent), F("accept-language", "de")>> \o Fetch(user)),
     http1 |-> <<F("host", Host), F("connection", "keep-alive"), F("user-agent", agent)>>
               \o Fetch(user) \o <<F("accept-language", "en")>>]

MCSends == <<Browser("ua1", <<1027, 2052>>, <<>>), Browser("ua2", <<1027, 2052>>, User),
             Browser("ua3", <<2052, 1027>>, User)>>
MCVariations == {[grease |-> 2570, reversed |-> FALSE, cut |-> 0],
                 [grease |-> 6682, reversed |-> TRUE, cut |-> 3]}
MCNameFor == "ua1" :> <<"chrome", "1">> @@ "ua2" :> <<"chrome", "2">> @@ "ua3" :> <<"chrome", "3">>
MCCatalogue == <<"chrome", "9">> :> [hello |-> Hello(<<1027, 2052>>), http2 |-> Preamble(<<>>)]
MCPlatforms == <<"linux", "macos", "windows">>
MCNumber == "1" :> 1 @@ "2" :> 2 @@ "3" :> 3 @@ "4" :> 4 @@ "9" :> 9

\* A profile of the second version, whatever it drew when it was measured.
Shipped(name) ==
    LET v == CHOOSE v \in MCVariations : v.reversed
    IN FromCapture(name, [raw |-> HelloRecords(Drawn(MCSends[2].hello, v), v), http2 |-> MCSends[2].http2,
                       http1 |-> MCSends[2].http1, agent |-> "ua2", of |-> [base |-> None, by |-> <<2, 2>>]])

MCEmbedded == [flat |-> <<>>, dirs |-> <<"chrome", "2">> :> ("linux" :> Shipped(<<"chrome", "2", "linux">>))]
MCFiles == <<"./kept.json">> :> Shipped(<<"kept">>)
MCGiven == {None, <<"mine", "windows">>}
MCAsked == {None, Local, <<"chrome", "9">>, <<"./kept.json">>}
MCByHand == {[name |-> Local, content |-> Broken], [name |-> <<"chrome", "4">>, content |-> Broken]}
MCAdded == {Shipped(<<"chrome", "3">>)}

\* The versions can be told apart, the entry of the catalogue is the second version without
\* its headers, and what is shipped loads.
ASSUME VersionsDiffer == \A b, c \in DOMAIN MCSends : MCSends[b] = MCSends[c] => b = c
ASSUME CatalogueIsBare ==
    \A n \in DOMAIN MCCatalogue : MCCatalogue[n] = [hello |-> MCSends[2].hello, http2 |-> Preamble(<<>>)]
ASSUME ShippedLoads ==
    \A p \in {Lookup(MCEmbedded, <<"chrome", "2">>), MCFiles[<<"./kept.json">>]} \cup MCAdded :
      Stored(p) = p
=============================================================================
