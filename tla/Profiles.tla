------------------------------- MODULE Profiles -------------------------------
(***************************************************************************)
(* A capture made into a profile, a profile read from a file, and what a   *)
(* client that wears it sends (src/profile/fromcapture.go, profile.go).    *)
(*                                                                         *)
(* A profile is [name, agent, raw, base, http2, headers, http1, of]: raw   *)
(* is its ClientHello record or None, base a name of the catalogue or      *)
(* None, http2 [settings, window, pseudo, priorities, headerPriority] or   *)
(* None, http1 [order, headers] or None, and of, for the properties, whom  *)
(* it was measured from.                                                   *)
(***************************************************************************)
EXTENDS Fingerprint

CONSTANTS Slot,       \* where a template of a hello has a GREASE value
          Catalogue,  \* the profiles of tls-client: name -> [hello, http2]
          Known,      \* the extensions utls has a type of its own for
          Shuffling,  \* the words and the agents of browsers that shuffle their extensions
          Host        \* the value of the host of a measurement

-----------------------------------------------------------------------------
(* From a capture. *)

\* perRequest: what describes the request measured and not the browser.
PerRequest == {"cookie", "host", "content-length", "content-type", "referer", "origin",
               "cache-control", "pragma"}

\* http1FromCapture: the names in the order they came first, and the fields of those whose
\* values are not those of the shared block.
HTTP1FromCapture(measured, shared) ==
    LET own == SelectSeq(measured, LAMBDA f : f.name \notin PerRequest \ {"host"})
        Differs(n) == n # "host" /\ Values(own, n) # Values(shared, n)
        names == SelectSeq(Distinct(own), Differs)
    IN IF own = <<>> THEN None
       ELSE [order   |-> Distinct(own),
             headers |-> FlattenSeq([i \in DOMAIN names |-> Fields(own, names[i])])]

\* FromCapture: None where it refuses the capture.
FromCapture(name, capture) ==
    IF capture.raw = None \/ capture.http2 = None THEN None
    ELSE IF ParseRaw(capture.raw) = None
            \/ HasExtension(ParseRaw(capture.raw).hello, ExtPreSharedKey) THEN None
    ELSE LET h2     == capture.http2
             shared == SelectSeq(Regular(h2.fields), LAMBDA f : f.name \notin PerRequest)
         IN [name    |-> name,
             agent   |-> capture.agent,
             raw     |-> capture.raw,
             base    |-> None,
             http2   |-> [settings |-> h2.settings, window |-> h2.window,
                          pseudo |-> NamesOf(Pseudo(h2.fields)), priorities |-> h2.priorities,
                          headerPriority |-> h2.headerPriority],
             headers |-> shared,
             http1   |-> IF capture.http1 = None THEN None
                         ELSE HTTP1FromCapture(capture.http1, shared),
             of      |-> capture.of]

-----------------------------------------------------------------------------
(* Its validity. *)

\* isBareBase
IsBareBase(p) == p.base # None /\ p.raw = None /\ p.http2 = None

\* validatePseudoHeaderOrder: each of the four, once.
ValidPseudo(p) == Len(p.http2.pseudo) = 4 /\ ToSet(p.http2.pseudo) = PseudoNames

\* validateHTTP1
ValidHTTP1(p) ==
    p.http1 # None =>
      /\ p.http1.order # <<>>
      /\ IsInjective(p.http1.order)
      /\ p.http1.order[1] = "host"
      /\ \A i \in DOMAIN p.http1.headers :
           LET n == p.http1.headers[i].name IN n # "host" /\ n \in ToSet(p.http1.order)

\* Load: what a file that holds p is read as.
Loads(p) == (IsBareBase(p) \/ ValidPseudo(p)) /\ ValidHTTP1(p)

-----------------------------------------------------------------------------
(* Worn. *)

\* The template of a hello: utls puts a fresh GREASE value in each slot of it.
Ungrease(values) == [i \in DOMAIN values |-> IF IsGREASE(values[i]) THEN Slot ELSE values[i]]
Greased == {ExtSupportedGroups, ExtSupportedVersions, ExtKeyShare}
Template(hello) ==
    [version    |-> hello.version,
     ciphers    |-> Ungrease(hello.ciphers),
     extensions |-> [i \in DOMAIN hello.extensions |->
        LET e == hello.extensions[i]
        IN [type |-> IF IsGREASE(e.type) THEN Slot ELSE e.type,
            data |-> IF e.type \in Greased THEN Ungrease(e.data) ELSE e.data]]]

\* Profile.Spec: the captured hello, all of whose extensions can be written afresh (trust_anchors
\* in the order of the process), or that of the base; None is its errors.
HelloSpec(p) ==
    IF p.raw # None
    THEN LET hello == Template(ParseRaw(p.raw).hello)
         IN IF ToSet(ExtensionTypes(hello)) \subseteq Known \cup {Slot, ExtTrustAnchors}
            THEN hello ELSE None
    ELSE IF p.base \in DOMAIN Catalogue THEN Catalogue[p.base].hello ELSE None

\* ClientProfile: can a client be made of it.
Wearable(p) ==
    /\ ValidHTTP1(p)
    /\ IF IsBareBase(p) THEN p.base \in DOMAIN Catalogue ELSE HelloSpec(p) # None /\ ValidPseudo(p)

\* ShufflesExtensions: by the name, the base or the agent.
Words(name) == IF name = None THEN {} ELSE ToSet(name)
Shuffles(p) == (Words(p.name) \cup Words(p.base) \cup {p.agent}) \cap Shuffling # {}

\* What the client sends to a measurement (Client.tla has how the layout comes about): a
\* bare base what the catalogue says, with no header of its own; else what was measured.
Sent(layout) ==
    FlattenSeq([i \in DOMAIN layout.order |->
        LET n == layout.order[i]
        IN [j \in DOMAIN layout.values[n] |-> [name |-> n, value |-> layout.values[n][j]]]])
WornHTTP1(p) ==
    IF p.http1 = None THEN Sent(LegacyLayout(p.headers, Host))
    ELSE Sent(MeasuredLayout(HTTP1Headers(p.headers, p.http1), p.http1.order, Host))
WornHTTP2(p) ==
    IF IsBareBase(p) THEN Catalogue[p.base].http2
    ELSE [settings |-> p.http2.settings, window |-> p.http2.window,
          priorities |-> p.http2.priorities, headerPriority |-> p.http2.headerPriority,
          fields |-> [i \in 1..4 |-> [name |-> p.http2.pseudo[i], value |-> Host]] \o p.headers]
=============================================================================
