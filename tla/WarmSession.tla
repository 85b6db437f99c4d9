---------------------------- MODULE WarmSession ----------------------------
(***************************************************************************)
(* The cookies of a client (src/client.go): the session it was handed,     *)
(* filed into the jar when a host it belongs to is first asked             *)
(* (seedWarmCookies), the cookies given with one request (seedCookies),    *)
(* and what the sites set meanwhile.                                       *)
(*                                                                         *)
(* The jar is external: one value per name and scope.  A value is          *)
(* where it came from: "warm" (the session), "given" (a request) or "site" *)
(* (a site set or deleted it).                                             *)
(***************************************************************************)
EXTENDS FiniteSets

CONSTANTS Callers,    \* goroutines in Client.Do
          Hosts,
          Addresses,  \* the hosts that are IP addresses
          Under,      \* pairs <<h, d>>: h is d or a subdomain of it
          Names,      \* cookie names
          Warm,       \* the session: records [name, domain]
          Settable,   \* the keys of the jar that sites set (a bound)
          NoDomain,   \* Cookie.Domain of a cookie given as a bare name and value
          Nobody      \* warmMu is free

\* A domain of the session is a host; every host is under itself.
ASSUME WarmAssumption ==
    /\ Nobody \notin Callers
    /\ NoDomain \notin Hosts
    /\ Warm \subseteq [name : Names, domain : Hosts \cup {NoDomain}]
    /\ Under \subseteq Hosts \X Hosts
    /\ \A h \in Hosts : <<h, h>> \in Under
    /\ \A h \in Hosts, a \in Addresses : <<h, a>> \in Under => h = a
    /\ Settable \subseteq [name : Names, scope : Hosts, hostOnly : BOOLEAN]

VARIABLES jar,     \* the value of each key, "none" when the jar has none
          seeded,  \* warmSeeded: the keys filed or being filed
          warmMu,  \* the goroutine holding warmMu, or Nobody
          ready    \* the keys the holder of warmMu has taken to file

warmVars == <<jar, seeded, warmMu, ready>>

JarValues == {"none", "warm", "given", "site"}
JarKeys == [name : Names, scope : Hosts, hostOnly : BOOLEAN]

-----------------------------------------------------------------------------
(* Scopes. *)

\* The key the jar files a cookie under when it is set for host h; a domain that spells
\* the address asked is the host-only cookie it represents.
JarKey(w, h) ==
    LET hostOnly == w.domain = NoDomain \/ (w.domain \in Addresses /\ w.domain = h)
    IN [name |-> w.name, scope |-> IF hostOnly THEN h ELSE w.domain, hostOnly |-> hostOnly]

\* Whether a cookie of the session belongs to the host asked.
Belongs(w, h) == w.domain = NoDomain \/ <<h, w.domain>> \in Under

\* Mutant: every cookie is seeded once per host
SeedKeyPerHost(w, h) == <<w, h>>
\* warmCookieKey: a cookie without a domain is seeded once per host, others once in all.
SeedKey(w, h) == <<w, IF w.domain = NoDomain THEN h ELSE NoDomain>>

\* Which keys of the jar belong to a request to h: it carries them, its site may set them.
InScope(k, h) == IF k.hostOnly THEN k.scope = h ELSE <<h, k.scope>> \in Under

-----------------------------------------------------------------------------
WarmInit ==
    /\ jar = [k \in JarKeys |-> "none"]
    /\ seeded = {}
    /\ warmMu = Nobody
    /\ ready = {}

\* seedWarmCookies up to the call of seedCookies: take the lock, and take the cookies of
\* this host that no request has taken before.
TakeWarm(c, h) ==
    /\ warmMu = Nobody
    /\ warmMu' = c
    /\ LET fresh == {w \in Warm : Belongs(w, h) /\ SeedKey(w, h) \notin seeded}
       IN /\ ready' = {JarKey(w, h) : w \in fresh}
          /\ seeded' = seeded \cup {SeedKey(w, h) : w \in fresh}
    /\ UNCHANGED jar

\* seedCookies for what was taken, and the deferred unlock.
FileWarm(c) ==
    /\ warmMu = c
    /\ jar' = [k \in JarKeys |-> IF k \in ready THEN "warm" ELSE jar[k]]
    /\ warmMu' = Nobody
    /\ ready' = {}
    /\ UNCHANGED seeded

\* seedCookies for the cookies of one request, which come as bare names and values.
FileGiven(names, h) ==
    /\ jar' = [k \in JarKeys |->
                 IF k.hostOnly /\ k.scope = h /\ k.name \in names THEN "given" ELSE jar[k]]
    /\ UNCHANGED <<seeded, warmMu, ready>>

\* A response of h sets or deletes one cookie, or none.
SiteSets(h) ==
    /\ \/ UNCHANGED jar
       \/ \E k \in Settable : InScope(k, h) /\ jar' = [jar EXCEPT ![k] = "site"]
    /\ UNCHANGED <<seeded, warmMu, ready>>

-----------------------------------------------------------------------------
WarmTypeOK ==
    /\ jar \in [JarKeys -> JarValues]
    /\ seeded \subseteq Warm \X (Hosts \cup {NoDomain})
    /\ warmMu \in Callers \cup {Nobody}
    /\ ready \subseteq JarKeys

\* Whether all the session holds for h is in the jar, or was replaced there since.
WarmFiled(h) == \A w \in Warm : Belongs(w, h) => jar[JarKey(w, h)] # "none"

\* Whether w was filed for h, and nothing is about to be filed in its place.
Filed(w, h) == Belongs(w, h) /\ SeedKey(w, h) \in seeded /\ JarKey(w, h) \notin ready
=============================================================================
