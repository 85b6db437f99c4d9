------------------------------- MODULE Measure -------------------------------
(***************************************************************************)
(* A browser measured, the measurement kept as a profile or compared with  *)
(* a client that wears one: tls-forge capture and compare (src/measure.go, *)
(* src/cmd/tls-forge/capture.go, compare.go, local.go), the recorder their *)
(* hellos go through (src/echo/conn.go) and the registry the profiles are  *)
(* looked up in, by them and by the commands that wear one on the network. *)
(*                                                                         *)
(* One command runs at a time, in a process of its own; the browser may be *)
(* updated at any time, and files put into the directory of the machine by *)
(* hand.  A version of the browser is what it sends; a variation is what   *)
(* it draws for one connection.                                            *)
(***************************************************************************)
EXTENDS Registry

CONSTANTS Versions,    \* how many versions the browser goes through
          Sends,       \* what each sends: version -> [hello, http2, http1, agent]
          Variations,  \* what a hello varies in: [grease, reversed, cut]
          NameFor,     \* profileNameFor: agent -> name
          Given,       \* names given with --name, None for none
          Asked,       \* names given with --profile, None for none
          ByHand,      \* files put by hand: [name, content]
          Added,       \* profiles a program registers
          MaxSaves, MaxByHand  \* bounds

VARIABLES browser,   \* the version of the browser
          conn,      \* the connection whose hello is recorded, or None
          cmd,       \* the command: its stage, what it has measured so far
          dir,       \* the directory of this machine
          added,     \* Registry.added, of a program that registers profiles
          saved,     \* what the last command to save has saved, or None
          verdict,   \* what the last command said, if it was a comparison, or None
          saves, hands

vars == <<browser, conn, cmd, dir, added, saved, verdict, saves, hands>>

Local == <<"local">>
Default == <<"chrome">>
Idle == [stage |-> "idle"]

\* A map in which the value of a key has been set.
With(map, key, value) == [k \in DOMAIN map \cup {key} |-> IF k = key THEN value ELSE map[k]]

-----------------------------------------------------------------------------
(* On the wire. *)

\* The hello a template becomes on one connection.
Drawn(hello, v) ==
    LET Fill(values) == [i \in DOMAIN values |-> IF values[i] = Slot THEN v.grease ELSE values[i]]
        filled == [i \in DOMAIN hello.extensions |->
                     LET e == hello.extensions[i]
                     IN [type |-> IF e.type = Slot THEN v.grease ELSE e.type,
                         data |-> IF e.type \in Greased THEN Fill(e.data) ELSE e.data]]
    IN [version |-> hello.version, ciphers |-> Fill(hello.ciphers),
        extensions |-> IF v.reversed THEN Reverse(filled) ELSE filled]

\* The records of it, cut into two, and what follows it on the connection.
HelloRecords(hello, v) ==
    LET body == <<[field |-> "version", value |-> hello.version],
                  [field |-> "ciphers", value |-> hello.ciphers]>>
                \o [i \in DOMAIN hello.extensions |->
                      [field |-> "extension", value |-> hello.extensions[i]]]
        units == <<[field |-> "hello", value |-> None], [field |-> "length", value |-> Len(body)]>>
                 \o body
    IN <<[type |-> "handshake", payload |-> SubSeq(units, 1, v.cut)],
         [type |-> "handshake", payload |-> SubSeq(units, v.cut + 1, Len(units))]>>
After == <<[type |-> "change cipher spec", payload |-> <<[field |-> "one", value |-> None]>>]>>
Stream(hello, v) == HelloRecords(hello, v) \o After

-----------------------------------------------------------------------------
(* The recorder. *)

\* Mutant: it gives up before it looks
RecordGivingUp(c, arrived) ==
    IF c.done THEN [c EXCEPT !.arrived = arrived]
    ELSE IF arrived > MaxRecorded THEN [c EXCEPT !.arrived = arrived, !.done = TRUE]
    ELSE LET parsed == Parse(c.stream, arrived)
         IN [c EXCEPT !.arrived = arrived, !.hello = parsed, !.done = parsed # None]
\* recordingConn.Read: what has arrived is parsed until it is a hello, or too much.
Record(c, arrived) ==
    IF c.done THEN [c EXCEPT !.arrived = arrived]
    ELSE LET parsed == Parse(c.stream, arrived)
         IN [c EXCEPT !.arrived = arrived, !.hello = parsed,
                      !.done = parsed # None \/ arrived > MaxRecorded]

Recorded(stream) ==
    Record([stream |-> stream, arrived |-> 0, hello |-> None, done |-> FALSE], End(stream, Len(stream)))
RawOf(hello) == IF hello = None THEN None ELSE hello.raw

-----------------------------------------------------------------------------
(* A browser measured. *)

\* validateColdHTTP1: the last field of each name says a navigation of its own.
Cold(http1) ==
    \A f \in {[name |-> "sec-fetch-site", value |-> "none"],
              [name |-> "sec-fetch-mode", value |-> "navigate"],
              [name |-> "sec-fetch-user", value |-> "?1"],
              [name |-> "sec-fetch-dest", value |-> "document"]} :
        LET values == Values(http1, f.name) IN values # <<>> /\ Last(values) = f.value

Init ==
    /\ browser = 1
    /\ conn = None
    /\ cmd = Idle
    /\ dir = [flat |-> <<>>, dirs |-> <<>>]
    /\ added = <<>>
    /\ saved = None
    /\ verdict = None
    /\ saves = 0
    /\ hands = 0

\* The browser is updated.
Update ==
    /\ browser < Versions
    /\ browser' = browser + 1
    /\ UNCHANGED <<conn, cmd, dir, added, saved, verdict, saves, hands>>

\* The first navigation of MeasureBrowserAt, to the HTTP/1.1 listener; the measurement ends
\* when it was not a cold one.
MeasureHTTP1 ==
    /\ cmd = Idle
    /\ cmd' = IF Cold(Sends[browser].http1) THEN [stage |-> "http1", by |-> browser] ELSE Idle
    /\ verdict' = None
    /\ UNCHANGED <<browser, conn, dir, added, saved, saves, hands>>

\* The second: a browser of its own connects to the HTTP/2 listener.
Open(v) ==
    /\ cmd.stage = "http1"
    /\ cmd' = [stage |-> "loading", by |-> <<cmd.by, browser>>]
    /\ LET hello == Drawn(Sends[browser].hello, v)
       IN conn' = [stream |-> Stream(hello, v), arrived |-> 0, hello |-> None, done |-> FALSE,
                   sent |-> [raw |-> HelloRecords(hello, v), hello |-> hello]]
    /\ UNCHANGED <<browser, dir, added, saved, verdict, saves, hands>>

\* recordingConn.Read of any part of what is left.
Read ==
    /\ cmd.stage = "loading"
    /\ \E arrived \in (conn.arrived + 1)..End(conn.stream, Len(conn.stream)) :
         conn' = Record(conn, arrived)
    /\ UNCHANGED <<browser, cmd, dir, added, saved, verdict, saves, hands>>

\* Session.Capture of the second navigation, with the request of the first.
Captured(by, raw) ==
    [raw   |-> raw,
     http2 |-> Sends[by[2]].http2,
     http1 |-> Sends[by[1]].http1,
     agent |-> Sends[by[2]].agent,
     of    |-> [base |-> None, by |-> by]]

\* The page has loaded.
Loaded ==
    /\ cmd.stage = "loading"
    /\ conn.arrived = End(conn.stream, Len(conn.stream))
    /\ cmd' = [stage |-> "measured", capture |-> Captured(cmd.by, RawOf(conn.hello))]
    /\ conn' = None
    /\ UNCHANGED <<browser, dir, added, saved, verdict, saves, hands>>

\* A navigation that takes too long or is interrupted ends the command, and so does one that
\* only prints what it measured, or cannot save it.
GiveUp ==
    /\ cmd # Idle
    /\ cmd' = Idle
    /\ conn' = None
    /\ UNCHANGED <<browser, dir, added, saved, verdict, saves, hands>>

-----------------------------------------------------------------------------
(* Kept. *)

\* saveProfile into the directory of the machine, as <version>/<platform>.json.
Save(name) ==
    LET at    == Split(name)
        there == IF at.version \in DOMAIN dir.dirs THEN dir.dirs[at.version] ELSE <<>>
    IN /\ cmd.stage = "measured"
       /\ saves < MaxSaves
       /\ \E p \in {FromCapture(Append(at.version, at.platform), cmd.capture)} \ {None} :
            /\ dir' = [dir EXCEPT !.dirs = With(@, at.version, With(there, at.platform, Stored(p)))]
            /\ saved' = [version |-> at.version, platform |-> at.platform, profile |-> p]
       /\ saves' = saves + 1
       /\ cmd' = Idle
       /\ UNCHANGED <<browser, conn, added, verdict, hands>>

\* runCapture --install: "local", unless a name is given.
Install(name) == Save(IF name = None THEN Local ELSE name)
\* runCapture --save: the name the user agent says, unless one is given.
SaveAs(name) == cmd.stage = "measured" /\ Save(IF name = None THEN NameFor[cmd.capture.agent] ELSE name)

\* A file is put into the directory by hand; a program registers a profile.
PutFile(f) ==
    /\ hands < MaxByHand
    /\ dir' = [dir EXCEPT !.flat = With(@, f.name, f.content)]
    /\ hands' = hands + 1
    /\ UNCHANGED <<browser, conn, cmd, added, saved, verdict, saves>>
Register(p) ==
    /\ hands < MaxByHand
    /\ added' = With(added, p.name, p)
    /\ hands' = hands + 1
    /\ UNCHANGED <<browser, conn, cmd, dir, saved, verdict, saves>>

-----------------------------------------------------------------------------
(* Compared. *)

\* defaultProfileName: what this machine's browser was measured as, if it was.
DefaultName == IF IsMeasured(Get(added, dir, Local)) THEN Local ELSE Default

\* fetch, batch, proxy and daemon settle which name they wear ...
Settle(name) ==
    /\ cmd = Idle
    /\ cmd' = [stage |-> "named", asked |-> name, name |-> IF name = None THEN DefaultName ELSE name]
    /\ verdict' = None
    /\ UNCHANGED <<browser, conn, dir, added, saved, saves, hands>>

\* ... and New makes a client of the profile it has by then, until they end (GiveUp).
Run ==
    /\ cmd.stage = "named"
    /\ \E p \in {Get(added, dir, cmd.name)} :
         cmd' = IF IsProfile(p) /\ Wearable(p)
                THEN [stage |-> "runs", asked |-> cmd.asked, profile |-> p] ELSE Idle
    /\ UNCHANGED <<browser, conn, dir, added, saved, verdict, saves, hands>>

\* CompareToBrowser, once the browser is measured, and New in MeasureSelfAt, with the profile
\* of the name, "chrome" when there is none, whatever this machine was measured as: no
\* comparison when there is no such profile or no client is made of it.
Wear(name) ==
    /\ cmd.stage = "measured"
    /\ \E p \in {Get(added, dir, IF name = None THEN Default ELSE name)} :
         cmd' = IF IsProfile(p) /\ Wearable(p)
                THEN [stage |-> "worn", browser |-> cmd.capture, profile |-> p] ELSE Idle
    /\ UNCHANGED <<browser, conn, dir, added, saved, verdict, saves, hands>>

\* MeasureSelfAt: the client sends a request to the HTTP/1.1 listener, ...
MeasureSelfHTTP1 ==
    /\ cmd.stage = "worn"
    /\ cmd' = [stage |-> "half", browser |-> cmd.browser, profile |-> cmd.profile,
               http1 |-> WornHTTP1(cmd.profile)]
    /\ UNCHANGED <<browser, conn, dir, added, saved, verdict, saves, hands>>

\* ... then one to the other, and is told what the recorder has of that connection.
MeasureSelf(v) ==
    LET p == cmd.profile
    IN /\ cmd.stage = "half"
       /\ v.reversed => Shuffles(p)
       /\ cmd' = [stage   |-> "both",
                  browser |-> cmd.browser,
                  client  |-> [raw   |-> RawOf(Recorded(Stream(Drawn(HelloSpec(p), v), v)).hello),
                               http2 |-> WornHTTP2(p),
                               http1 |-> cmd.http1,
                               agent |-> p.agent,
                               of    |-> p.of]]
       /\ UNCHANGED <<browser, conn, dir, added, saved, verdict, saves, hands>>

\* Compare: no verdict when a hello is missing.
Judge ==
    /\ cmd.stage = "both"
    /\ \E report \in {Compare(cmd.browser, cmd.client)} :
         verdict' = IF report = None THEN None
                    ELSE [browser |-> cmd.browser.of, client |-> cmd.client.of, ok |-> OK(report)]
    /\ cmd' = Idle
    /\ UNCHANGED <<browser, conn, dir, added, saved, saves, hands>>

-----------------------------------------------------------------------------
Next ==
    \/ Update
    \/ MeasureHTTP1
    \/ \E v \in Variations : Open(v)
    \/ Read
    \/ Loaded
    \/ GiveUp
    \/ \E n \in Given : Install(n) \/ SaveAs(n)
    \/ \E f \in ByHand : PutFile(f)
    \/ \E p \in Added : Register(p)
    \/ \E n \in Asked : Settle(n) \/ Wear(n)
    \/ Run
    \/ MeasureSelfHTTP1
    \/ \E v \in Variations : MeasureSelf(v)
    \/ Judge

Spec == Init /\ [][Next]_vars

-----------------------------------------------------------------------------
(* What the proofs take for granted of the browser, the names and the files. *)

\* There is a browser; a hello is lists, and cut before its end; what is never given up is
\* short enough for a handshake (maxRecordedHello is half of maxHandshakeSize).
ASSUME RecorderAssumption ==
    /\ Versions \in Nat \ {0}
    /\ MaxRecorded \in Nat /\ MaxHandshake \in Nat /\ MaxRecorded <= MaxHandshake + 2
    /\ \A b \in 1..Versions :
         LET e == Sends[b].hello.extensions
         IN /\ e \in Seq(ToSet(e))
            /\ \A v \in Variations : v.cut \in 0..(Len(e) + 3) /\ Drawn(Sends[b].hello, v) # None

\* The names a profile is saved under: none is the path of a file, nor is the version of
\* one what another is with its platform.
SavedAs == {Local} \cup (Given \ {None}) \cup {NameFor[Sends[b].agent] : b \in 1..Versions}
Full(name) == Append(Split(name).version, Split(name).platform)
ASSUME NamesAssumption ==
    /\ HostPlatform \in STRING
    /\ \A n \in SavedAs :
         /\ n \in Seq(STRING) /\ n # <<>>
         /\ {Split(n).version, Full(n)} \cap DOMAIN Files = {}
         /\ \A m \in SavedAs : Full(n) # Split(m).version

\* What a measurement records makes a profile that loads, or none.
ASSUME ProfilesAssumption ==
    \A n \in SavedAs, by \in (1..Versions) \X (1..Versions), v \in Variations :
        LET raw == HelloRecords(Drawn(Sends[by[2]].hello, v), v)
            p   == FromCapture(Full(n), Captured(by, raw))
        IN p # None => Loads(p) /\ p \notin {Broken, NotFound}

\* The names there are before anything is saved are names, finitely many, and no number in
\* one is negative.
NamesThere == NamesIn(Embedded) \cup DOMAIN Catalogue
ASSUME FamiliesAssumption ==
    /\ IsFiniteSet(NamesThere)
    /\ None \notin NamesThere \cup {f.name : f \in ByHand} \cup {p.name : p \in Added}
                  \cup {Split(n).version : n \in SavedAs} \cup {Full(n) : n \in SavedAs}
    /\ Number \in [DOMAIN Number -> Nat]

-----------------------------------------------------------------------------
(* Properties. *)

\* However the kernel splits what a browser sends, the recorder has the hello of it and the
\* records it took, no byte more, once all of it has been read (recordingConn.Read), and
\* nothing else before; a hello of up to maxRecordedHello is never given up.
RecorderBlindToSplit ==
    conn # None =>
      /\ conn.hello \in {None, conn.sent}
      /\ (conn.arrived = End(conn.stream, Len(conn.stream))
          /\ End(conn.sent.raw, Len(conn.sent.raw)) <= MaxRecorded) => conn.hello = conn.sent

\* What can be told of a browser apart from what it draws for a connection: its hello with
\* the extensions in no order, its preamble with the names of the pseudo headers (of the
\* priority on HEADERS nothing is said), its request with the name of the host.
Look(hello, http2, http1) ==
    <<[hello EXCEPT !.extensions = [t \in ToSet(ExtensionTypes(hello)) |-> ListIn(hello, t)]],
      http2.settings, http2.window, http2.priorities, NamesOf(Pseudo(http2.fields)),
      Regular(http2.fields), NamesOf(http1), SelectSeq(http1, LAMBDA f : f.name # "host")>>
LookOf(of) ==
    IF of.base # None
    THEN Look(Catalogue[of.base].hello, Catalogue[of.base].http2, <<[name |-> "host", value |-> Host]>>)
    ELSE Look(Sends[of.by[2]].hello, Sends[of.by[2]].http2, Sends[of.by[1]].http1)

\* A comparison says that nothing differs exactly when the browser measured looks like the
\* one the worn profile was measured from, through recorder, capture, profile, file, client
\* and recorder again: neither does what a connection draws show as a difference, nor is a
\* difference lost on the way (Compare, FromCapture, HelloSpec).
VerdictExact ==
    verdict # None => (verdict.ok <=> LookOf(verdict.browser) = LookOf(verdict.client))

\* What was saved last is what its names mean from then on: the version with the platform,
\* and the version alone on the platform of this machine; it is listed; and the measurement
\* of this machine is what every command that goes to the network wears when it is given no
\* name.  Only a flat file of the name, or a profile the program registered, stands before
\* it (saveProfile, lookup, defaultProfileName, clientFlags.wear).
SavedIsWorn ==
    saved # None =>
      LET version == saved.version
          full    == Append(version, saved.platform)
          Free(n) == n \notin DOMAIN added \cup DOMAIN dir.flat
      IN /\ Free(full) => Resolve(added, dir, full) = saved.profile
         /\ Free(version) /\ saved.platform = HostPlatform =>
              /\ Resolve(added, dir, version) = saved.profile
              /\ version = Local /\ cmd.stage = "runs" /\ cmd.asked = None =>
                   cmd.profile = saved.profile
         /\ Free(version) => saved.platform \in Measured(dir)[version]

\* A family means the newest of its members that was measured, and the newest of the
\* catalogue only when none was, whatever else is kept under such names (newestInFamily).
NewestMeasured ==
    \A best \in {NewestInFamily(added, dir, Default)}, n \in Members(added, dir, Default) :
      /\ Number[Last(best.name)] >= Number[Last(n)] \/ IsMeasured(best.profile)
      /\ HasHandshake(added, dir, n) =>
           Number[Last(best.name)] >= Number[Last(n)] /\ IsMeasured(best.profile)
=============================================================================
