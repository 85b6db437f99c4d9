---------------------------- MODULE ClientProofs ----------------------------
(***************************************************************************)
(* For every set of callers, hosts, cookies, lines and headers: the        *)
(* session of a client is in the jar before a request leaves, and each of  *)
(* its cookies is filed once; the lines of a loop are answered in order;   *)
(* no hop takes a credential off the site first asked; and every hop looks *)
(* as the profile was measured on its protocol.                            *)
(*                                                                         *)
(* The first inductive invariant, IInv, says who files: only the holder of *)
(* warmMu has keys to file, every cookie marked in warmSeeded is in the    *)
(* jar or about to be, and the cookies that one host shares are marked     *)
(* together.  Answering counts the answers of a loop by the lines it took. *)
(* HopsApart keeps the credentials of the two layouts of a hop together,   *)
(* HopsMeasured the order and the values of each apart.                    *)
(***************************************************************************)
EXTENDS Client, FiniteSetTheorems, SequenceTheorems, TLAPS

After == {"seeded", "sent", "reading"}

\* Only the goroutine that is filing holds the lock, and only it has keys to file.
HolderFiles ==
    /\ \A c \in Callers : pc[c] = "filing" <=> warmMu = c
    /\ warmMu = Nobody => ready = {}

\* What is marked as seeded is in the jar, or will be before the lock is free.
MarkedIsFiled ==
    \A w \in Warm, h \in Hosts :
        Belongs(w, h) /\ SeedKey(w, h) \in seeded =>
            jar[JarKey(w, h)] # "none" \/ JarKey(w, h) \in ready

AllMarked(h) == \A w \in Warm : Belongs(w, h) => SeedKey(w, h) \in seeded

\* The holder has marked all that belongs to its host.
HolderMarked == \A c \in Callers : pc[c] = "filing" => AllMarked(Line(c).host)

\* What is host-only for a host is marked with everything else that belongs to it.
MarkedTogether ==
    \A w \in Warm, h \in Hosts :
        Belongs(w, h) /\ JarKey(w, h).hostOnly /\ SeedKey(w, h) \in seeded => AllMarked(h)

IInv ==
    /\ ClientTypeOK
    /\ HolderFiles
    /\ MarkedIsFiled
    /\ HolderMarked
    /\ MarkedTogether
    /\ WarmFirst

-----------------------------------------------------------------------------
(* Keys. *)

LEMMA KeyTypes ==
    ASSUME NEW w \in Warm, NEW h \in Hosts
    PROVE  /\ JarKey(w, h) \in JarKeys
           /\ SeedKey(w, h) \in Warm \X (Hosts \cup {NoDomain})
           /\ w.domain \in Hosts \cup {NoDomain} /\ w.name \in Names
  BY WarmAssumption, SMTT(30) DEF JarKey, JarKeys, SeedKey

\* A cookie marked under one key for two hosts is one entry of the jar.
LEMMA OneEntry ==
    ASSUME NEW w \in Warm, NEW v \in Warm, NEW h \in Hosts, NEW g \in Hosts,
           Belongs(w, h), Belongs(v, g), SeedKey(w, h) = SeedKey(v, g)
    PROVE  w = v /\ JarKey(w, h) = JarKey(v, g) /\ (JarKey(w, h).hostOnly => h = g)
<1>1. w = v /\ (w.domain = NoDomain => h = g)
  BY WarmAssumption DEF SeedKey
<1>2. CASE w.domain = NoDomain
  BY <1>1, <1>2
<1>3. CASE w.domain # NoDomain
  <2>1. <<h, w.domain>> \in Under /\ <<g, w.domain>> \in Under
    BY <1>1, <1>3 DEF Belongs
  <2>2. CASE w.domain \in Addresses
    <3>1. h = w.domain /\ g = w.domain
      BY <2>1, <2>2, WarmAssumption
    <3> QED BY <3>1, <1>1
  <2>3. CASE w.domain \notin Addresses
    BY <1>1, <1>3, <2>3 DEF JarKey
  <2> QED BY <2>2, <2>3
<1> QED BY <1>2, <1>3

\* Two cookies with one entry in the jar are one cookie, or host-only for the same host.
LEMMA SharedEntry ==
    ASSUME NEW w \in Warm, NEW v \in Warm, NEW h \in Hosts, NEW g \in Hosts,
           Belongs(w, h), Belongs(v, g), JarKey(w, h) = JarKey(v, g)
    PROVE  \/ w = v /\ SeedKey(w, h) = SeedKey(v, g)
           \/ h = g /\ JarKey(w, h).hostOnly
<1>1. JarKey(w, h).hostOnly = JarKey(v, g).hostOnly /\ JarKey(w, h).scope = JarKey(v, g).scope
      /\ w.name = v.name
  BY DEF JarKey
<1>2. CASE JarKey(w, h).hostOnly
  BY <1>1, <1>2 DEF JarKey
<1>3. CASE ~JarKey(w, h).hostOnly
  <2>1. w.domain # NoDomain /\ v.domain # NoDomain /\ w.domain = v.domain
    BY <1>1, <1>3 DEF JarKey
  <2>2. w = v
    BY <1>1, <2>1, WarmAssumption
  <2> QED BY <2>1, <2>2 DEF SeedKey
<1> QED BY <1>2, <1>3

-----------------------------------------------------------------------------
(* Steps. *)

\* What the steps of c other than Seed and File have in common: the marks, the lock and the
\* keys to file stay, no entry leaves the jar, and c comes no nearer to sending than it was
\* unless it has nothing to seed.
Quiet(c) ==
    /\ UNCHANGED <<seeded, warmMu, ready, config>>
    /\ jar' \in [JarKeys -> JarValues]
    /\ \A k \in JarKeys : jar[k] # "none" => jar'[k] # "none"
    /\ closed' \in BOOLEAN
    /\ pc' \in [Callers -> AtHosts \cup {"idle", "ended"}]
    /\ pos' \in [Callers -> Nat]
    /\ \A d \in Callers \ {c} : pc'[d] = pc[d] /\ pos'[d] = pos[d]
    /\ pc[c] # "filing" /\ pc'[c] # "filing"
    /\ pc'[c] \in AtHosts => pos'[c] = pos[c] /\ pos[c] \in DOMAIN Input[c]
    /\ pc'[c] \in After => pc[c] \in After \/ ~config.jar \/ Warm = {}

LEMMA QuietKeeps ==
    ASSUME IInv, NEW c \in Callers, Quiet(c)
    PROVE  IInv'
<1> USE DEF AtHosts, After
<1>1. /\ seeded' = seeded /\ warmMu' = warmMu /\ ready' = ready /\ config' = config
      /\ \A d \in Callers : (pc'[d] = "filing") = (pc[d] = "filing")
      /\ \A d \in Callers : pc'[d] = "filing" => pos'[d] = pos[d]
  BY DEF Quiet
<1>2. ClientTypeOK'
  <2>1. \A d \in Callers : pc'[d] \in AtHosts => pos'[d] \in DOMAIN Input[d]
    BY DEF IInv, ClientTypeOK, Quiet
  <2> QED BY <1>1, <2>1 DEF IInv, ClientTypeOK, WarmTypeOK, Quiet
<1>3. HolderFiles'
  BY <1>1 DEF IInv, HolderFiles
<1>4. MarkedIsFiled'
  BY <1>1, KeyTypes DEF IInv, MarkedIsFiled, Quiet, SeedKey, JarKey, Belongs
<1>5. HolderMarked'
  BY <1>1 DEF IInv, HolderMarked, AllMarked, Line, SeedKey, Belongs
<1>6. MarkedTogether'
  BY <1>1 DEF IInv, MarkedTogether, AllMarked, SeedKey, JarKey, Belongs
<1>7. WarmFirst'
  <2> SUFFICES ASSUME NEW d \in Callers, config'.jar, pc'[d] \in After,
                      NEW w \in Warm, Belongs(w, Line(d).host')
               PROVE  jar'[JarKey(w, Line(d).host')] # "none"
    BY DEF WarmFirst, WarmFiled, Belongs, JarKey, Line
  <2>1. pos'[d] = pos[d] /\ pc[d] \in After /\ pos[d] \in DOMAIN Input[d]
    BY <1>1, <1>2 DEF Quiet, IInv, ClientTypeOK
  <2>2. Line(d).host' = Line(d).host /\ Line(d).host \in Hosts
    BY <2>1, ClientAssumption DEF Line
  <2>3. jar[JarKey(w, Line(d).host)] # "none"
    BY <1>1, <2>1, <2>2 DEF IInv, WarmFirst, WarmFiled
  <2> QED BY <2>2, <2>3, KeyTypes DEF Quiet
<1> QED BY <1>2, <1>3, <1>4, <1>5, <1>6, <1>7 DEF IInv

\* An answer, and a step between the sites and the jar, are quiet.
LEMMA ReplyQuiet ==
    ASSUME IInv, NEW c \in Callers, NEW id, NEW ok, Reply(c, id, ok), pc[c] # "filing",
           UNCHANGED <<closed, config, warmVars>>
    PROVE  Quiet(c)
  BY DEF IInv, ClientTypeOK, WarmTypeOK, Reply, Quiet, warmVars, AtHosts, After

LEMMA SiteSetsQuiet ==
    ASSUME IInv, NEW h, JarHears(h)
    PROVE  /\ UNCHANGED <<seeded, warmMu, ready>>
           /\ jar' \in [JarKeys -> JarValues]
           /\ \A k \in JarKeys : jar[k] # "none" => jar'[k] # "none"
<1>1. Settable \subseteq JarKeys
  BY WarmAssumption DEF JarKeys
<1> QED BY <1>1 DEF JarHears, SiteSets, warmVars, IInv, ClientTypeOK, WarmTypeOK, JarValues

LEMMA SeedKeeps ==
    ASSUME IInv, NEW c \in Callers, Seed(c)
    PROVE  IInv'
<1> DEFINE g == Line(c).host
           fresh == {w \in Warm : Belongs(w, g) /\ SeedKey(w, g) \notin seeded}
<1> USE DEF AtHosts, After
<1>1. /\ pc[c] = "asked" /\ warmMu = Nobody /\ ready = {} /\ warmMu' = c
      /\ ready' = {JarKey(w, g) : w \in fresh}
      /\ seeded' = seeded \cup {SeedKey(w, g) : w \in fresh}
      /\ pc' = [pc EXCEPT ![c] = "filing"]
      /\ UNCHANGED <<jar, pos, closed, config>>
  BY DEF Seed, TakeWarm, IInv, HolderFiles
<1>2. pos[c] \in DOMAIN Input[c] /\ g \in Hosts
  BY <1>1, ClientAssumption DEF IInv, ClientTypeOK, Line
<1> HIDE DEF g
<1>3. \A v \in Warm : Belongs(v, g) => SeedKey(v, g) \in seeded'
  BY <1>1 DEF SeedKey, Belongs
<1>4. ClientTypeOK'
  BY <1>1, <1>2, KeyTypes DEF IInv, ClientTypeOK, WarmTypeOK
<1>5. HolderFiles'
  BY <1>1, WarmAssumption DEF IInv, HolderFiles, ClientTypeOK
<1>6. MarkedIsFiled'
  <2> SUFFICES ASSUME NEW w \in Warm, NEW h \in Hosts, Belongs(w, h), SeedKey(w, h) \in seeded'
               PROVE  jar[JarKey(w, h)] # "none" \/ JarKey(w, h) \in ready'
    BY <1>1 DEF MarkedIsFiled, Belongs, SeedKey, JarKey
  <2>1. CASE SeedKey(w, h) \in seeded
    BY <1>1, <2>1 DEF IInv, MarkedIsFiled
  <2>2. CASE SeedKey(w, h) \notin seeded
    <3>1. PICK v \in fresh : SeedKey(w, h) = SeedKey(v, g)
      BY <1>1, <2>2
    <3>2. JarKey(w, h) = JarKey(v, g)
      BY <1>2, <3>1, OneEntry
    <3> QED BY <1>1, <3>1, <3>2
  <2> QED BY <2>1, <2>2
<1>7. HolderMarked'
  <2> SUFFICES ASSUME NEW d \in Callers, pc'[d] = "filing"
               PROVE  AllMarked(Line(d).host)'
    BY DEF HolderMarked
  <2>1. d = c
    BY <1>1, <1>5 DEF HolderFiles
  <2> QED BY <1>1, <1>3, <2>1 DEF g, Line, AllMarked, Belongs, SeedKey
<1>8. MarkedTogether'
  <2> SUFFICES ASSUME NEW w \in Warm, NEW h \in Hosts, Belongs(w, h), JarKey(w, h).hostOnly,
                      SeedKey(w, h) \in seeded'
               PROVE  \A v \in Warm : Belongs(v, h) => SeedKey(v, h) \in seeded'
    BY DEF MarkedTogether, AllMarked, Belongs, SeedKey, JarKey
  <2>1. CASE SeedKey(w, h) \in seeded
    BY <1>1, <2>1 DEF IInv, MarkedTogether, AllMarked
  <2>2. CASE SeedKey(w, h) \notin seeded
    <3>1. PICK v \in fresh : SeedKey(w, h) = SeedKey(v, g)
      BY <1>1, <2>2
    <3>2. h = g
      BY <1>2, <3>1, OneEntry
    <3> QED BY <1>1, <3>2
  <2> QED BY <2>1, <2>2
<1>9. WarmFirst'
  BY <1>1 DEF IInv, WarmFirst, WarmFiled, Line, Belongs, JarKey
<1> QED BY <1>4, <1>5, <1>6, <1>7, <1>8, <1>9 DEF IInv

LEMMA FileKeeps ==
    ASSUME IInv, NEW c \in Callers, File(c)
    PROVE  IInv'
<1> USE DEF AtHosts, After
<1>1. /\ pc[c] = "filing" /\ warmMu = c /\ ready' = {} /\ warmMu' = Nobody
      /\ jar' = [k \in JarKeys |-> IF k \in ready THEN "warm" ELSE jar[k]]
      /\ pc' = [pc EXCEPT ![c] = "seeded"]
      /\ UNCHANGED <<seeded, pos, closed, config>>
  BY DEF File, FileWarm
<1>2. \A k \in JarKeys : jar[k] # "none" \/ k \in ready => jar'[k] # "none"
  BY <1>1
<1>3. ClientTypeOK'
  BY <1>1 DEF IInv, ClientTypeOK, WarmTypeOK, JarValues
<1>4. HolderFiles'
  BY <1>1, WarmAssumption DEF IInv, HolderFiles, ClientTypeOK
<1>5. MarkedIsFiled'
  BY <1>1, <1>2, KeyTypes DEF IInv, MarkedIsFiled, SeedKey, JarKey, Belongs
<1>6. HolderMarked'
  BY <1>1, <1>4 DEF IInv, HolderMarked, HolderFiles, AllMarked, Line, SeedKey, Belongs
<1>7. MarkedTogether'
  BY <1>1 DEF IInv, MarkedTogether, AllMarked, SeedKey, JarKey, Belongs
<1>8. WarmFirst'
  <2> SUFFICES ASSUME NEW d \in Callers, config.jar, pc'[d] \in After,
                      NEW w \in Warm, Belongs(w, Line(d).host)
               PROVE  jar'[JarKey(w, Line(d).host)] # "none"
    BY <1>1 DEF WarmFirst, WarmFiled, Belongs, JarKey, Line
  <2>1. Line(d).host \in Hosts
    BY <1>1, <1>3, ClientAssumption DEF Line, ClientTypeOK
  <2>2. CASE d = c
    <3>1. SeedKey(w, Line(c).host) \in seeded
      BY <1>1, <2>2 DEF IInv, HolderMarked, AllMarked
    <3> QED BY <1>2, <2>1, <2>2, <3>1, KeyTypes DEF IInv, MarkedIsFiled
  <2>3. CASE d # c
    BY <1>1, <1>2, <2>1, <2>3, KeyTypes DEF IInv, WarmFirst, WarmFiled
  <2> QED BY <2>2, <2>3
<1> QED BY <1>3, <1>4, <1>5, <1>6, <1>7, <1>8 DEF IInv

\* Closing the client, or a stuttering step, changes nothing the invariant speaks of but closed.
LEMMA CloseKeeps ==
    ASSUME IInv, UNCHANGED <<pc, pos, config, warmVars>>, closed' \in BOOLEAN
    PROVE  IInv'
  BY DEF IInv, ClientTypeOK, WarmTypeOK, HolderFiles, MarkedIsFiled, HolderMarked, MarkedTogether,
         AllMarked, WarmFirst, WarmFiled, Line, Belongs, SeedKey, JarKey, warmVars

\* Every step of c but Seed and File is quiet.
LEMMA OthersQuiet ==
    ASSUME IInv, NEW c \in Callers,
           \/ SkipBlank(c) \/ ServeReturns(c) \/ Refuse(c) \/ RefuseClosed(c) \/ Ask(c)
           \/ Send(c) \/ Finish(c) \/ Redirect(c) \/ Respond(c) \/ Fail(c)
    PROVE  Quiet(c)
<1>1. CASE SkipBlank(c)
  BY <1>1 DEF SkipBlank, HasLine, IInv, ClientTypeOK, WarmTypeOK, Quiet, warmVars, AtHosts, After
<1>2. CASE ServeReturns(c)
  BY <1>2 DEF ServeReturns, IInv, ClientTypeOK, WarmTypeOK, Quiet, warmVars, AtHosts, After
<1>3. CASE Refuse(c)
  BY <1>3, ReplyQuiet DEF Refuse, HasLine
<1>4. CASE RefuseClosed(c)
  BY <1>4, ReplyQuiet DEF RefuseClosed, HasLine
<1>5. CASE Ask(c)
  BY <1>5 DEF Ask, HasLine, IInv, ClientTypeOK, WarmTypeOK, Quiet, warmVars, AtHosts, After
<1>6. CASE Send(c)
  BY <1>6 DEF Send, FileGiven, IInv, ClientTypeOK, WarmTypeOK, JarValues, Quiet, AtHosts, After
<1>7. CASE Finish(c)
  <2>1. PICK ok \in BOOLEAN : Reply(c, Line(c).id, ok)
    BY <1>7 DEF Finish
  <2> QED BY <1>7, <2>1, ReplyQuiet DEF Finish
<1>8. CASE Redirect(c)
  <2>1. JarHears(hop[c].host) /\ pc[c] = "sent" /\ UNCHANGED <<pc, pos, closed, config>>
    BY <1>8 DEF Redirect
  <2> QED BY <2>1, SiteSetsQuiet DEF IInv, ClientTypeOK, Quiet, AtHosts, After
<1>9. CASE Respond(c)
  <2>1. /\ JarHears(hop[c].host) /\ pc[c] = "sent" /\ pc' = [pc EXCEPT ![c] = "reading"]
        /\ UNCHANGED <<pos, closed, config>>
    BY <1>9 DEF Respond
  <2> QED BY <2>1, SiteSetsQuiet DEF IInv, ClientTypeOK, Quiet, AtHosts, After
<1>10. CASE Fail(c)
  BY <1>10, ReplyQuiet DEF Fail
<1> QED BY <1>1, <1>2, <1>3, <1>4, <1>5, <1>6, <1>7, <1>8, <1>9, <1>10

LEMMA Inductive ==
    ASSUME IInv, [Next]_vars
    PROVE  IInv'
<1>1. CASE Close
  BY <1>1, CloseKeeps DEF Close, loopVars
<1>2. CASE UNCHANGED vars
  BY <1>2, CloseKeeps DEF vars, loopVars, IInv, ClientTypeOK
<1>3. ASSUME NEW c \in Callers, Proceed(c) \/ Redirect(c) \/ Respond(c) \/ Fail(c)
      PROVE  IInv'
  BY <1>3, OthersQuiet, QuietKeeps, SeedKeeps, FileKeeps DEF Proceed
<1> QED BY <1>1, <1>2, <1>3 DEF Next

LEMMA Initial == Init => IInv
<1> SUFFICES ASSUME Init PROVE IInv
  OBVIOUS
<1>1. ClientTypeOK
  BY DEF Init, WarmInit, ClientTypeOK, WarmTypeOK, JarValues, AtHosts
<1> QED BY <1>1, WarmAssumption DEF Init, WarmInit, IInv, HolderFiles, MarkedIsFiled, HolderMarked,
           MarkedTogether, AllMarked, WarmFirst

LEMMA Invariance == Spec => []IInv
<1>1. IInv /\ [Next]_vars => IInv'
  BY Inductive
<1> QED BY Initial, <1>1, PTL DEF Spec

-----------------------------------------------------------------------------
(* Answers. *)

Ids == {0} \cup UNION {{Input[c][i].id : i \in DOMAIN Input[c]} : c \in Callers}

\* What c has answered: each line it took before the one it is at, and the last perhaps not.
AnsweredBy(c) ==
    /\ \/ Len(replies[c]) = Cardinality(Taken(c))
       \/ pc[c] = "ended" /\ Len(replies[c]) = Cardinality(Taken(c)) - 1
    /\ \A i \in Taken(c) : Turn(c, i) \in DOMAIN replies[c] =>
          /\ replies[c][Turn(c, i)].id = IF Input[c][i].kind = "syntax" THEN 0 ELSE Input[c][i].id
          /\ replies[c][Turn(c, i)].ok => Input[c][i].kind = "ask"

\* Only a line that reached Do is at a host.
Answering ==
    /\ replies \in [Callers -> Seq([id : Ids, ok : BOOLEAN])]
    /\ \A c \in Callers : (pc[c] \in AtHosts => Line(c).kind = "ask") /\ AnsweredBy(c)

LEMMA Turns ==
    ASSUME NEW c \in Callers, pos[c] \in Nat
    PROVE  /\ IsFiniteSet(Taken(c)) /\ Cardinality(Taken(c)) \in Nat
           /\ \A i \in Taken(c) : Turn(c, i) \in Nat /\ Turn(c, i) <= Cardinality(Taken(c))
<1>1. IsFiniteSet(Taken(c))
  <2>1. IsFiniteSet(1..(pos[c] - 1))
    BY FS_Interval
  <2> QED BY <2>1, FS_Subset DEF Taken
<1>2. ASSUME NEW i \in Taken(c)
      PROVE  Turn(c, i) \in Nat /\ Turn(c, i) <= Cardinality(Taken(c))
  <2> DEFINE T == {j \in Taken(c) : j <= i}
  <2>1. T \in SUBSET Taken(c)
    OBVIOUS
  <2>2. Cardinality(T) \in Nat /\ Cardinality(T) <= Cardinality(Taken(c))
    <3> HIDE DEF T
    <3> QED BY <1>1, <2>1, FS_Subset, FS_CardinalityType
  <2> QED BY <2>2 DEF Turn
<1> QED BY <1>1, <1>2, FS_CardinalityType

\* A line that is taken is the last, and the turns of those before it stay.
LEMMA OneMoreTaken ==
    ASSUME NEW c \in Callers, pos[c] \in Nat \ {0}, pos'[c] = pos[c] + 1,
           Line(c).kind # "blank"
    PROVE  /\ Taken(c)' = Taken(c) \cup {pos[c]}
           /\ Cardinality(Taken(c)') = Cardinality(Taken(c)) + 1
           /\ \A i \in {pos[c]} : Turn(c, i)' = Cardinality(Taken(c)) + 1
           /\ \A i \in Taken(c) : Turn(c, i)' = Turn(c, i)
<1>1. Taken(c)' = Taken(c) \cup {pos[c]} /\ pos[c] \notin Taken(c)
  BY DEF Taken, Line
<1>2. IsFiniteSet(Taken(c))
  BY Turns
<1>3. Cardinality(Taken(c)') = Cardinality(Taken(c)) + 1
  BY <1>1, <1>2, FS_AddElement
<1>4. \A i \in {pos[c]} : {j \in Taken(c)' : j <= i} = Taken(c)'
  BY <1>1 DEF Taken
<1>5. \A i \in Taken(c) : {j \in Taken(c)' : j <= i} = {j \in Taken(c) : j <= i}
  BY <1>1 DEF Taken
<1> QED BY <1>1, <1>3, <1>4, <1>5 DEF Turn

LEMMA ReplyAnswers ==
    ASSUME IInv, Answering, NEW c \in Callers, NEW id \in Ids, NEW ok \in BOOLEAN, Reply(c, id, ok),
           pos[c] \in DOMAIN Input[c], pc[c] # "ended", Line(c).kind # "blank",
           id = IF Line(c).kind = "syntax" THEN 0 ELSE Line(c).id,
           ok => Line(c).kind = "ask"
    PROVE  Answering'
<1> DEFINE new == [id |-> id, ok |-> ok]
<1>1. /\ pos[c] \in Nat \ {0} /\ pos' = [pos EXCEPT ![c] = @ + 1]
      /\ pos \in [Callers -> Nat] /\ pc \in [Callers -> AtHosts \cup {"idle", "ended"}]
      /\ replies \in [Callers -> Seq([id : Ids, ok : BOOLEAN])]
  <2>1. Input[c] \in Seq(ToSet(Input[c]))
    BY ClientAssumption
  <2>2. pos[c] \in Nat \ {0}
    BY <2>1
  <2> QED BY <2>2 DEF Reply, IInv, ClientTypeOK, Answering
<1>2. /\ replies' \in [Callers -> Seq([id : Ids, ok : BOOLEAN])]
      /\ \A d \in Callers \ {c} : replies'[d] = replies[d] /\ pc'[d] = pc[d] /\ pos'[d] = pos[d]
      /\ pc'[c] \in {"idle", "ended"} /\ pos'[c] = pos[c] + 1
  <2>1. new \in [id : Ids, ok : BOOLEAN]
    OBVIOUS
  <2>2. Append(replies[c], new) \in Seq([id : Ids, ok : BOOLEAN])
    <3> HIDE DEF new
    <3>1. replies[c] \in Seq([id : Ids, ok : BOOLEAN])
      BY <1>1
    <3> QED BY <2>1, <3>1, AppendProperties
  <2> HIDE DEF new
  <2>3. \/ replies' = [replies EXCEPT ![c] = Append(replies[c], new)]
        \/ replies' = replies
    BY DEF Reply, new
  <2>4. replies' \in [Callers -> Seq([id : Ids, ok : BOOLEAN])]
    BY <1>1, <2>2, <2>3
  <2>5. \A d \in Callers \ {c} : replies'[d] = replies[d]
    BY <1>1, <2>3
  <2>6. /\ \A d \in Callers \ {c} : pc'[d] = pc[d] /\ pos'[d] = pos[d]
        /\ pc'[c] \in {"idle", "ended"} /\ pos'[c] = pos[c] + 1
    BY <1>1 DEF Reply
  <2> QED BY <2>4, <2>5, <2>6
<1>3. \/ replies'[c] = Append(replies[c], new)
      \/ replies'[c] = replies[c] /\ pc'[c] = "ended"
  BY <1>1 DEF Reply
<1>4. /\ Taken(c)' = Taken(c) \cup {pos[c]}
      /\ Cardinality(Taken(c)') = Cardinality(Taken(c)) + 1
      /\ \A i \in {pos[c]} : Turn(c, i)' = Cardinality(Taken(c)) + 1
      /\ \A i \in Taken(c) : Turn(c, i)' = Turn(c, i)
  BY <1>1, <1>2, OneMoreTaken
<1>5. /\ Cardinality(Taken(c)) \in Nat
      /\ \A i \in Taken(c) : Turn(c, i) \in Nat /\ Turn(c, i) <= Cardinality(Taken(c))
  BY <1>1, Turns
<1>6. Len(replies[c]) = Cardinality(Taken(c)) /\ AnsweredBy(c)
  BY <1>1 DEF Answering, AnsweredBy
<1>7. AnsweredBy(c)'
  <2>1. ASSUME NEW i \in Taken(c)'
        PROVE  Turn(c, i)' \in DOMAIN replies'[c] =>
                 /\ replies'[c][Turn(c, i)'].id = IF Input[c][i].kind = "syntax" THEN 0 ELSE Input[c][i].id
                 /\ replies'[c][Turn(c, i)'].ok => Input[c][i].kind = "ask"
    <3>1. CASE i = pos[c]
      <4>1. CASE replies'[c] = Append(replies[c], new)
        <5>1. Turn(c, i)' = Len(replies[c]) + 1
          BY <1>4, <1>6, <3>1
        <5>2. replies'[c][Turn(c, i)'] = new
          BY <1>1, <4>1, <5>1
        <5> QED BY <3>1, <5>2 DEF Line
      <4>2. CASE replies'[c] = replies[c]
        <5>1. Turn(c, i)' \notin DOMAIN replies'[c]
          BY <1>1, <1>4, <1>6, <3>1, <4>2
        <5> QED BY <5>1
      <4> QED BY <1>3, <4>1, <4>2
    <3>2. CASE i \in Taken(c)
      <4>1. Turn(c, i)' = Turn(c, i) /\ Turn(c, i) \in Nat /\ Turn(c, i) <= Len(replies[c])
        BY <1>4, <1>5, <1>6, <3>2
      <4>2. Turn(c, i) \in DOMAIN replies'[c] =>
              Turn(c, i) \in DOMAIN replies[c] /\ replies'[c][Turn(c, i)] = replies[c][Turn(c, i)]
        <5>1. CASE replies'[c] = replies[c]
          BY <4>1, <5>1, <1>1
        <5>2. CASE replies'[c] = Append(replies[c], new)
          <6>1. /\ Len(replies[c]) \in Nat /\ DOMAIN replies[c] = 1..Len(replies[c])
                /\ \A k \in 1..Len(replies[c]) : Append(replies[c], new)[k] = replies[c][k]
            BY <1>1
          <6>2. Turn(c, i) \in DOMAIN Append(replies[c], new) => Turn(c, i) \in 1..Len(replies[c])
            BY <1>1, <4>1, <6>1
          <6> QED BY <5>2, <6>1, <6>2
        <5> QED BY <1>3, <5>1, <5>2
      <4> QED BY <1>6, <3>2, <4>1, <4>2 DEF AnsweredBy
    <3> QED BY <1>4, <2>1, <3>1, <3>2
  <2>2. \/ Len(replies'[c]) = Cardinality(Taken(c)')
        \/ pc'[c] = "ended" /\ Len(replies'[c]) = Cardinality(Taken(c)') - 1
    BY <1>1, <1>3, <1>4, <1>5, <1>6
  <2> QED BY <2>1, <2>2 DEF AnsweredBy
<1>8. ASSUME NEW d \in Callers \ {c} PROVE AnsweredBy(d)' /\ (pc'[d] \in AtHosts => Line(d)'.kind = "ask")
    <2>1. Taken(d)' = Taken(d) /\ Line(d)' = Line(d)
    BY <1>2 DEF Taken, Line
  <2>2. \A i : Turn(d, i)' = Turn(d, i)
    BY <2>1 DEF Turn
  <2>3. AnsweredBy(d) /\ (pc[d] \in AtHosts => Line(d).kind = "ask")
    BY DEF Answering
  <2>4. replies'[d] = replies[d] /\ pc'[d] = pc[d]
    BY <1>2
  <2> QED BY <2>1, <2>2, <2>3, <2>4 DEF AnsweredBy
<1> QED BY <1>2, <1>7, <1>8 DEF Answering, AtHosts

\* Every other step leaves the answers and the lines taken as they are.
LEMMA OthersAnswer ==
    ASSUME IInv, Answering, NEW c \in Callers,
           UNCHANGED replies, Taken(c)' = Taken(c),
           \A d \in Callers \ {c} : pc'[d] = pc[d] /\ pos'[d] = pos[d],
           pc[c] = "ended" => pc'[c] = "ended",
           pc'[c] \in AtHosts => Line(c)'.kind = "ask"
    PROVE  Answering'
<1>1. AnsweredBy(c)'
  BY DEF Answering, AnsweredBy, Turn
<1>2. ASSUME NEW d \in Callers \ {c} PROVE AnsweredBy(d)' /\ (pc'[d] \in AtHosts => Line(d)'.kind = "ask")
  <2>1. Taken(d)' = Taken(d) /\ Line(d)' = Line(d)
    BY <1>2 DEF Taken, Line
  <2>2. \A i : Turn(d, i)' = Turn(d, i)
    BY <2>1 DEF Turn
  <2> QED BY <2>1, <2>2 DEF Answering, AnsweredBy
<1> QED BY <1>1, <1>2 DEF Answering

LEMMA AnsweringInductive ==
    ASSUME IInv, Answering, [Next]_vars
    PROVE  Answering'
<1>1. CASE UNCHANGED <<pc, pos, replies>>
  BY <1>1 DEF Answering, AnsweredBy, Taken, Turn, Line
<1>2. ASSUME NEW c \in Callers, pos[c] \in DOMAIN Input[c]
      PROVE  0 \in Ids /\ Line(c).id \in Ids
  BY <1>2 DEF Ids, Line
<1>3. ASSUME NEW c \in Callers,
             \/ Refuse(c) \/ RefuseClosed(c) \/ Finish(c) \/ Fail(c)
      PROVE  Answering'
  <2>1. CASE Refuse(c)
    BY <1>2, <2>1, ReplyAnswers DEF Refuse, HasLine, Refused
  <2>2. CASE RefuseClosed(c)
    BY <1>2, <2>2, ReplyAnswers DEF RefuseClosed, HasLine
  <2>3. ASSUME pc[c] \in AtHosts, NEW ok \in BOOLEAN, Reply(c, Line(c).id, ok) PROVE Answering'
    <3>1. pos[c] \in DOMAIN Input[c] /\ Line(c).kind = "ask" /\ pc[c] # "ended"
      BY <2>3 DEF IInv, ClientTypeOK, Answering, AtHosts
    <3> QED BY <1>2, <2>3, <3>1, ReplyAnswers
  <2>4. CASE Finish(c)
    BY <2>3, <2>4 DEF Finish, AtHosts
  <2>5. CASE Fail(c)
    BY <2>3, <2>5 DEF Fail, AtHosts
  <2> QED BY <1>3, <2>1, <2>2, <2>4, <2>5
<1>4. ASSUME NEW c \in Callers,
             \/ SkipBlank(c) \/ ServeReturns(c) \/ Ask(c) \/ Seed(c) \/ File(c) \/ Send(c)
             \/ Redirect(c) \/ Respond(c)
      PROVE  Answering'
  <2>1. pc \in [Callers -> AtHosts \cup {"idle", "ended"}] /\ pos \in [Callers -> Nat]
    BY DEF IInv, ClientTypeOK
  <2>2. CASE SkipBlank(c)
    <3>1. /\ Taken(c)' = Taken(c) /\ UNCHANGED <<pc, replies>>
          /\ \A d \in Callers \ {c} : pos'[d] = pos[d]
      BY <2>1, <2>2, ClientAssumption DEF SkipBlank, HasLine, Taken, Line
    <3>2. pc'[c] \notin AtHosts /\ pc[c] # "ended"
      BY <2>2 DEF SkipBlank, HasLine, AtHosts
    <3> QED BY <3>1, <3>2, OthersAnswer
  <2>3. ASSUME ~SkipBlank(c)
        PROVE  /\ UNCHANGED <<pos, replies>> /\ pc[c] # "ended"
               /\ \A d \in Callers \ {c} : pc'[d] = pc[d]
               /\ pc'[c] \in AtHosts => Line(c).kind = "ask"
    BY <1>4, <2>1, <2>3 DEF ServeReturns, Ask, HasLine, Seed, File, Send, Redirect, Respond,
         Answering, AtHosts
  <2>4. CASE ~SkipBlank(c)
    <3>1. Taken(c)' = Taken(c) /\ Line(c)' = Line(c)
      BY <2>3, <2>4 DEF Taken, Line
    <3> QED BY <2>3, <2>4, <3>1, OthersAnswer
  <2> QED BY <2>2, <2>4
<1> QED BY <1>1, <1>3, <1>4 DEF Next, Proceed, Close, vars, loopVars

LEMMA AnsweringInvariance == Spec => []Answering
<1>1. Init => Answering
  <2> SUFFICES ASSUME Init, NEW c \in Callers
               PROVE  /\ replies \in [Callers -> Seq([id : Ids, ok : BOOLEAN])]
                      /\ pc[c] \notin AtHosts /\ AnsweredBy(c)
    BY DEF Answering, Init
  <2>1. Taken(c) = {} /\ Cardinality({}) = 0
    BY FS_EmptySet DEF Init, Taken
  <2> QED BY <2>1 DEF Init, AnsweredBy, AtHosts
<1>2. IInv /\ Answering /\ [Next]_vars => Answering'
  BY AnsweringInductive
<1> QED BY <1>1, <1>2, Invariance, PTL DEF Spec

-----------------------------------------------------------------------------
(* Sequences and headers. *)

\* A set of naturals that is not empty has a least element, ...
LEMMA LeastNat ==
  ASSUME NEW T \in SUBSET Nat, T # {}
  PROVE  \E x \in T : \A y \in T : x <= y
<1>1. PICK R : IsWellFoundedOn(R, Nat) /\ \A x, y \in Nat : y < x => <<y, x>> \in R
  <2>1. \A x, y \in Nat : y < x => <<y, x>> \in OpToRel(<, Nat)
    BY DEF OpToRel
  <2> QED BY <2>1, NatLessThanWellFounded, Zenon
<1>2. PICK x \in T : \A y \in T : ~ (<<y, x>> \in R)
  BY <1>1, WFMin, Zenon
<1>3. \A y \in T : x <= y
  <2> SUFFICES ASSUME NEW y \in T PROVE x <= y
    OBVIOUS
  <2>1. x \in Nat /\ y \in Nat
    OBVIOUS
  <2>2. ~(y < x)
    BY <1>1, <1>2, <2>1
  <2> QED BY <2>1, <2>2
<1> QED BY <1>3

\* ... so that a set of them with 0 and with each one's successor has them all.
LEMMA AllNat ==
  ASSUME NEW T \in SUBSET Nat, 0 \in T, \A n \in T : n + 1 \in T
  PROVE  T = Nat
<1> SUFFICES ASSUME Nat \ T # {} PROVE FALSE
  OBVIOUS
<1>1. PICK x \in Nat \ T : \A y \in Nat \ T : x <= y
  <2> DEFINE U == Nat \ T
  <2>1. U \in SUBSET Nat /\ U # {}
    OBVIOUS
  <2> HIDE DEF U
  <2>2. PICK x \in U : \A y \in U : x <= y
    BY <2>1, LeastNat
  <2> QED BY <2>2 DEF U
<1>2. x # 0 /\ x - 1 \in Nat /\ x - 1 + 1 = x
  BY <1>1
<1>3. x - 1 \in T
  BY <1>1, <1>2
<1> QED BY <1>1, <1>2, <1>3

\* What the recursive function of FlattenSeq is, and that it is something.
Steps(ss, n, f) == f = [i \in 1..n |-> IF i = 1 THEN ss[i] ELSE f[i - 1] \o ss[i]]

LEMMA StepsExist ==
  ASSUME NEW ss, NEW n \in Nat
  PROVE  \E f : Steps(ss, n, f)
<1> DEFINE T == {k \in Nat : \E f : Steps(ss, k, f)}
<1>1. 0 \in T
  <2>1. Steps(ss, 0, [i \in 1..0 |-> 0])
    BY DEF Steps
  <2> QED BY <2>1
<1>2. ASSUME NEW k \in T PROVE k + 1 \in T
  <2>1. PICK f : Steps(ss, k, f)
    OBVIOUS
  <2> DEFINE g == [i \in 1..(k + 1) |-> IF i = 1 THEN ss[i] ELSE f[i - 1] \o ss[i]]
  <2>2. \A i \in 1..k : f[i] = IF i = 1 THEN ss[i] ELSE f[i - 1] \o ss[i]
    BY <2>1 DEF Steps
  <2>3. \A i \in 1..k : g[i] = f[i]
    BY <2>2
  <2>4. \A i \in 1..(k + 1) : i # 1 => i - 1 \in 1..k
    OBVIOUS
  <2>5. \A i \in 1..(k + 1) : i # 1 => g[i - 1] = f[i - 1]
    BY <2>3, <2>4
  <2>6. g = [i \in 1..(k + 1) |-> IF i = 1 THEN ss[i] ELSE g[i - 1] \o ss[i]]
    BY <2>5
  <2> HIDE DEF g
  <2>7. Steps(ss, k + 1, g)
    BY <2>6 DEF Steps
  <2> QED BY <2>7
<1> HIDE DEF T
<1>3. T = Nat
  BY <1>1, <1>2, AllNat DEF T
<1> QED BY <1>3 DEF T

\* The elements of the sequences are the elements of the sequence they are flattened to.
LEMMA Flattened ==
  ASSUME NEW S, NEW ss \in Seq(Seq(S))
  PROVE  /\ FlattenSeq(ss) \in Seq(S)
         /\ ToSet(FlattenSeq(ss)) = UNION {ToSet(ss[i]) : i \in DOMAIN ss}
<1>0. Len(ss) \in Nat /\ DOMAIN ss = 1..Len(ss) /\ \A i \in 1..Len(ss) : ss[i] \in Seq(S)
  BY LenProperties, ElementOfSeq
<1>1. CASE Len(ss) = 0
  <2>1. FlattenSeq(ss) = ss /\ ss = <<>>
    BY <1>0, <1>1 DEF FlattenSeq
  <2> QED BY <1>0, <1>1, <2>1 DEF ToSet
<1>2. CASE Len(ss) # 0
  <2> DEFINE f == CHOOSE g : Steps(ss, Len(ss), g)
  <2>1. FlattenSeq(ss) = f[Len(ss)]
    BY <1>2 DEF FlattenSeq, Steps
  <2>2. Steps(ss, Len(ss), f)
    BY <1>0, StepsExist
  <2>3. \A i \in 1..Len(ss) : f[i] = IF i = 1 THEN ss[i] ELSE f[i - 1] \o ss[i]
    BY <2>2 DEF Steps
  <2> HIDE DEF f
  <2> DEFINE T == {n \in Nat : n \in 1..Len(ss) =>
                     f[n] \in Seq(S) /\ ToSet(f[n]) = UNION {ToSet(ss[i]) : i \in 1..n}}
  <2>4. 0 \in T
    OBVIOUS
  <2>5. ASSUME NEW n \in T PROVE n + 1 \in T
    <3> SUFFICES ASSUME n + 1 \in 1..Len(ss)
                 PROVE  /\ f[n + 1] \in Seq(S)
                        /\ ToSet(f[n + 1]) = UNION {ToSet(ss[i]) : i \in 1..(n + 1)}
      OBVIOUS
    <3>1. CASE n = 0
      <4>1. f[1] = ss[1] /\ ss[1] \in Seq(S) /\ 1..1 = {1}
        BY <1>0, <1>2, <2>3
      <4> QED BY <3>1, <4>1
    <3>2. CASE n # 0
      <4>0. n \in Nat /\ n \in 1..Len(ss)
        BY <1>0, <3>2
      <4>1. n \in 1..Len(ss) /\ f[n + 1] = f[n] \o ss[n + 1]
        <5>1. f[n + 1] = IF n + 1 = 1 THEN ss[n + 1] ELSE f[n + 1 - 1] \o ss[n + 1]
          BY <2>3
        <5>2. n + 1 # 1 /\ n + 1 - 1 = n
          BY <4>0
        <5> QED BY <4>0, <5>1, <5>2
      <4>2. f[n] \in Seq(S) /\ ToSet(f[n]) = UNION {ToSet(ss[i]) : i \in 1..n}
        BY <4>1
      <4>3. ss[n + 1] \in Seq(S)
        BY <1>0
      <4>4. ToSet(f[n + 1]) = ToSet(f[n]) \cup ToSet(ss[n + 1])
        <5>1. Range(f[n] \o ss[n + 1]) = Range(f[n]) \cup Range(ss[n + 1])
          BY <4>2, <4>3, RangeConcatenation
        <5> QED BY <4>1, <5>1 DEF ToSet, Range
      <4>5. 1..(n + 1) = 1..n \cup {n + 1}
        OBVIOUS
      <4>6. f[n + 1] \in Seq(S)
        BY <4>1, <4>2, <4>3
      <4> QED BY <4>2, <4>4, <4>5, <4>6
    <3> QED BY <3>1, <3>2
  <2> HIDE DEF T
  <2>6. T = Nat
    BY <2>4, <2>5, AllNat DEF T
  <2>7. /\ f[Len(ss)] \in Seq(S)
        /\ ToSet(f[Len(ss)]) = UNION {ToSet(ss[i]) : i \in 1..Len(ss)}
    <3>1. Len(ss) \in T /\ Len(ss) \in 1..Len(ss)
      BY <1>0, <1>2, <2>6
    <3> QED BY <3>1 DEF T
  <2> QED BY <1>0, <2>1, <2>7
<1> QED BY <1>1, <1>2

\* A sequence, of whatever it has.
IsSeq(s) == s \in Seq(ToSet(s))

LEMMA SeqIs ==
  ASSUME NEW S, NEW s \in Seq(S)
  PROVE  IsSeq(s) /\ ToSet(s) \subseteq S
<1>1. s \in Seq(Range(s)) /\ Range(s) \subseteq S
  BY SeqOfRange, RangeOfSeq
<1> QED BY <1>1 DEF IsSeq, ToSet, Range

\* A sequence flattened that is given as a function of the indexes of another.
LEMMA FlattenedOf ==
  ASSUME NEW s, IsSeq(s), NEW ss, ss = [i \in DOMAIN s |-> ss[i]],
         \A i \in DOMAIN s : IsSeq(ss[i])
  PROVE  /\ IsSeq(FlattenSeq(ss))
         /\ ToSet(FlattenSeq(ss)) = UNION {ToSet(ss[i]) : i \in DOMAIN s}
<1> DEFINE S == UNION {ToSet(ss[i]) : i \in DOMAIN s}
<1>1. DOMAIN s = 1..Len(s) /\ Len(s) \in Nat /\ DOMAIN ss = DOMAIN s
  BY DEF IsSeq
<1>2. ASSUME NEW i \in DOMAIN s PROVE ss[i] \in Seq(S)
  <2>1. ss[i] \in Seq(ToSet(ss[i])) /\ ToSet(ss[i]) \subseteq S
    BY <1>2 DEF IsSeq
  <2> HIDE DEF S
  <2> QED BY <2>1, SeqMonotonic
<1> HIDE DEF S
<1>3. ss \in Seq(Seq(S))
  <2>1. ss \in [1..Len(s) -> Seq(S)]
    BY <1>1, <1>2
  <2> QED BY <1>1, <2>1, SeqDef
<1>4. FlattenSeq(ss) \in Seq(S) /\ ToSet(FlattenSeq(ss)) = UNION {ToSet(ss[i]) : i \in DOMAIN ss}
  BY <1>3, Flattened
<1> QED BY <1>1, <1>4, SeqIs

LEMMA Singles ==
  /\ IsSeq(<<>>) /\ ToSet(<<>>) = {}
  /\ \A x : IsSeq(<<x>>) /\ ToSet(<<x>>) = {x}
  BY DEF IsSeq, ToSet

\* A finite set written out in some order.
LEMMA SetSeq ==
  ASSUME NEW S, IsFiniteSet(S)
  PROVE  IsSeq(SetToSeq(S)) /\ ToSet(SetToSeq(S)) \subseteq S
<1> DEFINE n == Cardinality(S)
<1>1. n \in Nat /\ ExistsBijection(1..n, S)
  BY FS_CardinalityType
<1>2. \E f \in [1..n -> S] : IsInjective(f)
  BY <1>1 DEF ExistsBijection, Bijection, Injection, IsInjective
<1>3. SetToSeq(S) \in [1..n -> S]
  BY <1>2 DEF SetToSeq
<1>4. SetToSeq(S) \in Seq(S)
  BY <1>1, <1>3, SeqDef
<1> QED BY <1>4, SeqIs

LEMMA JoinedSet ==
  ASSUME NEW s, NEW t, IsSeq(s), IsSeq(t)
  PROVE  IsSeq(s \o t) /\ ToSet(s \o t) = ToSet(s) \cup ToSet(t)
<1> DEFINE S == ToSet(s) \cup ToSet(t)
<1>1. s \in Seq(S) /\ t \in Seq(S)
  BY SeqMonotonic DEF IsSeq
<1>2. Range(s \o t) = Range(s) \cup Range(t)
  BY <1>1, RangeConcatenation
<1>3. s \o t \in Seq(S)
  BY <1>1
<1> QED BY <1>2, <1>3, SeqIs DEF ToSet, Range

\* The fields of a name.
LEMMA FieldsOfName ==
  ASSUME NEW h, IsSeq(h), NEW n
  PROVE  IsSeq(Fields(h, n)) /\ ToSet(Fields(h, n)) = {f \in ToSet(h) : f.name = n}
<1> DEFINE ss == [i \in DOMAIN h |-> IF h[i].name = n THEN <<h[i]>> ELSE <<>>]
<1>1. Fields(h, n) = FlattenSeq(ss)
  BY DEF Fields, Only
<1>2. \A i \in DOMAIN h : IsSeq(ss[i]) /\ ToSet(ss[i]) = IF h[i].name = n THEN {h[i]} ELSE {}
  BY Singles
<1>3. ss = [i \in DOMAIN h |-> ss[i]]
  OBVIOUS
<1> HIDE DEF ss
<1>4. IsSeq(FlattenSeq(ss)) /\ ToSet(FlattenSeq(ss)) = UNION {ToSet(ss[i]) : i \in DOMAIN h}
  BY <1>2, <1>3, FlattenedOf
<1>5. ToSet(FlattenSeq(ss)) = UNION {IF h[i].name = n THEN {h[i]} ELSE {} : i \in DOMAIN h}
  BY <1>2, <1>4
<1>6. UNION {IF h[i].name = n THEN {h[i]} ELSE {} : i \in DOMAIN h} = {f \in ToSet(h) : f.name = n}
  BY DEF ToSet
<1> QED BY <1>1, <1>4, <1>5, <1>6

\* The names of a header, as a set.
FieldNames(h) == {h[i].name : i \in DOMAIN h}

LEMMA NamesSeq ==
  ASSUME NEW h, IsSeq(h)
  PROVE  IsSeq(NamesOf(h))
<1>1. Len(h) \in Nat /\ DOMAIN h = 1..Len(h)
  BY DEF IsSeq
<1>2. NamesOf(h) \in [1..Len(h) -> FieldNames(h)]
  BY <1>1 DEF NamesOf, FieldNames
<1>3. NamesOf(h) \in Seq(FieldNames(h))
  BY <1>1, <1>2, SeqDef
<1> QED BY <1>3, SeqIs

LEMMA FirstField ==
  ASSUME NEW h, IsSeq(h), NEW n \in FieldNames(h)
  PROVE  \E i \in DOMAIN h : h[i].name = n /\ FirstOfName(h, i)
<1> DEFINE T == {i \in DOMAIN h : h[i].name = n}
<1>1. DOMAIN h = 1..Len(h) /\ Len(h) \in Nat
  BY DEF IsSeq
<1>2. T \in SUBSET Nat /\ T # {}
  BY <1>1 DEF FieldNames
<1> HIDE DEF T
<1>3. PICK i \in T : \A j \in T : i <= j
  BY <1>2, LeastNat
<1> QED BY <1>1, <1>3 DEF T, FirstOfName

\* Header.Merge has the names of both headers and no other.
LEMMA MergedNames ==
  ASSUME NEW h, NEW over, IsSeq(h), IsSeq(over)
  PROVE  IsSeq(Merge(h, over)) /\ FieldNames(Merge(h, over)) = FieldNames(h) \cup FieldNames(over)
<1> DEFINE A == [i \in DOMAIN h |->
                   IF ~Has(over, h[i].name) THEN <<h[i]>>
                   ELSE IF FirstOfName(h, i) THEN Fields(over, h[i].name) ELSE <<>>]
           B == [i \in DOMAIN over |->
                   IF FirstOfName(over, i) /\ ~Has(h, over[i].name)
                   THEN Fields(over, over[i].name) ELSE <<>>]
<1>1. Merge(h, over) = FlattenSeq(A) \o FlattenSeq(B)
  BY DEF Merge
<1>2. ASSUME NEW i \in DOMAIN h
      PROVE  /\ IsSeq(A[i]) /\ \A f \in ToSet(A[i]) : f.name = h[i].name
             /\ FirstOfName(h, i) => ToSet(A[i]) # {}
  <2>1. CASE ~Has(over, h[i].name)
    BY <2>1, Singles
  <2>2. CASE Has(over, h[i].name)
    <3>1. IsSeq(Fields(over, h[i].name))
          /\ ToSet(Fields(over, h[i].name)) = {f \in ToSet(over) : f.name = h[i].name}
      BY FieldsOfName
    <3>2. ToSet(Fields(over, h[i].name)) # {}
      BY <2>2, <3>1 DEF Has, ToSet
    <3> QED BY <2>2, <3>1, <3>2, Singles
  <2> QED BY <2>1, <2>2
<1>3. ASSUME NEW i \in DOMAIN over
      PROVE  /\ IsSeq(B[i]) /\ \A f \in ToSet(B[i]) : f.name = over[i].name
             /\ FirstOfName(over, i) /\ ~Has(h, over[i].name) => ToSet(B[i]) # {}
  <2>1. IsSeq(Fields(over, over[i].name))
        /\ ToSet(Fields(over, over[i].name)) = {f \in ToSet(over) : f.name = over[i].name}
    BY FieldsOfName
  <2>2. ToSet(Fields(over, over[i].name)) # {}
    BY <2>1 DEF ToSet
  <2> QED BY <2>1, <2>2, Singles
<1>4. A = [i \in DOMAIN h |-> A[i]] /\ B = [i \in DOMAIN over |-> B[i]]
  OBVIOUS
<1> HIDE DEF A, B
<1>5. /\ IsSeq(FlattenSeq(A)) /\ ToSet(FlattenSeq(A)) = UNION {ToSet(A[i]) : i \in DOMAIN h}
      /\ IsSeq(FlattenSeq(B)) /\ ToSet(FlattenSeq(B)) = UNION {ToSet(B[i]) : i \in DOMAIN over}
  <2>1. \A i \in DOMAIN h : IsSeq(A[i])
    BY <1>2
  <2>2. \A i \in DOMAIN over : IsSeq(B[i])
    BY <1>3
  <2> QED BY <1>4, <2>1, <2>2, FlattenedOf
<1>6. IsSeq(Merge(h, over)) /\ ToSet(Merge(h, over)) = ToSet(FlattenSeq(A)) \cup ToSet(FlattenSeq(B))
  BY <1>1, <1>5, JoinedSet
<1>7. \A s : FieldNames(s) = {f.name : f \in ToSet(s)}
  BY DEF FieldNames, ToSet
<1>8. FieldNames(Merge(h, over)) \subseteq FieldNames(h) \cup FieldNames(over)
  <2> SUFFICES ASSUME NEW f \in ToSet(Merge(h, over))
               PROVE  f.name \in FieldNames(h) \cup FieldNames(over)
    BY <1>7
  <2>1. CASE f \in ToSet(FlattenSeq(A))
    <3>1. PICK i \in DOMAIN h : f \in ToSet(A[i])
      BY <1>5, <2>1
    <3> QED BY <1>2, <3>1 DEF FieldNames
  <2>2. CASE f \in ToSet(FlattenSeq(B))
    <3>1. PICK i \in DOMAIN over : f \in ToSet(B[i])
      BY <1>5, <2>2
    <3> QED BY <1>3, <3>1 DEF FieldNames
  <2> QED BY <1>6, <2>1, <2>2
<1>9. ASSUME NEW n \in FieldNames(h) PROVE n \in FieldNames(Merge(h, over))
  <2>1. PICK i \in DOMAIN h : h[i].name = n /\ FirstOfName(h, i)
    BY <1>9, FirstField
  <2>2. PICK f \in ToSet(A[i]) : f.name = n
    BY <1>2, <2>1
  <2> QED BY <1>5, <1>6, <1>7, <2>2
<1>10. ASSUME NEW n \in FieldNames(over), n \notin FieldNames(h) PROVE n \in FieldNames(Merge(h, over))
  <2>1. PICK i \in DOMAIN over : over[i].name = n /\ FirstOfName(over, i)
    BY <1>10, FirstField
  <2>2. ~Has(h, n)
    BY <1>10 DEF Has, FieldNames
  <2>3. PICK f \in ToSet(B[i]) : f.name = n
    BY <1>3, <2>1, <2>2
  <2> QED BY <1>5, <1>6, <1>7, <2>3
<1> QED BY <1>6, <1>8, <1>9, <1>10

LEMMA OrderedIsSeq ==
  ASSUME NEW map, IsFiniteSet(DOMAIN map), NEW order, IsSeq(order), NEW names, IsSeq(names)
  PROVE  IsSeq(OrderedHeaders(map, order, names))
<1> DEFINE all == (IF order = <<>> THEN names ELSE order) \o SetToSeq(DOMAIN map)
           ss == [i \in DOMAIN all |->
                    IF all[i] \in DOMAIN map /\ \A j \in 1..(i - 1) : all[j] # all[i]
                    THEN <<[name |-> all[i], value |-> map[all[i]]]>> ELSE <<>>]
<1>1. IsSeq(SetToSeq(DOMAIN map))
  BY SetSeq
<1>2. IsSeq(all)
  BY <1>1, JoinedSet
<1>3. OrderedHeaders(map, order, names) = FlattenSeq(ss)
  BY DEF OrderedHeaders
<1> HIDE DEF all
<1>4. \A i \in DOMAIN all : IsSeq(ss[i])
  BY Singles
<1>5. ss = [i \in DOMAIN all |-> ss[i]]
  OBVIOUS
<1> HIDE DEF ss
<1> QED BY <1>2, <1>3, <1>4, <1>5, FlattenedOf

\* The header of a profile on HTTP/1.1 has no name but the shared and the measured ones.
LEMMA HTTP1Names ==
  ASSUME NEW shared, NEW http1, IsSeq(shared), IsSeq(http1.headers), IsSeq(http1.order)
  PROVE  /\ IsSeq(HTTP1Headers(shared, http1))
         /\ FieldNames(HTTP1Headers(shared, http1)) \subseteq FieldNames(shared) \cup FieldNames(http1.headers)
<1> DEFINE resolved == Merge(shared, http1.headers)
           ss == [i \in DOMAIN http1.order |->
                    IF http1.order[i] = "host" THEN <<>> ELSE Fields(resolved, http1.order[i])]
<1>1. IsSeq(resolved) /\ FieldNames(resolved) = FieldNames(shared) \cup FieldNames(http1.headers)
  BY MergedNames
<1>2. HTTP1Headers(shared, http1) = FlattenSeq(ss)
  BY DEF HTTP1Headers
<1> HIDE DEF resolved
<1>3. \A i \in DOMAIN http1.order : IsSeq(ss[i]) /\ ToSet(ss[i]) \subseteq ToSet(resolved)
  BY <1>1, FieldsOfName, Singles
<1>4. ss = [i \in DOMAIN http1.order |-> ss[i]]
  OBVIOUS
<1> HIDE DEF ss
<1>5. IsSeq(FlattenSeq(ss)) /\ ToSet(FlattenSeq(ss)) = UNION {ToSet(ss[i]) : i \in DOMAIN http1.order}
  BY <1>3, <1>4, FlattenedOf
<1>6. ToSet(FlattenSeq(ss)) \subseteq ToSet(resolved)
  BY <1>3, <1>5
<1>7. \A s : FieldNames(s) = {f.name : f \in ToSet(s)}
  BY DEF FieldNames, ToSet
<1>8. FieldNames(FlattenSeq(ss)) \subseteq FieldNames(resolved)
  BY <1>6, <1>7
<1> QED BY <1>1, <1>2, <1>5, <1>8

\* A layout of HTTP/1.1 has values of the names of its header and the host only.
LEMMA MeasuredNamesOf ==
  ASSUME NEW h, IsSeq(h), NEW measured, IsSeq(measured), NEW host
  PROVE  DOMAIN MeasuredLayout(h, measured, host).values \subseteq FieldNames(h) \cup {"host"}
<1> DEFINE values == LayoutValues(h, host)
           pick1 == [i \in DOMAIN measured |-> IF measured[i] \in DOMAIN values THEN <<measured[i]>> ELSE <<>>]
           d == Distinct(h)
           pick2 == [i \in DOMAIN d |-> IF d[i] # "host" /\ d[i] \notin ToSet(measured) THEN <<d[i]>> ELSE <<>>]
           pick3 == [i \in DOMAIN h |-> IF FirstOfName(h, i) THEN <<h[i].name>> ELSE <<>>]
<1>1. DOMAIN values = FieldNames(h) \cup {"host"}
  BY DEF LayoutValues, FieldNames
<1>2. DOMAIN MeasuredLayout(h, measured, host).values = ToSet(FlattenSeq(pick1) \o FlattenSeq(pick2))
  BY DEF MeasuredLayout, Only
<1>3. d = FlattenSeq(pick3)
  BY DEF Distinct
<1> HIDE DEF values, d
<1>4. /\ pick1 = [i \in DOMAIN measured |-> pick1[i]]
      /\ \A i \in DOMAIN measured : IsSeq(pick1[i]) /\ ToSet(pick1[i]) \subseteq DOMAIN values
  BY Singles
<1>5. /\ pick2 = [i \in DOMAIN d |-> pick2[i]]
      /\ \A i \in DOMAIN d : IsSeq(pick2[i]) /\ ToSet(pick2[i]) \subseteq ToSet(d)
  BY Singles DEF ToSet
<1>6. /\ pick3 = [i \in DOMAIN h |-> pick3[i]]
      /\ \A i \in DOMAIN h : IsSeq(pick3[i]) /\ ToSet(pick3[i]) \subseteq FieldNames(h)
  BY Singles DEF FieldNames
<1> HIDE DEF pick1, pick2, pick3
<1>7. IsSeq(d) /\ ToSet(d) \subseteq FieldNames(h)
  <2>1. IsSeq(FlattenSeq(pick3)) /\ ToSet(FlattenSeq(pick3)) = UNION {ToSet(pick3[i]) : i \in DOMAIN h}
    BY <1>6, FlattenedOf
  <2> QED BY <1>3, <1>6, <2>1
<1>8. IsSeq(FlattenSeq(pick1)) /\ ToSet(FlattenSeq(pick1)) \subseteq DOMAIN values
  <2>1. /\ IsSeq(FlattenSeq(pick1))
        /\ ToSet(FlattenSeq(pick1)) = UNION {ToSet(pick1[i]) : i \in DOMAIN measured}
    BY <1>4, FlattenedOf
  <2> QED BY <1>4, <2>1
<1>9. IsSeq(FlattenSeq(pick2)) /\ ToSet(FlattenSeq(pick2)) \subseteq ToSet(d)
  <2>1. IsSeq(FlattenSeq(pick2)) /\ ToSet(FlattenSeq(pick2)) = UNION {ToSet(pick2[i]) : i \in DOMAIN d}
    BY <1>5, <1>7, FlattenedOf
  <2> QED BY <1>5, <2>1
<1> QED BY <1>1, <1>2, <1>7, <1>8, <1>9, JoinedSet

-----------------------------------------------------------------------------
(* The values of a name, and the order of the names. *)

\* What a sequence is flattened to is what its parts amount to one after the other ...
Amounts(g, ss) == g[0] = <<>> /\ \A i \in 0..(Len(ss) - 1) : g[i + 1] = g[i] \o ss[i + 1]

\* ... whatever amounts are taken,
LEMMA FlattenedBy ==
  ASSUME NEW S, NEW ss \in Seq(Seq(S)), NEW g, Amounts(g, ss)
  PROVE  FlattenSeq(ss) = g[Len(ss)]
<1>0. Len(ss) \in Nat /\ DOMAIN ss = 1..Len(ss) /\ \A i \in 1..Len(ss) : ss[i] \in Seq(S)
  BY LenProperties, ElementOfSeq
<1>1. CASE Len(ss) = 0
  BY <1>0, <1>1 DEF FlattenSeq, Amounts
<1>2. CASE Len(ss) # 0
  <2> DEFINE f == CHOOSE x : Steps(ss, Len(ss), x)
  <2>1. FlattenSeq(ss) = f[Len(ss)]
    BY <1>2 DEF FlattenSeq, Steps
  <2>2. Steps(ss, Len(ss), f)
    BY <1>0, StepsExist
  <2>3. \A i \in 1..Len(ss) : f[i] = IF i = 1 THEN ss[i] ELSE f[i - 1] \o ss[i]
    BY <2>2 DEF Steps
  <2> HIDE DEF f
  <2> DEFINE T == {n \in Nat : n \in 1..Len(ss) => f[n] = g[n]}
  <2>4. 0 \in T
    OBVIOUS
  <2>5. ASSUME NEW n \in T, n + 1 \in 1..Len(ss) PROVE f[n + 1] = g[n + 1]
    <3>1. n \in 0..(Len(ss) - 1) /\ g[n + 1] = g[n] \o ss[n + 1]
      <4>1. n \in 0..(Len(ss) - 1)
        BY <1>0, <2>5
      <4> QED BY <4>1 DEF Amounts
    <3>2. CASE n = 0
      <4>1. f[1] = ss[1] /\ ss[1] \in Seq(S)
        BY <1>0, <1>2, <2>3
      <4>2. <<>> \o ss[1] = ss[1]
        BY <4>1, ConcatEmptySeq
      <4>3. f[n + 1] = f[1] /\ ss[n + 1] = ss[1] /\ g[n] = <<>>
        BY <3>2 DEF Amounts
      <4> QED BY <3>1, <4>1, <4>2, <4>3
    <3>3. CASE n # 0
      <4>1. n \in 1..Len(ss) /\ n + 1 # 1 /\ n + 1 - 1 = n
        BY <1>0, <2>5, <3>1, <3>3
      <4>2. f[n + 1] = IF n + 1 = 1 THEN ss[n + 1] ELSE f[n + 1 - 1] \o ss[n + 1]
        BY <2>3, <2>5
      <4>3. f[n + 1] = f[n] \o ss[n + 1]
        BY <4>1, <4>2
      <4>4. f[n] = g[n]
        BY <4>1
      <4> QED BY <3>1, <4>3, <4>4
    <3> QED BY <3>2, <3>3
  <2>6. T = Nat
    <3>1. \A n \in T : n + 1 \in T
      BY <2>5
    <3> HIDE DEF T
    <3>2. T \in SUBSET Nat
      BY DEF T
    <3> QED BY <2>4, <3>1, <3>2, AllNat
  <2>7. Len(ss) \in T /\ Len(ss) \in 1..Len(ss)
    BY <1>0, <1>2, <2>6
  <2> QED BY <2>1, <2>7
<1> QED BY <1>1, <1>2

\* ... and it amounts to something.
LEMMA SomeAmounts ==
  ASSUME NEW S, NEW ss \in Seq(Seq(S))
  PROVE  \E g : /\ Amounts(g, ss) /\ FlattenSeq(ss) = g[Len(ss)]
                /\ \A i \in 0..Len(ss) : g[i] \in Seq(S)
<1>0. Len(ss) \in Nat /\ \A i \in 1..Len(ss) : ss[i] \in Seq(S)
  BY LenProperties, ElementOfSeq
<1>1. PICK f : Steps(ss, Len(ss), f)
  BY <1>0, StepsExist
<1> DEFINE g == [i \in 0..Len(ss) |-> IF i = 0 THEN <<>> ELSE f[i]]
<1>2. \A i \in 1..Len(ss) : f[i] = IF i = 1 THEN ss[i] ELSE f[i - 1] \o ss[i]
  BY <1>1 DEF Steps
<1>3. g[0] = <<>> /\ \A i \in 1..Len(ss) : g[i] = f[i]
  BY <1>0
<1> HIDE DEF g
<1>4. ASSUME NEW i \in 0..(Len(ss) - 1) PROVE g[i + 1] = g[i] \o ss[i + 1]
  <2>1. i \in Nat /\ i + 1 \in 1..Len(ss)
    BY <1>0
  <2>2. CASE i = 0
    <3>1. g[1] = ss[1] /\ ss[1] \in Seq(S)
      BY <1>0, <1>2, <1>3, <2>1, <2>2
    <3>2. <<>> \o ss[1] = ss[1]
      BY <3>1, ConcatEmptySeq
    <3>3. g[i + 1] = g[1] /\ ss[i + 1] = ss[1] /\ g[i] = <<>>
      BY <1>3, <2>2
    <3> QED BY <3>1, <3>2, <3>3
  <2>3. CASE i # 0
    <3>1. i \in 1..Len(ss) /\ i + 1 # 1 /\ i + 1 - 1 = i
      BY <1>0, <2>1, <2>3
    <3>2. f[i + 1] = IF i + 1 = 1 THEN ss[i + 1] ELSE f[i + 1 - 1] \o ss[i + 1]
      BY <1>2, <2>1
    <3>3. g[i] = f[i] /\ g[i + 1] = f[i + 1]
      BY <1>3, <2>1, <3>1
    <3>4. f[i + 1] = f[i] \o ss[i + 1]
      BY <3>1, <3>2
    <3> QED BY <3>3, <3>4
  <2> QED BY <2>2, <2>3
<1>5. Amounts(g, ss)
  BY <1>3, <1>4 DEF Amounts
<1> DEFINE T == {n \in Nat : n \in 0..Len(ss) => g[n] \in Seq(S)}
<1>6. T = Nat
  <2>1. 0 \in T
    BY <1>3, EmptySeq
  <2>2. ASSUME NEW n \in T, n + 1 \in 0..Len(ss) PROVE g[n + 1] \in Seq(S)
    <3>1. n \in 0..Len(ss) /\ n \in 0..(Len(ss) - 1) /\ n + 1 \in 1..Len(ss)
      BY <1>0, <2>2
    <3>2. g[n] \in Seq(S) /\ ss[n + 1] \in Seq(S) /\ g[n + 1] = g[n] \o ss[n + 1]
      <4>1. g[n] \in Seq(S)
        BY <3>1
      <4>2. ss[n + 1] \in Seq(S)
        BY <1>0, <3>1
      <4> QED BY <1>4, <3>1, <4>1, <4>2
    <3> QED BY <3>2, ConcatProperties
  <2>3. \A n \in T : n + 1 \in T
    BY <2>2
  <2> HIDE DEF T
  <2>4. T \in SUBSET Nat
    BY DEF T
  <2> QED BY <2>1, <2>3, <2>4, AllNat
<1>7. \A i \in 0..Len(ss) : g[i] \in Seq(S)
  BY <1>6
<1> QED BY <1>5, <1>7, FlattenedBy

\* Parts given as a function of the indexes of a sequence are a sequence.
LEMMA PartsSeq ==
  ASSUME NEW s, IsSeq(s), NEW ss, ss = [i \in DOMAIN s |-> ss[i]], NEW S,
         \A i \in DOMAIN s : ss[i] \in Seq(S)
  PROVE  /\ ss \in Seq(Seq(S)) /\ Len(ss) = Len(s) /\ Len(s) \in Nat
         /\ DOMAIN s = 1..Len(s) /\ DOMAIN ss = DOMAIN s
<1>1. DOMAIN s = 1..Len(s) /\ Len(s) \in Nat
  BY DEF IsSeq
<1>2. ss \in [1..Len(s) -> Seq(S)]
  BY <1>1
<1>3. ss \in Seq(Seq(S))
  BY <1>1, <1>2, SeqDef
<1> QED BY <1>1, <1>2, <1>3

\* Nothing but empty parts.
LEMMA FlattenedNone ==
  ASSUME NEW s, IsSeq(s), NEW ss, ss = [i \in DOMAIN s |-> ss[i]], \A i \in DOMAIN s : ss[i] = <<>>
  PROVE  FlattenSeq(ss) = <<>>
<1>1. \A i \in DOMAIN s : ss[i] \in Seq({})
  BY EmptySeq
<1>2. ss \in Seq(Seq({})) /\ Len(ss) = Len(s) /\ Len(s) \in Nat /\ DOMAIN s = 1..Len(s)
  BY <1>1, PartsSeq
<1> DEFINE g == [i \in 0..Len(ss) |-> <<>>]
<1>3. Amounts(g, ss)
  <2>1. <<>> \o <<>> = <<>>
    BY EmptySeq, ConcatEmptySeq
  <2>2. \A i \in 0..(Len(ss) - 1) : g[i + 1] = <<>> /\ g[i] = <<>> /\ ss[i + 1] = <<>>
    BY <1>2
  <2>3. g[0] = <<>>
    BY <1>2
  <2> HIDE DEF g
  <2> QED BY <2>1, <2>2, <2>3 DEF Amounts
<1>4. g[Len(ss)] = <<>>
  BY <1>2
<1> HIDE DEF g
<1> QED BY <1>2, <1>3, <1>4, FlattenedBy

\* One part among empty ones.
LEMMA FlattenedOne ==
  ASSUME NEW s, IsSeq(s), NEW ss, ss = [i \in DOMAIN s |-> ss[i]], NEW k \in DOMAIN s, IsSeq(ss[k]),
         \A i \in DOMAIN s \ {k} : ss[i] = <<>>
  PROVE  FlattenSeq(ss) = ss[k]
<1> DEFINE S == ToSet(ss[k])
<1>1. ss[k] \in Seq(S) /\ <<>> \in Seq(S)
  BY EmptySeq DEF IsSeq
<1> HIDE DEF S
<1>2. \A i \in DOMAIN s : ss[i] \in Seq(S)
  BY <1>1
<1>3. /\ ss \in Seq(Seq(S)) /\ Len(ss) = Len(s) /\ Len(s) \in Nat /\ DOMAIN s = 1..Len(s)
  BY <1>2, PartsSeq
<1> DEFINE g == [i \in 0..Len(ss) |-> IF i < k THEN <<>> ELSE ss[k]]
<1>4. Amounts(g, ss)
  <2>1. <<>> \o <<>> = <<>> /\ <<>> \o ss[k] = ss[k] /\ ss[k] \o <<>> = ss[k]
    BY <1>1, ConcatEmptySeq
  <2>2. g[0] = <<>>
    BY <1>3
  <2>3. ASSUME NEW i \in 0..(Len(ss) - 1) PROVE g[i + 1] = g[i] \o ss[i + 1]
    <3>1. CASE i + 1 < k
      <4>1. g[i + 1] = <<>> /\ g[i] = <<>> /\ ss[i + 1] = <<>>
        BY <1>3, <3>1
      <4> HIDE DEF g
      <4> QED BY <2>1, <4>1
    <3>2. CASE i + 1 = k
      <4>1. g[i + 1] = ss[k] /\ g[i] = <<>> /\ ss[i + 1] = ss[k]
        BY <1>3, <3>2
      <4> HIDE DEF g
      <4> QED BY <2>1, <4>1
    <3>3. CASE i + 1 > k
      <4>1. g[i + 1] = ss[k] /\ g[i] = ss[k] /\ ss[i + 1] = <<>>
        BY <1>3, <3>3
      <4> HIDE DEF g
      <4> QED BY <2>1, <4>1
    <3>4. i + 1 < k \/ i + 1 = k \/ i + 1 > k
      BY <1>3
    <3> HIDE DEF g
    <3> QED BY <3>1, <3>2, <3>3, <3>4
  <2> HIDE DEF g
  <2> QED BY <2>2, <2>3 DEF Amounts
<1>5. g[Len(ss)] = ss[k]
  BY <1>3
<1> HIDE DEF g
<1> QED BY <1>3, <1>4, <1>5, FlattenedBy

\* The parts the fields of a name are flattened from.
NamedParts(h, n) == [i \in DOMAIN h |-> IF h[i].name = n THEN <<h[i]>> ELSE <<>>]

\* The fields of a name, as what the parts of that name are flattened to.
LEMMA FieldsOf ==
  ASSUME NEW S, NEW h \in Seq(S), NEW n
  PROVE  /\ Fields(h, n) = FlattenSeq(NamedParts(h, n)) /\ NamedParts(h, n) \in Seq(Seq(S))
         /\ Len(NamedParts(h, n)) = Len(h) /\ Len(h) \in Nat /\ DOMAIN h = 1..Len(h)
         /\ Fields(h, n) \in Seq(S)
<1>1. IsSeq(h) /\ DOMAIN h = 1..Len(h) /\ \A i \in 1..Len(h) : h[i] \in S
  BY SeqIs, LenProperties, ElementOfSeq
<1>2. Fields(h, n) = FlattenSeq(NamedParts(h, n))
  BY DEF Fields, Only, NamedParts
<1> DEFINE ss == NamedParts(h, n)
<1>3. ss = [i \in DOMAIN h |-> ss[i]] /\ \A i \in DOMAIN h : ss[i] \in Seq(S)
  BY <1>1 DEF NamedParts
<1> HIDE DEF ss
<1>4. ss \in Seq(Seq(S)) /\ Len(ss) = Len(h) /\ Len(h) \in Nat
  BY <1>1, <1>3, PartsSeq
<1>5. FlattenSeq(ss) \in Seq(S)
  BY <1>4, Flattened
<1> QED BY <1>1, <1>2, <1>4, <1>5 DEF ss

\* A header without the name.
LEMMA FieldsNone ==
  ASSUME NEW S, NEW h \in Seq(S), NEW n, \A i \in DOMAIN h : h[i].name # n
  PROVE  Fields(h, n) = <<>>
<1> DEFINE ss == NamedParts(h, n)
<1>1. ss = [i \in DOMAIN h |-> ss[i]] /\ \A i \in DOMAIN h : ss[i] = <<>>
  BY DEF NamedParts
<1>2. IsSeq(h) /\ Fields(h, n) = FlattenSeq(ss)
  BY SeqIs, FieldsOf
<1> HIDE DEF ss
<1> QED BY <1>1, <1>2, FlattenedNone

\* A header of the name alone.
LEMMA FieldsAll ==
  ASSUME NEW S, NEW h \in Seq(S), NEW n, \A i \in DOMAIN h : h[i].name = n
  PROVE  Fields(h, n) = h
<1> DEFINE ss == NamedParts(h, n)
           g == [i \in 0..Len(ss) |-> SubSeq(h, 1, i)]
<1>1. /\ Fields(h, n) = FlattenSeq(ss) /\ ss \in Seq(Seq(S)) /\ Len(ss) = Len(h)
      /\ Len(h) \in Nat /\ DOMAIN h = 1..Len(h)
  BY FieldsOf
<1>2. \A i \in 1..Len(h) : ss[i] = <<h[i]>>
  BY <1>1 DEF NamedParts
<1> HIDE DEF ss
<1>3. g[0] = <<>> /\ g[Len(ss)] = h
  BY <1>1, SubSeqEmpty, SubSeqFull
<1>4. ASSUME NEW i \in 0..(Len(ss) - 1) PROVE g[i + 1] = g[i] \o ss[i + 1]
  <2>1. i \in Nat /\ i + 1 \in 1..Len(h) /\ 1 \in 1..Len(h) /\ i + 1 \in 1..Len(h) /\ i + 1 - 1 = i
    BY <1>1
  <2>2. SubSeq(h, 1, i + 1) = SubSeq(h, 1, i + 1 - 1) \o <<h[i + 1]>>
    BY <2>1, SubSeqRecursiveSecond
  <2>3. SubSeq(h, 1, i + 1) = SubSeq(h, 1, i) \o <<h[i + 1]>>
    BY <2>1, <2>2
  <2>4. g[i] = SubSeq(h, 1, i) /\ g[i + 1] = SubSeq(h, 1, i + 1)
    <3>1. \A j \in 0..Len(ss) : g[j] = SubSeq(h, 1, j)
      OBVIOUS
    <3>2. i \in 0..Len(ss) /\ i + 1 \in 0..Len(ss)
      BY <1>1, <2>1
    <3> HIDE DEF g
    <3> QED BY <3>1, <3>2
  <2>5. ss[i + 1] = <<h[i + 1]>>
    BY <1>2, <2>1
  <2> HIDE DEF g
  <2> QED BY <2>3, <2>4, <2>5
<1> HIDE DEF g
<1>5. Amounts(g, ss)
  BY <1>3, <1>4 DEF Amounts
<1> QED BY <1>1, <1>3, <1>5, FlattenedBy

\* The fields of two headers one after the other are those of the one and those of the other.
LEMMA FieldsJoined ==
  ASSUME NEW S, NEW s \in Seq(S), NEW t \in Seq(S), NEW n
  PROVE  Fields(s \o t, n) = Fields(s, n) \o Fields(t, n)
<1> DEFINE a == NamedParts(s, n)
           b == NamedParts(t, n)
           ab == NamedParts(s \o t, n)
<1>1. /\ Fields(s, n) = FlattenSeq(a) /\ a \in Seq(Seq(S)) /\ Len(a) = Len(s)
      /\ Len(s) \in Nat /\ DOMAIN s = 1..Len(s)
  BY FieldsOf
<1>2. /\ Fields(t, n) = FlattenSeq(b) /\ b \in Seq(Seq(S)) /\ Len(b) = Len(t)
      /\ Len(t) \in Nat /\ DOMAIN t = 1..Len(t)
  BY FieldsOf
<1>3. /\ Fields(s \o t, n) = FlattenSeq(ab) /\ ab \in Seq(Seq(S)) /\ Len(ab) = Len(s) + Len(t)
      /\ DOMAIN (s \o t) = 1..(Len(s) + Len(t))
  <2>1. s \o t \in Seq(S) /\ Len(s \o t) = Len(s) + Len(t)
    BY ConcatProperties
  <2> QED BY <2>1, FieldsOf
<1>4. /\ \A i \in 1..Len(s) : ab[i] = a[i]
      /\ \A i \in 1..Len(t) : ab[Len(s) + i] = b[i]
  <2>1. /\ \A i \in 1..Len(s) : i \in 1..(Len(s) + Len(t)) /\ (s \o t)[i] = s[i]
        /\ \A i \in 1..Len(t) : Len(s) + i \in 1..(Len(s) + Len(t)) /\ (s \o t)[Len(s) + i] = t[i]
    BY <1>1, <1>2, ConcatProperties
  <2> QED BY <1>1, <1>2, <1>3, <2>1 DEF NamedParts
<1> HIDE DEF a, b, ab
<1>5. PICK g : /\ Amounts(g, a) /\ FlattenSeq(a) = g[Len(a)]
               /\ \A i \in 0..Len(a) : g[i] \in Seq(S)
  BY <1>1, SomeAmounts
<1>6. PICK h : /\ Amounts(h, b) /\ FlattenSeq(b) = h[Len(b)]
               /\ \A i \in 0..Len(b) : h[i] \in Seq(S)
  BY <1>2, SomeAmounts
<1> DEFINE G == g[Len(s)]
           k == [i \in 0..Len(ab) |-> IF i < Len(s) THEN g[i] ELSE G \o h[i - Len(s)]]
<1>7. G \in Seq(S) /\ \A i \in 0..Len(t) : h[i] \in Seq(S)
  BY <1>1, <1>2, <1>5, <1>6
<1>8. \A i \in 0..Len(ab) : k[i] = IF i < Len(s) THEN g[i] ELSE G \o h[i - Len(s)]
  OBVIOUS
<1> HIDE DEF k
<1>behind. ASSUME NEW i \in 0..Len(t) PROVE k[Len(s) + i] = G \o h[i]
  <2>1. PICK e : e = Len(s) + i
    OBVIOUS
  <2>2. e \in 0..Len(ab) /\ ~(e < Len(s)) /\ e - Len(s) = i
    BY <1>1, <1>2, <1>3, <2>1
  <2>3. k[e] = IF e < Len(s) THEN g[e] ELSE G \o h[e - Len(s)]
    BY <1>8, <2>2
  <2> QED BY <2>1, <2>2, <2>3
<1>before. ASSUME NEW i \in 0..Len(s) PROVE k[i] = g[i]
  <2>1. CASE i < Len(s)
    <3>1. i \in 0..Len(ab)
      BY <1>1, <1>2, <1>3
    <3> QED BY <1>8, <2>1, <3>1
  <2>2. CASE i = Len(s)
    <3>1. G \o h[0] = G /\ 0 \in 0..Len(t) /\ Len(s) + 0 = i
      BY <1>1, <1>2, <1>6, <1>7, <2>2, ConcatEmptySeq DEF Amounts
    <3>2. k[Len(s) + 0] = G \o h[0]
      BY <1>behind, <3>1
    <3> QED BY <2>2, <3>1, <3>2
  <2> QED BY <1>1, <2>1, <2>2
<1>9. ASSUME NEW i \in 0..(Len(ab) - 1) PROVE k[i + 1] = k[i] \o ab[i + 1]
  <2>1. CASE i < Len(s)
    <3>1. i \in 0..Len(s) /\ i + 1 \in 0..Len(s) /\ i \in 0..(Len(a) - 1) /\ i + 1 \in 1..Len(s)
      BY <1>1, <1>2, <1>3, <2>1
    <3>2. g[i + 1] = g[i] \o a[i + 1]
      BY <1>5, <3>1 DEF Amounts
    <3>3. k[i] = g[i] /\ k[i + 1] = g[i + 1] /\ ab[i + 1] = a[i + 1]
      BY <1>4, <1>before, <3>1
    <3> QED BY <3>2, <3>3
  <2>2. CASE ~(i < Len(s))
    <3> DEFINE j == i - Len(s)
    <3>1. /\ j \in 0..(Len(b) - 1) /\ j \in 0..Len(t) /\ j + 1 \in 0..Len(t) /\ j + 1 \in 1..Len(t)
          /\ i = Len(s) + j /\ i + 1 = Len(s) + (j + 1)
      BY <1>1, <1>2, <1>3, <2>2
    <3> HIDE DEF j
    <3>2. h[j + 1] = h[j] \o b[j + 1]
      BY <1>6, <3>1 DEF Amounts
    <3>3. k[i] = G \o h[j] /\ k[i + 1] = G \o h[j + 1] /\ ab[i + 1] = b[j + 1]
      BY <1>4, <1>behind, <3>1
    <3>4. h[j] \in Seq(S) /\ b[j + 1] \in Seq(S)
      <4>1. b[j + 1] \in Seq(S)
        BY <1>2, <3>1, ElementOfSeq
      <4> QED BY <1>7, <3>1, <4>1
    <3>5. G \o (h[j] \o b[j + 1]) = (G \o h[j]) \o b[j + 1]
      <4>1. \A x, y, z \in Seq(S) : (x \o y) \o z = x \o (y \o z)
        <5> SUFFICES ASSUME NEW x \in Seq(S), NEW y \in Seq(S), NEW z \in Seq(S)
                     PROVE  (x \o y) \o z = x \o (y \o z)
          OBVIOUS
        <5> QED BY ONLY ConcatAssociative, x \in Seq(S), y \in Seq(S), z \in Seq(S), SMT
      <4> QED BY <1>7, <3>4, <4>1
    <3> QED BY <3>2, <3>3, <3>5
  <2> QED BY <1>1, <2>1, <2>2
<1>10. k[0] = <<>> /\ k[Len(ab)] = G \o h[Len(t)]
  <2>1. 0 \in 0..Len(s) /\ Len(t) \in 0..Len(t)
    BY <1>1, <1>2
  <2>2. k[0] = g[0] /\ k[Len(s) + Len(t)] = G \o h[Len(t)]
    BY <1>before, <1>behind, <2>1
  <2> QED BY <1>3, <1>5, <2>2 DEF Amounts
<1>11. Amounts(k, ab)
  BY <1>9, <1>10 DEF Amounts
<1>12. FlattenSeq(ab) = k[Len(ab)]
  BY <1>3, <1>11, FlattenedBy
<1> QED BY <1>1, <1>2, <1>3, <1>5, <1>6, <1>10, <1>12

\* The fields of a name in a header put together from parts are those of the parts.
LEMMA FieldsFlattened ==
  ASSUME NEW S, NEW ss \in Seq(Seq(S)), NEW n
  PROVE  Fields(FlattenSeq(ss), n) = FlattenSeq([i \in DOMAIN ss |-> Fields(ss[i], n)])
<1> DEFINE fs == [i \in DOMAIN ss |-> Fields(ss[i], n)]
<1>1. Len(ss) \in Nat /\ DOMAIN ss = 1..Len(ss) /\ \A i \in 1..Len(ss) : ss[i] \in Seq(S)
  BY LenProperties, ElementOfSeq
<1>2. \A i \in 1..Len(ss) : fs[i] \in Seq(S) /\ fs[i] = Fields(ss[i], n)
  BY <1>1, FieldsOf
<1>3. fs \in Seq(Seq(S)) /\ Len(fs) = Len(ss)
  <2>1. fs = [i \in DOMAIN ss |-> fs[i]] /\ IsSeq(ss)
    BY SeqIs
  <2> HIDE DEF fs
  <2> QED BY <1>1, <1>2, <2>1, PartsSeq
<1> HIDE DEF fs
<1>4. PICK g : /\ Amounts(g, ss) /\ FlattenSeq(ss) = g[Len(ss)]
               /\ \A i \in 0..Len(ss) : g[i] \in Seq(S)
  BY SomeAmounts
<1> DEFINE k == [i \in 0..Len(ss) |-> Fields(g[i], n)]
<1>5. \A i \in 0..Len(ss) : k[i] = Fields(g[i], n)
  OBVIOUS
<1> HIDE DEF k
<1>6. k[0] = <<>>
  <2>1. g[0] = <<>> /\ <<>> \in Seq(S) /\ 0 \in 0..Len(ss)
    BY <1>1, <1>4, EmptySeq DEF Amounts
  <2>2. Fields(<<>>, n) = <<>>
    <3>1. \A i \in DOMAIN <<>> : <<>>[i].name # n
      OBVIOUS
    <3> QED BY <2>1, <3>1, FieldsNone, Zenon
  <2> QED BY <1>5, <2>1, <2>2
<1>7. ASSUME NEW i \in 0..(Len(ss) - 1) PROVE k[i + 1] = k[i] \o fs[i + 1]
  <2>1. i \in 0..Len(ss) /\ i + 1 \in 0..Len(ss) /\ i + 1 \in 1..Len(ss)
    BY <1>1
  <2>2. g[i + 1] = g[i] \o ss[i + 1]
    BY <1>4, <2>1 DEF Amounts
  <2>3. g[i] \in Seq(S) /\ ss[i + 1] \in Seq(S)
    BY <1>1, <1>4, <2>1
  <2>4. Fields(g[i] \o ss[i + 1], n) = Fields(g[i], n) \o Fields(ss[i + 1], n)
    <3>1. \A s, t \in Seq(S) : Fields(s \o t, n) = Fields(s, n) \o Fields(t, n)
      BY FieldsJoined
    <3> QED BY <2>3, <3>1
  <2>5. k[i + 1] = Fields(g[i + 1], n) /\ k[i] = Fields(g[i], n) /\ fs[i + 1] = Fields(ss[i + 1], n)
    BY <1>2, <1>5, <2>1
  <2> QED BY <2>2, <2>4, <2>5
<1>8. FlattenSeq(fs) = k[Len(ss)]
  <2>1. Amounts(k, fs)
    BY <1>3, <1>6, <1>7 DEF Amounts
  <2> QED BY <1>3, <2>1, FlattenedBy
<1>9. k[Len(ss)] = Fields(FlattenSeq(ss), n)
  BY <1>1, <1>4, <1>5
<1> QED BY <1>8, <1>9 DEF fs

\* The fields of one name hold none of another.
LEMMA FieldsOfFields ==
  ASSUME NEW h, IsSeq(h), NEW m, NEW n
  PROVE  Fields(Fields(h, m), n) = IF m = n THEN Fields(h, m) ELSE <<>>
<1>1. IsSeq(Fields(h, m)) /\ ToSet(Fields(h, m)) = {f \in ToSet(h) : f.name = m}
  BY FieldsOfName
<1>2. \A i \in DOMAIN Fields(h, m) : Fields(h, m)[i].name = m
  BY <1>1 DEF ToSet
<1> QED BY <1>1, <1>2, FieldsAll, FieldsNone DEF IsSeq

\* Header.Merge gives a name the values of over, or where it has none those of h.
LEMMA MergedFields ==
  ASSUME NEW h, NEW over, IsSeq(h), IsSeq(over), NEW n
  PROVE  Fields(Merge(h, over), n) = IF Has(over, n) THEN Fields(over, n) ELSE Fields(h, n)
<1> DEFINE A == [i \in DOMAIN h |->
                   IF ~Has(over, h[i].name) THEN <<h[i]>>
                   ELSE IF FirstOfName(h, i) THEN Fields(over, h[i].name) ELSE <<>>]
           B == [i \in DOMAIN over |->
                   IF FirstOfName(over, i) /\ ~Has(h, over[i].name)
                   THEN Fields(over, over[i].name) ELSE <<>>]
           S == ToSet(h) \cup ToSet(over)
<1>1. Merge(h, over) = FlattenSeq(A) \o FlattenSeq(B)
  BY DEF Merge
<1>2. h \in Seq(S) /\ over \in Seq(S) /\ <<>> \in Seq(S) /\ \A m : Fields(over, m) \in Seq(S)
  <2>1. h \in Seq(S) /\ over \in Seq(S)
    BY SeqMonotonic DEF IsSeq
  <2> HIDE DEF S
  <2> QED BY <2>1, EmptySeq, FieldsOf
<1>3. /\ \A i \in DOMAIN h : h[i] \in S
      /\ DOMAIN h = 1..Len(h) /\ Len(h) \in Nat /\ DOMAIN over = 1..Len(over) /\ Len(over) \in Nat
  BY DEF ToSet, IsSeq
<1> HIDE DEF S
<1>4. ASSUME NEW x \in S
      PROVE  <<x>> \in Seq(S) /\ Fields(<<x>>, n) = IF x.name = n THEN <<x>> ELSE <<>>
  <2>1. <<x>> \in Seq(S) /\ DOMAIN <<x>> = {1} /\ <<x>>[1] = x
    OBVIOUS
  <2> QED BY <2>1, FieldsAll, FieldsNone
<1>5. Fields(<<>>, n) = <<>>
  <2>1. \A i \in DOMAIN <<>> : <<>>[i].name # n
    OBVIOUS
  <2> QED BY <1>2, <2>1, FieldsNone, Zenon
<1>6. ASSUME NEW i \in DOMAIN h
      PROVE  A[i] \in Seq(S) /\ Fields(A[i], n) = IF h[i].name = n THEN A[i] ELSE <<>>
  <2>1. CASE ~Has(over, h[i].name)
    <3>1. A[i] = <<h[i]>>
      BY <2>1
    <3> HIDE DEF A
    <3> QED BY <1>3, <1>4, <3>1
  <2>2. CASE Has(over, h[i].name) /\ FirstOfName(h, i)
    <3>1. A[i] = Fields(over, h[i].name)
      BY <2>2
    <3> HIDE DEF A
    <3> QED BY <1>2, <3>1, FieldsOfFields
  <2>3. CASE Has(over, h[i].name) /\ ~FirstOfName(h, i)
    <3>1. A[i] = <<>>
      BY <2>3
    <3> HIDE DEF A
    <3> QED BY <1>2, <1>5, <3>1
  <2> QED BY <2>1, <2>2, <2>3
<1>7. ASSUME NEW i \in DOMAIN over
      PROVE  B[i] \in Seq(S) /\ Fields(B[i], n) = IF over[i].name = n THEN B[i] ELSE <<>>
  <2>1. CASE FirstOfName(over, i) /\ ~Has(h, over[i].name)
    <3>1. B[i] = Fields(over, over[i].name)
      BY <2>1
    <3> HIDE DEF B
    <3> QED BY <1>2, <3>1, FieldsOfFields
  <2>2. CASE ~(FirstOfName(over, i) /\ ~Has(h, over[i].name))
    <3>1. B[i] = <<>>
      BY <2>2
    <3> HIDE DEF B
    <3> QED BY <1>2, <1>5, <3>1
  <2> QED BY <2>1, <2>2
<1> DEFINE a == [i \in DOMAIN h |-> IF h[i].name = n THEN A[i] ELSE <<>>]
           b == [i \in DOMAIN over |-> IF over[i].name = n THEN B[i] ELSE <<>>]
<1>8. Fields(Merge(h, over), n) = FlattenSeq(a) \o FlattenSeq(b)
  <2>1. A = [i \in DOMAIN h |-> A[i]] /\ B = [i \in DOMAIN over |-> B[i]]
    OBVIOUS
  <2> HIDE DEF A, B
  <2>2. A \in Seq(Seq(S)) /\ B \in Seq(Seq(S)) /\ DOMAIN A = DOMAIN h /\ DOMAIN B = DOMAIN over
    BY <1>6, <1>7, <2>1, PartsSeq
  <2>3. FlattenSeq(A) \in Seq(S) /\ FlattenSeq(B) \in Seq(S)
    BY <2>2, Flattened
  <2>4. /\ Fields(FlattenSeq(A), n) = FlattenSeq([i \in DOMAIN A |-> Fields(A[i], n)])
        /\ Fields(FlattenSeq(B), n) = FlattenSeq([i \in DOMAIN B |-> Fields(B[i], n)])
    BY <2>2, FieldsFlattened
  <2>5. [i \in DOMAIN A |-> Fields(A[i], n)] = a /\ [i \in DOMAIN B |-> Fields(B[i], n)] = b
    BY <1>6, <1>7, <2>2
  <2>6. Fields(FlattenSeq(A) \o FlattenSeq(B), n) = Fields(FlattenSeq(A), n) \o Fields(FlattenSeq(B), n)
    BY <2>3, FieldsJoined
  <2> QED BY <1>1, <2>4, <2>5, <2>6
<1>9. a = [i \in DOMAIN h |-> a[i]] /\ b = [i \in DOMAIN over |-> b[i]]
  OBVIOUS
<1>10. CASE ~Has(over, n)
  <2>1. a = NamedParts(h, n)
    BY <1>10 DEF NamedParts
  <2>2. \A i \in DOMAIN over : b[i] = <<>>
    BY <1>10 DEF Has
  <2> HIDE DEF a, b
  <2>3. FlattenSeq(a) = Fields(h, n) /\ FlattenSeq(b) = <<>> /\ Fields(h, n) \in Seq(S)
    BY <1>2, <1>9, <2>1, <2>2, FieldsOf, FlattenedNone
  <2>4. Fields(h, n) \o <<>> = Fields(h, n)
    BY <2>3, ConcatEmptySeq
  <2> QED BY <1>8, <1>10, <2>3, <2>4
<1>11. CASE Has(over, n) /\ Has(h, n)
  <2>1. PICK k \in DOMAIN h : h[k].name = n /\ FirstOfName(h, k)
    BY <1>11, FirstField DEF Has, FieldNames
  <2>2. ASSUME NEW i \in DOMAIN h \ {k}, h[i].name = n PROVE ~FirstOfName(h, i)
    BY <1>3, <2>1, <2>2 DEF FirstOfName
  <2>3. a[k] = Fields(over, n) /\ \A i \in DOMAIN h \ {k} : a[i] = <<>>
    BY <1>11, <2>1, <2>2
  <2>4. \A i \in DOMAIN over : b[i] = <<>>
    BY <1>11
  <2> HIDE DEF a, b
  <2>5. IsSeq(a[k])
    BY <2>3, FieldsOfName
  <2>6. FlattenSeq(a) = Fields(over, n) /\ FlattenSeq(b) = <<>>
    BY <1>9, <2>3, <2>4, <2>5, FlattenedNone, FlattenedOne
  <2>7. Fields(over, n) \o <<>> = Fields(over, n)
    BY <1>2, ConcatEmptySeq
  <2> QED BY <1>8, <1>11, <2>6, <2>7
<1>12. CASE Has(over, n) /\ ~Has(h, n)
  <2>1. PICK k \in DOMAIN over : over[k].name = n /\ FirstOfName(over, k)
    BY <1>12, FirstField DEF Has, FieldNames
  <2>2. ASSUME NEW i \in DOMAIN over \ {k}, over[i].name = n PROVE ~FirstOfName(over, i)
    BY <1>3, <2>1, <2>2 DEF FirstOfName
  <2>3. b[k] = Fields(over, n) /\ \A i \in DOMAIN over \ {k} : b[i] = <<>>
    BY <1>12, <2>1, <2>2
  <2>4. \A i \in DOMAIN h : a[i] = <<>>
    BY <1>12 DEF Has
  <2> HIDE DEF a, b
  <2>5. IsSeq(b[k])
    BY <2>3, FieldsOfName
  <2>6. FlattenSeq(b) = Fields(over, n) /\ FlattenSeq(a) = <<>>
    BY <1>9, <2>3, <2>4, <2>5, FlattenedNone, FlattenedOne
  <2>7. <<>> \o Fields(over, n) = Fields(over, n)
    BY <1>2, ConcatEmptySeq
  <2> QED BY <1>8, <1>12, <2>6, <2>7
<1> QED BY <1>10, <1>11, <1>12

\* profileHTTP1Headers gives a measured name its values on HTTP/1.1, or else the shared ones.
LEMMA HTTP1Fields ==
  ASSUME NEW shared, NEW http1, IsSeq(shared), IsSeq(http1.headers), IsSeq(http1.order),
         IsInjective(http1.order), NEW n
  PROVE  Fields(HTTP1Headers(shared, http1), n) =
           IF n \in ToSet(http1.order) \ {"host"} THEN Fields(Merge(shared, http1.headers), n) ELSE <<>>
<1> DEFINE resolved == Merge(shared, http1.headers)
           ss == [i \in DOMAIN http1.order |->
                    IF http1.order[i] = "host" THEN <<>> ELSE Fields(resolved, http1.order[i])]
           fs == [i \in DOMAIN http1.order |->
                    IF http1.order[i] = n /\ n # "host" THEN Fields(resolved, n) ELSE <<>>]
           S == ToSet(resolved)
<1>1. IsSeq(resolved)
  BY MergedNames
<1>2. HTTP1Headers(shared, http1) = FlattenSeq(ss)
  BY DEF HTTP1Headers
<1> HIDE DEF resolved
<1>3. resolved \in Seq(S) /\ <<>> \in Seq(S) /\ \A m : Fields(resolved, m) \in Seq(S)
  BY <1>1, EmptySeq, FieldsOf DEF IsSeq
<1> HIDE DEF S
<1>4. Fields(<<>>, n) = <<>>
  <2>1. \A i \in DOMAIN <<>> : <<>>[i].name # n
    OBVIOUS
  <2> QED BY <1>3, <2>1, FieldsNone, Zenon
<1>5. Fields(FlattenSeq(ss), n) = FlattenSeq(fs)
  <2>1. ss = [i \in DOMAIN http1.order |-> ss[i]] /\ \A i \in DOMAIN http1.order : ss[i] \in Seq(S)
    BY <1>3
  <2>2. \A i \in DOMAIN http1.order : Fields(ss[i], n) = fs[i]
    BY <1>1, <1>4, FieldsOfFields
  <2>3. fs = [i \in DOMAIN http1.order |-> fs[i]]
    OBVIOUS
  <2> HIDE DEF ss, fs
  <2>4. ss \in Seq(Seq(S)) /\ DOMAIN ss = DOMAIN http1.order
    BY <2>1, PartsSeq
  <2>5. Fields(FlattenSeq(ss), n) = FlattenSeq([i \in DOMAIN ss |-> Fields(ss[i], n)])
    BY <2>4, FieldsFlattened
  <2>6. [i \in DOMAIN ss |-> Fields(ss[i], n)] = fs
    BY <2>2, <2>3, <2>4
  <2> QED BY <2>5, <2>6
<1>6. fs = [i \in DOMAIN http1.order |-> fs[i]]
  OBVIOUS
<1>7. CASE n \in ToSet(http1.order) \ {"host"}
  <2>1. PICK k \in DOMAIN http1.order : http1.order[k] = n
    BY <1>7 DEF ToSet
  <2>2. fs[k] = Fields(resolved, n) /\ \A i \in DOMAIN http1.order \ {k} : fs[i] = <<>>
    BY <1>7, <2>1 DEF IsInjective
  <2> HIDE DEF fs
  <2>3. IsSeq(fs[k])
    BY <1>1, <2>2, FieldsOfName
  <2>4. FlattenSeq(fs) = Fields(resolved, n)
    BY <1>6, <2>2, <2>3, FlattenedOne
  <2> HIDE DEF ss
  <2> QED BY <1>2, <1>5, <1>7, <2>4 DEF resolved
<1>8. CASE n \notin ToSet(http1.order) \ {"host"}
  <2>1. \A i \in DOMAIN http1.order : fs[i] = <<>>
    BY <1>8 DEF ToSet
  <2> HIDE DEF fs
  <2> QED BY <1>2, <1>5, <1>6, <1>8, <2>1, FlattenedNone
<1> QED BY <1>7, <1>8

\* Each part lies at its offset in the sequence flattened, one after the other, and there is
\* nothing between them.
LaidAt(F, ss, at) ==
    /\ \A k \in DOMAIN ss : at[k] \in Nat
    /\ \A k, l \in DOMAIN ss : k < l => at[k] + Len(ss[k]) <= at[l]
    /\ \A k \in DOMAIN ss : \A q \in 1..Len(ss[k]) : at[k] + q \in DOMAIN F /\ F[at[k] + q] = ss[k][q]
    /\ \A i \in DOMAIN F : \E k \in DOMAIN ss : \E q \in 1..Len(ss[k]) : i = at[k] + q

LEMMA FlattenedAt ==
  ASSUME NEW S, NEW ss \in Seq(Seq(S))
  PROVE  \E at : LaidAt(FlattenSeq(ss), ss, at)
<1>1. Len(ss) \in Nat /\ DOMAIN ss = 1..Len(ss) /\ \A i \in 1..Len(ss) : ss[i] \in Seq(S)
  BY LenProperties, ElementOfSeq
<1>2. PICK g : /\ Amounts(g, ss) /\ FlattenSeq(ss) = g[Len(ss)]
               /\ \A i \in 0..Len(ss) : g[i] \in Seq(S)
  BY SomeAmounts
<1>3. /\ \A i \in 0..Len(ss) : Len(g[i]) \in Nat /\ DOMAIN g[i] = 1..Len(g[i])
      /\ \A i \in 1..Len(ss) : Len(ss[i]) \in Nat
  <2>1. ASSUME NEW i \in 0..Len(ss) PROVE Len(g[i]) \in Nat /\ DOMAIN g[i] = 1..Len(g[i])
    <3>1. g[i] \in Seq(S)
      BY <1>2
    <3> QED BY <3>1, LenProperties
  <2>2. ASSUME NEW i \in 1..Len(ss) PROVE Len(ss[i]) \in Nat
    <3>1. ss[i] \in Seq(S)
      BY <1>1
    <3> QED BY <3>1, LenProperties
  <2> QED BY <2>1, <2>2
<1> DEFINE at == [k \in 1..Len(ss) |-> Len(g[k - 1])]
<1>4. ASSUME NEW n \in 0..(Len(ss) - 1) PROVE at[n + 1] = Len(g[n])
  <2>1. n + 1 \in 1..Len(ss) /\ n + 1 - 1 = n
    BY <1>1
  <2>2. at[n + 1] = Len(g[n + 1 - 1])
    BY <2>1
  <2> QED BY <2>1, <2>2
<1>5. \A k \in 1..Len(ss) : at[k] \in Nat
  <2> SUFFICES ASSUME NEW k \in 1..Len(ss) PROVE at[k] \in Nat
    OBVIOUS
  <2>1. k - 1 \in 0..Len(ss) /\ at[k] = Len(g[k - 1])
    BY <1>1
  <2> HIDE DEF at
  <2> QED BY <1>3, <2>1
<1> HIDE DEF at
<1> DEFINE Below(n) ==
      /\ \A k \in 1..n : at[k] + Len(ss[k]) <= Len(g[n])
      /\ \A k \in 1..n : \A q \in 1..Len(ss[k]) : g[n][at[k] + q] = ss[k][q]
      /\ \A i \in 1..Len(g[n]) : \E k \in 1..n : \E q \in 1..Len(ss[k]) : i = at[k] + q
           T == {n \in Nat : n \in 0..Len(ss) => Below(n)}
<1>6. 0 \in T
  BY <1>2 DEF Amounts
<1>7. ASSUME NEW n \in T, NEW m, m = n + 1, m \in 0..Len(ss) PROVE Below(m)
  <2>1. n \in 0..(Len(ss) - 1) /\ n \in 0..Len(ss) /\ m \in 1..Len(ss) /\ 1..m = 1..n \cup {m} /\ n \in Nat
    BY <1>1, <1>7
  <2>2. Below(n)
    BY <2>1
  <2> HIDE DEF T, Below
  <2>3. g[m] = g[n] \o ss[m] /\ at[m] = Len(g[n])
    BY <1>2, <1>4, <1>7, <2>1 DEF Amounts
  <2>4. g[n] \in Seq(S) /\ ss[m] \in Seq(S) /\ Len(g[n]) \in Nat /\ Len(ss[m]) \in Nat
    BY <1>1, <1>2, <1>3, <2>1
  <2>5. /\ Len(g[m]) = Len(g[n]) + Len(ss[m])
        /\ \A i \in 1..Len(g[n]) : g[m][i] = g[n][i]
        /\ \A q \in 1..Len(ss[m]) : g[m][Len(g[n]) + q] = ss[m][q]
    <3> DEFINE x == g[n]
               y == ss[m]
    <3>1. x \in Seq(S) /\ y \in Seq(S) /\ Len(x) \in Nat /\ Len(y) \in Nat
      BY <2>4
    <3> HIDE DEF x, y
    <3>2. /\ Len(x \o y) = Len(x) + Len(y)
          /\ \A i \in 1..Len(x) : (x \o y)[i] = x[i]
          /\ \A q \in 1..Len(y) : (x \o y)[Len(x) + q] = y[q]
      BY <3>1, ConcatProperties
    <3> QED BY <2>3, <3>2 DEF x, y
  <2> DEFINE x == Len(g[n])
             y == Len(ss[m])
             z == Len(g[m])
  <2>6. x \in Nat /\ y \in Nat /\ z = x + y
    BY <2>4, <2>5
  <2> HIDE DEF x, y, z
  <2>7. \A k \in 1..n : Len(ss[k]) \in Nat /\ at[k] \in Nat
    BY <1>1, <1>3, <1>5, <2>1
  <2>8. ASSUME NEW k \in 1..m PROVE at[k] + Len(ss[k]) <= Len(g[m])
    <3>1. CASE k = m
      <4>1. at[k] = x /\ Len(ss[k]) = y
        BY <2>3, <3>1 DEF x, y
      <4>2. at[k] + Len(ss[k]) <= z
        BY <2>6, <4>1
      <4> QED BY <4>2 DEF z
    <3>2. CASE k \in 1..n
      <4>1. PICK v, w : v = at[k] /\ w = Len(ss[k]) /\ v \in Nat /\ w \in Nat /\ v + w <= x
        BY <2>2, <2>7, <3>2 DEF Below, x
      <4>2. v + w <= z
        BY <2>6, <4>1
      <4> QED BY <4>1, <4>2 DEF z
    <3> QED BY <2>1, <3>1, <3>2
  <2>9. ASSUME NEW k \in 1..m, NEW q \in 1..Len(ss[k]) PROVE g[m][at[k] + q] = ss[k][q]
    <3>1. CASE k = m
      BY <2>3, <2>5, <3>1
    <3>2. CASE k \in 1..n
      <4>1. at[k] + Len(ss[k]) <= Len(g[n]) /\ g[n][at[k] + q] = ss[k][q]
        BY <2>2, <3>2 DEF Below
      <4>2. at[k] + q \in 1..Len(g[n])
        <5>1. PICK v, w : v = at[k] /\ w = Len(ss[k]) /\ v \in Nat /\ w \in Nat /\ v + w <= x /\ q \in 1..w
          BY <2>7, <3>2, <4>1 DEF x
        <5>2. v + q \in 1..x
          BY <2>6, <5>1
        <5> QED BY <5>1, <5>2 DEF x
      <4> QED BY <2>5, <4>1, <4>2
    <3> QED BY <2>1, <3>1, <3>2
  <2>10. ASSUME NEW i \in 1..Len(g[m])
        PROVE  \E k \in 1..m : \E q \in 1..Len(ss[k]) : i = at[k] + q
    <3>1. CASE i \in 1..Len(g[n])
      <4>1. PICK k \in 1..n : \E q \in 1..Len(ss[k]) : i = at[k] + q
        BY <2>2, <3>1 DEF Below
      <4> QED BY <2>1, <4>1
    <3>2. CASE i \notin 1..Len(g[n])
      <4>1. i \in 1..z /\ i \notin 1..x
        BY <3>2 DEF x, z
      <4>2. PICK q : q \in 1..y /\ i = x + q
        <5>1. i - x \in 1..y /\ i = x + (i - x)
          BY <2>6, <4>1
        <5> QED BY <5>1
      <4>3. q \in 1..Len(ss[m]) /\ i = at[m] + q
        BY <2>3, <4>2 DEF x, y
      <4> QED BY <2>1, <4>3
    <3> QED BY <3>1, <3>2
  <2> QED BY <2>8, <2>9, <2>10 DEF Below
<1> HIDE DEF Below
<1>8. T = Nat
  <2>1. \A n \in T : n + 1 \in T
    <3>1. ASSUME NEW n \in T, n + 1 \in 0..Len(ss) PROVE Below(n + 1)
      BY <1>7, <3>1
    <3>2. \A n \in T : n \in Nat
      OBVIOUS
    <3> QED BY <3>1, <3>2
  <2> HIDE DEF T
  <2>2. T \in SUBSET Nat
    BY DEF T
  <2> QED BY <1>6, <2>1, <2>2, AllNat
<1>9. \A n \in 0..Len(ss) : Below(n)
  BY <1>1, <1>8
<1> HIDE DEF T
<1>10. ASSUME NEW k \in 1..Len(ss), NEW l \in 1..Len(ss), k < l
       PROVE  at[k] + Len(ss[k]) <= at[l]
  <2>1. PICK n : n = l - 1
    OBVIOUS
  <2>2. n \in 0..(Len(ss) - 1) /\ n \in 0..Len(ss) /\ k \in 1..n /\ l = n + 1
    BY <1>1, <1>10, <2>1
  <2>3. at[l] = Len(g[n])
    BY <1>4, <2>2
  <2> QED BY <1>9, <2>2, <2>3 DEF Below
<1>11. Below(Len(ss))
  BY <1>1, <1>9
<1>12. ASSUME NEW k \in 1..Len(ss), NEW q \in 1..Len(ss[k])
       PROVE  at[k] + q \in DOMAIN g[Len(ss)]
  <2>1. /\ at[k] \in Nat /\ Len(ss[k]) \in Nat /\ Len(g[Len(ss)]) \in Nat
        /\ DOMAIN g[Len(ss)] = 1..Len(g[Len(ss)]) /\ at[k] + Len(ss[k]) <= Len(g[Len(ss)])
    BY <1>1, <1>3, <1>5, <1>11 DEF Below
  <2> QED BY <2>1
<1>13. DOMAIN g[Len(ss)] = 1..Len(g[Len(ss)])
  BY <1>1, <1>3
<1>14. LaidAt(g[Len(ss)], ss, at)
  BY <1>1, <1>5, <1>10, <1>11, <1>12, <1>13 DEF LaidAt, Below
<1> QED BY <1>2, <1>14

\* Of the names, s has those that were measured in the order measured, and each once.
InOrder(s, names, measured) ==
    \A i, j \in DOMAIN s : i < j /\ s[i] \in names /\ s[j] \in names => Leads(measured, s[i], s[j])

\* The parts ss of s have one element at most, and those of F are theirs in their order.
Singly(s, ss) == \A i \in DOMAIN s : ss[i] = <<>> \/ \E x : ss[i] = <<x>>
PartsInOrder(s, ss, F) ==
    \A i, j \in DOMAIN F : i < j =>
        \E k, l \in DOMAIN s : k < l /\ ss[k] = <<F[i]>> /\ ss[l] = <<F[j]>>

\* What is flattened from parts of one element at most keeps the order of the parts.
LEMMA SinglesInOrder ==
  ASSUME NEW s, IsSeq(s), NEW ss, ss = [i \in DOMAIN s |-> ss[i]],
         Singly(s, ss), NEW F, F = FlattenSeq(ss)
  PROVE  PartsInOrder(s, ss, F)
<1> SUFFICES ASSUME NEW i \in DOMAIN F, NEW j \in DOMAIN F, i < j
             PROVE  \E k, l \in DOMAIN s : k < l /\ ss[k] = <<F[i]>> /\ ss[l] = <<F[j]>>
  BY DEF PartsInOrder
<1>0. \A k \in DOMAIN s : ss[k] = <<>> \/ \E x : ss[k] = <<x>>
  BY DEF Singly
<1> DEFINE S == UNION {ToSet(ss[k]) : k \in DOMAIN s}
<1>1. \A k \in DOMAIN s : ss[k] \in Seq(S)
  <2> SUFFICES ASSUME NEW k \in DOMAIN s PROVE ss[k] \in Seq(S)
    OBVIOUS
  <2>1. ss[k] \in Seq(ToSet(ss[k])) /\ ToSet(ss[k]) \subseteq S
    BY <1>0, Singles DEF IsSeq
  <2> HIDE DEF S
  <2> QED BY <2>1, SeqMonotonic
<1> HIDE DEF S
<1>2. ss \in Seq(Seq(S)) /\ DOMAIN s = 1..Len(s) /\ Len(s) \in Nat /\ DOMAIN ss = DOMAIN s
  BY <1>1, PartsSeq
<1>3. PICK at : LaidAt(F, ss, at)
  BY <1>2, FlattenedAt
<1>4. ASSUME NEW x \in DOMAIN F
      PROVE  \E k \in DOMAIN s : x = at[k] + 1 /\ Len(ss[k]) = 1 /\ at[k] \in Nat /\ ss[k] = <<F[x]>>
  <2>1. PICK k \in DOMAIN s : \E q \in 1..Len(ss[k]) : x = at[k] + q
    BY <1>2, <1>3 DEF LaidAt
  <2>2. PICK q \in 1..Len(ss[k]) : x = at[k] + q
    BY <2>1
  <2>3. ss[k] # <<>>
    BY <2>2
  <2>4. PICK e : ss[k] = <<e>>
    BY <1>0, <2>3
  <2>5. Len(ss[k]) = 1 /\ q = 1 /\ ss[k][1] = e
    <3>1. PICK part : part = ss[k]
      OBVIOUS
    <3>2. part = <<e>> /\ q \in 1..Len(part)
      BY <2>2, <2>4, <3>1
    <3>3. Len(part) = 1 /\ q = 1 /\ part[1] = e
      BY <3>2
    <3> QED BY <3>1, <3>3
  <2>6. at[k] \in Nat /\ F[at[k] + q] = ss[k][q]
    BY <1>2, <1>3 DEF LaidAt
  <2> QED BY <2>2, <2>4, <2>5, <2>6
<1>5. PICK k \in DOMAIN s : i = at[k] + 1 /\ Len(ss[k]) = 1 /\ at[k] \in Nat /\ ss[k] = <<F[i]>>
  BY <1>4
<1>6. PICK l \in DOMAIN s : j = at[l] + 1 /\ Len(ss[l]) = 1 /\ at[l] \in Nat /\ ss[l] = <<F[j]>>
  BY <1>4
<1>7. k # l
  BY <1>5, <1>6
<1>8. ~(l < k)
  <2> SUFFICES ASSUME l < k PROVE FALSE
    OBVIOUS
  <2>1. at[l] + Len(ss[l]) <= at[k]
    BY <1>2, <1>3 DEF LaidAt
  <2> QED BY <1>5, <1>6, <2>1
<1>9. k < l
  BY <1>2, <1>7, <1>8
<1> QED BY <1>5, <1>6, <1>9

\* Some of the names, in their order.
LEMMA PickedInOrder ==
  ASSUME NEW s, IsSeq(s), NEW ss, ss = [i \in DOMAIN s |-> ss[i]],
         \A i \in DOMAIN s : ss[i] = <<>> \/ ss[i] = <<s[i]>>,
         NEW names, NEW measured, InOrder(s, names, measured)
  PROVE  /\ InOrder(FlattenSeq(ss), names, measured)
         /\ IsSeq(FlattenSeq(ss)) /\ ToSet(FlattenSeq(ss)) = {s[i] : i \in {k \in DOMAIN s : ss[k] # <<>>}}
<1> DEFINE F == FlattenSeq(ss)
<1>1. ASSUME NEW i \in DOMAIN F, NEW j \in DOMAIN F, i < j, F[i] \in names, F[j] \in names
      PROVE  Leads(measured, F[i], F[j])
  <2>1. Singly(s, ss)
    BY DEF Singly
  <2>2. PICK k, l \in DOMAIN s : k < l /\ ss[k] = <<F[i]>> /\ ss[l] = <<F[j]>>
    <3>0. F = FlattenSeq(ss)
      OBVIOUS
    <3> HIDE DEF F
    <3>1. PartsInOrder(s, ss, F)
      BY <3>0, <2>1, SinglesInOrder
    <3> QED BY <1>1, <3>1 DEF PartsInOrder
  <2>3. s[k] = F[i] /\ s[l] = F[j]
    <3> HIDE DEF F
    <3>1. \A x, y : <<x>> # <<>> /\ (<<x>> = <<y>> => x = y)
      OBVIOUS
    <3> QED BY <2>2, <3>1, Zenon
  <2> QED BY <1>1, <2>2, <2>3 DEF InOrder
<1>2. /\ IsSeq(F) /\ ToSet(F) = UNION {ToSet(ss[i]) : i \in DOMAIN s}
  <2>1. \A i \in DOMAIN s : IsSeq(ss[i])
    BY Singles
  <2> QED BY <2>1, FlattenedOf
<1>3. \A i \in DOMAIN s : ToSet(ss[i]) = IF ss[i] = <<>> THEN {} ELSE {s[i]}
  BY Singles
<1>4. ToSet(F) = {s[i] : i \in {k \in DOMAIN s : ss[k] # <<>>}}
  BY <1>2, <1>3
<1> QED BY <1>1, <1>2, <1>4 DEF InOrder

\* Names that were not measured may come before or behind.
LEMMA JoinedInOrder ==
  ASSUME NEW s, NEW t, IsSeq(s), IsSeq(t), NEW names, NEW measured,
         \/ InOrder(s, names, measured) /\ ToSet(t) \cap names = {}
         \/ InOrder(t, names, measured) /\ ToSet(s) \cap names = {}
  PROVE  InOrder(s \o t, names, measured)
<1> DEFINE S == ToSet(s) \cup ToSet(t)
           st == s \o t
<1>1. s \in Seq(S) /\ t \in Seq(S)
  BY SeqMonotonic DEF IsSeq
<1> HIDE DEF S
<1>2. /\ Len(s) \in Nat /\ Len(t) \in Nat /\ DOMAIN s = 1..Len(s) /\ DOMAIN t = 1..Len(t)
      /\ DOMAIN st = 1..(Len(s) + Len(t))
      /\ \A i \in 1..(Len(s) + Len(t)) : st[i] = IF i <= Len(s) THEN s[i] ELSE t[i - Len(s)]
  BY <1>1, ConcatProperties, LenProperties
<1> HIDE DEF st
<1>3. ASSUME NEW i \in DOMAIN st
      PROVE  \/ i \in DOMAIN s /\ st[i] = s[i] /\ st[i] \in ToSet(s)
             \/ i - Len(s) \in DOMAIN t /\ st[i] = t[i - Len(s)] /\ st[i] \in ToSet(t)
  <2>1. i \in 1..(Len(s) + Len(t)) /\ st[i] = IF i <= Len(s) THEN s[i] ELSE t[i - Len(s)]
    BY <1>2
  <2>2. CASE i <= Len(s)
    BY <1>2, <2>1, <2>2 DEF ToSet
  <2>3. CASE ~(i <= Len(s))
    <3>1. i - Len(s) \in 1..Len(t)
      BY <1>2, <2>1, <2>3
    <3> QED BY <1>2, <2>1, <2>3, <3>1 DEF ToSet
  <2> QED BY <2>2, <2>3
<1>4. ASSUME NEW i \in DOMAIN st, NEW j \in DOMAIN st, i < j, st[i] \in names, st[j] \in names
      PROVE  Leads(measured, st[i], st[j])
  <2>1. CASE InOrder(s, names, measured) /\ ToSet(t) \cap names = {}
    <3>1. i \in DOMAIN s /\ st[i] = s[i] /\ j \in DOMAIN s /\ st[j] = s[j]
      BY <1>3, <1>4, <2>1
    <3> QED BY <1>4, <2>1, <3>1 DEF InOrder
  <2>2. CASE InOrder(t, names, measured) /\ ToSet(s) \cap names = {}
    <3>1. /\ i - Len(s) \in DOMAIN t /\ st[i] = t[i - Len(s)]
          /\ j - Len(s) \in DOMAIN t /\ st[j] = t[j - Len(s)]
      BY <1>3, <1>4, <2>2
    <3>2. i - Len(s) < j - Len(s)
      BY <1>2, <1>4
    <3> QED BY <1>4, <2>2, <3>1, <3>2 DEF InOrder
  <2> QED BY <2>1, <2>2
<1> QED BY <1>4 DEF InOrder, st

\* The names of a header, each where it comes first, are in the order of the header.
LEMMA DistinctInOrder ==
  ASSUME NEW h, IsSeq(h), NEW names
  PROVE  /\ InOrder(Distinct(h), names, NamesOf(h)) /\ IsSeq(Distinct(h))
         /\ ToSet(Distinct(h)) = FieldNames(h)
<1> DEFINE ss == [i \in DOMAIN h |-> IF FirstOfName(h, i) THEN <<h[i].name>> ELSE <<>>]
           F == FlattenSeq(ss)
<1>1. F = Distinct(h)
  BY DEF Distinct
<1>2. /\ ss = [i \in DOMAIN h |-> ss[i]]
      /\ \A i \in DOMAIN h : ss[i] = IF FirstOfName(h, i) THEN <<h[i].name>> ELSE <<>>
  OBVIOUS
<1> HIDE DEF ss
<1>3. Singly(h, ss)
  BY <1>2 DEF Singly
<1>4. IsSeq(NamesOf(h)) /\ DOMAIN NamesOf(h) = DOMAIN h /\ DOMAIN h = 1..Len(h) /\ Len(h) \in Nat
      /\ \A i \in DOMAIN h : NamesOf(h)[i] = h[i].name
  BY NamesSeq DEF IsSeq, NamesOf
<1>5. ASSUME NEW i \in DOMAIN F, NEW j \in DOMAIN F, i < j
      PROVE  Leads(NamesOf(h), F[i], F[j])
  <2>1. PICK k, l \in DOMAIN h : k < l /\ ss[k] = <<F[i]>> /\ ss[l] = <<F[j]>>
    <3>0. F = FlattenSeq(ss)
      OBVIOUS
    <3> HIDE DEF F
    <3>1. PartsInOrder(h, ss, F)
      BY <3>0, <1>2, <1>3, SinglesInOrder
    <3> QED BY <1>5, <3>1 DEF PartsInOrder
  <2>2. h[k].name = F[i] /\ h[l].name = F[j] /\ FirstOfName(h, l)
    BY <1>2, <2>1
  <2>3. \A x \in 1..k : x \in DOMAIN h /\ x \in 1..(l - 1)
    BY <1>4, <2>1
  <2>4. F[j] \notin {NamesOf(h)[x] : x \in 1..k}
    BY <1>4, <2>2, <2>3 DEF FirstOfName
  <2> QED BY <1>4, <2>2, <2>4 DEF Leads
<1>6. /\ IsSeq(F) /\ ToSet(F) = UNION {ToSet(ss[i]) : i \in DOMAIN h}
  <2>1. \A i \in DOMAIN h : IsSeq(ss[i])
    BY <1>2, Singles
  <2> QED BY <1>2, <2>1, FlattenedOf
<1>7. \A i \in DOMAIN h : ToSet(ss[i]) = IF FirstOfName(h, i) THEN {h[i].name} ELSE {}
  BY <1>2, Singles
<1>8. ToSet(F) = FieldNames(h)
  <2>1. ToSet(F) \subseteq FieldNames(h)
    <3> SUFFICES ASSUME NEW n \in ToSet(F) PROVE n \in FieldNames(h)
      OBVIOUS
    <3>1. PICK i \in DOMAIN h : n \in ToSet(ss[i])
      BY <1>6
    <3> QED BY <1>7, <3>1 DEF FieldNames
  <2>2. ASSUME NEW n \in FieldNames(h) PROVE n \in ToSet(F)
    <3>1. PICK i \in DOMAIN h : h[i].name = n /\ FirstOfName(h, i)
      BY FirstField
    <3> QED BY <1>6, <1>7, <3>1
  <2> QED BY <2>1, <2>2
<1> QED BY <1>1, <1>5, <1>6, <1>8 DEF InOrder

\* Of the names h has, the merged header brings none before another that h does not.
LEMMA MergeOrder ==
  ASSUME NEW h, NEW over, IsSeq(h), IsSeq(over), NEW m \in FieldNames(h), NEW n \in FieldNames(h),
         Leads(NamesOf(Merge(h, over)), m, n)
  PROVE  Leads(NamesOf(h), m, n)
<1> DEFINE A == [i \in DOMAIN h |->
                   IF ~Has(over, h[i].name) THEN <<h[i]>>
                   ELSE IF FirstOfName(h, i) THEN Fields(over, h[i].name) ELSE <<>>]
           B == [i \in DOMAIN over |->
                   IF FirstOfName(over, i) /\ ~Has(h, over[i].name)
                   THEN Fields(over, over[i].name) ELSE <<>>]
           S == ToSet(h) \cup ToSet(over)
           merged == Merge(h, over)
<1>1. merged = FlattenSeq(A) \o FlattenSeq(B)
  BY DEF Merge
<1>2. h \in Seq(S) /\ over \in Seq(S) /\ <<>> \in Seq(S) /\ \A x : Fields(over, x) \in Seq(S)
  <2>1. h \in Seq(S) /\ over \in Seq(S)
    BY SeqMonotonic DEF IsSeq
  <2> HIDE DEF S
  <2> QED BY <2>1, EmptySeq, FieldsOf
<1>3. /\ \A i \in DOMAIN h : h[i] \in S
      /\ DOMAIN h = 1..Len(h) /\ Len(h) \in Nat
  BY DEF ToSet, IsSeq
<1> HIDE DEF S
<1>4. ASSUME NEW i \in DOMAIN h
      PROVE  /\ A[i] \in Seq(S) /\ \A f \in ToSet(A[i]) : f.name = h[i].name
             /\ FirstOfName(h, i) => ToSet(A[i]) # {}
  <2>1. CASE ~Has(over, h[i].name)
    <3>1. A[i] = <<h[i]>> /\ <<h[i]>> \in Seq(S)
      BY <1>3, <2>1
    <3> HIDE DEF A
    <3> QED BY <3>1, Singles
  <2>2. CASE Has(over, h[i].name)
    <3>1. ToSet(Fields(over, h[i].name)) = {f \in ToSet(over) : f.name = h[i].name}
      BY FieldsOfName
    <3>2. ToSet(Fields(over, h[i].name)) # {}
      BY <2>2, <3>1 DEF Has, ToSet
    <3>3. A[i] = IF FirstOfName(h, i) THEN Fields(over, h[i].name) ELSE <<>>
      BY <2>2
    <3> HIDE DEF A
    <3> QED BY <1>2, <3>1, <3>2, <3>3, Singles
  <2> QED BY <2>1, <2>2
<1>5. B = [i \in DOMAIN over |-> B[i]] /\ \A i \in DOMAIN over : B[i] \in Seq(S)
  BY <1>2
<1>6. A = [i \in DOMAIN h |-> A[i]]
  OBVIOUS
<1> HIDE DEF A, B
<1>7. /\ A \in Seq(Seq(S)) /\ DOMAIN A = DOMAIN h
      /\ FlattenSeq(A) \in Seq(S) /\ FlattenSeq(B) \in Seq(S)
  BY <1>4, <1>5, <1>6, PartsSeq, Flattened
<1> DEFINE F == FlattenSeq(A)
<1>8. PICK at : LaidAt(F, A, at)
  BY <1>7, FlattenedAt
<1>9. /\ DOMAIN F = 1..Len(F) /\ Len(F) \in Nat /\ DOMAIN F \subseteq DOMAIN merged
      /\ \A i \in DOMAIN F : merged[i] = F[i]
  BY <1>1, <1>7, ConcatProperties, LenProperties
<1> HIDE DEF F, merged
<1>10. PICK x \in DOMAIN merged : merged[x].name = m /\ \A j \in 1..x : NamesOf(merged)[j] # n
  BY DEF Leads, NamesOf, merged
<1>11. PICK km \in DOMAIN h : h[km].name = m /\ FirstOfName(h, km)
  BY FirstField
<1>12. PICK kn \in DOMAIN h : h[kn].name = n /\ FirstOfName(h, kn)
  BY FirstField
<1>13. ASSUME NEW k \in DOMAIN h, NEW q \in 1..Len(A[k])
       PROVE  at[k] + q \in DOMAIN F /\ merged[at[k] + q].name = h[k].name
  <2>1. A[k][q] \in ToSet(A[k])
    BY <1>4, <1>13 DEF ToSet
  <2> QED BY <1>4, <1>7, <1>8, <1>9, <2>1 DEF LaidAt
<1>14. x \in Nat \ {0} /\ IsSeq(merged)
  <2>1. IsSeq(merged)
    BY MergedNames DEF merged
  <2> QED BY <1>10, <2>1 DEF IsSeq
<1>15. PICK y \in DOMAIN F : y = at[kn] + 1 /\ y > x /\ Len(A[kn]) >= 1 /\ at[kn] \in Nat
  <2>1. A[kn] \in Seq(S) /\ ToSet(A[kn]) # {}
    BY <1>4, <1>12
  <2>2. 1 \in 1..Len(A[kn])
    BY <2>1 DEF ToSet
  <2>3. at[kn] + 1 \in DOMAIN F /\ merged[at[kn] + 1].name = n
    BY <1>12, <1>13, <2>2
  <2>4. at[kn] \in Nat
    BY <1>7, <1>8 DEF LaidAt
  <2>5. at[kn] + 1 \notin 1..x
    <3>1. NamesOf(merged)[at[kn] + 1] = n
      BY <1>9, <2>3 DEF NamesOf
    <3> QED BY <1>10, <3>1
  <2> QED BY <1>14, <2>2, <2>3, <2>4, <2>5
<1>16. PICK k \in DOMAIN h : \E q \in 1..Len(A[k]) : x = at[k] + q
  <2>1. x \in DOMAIN F
    BY <1>9, <1>10, <1>14, <1>15
  <2> QED BY <1>7, <1>8, <2>1 DEF LaidAt
<1>17. PICK q \in 1..Len(A[k]) : x = at[k] + q
  BY <1>16
<1>18. h[k].name = m
  BY <1>10, <1>13, <1>17
<1>19. k >= km /\ km # kn
  <2>1. ~(k < km)
    BY <1>3, <1>11, <1>18 DEF FirstOfName
  <2>2. m # n
    <3>1. NamesOf(merged)[x] = m
      BY <1>10 DEF NamesOf
    <3>2. x \in 1..x
      BY <1>10, <1>14 DEF IsSeq
    <3> QED BY <1>10, <3>1, <3>2
  <2> QED BY <1>3, <1>11, <1>12, <2>1, <2>2
<1>20. km < kn
  <2> SUFFICES ASSUME kn < k PROVE FALSE
    BY <1>3, <1>19
  <2>1. at[kn] + Len(A[kn]) <= at[k] /\ at[k] \in Nat
    BY <1>7, <1>8 DEF LaidAt
  <2>2. Len(A[kn]) \in Nat /\ q \in Nat /\ q >= 1
    BY <1>4, <1>17
  <2> QED BY <1>14, <1>15, <1>17, <2>1, <2>2
<1>21. n \notin {NamesOf(h)[j] : j \in 1..km}
  <2>1. \A j \in 1..km : j \in 1..(kn - 1) /\ j \in DOMAIN h
    BY <1>3, <1>20
  <2> QED BY <1>12, <2>1 DEF FirstOfName, NamesOf
<1>22. km \in DOMAIN NamesOf(h) /\ NamesOf(h)[km] = m
  BY <1>11 DEF NamesOf
<1> QED BY <1>21, <1>22 DEF Leads

\* What is in the order of a merged header is in the order of the header merged into.
LEMMA MergedInOrder ==
  ASSUME NEW h, NEW over, IsSeq(h), IsSeq(over), NEW names, names \subseteq FieldNames(h),
         NEW s, InOrder(s, names, NamesOf(Merge(h, over)))
  PROVE  InOrder(s, names, NamesOf(h))
  BY MergeOrder DEF InOrder

\* Header.Merge by names and values.
LEMMA MergedValues ==
  ASSUME NEW h, NEW over, IsSeq(h), IsSeq(over), NEW n
  PROVE  /\ Has(Merge(h, over), n) <=> Has(h, n) \/ Has(over, n)
         /\ Values(Merge(h, over), n) = IF Has(over, n) THEN Values(over, n) ELSE Values(h, n)
<1>1. \A s : Has(s, n) <=> n \in FieldNames(s)
  BY DEF Has, FieldNames
<1>2. FieldNames(Merge(h, over)) = FieldNames(h) \cup FieldNames(over)
  BY MergedNames
<1>3. Fields(Merge(h, over), n) = IF Has(over, n) THEN Fields(over, n) ELSE Fields(h, n)
  BY MergedFields
<1>4. Values(Merge(h, over), n) = IF Has(over, n) THEN Values(over, n) ELSE Values(h, n)
  BY <1>3 DEF Values
<1> QED BY <1>1, <1>2, <1>4

\* profileHTTP1Headers by names and values.
LEMMA HTTP1Values ==
  ASSUME NEW shared, NEW http1, IsSeq(shared), IsSeq(http1.headers), IsSeq(http1.order),
         IsInjective(http1.order), NEW n
  PROVE  /\ Has(HTTP1Headers(shared, http1), n) <=>
              n \in ToSet(http1.order) \ {"host"} /\ (Has(shared, n) \/ Has(http1.headers, n))
         /\ Has(HTTP1Headers(shared, http1), n) =>
              Values(HTTP1Headers(shared, http1), n) =
                Values(IF Has(http1.headers, n) THEN http1.headers ELSE shared, n)
<1> DEFINE all == HTTP1Headers(shared, http1)
           resolved == Merge(shared, http1.headers)
<1>1. IsSeq(all) /\ IsSeq(resolved)
  BY HTTP1Names, MergedNames
<1>2. Fields(all, n) = IF n \in ToSet(http1.order) \ {"host"} THEN Fields(resolved, n) ELSE <<>>
  BY HTTP1Fields
<1>3. /\ Has(resolved, n) <=> Has(shared, n) \/ Has(http1.headers, n)
      /\ Values(resolved, n) = IF Has(http1.headers, n) THEN Values(http1.headers, n) ELSE Values(shared, n)
  BY MergedValues
<1> HIDE DEF all, resolved
<1>4. ASSUME NEW h, IsSeq(h) PROVE Has(h, n) <=> ToSet(Fields(h, n)) # {}
  <2>1. ToSet(Fields(h, n)) = {f \in ToSet(h) : f.name = n}
    BY <1>4, FieldsOfName
  <2> QED BY <2>1 DEF Has, ToSet
<1>5. Has(all, n) <=> n \in ToSet(http1.order) \ {"host"} /\ Has(resolved, n)
  BY <1>1, <1>2, <1>4, Singles
<1>6. Has(all, n) => Values(all, n) = Values(resolved, n)
  BY <1>2, <1>5 DEF Values
<1> QED BY <1>3, <1>5, <1>6 DEF all

\* legacyHeaderLayout keeps the order of its header.
LEMMA LegacyInOrder ==
  ASSUME NEW h, IsSeq(h), NEW host, NEW names, "host" \notin names
  PROVE  /\ InOrder(LegacyLayout(h, host).order, names, NamesOf(h))
         /\ DOMAIN LegacyLayout(h, host).values = FieldNames(h) \cup {"host"}
         /\ \A n \in FieldNames(h) \ {"host"} : LegacyLayout(h, host).values[n] = Values(h, n)
<1> DEFINE d == Distinct(h)
           pick == [i \in DOMAIN d |-> IF d[i] # "host" THEN <<d[i]>> ELSE <<>>]
<1>1. LegacyLayout(h, host).order = <<"host">> \o FlattenSeq(pick)
  BY DEF LegacyLayout, Only
<1>2. IsSeq(d) /\ InOrder(d, names, NamesOf(h))
  BY DistinctInOrder
<1> HIDE DEF d
<1>3. pick = [i \in DOMAIN d |-> pick[i]] /\ \A i \in DOMAIN d : pick[i] = <<>> \/ pick[i] = <<d[i]>>
  OBVIOUS
<1> HIDE DEF pick
<1>4. IsSeq(FlattenSeq(pick)) /\ InOrder(FlattenSeq(pick), names, NamesOf(h))
  BY <1>2, <1>3, PickedInOrder
<1>5. InOrder(<<"host">> \o FlattenSeq(pick), names, NamesOf(h))
  <2>1. IsSeq(<<"host">>) /\ ToSet(<<"host">>) \cap names = {}
    BY Singles
  <2> QED BY <1>4, <2>1, JoinedInOrder
<1>6. /\ DOMAIN LegacyLayout(h, host).values = FieldNames(h) \cup {"host"}
      /\ \A n \in FieldNames(h) \ {"host"} : LegacyLayout(h, host).values[n] = Values(h, n)
  BY DEF LegacyLayout, LayoutValues, FieldNames
<1> QED BY <1>1, <1>5, <1>6

\* A layout has the names in the order measured, values of all that was measured and is in
\* the header, and no value but the header's.
Follows(layout, h, measured, names) ==
    /\ IsSeq(layout.order) /\ InOrder(layout.order, names, measured)
    /\ ToSet(measured) \cap FieldNames(h) \subseteq DOMAIN layout.values
    /\ DOMAIN layout.values \subseteq FieldNames(h) \cup {"host"}
    /\ \A n \in DOMAIN layout.values \ {"host"} : layout.values[n] = Values(h, n)

\* measuredHTTP1Layout does.
LEMMA MeasuredInOrder ==
  ASSUME NEW h, IsSeq(h), NEW measured, IsSeq(measured), IsInjective(measured), NEW host,
         NEW names, names \subseteq ToSet(measured), NEW layout, layout = MeasuredLayout(h, measured, host)
  PROVE  Follows(layout, h, measured, names)
<1> DEFINE values == LayoutValues(h, host)
           pick1 == [i \in DOMAIN measured |-> IF measured[i] \in DOMAIN values THEN <<measured[i]>> ELSE <<>>]
           d == Distinct(h)
           pick2 == [i \in DOMAIN d |-> IF d[i] # "host" /\ d[i] \notin ToSet(measured) THEN <<d[i]>> ELSE <<>>]
           first == FlattenSeq(pick1)
           rest == FlattenSeq(pick2)
<1>1. /\ MeasuredLayout(h, measured, host).order = first \o rest
      /\ MeasuredLayout(h, measured, host).values = [n \in ToSet(first \o rest) |-> values[n]]
  BY DEF MeasuredLayout, Only
<1>2. /\ DOMAIN values = FieldNames(h) \cup {"host"}
      /\ \A n \in FieldNames(h) \ {"host"} : values[n] = Values(h, n)
  BY DEF LayoutValues, FieldNames
<1> HIDE DEF values
<1>3. InOrder(measured, names, measured)
  <2> SUFFICES ASSUME NEW i \in DOMAIN measured, NEW j \in DOMAIN measured, i < j
               PROVE  measured[j] \notin {measured[k] : k \in 1..i}
    BY DEF InOrder, Leads
  <2>1. DOMAIN measured = 1..Len(measured) /\ Len(measured) \in Nat
    BY DEF IsSeq
  <2>2. ASSUME NEW k \in 1..i PROVE k \in DOMAIN measured /\ k # j
    BY <2>1
  <2> QED BY <2>2 DEF IsInjective
<1>4. /\ pick1 = [i \in DOMAIN measured |-> pick1[i]]
      /\ \A i \in DOMAIN measured : pick1[i] = IF measured[i] \in DOMAIN values THEN <<measured[i]>> ELSE <<>>
  OBVIOUS
<1> HIDE DEF pick1
<1>5. /\ IsSeq(first) /\ InOrder(first, names, measured)
      /\ ToSet(first) = ToSet(measured) \cap DOMAIN values
  <2>1. \A i \in DOMAIN measured : pick1[i] = <<>> \/ pick1[i] = <<measured[i]>>
    BY <1>4
  <2>2. /\ IsSeq(first) /\ InOrder(first, names, measured)
        /\ ToSet(first) = {measured[i] : i \in {k \in DOMAIN measured : pick1[k] # <<>>}}
    BY <1>3, <1>4, <2>1, PickedInOrder
  <2>3. \A k \in DOMAIN measured : pick1[k] # <<>> <=> measured[k] \in DOMAIN values
    BY <1>4
  <2> QED BY <2>2, <2>3 DEF ToSet
<1>6. IsSeq(d) /\ ToSet(d) = FieldNames(h)
  BY DistinctInOrder
<1> HIDE DEF d
<1>7. /\ pick2 = [i \in DOMAIN d |-> pick2[i]]
      /\ \A i \in DOMAIN d : pick2[i] = IF d[i] # "host" /\ d[i] \notin ToSet(measured) THEN <<d[i]>> ELSE <<>>
  OBVIOUS
<1> HIDE DEF pick2
<1>8. IsSeq(rest) /\ ToSet(rest) \subseteq FieldNames(h) \ ToSet(measured)
  <2>1. \A i \in DOMAIN d : /\ IsSeq(pick2[i])
                            /\ ToSet(pick2[i]) \subseteq FieldNames(h) \ ToSet(measured)
    BY <1>6, <1>7, Singles DEF ToSet
  <2>2. IsSeq(rest) /\ ToSet(rest) = UNION {ToSet(pick2[i]) : i \in DOMAIN d}
    BY <1>6, <1>7, <2>1, FlattenedOf
  <2> QED BY <2>1, <2>2
<1> HIDE DEF first, rest
<1>9. /\ IsSeq(first \o rest) /\ ToSet(first \o rest) = ToSet(first) \cup ToSet(rest)
      /\ InOrder(first \o rest, names, measured)
  <2>1. ToSet(rest) \cap names = {}
    BY <1>8
  <2> QED BY <1>5, <1>8, <2>1, JoinedSet, JoinedInOrder
<1> QED BY <1>1, <1>2, <1>5, <1>8, <1>9 DEF Follows

-----------------------------------------------------------------------------
(* Credentials. *)

\* The profile was measured where nobody was logged in: what it sends on HTTP/1.1 alone
\* holds no credential.
LoggedOut == \A n \in Credentials : Has(HTTP1.headers, n) => Has(Shared, n)

\* What goes with a hop on HTTP/1.1 goes with it on HTTP/2, so that a redirect which drops
\* it from the one layout drops it from the other.
HopApart(c) ==
    LET block == hop[c].block.values
        http1 == hop[c].http1.values
    IN /\ DOMAIN http1 \cap Credentials \subseteq DOMAIN block
       /\ ~SameSite(Line(c).host, hop[c].host) =>
            /\ DOMAIN block \cap (Credentials \cup {"host"}) = {}
            /\ http1["host"] = <<hop[c].host>>
HopsApart ==
    /\ hop = [c \in Callers |-> hop[c]]
    /\ \A c \in Callers : pc[c] = "sent" => HopApart(c)

LEMMA FirstHopApart ==
    ASSUME LoggedOut, NEW c \in Callers, pos[c] \in DOMAIN Input[c], NEW proto
    PROVE  LET first == FirstHop(c, proto)
           IN /\ SameSite(Line(c).host, first.host)
              /\ DOMAIN first.http1.values \cap Credentials \subseteq DOMAIN first.block.values
<1> DEFINE line == Line(c)
           given == Given(line)
           shared == Merge(headers, given)
           http1 == Merge(http1Headers, given)
<1>1. /\ IsSeq(Shared) /\ IsSeq(HTTP1.headers) /\ IsSeq(Extra) /\ IsSeq(HTTP1.order)
      /\ line.host \in Hosts /\ IsSeq(line.order) /\ IsFiniteSet(DOMAIN line.headers)
  BY ClientAssumption DEF IsSeq, Line
<1>2. IsSeq(headers) /\ FieldNames(headers) = FieldNames(Shared) \cup FieldNames(Extra)
  BY <1>1, MergedNames DEF headers
<1>3. /\ IsSeq(http1Headers)
      /\ FieldNames(http1Headers)
           \subseteq FieldNames(Shared) \cup FieldNames(HTTP1.headers) \cup FieldNames(Extra)
  <2>1. IsSeq(HTTP1Headers(Shared, HTTP1))
        /\ FieldNames(HTTP1Headers(Shared, HTTP1)) \subseteq FieldNames(Shared) \cup FieldNames(HTTP1.headers)
    BY <1>1, HTTP1Names
  <2>2. /\ IsSeq(http1Headers)
        /\ FieldNames(http1Headers) = FieldNames(HTTP1Headers(Shared, HTTP1)) \cup FieldNames(Extra)
    BY <1>1, <2>1, MergedNames DEF http1Headers
  <2> QED BY <2>1, <2>2
<1>4. IsSeq(given)
  <2>1. IsSeq(NamesOf(headers))
    BY <1>2, NamesSeq
  <2> QED BY <1>1, <2>1, OrderedIsSeq DEF Given
<1> HIDE DEF line, given
<1>5. /\ FieldNames(shared) = FieldNames(headers) \cup FieldNames(given)
      /\ IsSeq(http1) /\ FieldNames(http1) = FieldNames(http1Headers) \cup FieldNames(given)
  BY <1>2, <1>3, <1>4, MergedNames
<1> HIDE DEF shared, http1
<1>6. \A n \in Credentials : n \in FieldNames(HTTP1.headers) => n \in FieldNames(Shared)
  BY DEF LoggedOut, Has, FieldNames
<1>7. FieldNames(http1) \cap Credentials \subseteq FieldNames(shared)
  BY <1>2, <1>3, <1>5, <1>6
<1>8. DOMAIN MeasuredLayout(http1, HTTP1.order, line.host).values \subseteq FieldNames(http1) \cup {"host"}
  BY <1>1, <1>5, MeasuredNamesOf
<1>9. FieldNames(shared) \subseteq DOMAIN LegacyLayout(shared, line.host).values
  BY DEF LegacyLayout, LayoutValues, FieldNames
<1>10. /\ Original[c][pos[c]] = LegacyLayout(shared, line.host)
       /\ Measured[c][pos[c]] = MeasuredLayout(http1, HTTP1.order, line.host)
  BY DEF Original, Measured, line, given, shared, http1, Line
<1>11. "host" \notin Credentials
  BY DEF Credentials
<1>12. SameSite(line.host, line.host)
  BY <1>1, WarmAssumption DEF SameSite
<1> QED BY <1>7, <1>8, <1>9, <1>10, <1>11, <1>12 DEF FirstHop, line

LEMMA NextHopApart ==
    ASSUME NEW c \in Callers, HopApart(c), NEW to, NEW proto
    PROVE  LET next == NextHop(c, to, proto)
           IN /\ DOMAIN next.http1.values \cap Credentials \subseteq DOMAIN next.block.values
              /\ ~SameSite(Line(c).host, next.host) =>
                   /\ DOMAIN next.block.values \cap (Credentials \cup {"host"}) = {}
                   /\ next.http1.values["host"] = <<next.host>>
<1> DEFINE current == Copied(Original[c][pos[c]], Line(c).host, to, hop[c].host)
           before == DOMAIN hop[c].block.values
           now == DOMAIN current.values
           http1 == RedirectLayout(hop[c].http1, hop[c].block, current, to).values
<1>1. /\ NextHop(c, to, proto).host = to /\ NextHop(c, to, proto).block = current
      /\ NextHop(c, to, proto).http1.values = http1
  BY DEF NextHop
<1>2. "host" \notin now /\ (~SameSite(Line(c).host, to) => now \cap Credentials = {})
  BY DEF Copied, Credentials
<1> HIDE DEF current
<1>3. /\ DOMAIN http1 \subseteq (DOMAIN hop[c].http1.values \ ((before \ now) \ {"host"}))
                                  \cup now \cup {"host"}
      /\ http1["host"] = <<to>>
  BY DEF RedirectLayout
<1> HIDE DEF now, http1
<1>4. "host" \notin Credentials
  BY DEF Credentials
<1>5. DOMAIN hop[c].http1.values \cap Credentials \subseteq before
  BY DEF HopApart
<1>6. DOMAIN http1 \cap Credentials \subseteq now
  BY <1>3, <1>4, <1>5
<1> QED BY <1>1, <1>2, <1>3, <1>6 DEF now

LEMMA HopsApartInductive ==
    ASSUME IInv, HopsApart, LoggedOut, [Next]_vars
    PROVE  HopsApart'
<1>1. ASSUME NEW c \in Callers, hop'[c] = hop[c], pos'[c] = pos[c], HopApart(c)
      PROVE  HopApart(c)'
  BY <1>1 DEF HopApart, Line
<1>2. CASE UNCHANGED <<pc, pos, hop>>
  BY <1>1, <1>2 DEF HopsApart
<1>3. ASSUME NEW c \in Callers, Proceed(c) \/ Redirect(c) \/ Respond(c) \/ Fail(c)
      PROVE  HopsApart'
  <2>1. /\ pc \in [Callers -> AtHosts \cup {"idle", "ended"}] /\ pos \in [Callers -> Nat]
        /\ hop = [d \in Callers |-> hop[d]]
    BY DEF IInv, ClientTypeOK, HopsApart
  <2>2. ASSUME hop' = [d \in Callers |-> hop'[d]], pc'[c] = "sent" => HopApart(c)',
               \A d \in Callers \ {c} : pc'[d] = pc[d] /\ pos'[d] = pos[d] /\ hop'[d] = hop[d]
        PROVE  HopsApart'
    BY <1>1, <2>2 DEF HopsApart
  <2>3. CASE Send(c)
    <3>1. PICK proto \in {"h1", "h2"} : hop' = [hop EXCEPT ![c] = FirstHop(c, proto)]
      BY <2>3 DEF Send
    <3>2. /\ pc[c] = "seeded" /\ pos' = pos /\ pc' = [pc EXCEPT ![c] = "sent"]
          /\ pos[c] \in DOMAIN Input[c]
      BY <2>3 DEF Send, IInv, ClientTypeOK, AtHosts
    <3>3. hop'[c] = FirstHop(c, proto) /\ Line(c)' = Line(c)
      BY <2>1, <3>1, <3>2 DEF Line
    <3>4. HopApart(c)'
      BY <3>2, <3>3, FirstHopApart DEF HopApart
    <3> QED BY <2>1, <2>2, <3>1, <3>2, <3>4
  <2>4. CASE Redirect(c)
    <3>1. PICK to \in Targets, proto \in {"h1", "h2"} : hop' = [hop EXCEPT ![c] = NextHop(c, to, proto)]
      BY <2>4 DEF Redirect
    <3>2. pc[c] = "sent" /\ pos' = pos /\ pc' = pc
      BY <2>4 DEF Redirect
    <3>3. hop'[c] = NextHop(c, to, proto) /\ Line(c)' = Line(c) /\ HopApart(c)
      BY <2>1, <3>1, <3>2 DEF Line, HopsApart
    <3>4. HopApart(c)'
      BY <3>3, NextHopApart DEF HopApart
    <3> QED BY <2>1, <2>2, <3>1, <3>2, <3>4
  <2>5. CASE ~Send(c) /\ ~Redirect(c)
    <3>1. /\ pc'[c] # "sent" /\ hop' = [d \in Callers |-> hop'[d]]
          /\ \A d \in Callers \ {c} : pc'[d] = pc[d] /\ pos'[d] = pos[d] /\ hop'[d] = hop[d]
      BY <1>3, <2>1, <2>5 DEF Proceed, SkipBlank, ServeReturns, Refuse, RefuseClosed, Ask, Seed, File,
           Finish, Respond, Fail, Reply, HasLine
    <3> QED BY <2>2, <3>1
  <2> QED BY <2>3, <2>4, <2>5
<1> QED BY <1>2, <1>3 DEF Next, Close, vars, loopVars

LEMMA HopsApartInvariance ==
    ASSUME LoggedOut
    PROVE  Spec => []HopsApart
<1>1. Init => HopsApart
  BY DEF Init, HopsApart
<1>2. IInv /\ HopsApart /\ [Next]_vars => HopsApart'
  BY HopsApartInductive
<1> QED BY <1>1, <1>2, Invariance, PTL DEF Spec

-----------------------------------------------------------------------------
(* What a hop looks like. *)

\* A profile holds what a browser sends to any site: measured logged out, and without the
\* host (perRequest in src/profile/fromcapture.go leaves out both the host and cookies).
Impersonal == \A n \in Credentials \cup {"host"} : ~Has(Shared, n) /\ ~Has(HTTP1.headers, n)

\* The names measured on HTTP/1.1 that have a value.
HTTP1Measured == {n \in ToSet(HTTP1.order) : Has(Shared, n) \/ Has(HTTP1.headers, n)}

\* However many hops there were, the block is that of the first request but for the
\* credentials and the referer, and the layout of HTTP/1.1 has its own order and values.
LooksMeasured(c, block, http1) ==
    LET first == Original[c][pos[c]]
    IN /\ block.order = first.order
       /\ DOMAIN first.values \ (Credentials \cup {"host", "referer"}) \subseteq DOMAIN block.values
       /\ DOMAIN block.values \subseteq DOMAIN first.values \cup {"referer"}
       /\ \A n \in DOMAIN block.values \ {"host", "referer"} : block.values[n] = first.values[n]
       /\ IsSeq(http1.order) /\ InOrder(http1.order, HTTP1Measured, HTTP1.order)
       /\ HTTP1Measured \subseteq DOMAIN http1.values
       /\ \A n \in DOMAIN http1.values \ {"host", "referer"} :
            IF Has(Own(c), n) THEN http1.values[n] = Values(Own(c), n)
            ELSE /\ n \in HTTP1Measured
                 /\ http1.values[n] = Values(IF Has(HTTP1.headers, n) THEN HTTP1.headers ELSE Shared, n)
HopMeasured(c) == LooksMeasured(c, hop[c].block, hop[c].http1)
HopsMeasured ==
    /\ hop = [c \in Callers |-> hop[c]]
    /\ \A c \in Callers : pc[c] = "sent" => HopMeasured(c)

\* The headers a request is made of are sequences.
LEMMA GivenIsSeq ==
  ASSUME NEW c \in Callers, pos[c] \in DOMAIN Input[c]
  PROVE  /\ IsSeq(Given(Line(c))) /\ IsSeq(headers) /\ IsSeq(http1Headers)
         /\ IsSeq(Shared) /\ IsSeq(HTTP1.headers) /\ IsSeq(Extra) /\ IsSeq(HTTP1.order)
         /\ IsInjective(HTTP1.order)
<1>1. /\ IsSeq(Shared) /\ IsSeq(HTTP1.headers) /\ IsSeq(Extra) /\ IsSeq(HTTP1.order)
      /\ IsInjective(HTTP1.order) /\ IsSeq(Line(c).order) /\ IsFiniteSet(DOMAIN Line(c).headers)
  BY ClientAssumption DEF IsSeq, Line
<1>2. IsSeq(headers)
  BY <1>1, MergedNames DEF headers
<1>3. IsSeq(http1Headers)
  <2>1. IsSeq(HTTP1Headers(Shared, HTTP1))
    BY <1>1, HTTP1Names
  <2> QED BY <1>1, <2>1, MergedNames DEF http1Headers
<1>4. IsSeq(Given(Line(c)))
  <2>1. IsSeq(NamesOf(headers))
    BY <1>2, NamesSeq
  <2> QED BY <1>1, <2>1, OrderedIsSeq DEF Given
<1> QED BY <1>1, <1>2, <1>3, <1>4

\* What the caller puts over the profile: the line over WithHeaders.
LEMMA OwnValues ==
  ASSUME NEW c \in Callers, pos[c] \in DOMAIN Input[c], NEW n
  PROVE  LET given == Given(Line(c))
         IN /\ Has(Own(c), n) <=> Has(Extra, n) \/ Has(given, n)
            /\ Values(Own(c), n) = IF Has(given, n) THEN Values(given, n) ELSE Values(Extra, n)
  BY GivenIsSeq, MergedValues DEF Own

\* The shared block of a request: the order of the profile, and the caller's values over those
\* of the profile.
LEMMA FirstBlock ==
  ASSUME Impersonal, NEW c \in Callers, pos[c] \in DOMAIN Input[c]
  PROVE  LET first == Original[c][pos[c]]
         IN /\ InOrder(first.order, FieldNames(Shared), NamesOf(Shared))
            /\ \A n \in DOMAIN first.values \ {"host"} :
                 IF Has(Own(c), n) THEN first.values[n] = Values(Own(c), n)
                 ELSE Has(Shared, n) /\ first.values[n] = Values(Shared, n)
<1> DEFINE given == Given(Line(c))
           h == Merge(headers, given)
           first == LegacyLayout(h, Line(c).host)
           names == FieldNames(Shared)
<1>1. Original[c][pos[c]] = first
  BY DEF Original, Line
<1>2. /\ IsSeq(given) /\ IsSeq(headers) /\ IsSeq(Shared) /\ IsSeq(Extra)
  BY GivenIsSeq
<1>3. /\ \A n : Has(Own(c), n) <=> Has(Extra, n) \/ Has(given, n)
      /\ \A n : Values(Own(c), n) = IF Has(given, n) THEN Values(given, n) ELSE Values(Extra, n)
  BY OwnValues
<1> HIDE DEF given
<1>4. /\ IsSeq(h) /\ names \subseteq FieldNames(headers) /\ names \subseteq FieldNames(h)
      /\ \A n : n \in FieldNames(h) <=> Has(Shared, n) \/ Has(Extra, n) \/ Has(given, n)
  <2>1. \A s, n : Has(s, n) <=> n \in FieldNames(s)
    BY DEF Has, FieldNames
  <2>2. FieldNames(headers) = FieldNames(Shared) \cup FieldNames(Extra)
    BY <1>2, MergedNames DEF headers
  <2>3. IsSeq(h) /\ FieldNames(h) = FieldNames(headers) \cup FieldNames(given)
    BY <1>2, MergedNames
  <2> QED BY <2>1, <2>2, <2>3
<1>5. \A n : Values(h, n) = IF Has(given, n) THEN Values(given, n)
                            ELSE IF Has(Extra, n) THEN Values(Extra, n) ELSE Values(Shared, n)
  <2>1. \A n : Values(h, n) = IF Has(given, n) THEN Values(given, n) ELSE Values(headers, n)
    BY <1>2, MergedValues
  <2>2. \A n : Values(headers, n) = IF Has(Extra, n) THEN Values(Extra, n) ELSE Values(Shared, n)
    BY <1>2, MergedValues DEF headers
  <2> QED BY <2>1, <2>2
<1>6. "host" \notin names
  BY DEF Impersonal, Has, FieldNames
<1>7. InOrder(first.order, names, NamesOf(Shared))
  <2>1. InOrder(first.order, names, NamesOf(h))
    BY <1>4, <1>6, LegacyInOrder
  <2>2. InOrder(first.order, names, NamesOf(headers))
    BY <1>2, <1>4, <2>1, MergedInOrder
  <2> QED BY <1>2, <2>2, MergedInOrder DEF headers
<1>8. /\ DOMAIN first.values = FieldNames(h) \cup {"host"}
      /\ \A n \in FieldNames(h) \ {"host"} : first.values[n] = Values(h, n)
  BY <1>4, <1>6, LegacyInOrder
<1> HIDE DEF first, h
<1>9. ASSUME NEW n \in DOMAIN first.values \ {"host"}
      PROVE  IF Has(Own(c), n) THEN first.values[n] = Values(Own(c), n)
             ELSE Has(Shared, n) /\ first.values[n] = Values(Shared, n)
  BY <1>3, <1>4, <1>5, <1>8
<1> QED BY <1>1, <1>7, <1>9

\* The layout of a request for HTTP/1.1: the order measured there, and the caller's values
\* over those measured there.
LEMMA FirstHTTP1 ==
  ASSUME Impersonal, NEW c \in Callers, pos[c] \in DOMAIN Input[c]
  PROVE  LET first == Measured[c][pos[c]]
         IN /\ IsSeq(first.order) /\ InOrder(first.order, HTTP1Measured, HTTP1.order)
            /\ HTTP1Measured \subseteq DOMAIN first.values
            /\ \A n \in DOMAIN first.values \ {"host"} :
                 IF Has(Own(c), n) THEN first.values[n] = Values(Own(c), n)
                 ELSE /\ n \in HTTP1Measured
                      /\ first.values[n] = Values(IF Has(HTTP1.headers, n) THEN HTTP1.headers ELSE Shared, n)
<1> DEFINE given == Given(Line(c))
           h == Merge(http1Headers, given)
           all == HTTP1Headers(Shared, HTTP1)
           first == MeasuredLayout(h, HTTP1.order, Line(c).host)
<1>1. Measured[c][pos[c]] = first
  BY DEF Measured, Line
<1>2. /\ IsSeq(given) /\ IsSeq(http1Headers) /\ IsSeq(Shared) /\ IsSeq(Extra)
      /\ IsSeq(HTTP1.headers) /\ IsSeq(HTTP1.order) /\ IsInjective(HTTP1.order) /\ IsSeq(all)
  BY GivenIsSeq, HTTP1Names
<1>3. /\ \A n : Has(Own(c), n) <=> Has(Extra, n) \/ Has(given, n)
      /\ \A n : Values(Own(c), n) = IF Has(given, n) THEN Values(given, n) ELSE Values(Extra, n)
  BY OwnValues
<1>4. /\ \A n : Has(all, n) <=> n \in HTTP1Measured
      /\ \A n : Has(all, n) => Values(all, n) = Values(IF Has(HTTP1.headers, n) THEN HTTP1.headers ELSE Shared, n)
  <2>1. \A n : Has(all, n) <=>
              n \in ToSet(HTTP1.order) \ {"host"} /\ (Has(Shared, n) \/ Has(HTTP1.headers, n))
    BY <1>2, HTTP1Values
  <2>2. "host" \notin HTTP1Measured
    BY DEF Impersonal, HTTP1Measured
  <2>3. \A n : Has(all, n) => Values(all, n) = Values(IF Has(HTTP1.headers, n) THEN HTTP1.headers ELSE Shared, n)
    BY <1>2, HTTP1Values
  <2> QED BY <2>1, <2>2, <2>3 DEF HTTP1Measured
<1> HIDE DEF given, all
<1>5. /\ \A n : Has(h, n) <=> Has(all, n) \/ Has(Extra, n) \/ Has(given, n)
      /\ \A n : Values(h, n) = IF Has(given, n) THEN Values(given, n)
                                ELSE IF Has(Extra, n) THEN Values(Extra, n) ELSE Values(all, n)
  <2>1. /\ \A n : Has(h, n) <=> Has(http1Headers, n) \/ Has(given, n)
        /\ \A n : Values(h, n) = IF Has(given, n) THEN Values(given, n) ELSE Values(http1Headers, n)
    BY <1>2, MergedValues
  <2>2. http1Headers = Merge(all, Extra)
    BY DEF http1Headers, all
  <2>3. /\ \A n : Has(http1Headers, n) <=> Has(all, n) \/ Has(Extra, n)
        /\ \A n : Values(http1Headers, n) = IF Has(Extra, n) THEN Values(Extra, n) ELSE Values(all, n)
    BY <1>2, <2>2, MergedValues
  <2> QED BY <2>1, <2>3
<1>6. IsSeq(h) /\ \A n : Has(h, n) <=> n \in FieldNames(h)
  BY <1>2, MergedNames DEF Has, FieldNames
<1>7. HTTP1Measured \subseteq ToSet(HTTP1.order)
  BY DEF HTTP1Measured
<1> HIDE DEF h
<1>8. /\ IsSeq(first.order) /\ InOrder(first.order, HTTP1Measured, HTTP1.order)
      /\ ToSet(HTTP1.order) \cap FieldNames(h) \subseteq DOMAIN first.values
      /\ DOMAIN first.values \subseteq FieldNames(h) \cup {"host"}
      /\ \A n \in DOMAIN first.values \ {"host"} : first.values[n] = Values(h, n)
  <2>1. first = MeasuredLayout(h, HTTP1.order, Line(c).host)
    OBVIOUS
  <2> HIDE DEF first
  <2>2. Follows(first, h, HTTP1.order, HTTP1Measured)
    BY <1>2, <1>6, <1>7, <2>1, MeasuredInOrder
  <2> QED BY <2>2 DEF Follows
<1> HIDE DEF first
<1>9. HTTP1Measured \subseteq DOMAIN first.values
  BY <1>4, <1>5, <1>6, <1>7, <1>8
<1>10. ASSUME NEW n \in DOMAIN first.values \ {"host"}
       PROVE  IF Has(Own(c), n) THEN first.values[n] = Values(Own(c), n)
              ELSE /\ n \in HTTP1Measured
                   /\ first.values[n] = Values(IF Has(HTTP1.headers, n) THEN HTTP1.headers ELSE Shared, n)
  BY <1>3, <1>4, <1>5, <1>6, <1>8
<1> QED BY <1>1, <1>8, <1>9, <1>10

\* What a redirect changes in the block is the referer, and a credential which it drops or,
\* back on the site, brings again.
Renewed(first, before, current) ==
    /\ current.order = first.order
    /\ DOMAIN first.values \ (Credentials \cup {"host", "referer"}) \subseteq DOMAIN current.values
    /\ DOMAIN current.values \subseteq DOMAIN first.values \cup {"referer"}
    /\ \A n \in DOMAIN current.values \ {"host", "referer"} : current.values[n] = first.values[n]
    /\ DOMAIN before.values \ DOMAIN current.values \subseteq Credentials \cup {"host"}
    /\ \A n \in DOMAIN current.values \ (Credentials \cup {"host", "referer"}) :
         n \in DOMAIN before.values /\ current.values[n] = before.values[n]

LEMMA Redirected ==
  ASSUME NEW c \in Callers, HopMeasured(c), NEW to, NEW current,
         current = Copied(Original[c][pos[c]], Line(c).host, to, hop[c].host)
  PROVE  Renewed(Original[c][pos[c]], hop[c].block, current) /\ "referer" \in DOMAIN current.values
<1> DEFINE first == Original[c][pos[c]]
           block == hop[c].block
           kept == DOMAIN first.values \ ({"host", "referer"} \cup IF SameSite(Line(c).host, to) THEN {} ELSE Credentials)
<1>1. /\ DOMAIN first.values \ (Credentials \cup {"host", "referer"}) \subseteq DOMAIN block.values
      /\ DOMAIN block.values \subseteq DOMAIN first.values \cup {"referer"}
      /\ \A n \in DOMAIN block.values \ {"host", "referer"} : block.values[n] = first.values[n]
  BY DEF HopMeasured, LooksMeasured
<1>2. /\ current.order = first.order /\ DOMAIN current.values = kept \cup {"referer"}
      /\ \A n \in kept : current.values[n] = first.values[n]
  BY DEF Copied
<1>3. /\ DOMAIN first.values \ (Credentials \cup {"host", "referer"}) \subseteq kept
      /\ kept \subseteq DOMAIN first.values \ {"host", "referer"}
  OBVIOUS
<1> HIDE DEF first, block, kept
<1>4. Renewed(first, block, current)
  BY <1>1, <1>2, <1>3 DEF Renewed
<1> QED BY <1>2, <1>4 DEF first, block

\* A redirect keeps the layout of HTTP/1.1: a name it appends was not measured, and a value
\* it sets is the referer, or a credential of the caller.
LEMMA NextHopMeasured ==
  ASSUME Impersonal, NEW c \in Callers, pos[c] \in DOMAIN Input[c], HopMeasured(c), NEW to, NEW proto,
         NEW next, next = NextHop(c, to, proto)
  PROVE  LooksMeasured(c, next.block, next.http1)
<1> DEFINE first == Original[c][pos[c]]
           current == Copied(first, Line(c).host, to, hop[c].host)
           was == hop[c].http1
           layout == RedirectLayout(was, hop[c].block, current, to)
           before == hop[c].block.values
           now == current.values
           gone == (DOMAIN before \ DOMAIN now) \ {"host"}
           changed == {n \in DOMAIN now \ {"host"} : n \notin DOMAIN before \/ now[n] # before[n]}
           kept == DOMAIN was.values \ gone
           pick == [i \in DOMAIN was.order |-> IF was.order[i] \notin gone THEN <<was.order[i]>> ELSE <<>>]
           added == (changed \cup {"host"}) \ kept
<1>1. next.block = current /\ next.http1 = layout
  BY DEF NextHop
<1>2. /\ current.order = first.order
      /\ DOMAIN first.values \ (Credentials \cup {"host", "referer"}) \subseteq DOMAIN now
      /\ DOMAIN now \subseteq DOMAIN first.values \cup {"referer"} /\ "referer" \in DOMAIN now
      /\ \A n \in DOMAIN now \ {"host", "referer"} : now[n] = first.values[n]
      /\ gone \subseteq Credentials /\ changed \subseteq Credentials \cup {"referer"}
      /\ changed \subseteq DOMAIN now
  <2>1. current = Copied(first, Line(c).host, to, hop[c].host)
    OBVIOUS
  <2> HIDE DEF current
  <2>2. Renewed(first, hop[c].block, current) /\ "referer" \in DOMAIN now
    BY <2>1, Redirected
  <2> HIDE DEF first
  <2> QED BY <2>2 DEF Renewed
<1>3. /\ layout.order = FlattenSeq(pick) \o SetToSeq(added)
      /\ DOMAIN layout.values = kept \cup changed \cup {"host"}
      /\ \A n \in DOMAIN layout.values \ {"host"} :
           layout.values[n] = IF n \in changed THEN now[n] ELSE was.values[n]
  BY DEF RedirectLayout, Only
<1>4. /\ IsSeq(was.order) /\ InOrder(was.order, HTTP1Measured, HTTP1.order)
      /\ HTTP1Measured \subseteq DOMAIN was.values
      /\ \A n \in DOMAIN was.values \ {"host", "referer"} :
           IF Has(Own(c), n) THEN was.values[n] = Values(Own(c), n)
           ELSE /\ n \in HTTP1Measured
                /\ was.values[n] = Values(IF Has(HTTP1.headers, n) THEN HTTP1.headers ELSE Shared, n)
  BY DEF HopMeasured, LooksMeasured
<1>5. HTTP1Measured \cap (Credentials \cup {"host"}) = {} /\ "referer" \notin Credentials
  BY DEF Impersonal, HTTP1Measured, Credentials
<1>6. /\ pick = [i \in DOMAIN was.order |-> pick[i]]
      /\ \A i \in DOMAIN was.order : pick[i] = <<>> \/ pick[i] = <<was.order[i]>>
  OBVIOUS
<1> HIDE DEF pick
<1>7. added \subseteq Credentials \cup {"host", "referer"} /\ added \cap HTTP1Measured = {}
  BY <1>2, <1>4, <1>5
<1> HIDE DEF added
<1>8. IsSeq(SetToSeq(added)) /\ ToSet(SetToSeq(added)) \subseteq added
  <2>1. IsFiniteSet(Credentials \cup {"host", "referer"})
    <3>1. ASSUME NEW x, NEW y PROVE IsFiniteSet({x, y})
      <4>1. {x, y} = {x} \cup {y}
        OBVIOUS
      <4>2. IsFiniteSet({x} \cup {y})
        BY FS_Singleton, FS_Union
      <4> QED BY <4>1, <4>2
    <3>2. IsFiniteSet(Credentials) /\ IsFiniteSet({"host", "referer"})
      BY <3>1 DEF Credentials
    <3> QED BY <3>2, FS_Union
  <2>2. IsFiniteSet(added)
    BY <1>7, <2>1, FS_Subset
  <2> QED BY <2>2, SetSeq
<1>9. IsSeq(layout.order) /\ InOrder(layout.order, HTTP1Measured, HTTP1.order)
  <2>1. IsSeq(FlattenSeq(pick)) /\ InOrder(FlattenSeq(pick), HTTP1Measured, HTTP1.order)
    BY <1>4, <1>6, PickedInOrder
  <2>2. ToSet(SetToSeq(added)) \cap HTTP1Measured = {}
    BY <1>7, <1>8
  <2> QED BY <1>3, <1>8, <2>1, <2>2, JoinedSet, JoinedInOrder
<1>10. \A n \in DOMAIN first.values \ {"host"} :
         IF Has(Own(c), n) THEN first.values[n] = Values(Own(c), n)
         ELSE Has(Shared, n) /\ first.values[n] = Values(Shared, n)
  BY FirstBlock
<1> HIDE DEF first, current, was, layout, before, now, gone, changed
<1>11. HTTP1Measured \subseteq DOMAIN layout.values
  BY <1>2, <1>3, <1>4, <1>5
<1>12. ASSUME NEW n \in DOMAIN layout.values \ {"host", "referer"}
       PROVE  IF Has(Own(c), n) THEN layout.values[n] = Values(Own(c), n)
              ELSE /\ n \in HTTP1Measured
                   /\ layout.values[n] = Values(IF Has(HTTP1.headers, n) THEN HTTP1.headers ELSE Shared, n)
  <2>1. CASE n \in changed
    <3>1. n \in Credentials /\ n # "host" /\ n \in DOMAIN first.values /\ layout.values[n] = first.values[n]
      BY <1>2, <1>3, <2>1 DEF changed
    <3>2. Has(Own(c), n)
      BY <1>10, <3>1 DEF Impersonal
    <3> QED BY <1>10, <3>1, <3>2
  <2>2. CASE n \notin changed
    <3>1. n \in DOMAIN was.values \ {"host", "referer"} /\ layout.values[n] = was.values[n]
      BY <1>3, <2>2
    <3> QED BY <1>4, <3>1
  <2> QED BY <2>1, <2>2
<1> QED BY <1>1, <1>2, <1>9, <1>11, <1>12 DEF LooksMeasured, first, now

LEMMA HopsMeasuredInductive ==
    ASSUME Impersonal, IInv, HopsMeasured, [Next]_vars
    PROVE  HopsMeasured'
<1>1. ASSUME NEW c \in Callers, hop'[c] = hop[c], pos'[c] = pos[c], HopMeasured(c)
      PROVE  HopMeasured(c)'
  <2>1. Own(c)' = Own(c)
    BY <1>1 DEF Own, Line
  <2> QED BY <1>1, <2>1 DEF HopMeasured, LooksMeasured
<1>2. CASE UNCHANGED <<pc, pos, hop>>
  BY <1>1, <1>2 DEF HopsMeasured
<1>3. ASSUME NEW c \in Callers, Proceed(c) \/ Redirect(c) \/ Respond(c) \/ Fail(c)
      PROVE  HopsMeasured'
  <2>1. /\ pc \in [Callers -> AtHosts \cup {"idle", "ended"}] /\ pos \in [Callers -> Nat]
        /\ hop = [d \in Callers |-> hop[d]]
    BY DEF IInv, ClientTypeOK, HopsMeasured
  <2>2. ASSUME hop' = [d \in Callers |-> hop'[d]], pc'[c] = "sent" => HopMeasured(c)',
               \A d \in Callers \ {c} : pc'[d] = pc[d] /\ pos'[d] = pos[d] /\ hop'[d] = hop[d]
        PROVE  HopsMeasured'
    BY <1>1, <2>2 DEF HopsMeasured
  <2>3. CASE Send(c)
    <3>1. PICK proto \in {"h1", "h2"} : hop' = [hop EXCEPT ![c] = FirstHop(c, proto)]
      BY <2>3 DEF Send
    <3>2. /\ pc[c] = "seeded" /\ pos' = pos /\ pc' = [pc EXCEPT ![c] = "sent"]
          /\ pos[c] \in DOMAIN Input[c]
      BY <2>3 DEF Send, IInv, ClientTypeOK, AtHosts
    <3>3. hop'[c] = FirstHop(c, proto) /\ Own(c)' = Own(c)
      BY <2>1, <3>1, <3>2 DEF Own, Line
    <3>4. HopMeasured(c)'
      <4>1. hop'[c].block = Original[c][pos[c]] /\ hop'[c].http1 = Measured[c][pos[c]]
        BY <3>3 DEF FirstHop
      <4> QED BY <3>2, <3>3, <4>1, FirstHTTP1 DEF HopMeasured, LooksMeasured
    <3> QED BY <2>1, <2>2, <3>1, <3>2, <3>4
  <2>4. CASE Redirect(c)
    <3>1. PICK to \in Targets, proto \in {"h1", "h2"} : hop' = [hop EXCEPT ![c] = NextHop(c, to, proto)]
      BY <2>4 DEF Redirect
    <3>2. /\ pc[c] = "sent" /\ pos' = pos /\ pc' = pc /\ HopMeasured(c) /\ pos[c] \in DOMAIN Input[c]
      BY <2>4 DEF Redirect, HopsMeasured, IInv, ClientTypeOK, AtHosts
    <3>3. hop'[c] = NextHop(c, to, proto) /\ Own(c)' = Own(c)
      BY <2>1, <3>1, <3>2 DEF Own, Line
    <3>4. HopMeasured(c)'
      BY <3>2, <3>3, NextHopMeasured DEF HopMeasured, LooksMeasured
    <3> QED BY <2>1, <2>2, <3>1, <3>2, <3>4
  <2>5. CASE ~Send(c) /\ ~Redirect(c)
    <3>1. /\ pc'[c] # "sent" /\ hop' = [d \in Callers |-> hop'[d]]
          /\ \A d \in Callers \ {c} : pc'[d] = pc[d] /\ pos'[d] = pos[d] /\ hop'[d] = hop[d]
      BY <1>3, <2>1, <2>5 DEF Proceed, SkipBlank, ServeReturns, Refuse, RefuseClosed, Ask, Seed, File,
           Finish, Respond, Fail, Reply, HasLine
    <3> QED BY <2>2, <3>1
  <2> QED BY <2>3, <2>4, <2>5
<1> QED BY <1>2, <1>3 DEF Next, Close, vars, loopVars

LEMMA HopsMeasuredInvariance ==
    ASSUME Impersonal
    PROVE  Spec => []HopsMeasured
<1>1. Init => HopsMeasured
  BY DEF Init, HopsMeasured
<1>2. IInv /\ HopsMeasured /\ [Next]_vars => HopsMeasured'
  BY HopsMeasuredInductive
<1> QED BY <1>1, <1>2, Invariance, PTL DEF Spec

-----------------------------------------------------------------------------
(* Theorems. *)

\* Whatever the session, the hosts and the goroutines: a request that has passed
\* seedWarmCookies finds all the session holds for its host in the jar.
THEOREM SessionComesFirst == Spec => []WarmFirst
  BY Invariance, PTL DEF IInv

\* A cookie that was filed is never filed again (the test of warmSeeded under warmMu).
THEOREM SessionSeededOnce == Spec => SeededOnce
<1> DEFINE Kept == \A w \in Warm, h \in Hosts : StaysFiled(w, h)
<1>1. ASSUME IInv, [Next]_vars PROVE [Kept]_vars
  <2> SUFFICES ASSUME NEW w \in Warm, NEW h \in Hosts, Filed(w, h)
               PROVE  /\ JarKey(w, h) \notin ready' /\ SeedKey(w, h) \in seeded'
                      /\ jar'[JarKey(w, h)] = "warm" => jar[JarKey(w, h)] = "warm"
    BY DEF StaysFiled, Filed, Belongs, SeedKey, JarKey
  <2>1. JarKey(w, h) \in JarKeys /\ Belongs(w, h) /\ SeedKey(w, h) \in seeded /\ JarKey(w, h) \notin ready
    BY KeyTypes DEF Filed
  <2>2. ASSUME UNCHANGED warmVars
        PROVE  /\ JarKey(w, h) \notin ready' /\ SeedKey(w, h) \in seeded'
               /\ jar'[JarKey(w, h)] = "warm" => jar[JarKey(w, h)] = "warm"
    BY <2>1, <2>2 DEF warmVars
  <2>3. ASSUME NEW c \in Callers, Seed(c)
        PROVE  /\ JarKey(w, h) \notin ready' /\ SeedKey(w, h) \in seeded' /\ jar' = jar
    <3> DEFINE g == Line(c).host
               fresh == {v \in Warm : Belongs(v, g) /\ SeedKey(v, g) \notin seeded}
    <3>1. /\ ready' = {JarKey(v, g) : v \in fresh} /\ jar' = jar /\ pc[c] = "asked"
          /\ seeded' = seeded \cup {SeedKey(v, g) : v \in fresh}
      BY <2>3 DEF Seed, TakeWarm
    <3>2. g \in Hosts
      BY <1>1, <3>1, ClientAssumption DEF IInv, ClientTypeOK, Line, AtHosts
    <3> HIDE DEF g
    <3>3. ASSUME NEW v \in fresh, JarKey(w, h) = JarKey(v, g) PROVE FALSE
      <4>1. CASE w = v /\ SeedKey(w, h) = SeedKey(v, g)
        BY <2>1, <4>1
      <4>2. CASE h = g /\ JarKey(w, h).hostOnly
        BY <1>1, <2>1, <4>2 DEF IInv, MarkedTogether, AllMarked
      <4> QED BY <2>1, <3>2, <3>3, <4>1, <4>2, SharedEntry
    <3> QED BY <2>1, <3>1, <3>3
  <2>4. ASSUME NEW c \in Callers, File(c)
        PROVE  /\ ready' = {} /\ seeded' = seeded
               /\ jar'[JarKey(w, h)] = jar[JarKey(w, h)]
    BY <2>1, <2>4 DEF File, FileWarm
  <2>5. ASSUME NEW c \in Callers, Send(c)
        PROVE  /\ UNCHANGED <<seeded, ready>>
               /\ jar'[JarKey(w, h)] = "warm" => jar[JarKey(w, h)] = "warm"
    BY <2>1, <2>5 DEF Send, FileGiven
  <2>6. ASSUME NEW g, JarHears(g)
        PROVE  /\ UNCHANGED <<seeded, ready>>
               /\ jar'[JarKey(w, h)] = "warm" => jar[JarKey(w, h)] = "warm"
    BY <1>1, <2>1, <2>6 DEF JarHears, SiteSets, warmVars, IInv, ClientTypeOK, WarmTypeOK
  <2>7. CASE Close
    BY <2>7, <2>2 DEF Close
  <2>8. CASE UNCHANGED vars
    BY <2>8, <2>2 DEF vars
  <2>9. ASSUME NEW c \in Callers, Proceed(c) \/ Redirect(c) \/ Respond(c) \/ Fail(c)
        PROVE  /\ JarKey(w, h) \notin ready' /\ SeedKey(w, h) \in seeded'
               /\ jar'[JarKey(w, h)] = "warm" => jar[JarKey(w, h)] = "warm"
    <3>1. CASE Seed(c) \/ File(c) \/ Send(c)
      BY <2>1, <2>3, <2>4, <2>5, <3>1
    <3>2. CASE Redirect(c) \/ Respond(c)
      BY <2>1, <2>6, <3>2 DEF Redirect, Respond
    <3>3. CASE \/ SkipBlank(c) \/ ServeReturns(c) \/ Refuse(c) \/ RefuseClosed(c)
               \/ Ask(c) \/ Finish(c) \/ Fail(c)
      BY <2>2, <3>3 DEF SkipBlank, ServeReturns, Refuse, RefuseClosed, Ask, Finish, Fail
    <3> QED BY <2>9, <3>1, <3>2, <3>3 DEF Proceed
  <2> QED BY <1>1, <2>7, <2>8, <2>9 DEF Next
<1>2. IInv /\ [Next]_vars => [Kept]_vars
  BY <1>1
<1> QED BY Invariance, <1>2, PTL DEF Spec, SeededOnce, Kept

\* Whatever the lines and however calls fail, pipes break and the client is closed between
\* them: the answers of a loop of Serve are those to its lines, in order, with their ids.
THEOREM AnswersInOrder == Spec => []AnsweredInOrder
<1>1. ASSUME IInv, Answering, NEW c \in Callers
      PROVE  /\ Len(replies[c]) \in {Cardinality(Taken(c)), Cardinality(Taken(c)) - 1}
             /\ Len(replies[c]) < Cardinality(Taken(c)) => pc[c] = "ended"
             /\ AnsweredBy(c)
  <2>1. Cardinality(Taken(c)) \in Nat
    BY <1>1, Turns DEF IInv, ClientTypeOK
  <2> QED BY <1>1, <2>1 DEF Answering, AnsweredBy
<1>2. IInv /\ Answering => AnsweredInOrder
  BY <1>1 DEF AnsweredInOrder, AnsweredBy
<1> QED BY <1>2, Invariance, AnsweringInvariance, PTL

\* Whatever the caller gives, over connections of either protocol and after any number of
\* redirects: what leaves the site first asked takes neither a credential nor the name of
\* another host with it (prepareRedirectLayout), if the profile was measured logged out.
THEOREM NothingLeavesItsSite ==
    ASSUME LoggedOut
    PROVE  Spec => []NothingAcrossOrigins
<1>1. ASSUME HopsApart, NEW c \in Callers, pc[c] = "sent", ~SameSite(Line(c).host, hop[c].host)
      PROVE  LET wire == Wire(c)
             IN /\ DOMAIN wire.values \cap Credentials = {}
                /\ ToSet(wire.order) \cap Credentials \cap DOMAIN wire.values = {}
                /\ "host" \in DOMAIN wire.values => wire.values["host"] = <<hop[c].host>>
  <2>1. HopApart(c)
    BY <1>1 DEF HopsApart
  <2>2. CASE OnHTTP1(c)
    <3>1. /\ DOMAIN Wire(c).values = DOMAIN hop[c].http1.values
          /\ \A n \in DOMAIN hop[c].http1.values : Wire(c).values[n] = hop[c].http1.values[n]
      BY <2>2 DEF Wire, ApplyLayout, Managed
    <3> QED BY <1>1, <2>1, <3>1 DEF HopApart
  <2>3. CASE ~OnHTTP1(c)
    <3>1. Wire(c) = hop[c].block
      BY <2>3 DEF Wire
    <3> QED BY <1>1, <2>1, <3>1 DEF HopApart
  <2> QED BY <2>2, <2>3
<1>2. HopsApart => NothingAcrossOrigins
  BY <1>1 DEF NothingAcrossOrigins
<1> QED BY <1>2, HopsApartInvariance, PTL

\* Whatever the caller and WithHeaders add, over connections of either protocol and after any
\* number of redirects: every hop has the order and the values its protocol was measured with
\* (redirectHTTP1Layout on the layout of the hop before), if the profile is impersonal.
THEOREM WireLooksMeasured ==
    ASSUME Impersonal
    PROVE  Spec => []WireAsMeasured
<1>1. ASSUME IInv, HopsMeasured, NEW c \in Callers, pc[c] = "sent"
      PROVE  OrderKept(c) /\ ValuesKept(c)
  <2>1. HopMeasured(c) /\ pos[c] \in DOMAIN Input[c]
    BY <1>1 DEF HopsMeasured, IInv, ClientTypeOK, AtHosts
  <2>2. CASE OnHTTP1(c)
    <3> DEFINE wire == Wire(c)
               http1 == hop[c].http1
    <3>1. /\ wire.order = http1.order /\ DOMAIN wire.values = DOMAIN http1.values
          /\ \A n \in DOMAIN http1.values : wire.values[n] = http1.values[n]
      BY <2>2 DEF Wire, ApplyLayout, Managed
    <3>2. /\ MeasuredOrder(c) = HTTP1.order /\ MeasuredNames(c) = HTTP1Measured
          /\ \A n : MeasuredValues(c, n) = Values(IF Has(HTTP1.headers, n) THEN HTTP1.headers ELSE Shared, n)
      BY <2>2 DEF MeasuredOrder, MeasuredNames, MeasuredValues, HTTP1Measured
    <3>3. /\ InOrder(http1.order, HTTP1Measured, HTTP1.order)
          /\ \A n \in DOMAIN http1.values \ {"host", "referer"} :
               IF Has(Own(c), n) THEN http1.values[n] = Values(Own(c), n)
               ELSE /\ n \in HTTP1Measured
                    /\ http1.values[n] = Values(IF Has(HTTP1.headers, n) THEN HTTP1.headers ELSE Shared, n)
      BY <2>1 DEF HopMeasured, LooksMeasured
    <3> HIDE DEF wire, http1
    <3>4. OrderKept(c)
      BY <3>1, <3>2, <3>3 DEF OrderKept, InOrder, wire
    <3>5. ValuesKept(c)
      BY <3>1, <3>2, <3>3 DEF ValuesKept, wire
    <3> QED BY <3>4, <3>5
  <2>3. CASE ~OnHTTP1(c)
    <3> DEFINE wire == Wire(c)
               first == Original[c][pos[c]]
    <3>1. wire = hop[c].block
      BY <2>3 DEF Wire
    <3>2. /\ MeasuredOrder(c) = NamesOf(Shared) /\ MeasuredNames(c) = FieldNames(Shared)
          /\ \A n : MeasuredValues(c, n) = Values(Shared, n)
      <4>1. ToSet(NamesOf(Shared)) = FieldNames(Shared)
        BY DEF ToSet, NamesOf, FieldNames
      <4>2. \A n : Has(Shared, n) <=> n \in FieldNames(Shared)
        BY DEF Has, FieldNames
      <4> QED BY <2>3, <4>1, <4>2 DEF MeasuredOrder, MeasuredNames, MeasuredValues
    <3>3. /\ InOrder(first.order, FieldNames(Shared), NamesOf(Shared))
          /\ \A n \in DOMAIN first.values \ {"host"} :
               IF Has(Own(c), n) THEN first.values[n] = Values(Own(c), n)
               ELSE Has(Shared, n) /\ first.values[n] = Values(Shared, n)
      BY <2>1, FirstBlock
    <3>4. /\ wire.order = first.order /\ DOMAIN wire.values \subseteq DOMAIN first.values \cup {"referer"}
          /\ \A n \in DOMAIN wire.values \ {"host", "referer"} : wire.values[n] = first.values[n]
      BY <2>1, <3>1 DEF HopMeasured, LooksMeasured
    <3>5. \A n : Has(Shared, n) <=> n \in FieldNames(Shared)
      BY DEF Has, FieldNames
    <3> HIDE DEF wire, first
    <3>6. OrderKept(c)
      BY <3>2, <3>3, <3>4 DEF OrderKept, InOrder, wire
    <3>7. ValuesKept(c)
      BY <3>2, <3>3, <3>4, <3>5 DEF ValuesKept, wire
    <3> QED BY <3>6, <3>7
  <2> QED BY <2>2, <2>3
<1>2. IInv /\ HopsMeasured => WireAsMeasured
  BY <1>1 DEF WireAsMeasured
<1> QED BY <1>2, Invariance, HopsMeasuredInvariance, PTL
=============================================================================
