------------------------------ MODULE BatchProofs ------------------------------
(***************************************************************************)
(* A batch run accounts for every URL it hands out, for any list, number   *)
(* of workers and number of tries; a proxy has one client; and a body file *)
(* holds the body of the one job that names it.                            *)
(***************************************************************************)
EXTENDS Batch, FiniteSetTheorems, SequenceTheorems, TLAPS

JobNo  == 1..Len(Jobs)
Errors == {"client", "fetch", "cancelled", "file"}
Places == {"idle", "get", "build", "do", "pause", "save", "finish", "record", "gone"}

Worker == [at : Places, job : JobNo \cup {None}, tries : Nat,
           client : JobNo \cup {None}, error : Errors \cup {None}]

Entry == [job : JobNo, tries : Nat, client : JobNo \cup {None}, error : Errors \cup {None}]

\* Every variable holds what the code can put there.
TypeOK ==
  /\ handed \in 0..Len(Jobs)
  /\ feeder \in {"feeding", "closed", "returned"}
  /\ interrupt \in BOOLEAN
  /\ runErr \in BOOLEAN
  /\ worker \in [Workers -> Worker]
  /\ poolLock \in Workers \cup {None}
  /\ clients \in [Proxies -> JobNo \cup {None}]
  /\ counts \in [done : Int, failed : Int, inFlight : Int]
  /\ records \in Seq(Entry)
  /\ output \in Seq(JobNo)
  /\ failures \in Nat
  /\ bodies \in [{BodyFile(i) : i \in JobNo} -> JobNo \cup {None}]

\* A worker with a job has one that was handed out; what it has tried so far
\* leaves it a try while it is trying.
Trying ==
  \A w \in Workers :
    /\ Busy(w) => worker[w].job \in 1..handed
    /\ worker[w].at \in {"get", "build"} => worker[w].client = None /\ worker[w].tries = 0
    /\ worker[w].at \in {"get", "build", "do", "pause", "save"} => worker[w].error = None
    /\ worker[w].at \in {"do", "pause"} => worker[w].tries <= Repeat
    /\ worker[w].at \in {"finish", "record"} /\ worker[w].error = "fetch" => worker[w].tries = Repeat + 1

\* A job is with one worker or in the records, once.
Apart ==
  /\ \A w, x \in Workers : Busy(w) /\ Busy(x) /\ worker[w].job = worker[x].job => w = x
  /\ \A i, j \in 1..Len(records) : records[i].job = records[j].job => i = j
  /\ \A w \in Workers : Busy(w) => \A i \in 1..Len(records) : records[i].job # worker[w].job
  /\ \A n \in 1..handed : \/ \E w \in Workers : Busy(w) /\ worker[w].job = n
                          \/ \E i \in 1..Len(records) : records[i].job = n
  /\ \A i \in 1..Len(records) : records[i].job \in 1..handed

\* The one client of a proxy is what was made first, by a worker alone with the pool.
Pooled ==
  /\ \A w \in Workers : worker[w].at = "build" => poolLock = w /\ clients[Proxy(w)] = None
  /\ \A w \in Workers : Busy(w) /\ worker[w].client # None => clients[Proxy(w)] = worker[w].client
  /\ \A i \in 1..Len(records) :
       records[i].client # None => clients[Jobs[records[i].job].proxy] = records[i].client

\* What went well is in its file.
Stored ==
  /\ \A w \in Workers : worker[w].at \in {"finish", "record"} /\ ~Failed(worker[w]) =>
       bodies[BodyFile(worker[w].job)] = worker[w].job
  /\ \A i \in 1..Len(records) : ~Failed(records[i]) => bodies[BodyFile(records[i].job)] = records[i].job

\* The output is the beginning of the records, and the failures are theirs.
Reported ==
  /\ Len(output) <= Len(records)
  /\ \A i \in 1..Len(output) : output[i] = records[i].job
  /\ ~runErr => Len(output) = Len(records)
  /\ failures = Cardinality({i \in 1..Len(records) : Failed(records[i])})

\* The feeder stops early only when told to, and returns when all have gone.
Ended ==
  /\ feeder # "feeding" => handed = Len(Jobs) \/ Cancelled
  /\ feeder = "returned" => \A w \in Workers : worker[w].at = "gone"

IInv == TypeOK /\ Trying /\ Apart /\ Pooled /\ Stored /\ Reported /\ Ended /\ EveryTryTaken /\ CountsAgree

-----------------------------------------------------------------------------
(* Of the list, and of one worker. *)

\* The list is numbered from one, and each of its proxies has a client or none.
LEMMA ListFacts ==
  /\ Len(Jobs) \in Nat /\ DOMAIN Jobs = JobNo
  /\ \A n \in JobNo : Jobs[n].proxy \in Proxies
  /\ None \notin JobNo /\ None \notin Errors
<1>1. Jobs \in Seq(ToSet(Jobs))
  BY BatchAssumption
<1>2. Len(Jobs) \in Nat /\ DOMAIN Jobs = JobNo
  BY <1>1, LenProperties DEF JobNo
<1> QED BY <1>2, BatchAssumption DEF JobNo, Errors, Proxies

\* No two places of the list share a file.
LEMMA FilesApart ==
  ASSUME NEW m \in JobNo, NEW n \in JobNo, BodyFile(m) = BodyFile(n)
  PROVE  m = n
<1>1. ASSUME NEW i \in JobNo, NEW j \in JobNo, i < j PROVE BodyFile(i) # BodyFile(j)
  <2> SUFFICES ASSUME BodyFile(i) = BodyFile(j) PROVE FALSE
    OBVIOUS
  <2> DEFINE S == {k \in 1..i : Jobs[k].url = Jobs[i].url}
             T == {k \in 1..j : Jobs[k].url = Jobs[j].url}
  <2>1. Jobs[i].url = Jobs[j].url /\ Cardinality(S) = Cardinality(T)
    BY DEF BodyFile
  <2>2. i \in Nat /\ j \in Nat
    BY ListFacts DEF JobNo
  <2>3. S \in SUBSET T /\ j \in T /\ j \notin S
    BY <1>1, <2>1, <2>2 DEF JobNo
  <2>4. IsFiniteSet(T)
    <3>1. IsFiniteSet(1..j)
      BY <2>2, FS_Interval
    <3>2. T \in SUBSET (1..j)
      OBVIOUS
    <3> QED BY <3>1, <3>2, FS_Subset
  <2> HIDE DEF S, T
  <2> QED BY <2>1, <2>3, <2>4, FS_Subset
<1>2. m \in Nat /\ n \in Nat
  BY ListFacts DEF JobNo
<1>3. ~(m < n) /\ ~(n < m)
  BY <1>1
<1> QED BY <1>2, <1>3

\* What the invariant says of a worker with a job.
LEMMA BusyFacts ==
  ASSUME IInv, NEW w \in Workers, Busy(w)
  PROVE  /\ worker[w] \in Worker /\ worker[w].job \in 1..handed /\ worker[w].job \in JobNo
         /\ Proxy(w) \in Proxies
<1>1. worker[w] \in Worker /\ worker[w].job \in 1..handed /\ handed \in 0..Len(Jobs)
  BY DEF IInv, TypeOK, Trying
<1>2. worker[w].job \in JobNo
  BY <1>1, ListFacts DEF JobNo
<1> QED BY <1>1, <1>2, ListFacts DEF Proxy

\* The parts of CountsAgree.
Flying   == {w \in Workers : Busy(w) /\ worker[w].at # "record"}
AtRecord == {w \in Workers : worker[w].at = "record"}
Losing   == {w \in Workers : worker[w].at = "record" /\ Failed(worker[w])}

\* There are finitely many workers.
LEMMA FewWorkers ==
  /\ CountsAgree <=> /\ counts.inFlight = Cardinality(Flying)
                     /\ counts.done = Len(records) + Cardinality(AtRecord)
                     /\ counts.failed = failures + Cardinality(Losing)
  /\ IsFiniteSet(Flying) /\ IsFiniteSet(AtRecord) /\ IsFiniteSet(Losing)
<1>1. CountsAgree <=> /\ counts.inFlight = Cardinality(Flying)
                      /\ counts.done = Len(records) + Cardinality(AtRecord)
                      /\ counts.failed = failures + Cardinality(Losing)
  BY DEF CountsAgree, Flying, AtRecord, Losing
<1>2. Flying \in SUBSET Workers /\ AtRecord \in SUBSET Workers /\ Losing \in SUBSET Workers
  BY DEF Flying, AtRecord, Losing
<1> QED BY <1>1, <1>2, BatchAssumption, FS_Subset

-----------------------------------------------------------------------------
(* Steps of a worker. *)

\* A worker goes on with its job: what does not concern the pool or the files is
\* as before.
LEMMA Turned ==
  ASSUME IInv, NEW w \in Workers, Busy(w), worker[w].at # "record",
         NEW v \in Worker, v.at \notin {"idle", "gone", "record"}, v.job = worker[w].job,
         worker' = [worker EXCEPT ![w] = v],
         UNCHANGED <<feedVars, interrupt, runErr, counts, sinkVars>>,
         v.at \in {"get", "build"} => v.client = None /\ v.tries = 0,
         v.at \in {"get", "build", "do", "pause", "save"} => v.error = None,
         v.at \in {"do", "pause"} => v.tries <= Repeat,
         v.at = "finish" /\ v.error = "fetch" => v.tries = Repeat + 1,
         poolLock' \in Workers \cup {None}, clients' \in [Proxies -> JobNo \cup {None}],
         bodies' \in [{BodyFile(i) : i \in JobNo} -> JobNo \cup {None}],
         Pooled', Stored'
  PROVE  IInv'
<1>1. /\ worker' \in [Workers -> Worker]
      /\ \A x \in Workers : worker'[x] = IF x = w THEN v ELSE worker[x]
      /\ worker[w].at \notin {"idle", "gone", "record"}
  BY DEF IInv, TypeOK, Busy
<1>2. UNCHANGED <<handed, feeder, interrupt, runErr, counts, records, output, failures>>
  BY DEF feedVars, sinkVars
<1>3. \A x \in Workers : Busy(x)' = Busy(x) /\ worker'[x].job = worker[x].job
  BY <1>1 DEF Busy
<1>4. TypeOK'
  <2>1. bodies' \in [{BodyFile(i)' : i \in JobNo} -> JobNo \cup {None}]
    BY DEF BodyFile
  <2> QED BY <1>1, <1>2, <2>1 DEF IInv, TypeOK, Worker, Entry, JobNo, Errors, Places, Proxies, BodyFile
<1>5. Trying'
  BY <1>1, <1>2, <1>3 DEF IInv, Trying
<1>6. Apart'
  BY <1>2, <1>3 DEF IInv, Apart
<1>7. Reported' /\ EveryTryTaken'
  BY <1>2 DEF IInv, Reported, EveryTryTaken, Failed
<1>8. Ended'
  BY <1>1, <1>2 DEF IInv, Ended, Cancelled
<1>9. CountsAgree'
  <2>1. Flying' = Flying /\ AtRecord' = AtRecord /\ Losing' = Losing
    BY <1>1, <1>3 DEF Flying, AtRecord, Losing, Failed
  <2>2. CountsAgree' <=> /\ counts'.inFlight = Cardinality(Flying')
                         /\ counts'.done = Len(records') + Cardinality(AtRecord')
                         /\ counts'.failed = failures' + Cardinality(Losing')
    BY DEF CountsAgree, Flying, AtRecord, Losing
  <2> QED BY <1>2, <2>1, <2>2, FewWorkers DEF IInv
<1> QED BY <1>4, <1>5, <1>6, <1>7, <1>8, <1>9 DEF IInv

\* The pool stays right when a worker takes nothing from it but the client of its
\* proxy, and its lock only when it is free, or lets go of it.
LEMMA PoolKept ==
  ASSUME IInv, NEW w \in Workers, Busy(w),
         NEW v \in Worker, v.at \notin {"idle", "gone"}, v.job = worker[w].job,
         worker' = [worker EXCEPT ![w] = v], UNCHANGED <<clients, records>>,
         v.client # None => v.client \in {worker[w].client, clients[Proxy(w)]},
         v.at = "build" => /\ poolLock = None /\ poolLock' = w /\ clients[Proxy(w)] = None,
         poolLock' # poolLock => poolLock \in {None, w}
  PROVE  Pooled'
<1>1. \A x \in Workers : worker'[x] = IF x = w THEN v ELSE worker[x]
  BY DEF IInv, TypeOK
<1>2. \A x \in Workers : Proxy(x)' = Proxy(x) /\ Busy(x)' = Busy(x)
  BY <1>1 DEF Proxy, Busy
<1>3. None \notin Workers
  BY BatchAssumption
<1>4. ASSUME NEW x \in Workers, worker'[x].at = "build"
      PROVE  poolLock' = x /\ clients'[Proxy(x)'] = None
  BY <1>1, <1>2, <1>3, <1>4 DEF IInv, Pooled
<1>5. ASSUME NEW x \in Workers, Busy(x)', worker'[x].client # None
      PROVE  clients'[Proxy(x)'] = worker'[x].client
  BY <1>1, <1>2, <1>5 DEF IInv, Pooled
<1>6. \A i \in 1..Len(records') :
        records'[i].client # None => clients'[Jobs[records'[i].job].proxy] = records'[i].client
  BY DEF IInv, Pooled
<1> QED BY <1>4, <1>5, <1>6 DEF Pooled

\* The files stay right when none is written and no job is done.
LEMMA FilesKept ==
  ASSUME IInv, NEW w \in Workers, NEW v \in Worker,
         worker' = [worker EXCEPT ![w] = v], UNCHANGED <<bodies, records>>,
         v.at \in {"finish", "record"} /\ ~Failed(v) =>
           /\ worker[w].at \in {"finish", "record"} /\ ~Failed(worker[w]) /\ v.job = worker[w].job
  PROVE  Stored'
<1>1. \A x \in Workers : worker'[x] = IF x = w THEN v ELSE worker[x]
  BY DEF IInv, TypeOK
<1>2. ASSUME NEW x \in Workers, worker'[x].at \in {"finish", "record"}, ~Failed(worker'[x])
      PROVE  bodies[BodyFile(worker'[x].job)] = worker'[x].job
  BY <1>1, <1>2 DEF IInv, Stored
<1>3. \A j \in 1..Len(records) : ~Failed(records[j]) => bodies[BodyFile(records[j].job)] = records[j].job
  BY DEF IInv, Stored
<1> QED BY <1>2, <1>3 DEF Stored, Failed, BodyFile

\* pool.get finds the client, or takes the lock to build it.
LEMMA GetDone ==
  ASSUME IInv, NEW w \in Workers, Get(w)
  PROVE  IInv'
<1>1. /\ worker[w].at = "get" /\ Busy(w) /\ poolLock = None /\ None \notin Workers
      /\ UNCHANGED <<clients, feedVars, interrupt, runErr, counts, sinkVars, bodies>>
  BY BatchAssumption DEF Get, Busy
<1>2. worker[w] \in Worker /\ Proxy(w) \in Proxies /\ worker[w].client = None /\ worker[w].tries = 0
      /\ worker[w].error = None /\ clients \in [Proxies -> JobNo \cup {None}] /\ Repeat \in Nat
      /\ bodies \in [{BodyFile(i) : i \in JobNo} -> JobNo \cup {None}]
  BY <1>1, BusyFacts, BatchAssumption DEF IInv, TypeOK, Trying
<1>3. PICK v \in Worker : /\ worker' = [worker EXCEPT ![w] = v] /\ v.job = worker[w].job
                          /\ v.tries = 0 /\ v.error = None
                          /\ \/ v.at = "do" /\ v.client = clients[Proxy(w)] /\ poolLock' = poolLock
                             \/ /\ v.at = "build" /\ v.client = None /\ poolLock' = w
                                /\ clients[Proxy(w)] = None
  <2>1. CASE clients[Proxy(w)] # None
    <3> DEFINE v == [[worker[w] EXCEPT !.at = "do"] EXCEPT !.client = clients[Proxy(w)]]
    <3>1. clients[Proxy(w)] \in JobNo \cup {None}
      BY <1>2
    <3>2. v \in Worker /\ v.at = "do" /\ v.client = clients[Proxy(w)] /\ v.job = worker[w].job
          /\ v.tries = 0 /\ v.error = None
      BY <1>2, <3>1 DEF Worker, Places
    <3>3. worker' = [worker EXCEPT ![w] = v] /\ poolLock' = poolLock
      BY <1>2, <2>1 DEF Get, Step
    <3> QED BY <3>2, <3>3
  <2>2. CASE clients[Proxy(w)] = None
    <3> DEFINE v == [worker[w] EXCEPT !.at = "build"]
    <3>1. v \in Worker /\ v.at = "build" /\ v.client = None /\ v.job = worker[w].job
          /\ v.tries = 0 /\ v.error = None
      BY <1>2 DEF Worker, Places
    <3>2. worker' = [worker EXCEPT ![w] = v] /\ poolLock' = w
      BY <2>2 DEF Get, Step
    <3> QED BY <2>2, <3>1, <3>2
  <2> QED BY <2>1, <2>2
<1>4. UNCHANGED <<records, clients, bodies>>
  BY <1>1 DEF sinkVars
<1>5. Pooled'
  BY <1>1, <1>3, <1>4, PoolKept
<1>6. Stored'
  BY <1>3, <1>4, FilesKept
<1>7. /\ poolLock' \in Workers \cup {None} /\ clients' \in [Proxies -> JobNo \cup {None}]
      /\ bodies' \in [{BodyFile(i) : i \in JobNo} -> JobNo \cup {None}]
      /\ v.at \in {"do", "build"} /\ v.tries <= Repeat
      /\ v.at \in {"get", "build"} => v.client = None
  BY <1>1, <1>2, <1>3, <1>4
<1> QED BY <1>1, <1>3, <1>5, <1>6, <1>7, Turned

\* The client that was built becomes the proxy's; nobody else was building.
LEMMA PoolFilled ==
  ASSUME IInv, NEW w \in Workers, worker[w].at = "build",
         NEW v \in Worker, v.at = "do", v.job = worker[w].job, v.client = worker[w].job,
         worker' = [worker EXCEPT ![w] = v], records' = records,
         clients' = [clients EXCEPT ![Proxy(w)] = worker[w].job]
  PROVE  Pooled' /\ clients' \in [Proxies -> JobNo \cup {None}]
<1>1. \A x \in Workers : worker'[x] = IF x = w THEN v ELSE worker[x]
  BY DEF IInv, TypeOK
<1>2. Busy(w) /\ poolLock = w /\ clients[Proxy(w)] = None /\ None \notin JobNo
  BY ListFacts DEF IInv, Pooled, Busy
<1>3. /\ Proxy(w) \in Proxies /\ worker[w].job \in JobNo
      /\ clients \in [Proxies -> JobNo \cup {None}]
  BY <1>2, BusyFacts DEF IInv, TypeOK
<1>4. /\ clients' \in [Proxies -> JobNo \cup {None}]
      /\ \A y \in Proxies : clients'[y] = IF y = Proxy(w) THEN worker[w].job ELSE clients[y]
  BY <1>3
<1>5. \A x \in Workers : Proxy(x)' = Proxy(x) /\ Busy(x)' = Busy(x)
  BY <1>1, <1>2 DEF Proxy, Busy
<1>6. \A x \in Workers : worker'[x].at # "build"
  BY <1>1, <1>2 DEF IInv, Pooled
<1>7. ASSUME NEW x \in Workers, Busy(x)', worker'[x].client # None
      PROVE  clients'[Proxy(x)'] = worker'[x].client
  <2>1. CASE x = w
    BY <1>1, <1>3, <1>4, <1>5, <2>1
  <2>2. CASE x # w
    <3>1. Busy(x) /\ worker[x].client # None /\ worker'[x] = worker[x]
      BY <1>1, <1>5, <1>7, <2>2
    <3>2. clients[Proxy(x)] = worker[x].client /\ Proxy(x) \in Proxies
      BY <3>1, BusyFacts DEF IInv, Pooled
    <3> QED BY <1>2, <1>4, <1>5, <3>1, <3>2
  <2> QED BY <2>1, <2>2
<1>8. ASSUME NEW j \in 1..Len(records), records[j].client # None
      PROVE  clients'[Jobs[records[j].job].proxy] = records[j].client
  <2>1. clients[Jobs[records[j].job].proxy] = records[j].client
    BY <1>8 DEF IInv, Pooled
  <2>2. records[j] \in Entry
    BY ElementOfSeq DEF IInv, TypeOK
  <2>3. Jobs[records[j].job].proxy \in Proxies
    BY <2>2, ListFacts DEF Entry
  <2> QED BY <1>2, <1>4, <1>8, <2>1, <2>3
<1> QED BY <1>4, <1>6, <1>7, <1>8 DEF Pooled

\* The client is there, or it could not be made; the lock is free again.
LEMMA BuildDone ==
  ASSUME IInv, NEW w \in Workers, Build(w)
  PROVE  IInv'
<1>1. /\ worker[w].at = "build" /\ Busy(w) /\ poolLock = w /\ poolLock' = None
      /\ UNCHANGED <<feedVars, interrupt, runErr, counts, sinkVars, bodies>>
  BY DEF Build, Busy, IInv, Pooled
<1>2. /\ worker[w] \in Worker /\ worker[w].job \in JobNo /\ worker[w].client = None
      /\ worker[w].tries = 0 /\ worker[w].error = None
      /\ clients \in [Proxies -> JobNo \cup {None}] /\ Repeat \in Nat /\ None \notin Errors
      /\ bodies \in [{BodyFile(i) : i \in JobNo} -> JobNo \cup {None}]
  BY <1>1, BusyFacts, ListFacts, BatchAssumption DEF IInv, TypeOK, Trying
<1>3. UNCHANGED <<records, bodies>>
  BY <1>1 DEF sinkVars
<1>4. CASE /\ clients' = [clients EXCEPT ![Proxy(w)] = worker[w].job]
           /\ Step(w, [worker[w] EXCEPT !.at = "do", !.client = worker[w].job])
  <2> DEFINE v == [[worker[w] EXCEPT !.at = "do"] EXCEPT !.client = worker[w].job]
  <2>1. v \in Worker /\ v.at = "do" /\ v.job = worker[w].job /\ v.client = worker[w].job
        /\ v.tries = 0 /\ v.error = None
    BY <1>2 DEF Worker, Places
  <2>2. worker' = [worker EXCEPT ![w] = v]
    BY <1>2, <1>4 DEF Step
  <2> HIDE DEF v
  <2>3. Pooled' /\ clients' \in [Proxies -> JobNo \cup {None}]
    BY <1>1, <1>3, <1>4, <2>1, <2>2, PoolFilled
  <2>4. Stored'
    BY <1>3, <2>1, <2>2, FilesKept
  <2>5. /\ poolLock' \in Workers \cup {None} /\ v.tries <= Repeat
        /\ bodies' \in [{BodyFile(i) : i \in JobNo} -> JobNo \cup {None}]
    BY <1>1, <1>2, <1>3, <2>1
  <2> QED BY <1>1, <2>1, <2>2, <2>3, <2>4, <2>5, Turned
<1>5. CASE Step(w, [worker[w] EXCEPT !.at = "finish", !.error = "client"]) /\ UNCHANGED clients
  <2> DEFINE v == [[worker[w] EXCEPT !.at = "finish"] EXCEPT !.error = "client"]
  <2>1. v \in Worker /\ v.at = "finish" /\ v.job = worker[w].job /\ v.client = None
        /\ v.error = "client" /\ v.error # None
    BY <1>2 DEF Worker, Places, Errors
  <2>2. worker' = [worker EXCEPT ![w] = v]
    BY <1>2, <1>5 DEF Step
  <2> HIDE DEF v
  <2>3. Pooled'
    BY <1>1, <1>3, <1>5, <2>1, <2>2, PoolKept
  <2>4. Stored'
    BY <1>3, <2>1, <2>2, FilesKept DEF Failed
  <2>5. /\ poolLock' \in Workers \cup {None} /\ clients' \in [Proxies -> JobNo \cup {None}]
        /\ bodies' \in [{BodyFile(i) : i \in JobNo} -> JobNo \cup {None}]
    BY <1>1, <1>2, <1>3, <1>5
  <2> QED BY <1>1, <2>1, <2>2, <2>3, <2>4, <2>5, Turned
<1> QED BY <1>4, <1>5 DEF Build

\* A worker turns within the fetch: it keeps its client, and touches neither the
\* pool nor a file.
LEMMA FetchTurned ==
  ASSUME IInv, NEW w \in Workers, worker[w].at \in {"do", "pause", "save"},
         NEW v \in Worker, v.at \in {"do", "pause", "save", "finish"},
         v.job = worker[w].job, v.client = worker[w].client,
         worker' = [worker EXCEPT ![w] = v],
         UNCHANGED <<feedVars, interrupt, runErr, poolVars, counts, sinkVars, bodies>>,
         v.at # "finish" => v.error = None, v.at = "finish" => v.error # None,
         v.at \in {"do", "pause"} => v.tries <= Repeat,
         v.at = "finish" /\ v.error = "fetch" => v.tries = Repeat + 1
  PROVE  IInv'
<1>1. Busy(w) /\ UNCHANGED <<records, clients, poolLock, bodies>>
  BY DEF Busy, sinkVars, poolVars
<1>2. Pooled'
  BY <1>1, PoolKept
<1>3. Stored'
  BY <1>1, FilesKept DEF Failed
<1>4. /\ poolLock' \in Workers \cup {None} /\ clients' \in [Proxies -> JobNo \cup {None}]
      /\ bodies' \in [{BodyFile(i) : i \in JobNo} -> JobNo \cup {None}]
  BY <1>1 DEF IInv, TypeOK
<1> QED BY <1>1, <1>2, <1>3, <1>4, Turned

\* The request succeeds, fails for good, or is to be tried again.
LEMMA DoDone ==
  ASSUME IInv, NEW w \in Workers, DoSucceeds(w) \/ DoFails(w)
  PROVE  IInv'
<1>1. /\ worker[w].at = "do"
      /\ UNCHANGED <<feedVars, interrupt, runErr, poolVars, counts, sinkVars, bodies>>
  BY DEF DoSucceeds, DoFails
<1>2. /\ worker[w] \in Worker /\ worker[w].tries <= Repeat /\ worker[w].tries \in Nat
      /\ worker[w].tries + 1 \in Nat
      /\ worker[w].error = None /\ Repeat \in Nat /\ None \notin Errors
  BY <1>1, BatchAssumption, ListFacts DEF IInv, TypeOK, Trying, Worker
<1>3. CASE DoSucceeds(w)
  <2> DEFINE v == [[worker[w] EXCEPT !.at = "save"] EXCEPT !.tries = worker[w].tries + 1]
  <2>1. /\ v \in Worker /\ v.at = "save" /\ v.error = None
        /\ v.job = worker[w].job /\ v.client = worker[w].client
    BY <1>2, Zenon DEF Worker, Places
  <2>2. worker' = [worker EXCEPT ![w] = v]
    BY <1>2, <1>3 DEF DoSucceeds, Step
  <2> HIDE DEF v
  <2> QED BY <1>1, <2>1, <2>2, FetchTurned
<1>4. CASE DoFails(w) /\ (Cancelled \/ LastTry(w))
  <2> DEFINE e == IF Cancelled THEN "cancelled" ELSE "fetch"
             u == [[worker[w] EXCEPT !.at = "finish"] EXCEPT !.tries = worker[w].tries + 1]
             v == [u EXCEPT !.error = e]
  <2>1. /\ v \in Worker /\ v.at = "finish" /\ v.error = e /\ v.tries = worker[w].tries + 1
        /\ v.job = worker[w].job /\ v.client = worker[w].client
    <3>1. e \in Errors
      BY DEF Errors
    <3> HIDE DEF e
    <3> QED BY <1>2, <3>1, Zenon DEF Worker, Places
  <2>2. worker' = [worker EXCEPT ![w] = v]
    BY <1>2, <1>4 DEF DoFails, Step
  <2>3. e # None /\ (e = "fetch" => worker[w].tries + 1 = Repeat + 1)
    BY <1>2, <1>4 DEF LastTry, Errors
  <2> HIDE DEF v, e
  <2> QED BY <1>1, <2>1, <2>2, <2>3, FetchTurned
<1>5. CASE DoFails(w) /\ ~(Cancelled \/ LastTry(w))
  <2> DEFINE v == [[worker[w] EXCEPT !.at = "pause"] EXCEPT !.tries = worker[w].tries + 1]
  <2>1. /\ v \in Worker /\ v.at = "pause" /\ v.error = None /\ v.tries = worker[w].tries + 1
        /\ v.job = worker[w].job /\ v.client = worker[w].client
    BY <1>2, Zenon DEF Worker, Places
  <2>2. worker' = [worker EXCEPT ![w] = v]
    BY <1>2, <1>5 DEF DoFails, Step
  <2>3. worker[w].tries + 1 <= Repeat
    BY <1>2, <1>5 DEF LastTry
  <2> HIDE DEF v
  <2> QED BY <1>1, <2>1, <2>2, <2>3, FetchTurned
<1> QED BY <1>3, <1>4, <1>5

\* The pause is over, or the run is.
LEMMA PauseDone ==
  ASSUME IInv, NEW w \in Workers, Pause(w)
  PROVE  IInv'
<1>1. /\ worker[w].at = "pause"
      /\ UNCHANGED <<feedVars, interrupt, runErr, poolVars, counts, sinkVars, bodies>>
  BY DEF Pause
<1>2. /\ worker[w] \in Worker /\ worker[w].tries <= Repeat /\ worker[w].error = None /\ None \notin Errors
  BY <1>1, ListFacts DEF IInv, TypeOK, Trying
<1>3. CASE Step(w, [worker[w] EXCEPT !.at = "do"])
  <2> DEFINE v == [worker[w] EXCEPT !.at = "do"]
  <2>1. /\ v \in Worker /\ v.at = "do" /\ v.error = None /\ v.tries = worker[w].tries
        /\ v.job = worker[w].job /\ v.client = worker[w].client
    BY <1>2 DEF Worker, Places
  <2>2. worker' = [worker EXCEPT ![w] = v]
    BY <1>3 DEF Step
  <2> HIDE DEF v
  <2> QED BY <1>1, <1>2, <2>1, <2>2, FetchTurned
<1>4. CASE Step(w, [worker[w] EXCEPT !.at = "finish", !.error = "cancelled"])
  <2> DEFINE v == [[worker[w] EXCEPT !.at = "finish"] EXCEPT !.error = "cancelled"]
  <2>1. /\ v \in Worker /\ v.at = "finish" /\ v.error = "cancelled" /\ v.error # None
        /\ v.job = worker[w].job /\ v.client = worker[w].client
    BY <1>2 DEF Worker, Places, Errors
  <2>2. worker' = [worker EXCEPT ![w] = v]
    BY <1>2, <1>4 DEF Step
  <2> HIDE DEF v
  <2> QED BY <1>1, <2>1, <2>2, FetchTurned
<1> QED BY <1>3, <1>4 DEF Pause

\* The body is in the file of the job, which is no other job's, or is not.
LEMMA SaveDone ==
  ASSUME IInv, NEW w \in Workers, Save(w)
  PROVE  IInv'
<1>1. /\ worker[w].at = "save" /\ Busy(w)
      /\ UNCHANGED <<feedVars, interrupt, runErr, poolVars, counts, sinkVars>>
  BY DEF Save, Busy
<1>2. /\ worker[w] \in Worker /\ worker[w].job \in JobNo /\ worker[w].error = None /\ None \notin Errors
      /\ bodies \in [{BodyFile(i) : i \in JobNo} -> JobNo \cup {None}]
  BY <1>1, BusyFacts, ListFacts DEF IInv, TypeOK, Trying
<1>3. CASE /\ bodies' = [bodies EXCEPT ![BodyFile(worker[w].job)] = worker[w].job]
           /\ Step(w, [worker[w] EXCEPT !.at = "finish"])
  <2> DEFINE v == [worker[w] EXCEPT !.at = "finish"]
  <2>1. /\ v \in Worker /\ v.at = "finish" /\ v.error = None
        /\ v.job = worker[w].job /\ v.client = worker[w].client
    BY <1>2 DEF Worker, Places
  <2>2. worker' = [worker EXCEPT ![w] = v]
    BY <1>3 DEF Step
  <2> HIDE DEF v
  <2>3. \A x \in Workers : worker'[x] = IF x = w THEN v ELSE worker[x]
    BY <2>2 DEF IInv, TypeOK
  <2>4. /\ bodies' \in [{BodyFile(i) : i \in JobNo} -> JobNo \cup {None}]
        /\ \A n \in JobNo : bodies'[BodyFile(n)] = IF n = worker[w].job THEN n ELSE bodies[BodyFile(n)]
    BY <1>2, <1>3, FilesApart
  <2>5. ASSUME NEW x \in Workers, worker'[x].at \in {"finish", "record"}, ~Failed(worker'[x])
        PROVE  bodies'[BodyFile(worker'[x].job)] = worker'[x].job
    <3>1. CASE x = w
      BY <1>2, <2>1, <2>3, <2>4, <3>1
    <3>2. CASE x # w
      <4>1. worker'[x] = worker[x] /\ Busy(x)
        BY <2>3, <2>5, <3>2 DEF Busy
      <4>2. worker[x].job \in JobNo /\ bodies[BodyFile(worker[x].job)] = worker[x].job
        BY <2>5, <4>1, BusyFacts DEF IInv, Stored
      <4> QED BY <2>4, <4>1, <4>2
    <3> QED BY <3>1, <3>2
  <2>6. ASSUME NEW j \in 1..Len(records), ~Failed(records[j])
        PROVE  bodies'[BodyFile(records[j].job)] = records[j].job
    <3>1. records[j] \in Entry
      BY ElementOfSeq DEF IInv, TypeOK
    <3>2. bodies[BodyFile(records[j].job)] = records[j].job /\ records[j].job \in JobNo
      BY <2>6, <3>1 DEF IInv, Stored, Entry
    <3> QED BY <2>4, <3>2
  <2>7. Stored'
    <3>1. records' = records
      BY <1>1 DEF sinkVars
    <3> QED BY <2>5, <2>6, <3>1 DEF Stored, Failed, BodyFile
  <2>8. UNCHANGED <<records, clients, poolLock>>
    BY <1>1 DEF sinkVars, poolVars
  <2>9. Pooled'
    BY <1>1, <2>1, <2>2, <2>8, PoolKept
  <2>10. poolLock' \in Workers \cup {None} /\ clients' \in [Proxies -> JobNo \cup {None}]
    BY <2>8 DEF IInv, TypeOK
  <2>11. ~(v.error = "fetch")
    BY <1>2, <2>1 DEF Errors
  <2> QED BY <1>1, <2>1, <2>2, <2>4, <2>7, <2>9, <2>10, <2>11, Turned
<1>4. CASE Step(w, [worker[w] EXCEPT !.at = "finish", !.error = "file"]) /\ UNCHANGED bodies
  <2> DEFINE v == [[worker[w] EXCEPT !.at = "finish"] EXCEPT !.error = "file"]
  <2>1. /\ v \in Worker /\ v.at = "finish" /\ v.error = "file" /\ v.error # None
        /\ v.job = worker[w].job /\ v.client = worker[w].client
    BY <1>2 DEF Worker, Places, Errors
  <2>2. worker' = [worker EXCEPT ![w] = v]
    BY <1>2, <1>4 DEF Step
  <2> HIDE DEF v
  <2> QED BY <1>1, <1>4, <2>1, <2>2, FetchTurned
<1> QED BY <1>3, <1>4 DEF Save

\* The steps of the feeder that hand nothing out, and the interrupt.
LEMMA FeederDone ==
  ASSUME IInv, CloseQueue \/ Return \/ Interrupt \/ UNCHANGED vars
  PROVE  IInv'
<1>1. UNCHANGED <<handed, runErr, worker, poolLock, clients, counts, records, output, failures, bodies>>
  BY DEF CloseQueue, Return, Interrupt, vars, feedVars, poolVars, sinkVars
<1>2. feeder' \in {"feeding", "closed", "returned"} /\ interrupt' \in BOOLEAN
  BY DEF CloseQueue, Return, Interrupt, vars, feedVars, IInv, TypeOK
<1>3. TypeOK'
  <2>1. {BodyFile(i) : i \in JobNo}' = {BodyFile(i) : i \in JobNo}
    BY DEF BodyFile, JobNo
  <2> QED BY <1>1, <1>2, <2>1 DEF IInv, TypeOK, Worker, Entry, JobNo, Errors, Places, Proxies
<1>4. \A x \in Workers : Busy(x)' = Busy(x) /\ Proxy(x)' = Proxy(x)
  BY <1>1 DEF Busy, Proxy
<1>5. Trying' /\ Apart'
  BY <1>1, <1>4 DEF IInv, Trying, Apart
<1>6. Pooled'
  BY <1>1, <1>4 DEF IInv, Pooled
<1>7. Stored'
  BY <1>1 DEF IInv, Stored, Failed, BodyFile
<1>8. Reported' /\ EveryTryTaken'
  BY <1>1 DEF IInv, Reported, EveryTryTaken, Failed
<1>9. CountsAgree'
  BY <1>1 DEF IInv, CountsAgree, Busy, Failed
<1>10. Ended'
  BY <1>1 DEF CloseQueue, Return, Interrupt, vars, feedVars, IInv, Ended, Cancelled
<1> QED BY <1>3, <1>5, <1>6, <1>7, <1>8, <1>9, <1>10 DEF IInv

\* A worker finds the queue closed.
LEMMA GoneDone ==
  ASSUME IInv, NEW w \in Workers, WorkerGone(w)
  PROVE  IInv'
<1> DEFINE v == [Idle EXCEPT !.at = "gone"]
<1>1. /\ worker[w].at = "idle" /\ worker' = [worker EXCEPT ![w] = v]
      /\ UNCHANGED <<handed, feeder, interrupt, runErr, poolLock, clients, counts, records, output,
                     failures, bodies>>
  BY DEF WorkerGone, Step, feedVars, poolVars, sinkVars
<1>2. v \in Worker /\ v.at = "gone"
  BY DEF Idle, Worker, Places
<1> HIDE DEF v
<1>3. /\ worker' \in [Workers -> Worker]
      /\ \A x \in Workers : worker'[x] = IF x = w THEN v ELSE worker[x]
  BY <1>1, <1>2 DEF IInv, TypeOK
<1>4. \A x \in Workers : Busy(x)' = Busy(x) /\ (Busy(x) => worker'[x] = worker[x] /\ Proxy(x)' = Proxy(x))
  BY <1>1, <1>2, <1>3 DEF Busy, Proxy
<1>5. TypeOK'
  <2>1. {BodyFile(i) : i \in JobNo}' = {BodyFile(i) : i \in JobNo}
    BY DEF BodyFile, JobNo
  <2> QED BY <1>1, <1>3, <2>1 DEF IInv, TypeOK, Worker, Entry, JobNo, Errors, Places, Proxies
<1>6. Trying'
  BY <1>1, <1>2, <1>3, <1>4 DEF IInv, Trying
<1>7. Apart'
  BY <1>1, <1>4 DEF IInv, Apart
<1>8. Pooled'
  <2>1. \A x \in Workers : worker'[x].at = "build" => Busy(x) /\ worker[x].at = "build"
    BY <1>2, <1>3, <1>4 DEF Busy
  <2>2. \A x \in Workers : worker'[x].at = "build" => poolLock = x /\ clients[Proxy(x)'] = None
    BY <1>4, <2>1 DEF IInv, Pooled
  <2>3. \A x \in Workers : Busy(x)' /\ worker'[x].client # None => clients[Proxy(x)'] = worker'[x].client
    BY <1>4 DEF IInv, Pooled
  <2>4. \A i \in 1..Len(records) :
          records[i].client # None => clients[Jobs[records[i].job].proxy] = records[i].client
    BY DEF IInv, Pooled
  <2> QED BY <1>1, <2>2, <2>3, <2>4 DEF Pooled
<1>9. Stored'
  BY <1>1, <1>2, FilesKept
<1>10. Reported' /\ EveryTryTaken'
  BY <1>1 DEF IInv, Reported, EveryTryTaken, Failed
<1>11. CountsAgree'
  <2>1. Flying' = Flying /\ AtRecord' = AtRecord /\ Losing' = Losing
    BY <1>1, <1>2, <1>3, <1>4 DEF Flying, AtRecord, Losing, Failed
  <2>2. CountsAgree' <=> /\ counts'.inFlight = Cardinality(Flying')
                         /\ counts'.done = Len(records') + Cardinality(AtRecord')
                         /\ counts'.failed = failures' + Cardinality(Losing')
    BY DEF CountsAgree, Flying, AtRecord, Losing
  <2> QED BY <1>1, <2>1, <2>2, FewWorkers DEF IInv
<1>12. Ended'
  BY <1>1, <1>2, <1>3 DEF IInv, Ended, Cancelled
<1> QED BY <1>5, <1>6, <1>7, <1>8, <1>9, <1>10, <1>11, <1>12 DEF IInv

\* The next job of the list goes to a worker that has none.
LEMMA HandDone ==
  ASSUME IInv, NEW w \in Workers, Hand(w)
  PROVE  IInv'
<1> DEFINE v == [at |-> "get", job |-> handed + 1, tries |-> 0, client |-> None, error |-> None]
<1>1. /\ worker[w].at = "idle" /\ worker' = [worker EXCEPT ![w] = v] /\ handed' = handed + 1
      /\ feeder = "feeding" /\ handed < Len(Jobs)
      /\ UNCHANGED <<feeder, interrupt, runErr, poolLock, clients, records, output, failures, bodies>>
      /\ counts' = [counts EXCEPT !.inFlight = @ + 1]
  <2>1. [Idle EXCEPT !.at = "get", !.job = handed + 1] = v
    <3> DEFINE u == [at |-> "get", job |-> None, tries |-> 0, client |-> None, error |-> None]
    <3>1. [Idle EXCEPT !.at = "get"] = u
      BY DEF Idle
    <3>2. [u EXCEPT !.job = handed + 1] = v
      OBVIOUS
    <3>3. [Idle EXCEPT !.at = "get", !.job = handed + 1] = [[Idle EXCEPT !.at = "get"] EXCEPT !.job = handed + 1]
      BY Zenon
    <3> HIDE DEF u, v
    <3> QED BY <3>1, <3>2, <3>3, Zenon
  <2>2. handed' = handed + 1 /\ worker' = [worker EXCEPT ![w] = [Idle EXCEPT !.at = "get", !.job = handed']]
    BY DEF Hand
  <2>3. [Idle EXCEPT !.at = "get", !.job = handed'] = [Idle EXCEPT !.at = "get", !.job = handed + 1]
    BY <2>2
  <2>4. worker' = [worker EXCEPT ![w] = v]
    BY <2>1, <2>2, <2>3, Zenon
  <2> HIDE DEF v
  <2> QED BY <2>2, <2>4 DEF Hand, poolVars, sinkVars
<1>2. handed \in Nat /\ Len(Jobs) \in Nat /\ handed + 1 \in JobNo /\ None \notin JobNo
  BY <1>1, ListFacts DEF IInv, TypeOK, JobNo
<1>3. /\ v \in Worker /\ v.at = "get" /\ v.job = handed + 1 /\ v.tries = 0 /\ v.client = None
      /\ v.error = None
  BY <1>2 DEF Worker, Places
<1> HIDE DEF v
<1>4. /\ worker' \in [Workers -> Worker]
      /\ \A x \in Workers : worker'[x] = IF x = w THEN v ELSE worker[x]
  BY <1>1, <1>3 DEF IInv, TypeOK
<1>5. /\ ~Busy(w) /\ Busy(w)' /\ \A x \in Workers : x # w => Busy(x)' = Busy(x) /\ Proxy(x)' = Proxy(x)
  BY <1>1, <1>3, <1>4 DEF Busy, Proxy
<1>6. /\ counts.inFlight \in Int /\ counts' \in [done : Int, failed : Int, inFlight : Int]
      /\ counts'.inFlight = counts.inFlight + 1
      /\ counts'.done = counts.done /\ counts'.failed = counts.failed
  BY <1>1 DEF IInv, TypeOK
<1>7. TypeOK'
  <2>1. {BodyFile(i) : i \in JobNo}' = {BodyFile(i) : i \in JobNo}
    BY DEF BodyFile, JobNo
  <2>2. handed' \in 0..Len(Jobs)
    BY <1>1, <1>2
  <2> QED BY <1>1, <1>4, <1>6, <2>1, <2>2 DEF IInv, TypeOK, Worker, Entry, JobNo, Errors, Places, Proxies
<1>8. Trying'
  <2>1. \A n \in 1..handed : n \in 1..handed'
    BY <1>1, <1>2
  <2>2. v.job \in 1..handed'
    BY <1>1, <1>2, <1>3
  <2> QED BY <1>3, <1>4, <1>5, <2>1, <2>2 DEF IInv, Trying
<1>9. Apart'
  <2>1. \A n \in 1..handed : n # handed + 1
    BY <1>2
  <2>2. \A n \in 1..handed' : n \in 1..handed \/ n = handed + 1
    BY <1>1, <1>2
  <2>3. \A x \in Workers : Busy(x) => worker[x].job # handed + 1
    BY <2>1, BusyFacts
  <2>4. \A i \in 1..Len(records) : records[i].job # handed + 1
    BY <2>1 DEF IInv, Apart
  <2>5. \A x, y \in Workers : Busy(x)' /\ Busy(y)' /\ worker'[x].job = worker'[y].job => x = y
    BY <1>3, <1>4, <1>5, <2>3 DEF IInv, Apart
  <2>6. \A x \in Workers : Busy(x)' => \A i \in 1..Len(records) : records[i].job # worker'[x].job
    BY <1>3, <1>4, <1>5, <2>4 DEF IInv, Apart
  <2>7. ASSUME NEW n \in 1..handed'
        PROVE  \/ \E x \in Workers : Busy(x)' /\ worker'[x].job = n
               \/ \E i \in 1..Len(records) : records[i].job = n
    <3>1. CASE n = handed + 1
      BY <1>3, <1>4, <1>5, <3>1
    <3>2. CASE n \in 1..handed
      <4>1. CASE \E i \in 1..Len(records) : records[i].job = n
        BY <4>1
      <4>2. CASE \E x \in Workers : Busy(x) /\ worker[x].job = n
        BY <1>4, <1>5, <4>2
      <4> QED BY <3>2, <4>1, <4>2 DEF IInv, Apart
    <3> QED BY <2>2, <3>1, <3>2
  <2>8. \A i \in 1..Len(records) : records[i].job \in 1..handed'
    BY <1>1, <1>2 DEF IInv, Apart
  <2>9. \A i, j \in 1..Len(records) : records[i].job = records[j].job => i = j
    BY DEF IInv, Apart
  <2> QED BY <1>1, <2>5, <2>6, <2>7, <2>8, <2>9 DEF Apart
<1>10. Pooled'
  BY <1>1, <1>3, <1>4, <1>5 DEF IInv, Pooled
<1>11. Stored'
  BY <1>1, <1>3, FilesKept
<1>12. Reported' /\ EveryTryTaken'
  BY <1>1 DEF IInv, Reported, EveryTryTaken, Failed
<1>13. CountsAgree'
  <2>1. Flying' = Flying \cup {w} /\ w \notin Flying /\ AtRecord' = AtRecord /\ Losing' = Losing
    BY <1>1, <1>3, <1>4, <1>5 DEF Flying, AtRecord, Losing, Failed
  <2>2. CountsAgree' <=> /\ counts'.inFlight = Cardinality(Flying')
                         /\ counts'.done = Len(records') + Cardinality(AtRecord')
                         /\ counts'.failed = failures' + Cardinality(Losing')
    BY DEF CountsAgree, Flying, AtRecord, Losing
  <2>3. Cardinality(Flying') = Cardinality(Flying) + 1
    BY <2>1, FewWorkers, FS_AddElement
  <2> QED BY <1>1, <1>6, <2>1, <2>2, <2>3, FewWorkers DEF IInv
<1>14. Ended'
  BY <1>1, <1>3, <1>4 DEF IInv, Ended, Cancelled
<1> QED BY <1>7, <1>8, <1>9, <1>10, <1>11, <1>12, <1>13, <1>14 DEF IInv

\* The status line takes note of a finished job before the records do.
LEMMA FinishDone ==
  ASSUME IInv, NEW w \in Workers, Finish(w)
  PROVE  IInv'
<1> DEFINE v == [worker[w] EXCEPT !.at = "record"]
<1>1. /\ worker[w].at = "finish" /\ Busy(w) /\ worker' = [worker EXCEPT ![w] = v]
      /\ UNCHANGED <<handed, feeder, interrupt, runErr, poolLock, clients, records, output, failures, bodies>>
  BY DEF Finish, Step, Busy, feedVars, poolVars, sinkVars
<1>2. worker[w] \in Worker
  BY <1>1, BusyFacts
<1>3. /\ v \in Worker /\ v.at = "record" /\ v.job = worker[w].job /\ v.tries = worker[w].tries
      /\ v.client = worker[w].client /\ v.error = worker[w].error
  BY <1>2 DEF Worker, Places
<1> HIDE DEF v
<1>4. /\ worker' \in [Workers -> Worker]
      /\ \A x \in Workers : worker'[x] = IF x = w THEN v ELSE worker[x]
  BY <1>1, <1>3 DEF IInv, TypeOK
<1>5. \A x \in Workers : Busy(x)' = Busy(x) /\ worker'[x].job = worker[x].job
  BY <1>1, <1>3, <1>4 DEF Busy
<1>6. /\ counts.done \in Int /\ counts.failed \in Int /\ counts.inFlight \in Int
      /\ counts'.done = counts.done + 1 /\ counts'.inFlight = counts.inFlight - 1
      /\ counts'.failed = counts.failed + (IF Failed(worker[w]) THEN 1 ELSE 0)
      /\ counts' \in [done : Int, failed : Int, inFlight : Int]
  <2>1. counts.done \in Int /\ counts.failed \in Int /\ counts.inFlight \in Int
    BY DEF IInv, TypeOK
  <2> DEFINE f == IF Failed(worker[w]) THEN 1 ELSE 0
  <2>2. f \in Int
    OBVIOUS
  <2>3. counts' = [done |-> counts.done + 1, failed |-> counts.failed + f, inFlight |-> counts.inFlight - 1]
    BY DEF Finish
  <2> HIDE DEF f
  <2>4. counts' \in [done : Int, failed : Int, inFlight : Int]
        /\ counts'.done = counts.done + 1 /\ counts'.inFlight = counts.inFlight - 1
        /\ counts'.failed = counts.failed + f
    BY <2>1, <2>2, <2>3
  <2> QED BY <2>1, <2>4 DEF f
<1>7. TypeOK'
  <2>1. {BodyFile(i) : i \in JobNo}' = {BodyFile(i) : i \in JobNo}
    BY DEF BodyFile, JobNo
  <2> QED BY <1>1, <1>4, <1>6, <2>1 DEF IInv, TypeOK, Worker, Entry, JobNo, Errors, Places, Proxies
<1>8. Trying'
  BY <1>1, <1>3, <1>4, <1>5 DEF IInv, Trying
<1>9. Apart'
  BY <1>1, <1>5 DEF IInv, Apart
<1>10. Pooled'
  BY <1>1, <1>3, PoolKept
<1>11. Stored'
  BY <1>1, <1>3, FilesKept DEF Failed
<1>12. Reported' /\ EveryTryTaken'
  BY <1>1 DEF IInv, Reported, EveryTryTaken, Failed
<1>13. CountsAgree'
  <2>1. /\ Flying' = Flying \ {w} /\ w \in Flying
        /\ AtRecord' = AtRecord \cup {w} /\ w \notin AtRecord
        /\ w \notin Losing /\ Losing' = IF Failed(worker[w]) THEN Losing \cup {w} ELSE Losing
    BY <1>1, <1>3, <1>4, <1>5 DEF Flying, AtRecord, Losing, Failed
  <2>2. CountsAgree' <=> /\ counts'.inFlight = Cardinality(Flying')
                         /\ counts'.done = Len(records') + Cardinality(AtRecord')
                         /\ counts'.failed = failures' + Cardinality(Losing')
    BY DEF CountsAgree, Flying, AtRecord, Losing
  <2>3. /\ Cardinality(Flying') = Cardinality(Flying) - 1
        /\ Cardinality(AtRecord') = Cardinality(AtRecord) + 1
    BY <2>1, FewWorkers, FS_AddElement, FS_RemoveElement
  <2>4. Cardinality(Losing') = Cardinality(Losing) + (IF Failed(worker[w]) THEN 1 ELSE 0)
    <3>1. Cardinality(Losing) \in Nat
      BY FewWorkers, FS_CardinalityType
    <3>2. Cardinality(Losing \cup {w}) = Cardinality(Losing) + 1
      BY <2>1, FewWorkers, FS_AddElement
    <3> QED BY <2>1, <3>1, <3>2
  <2>5. /\ Cardinality(Losing) \in Nat /\ Cardinality(AtRecord) \in Nat /\ Cardinality(Flying) \in Nat
        /\ Len(records) \in Nat /\ failures \in Nat
    BY FewWorkers, FS_CardinalityType, LenProperties DEF IInv, TypeOK
  <2>6. /\ counts.inFlight = Cardinality(Flying)
        /\ counts.done = Len(records) + Cardinality(AtRecord)
        /\ counts.failed = failures + Cardinality(Losing)
    BY FewWorkers DEF IInv
  <2> DEFINE f == IF Failed(worker[w]) THEN 1 ELSE 0
  <2>7. f \in Nat /\ counts'.failed = counts.failed + f /\ Cardinality(Losing') = Cardinality(Losing) + f
    BY <1>6, <2>4
  <2> HIDE DEF f
  <2>8. counts'.failed = failures + Cardinality(Losing')
    BY <2>5, <2>6, <2>7
  <2>9. counts'.done = Len(records) + Cardinality(AtRecord') /\ counts'.inFlight = Cardinality(Flying')
    BY <1>6, <2>3, <2>5, <2>6
  <2> QED BY <1>1, <2>2, <2>8, <2>9
<1>14. Ended'
  BY <1>1, <1>3, <1>4 DEF IInv, Ended, Cancelled
<1> QED BY <1>7, <1>8, <1>9, <1>10, <1>11, <1>12, <1>13, <1>14 DEF IInv

\* One more record: what the counts and the failures count grows with it.
LEMMA RecordedCounts ==
  ASSUME IInv, NEW w \in Workers, worker[w].at = "record",
         NEW e \in Entry, e.error = worker[w].error, records' = Append(records, e),
         failures' = IF Failed(worker[w]) THEN failures + 1 ELSE failures,
         worker' = [worker EXCEPT ![w] = Idle], counts' = counts
  PROVE  /\ CountsAgree'
         /\ failures' = Cardinality({i \in 1..Len(records') : Failed(records'[i])})
<1>1. Idle \in Worker /\ Idle.at = "idle"
  BY DEF Idle, Worker, Places
<1>2. /\ \A x \in Workers : worker'[x] = IF x = w THEN Idle ELSE worker[x]
      /\ records \in Seq(Entry) /\ failures \in Nat
  BY DEF IInv, TypeOK
<1>3. /\ Len(records) \in Nat /\ Len(records') = Len(records) + 1
      /\ \A i \in 1..Len(records) : records'[i] = records[i]
      /\ records'[Len(records) + 1] = e
  BY <1>2, AppendProperties, LenProperties
<1>4. CountsAgree'
  <2>1. /\ Flying' = Flying /\ AtRecord' = AtRecord \ {w} /\ w \in AtRecord
        /\ Losing' = Losing \ {w} /\ (w \in Losing <=> Failed(worker[w]))
    BY <1>1, <1>2 DEF Flying, AtRecord, Losing, Failed, Busy
  <2>2. CountsAgree' <=> /\ counts'.inFlight = Cardinality(Flying')
                         /\ counts'.done = Len(records') + Cardinality(AtRecord')
                         /\ counts'.failed = failures' + Cardinality(Losing')
    BY DEF CountsAgree, Flying, AtRecord, Losing
  <2>3. /\ Cardinality(AtRecord') = Cardinality(AtRecord) - 1
        /\ Cardinality(Losing') = IF Failed(worker[w]) THEN Cardinality(Losing) - 1 ELSE Cardinality(Losing)
    BY <2>1, FewWorkers, FS_RemoveElement
  <2>4. /\ Cardinality(Losing) \in Nat /\ Cardinality(AtRecord) \in Nat
    BY FewWorkers, FS_CardinalityType
  <2>5. /\ counts.inFlight = Cardinality(Flying)
        /\ counts.done = Len(records) + Cardinality(AtRecord)
        /\ counts.failed = failures + Cardinality(Losing)
    BY FewWorkers DEF IInv
  <2>6. counts'.done = Len(records') + Cardinality(AtRecord') /\ counts'.inFlight = Cardinality(Flying')
    BY <1>3, <2>1, <2>3, <2>4, <2>5
  <2>7. counts'.failed = failures' + Cardinality(Losing')
    <3>1. CASE Failed(worker[w])
      BY <1>2, <2>3, <2>4, <2>5, <3>1
    <3>2. CASE ~Failed(worker[w])
      BY <1>2, <2>3, <2>4, <2>5, <3>2
    <3> QED BY <3>1, <3>2
  <2> QED BY <2>2, <2>6, <2>7
<1>5. failures' = Cardinality({i \in 1..Len(records') : Failed(records'[i])})
  <2> DEFINE S == {i \in 1..Len(records) : Failed(records[i])}
             T == {i \in 1..Len(records') : Failed(records'[i])}
             m == Len(records) + 1
  <2>1. T = IF Failed(worker[w]) THEN S \cup {m} ELSE S
    <3>1. \A i \in 1..Len(records') : i \in 1..Len(records) \/ i = m
      BY <1>3
    <3>2. \A i \in 1..Len(records) : i \in 1..Len(records')
      BY <1>3
    <3>3. m \in 1..Len(records') /\ records'[m] = e
      BY <1>3
    <3>4. Failed(e) <=> Failed(worker[w])
      BY DEF Failed
    <3> HIDE DEF m
    <3> QED BY <1>3, <3>1, <3>2, <3>3, <3>4 DEF Failed
  <2>2. m \notin S
    BY <1>3
  <2>3. IsFiniteSet(S)
    <3>1. IsFiniteSet(1..Len(records))
      BY <1>3, FS_Interval
    <3>2. S \in SUBSET (1..Len(records))
      OBVIOUS
    <3> QED BY <3>1, <3>2, FS_Subset
  <2>4. failures = Cardinality(S)
    BY DEF IInv, Reported
  <2> HIDE DEF S, T, m
  <2>5. failures' = Cardinality(T)
    <3>1. Cardinality(S \cup {m}) = Cardinality(S) + 1
      BY <2>2, <2>3, FS_AddElement
    <3> QED BY <2>1, <2>4, <3>1
  <2> QED BY <2>5 DEF T
<1> QED BY <1>4, <1>5

\* The result joins the records, and the output if that still works.
LEMMA RecordDone ==
  ASSUME IInv, NEW w \in Workers, Record(w)
  PROVE  IInv'
<1> DEFINE r == worker[w]
           e == [job |-> r.job, tries |-> r.tries, client |-> r.client, error |-> r.error]
<1>1. /\ r.at = "record" /\ worker' = [worker EXCEPT ![w] = Idle] /\ records' = Append(records, e)
      /\ UNCHANGED <<handed, feeder, interrupt, poolLock, clients, counts, bodies>>
      /\ failures' = IF Failed(r) THEN failures + 1 ELSE failures
      /\ \/ ~runErr /\ output' = Append(output, r.job) /\ UNCHANGED runErr
         \/ ~runErr /\ runErr' = TRUE /\ UNCHANGED output
         \/ runErr /\ UNCHANGED <<output, runErr>>
  BY DEF Record, Step, feedVars, poolVars
<1>2. Busy(w) /\ r \in Worker /\ r.job \in JobNo /\ r.job \in 1..handed /\ Proxy(w) \in Proxies
  BY <1>1, BusyFacts DEF Busy
<1>3. e \in Entry /\ e.job = r.job /\ e.tries = r.tries /\ e.client = r.client /\ e.error = r.error
  BY <1>2 DEF Entry, Worker
<1> HIDE DEF e
<1>4. Idle \in Worker /\ Idle.at = "idle"
  BY DEF Idle, Worker, Places
<1>5. /\ worker' \in [Workers -> Worker]
      /\ \A x \in Workers : worker'[x] = IF x = w THEN Idle ELSE worker[x]
      /\ \A x \in Workers : Busy(x)' <=> Busy(x) /\ x # w
      /\ \A x \in Workers : Busy(x)' => worker'[x] = worker[x] /\ Proxy(x)' = Proxy(x)
  BY <1>1, <1>2, <1>4 DEF IInv, TypeOK, Busy, Proxy
<1>6. /\ Len(records) \in Nat /\ records' \in Seq(Entry) /\ Len(records') = Len(records) + 1
      /\ \A i \in 1..Len(records) : records'[i] = records[i]
      /\ records'[Len(records) + 1] = e
  BY <1>1, <1>3, AppendProperties, LenProperties DEF IInv, TypeOK
<1> DEFINE m == Len(records) + 1
<1>7. /\ \A i \in 1..Len(records') : i \in 1..Len(records) \/ i = m
      /\ \A i \in 1..Len(records) : i \in 1..Len(records')
      /\ m \in 1..Len(records')
  BY <1>6
<1>8. records'[m] = e
  BY <1>6
<1> HIDE DEF m
<1>9. CountsAgree' /\ failures' = Cardinality({i \in 1..Len(records') : Failed(records'[i])})
  <2>1. e.error = worker[w].error
    BY <1>3
  <2>2. records' = Append(records, e)
    BY <1>1
  <2> QED BY <1>1, <1>3, <2>1, <2>2, RecordedCounts
<1>10. failures' \in Nat
  BY <1>1 DEF IInv, TypeOK
<1>11. /\ runErr' \in BOOLEAN /\ (runErr => runErr') /\ output \in Seq(JobNo) /\ Len(output) \in Nat
       /\ \/ ~runErr /\ output' = Append(output, r.job)
          \/ runErr' /\ output' = output
  BY <1>1, LenProperties DEF IInv, TypeOK
<1>12. output' \in Seq(JobNo) /\ Reported'
  <2>1. CASE ~runErr /\ output' = Append(output, r.job)
    <3>1. Len(output) = Len(records)
      BY <2>1 DEF IInv, Reported
    <3>2. /\ output' \in Seq(JobNo) /\ Len(output') = Len(output) + 1
          /\ \A i \in 1..Len(output) : output'[i] = output[i]
          /\ output'[Len(output) + 1] = r.job
      BY <1>2, <1>11, <2>1, AppendProperties
    <3>3. output'[m] = r.job
      BY <3>1, <3>2 DEF m
    <3>4. \A i \in 1..Len(records) : output'[i] = records[i].job
      BY <3>1, <3>2 DEF IInv, Reported
    <3>5. Len(output') = Len(records')
      BY <1>6, <3>1, <3>2
    <3>6. \A i \in 1..Len(output') : output'[i] = records'[i].job
      BY <1>3, <1>6, <1>7, <1>8, <3>3, <3>4, <3>5
    <3>7. Len(output') <= Len(records')
      BY <1>6, <3>5
    <3> QED BY <1>9, <3>2, <3>5, <3>6, <3>7 DEF Reported
  <2>2. CASE runErr' /\ output' = output
    <3>1. Len(output) <= Len(records) /\ \A i \in 1..Len(output) : output[i] = records[i].job
      BY DEF IInv, Reported
    <3>2. Len(output) <= Len(records')
      BY <1>6, <1>11, <3>1
    <3>3. \A i \in 1..Len(output) : i \in 1..Len(records)
      BY <1>6, <1>11, <3>1
    <3>4. \A i \in 1..Len(output) : output[i] = records'[i].job
      BY <1>6, <3>1, <3>3
    <3> QED BY <1>9, <1>11, <2>2, <3>2, <3>4 DEF Reported
  <2> QED BY <1>11, <2>1, <2>2
<1>13. TypeOK'
  <2>1. {BodyFile(i) : i \in JobNo}' = {BodyFile(i) : i \in JobNo}
    BY DEF BodyFile, JobNo
  <2> QED BY <1>1, <1>5, <1>6, <1>10, <1>11, <1>12, <2>1
          DEF IInv, TypeOK, Worker, Entry, JobNo, Errors, Places, Proxies
<1>14. Trying'
  BY <1>1, <1>4, <1>5 DEF IInv, Trying
<1>15. Apart'
  <2>1. \A x, y \in Workers : Busy(x)' /\ Busy(y)' /\ worker'[x].job = worker'[y].job => x = y
    BY <1>5 DEF IInv, Apart
  <2>2. \A i \in 1..Len(records) : records[i].job # r.job
    BY <1>2 DEF IInv, Apart
  <2>3. \A i, j \in 1..Len(records') : records'[i].job = records'[j].job => i = j
    BY <1>3, <1>6, <1>7, <1>8, <2>2 DEF IInv, Apart
  <2>4. \A x \in Workers : Busy(x)' => \A i \in 1..Len(records') : records'[i].job # worker'[x].job
    BY <1>2, <1>3, <1>5, <1>6, <1>7, <1>8 DEF IInv, Apart
  <2>5. \A n \in 1..handed : \/ \E x \in Workers : Busy(x)' /\ worker'[x].job = n
                             \/ \E i \in 1..Len(records') : records'[i].job = n
    <3> SUFFICES ASSUME NEW n \in 1..handed
                 PROVE  \/ \E x \in Workers : Busy(x)' /\ worker'[x].job = n
                        \/ \E i \in 1..Len(records') : records'[i].job = n
      OBVIOUS
    <3>1. CASE \E x \in Workers : Busy(x) /\ worker[x].job = n
      <4>1. PICK x \in Workers : Busy(x) /\ worker[x].job = n
        BY <3>1
      <4>2. CASE x = w
        BY <1>3, <1>7, <1>8, <4>1, <4>2
      <4>3. CASE x # w
        BY <1>5, <4>1, <4>3
      <4> QED BY <4>2, <4>3
    <3>2. CASE \E i \in 1..Len(records) : records[i].job = n
      BY <1>6, <1>7, <3>2
    <3> QED BY <3>1, <3>2 DEF IInv, Apart
  <2>6. \A i \in 1..Len(records') : records'[i].job \in 1..handed
    BY <1>2, <1>3, <1>6, <1>7, <1>8 DEF IInv, Apart
  <2> QED BY <1>1, <2>1, <2>3, <2>4, <2>5, <2>6 DEF Apart
<1>16. Pooled'
  <2>1. \A x \in Workers : worker'[x].at = "build" => poolLock = x /\ clients[Proxy(x)'] = None
    <3>1. \A x \in Workers : worker'[x].at = "build" => Busy(x)' /\ worker[x].at = "build"
      BY <1>4, <1>5 DEF Busy
    <3> QED BY <1>5, <3>1 DEF IInv, Pooled
  <2>2. \A x \in Workers : Busy(x)' /\ worker'[x].client # None => clients[Proxy(x)'] = worker'[x].client
    BY <1>5 DEF IInv, Pooled
  <2>3. \A i \in 1..Len(records') :
          records'[i].client # None => clients[Jobs[records'[i].job].proxy] = records'[i].client
    <3>1. r.client # None => clients[Jobs[r.job].proxy] = r.client
      BY <1>2 DEF IInv, Pooled, Proxy
    <3>2. \A i \in 1..Len(records) :
            records[i].client # None => clients[Jobs[records[i].job].proxy] = records[i].client
      BY DEF IInv, Pooled
    <3> QED BY <1>3, <1>6, <1>7, <1>8, <3>1, <3>2
  <2> QED BY <1>1, <2>1, <2>2, <2>3 DEF Pooled
<1>17. Stored'
  <2>1. \A x \in Workers : worker'[x].at \in {"finish", "record"} => x # w /\ worker'[x] = worker[x]
    BY <1>4, <1>5
  <2>2. \A x \in Workers : worker'[x].at \in {"finish", "record"} /\ worker'[x].error = None =>
          bodies[BodyFile(worker'[x].job)] = worker'[x].job
    BY <2>1 DEF IInv, Stored, Failed
  <2>3. r.error = None => bodies[BodyFile(r.job)] = r.job
    BY <1>1 DEF IInv, Stored, Failed
  <2>4. \A i \in 1..Len(records') : records'[i].error = None =>
          bodies[BodyFile(records'[i].job)] = records'[i].job
    <3>1. \A i \in 1..Len(records) : records[i].error = None =>
            bodies[BodyFile(records[i].job)] = records[i].job
      BY DEF IInv, Stored, Failed
    <3> QED BY <1>3, <1>6, <1>7, <1>8, <2>3, <3>1
  <2> QED BY <1>1, <2>2, <2>4 DEF Stored, Failed, BodyFile
<1>18. EveryTryTaken'
  <2>1. DOMAIN records = 1..Len(records) /\ DOMAIN records' = 1..Len(records')
    BY <1>6, LenProperties DEF IInv, TypeOK
  <2>2. r.error = "fetch" => r.tries = Repeat + 1
    BY <1>1 DEF IInv, Trying
  <2> QED BY <1>3, <1>6, <1>7, <1>8, <2>1, <2>2 DEF IInv, EveryTryTaken
<1>19. Ended'
  BY <1>1, <1>4, <1>5, <1>11 DEF IInv, Ended, Cancelled
<1> QED BY <1>9, <1>12, <1>13, <1>14, <1>15, <1>16, <1>17, <1>18, <1>19 DEF IInv

-----------------------------------------------------------------------------
\* Nothing is handed out yet, and there is nothing to account for.
LEMMA InitHolds == Init => IInv
<1> SUFFICES ASSUME Init PROVE IInv
  OBVIOUS
<1>1. Len(Jobs) \in Nat
  BY ListFacts
<1>2. Idle \in Worker /\ Idle.at = "idle"
  BY DEF Idle, Worker, Places
<1>3. /\ records = <<>> /\ output = <<>> /\ Len(records) = 0 /\ Len(output) = 0
      /\ \A x \in Workers : worker[x] = Idle
      /\ counts = [done |-> 0, failed |-> 0, inFlight |-> 0]
  BY DEF Init
<1>4. TypeOK
  <2>1. DOMAIN Jobs = JobNo
    BY ListFacts
  <2>2. records \in Seq(Entry) /\ output \in Seq(JobNo)
    BY <1>3, EmptySeq
  <2>3. counts \in [done : Int, failed : Int, inFlight : Int]
    BY <1>3
  <2>4. worker \in [Workers -> Worker] /\ clients \in [Proxies -> JobNo \cup {None}]
    BY <1>2 DEF Init
  <2>5. bodies \in [{BodyFile(i) : i \in JobNo} -> JobNo \cup {None}]
    BY <2>1 DEF Init
  <2>6. /\ handed \in 0..Len(Jobs) /\ feeder \in {"feeding", "closed", "returned"}
        /\ interrupt \in BOOLEAN /\ runErr \in BOOLEAN /\ poolLock \in Workers \cup {None}
        /\ failures \in Nat
    <3>1. 0 \in 0..Len(Jobs) /\ 0 \in Nat
      BY <1>1
    <3>2. handed = 0 /\ feeder = "feeding" /\ poolLock = None /\ failures = 0
      BY DEF Init
    <3>3. interrupt \in BOOLEAN /\ runErr \in BOOLEAN
      BY Zenon DEF Init
    <3> QED BY <3>1, <3>2, <3>3
  <2> QED BY <2>2, <2>3, <2>4, <2>5, <2>6 DEF TypeOK
<1>5. \A x \in Workers : ~Busy(x) /\ worker[x].at = "idle"
  BY <1>2, <1>3 DEF Busy
<1>6. handed = 0 /\ feeder = "feeding" /\ failures = 0 /\ 1..0 = {}
  BY DEF Init
<1>7. Trying /\ Apart /\ Pooled /\ Stored /\ Ended
  BY <1>3, <1>5, <1>6 DEF Trying, Apart, Pooled, Stored, Ended
<1>8. Reported
  <2>1. {i \in 1..Len(records) : Failed(records[i])} = {}
    BY <1>3, <1>6
  <2> QED BY <1>3, <1>6, <2>1, FS_EmptySet DEF Reported
<1>9. EveryTryTaken
  BY <1>3 DEF EveryTryTaken
<1>10. CountsAgree
  <2>1. Flying = {} /\ AtRecord = {} /\ Losing = {}
    BY <1>5 DEF Flying, AtRecord, Losing
  <2> QED BY <1>3, <1>6, <2>1, FS_EmptySet, FewWorkers
<1> QED BY <1>4, <1>7, <1>8, <1>9, <1>10 DEF IInv

\* Every step keeps the invariant.
LEMMA NextKeeps == IInv /\ [Next]_vars => IInv'
<1> SUFFICES ASSUME IInv, [Next]_vars PROVE IInv'
  OBVIOUS
<1>1. ASSUME NEW w \in Workers, WorkerStep(w) \/ Hand(w) PROVE IInv'
  BY <1>1, GoneDone, GetDone, BuildDone, DoDone, PauseDone, SaveDone, FinishDone, RecordDone, HandDone
     DEF WorkerStep
<1>2. CASE CloseQueue \/ Return \/ Interrupt \/ UNCHANGED vars
  BY <1>2, FeederDone
<1> QED BY <1>1, <1>2 DEF Next, FeederStep, Done

-----------------------------------------------------------------------------
(* The theorems. *)

\* The invariant holds for every list, number of workers and number of tries.
THEOREM Inductive == Spec => []IInv
<1>1. Init => IInv
  BY InitHolds
<1>2. IInv /\ [Next]_vars => IInv'
  BY NextKeeps
<1> QED BY <1>1, <1>2, PTL DEF Spec

\* When all workers have gone, the records are as many as the jobs handed out.
LEMMA AllRecorded ==
  ASSUME IInv, feeder = "returned"
  PROVE  Len(records) = handed
<1>1. \A w \in Workers : ~Busy(w)
  BY DEF IInv, Ended, Busy
<1>2. Len(records) \in Nat /\ handed \in Nat
  BY LenProperties, ListFacts DEF IInv, TypeOK
<1> DEFINE S == 1..Len(records)
           T == 1..handed
           f == [i \in S |-> records[i].job]
<1>3. f \in [S -> T] /\ \A i, j \in S : f[i] = f[j] => i = j
  BY DEF IInv, Apart
<1>4. \A n \in T : \E i \in S : f[i] = n
  BY <1>1 DEF IInv, Apart
<1>5. IsFiniteSet(S) /\ Cardinality(S) = Len(records) /\ Cardinality(T) = handed
  <2>1. \A k \in Nat : IsFiniteSet(1..k) /\ Cardinality(1..k) = IF 1 > k THEN 0 ELSE k - 1 + 1
    BY FS_Interval
  <2> QED BY <1>2, <2>1
<1> HIDE DEF S, T, f
<1>6. f \in Bijection(S, T)
  <2>1. f \in Injection(S, T)
    BY <1>3 DEF Injection, IsInjective
  <2>2. f \in Surjection(S, T)
    BY <1>3, <1>4 DEF Surjection
  <2> QED BY <2>1, <2>2 DEF Bijection
<1>7. ExistsBijection(S, T)
  BY <1>6 DEF ExistsBijection
<1> QED BY <1>5, <1>7, FS_Bijection

\* Every URL handed out is with one worker or in the records, once, and the
\* output, the failures, the tries and the status line agree with the records.
THEOREM NothingUnaccounted == Spec => []Accounted
<1>1. IInv => Accounted
  <2> SUFFICES ASSUME IInv PROVE Accounted
    OBVIOUS
  <2>1. /\ Len(records) \in Nat /\ DOMAIN records = 1..Len(records)
        /\ Len(output) \in Nat /\ DOMAIN output = 1..Len(output) /\ output \in Seq(JobNo)
    BY LenProperties DEF IInv, TypeOK
  <2>2. /\ Recorded \in [1..Len(records) -> JobNo] /\ DOMAIN Recorded = 1..Len(records)
        /\ \A i \in 1..Len(records) : Recorded[i] = records[i].job
    <3>1. \A i \in 1..Len(records) : records[i] \in Entry
      BY ElementOfSeq DEF IInv, TypeOK
    <3> QED BY <2>1, <3>1 DEF Recorded, Entry
  <2>3. Recorded \in Seq(JobNo) /\ Len(Recorded) = Len(records)
    BY <2>1, <2>2, LenProperties
  <2>4. IsInjective(Recorded)
    BY <2>2 DEF IsInjective, IInv, Apart
  <2>5. \A w, x \in Workers : Busy(w) /\ Busy(x) /\ worker[w].job = worker[x].job => w = x
    BY DEF IInv, Apart
  <2>6. ToSet(Recorded) = {records[i].job : i \in 1..Len(records)}
    BY <2>2 DEF ToSet
  <2>7. 1..handed = ToSet(Recorded) \cup {worker[w].job : w \in {x \in Workers : Busy(x)}}
    BY <2>6 DEF IInv, Apart, Trying
  <2>8. \A w \in Workers : Busy(w) => worker[w].job \notin ToSet(Recorded)
    BY <2>6 DEF IInv, Apart
  <2>9. IsPrefix(output, Recorded)
    <3>1. /\ Len(output) <= Len(Recorded)
          /\ \A i \in 1..Len(output) : i \in 1..Len(records) /\ output[i] = Recorded[i]
      <4>1. Len(output) <= Len(records) /\ \A i \in 1..Len(output) : output[i] = records[i].job
        BY DEF IInv, Reported
      <4>2. \A i \in 1..Len(output) : i \in 1..Len(records)
        BY <2>1, <4>1
      <4> QED BY <2>2, <2>3, <4>1, <4>2
    <3>2. SubSeq(output, 1, Len(output)) = SubSeq(Recorded, 1, Len(output))
      BY <2>1, <2>3, <3>1, SubSeqProperties
    <3> QED BY <3>1, <3>2 DEF IsPrefix
  <2>10. ~runErr => output = Recorded
    <3> SUFFICES ASSUME ~runErr PROVE output = Recorded
      OBVIOUS
    <3>1. Len(output) = Len(records) /\ \A i \in 1..Len(output) : output[i] = records[i].job
      BY DEF IInv, Reported
    <3>2. \A i \in 1..Len(output) : output[i] = Recorded[i]
      BY <2>2, <3>1
    <3> QED BY <2>1, <2>3, <3>1, <3>2, SeqEqual
  <2>11. failures = Cardinality({i \in DOMAIN records : Failed(records[i])})
    BY <2>1 DEF IInv, Reported
  <2>12. feeder = "returned" => Len(records) = handed /\ (~Cancelled => handed = Len(Jobs))
    BY AllRecorded DEF IInv, Ended
  <2> QED BY <2>4, <2>5, <2>7, <2>8, <2>9, <2>10, <2>11, <2>12 DEF Accounted, IInv
<1> QED BY <1>1, Inductive, PTL

\* Whatever goes through a proxy goes through one client.
THEOREM OneIdentityPerProxy == Spec => []OneClientPerProxy
<1>1. IInv => OneClientPerProxy
  <2> SUFFICES ASSUME IInv PROVE OneClientPerProxy
    OBVIOUS
  <2> DEFINE A == {[proxy |-> Proxy(w), client |-> worker[w].client] : w \in {x \in Workers : Busy(x)}}
             B == {[proxy |-> Jobs[records[i].job].proxy, client |-> records[i].client] : i \in DOMAIN records}
  <2>1. \A u \in A : u.client # None => clients[u.proxy] = u.client
    BY DEF IInv, Pooled
  <2>2. \A u \in B : u.client # None => clients[u.proxy] = u.client
    <3>1. DOMAIN records = 1..Len(records)
      BY LenProperties DEF IInv, TypeOK
    <3> QED BY <3>1 DEF IInv, Pooled
  <2>3. OneClientPerProxy <=>
          \A u, v \in A \cup B : u.proxy = v.proxy /\ None \notin {u.client, v.client} => u.client = v.client
    BY DEF OneClientPerProxy
  <2> HIDE DEF A, B
  <2> QED BY <2>1, <2>2, <2>3
<1> QED BY <1>1, Inductive, PTL

\* A record that names a body file names the one its own body is in.
THEOREM BodiesStay == Spec => []BodiesApart
<1>1. IInv => BodiesApart
  <2> SUFFICES ASSUME IInv PROVE BodiesApart
    OBVIOUS
  <2>1. DOMAIN records = 1..Len(records)
    BY LenProperties DEF IInv, TypeOK
  <2> QED BY <2>1 DEF IInv, Stored, BodiesApart
<1> QED BY <1>1, Inductive, PTL
===============================================================================
