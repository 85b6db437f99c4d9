-------------------------------- MODULE Batch --------------------------------
(***************************************************************************)
(* A batch run (runJobs, fetchOne and pool in src/cmd/tls-forge/batch.go,  *)
(* progress in progress.go): one goroutine hands the list of URLs to a     *)
(* number of workers over an unbuffered channel; a worker fetches through  *)
(* the one client of the URL's proxy, tries again what failed, writes the  *)
(* body to a file, and appends the result to the records and the output.   *)
(***************************************************************************)
EXTENDS Naturals, FiniteSets, SequencesExt

CONSTANTS Workers,   \* --concurrency
          Jobs,      \* the list: a sequence of [url, proxy]
          Repeat,    \* --repeat
          None       \* no job, no client, no worker

ASSUME BatchAssumption == /\ Repeat \in Nat
                          /\ IsFiniteSet(Workers) /\ None \notin Workers
                          /\ Jobs \in Seq(ToSet(Jobs)) /\ None \notin 1..Len(Jobs)
                          /\ None \notin {"client", "fetch", "cancelled", "file"}

VARIABLES handed,     \* how many jobs were handed out
          feeder,     \* "feeding", "closed", "returned"
          interrupt,  \* the context of the run is cancelled
          runErr,     \* the output could not be written; cancels as well
          worker,     \* where each worker is, and with what
          poolLock,   \* who holds pool.mu
          clients,    \* pool.clients: who built the client of each proxy
          counts,     \* progress: done, failed, inFlight
          records,    \* what is kept of each finished job
          output,     \* the JSON lines written
          failures,   \* what runJobs returns
          bodies      \* which job's body each file holds

feedVars == <<handed, feeder>>
poolVars == <<poolLock, clients>>
sinkVars == <<records, output, failures>>
vars     == <<feedVars, interrupt, runErr, worker, poolVars, counts, sinkVars, bodies>>

Idle == [at |-> "idle", job |-> None, tries |-> 0, client |-> None, error |-> None]

Failed(r) == r.error # None

Proxies == {Jobs[i].proxy : i \in DOMAIN Jobs}

\* Mutant: the file is named by the URL alone.
UrlFile(i) == <<Jobs[i].url, 1>>

\* A URL that is listed again has a file of its own.
BodyFile(i) == <<Jobs[i].url, Cardinality({k \in 1..i : Jobs[k].url = Jobs[i].url})>>

Init == /\ handed = 0
        /\ feeder = "feeding"
        /\ interrupt = FALSE
        /\ runErr = FALSE
        /\ worker = [w \in Workers |-> Idle]
        /\ poolLock = None
        /\ clients = [x \in Proxies |-> None]
        /\ counts = [done |-> 0, failed |-> 0, inFlight |-> 0]
        /\ records = << >>
        /\ output = << >>
        /\ failures = 0
        /\ bodies = [f \in {BodyFile(i) : i \in DOMAIN Jobs} |-> None]

Cancelled == interrupt \/ runErr

Busy(w) == worker[w].at \notin {"idle", "gone"}

-----------------------------------------------------------------------------
(* The goroutine that feeds the workers.                                   *)

Interrupt == /\ feeder # "returned"
             /\ ~interrupt
             /\ interrupt' = TRUE
             /\ UNCHANGED <<feedVars, runErr, worker, poolVars, counts, sinkVars, bodies>>

\* The job crosses the channel; select may choose this though the run is over.
Hand(w) == /\ feeder = "feeding"
           /\ handed < Len(Jobs)
           /\ worker[w].at = "idle"
           /\ handed' = handed + 1
           /\ worker' = [worker EXCEPT ![w] = [Idle EXCEPT !.at = "get", !.job = handed']]
           /\ counts' = [counts EXCEPT !.inFlight = @ + 1]
           /\ UNCHANGED <<feeder, interrupt, runErr, poolVars, sinkVars, bodies>>

CloseQueue == /\ feeder = "feeding"
              /\ handed = Len(Jobs) \/ Cancelled
              /\ feeder' = "closed"
              /\ UNCHANGED <<handed, interrupt, runErr, worker, poolVars, counts, sinkVars, bodies>>

\* Mutant: the queue is waited for, not the workers.
ReturnEarly == /\ feeder = "closed"
               /\ feeder' = "returned"
               /\ UNCHANGED <<handed, interrupt, runErr, worker, poolVars, counts, sinkVars, bodies>>

Return == /\ feeder = "closed"
          /\ \A w \in Workers : worker[w].at = "gone"
          /\ feeder' = "returned"
          /\ UNCHANGED <<handed, interrupt, runErr, worker, poolVars, counts, sinkVars, bodies>>

-----------------------------------------------------------------------------
(* A worker.                                                               *)

Proxy(w) == Jobs[worker[w].job].proxy

Step(w, next) == worker' = [worker EXCEPT ![w] = next]

WorkerGone(w) == /\ worker[w].at = "idle"
                 /\ feeder # "feeding"
                 /\ Step(w, [Idle EXCEPT !.at = "gone"])
                 /\ UNCHANGED <<feedVars, interrupt, runErr, poolVars, counts, sinkVars, bodies>>

\* Mutant: the pool is not locked while a client is built.
GetUnlocked(w) == /\ worker[w].at = "get"
                  /\ IF clients[Proxy(w)] # None
                     THEN Step(w, [worker[w] EXCEPT !.at = "do", !.client = clients[Proxy(w)]])
                     ELSE Step(w, [worker[w] EXCEPT !.at = "build"])
                  /\ UNCHANGED <<poolLock, clients, feedVars, interrupt, runErr, counts, sinkVars, bodies>>

\* pool.get: the lock is held while a client is built.
Get(w) == /\ worker[w].at = "get"
          /\ poolLock = None
          /\ IF clients[Proxy(w)] # None
             THEN /\ Step(w, [worker[w] EXCEPT !.at = "do", !.client = clients[Proxy(w)]])
                  /\ UNCHANGED poolLock
             ELSE /\ Step(w, [worker[w] EXCEPT !.at = "build"])
                  /\ poolLock' = w
          /\ UNCHANGED <<clients, feedVars, interrupt, runErr, counts, sinkVars, bodies>>

\* Mutant: an error return without the deferred unlock.
BuildKeepingLock(w) ==
  /\ worker[w].at = "build"
  /\ \/ /\ clients' = [clients EXCEPT ![Proxy(w)] = worker[w].job]
        /\ Step(w, [worker[w] EXCEPT !.at = "do", !.client = worker[w].job])
        /\ poolLock' = None
     \/ /\ Step(w, [worker[w] EXCEPT !.at = "finish", !.error = "client"])
        /\ UNCHANGED <<clients, poolLock>>
  /\ UNCHANGED <<feedVars, interrupt, runErr, counts, sinkVars, bodies>>

Build(w) == /\ worker[w].at = "build"
            /\ poolLock' = None
            /\ \/ /\ clients' = [clients EXCEPT ![Proxy(w)] = worker[w].job]
                  /\ Step(w, [worker[w] EXCEPT !.at = "do", !.client = worker[w].job])
               \/ /\ Step(w, [worker[w] EXCEPT !.at = "finish", !.error = "client"])
                  /\ UNCHANGED clients
            /\ UNCHANGED <<feedVars, interrupt, runErr, counts, sinkVars, bodies>>

DoSucceeds(w) == /\ worker[w].at = "do"
                 /\ Step(w, [worker[w] EXCEPT !.at = "save", !.tries = @ + 1])
                 /\ UNCHANGED <<feedVars, interrupt, runErr, poolVars, counts, sinkVars, bodies>>

LastTry(w) == worker[w].tries + 1 > Repeat

DoFails(w) == /\ worker[w].at = "do"
              /\ Step(w, IF Cancelled \/ LastTry(w)
                         THEN [worker[w] EXCEPT !.at = "finish", !.tries = @ + 1,
                                                !.error = IF Cancelled THEN "cancelled" ELSE "fetch"]
                         ELSE [worker[w] EXCEPT !.at = "pause", !.tries = @ + 1])
              /\ UNCHANGED <<feedVars, interrupt, runErr, poolVars, counts, sinkVars, bodies>>

\* pause: the time passes, or the run is over.
Pause(w) == /\ worker[w].at = "pause"
            /\ \/ Step(w, [worker[w] EXCEPT !.at = "do"])
               \/ Cancelled /\ Step(w, [worker[w] EXCEPT !.at = "finish", !.error = "cancelled"])
            /\ UNCHANGED <<feedVars, interrupt, runErr, poolVars, counts, sinkVars, bodies>>

Save(w) == /\ worker[w].at = "save"
           /\ \/ /\ bodies' = [bodies EXCEPT ![BodyFile(worker[w].job)] = worker[w].job]
                 /\ Step(w, [worker[w] EXCEPT !.at = "finish"])
              \/ /\ Step(w, [worker[w] EXCEPT !.at = "finish", !.error = "file"])
                 /\ UNCHANGED bodies
           /\ UNCHANGED <<feedVars, interrupt, runErr, poolVars, counts, sinkVars>>

Finish(w) ==
  /\ worker[w].at = "finish"
  /\ counts' = [done |-> counts.done + 1,
                failed |-> counts.failed + (IF Failed(worker[w]) THEN 1 ELSE 0),
                inFlight |-> counts.inFlight - 1]
  /\ Step(w, [worker[w] EXCEPT !.at = "record"])
  /\ UNCHANGED <<feedVars, interrupt, runErr, poolVars, sinkVars, bodies>>

\* The section under writeMu; a line that cannot be written ends the output.
Record(w) ==
  LET r == worker[w] IN
  /\ r.at = "record"
  /\ failures' = IF Failed(r) THEN failures + 1 ELSE failures
  /\ records' = Append(records, [job |-> r.job, tries |-> r.tries, client |-> r.client, error |-> r.error])
  /\ \/ ~runErr /\ output' = Append(output, r.job) /\ UNCHANGED runErr
     \/ ~runErr /\ runErr' = TRUE /\ UNCHANGED output
     \/ runErr /\ UNCHANGED <<output, runErr>>
  /\ Step(w, Idle)
  /\ UNCHANGED <<feedVars, interrupt, poolVars, counts, bodies>>

-----------------------------------------------------------------------------
WorkerStep(w) == \/ WorkerGone(w) \/ Get(w) \/ Build(w) \/ DoSucceeds(w) \/ DoFails(w)
                 \/ Pause(w) \/ Save(w) \/ Finish(w) \/ Record(w)

FeederStep == (\E w \in Workers : Hand(w)) \/ CloseQueue \/ Return

Done == feeder = "returned" /\ UNCHANGED vars

Next == FeederStep \/ Interrupt \/ (\E w \in Workers : WorkerStep(w)) \/ Done

Spec == Init /\ [][Next]_vars

\* Goroutines are scheduled, and a request returns: the client has a timeout.
Fairness == WF_vars(FeederStep) /\ \A w \in Workers : WF_vars(WorkerStep(w))

FairSpec == Spec /\ Fairness

-----------------------------------------------------------------------------
Recorded == [i \in DOMAIN records |-> records[i].job]

\* A URL that would not load was tried as often as asked for, no more and no less;
\* only the end of the run cuts the tries short.
EveryTryTaken == \A i \in DOMAIN records : records[i].error = "fetch" => records[i].tries = Repeat + 1

\* The counts of the status line are those of the run.
CountsAgree ==
  /\ counts.inFlight = Cardinality({w \in Workers : Busy(w) /\ worker[w].at # "record"})
  /\ counts.done = Len(records) + Cardinality({w \in Workers : worker[w].at = "record"})
  /\ counts.failed = failures + Cardinality({w \in Workers : worker[w].at = "record" /\ Failed(worker[w])})

\* Every URL handed out is in the hands of one worker or in the records, once;
\* when the run returns every one is recorded, and if nothing cut it short that
\* is the whole list, with its line in the output and its failure in the count; the
\* status line and the number of tries agree with the records.
Accounted ==
  /\ IsInjective(Recorded)
  /\ \A w, x \in Workers : Busy(w) /\ Busy(x) /\ worker[w].job = worker[x].job => w = x
  /\ 1..handed = ToSet(Recorded) \cup {worker[w].job : w \in {x \in Workers : Busy(x)}}
  /\ \A w \in Workers : Busy(w) => worker[w].job \notin ToSet(Recorded)
  /\ IsPrefix(output, Recorded)
  /\ ~runErr => output = Recorded
  /\ failures = Cardinality({i \in DOMAIN records : Failed(records[i])})
  /\ feeder = "returned" => /\ Len(records) = handed
                            /\ ~Cancelled => handed = Len(Jobs)
  /\ EveryTryTaken
  /\ CountsAgree

\* A proxy is one identity: whatever goes through it goes through one client,
\* and so through one cookie jar, however many workers asked for it at once.
OneClientPerProxy ==
  LET used == {[proxy |-> Proxy(w), client |-> worker[w].client] : w \in {x \in Workers : Busy(x)}} \cup
              {[proxy |-> Jobs[records[i].job].proxy, client |-> records[i].client] : i \in DOMAIN records}
  IN \A u, v \in used : u.proxy = v.proxy /\ None \notin {u.client, v.client} => u.client = v.client

\* A result that names a body file names the one its own body is in.
BodiesApart == \A i \in DOMAIN records : ~Failed(records[i]) => bodies[BodyFile(records[i].job)] = records[i].job

\* The run returns, whatever fails and whenever it is interrupted.
Returns == <>(feeder = "returned")
===============================================================================
