--------------------------- MODULE NodeClientProofs ---------------------------
(***************************************************************************)
(* The Node client keeps its promises for every set of requests and any    *)
(* number of faults of the daemon, and implements RequestService.          *)
(***************************************************************************)
EXTENDS NodeClient, SequenceTheorems, TLAPS

Outcomes == {"new", "pending", "answered", "failed"}

States == [closed : BOOLEAN, sequence : Nat, queue : Seq(Job), inFlight : Job \cup {NoJob},
           timers : SUBSET Requests, process : Nat, reader : Nat, procs : Seq(Process),
           writes : SUBSET [job : Job, proc : Nat],
           outcome : [Requests -> Outcomes], answer : [Requests -> Requests \cup {None}],
           sent : [Requests -> Nat]]

\* A process that has not ended and was not killed is the current one, the only
\* one whose listeners are attached.
Processes(s) ==
  /\ s.process \in 0..Len(s.procs)
  /\ \A p \in 1..Len(s.procs) :
       /\ s.procs[p].killed => ~s.procs[p].exitOn /\ ~s.procs[p].errorOn
       /\ s.procs[p].state # "gone" /\ ~s.procs[p].killed <=> p = s.process
       /\ p = s.process => s.procs[p].exitOn /\ s.procs[p].errorOn

\* Job j waits, is in flight, or is on its way through the pipes of a process.
Knows(s, j) ==
  \/ \E i \in 1..Len(s.queue) : s.queue[i] = j
  \/ s.inFlight = j
  \/ \E p \in 1..Len(s.procs) :
       \/ \E i \in 1..Len(s.procs[p].stdin) : s.procs[p].stdin[i] = j
       \/ \E i \in 1..Len(s.procs[p].stdout) :
            /\ s.procs[p].stdout[i].kind # "garbage"
            /\ s.procs[p].stdout[i].id = j.id
            /\ s.procs[p].stdout[i].req = j.req

\* An id was taken from the sequence, for one request.
OneOwner(s) ==
  \A j, k \in Job : Knows(s, j) /\ Knows(s, k) =>
    j.id <= s.sequence /\ (j.id = k.id => j.req = k.req)

\* Every line but garbage is the answer to a request.
Answers(s) ==
  \A p \in 1..Len(s.procs) : \A i \in 1..Len(s.procs[p].stdout) :
    s.procs[p].stdout[i].kind # "garbage" => s.procs[p].stdout[i].req \in Requests

\* The requests accepted and not settled are those in the queue and the one in
\* flight, each of them there once and with its timer; those in the queue were
\* never written.
Waiting(s) ==
  /\ \A i, j \in 1..Len(s.queue) : s.queue[i].req = s.queue[j].req => i = j
  /\ \A i \in 1..Len(s.queue) : s.queue[i].req # s.inFlight.req
  /\ \A r \in Requests : s.outcome[r] = "pending" <=>
       r = s.inFlight.req \/ \E i \in 1..Len(s.queue) : s.queue[i].req = r
  /\ s.timers = {s.inFlight.req} \ {None}
  /\ \A r \in Requests : /\ s.sent[r] <= 1
                         /\ s.outcome[r] = "new" => s.sent[r] = 0
  /\ \A i \in 1..Len(s.queue) : s.sent[s.queue[i].req] = 0
  /\ \A r \in Requests : s.answer[r] \in {None, r}

\* What holds after every private method, ...
Sound(s) == /\ s \in States
            /\ s.reader = s.process
            /\ Processes(s)
            /\ OneOwner(s)
            /\ Answers(s)
            /\ Waiting(s)

\* ... once #pump has run, ...
Pumped(s) == s.queue # <<>> => s.inFlight # NoJob

\* ... and of a closed client.
Shut(s) == s.closed => s.queue = <<>> /\ s.inFlight = NoJob /\ s.process = 0

IInv == /\ Sound(State) /\ Pumped(State) /\ Shut(State)
        /\ unhandled \in BOOLEAN
        /\ faults \in Nat

-----------------------------------------------------------------------------
(* The private methods keep what is sound. *)

\* Nothing but the transport changes.
SameRequests(s, t) ==
  /\ t.closed = s.closed /\ t.sequence = s.sequence /\ t.queue = s.queue
  /\ t.inFlight = s.inFlight /\ t.timers = s.timers /\ t.outcome = s.outcome
  /\ t.answer = s.answer /\ t.sent = s.sent

\* No job is new, so no id gets a second owner.
LEMMA OwnersKept ==
  ASSUME NEW s, NEW t, OneOwner(s), t.sequence = s.sequence,
         \A j \in Job : Knows(t, j) => Knows(s, j)
  PROVE  OneOwner(t)
BY DEF OneOwner

\* The current process is forgotten, killed or gone.
LEMMA ProcessLost ==
  ASSUME NEW s, Sound(s), s.process # 0, NEW t \in States, NEW q \in Process,
         q.stdout = <<>>, q.stdin \in {<<>>, s.procs[s.process].stdin},
         q.killed => ~q.exitOn /\ ~q.errorOn, q.state = "gone" \/ q.killed,
         SameRequests(s, t), t.process = 0, t.reader = 0, Len(t.procs) = Len(s.procs),
         \A p \in 1..Len(s.procs) : t.procs[p] = IF p = s.process THEN q ELSE s.procs[p]
  PROVE  Sound(t)
<1>1. s.process \in 1..Len(s.procs)
  BY DEF Sound, States, Processes
<1>2. Processes(t)
  BY <1>1 DEF Sound, Processes
<1>3. Answers(t)
  <2>1. \A p \in 1..Len(s.procs) : \A i \in 1..Len(t.procs[p].stdout) :
          p # s.process /\ t.procs[p] = s.procs[p]
    <3>1. \A i \in 1..Len(q.stdout) : FALSE
      BY EmptySeq
    <3> QED BY <1>1, <3>1
  <2>2. \A p \in 1..Len(s.procs) : \A i \in 1..Len(s.procs[p].stdout) :
          s.procs[p].stdout[i].kind # "garbage" => s.procs[p].stdout[i].req \in Requests
    BY DEF Sound, Answers
  <2> QED BY <2>1, <2>2 DEF Answers
<1>4. OneOwner(t)
  <2>1. ASSUME NEW j \in Job, Knows(t, j) PROVE Knows(s, j)
    <3>1. CASE (\E i \in 1..Len(t.queue) : t.queue[i] = j) \/ t.inFlight = j
      BY <3>1 DEF Knows, SameRequests
    <3>2. ASSUME NEW p \in 1..Len(t.procs), NEW i \in 1..Len(t.procs[p].stdin),
                 t.procs[p].stdin[i] = j
          PROVE  Knows(s, j)
      <4>1. t.procs[p].stdin = s.procs[p].stdin
        BY <3>2
      <4> QED BY <3>2, <4>1 DEF Knows
    <3>3. ASSUME NEW p \in 1..Len(t.procs), NEW i \in 1..Len(t.procs[p].stdout),
                 t.procs[p].stdout[i].kind # "garbage",
                 t.procs[p].stdout[i].id = j.id, t.procs[p].stdout[i].req = j.req
          PROVE  Knows(s, j)
      <4>1. t.procs[p].stdout = s.procs[p].stdout
        BY <3>3
      <4> QED BY <3>3, <4>1 DEF Knows
    <3> QED BY <2>1, <3>1, <3>2, <3>3 DEF Knows
  <2> QED BY <2>1, OwnersKept DEF Sound, SameRequests
<1>5. Waiting(t)
  BY DEF Sound, Waiting, SameRequests
<1> QED BY <1>2, <1>3, <1>4, <1>5 DEF Sound

\* #closeReaders does nothing when nothing is read.
LEMMA CloseReadersIdle == ASSUME NEW s, s.reader = 0 PROVE CloseReaders(s) = s
BY DEF CloseReaders

\* #kill leaves no process, and touches no request.
LEMMA KillSound ==
  ASSUME NEW s, Sound(s)
  PROVE  Sound(Kill(s)) /\ SameRequests(s, Kill(s)) /\ Kill(s).process = 0
<1>1. CASE s.process = 0
  BY <1>1 DEF Kill, SameRequests
<1>2. CASE s.process # 0
  <2> DEFINE p == s.process
             q == Killed([s.procs[p] EXCEPT !.stdout = <<>>])
             t == Kill(s)
  <2>1. /\ s \in States /\ p \in 1..Len(s.procs) /\ s.reader = p
        /\ s.procs \in Seq(Process) /\ s.procs[p] \in Process
    BY <1>2, ElementOfSeq DEF Sound, States, Processes
  <2>2. /\ q \in Process /\ q.killed /\ ~q.exitOn /\ ~q.errorOn
        /\ q.stdin = <<>> /\ q.stdout = <<>>
    BY <2>1, EmptySeq DEF Killed, Process
  <2>3. [s.procs[p] EXCEPT !.stdout = <<>>] \in Process
    BY <2>1, EmptySeq DEF Process
  <2>4. /\ [s.procs EXCEPT ![p].stdout = <<>>] \in Seq(Process)
        /\ Len([s.procs EXCEPT ![p].stdout = <<>>]) = Len(s.procs)
        /\ \A x \in 1..Len(s.procs) : [s.procs EXCEPT ![p].stdout = <<>>][x]
              = IF x = p THEN [s.procs[p] EXCEPT !.stdout = <<>>] ELSE s.procs[x]
    BY <2>1, <2>3, ExceptSeq
  <2> DEFINE f == [s.procs EXCEPT ![p].stdout = <<>>]
  <2>5. /\ SameRequests(s, t) /\ t.process = 0 /\ t.reader = 0
        /\ t.procs = [f EXCEPT ![p] = Killed(f[p])] /\ t.writes = s.writes
    BY <1>2, <2>1 DEF States, SameRequests, Kill, CloseReaders
  <2>6. f[p] = [s.procs[p] EXCEPT !.stdout = <<>>]
    BY <2>1, <2>4
  <2>7. /\ t.procs \in Seq(Process) /\ Len(t.procs) = Len(s.procs)
        /\ \A x \in 1..Len(s.procs) : t.procs[x] = IF x = p THEN q ELSE s.procs[x]
    <3> HIDE DEF f
    <3> QED BY <2>1, <2>2, <2>4, <2>5, <2>6, ExceptSeq DEF f
  <2>8. t \in States
    <3>1. t.reader \in Nat /\ t.process \in Nat
      BY <2>5
    <3> QED BY <1>2, <2>1, <2>5, <2>7 DEF States, Kill, CloseReaders
  <2> QED BY <1>2, <2>2, <2>5, <2>7, <2>8, ProcessLost
<1> QED BY <1>1, <1>2

\* No promise is settled again, and none is answered.
OnlyFails(s, t) ==
  /\ t.closed = s.closed /\ t.answer = s.answer
  /\ \A r \in Requests : \/ t.outcome[r] = s.outcome[r]
                         \/ s.outcome[r] = "pending" /\ t.outcome[r] = "failed"

SameTransport(s, t) == t.process = s.process /\ t.reader = s.reader /\ t.procs = s.procs

\* Rejecting the request in flight frees its slot and its timer.
LEMMA FailInFlightSound ==
  ASSUME NEW s, Sound(s)
  PROVE  LET t == FailInFlight(s) IN
         /\ Sound(t) /\ SameTransport(s, t) /\ OnlyFails(s, t)
         /\ t.inFlight = NoJob /\ t.queue = s.queue
<1> DEFINE t == FailInFlight(s)
<1> USE DEF Sound
<1>1. /\ t \in States /\ SameTransport(s, t)
      /\ t.inFlight = NoJob /\ t.queue = s.queue /\ t.sequence = s.sequence
      /\ t.closed = s.closed /\ t.answer = s.answer /\ t.sent = s.sent
      /\ t.timers = s.timers \ {s.inFlight.req}
      /\ t.outcome = [r \in Requests |-> IF r = s.inFlight.req /\ s.outcome[r] = "pending"
                                         THEN "failed" ELSE s.outcome[r]]
  BY DEF FailInFlight, ClearInFlight, Reject, States, Outcomes, SameTransport
<1> HIDE DEF t
<1>2. Processes(t) /\ Answers(t)
  BY <1>1 DEF Processes, Answers, SameTransport
<1>3. OneOwner(t)
  <2>1. ASSUME NEW j \in Job, Knows(t, j) PROVE Knows(s, j)
    BY <1>1, <2>1, NodeAssumption DEF Knows, SameTransport, Job, NoJob
  <2> QED BY <1>1, <2>1, OwnersKept
<1>4. Waiting(t)
  <2>1. \A i \in 1..Len(s.queue) : s.queue[i] \in Job
    BY ElementOfSeq DEF States
  <2>2. NoJob.req = None /\ \A j \in Job : j.req \in Requests
    BY DEF NoJob, Job
  <2> QED BY <1>1, <2>1, <2>2, NodeAssumption DEF Waiting
<1>5. OnlyFails(s, t)
  BY <1>1 DEF OnlyFails
<1> QED BY <1>1, <1>2, <1>3, <1>4, <1>5 DEF t, SameTransport

\* #failAll leaves no request unsettled.
LEMMA FailAllSound ==
  ASSUME NEW s, Sound(s)
  PROVE  LET t == FailAll(s) IN
         /\ Sound(t) /\ SameTransport(s, t) /\ OnlyFails(s, t)
         /\ t.inFlight = NoJob /\ t.queue = <<>>
         /\ \A r \in Requests : s.outcome[r] = "pending" => t.outcome[r] = "failed"
<1> DEFINE t == FailAll(s)
<1> USE DEF Sound
<1>1. \A i \in 1..Len(s.queue) : s.queue[i] \in Job
  BY ElementOfSeq DEF States
<1>2. /\ t \in States /\ SameTransport(s, t)
      /\ t.inFlight = NoJob /\ t.queue = <<>> /\ t.sequence = s.sequence
      /\ t.closed = s.closed /\ t.answer = s.answer /\ t.sent = s.sent
      /\ t.timers = s.timers \ {s.inFlight.req}
      /\ \A r \in Requests :
            t.outcome[r] = IF (r = s.inFlight.req \/ r \in Queued(s)) /\ s.outcome[r] = "pending"
                           THEN "failed" ELSE s.outcome[r]
  <2> HIDE DEF Sound
  <2>1. s \in States
    BY DEF Sound
  <2> QED BY <2>1, EmptySeq DEF FailAll, FailInFlight, ClearInFlight, Reject, States, Outcomes, SameTransport
<1> HIDE DEF t
<1>3. \A r \in Requests : r \in Queued(s) <=> \E i \in 1..Len(s.queue) : s.queue[i].req = r
  BY DEF Queued
<1>4. Processes(t) /\ Answers(t)
  BY <1>2 DEF Processes, Answers, SameTransport
<1>5. OneOwner(t)
  <2>1. ASSUME NEW j \in Job, Knows(t, j) PROVE Knows(s, j)
    BY <1>2, <2>1, EmptySeq, NodeAssumption DEF Knows, SameTransport, Job, NoJob
  <2> QED BY <1>2, <2>1, OwnersKept
<1>6. NoJob.req = None /\ \A j \in Job : j.req \in Requests
  BY DEF NoJob, Job
<1>7. Waiting(t)
  BY <1>1, <1>2, <1>3, <1>6, EmptySeq, NodeAssumption DEF Waiting
<1>8. OnlyFails(s, t)
  BY <1>2 DEF OnlyFails
<1>9. \A r \in Requests : s.outcome[r] = "pending" => t.outcome[r] = "failed"
  BY <1>2, <1>3 DEF Waiting
<1> QED BY <1>2, <1>4, <1>5, <1>7, <1>8, <1>9 DEF t, SameTransport

\* A process is spawned when there is none.
LEMMA StartSound ==
  ASSUME NEW s, Sound(s), s.process = 0, NEW st \in {"running", "failing"}
  PROVE  LET t == Start(s, st) IN
         Sound(t) /\ SameRequests(s, t) /\ t.process # 0
<1> DEFINE t == Start(s, st)
           n == NewProcess(st)
<1>1. /\ s \in States /\ s.reader = 0 /\ s.procs \in Seq(Process)
  BY DEF Sound, States
<1>2. n \in Process /\ n.stdin = <<>> /\ n.stdout = <<>>
      /\ n.state # "gone" /\ ~n.killed /\ n.exitOn /\ n.errorOn
  BY EmptySeq DEF NewProcess, Process
<1>3. /\ t.process = Len(s.procs) + 1 /\ t.reader = Len(s.procs) + 1
      /\ t.procs = Append(s.procs, n) /\ SameRequests(s, t)
  BY <1>1, CloseReadersIdle DEF Start, States, SameRequests
<1> HIDE DEF n
<1>4. /\ t.procs \in Seq(Process) /\ Len(t.procs) = Len(s.procs) + 1 /\ Len(s.procs) \in Nat
      /\ \A p \in 1..Len(s.procs) : t.procs[p] = s.procs[p]
      /\ t.procs[Len(s.procs) + 1] = n
  BY <1>1, <1>2, <1>3, AppendProperties, LenProperties
<1>5. t \in States
  <2>1. t = [s EXCEPT !.process = Len(s.procs) + 1, !.reader = Len(s.procs) + 1,
                      !.procs = Append(s.procs, n)]
    BY <1>1, CloseReadersIdle DEF Start, n
  <2>2. Len(s.procs) + 1 \in Nat /\ Append(s.procs, n) \in Seq(Process)
    BY <1>3, <1>4
  <2> HIDE DEF t
  <2> QED BY <1>1, <2>1, <2>2 DEF States
<1> HIDE DEF t
<1>6. \A p \in 1..Len(t.procs) : p \in 1..Len(s.procs) \/ p = Len(s.procs) + 1
  BY <1>4
<1>7. Processes(t)
  BY <1>2, <1>3, <1>4, <1>6 DEF Sound, Processes
<1>8. Answers(t)
  <2>1. \A i \in 1..Len(n.stdout) : FALSE
    BY <1>2, EmptySeq
  <2>2. \A p \in 1..Len(s.procs) : \A i \in 1..Len(s.procs[p].stdout) :
          s.procs[p].stdout[i].kind # "garbage" => s.procs[p].stdout[i].req \in Requests
    BY DEF Sound, Answers
  <2>3. ASSUME NEW p \in 1..Len(t.procs), NEW i \in 1..Len(t.procs[p].stdout)
        PROVE  p \in 1..Len(s.procs) /\ t.procs[p] = s.procs[p]
    BY <1>4, <1>6, <2>1, <2>3
  <2> QED BY <2>2, <2>3 DEF Answers
<1>9. OneOwner(t)
  <2>1. ASSUME NEW j \in Job, Knows(t, j) PROVE Knows(s, j)
    <3>1. /\ \A i \in 1..Len(n.stdin) : FALSE
          /\ \A i \in 1..Len(n.stdout) : FALSE
      BY <1>2, EmptySeq
    <3> QED BY <1>3, <1>4, <1>6, <2>1, <3>1 DEF Knows, SameRequests
  <2> QED BY <1>3, <2>1, OwnersKept DEF Sound, SameRequests
<1>10. Waiting(t)
  BY <1>3 DEF Sound, Waiting, SameRequests
<1> QED BY <1>3, <1>4, <1>5, <1>7, <1>8, <1>9, <1>10 DEF Sound, t

\* The oldest request in the queue is put in flight.
LEMMA DispatchSound ==
  ASSUME NEW s, Sound(s), s.process # 0, s.inFlight = NoJob, s.queue # <<>>
  PROVE  LET t == Dispatch(s) IN
         /\ Sound(t) /\ OnlyFails(s, t)
         /\ t.process = s.process /\ t.inFlight # NoJob /\ t.outcome = s.outcome
<1> DEFINE t   == Dispatch(s)
           p   == s.process
           job == Head(s.queue)
           line == IF s.procs[p].state = "running" THEN Append(s.procs[p].stdin, job)
                   ELSE s.procs[p].stdin
           q   == [s.procs[p] EXCEPT !.stdin = line]
<1>1. /\ s \in States /\ p \in 1..Len(s.procs) /\ s.reader = p
      /\ s.procs \in Seq(Process) /\ s.procs[p] \in Process
  BY ElementOfSeq DEF Sound, States, Processes
<1>2. /\ job \in Job /\ job # NoJob /\ job.req \in Requests /\ job = s.queue[1]
      /\ Tail(s.queue) \in Seq(Job) /\ Len(s.queue) \in Nat /\ Len(s.queue) > 0
      /\ Len(Tail(s.queue)) = Len(s.queue) - 1
      /\ \A i \in 1..Len(Tail(s.queue)) : Tail(s.queue)[i] = s.queue[i + 1]
      /\ \A i \in 1..Len(s.queue) : s.queue[i] \in Job
  <2>1. s.queue \in Seq(Job)
    BY <1>1 DEF States
  <2>2. /\ Len(s.queue) \in Nat /\ Len(s.queue) > 0
        /\ \A i \in 1..Len(s.queue) : s.queue[i] \in Job
    BY <2>1, LenProperties, EmptySeq, ElementOfSeq
  <2>3. job = s.queue[1]
    BY <2>1, <2>2
  <2>4. job \in Job /\ job.req \in Requests
    BY <2>2, <2>3 DEF Job
  <2>5. job # NoJob
    BY <2>4, NodeAssumption DEF NoJob
  <2>6. /\ Tail(s.queue) \in Seq(Job)
        /\ Len(Tail(s.queue)) = Len(s.queue) - 1
        /\ \A i \in 1..Len(Tail(s.queue)) : Tail(s.queue)[i] = s.queue[i + 1]
    BY <2>1, HeadTailProperties
  <2> QED BY <2>2, <2>3, <2>4, <2>5, <2>6
<1>3. line \in Seq(Job) /\ Len(line) \in Nat
      /\ \A i \in 1..Len(line) : line[i] = job \/ \E k \in 1..Len(s.procs[p].stdin) : line[i] = s.procs[p].stdin[k]
  <2>1. s.procs[p].stdin \in Seq(Job)
    BY <1>1 DEF Process
  <2>2. CASE s.procs[p].state = "running"
    <3>1. line = Append(s.procs[p].stdin, job)
      BY <2>2
    <3> HIDE DEF line, p, job
    <3>2. line \in Seq(Job) /\ Len(line) = Len(s.procs[p].stdin) + 1 /\ Len(s.procs[p].stdin) \in Nat
      BY <1>2, <2>1, <3>1, AppendProperties, LenProperties
    <3>3. /\ line[Len(s.procs[p].stdin) + 1] = job
          /\ \A i \in 1..Len(s.procs[p].stdin) : line[i] = s.procs[p].stdin[i]
      BY <1>2, <2>1, <3>1, AppendProperties
    <3>4. \A i \in 1..Len(line) : i \in 1..Len(s.procs[p].stdin) \/ i = Len(s.procs[p].stdin) + 1
      BY <3>2
    <3>5. Len(line) \in Nat
      BY <3>2
    <3>6. \A i \in 1..Len(line) : line[i] = job \/ \E k \in 1..Len(s.procs[p].stdin) : line[i] = s.procs[p].stdin[k]
      BY <3>3, <3>4, Zenon
    <3> QED BY <3>2, <3>5, <3>6
  <2>3. CASE s.procs[p].state # "running"
    BY <2>1, <2>3, LenProperties
  <2> QED BY <2>2, <2>3
<1> HIDE DEF line
<1>4. q \in Process /\ q.stdin = line /\ q.stdout = s.procs[p].stdout
      /\ q.state = s.procs[p].state /\ q.killed = s.procs[p].killed
      /\ q.exitOn = s.procs[p].exitOn /\ q.errorOn = s.procs[p].errorOn
  BY <1>1, <1>3 DEF Process
<1>5. /\ t.queue = Tail(s.queue) /\ t.inFlight = job
      /\ t.timers = s.timers \cup {job.req} /\ t.sequence = s.sequence
      /\ t.closed = s.closed /\ t.answer = s.answer /\ t.outcome = s.outcome
      /\ t.process = s.process /\ t.reader = s.reader
      /\ t.sent = [s.sent EXCEPT ![job.req] = @ + 1]
      /\ t.procs = [s.procs EXCEPT ![p] = q]
  BY <1>1 DEF Dispatch, States, line
<1> HIDE DEF q
<1>6. /\ t.procs \in Seq(Process) /\ Len(t.procs) = Len(s.procs)
      /\ \A x \in 1..Len(s.procs) : t.procs[x] = IF x = p THEN q ELSE s.procs[x]
  BY <1>1, <1>4, <1>5, ExceptSeq
<1>7. t \in States
  <2> DEFINE e == [job |-> job, proc |-> p]
  <2>1. t = [s EXCEPT !.queue = Tail(s.queue), !.inFlight = job,
                      !.timers = s.timers \cup {job.req}, !.procs = t.procs,
                      !.writes = s.writes \cup {e}, !.sent = t.sent]
    BY <1>1 DEF Dispatch, States
  <2>2. t.sent \in [Requests -> Nat]
    BY <1>1, <1>2, <1>5 DEF States
  <2>3. s.writes \cup {e} \in SUBSET [job : Job, proc : Nat]
    BY <1>1, <1>2 DEF States
  <2>4. s.timers \cup {job.req} \in SUBSET Requests
    BY <1>1, <1>2 DEF States
  <2> HIDE DEF t, e, job
  <2> QED BY <1>1, <1>2, <1>6, <2>1, <2>2, <2>3, <2>4 DEF States
<1> HIDE DEF t, job
<1>8. Processes(t)
  BY <1>1, <1>4, <1>5, <1>6 DEF Sound, Processes
<1>9. Answers(t)
  <2>1. \A x \in 1..Len(s.procs) : t.procs[x].stdout = s.procs[x].stdout
    BY <1>4, <1>6
  <2> QED BY <1>6, <2>1 DEF Sound, Answers
<1>10. OneOwner(t)
  <2>1. ASSUME NEW j \in Job, Knows(t, j) PROVE Knows(s, j)
    <3>1. Knows(s, job)
      BY <1>2 DEF Knows
    <3>2. CASE (\E i \in 1..Len(t.queue) : t.queue[i] = j) \/ t.inFlight = j
      BY <1>2, <1>5, <3>1, <3>2 DEF Knows
    <3>3. ASSUME NEW x \in 1..Len(t.procs), NEW i \in 1..Len(t.procs[x].stdin),
                 t.procs[x].stdin[i] = j
          PROVE  Knows(s, j)
      <4>1. CASE x = p
        <5>1. t.procs[x].stdin = line
          BY <1>1, <1>4, <1>6, <4>1
        <5>2. j = job \/ \E k \in 1..Len(s.procs[p].stdin) : j = s.procs[p].stdin[k]
          BY <1>3, <3>3, <5>1
        <5> QED BY <1>1, <3>1, <5>2 DEF Knows
      <4>2. CASE x # p
        <5>1. t.procs[x].stdin = s.procs[x].stdin /\ x \in 1..Len(s.procs)
          BY <1>6, <3>3, <4>2
        <5> QED BY <3>3, <5>1 DEF Knows
      <4> QED BY <4>1, <4>2
    <3>4. ASSUME NEW x \in 1..Len(t.procs), NEW i \in 1..Len(t.procs[x].stdout),
                 t.procs[x].stdout[i].kind # "garbage",
                 t.procs[x].stdout[i].id = j.id, t.procs[x].stdout[i].req = j.req
          PROVE  Knows(s, j)
      <4>1. t.procs[x].stdout = s.procs[x].stdout
        BY <1>4, <1>6, <3>4
      <4> QED BY <1>6, <3>4, <4>1 DEF Knows
    <3> QED BY <2>1, <3>2, <3>3, <3>4 DEF Knows
  <2> QED BY <1>5, <2>1, OwnersKept DEF Sound
<1>11. Waiting(t)
  <2>1. s.sent \in [Requests -> Nat] /\ s.outcome \in [Requests -> Outcomes]
    BY <1>1 DEF States
  <2>2. \A i \in 1..Len(s.queue) : s.queue[i].req = job.req => i = 1
    BY <1>2 DEF Sound, Waiting
  <2>3. \A i, j \in 1..Len(t.queue) : t.queue[i].req = t.queue[j].req => i = j
    BY <1>2, <1>5 DEF Sound, Waiting
  <2>4. \A i \in 1..Len(t.queue) : t.queue[i].req # job.req
    BY <1>2, <1>5, <2>2
  <2>5. \A r \in Requests : t.outcome[r] = "pending" <=>
          r = job.req \/ \E i \in 1..Len(t.queue) : t.queue[i].req = r
    <3>1. NoJob.req \notin Requests
      BY NodeAssumption DEF NoJob
    <3>2. \A r \in Requests : (\E i \in 1..Len(s.queue) : s.queue[i].req = r) <=>
             (r = job.req \/ \E i \in 1..Len(t.queue) : t.queue[i].req = r)
      <4>1. ASSUME NEW i \in 1..Len(s.queue), i # 1
            PROVE  i - 1 \in 1..Len(t.queue) /\ t.queue[i - 1] = s.queue[i]
        BY <1>2, <1>5, <4>1
      <4>2. \A i \in 1..Len(t.queue) : i + 1 \in 1..Len(s.queue) /\ t.queue[i] = s.queue[i + 1]
        BY <1>2, <1>5
      <4> SUFFICES ASSUME NEW r \in Requests
                   PROVE  (\E i \in 1..Len(s.queue) : s.queue[i].req = r) <=>
                            (r = job.req \/ \E i \in 1..Len(t.queue) : t.queue[i].req = r)
        OBVIOUS
      <4>3. ASSUME NEW i \in 1..Len(s.queue), s.queue[i].req = r, r # job.req
            PROVE  \E k \in 1..Len(t.queue) : t.queue[k].req = r
        <5>1. i # 1
          BY <1>2, <4>3
        <5> QED BY <4>1, <4>3, <5>1
      <4>4. ASSUME r = job.req PROVE \E i \in 1..Len(s.queue) : s.queue[i].req = r
        BY <1>2, <4>4
      <4>5. ASSUME NEW k \in 1..Len(t.queue), t.queue[k].req = r
            PROVE  \E i \in 1..Len(s.queue) : s.queue[i].req = r
        BY <4>2, <4>5
      <4> QED BY <4>3, <4>4, <4>5
    <3>3. \A r \in Requests : s.outcome[r] = "pending" <=>
             r = s.inFlight.req \/ \E i \in 1..Len(s.queue) : s.queue[i].req = r
      BY DEF Sound, Waiting
    <3>4. \A r \in Requests : r # s.inFlight.req
      BY <3>1
    <3>5. t.outcome = s.outcome
      BY <1>5
    <3>6. \A r \in Requests : s.outcome[r] = "pending" <=> \E i \in 1..Len(s.queue) : s.queue[i].req = r
      BY <3>3, <3>4, Zenon
    <3> QED BY <3>2, <3>5, <3>6, Zenon
  <2>6. t.timers = {job.req} \ {None}
    BY <1>2, <1>5, NodeAssumption DEF Sound, Waiting, NoJob
  <2>7. s.sent[job.req] = 0
    BY <1>2 DEF Sound, Waiting
  <2>8. s.outcome[job.req] = "pending"
    BY <1>2 DEF Sound, Waiting
  <2>9. \A r \in Requests : t.sent[r] = IF r = job.req THEN 1 ELSE s.sent[r]
    BY <1>2, <1>5, <2>1, <2>7
  <2>10. \A i \in 1..Len(t.queue) : t.sent[t.queue[i].req] = 0
    <3> SUFFICES ASSUME NEW i \in 1..Len(t.queue) PROVE t.sent[t.queue[i].req] = 0
      OBVIOUS
    <3>1. t.queue[i] = s.queue[i + 1] /\ i + 1 \in 1..Len(s.queue)
      BY <1>2, <1>5
    <3>2. t.queue[i].req \in Requests /\ t.queue[i].req # job.req
      BY <1>2, <2>4, <3>1 DEF Job
    <3> QED BY <2>9, <3>1, <3>2 DEF Sound, Waiting
  <2>11. \A r \in Requests : t.sent[r] <= 1 /\ (t.outcome[r] = "new" => t.sent[r] = 0)
    <3>1. \A r \in Requests : s.sent[r] <= 1 /\ (s.outcome[r] = "new" => s.sent[r] = 0)
      BY DEF Sound, Waiting
    <3> SUFFICES ASSUME NEW r \in Requests
                 PROVE  t.sent[r] <= 1 /\ (t.outcome[r] = "new" => t.sent[r] = 0)
      OBVIOUS
    <3>2. CASE r = job.req
      <4>1. t.sent[r] = 1
        BY <2>9, <3>2
      <4>2. t.outcome[r] = "pending"
        BY <1>5, <2>8, <3>2
      <4> QED BY <4>1, <4>2
    <3>3. CASE r # job.req
      BY <1>5, <2>9, <3>1, <3>3
    <3> QED BY <3>2, <3>3
  <2>12. \A r \in Requests : t.answer[r] \in {None, r}
    BY <1>5 DEF Sound, Waiting
  <2>13. t.inFlight.req = job.req
    BY <1>5
  <2> QED BY <2>3, <2>4, <2>5, <2>6, <2>10, <2>11, <2>12, <2>13 DEF Waiting
<1>12. OnlyFails(s, t)
  BY <1>5 DEF OnlyFails
<1> QED BY <1>1, <1>2, <1>5, <1>7, <1>8, <1>9, <1>10, <1>11, <1>12 DEF Sound, t

\* #pump leaves nothing waiting behind nothing, and settles a promise only when a
\* spawn throws.
LEMMA PumpSound ==
  ASSUME NEW s, Sound(s), Shut(s), NEW t \in Pump(s)
  PROVE  /\ Sound(t) /\ Shut(t) /\ Pumped(t) /\ OnlyFails(s, t)
         /\ s.process # 0 => t.outcome = s.outcome
         /\ s.inFlight # NoJob => t = s
         /\ \/ t.outcome = s.outcome
            \/ \A r \in Requests : s.outcome[r] = "pending" => t.outcome[r] = "failed"
<1>1. CASE s.inFlight # NoJob \/ s.queue = <<>>
  BY <1>1 DEF Pump, Pumped, OnlyFails
<1>2. CASE s.inFlight = NoJob /\ s.queue # <<>> /\ s.process # 0
  <2>1. t = Dispatch(s) /\ ~s.closed
    BY <1>2 DEF Pump, Shut
  <2>2. ~t.closed
    BY <1>2, <2>1, DispatchSound DEF OnlyFails
  <2> QED BY <1>2, <2>1, <2>2, DispatchSound DEF Pumped, Shut
<1>3. CASE s.inFlight = NoJob /\ s.queue # <<>> /\ s.process = 0
  <2>1. ~s.closed
    BY <1>3 DEF Shut
  <2>2. ASSUME NEW st \in {"running", "failing"}, t = Dispatch(Start(s, st))
        PROVE  /\ Sound(t) /\ OnlyFails(s, t) /\ ~t.closed /\ t.inFlight # NoJob
               /\ t.outcome = s.outcome
    <3> DEFINE u == Start(s, st)
    <3>1. Sound(u) /\ SameRequests(s, u) /\ u.process # 0
      BY <1>3, StartSound
    <3>2. u.inFlight = NoJob /\ u.queue # <<>> /\ u.outcome = s.outcome
          /\ u.closed = s.closed /\ u.answer = s.answer
      BY <1>3, <3>1 DEF SameRequests
    <3> HIDE DEF u
    <3>3. Sound(Dispatch(u)) /\ OnlyFails(u, Dispatch(u)) /\ Dispatch(u).inFlight # NoJob
          /\ Dispatch(u).outcome = u.outcome
      BY <3>1, <3>2, DispatchSound
    <3>4. t = Dispatch(u)
      BY <2>2 DEF u
    <3> QED BY <2>1, <3>2, <3>3, <3>4 DEF OnlyFails
  <2>3. ASSUME t = FailAll(CloseReaders(s))
        PROVE  /\ Sound(t) /\ OnlyFails(s, t) /\ ~t.closed /\ t.queue = <<>>
               /\ \A r \in Requests : s.outcome[r] = "pending" => t.outcome[r] = "failed"
    <3>1. t = FailAll(s)
      BY <1>3, <2>3, CloseReadersIdle DEF Sound
    <3> QED BY <2>1, <3>1, FailAllSound DEF OnlyFails
  <2>4. \/ \E st \in {"running", "failing"} : t = Dispatch(Start(s, st))
        \/ t = FailAll(CloseReaders(s))
    BY <1>3 DEF Pump
  <2> QED BY <1>3, <2>2, <2>3, <2>4 DEF Pumped, Shut
<1> QED BY <1>1, <1>2, <1>3

\* #kill and then #pump.
LEMMA RestartSound ==
  ASSUME NEW s, Sound(s), Shut(s), NEW t \in Restart(s)
  PROVE  Sound(t) /\ Shut(t) /\ Pumped(t) /\ OnlyFails(s, t)
<1> DEFINE u == Kill(s)
<1>1. Sound(u) /\ SameRequests(s, u) /\ u.process = 0
  BY KillSound
<1>2. Shut(u) /\ t \in Pump(u)
  BY <1>1 DEF Shut, SameRequests, Restart
<1> HIDE DEF u
<1>3. Sound(t) /\ Shut(t) /\ Pumped(t) /\ OnlyFails(u, t)
  BY <1>1, <1>2, PumpSound
<1> QED BY <1>1, <1>3 DEF OnlyFails, SameRequests

\* The pipes and the state of the processes change, and every job in them was
\* known before.
LEMMA PipesSound ==
  ASSUME NEW s, Sound(s), NEW t \in States, SameRequests(s, t),
         t.process = s.process, t.reader = s.reader, Len(t.procs) = Len(s.procs),
         \A p \in 1..Len(s.procs) :
           /\ t.procs[p].killed = s.procs[p].killed
           /\ t.procs[p].exitOn = s.procs[p].exitOn
           /\ t.procs[p].errorOn = s.procs[p].errorOn
           /\ s.procs[p].killed \/ (t.procs[p].state = "gone" <=> s.procs[p].state = "gone"),
         \A p \in 1..Len(s.procs) : \A i \in 1..Len(t.procs[p].stdin) :
           Knows(s, t.procs[p].stdin[i]),
         \A p \in 1..Len(s.procs) : \A i \in 1..Len(t.procs[p].stdout) :
           \/ t.procs[p].stdout[i].kind = "garbage"
           \/ \E j \in Job : /\ Knows(s, j)
                             /\ t.procs[p].stdout[i].id = j.id
                             /\ t.procs[p].stdout[i].req = j.req
  PROVE  Sound(t)
<1>1. Processes(t)
  BY DEF Sound, Processes
<1>2. Answers(t)
  BY DEF Answers, Job
<1>3. OneOwner(t)
  <2>1. ASSUME NEW j \in Job, Knows(t, j) PROVE Knows(s, j)
    <3>1. CASE (\E i \in 1..Len(t.queue) : t.queue[i] = j) \/ t.inFlight = j
      BY <3>1 DEF Knows, SameRequests
    <3>2. ASSUME NEW p \in 1..Len(t.procs), NEW i \in 1..Len(t.procs[p].stdin),
                 t.procs[p].stdin[i] = j
          PROVE  Knows(s, j)
      BY <3>2
    <3>3. ASSUME NEW p \in 1..Len(t.procs), NEW i \in 1..Len(t.procs[p].stdout),
                 t.procs[p].stdout[i].kind # "garbage",
                 t.procs[p].stdout[i].id = j.id, t.procs[p].stdout[i].req = j.req
          PROVE  Knows(s, j)
      <4>1. PICK k \in Job : /\ Knows(s, k)
                             /\ t.procs[p].stdout[i].id = k.id
                             /\ t.procs[p].stdout[i].req = k.req
        BY <3>3
      <4>2. k.id = j.id /\ k.req = j.req
        BY <3>3, <4>1
      <4>3. k = j
        BY <4>2 DEF Job
      <4> QED BY <4>1, <4>3
    <3> QED BY <2>1, <3>1, <3>2, <3>3 DEF Knows
  <2> QED BY <2>1, OwnersKept DEF Sound, SameRequests
<1>4. Waiting(t)
  BY DEF Sound, Waiting, SameRequests
<1> QED BY <1>1, <1>2, <1>3, <1>4 DEF Sound

-----------------------------------------------------------------------------
(* Every callback keeps the invariant, and is a step of RequestService. *)

\* A callback ends in the state its private methods computed.
LEMMA BecomesState == ASSUME NEW t \in States, Becomes(t) PROVE State' = t
BY DEF Becomes, State, States

\* The fields of State are the variables.
LEMMA StateFields ==
  /\ State.closed = closed /\ State.sequence = sequence /\ State.queue = queue
  /\ State.inFlight = inFlight /\ State.timers = timers /\ State.process = process
  /\ State.reader = reader /\ State.procs = procs /\ State.writes = writes
  /\ State.outcome = outcome /\ State.answer = answer /\ State.sent = sent
BY DEF State

\* What a callback may do to the promises.
Serves(s, t) ==
  \/ OnlyFails(s, t)
  \/ \E r \in Requests, o \in {"pending", "failed"} :
       /\ t.closed = s.closed /\ t.answer = s.answer
       /\ s.outcome[r] = "new" /\ t.outcome = [s.outcome EXCEPT ![r] = o]
  \/ \E r \in Requests :
       /\ t.closed = s.closed /\ ~s.closed /\ s.outcome[r] = "pending"
       /\ t.outcome = [s.outcome EXCEPT ![r] = "answered"]
       /\ t.answer = [s.answer EXCEPT ![r] = r]
  \/ /\ t.closed /\ OnlyFails([s EXCEPT !.closed = TRUE], t)

\* A callback that treats the promises in one of these ways is a step of RequestService.
LEMMA ServesNext ==
  ASSUME IInv, NEW t \in States, Becomes(t), Serves(State, t)
  PROVE  [Service!Next]_<<closed, outcome, answer>>
<1> DEFINE S == {r \in Requests : outcome[r] = "pending" /\ outcome'[r] = "failed"}
<1> USE StateFields
<1>1. closed' = t.closed /\ outcome' = t.outcome /\ answer' = t.answer
  BY DEF Becomes
<1>2. /\ outcome \in [Requests -> Outcomes] /\ outcome' \in [Requests -> Outcomes]
      /\ closed \in BOOLEAN /\ closed' \in BOOLEAN
  BY <1>1 DEF IInv, Sound, States
<1>3. ASSUME \A r \in Requests : \/ outcome'[r] = outcome[r]
                                 \/ outcome[r] = "pending" /\ outcome'[r] = "failed"
      PROVE  S \in SUBSET Service!Pending /\ Service!Failing(S) /\ (S = {} => outcome' = outcome)
  BY <1>2, <1>3 DEF Service!Pending, Service!Failing
<1>4. CASE OnlyFails(State, t)
  BY <1>1, <1>3, <1>4 DEF OnlyFails, Service!Next, Service!Fail
<1>5. ASSUME NEW r \in Requests, NEW o \in {"pending", "failed"},
             t.closed = State.closed, t.answer = State.answer,
             State.outcome[r] = "new", t.outcome = [State.outcome EXCEPT ![r] = o]
      PROVE  Service!Submit(r) \/ Service!Refuse(r)
  BY <1>1, <1>5 DEF Service!Submit, Service!Refuse
<1>6. ASSUME NEW r \in Requests,
             t.closed = State.closed, ~State.closed, State.outcome[r] = "pending",
             t.outcome = [State.outcome EXCEPT ![r] = "answered"],
             t.answer = [State.answer EXCEPT ![r] = r]
      PROVE  Service!Answer(r)
  BY <1>1, <1>6 DEF Service!Answer
<1>7. CASE t.closed /\ OnlyFails([State EXCEPT !.closed = TRUE], t)
  <2>1. /\ [State EXCEPT !.closed = TRUE].outcome = outcome
        /\ [State EXCEPT !.closed = TRUE].answer = answer
    BY DEF State
  <2> QED BY <1>1, <1>2, <1>3, <1>7, <2>1 DEF OnlyFails, Service!Next, Service!Close
<1> QED BY <1>4, <1>5, <1>6, <1>7 DEF Serves, Service!Next

\* What each callback has to show.
Done(t) == /\ Sound(t) /\ Pumped(t) /\ Shut(t)
           /\ Serves(State, t)

\* That is enough for the invariant and for the refinement.
LEMMA CallbackDone ==
  ASSUME IInv, NEW t, Done(t), Becomes(t), unhandled' \in BOOLEAN, faults' \in Nat
  PROVE  IInv' /\ [Service!Next]_<<closed, outcome, answer>>
<1>1. t \in States
  BY DEF Done, Sound
<1>2. State' = t
  BY <1>1, BecomesState
<1>3. IInv'
  BY <1>2 DEF Done, IInv
<1> QED BY <1>1, <1>3, ServesNext DEF Done

\* A call that is refused, with the id it took or without.
LEMMA RefusedDone ==
  ASSUME IInv, NEW r \in Requests, outcome[r] = "new", NEW n \in {sequence, sequence + 1}
  PROVE  Done(Refused([State EXCEPT !.sequence = n], r))
<1> DEFINE s == State
           t == Refused([State EXCEPT !.sequence = n], r)
<1>1. Sound(s) /\ Pumped(s) /\ Shut(s) /\ s \in States
  BY DEF IInv, Sound
<1>2. /\ SameTransport(s, t) /\ t.queue = s.queue /\ t.inFlight = s.inFlight
      /\ t.timers = s.timers /\ t.sequence = n /\ t.closed = s.closed /\ t.sent = s.sent
      /\ t.answer = s.answer /\ t.outcome = [s.outcome EXCEPT ![r] = "failed"]
  BY DEF Refused, State, SameTransport
<1>3. n \in Nat /\ n >= s.sequence /\ s.sequence \in Nat
  BY <1>1, StateFields DEF States
<1>4. t \in States
  <2>1. t = [s EXCEPT !.sequence = n, !.outcome = [s.outcome EXCEPT ![r] = "failed"]]
    BY DEF Refused, State
  <2>2. [s.outcome EXCEPT ![r] = "failed"] \in [Requests -> Outcomes]
    BY <1>1 DEF States, Outcomes
  <2> HIDE DEF s, t
  <2> QED BY <1>1, <1>3, <2>1, <2>2 DEF States
<1>5. s.outcome[r] = "new"
  BY StateFields
<1> HIDE DEF s, t
<1>6. Processes(t) /\ Answers(t) /\ t.reader = t.process
  BY <1>1, <1>2 DEF Sound, Processes, Answers, SameTransport
<1>7. OneOwner(t)
  <2>1. ASSUME NEW j \in Job, Knows(t, j) PROVE Knows(s, j)
    BY <1>2, <2>1 DEF Knows, SameTransport
  <2>2. \A j, k \in Job : Knows(s, j) /\ Knows(s, k) =>
          j.id <= s.sequence /\ (j.id = k.id => j.req = k.req)
    BY <1>1 DEF Sound, OneOwner
  <2> QED BY <1>2, <1>3, <2>1, <2>2 DEF OneOwner, Job
<1>8. Waiting(t)
  <2>1. \A x \in Requests : t.outcome[x] = IF x = r THEN "failed" ELSE s.outcome[x]
    BY <1>1, <1>2 DEF States
  <2> QED BY <1>1, <1>2, <1>5, <2>1 DEF Sound, Waiting
<1>9. Pumped(t) /\ Shut(t)
  BY <1>1, <1>2 DEF Pumped, Shut, SameTransport
<1>10. Serves(State, t)
  BY <1>2, <1>5 DEF Serves, s
<1> QED BY <1>4, <1>6, <1>7, <1>8, <1>9, <1>10 DEF Done, Sound, t

\* A call that is accepted.
LEMMA SubmittedDone ==
  ASSUME IInv, ~closed, NEW r \in Requests, outcome[r] = "new",
         NEW t \in Pump(Submitted(State, r))
  PROVE  Done(t)
<1> DEFINE s == State
           u == Submitted(State, r)
           job == [req |-> r, id |-> s.sequence + 1]
<1>1. Sound(s) /\ Pumped(s) /\ Shut(s) /\ s \in States
  BY DEF IInv, Sound
<1>2. /\ SameTransport(s, u) /\ u.queue = Append(s.queue, job) /\ u.inFlight = s.inFlight
      /\ u.timers = s.timers /\ u.sequence = s.sequence + 1 /\ u.closed = s.closed
      /\ u.sent = s.sent /\ u.answer = s.answer
      /\ u.outcome = [s.outcome EXCEPT ![r] = "pending"]
  BY DEF Submitted, State, SameTransport
<1>3. s.sequence \in Nat /\ job \in Job /\ s.queue \in Seq(Job)
  BY <1>1 DEF States, Job
<1>4. /\ u.queue \in Seq(Job) /\ Len(s.queue) \in Nat /\ Len(u.queue) = Len(s.queue) + 1
      /\ \A i \in 1..Len(s.queue) : u.queue[i] = s.queue[i] /\ s.queue[i] \in Job
      /\ u.queue[Len(s.queue) + 1] = job /\ u.queue # <<>>
  BY <1>2, <1>3, AppendProperties, LenProperties, ElementOfSeq
<1>5. u \in States
  <2>1. u = [s EXCEPT !.sequence = s.sequence + 1, !.queue = u.queue,
                      !.outcome = [s.outcome EXCEPT ![r] = "pending"]]
    BY DEF Submitted, State
  <2>2. [s.outcome EXCEPT ![r] = "pending"] \in [Requests -> Outcomes]
    BY <1>1 DEF States, Outcomes
  <2>3. s.sequence + 1 \in Nat /\ u.queue \in Seq(Job)
    BY <1>3, <1>4
  <2> HIDE DEF s, u
  <2> QED BY <1>1, <2>1, <2>2, <2>3 DEF States
<1>6. s.outcome[r] = "new" /\ ~s.closed
  BY StateFields
<1>7. t \in Pump(u)
  OBVIOUS
<1> HIDE DEF s, u
<1>8. Processes(u) /\ Answers(u) /\ u.reader = u.process
  BY <1>1, <1>2 DEF Sound, Processes, Answers, SameTransport
<1>9. \A i \in 1..Len(u.queue) : i \in 1..Len(s.queue) \/ i = Len(s.queue) + 1
  BY <1>4
<1>10. OneOwner(u)
  <2>1. ASSUME NEW j \in Job, Knows(u, j) PROVE Knows(s, j) \/ j = job
    BY <1>2, <1>4, <1>9, <2>1 DEF Knows, SameTransport
  <2>2. \A j, k \in Job : Knows(s, j) /\ Knows(s, k) =>
          j.id <= s.sequence /\ (j.id = k.id => j.req = k.req)
    BY <1>1 DEF Sound, OneOwner
  <2>3. \A j \in Job : j.id \in Nat
    BY DEF Job
  <2> QED BY <1>2, <1>3, <2>1, <2>2, <2>3 DEF OneOwner
<1>11. Waiting(u)
  <2>1. \A x \in Requests : u.outcome[x] = IF x = r THEN "pending" ELSE s.outcome[x]
    BY <1>1, <1>2 DEF States
  <2>2. \A i \in 1..Len(s.queue) : s.queue[i].req # r
    BY <1>1, <1>6 DEF Sound, Waiting
  <2>3. r # s.inFlight.req
    BY <1>1, <1>6 DEF Sound, Waiting
  <2>4. job.req = r
    OBVIOUS
  <2> HIDE DEF job
  <2>5. \A i, j \in 1..Len(u.queue) : u.queue[i].req = u.queue[j].req => i = j
    <3>1. \A i, j \in 1..Len(s.queue) : s.queue[i].req = s.queue[j].req => i = j
      BY <1>1 DEF Sound, Waiting
    <3>2. \A i \in 1..Len(s.queue) : u.queue[i].req = s.queue[i].req /\ u.queue[i].req # r
      BY <1>4, <2>2
    <3>3. u.queue[Len(s.queue) + 1].req = r
      BY <1>4, <2>4
    <3> QED BY <1>9, <3>1, <3>2, <3>3
  <2>6. \A i \in 1..Len(u.queue) : u.queue[i].req # u.inFlight.req
    BY <1>1, <1>2, <1>4, <1>9, <2>3, <2>4 DEF Sound, Waiting
  <2>7. \A x \in Requests : (\E i \in 1..Len(u.queue) : u.queue[i].req = x) <=>
          x = r \/ \E i \in 1..Len(s.queue) : s.queue[i].req = x
    <3> SUFFICES ASSUME NEW x \in Requests
                 PROVE  (\E i \in 1..Len(u.queue) : u.queue[i].req = x) <=>
                          x = r \/ \E i \in 1..Len(s.queue) : s.queue[i].req = x
      OBVIOUS
    <3>1. ASSUME NEW i \in 1..Len(u.queue), u.queue[i].req = x
          PROVE  x = r \/ \E k \in 1..Len(s.queue) : s.queue[k].req = x
      BY <1>4, <1>9, <2>4, <3>1
    <3>2. ASSUME NEW i \in 1..Len(s.queue), s.queue[i].req = x
          PROVE  \E k \in 1..Len(u.queue) : u.queue[k].req = x
      <4>1. i \in 1..Len(u.queue) /\ u.queue[i].req = x
        BY <1>4, <3>2
      <4> QED BY <4>1
    <3>3. Len(s.queue) + 1 \in 1..Len(u.queue) /\ u.queue[Len(s.queue) + 1].req = r
      BY <1>4, <2>4
    <3> QED BY <3>1, <3>2, <3>3
  <2>8. \A x \in Requests : u.outcome[x] = "pending" <=>
          x = u.inFlight.req \/ \E i \in 1..Len(u.queue) : u.queue[i].req = x
    <3>1. \A x \in Requests : s.outcome[x] = "pending" <=>
            x = s.inFlight.req \/ \E i \in 1..Len(s.queue) : s.queue[i].req = x
      BY <1>1 DEF Sound, Waiting
    <3>2. u.inFlight = s.inFlight
      BY <1>2
    <3>3. \A x \in Requests : u.outcome[x] = "pending" <=> x = r \/ s.outcome[x] = "pending"
      BY <2>1
    <3> HIDE DEF job
    <3> QED BY <2>7, <3>1, <3>2, <3>3, Zenon
  <2>9. s.sent[r] = 0
    BY <1>1, <1>6 DEF Sound, Waiting
  <2>10. \A i \in 1..Len(u.queue) : u.sent[u.queue[i].req] = 0
    BY <1>1, <1>2, <1>4, <1>9, <2>4, <2>9 DEF Sound, Waiting
  <2>11. \A x \in Requests : /\ u.sent[x] <= 1
                             /\ u.outcome[x] = "new" => u.sent[x] = 0
    <3>1. \A x \in Requests : s.sent[x] <= 1 /\ (s.outcome[x] = "new" => s.sent[x] = 0)
      BY <1>1 DEF Sound, Waiting
    <3>2. u.sent = s.sent /\ \A x \in Requests : u.outcome[x] = "new" => s.outcome[x] = "new"
      BY <1>2, <2>1
    <3> QED BY <3>1, <3>2
  <2>12. u.timers = {u.inFlight.req} \ {None} /\ \A x \in Requests : u.answer[x] \in {None, x}
    BY <1>1, <1>2 DEF Sound, Waiting
  <2> QED BY <2>5, <2>6, <2>8, <2>10, <2>11, <2>12 DEF Waiting
<1>12. Sound(u) /\ Shut(u)
  BY <1>2, <1>5, <1>6, <1>8, <1>10, <1>11 DEF Sound, Shut
<1>13. /\ Sound(t) /\ Shut(t) /\ Pumped(t) /\ OnlyFails(u, t)
       /\ u.inFlight # NoJob => t = u
       /\ \/ t.outcome = u.outcome
          \/ \A x \in Requests : u.outcome[x] = "pending" => t.outcome[x] = "failed"
  BY <1>7, <1>12, PumpSound
<1>14. Serves(s, t)
  <2>1. CASE t.outcome = u.outcome
    BY <1>2, <1>6, <1>13, <2>1 DEF Serves, OnlyFails
  <2>2. CASE s.inFlight = NoJob /\ \A x \in Requests : u.outcome[x] = "pending" => t.outcome[x] = "failed"
    <3>1. s.queue = <<>>
      BY <1>1, <2>2 DEF Pumped
    <3>2. \A x \in Requests : s.outcome[x] # "pending"
      <4>1. \A x \in Requests : s.outcome[x] = "pending" <=>
              x = s.inFlight.req \/ \E i \in 1..Len(s.queue) : s.queue[i].req = x
        BY <1>1 DEF Sound, Waiting
      <4>2. \A x \in Requests : x # s.inFlight.req
        <5>1. NoJob.req = None
          BY DEF NoJob
        <5>2. s.inFlight = NoJob
          BY <2>2
        <5> QED BY <5>1, <5>2, NodeAssumption
      <4>3. \A i \in 1..Len(s.queue) : FALSE
        BY <3>1, EmptySeq
      <4> QED BY <4>1, <4>2, <4>3
    <3>3. s.outcome \in [Requests -> Outcomes] /\ t.outcome \in [Requests -> Outcomes]
      BY <1>1, <1>13 DEF Sound, States
    <3>4. \A x \in Requests : t.outcome[x] = IF x = r THEN "failed" ELSE s.outcome[x]
      <4>1. \A x \in Requests : u.outcome[x] = IF x = r THEN "pending" ELSE s.outcome[x]
        BY <1>2, <3>3
      <4>2. \A x \in Requests : \/ t.outcome[x] = u.outcome[x]
                                \/ u.outcome[x] = "pending" /\ t.outcome[x] = "failed"
        BY <1>13 DEF OnlyFails
      <4>3. t.outcome[r] = "failed"
        BY <2>2, <4>1
      <4> QED BY <3>2, <4>1, <4>2, <4>3
    <3>5. t.outcome = [s.outcome EXCEPT ![r] = "failed"]
      BY <3>3, <3>4
    <3> QED BY <1>2, <1>6, <1>13, <3>5 DEF Serves, OnlyFails
  <2> QED BY <1>2, <1>13, <2>1, <2>2
<1> QED BY <1>13, <1>14 DEF Done, s

\* A record of writes that is dropped, or a client marked as closed, is no matter.
LEMMA MarkedSound ==
  ASSUME NEW s, Sound(s), NEW W \in SUBSET s.writes, NEW b \in BOOLEAN
  PROVE  Sound([s EXCEPT !.writes = W]) /\ Sound([s EXCEPT !.closed = b])
<1>1. s \in States
  BY DEF Sound
<1>2. ASSUME NEW t \in States, SameTransport(s, t), t.queue = s.queue, t.inFlight = s.inFlight,
             t.timers = s.timers, t.sequence = s.sequence, t.sent = s.sent,
             t.answer = s.answer, t.outcome = s.outcome
      PROVE  Sound(t)
  <2>1. Processes(t) /\ Answers(t) /\ t.reader = t.process
    BY <1>2 DEF Sound, Processes, Answers, SameTransport
  <2>2. OneOwner(t)
    <3>1. ASSUME NEW j \in Job, Knows(t, j) PROVE Knows(s, j)
      BY <1>2, <3>1 DEF Knows, SameTransport
    <3> QED BY <1>2, <3>1, OwnersKept DEF Sound
  <2>3. Waiting(t)
    BY <1>2 DEF Sound, Waiting
  <2> QED BY <1>2, <2>1, <2>2, <2>3 DEF Sound
<1>3. Sound([s EXCEPT !.writes = W])
  <2> DEFINE t == [s EXCEPT !.writes = W]
  <2>1. t \in States /\ SameTransport(s, t) /\ t.queue = s.queue /\ t.inFlight = s.inFlight
        /\ t.timers = s.timers /\ t.sequence = s.sequence /\ t.sent = s.sent
        /\ t.answer = s.answer /\ t.outcome = s.outcome
    BY <1>1 DEF States, SameTransport
  <2> HIDE DEF t
  <2>2. Sound(t)
    BY <1>2, <2>1
  <2> QED BY <2>2 DEF t
<1>4. Sound([s EXCEPT !.closed = b])
  <2> DEFINE t == [s EXCEPT !.closed = b]
  <2>1. t \in States /\ SameTransport(s, t) /\ t.queue = s.queue /\ t.inFlight = s.inFlight
        /\ t.timers = s.timers /\ t.sequence = s.sequence /\ t.sent = s.sent
        /\ t.answer = s.answer /\ t.outcome = s.outcome
    BY <1>1 DEF States, SameTransport
  <2> HIDE DEF t
  <2>2. Sound(t)
    BY <1>2, <2>1
  <2> QED BY <2>2 DEF t
<1> QED BY <1>3, <1>4

\* close() fails everything and forgets its process.
LEMMA CloseDone == ASSUME IInv PROVE Done(FailAll(Kill([State EXCEPT !.closed = TRUE])))
<1> DEFINE s == [State EXCEPT !.closed = TRUE]
           u == Kill(s)
           t == FailAll(u)
<1>1. Sound(s)
  BY MarkedSound DEF IInv
<1>2. s.closed = TRUE
  BY DEF State
<1> HIDE DEF s
<1>3. Sound(u) /\ SameRequests(s, u) /\ u.process = 0
  BY <1>1, KillSound
<1> HIDE DEF u
<1>4. /\ Sound(t) /\ SameTransport(u, t) /\ OnlyFails(u, t)
      /\ t.inFlight = NoJob /\ t.queue = <<>>
  BY <1>3, FailAllSound
<1> HIDE DEF t
<1>5. t.closed /\ OnlyFails(s, t)
  BY <1>2, <1>3, <1>4 DEF SameRequests, OnlyFails
<1>6. Pumped(t) /\ Shut(t)
  BY <1>3, <1>4 DEF Pumped, Shut, SameTransport
<1>7. Serves(State, t)
  BY <1>5 DEF Serves, s
<1> QED BY <1>4, <1>6, <1>7 DEF Done, t, u, s

\* The request in flight fails, the process is stopped, the next one is sent.
LEMMA RestartDone ==
  ASSUME IInv, NEW s, Sound(s), Shut(s), OnlyFails(State, s), NEW t \in Restart(FailInFlight(s))
  PROVE  Done(t)
<1> DEFINE u == FailInFlight(s)
<1>1. Sound(u) /\ SameTransport(s, u) /\ OnlyFails(s, u) /\ u.inFlight = NoJob /\ u.queue = s.queue
  BY FailInFlightSound
<1>2. Shut(u)
  BY <1>1 DEF Shut, SameTransport, OnlyFails
<1>3. t \in Restart(u)
  OBVIOUS
<1> HIDE DEF u
<1>4. Sound(t) /\ Shut(t) /\ Pumped(t) /\ OnlyFails(u, t)
  BY <1>1, <1>2, <1>3, RestartSound
<1>5. OnlyFails(State, t)
  BY <1>1, <1>4 DEF OnlyFails
<1> QED BY <1>4, <1>5 DEF Done, Serves

\* A state is its fields.
LEMMA SameStates ==
  ASSUME NEW s \in States, NEW t \in States,
         s.closed = t.closed, s.sequence = t.sequence, s.queue = t.queue,
         s.inFlight = t.inFlight, s.timers = t.timers, s.process = t.process,
         s.reader = t.reader, s.procs = t.procs, s.writes = t.writes,
         s.outcome = t.outcome, s.answer = t.answer, s.sent = t.sent
  PROVE  s = t
<1>1. \A u \in States :
        u = [closed |-> u.closed, sequence |-> u.sequence, queue |-> u.queue,
             inFlight |-> u.inFlight, timers |-> u.timers, process |-> u.process,
             reader |-> u.reader, procs |-> u.procs, writes |-> u.writes,
             outcome |-> u.outcome, answer |-> u.answer, sent |-> u.sent]
  BY DEF States
<1> QED BY <1>1, Zenon

\* The timer that is armed belongs to the request in flight.
LEMMA TimeoutDone ==
  ASSUME IInv, NEW r \in timers,
         NEW t \in Restart(Reject([State EXCEPT !.timers = @ \ {r}, !.inFlight = NoJob], {r}))
  PROVE  Done(t)
<1>1. r = State.inFlight.req
  BY StateFields DEF IInv, Sound, Waiting
<1>2. Reject([State EXCEPT !.timers = @ \ {r}, !.inFlight = NoJob], {r}) = FailInFlight(State)
  <2> DEFINE s == State
             u == Reject([s EXCEPT !.timers = s.timers \ {r}, !.inFlight = NoJob], {r})
             v == FailInFlight(s)
  <2>1. s \in States
    BY DEF IInv, Sound
  <2>2. v \in States
    BY FailInFlightSound DEF IInv, Sound
  <2> HIDE DEF s
  <2>3. u \in States
    BY <2>1 DEF States, Reject, Outcomes
  <2>4. /\ u.closed = v.closed /\ u.sequence = v.sequence /\ u.queue = v.queue
        /\ u.inFlight = v.inFlight /\ u.timers = v.timers /\ u.process = v.process
        /\ u.reader = v.reader /\ u.procs = v.procs /\ u.writes = v.writes
        /\ u.answer = v.answer /\ u.sent = v.sent
    BY <1>1, <2>1 DEF States, Reject, FailInFlight, ClearInFlight, s
  <2>5. u.outcome = v.outcome
    BY <1>1, <2>1 DEF States, Reject, FailInFlight, ClearInFlight, s
  <2> HIDE DEF u, v
  <2>6. u = v
    BY <2>2, <2>3, <2>4, <2>5, SameStates
  <2> QED BY <2>6 DEF u, v, s
<1>3. OnlyFails(State, State)
  BY DEF OnlyFails
<1> QED BY <1>2, <1>3, RestartDone DEF IInv

\* The callback of a write whose request is in flight no longer does nothing.
LEMMA WriteFailedDone ==
  ASSUME IInv, NEW w \in writes,
         NEW t \in WriteFailed([State EXCEPT !.writes = @ \ {w}], w)
  PROVE  Done(t)
<1> DEFINE s == [State EXCEPT !.writes = @ \ {w}]
<1>1. Sound(s)
  <2>1. s = [State EXCEPT !.writes = writes \ {w}] /\ writes \ {w} \in SUBSET State.writes
    BY DEF State
  <2> QED BY <2>1, MarkedSound DEF IInv
<1>2. /\ s.closed = State.closed /\ s.queue = State.queue /\ s.inFlight = State.inFlight
      /\ s.process = State.process /\ s.answer = State.answer /\ s.outcome = State.outcome
  BY DEF State
<1>3. t \in WriteFailed(s, w)
  OBVIOUS
<1> HIDE DEF s
<1>4. Shut(s) /\ Pumped(s) /\ OnlyFails(State, s)
  BY <1>2 DEF IInv, Shut, Pumped, OnlyFails
<1>5. CASE t = s
  BY <1>1, <1>4, <1>5 DEF Done, Serves
<1>6. CASE t \in Restart(FailInFlight(s))
  BY <1>1, <1>4, <1>6, RestartDone
<1> QED BY <1>3, <1>5, <1>6 DEF WriteFailed

-----------------------------------------------------------------------------
(* A line arrives. *)

\* A line that is not garbage is the answer to a job the client knows.
Known(s, line) ==
  line.kind = "garbage" \/ \E j \in Job : Knows(s, j) /\ line.id = j.id /\ line.req = j.req

LEMMA LineKnown ==
  ASSUME NEW s, Sound(s), NEW p \in 1..Len(s.procs), NEW i \in 1..Len(s.procs[p].stdout)
  PROVE  Known(s, s.procs[p].stdout[i])
<1> DEFINE line == s.procs[p].stdout[i]
           j == [req |-> line.req, id |-> line.id]
<1>1. line \in Reply
  <2>1. s.procs \in Seq(Process)
    BY DEF Sound, States
  <2>2. s.procs[p] \in Process
    BY <2>1, ElementOfSeq
  <2>3. s.procs[p].stdout \in Seq(Reply)
    BY <2>2 DEF Process
  <2> QED BY <2>3, ElementOfSeq
<1>2. ASSUME line.kind # "garbage"
      PROVE  j \in Job /\ Knows(s, j)
  <2>1. line.req \in Requests /\ line.id \in Nat
    BY <1>1, <1>2 DEF Sound, Answers, Reply
  <2>2. j.req = line.req /\ j.id = line.id /\ j \in Job
    BY <2>1 DEF Job
  <2> HIDE DEF j
  <2> QED BY <1>2, <2>2 DEF Knows
<1> QED BY <1>2 DEF Known

\* The reader takes one line from the pipe.
LEMMA ReadSound ==
  ASSUME NEW s, Sound(s), s.reader # 0, s.procs[s.reader].stdout # <<>>
  PROVE  LET t == [s EXCEPT !.procs[s.reader].stdout = Tail(@)] IN
         /\ Sound(t) /\ SameRequests(s, t) /\ t.process = s.process
<1> DEFINE p == s.reader
           q == [s.procs[p] EXCEPT !.stdout = Tail(@)]
           t == [s EXCEPT !.procs[p].stdout = Tail(@)]
<1>1. /\ s \in States /\ p \in 1..Len(s.procs) /\ s.reader = s.process
      /\ s.procs \in Seq(Process) /\ s.procs[p] \in Process
  BY ElementOfSeq DEF Sound, States, Processes
<1>2. s.procs[p].stdout \in Seq(Reply)
  BY <1>1 DEF Process
<1>3. /\ Tail(s.procs[p].stdout) \in Seq(Reply)
      /\ \A i \in 1..Len(Tail(s.procs[p].stdout)) :
           /\ i + 1 \in 1..Len(s.procs[p].stdout)
           /\ Tail(s.procs[p].stdout)[i] = s.procs[p].stdout[i + 1]
  BY <1>2, HeadTailProperties, LenProperties
<1>4. /\ q \in Process /\ q.killed = s.procs[p].killed /\ q.exitOn = s.procs[p].exitOn
      /\ q.errorOn = s.procs[p].errorOn /\ q.state = s.procs[p].state
      /\ q.stdin = s.procs[p].stdin /\ q.stdout = Tail(s.procs[p].stdout)
  BY <1>1, <1>3 DEF Process
<1> HIDE DEF q
<1>5. t.procs = [s.procs EXCEPT ![p] = q] /\ SameRequests(s, t)
      /\ t.process = s.process /\ t.reader = s.reader
  BY <1>1 DEF States, SameRequests, q
<1> HIDE DEF t
<1>6. /\ t.procs \in Seq(Process) /\ Len(t.procs) = Len(s.procs)
      /\ \A x \in 1..Len(s.procs) : t.procs[x] = IF x = p THEN q ELSE s.procs[x]
  BY <1>1, <1>4, <1>5, ExceptSeq
<1>7. t \in States
  <2>1. t = [s EXCEPT !.procs = t.procs]
    BY <1>1 DEF t, States
  <2> QED BY <1>1, <1>6, <2>1 DEF States
<1>8. ASSUME NEW x \in 1..Len(s.procs)
      PROVE  /\ t.procs[x].killed = s.procs[x].killed
             /\ t.procs[x].exitOn = s.procs[x].exitOn
             /\ t.procs[x].errorOn = s.procs[x].errorOn
             /\ t.procs[x].state = s.procs[x].state
             /\ t.procs[x].stdin = s.procs[x].stdin
  BY <1>4, <1>6
<1>9. ASSUME NEW x \in 1..Len(s.procs), NEW i \in 1..Len(t.procs[x].stdin)
      PROVE  Knows(s, t.procs[x].stdin[i])
  BY <1>8 DEF Knows
<1>10. ASSUME NEW x \in 1..Len(s.procs), NEW i \in 1..Len(t.procs[x].stdout)
       PROVE  \/ t.procs[x].stdout[i].kind = "garbage"
              \/ \E j \in Job : /\ Knows(s, j)
                                /\ t.procs[x].stdout[i].id = j.id
                                /\ t.procs[x].stdout[i].req = j.req
  <2>1. PICK k \in 1..Len(s.procs[x].stdout) : t.procs[x].stdout[i] = s.procs[x].stdout[k]
    <3>1. CASE x = p
      <4>1. t.procs[x].stdout = Tail(s.procs[p].stdout)
        BY <1>1, <1>4, <1>6, <3>1
      <4> QED BY <1>3, <3>1, <4>1
    <3>2. CASE x # p
      BY <1>6, <3>2
    <3> QED BY <3>1, <3>2
  <2> HIDE DEF p
  <2>2. Known(s, s.procs[x].stdout[k])
    BY LineKnown
  <2> QED BY <2>1, <2>2, Zenon DEF Known
<1>11. Sound(t)
  BY <1>5, <1>6, <1>7, <1>8, <1>9, <1>10, PipesSound
<1> QED BY <1>5, <1>11 DEF t

\* The request in flight is answered.
LEMMA AnsweredSound ==
  ASSUME NEW s, Sound(s), NEW r \in Requests, s.inFlight.req = r, s.inFlight \in Job
  PROVE  LET t == ClearInFlight([s EXCEPT !.outcome[r] = "answered", !.answer[r] = r]) IN
         /\ Sound(t) /\ SameTransport(s, t) /\ t.closed = s.closed
         /\ t.inFlight = NoJob /\ t.queue = s.queue
         /\ t.outcome = [s.outcome EXCEPT ![r] = "answered"]
         /\ t.answer = [s.answer EXCEPT ![r] = r]
<1> DEFINE t == ClearInFlight([s EXCEPT !.outcome[r] = "answered", !.answer[r] = r])
<1>1. s \in States
  BY DEF Sound
<1>2. /\ SameTransport(s, t) /\ t.closed = s.closed /\ t.sequence = s.sequence
      /\ t.inFlight = NoJob /\ t.queue = s.queue /\ t.sent = s.sent /\ t.writes = s.writes
      /\ t.timers = s.timers \ {r}
      /\ t.outcome = [s.outcome EXCEPT ![r] = "answered"]
      /\ t.answer = [s.answer EXCEPT ![r] = r]
  BY <1>1 DEF ClearInFlight, States, SameTransport
<1>3. t \in States
  BY <1>1 DEF ClearInFlight, States, Outcomes
<1> HIDE DEF t
<1>4. Processes(t) /\ Answers(t) /\ t.reader = t.process
  BY <1>2 DEF Sound, Processes, Answers, SameTransport
<1>5. OneOwner(t)
  <2>1. ASSUME NEW j \in Job, Knows(t, j) PROVE Knows(s, j)
    BY <1>2, <2>1, NodeAssumption DEF Knows, SameTransport, Job, NoJob
  <2> QED BY <1>2, <2>1, OwnersKept DEF Sound
<1>6. Waiting(t)
  <2>1. /\ NoJob.req = None /\ None \notin Requests
        /\ \A i \in 1..Len(s.queue) : s.queue[i].req \in Requests
    <3>1. \A i \in 1..Len(s.queue) : s.queue[i] \in Job
      BY <1>1, ElementOfSeq DEF States
    <3> QED BY <3>1, NodeAssumption DEF Job, NoJob
  <2>2. \A x \in Requests : t.outcome[x] = IF x = r THEN "answered" ELSE s.outcome[x]
    BY <1>1, <1>2 DEF States
  <2>3. \A x \in Requests : t.answer[x] \in {None, x}
    <3>1. \A x \in Requests : t.answer[x] = IF x = r THEN r ELSE s.answer[x]
      BY <1>1, <1>2 DEF States
    <3>2. \A x \in Requests : s.answer[x] \in {None, x}
      BY DEF Sound, Waiting
    <3> QED BY <3>1, <3>2
  <2>4. \A x \in Requests : t.outcome[x] = "pending" <=>
          x = t.inFlight.req \/ \E i \in 1..Len(t.queue) : t.queue[i].req = x
    <3>1. \A x \in Requests : s.outcome[x] = "pending" <=>
            x = r \/ \E i \in 1..Len(s.queue) : s.queue[i].req = x
      BY DEF Sound, Waiting
    <3>2. \A i \in 1..Len(s.queue) : s.queue[i].req # r
      BY DEF Sound, Waiting
    <3>3. \A x \in Requests : x # t.inFlight.req
      BY <1>2, <2>1
    <3>4. \A x \in Requests : t.outcome[x] = "pending" <=> x # r /\ s.outcome[x] = "pending"
      BY <2>2
    <3>5. t.queue = s.queue
      BY <1>2
    <3>6. \A x \in Requests : t.outcome[x] = "pending" <=> \E i \in 1..Len(s.queue) : s.queue[i].req = x
      BY <3>1, <3>2, <3>4, Zenon
    <3> QED BY <3>3, <3>5, <3>6, Zenon
  <2>5. t.timers = {t.inFlight.req} \ {None}
    BY <1>2, <2>1 DEF Sound, Waiting
  <2>6. \A x \in Requests : t.sent[x] <= 1 /\ (t.outcome[x] = "new" => t.sent[x] = 0)
    <3>1. \A x \in Requests : s.sent[x] <= 1 /\ (s.outcome[x] = "new" => s.sent[x] = 0)
      BY DEF Sound, Waiting
    <3>2. t.sent = s.sent /\ \A x \in Requests : t.outcome[x] = "new" => s.outcome[x] = "new"
      BY <1>2, <2>2
    <3> QED BY <3>1, <3>2
  <2>7. /\ \A i, j \in 1..Len(t.queue) : t.queue[i].req = t.queue[j].req => i = j
        /\ \A i \in 1..Len(t.queue) : t.queue[i].req # t.inFlight.req
        /\ \A i \in 1..Len(t.queue) : t.sent[t.queue[i].req] = 0
    BY <1>2, <2>1 DEF Sound, Waiting
  <2> QED BY <2>3, <2>4, <2>5, <2>6, <2>7 DEF Waiting
<1> QED BY <1>2, <1>3, <1>4, <1>5, <1>6 DEF Sound, t

\* #onLine settles the request in flight with its own answer, or with an error.
LEMMA LineDone ==
  ASSUME IInv, reader # 0, procs[reader].stdout # <<>>,
         NEW t \in OnLine([State EXCEPT !.procs[reader].stdout = Tail(@)],
                          Head(procs[reader].stdout))
  PROVE  Done(t)
<1> DEFINE s == [State EXCEPT !.procs[reader].stdout = Tail(@)]
           line == Head(procs[reader].stdout)
<1>1. Sound(s) /\ SameRequests(State, s) /\ s.process = State.process
  BY StateFields, ReadSound DEF IInv
<1>2. t \in OnLine(s, line)
  OBVIOUS
<1>3. Sound(State) /\ Pumped(State) /\ Shut(State) /\ State \in States
  BY DEF IInv, Sound
<1>4. reader \in 1..Len(procs) /\ reader = process /\ ~closed
  BY <1>3, StateFields DEF Sound, Processes, States, Shut
<1>5. line = procs[reader].stdout[1] /\ 1 \in 1..Len(procs[reader].stdout)
  <2>1. procs[reader] \in Process
    BY <1>3, <1>4, StateFields, ElementOfSeq DEF States
  <2>2. procs[reader].stdout \in Seq(Reply)
    BY <2>1 DEF Process
  <2> QED BY <2>2, EmptySeq
<1>6. \/ line.kind = "garbage"
      \/ \E j \in Job : Knows(State, j) /\ line.id = j.id /\ line.req = j.req
  <2>1. Known(State, line)
    BY <1>3, <1>4, <1>5, LineKnown, StateFields
  <2> QED BY <2>1 DEF Known
<1> HIDE DEF s, line
<1>7. Shut(s) /\ Pumped(s) /\ OnlyFails(State, s) /\ s.process # 0
  BY <1>1, <1>3, <1>4, StateFields DEF Shut, Pumped, OnlyFails, SameRequests
<1>8. CASE t = s
  BY <1>1, <1>7, <1>8 DEF Done, Serves
<1>9. CASE t \in Pump(FailInFlight(s))
  <2> DEFINE u == FailInFlight(s)
  <2>1. Sound(u) /\ SameTransport(s, u) /\ OnlyFails(s, u) /\ u.queue = s.queue /\ u.inFlight = NoJob
    BY <1>1, FailInFlightSound
  <2>2. Shut(u)
    BY <1>7, <2>1 DEF Shut, SameTransport, OnlyFails
  <2>3. t \in Pump(u)
    BY <1>9
  <2> HIDE DEF u
  <2>4. Sound(t) /\ Shut(t) /\ Pumped(t) /\ OnlyFails(u, t)
    BY <2>1, <2>2, <2>3, PumpSound
  <2>5. OnlyFails(State, t)
    BY <1>7, <2>1, <2>4 DEF OnlyFails
  <2> QED BY <2>4, <2>5 DEF Done, Serves
<1>10. ASSUME line.kind = "ok", line.id = s.inFlight.id, s.inFlight # NoJob
       PROVE  /\ s.inFlight \in Job /\ s.inFlight.req \in Requests /\ line.req = s.inFlight.req
              /\ s.outcome[s.inFlight.req] = "pending"
  <2>1. PICK j \in Job : Knows(State, j) /\ line.id = j.id /\ line.req = j.req
    BY <1>6, <1>10
  <2>2. State.inFlight = s.inFlight /\ s.inFlight \in Job
    BY <1>1, <1>3, <1>10 DEF SameRequests, States
  <2>3. Knows(State, s.inFlight)
    BY <2>2 DEF Knows
  <2>4. j.req = s.inFlight.req
    BY <1>3, <1>10, <2>1, <2>2, <2>3 DEF Sound, OneOwner
  <2>5. s.inFlight.req \in Requests
    BY <2>2 DEF Job
  <2> QED BY <1>1, <2>1, <2>2, <2>4, <2>5 DEF Sound, Waiting
<1>11. CASE /\ t \in Pump(ClearInFlight(Resolve(s, s.inFlight.req, line)))
            /\ line.id = s.inFlight.id /\ s.inFlight # NoJob /\ line.kind = "ok"
  <2> DEFINE r == s.inFlight.req
             u == ClearInFlight([s EXCEPT !.outcome[r] = "answered", !.answer[r] = r])
  <2>1. r \in Requests /\ s.inFlight \in Job /\ line.req = r /\ s.outcome[r] = "pending"
    BY <1>10, <1>11
  <2>2. ClearInFlight(Resolve(s, r, line)) = u
    BY <1>11, <2>1 DEF Resolve
  <2>3. /\ Sound(u) /\ SameTransport(s, u) /\ u.closed = s.closed /\ u.queue = s.queue
        /\ u.inFlight = NoJob
        /\ u.outcome = [s.outcome EXCEPT ![r] = "answered"]
        /\ u.answer = [s.answer EXCEPT ![r] = r]
    BY <1>1, <2>1, AnsweredSound
  <2>4. t \in Pump(u)
    BY <1>11, <2>2
  <2> HIDE DEF u
  <2>5. Shut(u) /\ u.process # 0
    BY <1>7, <2>3 DEF Shut, SameTransport
  <2>6. Sound(t) /\ Shut(t) /\ Pumped(t) /\ OnlyFails(u, t) /\ t.outcome = u.outcome
    BY <2>3, <2>4, <2>5, PumpSound
  <2>7. Serves(State, t)
    <3>1. /\ t.closed = State.closed /\ ~State.closed
          /\ t.answer = [State.answer EXCEPT ![r] = r]
          /\ State.outcome[r] = "pending"
          /\ t.outcome = [State.outcome EXCEPT ![r] = "answered"]
      BY <1>1, <1>4, <2>1, <2>3, <2>6, StateFields DEF OnlyFails, SameRequests
    <3> QED BY <2>1, <3>1 DEF Serves
  <2> QED BY <2>6, <2>7 DEF Done
<1>12. ASSUME line.kind # "ok"
       PROVE  ClearInFlight(Resolve(s, s.inFlight.req, line)) = FailInFlight(s)
  BY <1>12 DEF Resolve, FailInFlight
<1> QED BY <1>2, <1>8, <1>9, <1>11, <1>12 DEF OnLine

-----------------------------------------------------------------------------
(* A process ends. *)

\* The current process is gone: nothing reads from it any more.
LEMMA ExitLost ==
  ASSUME NEW s, Sound(s), s.process # 0, NEW m \in Process, m.state = "gone", ~m.killed,
         m.stdin = s.procs[s.process].stdin,
         NEW u, u = [s EXCEPT !.process = 0, !.procs = [s.procs EXCEPT ![s.process] = m]]
  PROVE  LET t == CloseReaders(u) IN
         Sound(t) /\ SameRequests(s, t) /\ t.process = 0
<1> DEFINE p == s.process
           q == [m EXCEPT !.stdout = <<>>]
           t == CloseReaders(u)
<1>1. /\ s \in States /\ p \in 1..Len(s.procs) /\ s.reader = p
      /\ s.procs \in Seq(Process)
  BY DEF Sound, States, Processes
<1>2. /\ q \in Process /\ q.state = "gone" /\ ~q.killed
      /\ q.stdin = s.procs[p].stdin /\ q.stdout = <<>>
  BY EmptySeq DEF Process
<1>3. /\ u.procs \in Seq(Process) /\ Len(u.procs) = Len(s.procs)
      /\ \A x \in 1..Len(s.procs) : u.procs[x] = IF x = p THEN m ELSE s.procs[x]
  <2>1. u.procs = [s.procs EXCEPT ![p] = m]
    BY <1>1 DEF States
  <2> QED BY <1>1, <2>1, ExceptSeq
<1>4. /\ t.procs = [u.procs EXCEPT ![p] = q] /\ SameRequests(s, t)
      /\ t.process = 0 /\ t.reader = 0 /\ t.writes = s.writes
  <2>1. u.reader = p /\ p # 0
    BY <1>1 DEF States
  <2>2. t = [u EXCEPT !.reader = 0, !.procs[p].stdout = <<>>]
    BY <2>1 DEF CloseReaders
  <2>3. u.procs[p] = m
    BY <1>1, <1>3
  <2>4. t.procs = [u.procs EXCEPT ![p] = [u.procs[p] EXCEPT !.stdout = <<>>]]
    BY <1>1, <2>2 DEF States
  <2> QED BY <1>1, <2>2, <2>3, <2>4 DEF SameRequests, States
<1>5. /\ t.procs \in Seq(Process) /\ Len(t.procs) = Len(s.procs)
      /\ \A x \in 1..Len(s.procs) : t.procs[x] = IF x = p THEN q ELSE s.procs[x]
  <2> HIDE DEF q, t
  <2> QED BY <1>1, <1>2, <1>3, <1>4, ExceptSeq
<1>6. t \in States
  <2>1. u \in States
    <3>1. u = [s EXCEPT !.process = 0, !.procs = u.procs]
      BY <1>1 DEF States
    <3> QED BY <1>1, <1>3, <3>1 DEF States
  <2>2. u.reader # 0 /\ u.reader = p
    BY <1>1 DEF States
  <2>3. t = [u EXCEPT !.reader = 0, !.procs = [u.procs EXCEPT ![p].stdout = <<>>]]
    BY <2>2 DEF CloseReaders
  <2>4. t.procs = [u.procs EXCEPT ![p].stdout = <<>>]
    BY <2>1, <2>3 DEF States
  <2> HIDE DEF t
  <2>5. t = [u EXCEPT !.reader = 0, !.procs = t.procs]
    BY <2>3, <2>4
  <2> QED BY <1>5, <2>1, <2>5 DEF States
<1> HIDE DEF q, t
<1> QED BY <1>2, <1>4, <1>5, <1>6, ProcessLost DEF t

\* What is left of a process whose 'exit' or 'error' event has come.
LEMMA GoneFields ==
  ASSUME IInv, NEW p \in 1..Len(procs)
  PROVE  LET gone == [State EXCEPT !.procs[p].state = "gone"] IN
         /\ gone = [State EXCEPT !.procs = [procs EXCEPT ![p] = [procs[p] EXCEPT !.state = "gone"]]]
         /\ procs \in Seq(Process) /\ procs[p] \in Process
BY StateFields, ElementOfSeq DEF State, IInv, Sound, States

\* Nobody listens to a process that was killed.
LEMMA GoneDone ==
  ASSUME IInv, NEW p \in 1..Len(procs), procs[p].killed
  PROVE  Done([State EXCEPT !.procs[p].state = "gone"])
<1> DEFINE s == State
           t == [s EXCEPT !.procs[p].state = "gone"]
           q == [procs[p] EXCEPT !.state = "gone"]
<1>1. Sound(s) /\ Pumped(s) /\ Shut(s) /\ s \in States /\ s.procs = procs
  BY StateFields DEF IInv, Sound
<1>2. /\ t = [s EXCEPT !.procs = [procs EXCEPT ![p] = q]]
      /\ procs \in Seq(Process) /\ procs[p] \in Process
  BY GoneFields
<1>3. /\ q \in Process /\ q.killed = procs[p].killed /\ q.exitOn = procs[p].exitOn
      /\ q.errorOn = procs[p].errorOn /\ q.stdin = procs[p].stdin /\ q.stdout = procs[p].stdout
  BY <1>2 DEF Process
<1> HIDE DEF q
<1>4. /\ t.procs = [procs EXCEPT ![p] = q] /\ SameRequests(s, t)
      /\ t.process = s.process /\ t.reader = s.reader
  <2> HIDE DEF t, s
  <2> QED BY <1>1, <1>2 DEF SameRequests, States
<1> HIDE DEF t, s
<1>5. /\ t.procs \in Seq(Process) /\ Len(t.procs) = Len(s.procs)
      /\ \A x \in 1..Len(s.procs) : t.procs[x] = IF x = p THEN q ELSE s.procs[x]
  BY <1>1, <1>2, <1>3, <1>4, ExceptSeq
<1>6. t \in States
  BY <1>1, <1>2, <1>4, <1>5 DEF States
<1>7. \A x \in 1..Len(s.procs) :
        /\ t.procs[x].killed = s.procs[x].killed
        /\ t.procs[x].exitOn = s.procs[x].exitOn
        /\ t.procs[x].errorOn = s.procs[x].errorOn
        /\ t.procs[x].stdin = s.procs[x].stdin
        /\ t.procs[x].stdout = s.procs[x].stdout
        /\ s.procs[x].killed \/ t.procs[x].state = s.procs[x].state
  BY <1>1, <1>3, <1>5
<1>8. ASSUME NEW x \in 1..Len(s.procs), NEW i \in 1..Len(t.procs[x].stdin)
      PROVE  Knows(s, t.procs[x].stdin[i])
  BY <1>7 DEF Knows
<1>9. ASSUME NEW x \in 1..Len(s.procs), NEW i \in 1..Len(t.procs[x].stdout)
      PROVE  \/ t.procs[x].stdout[i].kind = "garbage"
             \/ \E j \in Job : /\ Knows(s, j)
                               /\ t.procs[x].stdout[i].id = j.id
                               /\ t.procs[x].stdout[i].req = j.req
  <2>1. t.procs[x].stdout = s.procs[x].stdout
    BY <1>7
  <2>2. i \in 1..Len(s.procs[x].stdout)
    BY <2>1
  <2>3. Known(s, s.procs[x].stdout[i])
    BY <1>1, <2>2, LineKnown
  <2> QED BY <2>1, <2>3, Zenon DEF Known
<1>10. Sound(t)
  BY <1>1, <1>4, <1>5, <1>6, <1>7, <1>8, <1>9, PipesSound
<1>11. Pumped(t) /\ Shut(t) /\ OnlyFails(s, t)
  BY <1>1, <1>4 DEF Pumped, Shut, OnlyFails, SameRequests
<1> QED BY <1>10, <1>11 DEF Done, Serves, t, s

\* 'exit' of the current process.
LEMMA ExitDone ==
  ASSUME IInv, NEW p \in 1..Len(procs), procs[p].state = "exited", procs[p].exitOn,
         NEW t \in OnExit([State EXCEPT !.procs[p].state = "gone"])
  PROVE  Done(t)
<1> DEFINE s == State
           m == [procs[p] EXCEPT !.state = "gone"]
           u == [[s EXCEPT !.procs[p].state = "gone"] EXCEPT !.process = 0]
           v == CloseReaders(u)
           x == FailInFlight(v)
<1>1. Sound(s) /\ Shut(s) /\ s \in States /\ s.procs = procs
  BY StateFields DEF IInv, Sound
<1>2. p = s.process /\ p # 0 /\ ~procs[p].killed
  BY <1>1 DEF Sound, Processes
<1>3. m \in Process /\ m.state = "gone" /\ ~m.killed /\ m.stdin = procs[p].stdin
  BY <1>2, GoneFields DEF Process
<1>4. u = [s EXCEPT !.process = 0, !.procs = [s.procs EXCEPT ![s.process] = m]]
  <2> DEFINE g == [s EXCEPT !.procs[p].state = "gone"]
             M == [procs EXCEPT ![p] = m]
  <2>1. g = [s EXCEPT !.procs = M]
    BY GoneFields
  <2>2. u = [g EXCEPT !.process = 0]
    OBVIOUS
  <2>3. M = [s.procs EXCEPT ![s.process] = m]
    BY <1>1, <1>2
  <2> HIDE DEF M, g, m
  <2>4. u = [s EXCEPT !.process = 0, !.procs = M]
    <3> HIDE DEF u
    <3> QED BY <2>1, <2>2 DEF State
  <2> QED BY <2>3, <2>4
<1>5. t \in Pump(x)
  BY DEF OnExit
<1> HIDE DEF s, m, u
<1>6. Sound(v) /\ SameRequests(s, v) /\ v.process = 0
  BY <1>1, <1>2, <1>3, <1>4, ExitLost
<1> HIDE DEF v
<1>7. Sound(x) /\ SameTransport(v, x) /\ OnlyFails(v, x) /\ x.inFlight = NoJob /\ x.queue = v.queue
  BY <1>6, FailInFlightSound
<1> HIDE DEF x
<1>8. Shut(x)
  BY <1>1, <1>6, <1>7 DEF Shut, SameRequests, SameTransport, OnlyFails
<1>9. Sound(t) /\ Shut(t) /\ Pumped(t) /\ OnlyFails(x, t)
  BY <1>5, <1>7, <1>8, PumpSound
<1>10. OnlyFails(s, t)
  BY <1>6, <1>7, <1>9 DEF OnlyFails, SameRequests
<1> QED BY <1>9, <1>10 DEF Done, Serves, s

\* 'error' of the current process.
LEMMA ErrorDone ==
  ASSUME IInv, NEW p \in 1..Len(procs), procs[p].state = "failing", procs[p].errorOn
  PROVE  Done(OnError([State EXCEPT !.procs[p].state = "gone"], p))
<1> DEFINE s == State
           m == [procs[p] EXCEPT !.state = "gone", !.exitOn = FALSE]
           u == [[s EXCEPT !.procs[p].state = "gone"] EXCEPT !.procs[p].exitOn = FALSE, !.process = 0]
           v == CloseReaders(u)
           x == FailAll(v)
<1>1. Sound(s) /\ Shut(s) /\ s \in States /\ s.procs = procs
  BY StateFields DEF IInv, Sound
<1>2. p = s.process /\ p # 0 /\ ~procs[p].killed
  BY <1>1 DEF Sound, Processes
<1>3. m \in Process /\ m.state = "gone" /\ ~m.killed /\ m.stdin = procs[p].stdin
  BY <1>2, GoneFields DEF Process
<1>4. u = [s EXCEPT !.process = 0, !.procs = [s.procs EXCEPT ![s.process] = m]]
  <2> DEFINE w == [procs[p] EXCEPT !.state = "gone"]
             P == [procs EXCEPT ![p] = w]
             g == [s EXCEPT !.procs = P]
  <2>1. u = [g EXCEPT !.procs[p].exitOn = FALSE, !.process = 0] /\ procs \in Seq(Process)
    BY GoneFields
  <2>2. m = [w EXCEPT !.exitOn = FALSE]
    OBVIOUS
  <2>3. P[p] = w /\ [P EXCEPT ![p] = m] = [procs EXCEPT ![p] = m]
    <3>1. procs \in [1..Len(procs) -> Process]
      BY <2>1, LenProperties
    <3> HIDE DEF m, w
    <3> QED BY <3>1
  <2>4. [P EXCEPT ![p].exitOn = FALSE] = [procs EXCEPT ![p] = m]
    <3> HIDE DEF P, m, w
    <3> QED BY <2>2, <2>3
  <2> DEFINE M == [procs EXCEPT ![p] = m]
  <2> HIDE DEF P, m, w
  <2>5. g.procs = P
    BY DEF State
  <2>6. u = [g EXCEPT !.procs = [g.procs EXCEPT ![p].exitOn = FALSE], !.process = 0]
    BY <2>1
  <2>7. [g.procs EXCEPT ![p].exitOn = FALSE] = M
    BY <2>4, <2>5
  <2>8. M = [s.procs EXCEPT ![s.process] = m]
    BY <1>1, <1>2
  <2> HIDE DEF M
  <2>9. u = [g EXCEPT !.procs = M, !.process = 0]
    BY <2>6, <2>7
  <2>10. u = [s EXCEPT !.process = 0, !.procs = M]
    <3> HIDE DEF u
    <3> QED BY <2>9 DEF State
  <2> QED BY <2>8, <2>10
<1>5. x = OnError([s EXCEPT !.procs[p].state = "gone"], p)
  BY DEF OnError
<1> HIDE DEF s, m, u
<1>6. Sound(v) /\ SameRequests(s, v) /\ v.process = 0
  BY <1>1, <1>2, <1>3, <1>4, ExitLost
<1> HIDE DEF v
<1>7. Sound(x) /\ SameTransport(v, x) /\ OnlyFails(v, x) /\ x.inFlight = NoJob /\ x.queue = <<>>
  BY <1>6, FailAllSound
<1> HIDE DEF x
<1>8. Shut(x) /\ Pumped(x)
  BY <1>1, <1>6, <1>7 DEF Shut, Pumped, SameRequests, SameTransport, OnlyFails
<1>10. OnlyFails(s, x)
  BY <1>6, <1>7 DEF OnlyFails, SameRequests
<1> QED BY <1>5, <1>7, <1>8, <1>10 DEF Done, Serves, s

-----------------------------------------------------------------------------
(* The daemon at work. *)

\* The state with other processes, written out.
LEMMA ProcsReplaced ==
  ASSUME NEW P
  PROVE  [State EXCEPT !.procs = P] =
           [closed |-> closed, sequence |-> sequence, queue |-> queue, inFlight |-> inFlight,
            timers |-> timers, process |-> process, reader |-> reader, procs |-> P,
            writes |-> writes, outcome |-> outcome, answer |-> answer, sent |-> sent]
BY DEF State

\* LineKnown, of the current state.
LEMMA StateLine ==
  ASSUME IInv, NEW p \in 1..Len(procs), NEW i \in 1..Len(procs[p].stdout)
  PROVE  \/ procs[p].stdout[i].kind = "garbage"
         \/ \E j \in Job : /\ Knows(State, j)
                           /\ procs[p].stdout[i].id = j.id
                           /\ procs[p].stdout[i].req = j.req
<1> DEFINE s == State
           line == procs[p].stdout[i]
<1>1. Sound(s) /\ s.procs = procs
  BY StateFields DEF IInv
<1> HIDE DEF s
<1>2. p \in 1..Len(s.procs) /\ i \in 1..Len(s.procs[p].stdout) /\ line = s.procs[p].stdout[i]
  BY <1>1
<1> HIDE DEF line
<1>3. Known(s, line)
  BY <1>1, <1>2, LineKnown
<1> QED BY <1>3 DEF s, line, Known

\* One process changes, and every job in its pipes was known before.
LEMMA PipeDone ==
  ASSUME IInv, NEW p \in 1..Len(procs), NEW q \in Process,
         q.killed = procs[p].killed, q.exitOn = procs[p].exitOn, q.errorOn = procs[p].errorOn,
         q.state # "gone", procs[p].state # "gone",
         \A i \in 1..Len(q.stdin) : Knows(State, q.stdin[i]),
         \A i \in 1..Len(q.stdout) :
           \/ q.stdout[i].kind = "garbage"
           \/ \E j \in Job : Knows(State, j) /\ q.stdout[i].id = j.id /\ q.stdout[i].req = j.req,
         procs' = [procs EXCEPT ![p] = q], faults' \in Nat,
         UNCHANGED <<closed, sequence, queue, inFlight, timers, process, reader, writes,
                     outcome, answer, sent, unhandled>>
  PROVE  IInv' /\ [Service!Next]_<<closed, outcome, answer>>
<1> DEFINE s == State
           t == [s EXCEPT !.procs = procs']
<1>1. Sound(s) /\ Pumped(s) /\ Shut(s) /\ s \in States /\ s.procs = procs /\ procs \in Seq(Process)
  BY StateFields DEF IInv, Sound, States
<1>2. State' = t
  <2>1. /\ closed' = closed /\ sequence' = sequence /\ queue' = queue /\ inFlight' = inFlight
        /\ timers' = timers /\ process' = process /\ reader' = reader /\ writes' = writes
        /\ outcome' = outcome /\ answer' = answer /\ sent' = sent
    OBVIOUS
  <2>2. t = [closed |-> closed, sequence |-> sequence, queue |-> queue, inFlight |-> inFlight,
             timers |-> timers, process |-> process, reader |-> reader, procs |-> procs',
             writes |-> writes, outcome |-> outcome, answer |-> answer, sent |-> sent]
    BY ProcsReplaced
  <2> HIDE DEF t
  <2> QED BY <2>1, <2>2, Zenon DEF State
<1> HIDE DEF s
<1>3. SameRequests(s, t) /\ t.process = s.process /\ t.reader = s.reader /\ t.procs = procs'
  BY <1>1 DEF SameRequests, States
<1>4. /\ procs' \in Seq(Process) /\ Len(procs') = Len(procs)
      /\ \A x \in 1..Len(procs) : procs'[x] = IF x = p THEN q ELSE procs[x]
  BY <1>1, ExceptSeq
<1>5. t \in States
  BY <1>1, <1>4 DEF States
<1> HIDE DEF t
<1>6. ASSUME NEW x \in 1..Len(s.procs)
      PROVE  /\ t.procs[x].killed = s.procs[x].killed
             /\ t.procs[x].exitOn = s.procs[x].exitOn
             /\ t.procs[x].errorOn = s.procs[x].errorOn
             /\ t.procs[x].state = "gone" <=> s.procs[x].state = "gone"
  BY <1>1, <1>3, <1>4
<1>7. ASSUME NEW x \in 1..Len(s.procs), NEW i \in 1..Len(t.procs[x].stdin)
      PROVE  Knows(s, t.procs[x].stdin[i])
  <2>1. CASE x = p
    BY <1>1, <1>3, <1>4, <2>1 DEF s
  <2>2. CASE x # p
    <3>1. t.procs[x] = s.procs[x]
      BY <1>1, <1>3, <1>4, <2>2
    <3> QED BY <3>1 DEF Knows
  <2> QED BY <2>1, <2>2
<1>8. ASSUME NEW x \in 1..Len(s.procs), NEW i \in 1..Len(t.procs[x].stdout)
      PROVE  \/ t.procs[x].stdout[i].kind = "garbage"
             \/ \E j \in Job : /\ Knows(s, j)
                               /\ t.procs[x].stdout[i].id = j.id
                               /\ t.procs[x].stdout[i].req = j.req
  <2>1. CASE x = p
    <3>1. t.procs[x] = q
      BY <1>1, <1>3, <1>4, <2>1
    <3> QED BY <3>1 DEF s
  <2>2. CASE x # p
    <3>1. t.procs[x] = s.procs[x]
      BY <1>1, <1>3, <1>4, <2>2
    <3>2. i \in 1..Len(s.procs[x].stdout)
      BY <3>1
    <3>3. Known(s, s.procs[x].stdout[i])
      BY <1>1, <3>2, LineKnown
    <3> QED BY <3>1, <3>3, Zenon DEF Known
  <2> QED BY <2>1, <2>2
<1>9. Sound(t)
  BY <1>1, <1>3, <1>4, <1>5, <1>6, <1>7, <1>8, PipesSound
<1>10. Pumped(t) /\ Shut(t)
  BY <1>1, <1>3 DEF Pumped, Shut, SameRequests
<1> QED BY <1>2, <1>9, <1>10 DEF IInv

\* The daemon takes its line from stdin, or none, and writes one to stdout.
LEMMA WrittenDone ==
  ASSUME IInv, NEW p \in 1..Len(procs), Serving(p), NEW line \in Reply,
         NEW rest \in {procs[p].stdin, Tail(procs[p].stdin)},
         rest = procs[p].stdin \/ procs[p].stdin # <<>>,
         \/ line.kind = "garbage"
         \/ /\ procs[p].stdin # <<>>
            /\ line.id = Head(procs[p].stdin).id /\ line.req = Head(procs[p].stdin).req,
         Written(p, line, rest), faults' \in Nat
  PROVE  IInv' /\ [Service!Next]_<<closed, outcome, answer>>
<1> DEFINE w == [procs[p] EXCEPT !.stdin = rest]
           q == [w EXCEPT !.stdout = Append(w.stdout, line)]
<1>1. procs \in Seq(Process) /\ procs[p] \in Process /\ Sound(State) /\ State.procs = procs
  BY GoneFields, StateFields DEF IInv
<1>2. procs[p].stdin \in Seq(Job) /\ procs[p].stdout \in Seq(Reply)
  BY <1>1 DEF Process
<1>3. /\ rest \in Seq(Job) /\ Len(rest) \in Nat
      /\ \A i \in 1..Len(rest) : \E k \in 1..Len(procs[p].stdin) : rest[i] = procs[p].stdin[k]
  <2>1. CASE rest = procs[p].stdin
    BY <1>2, <2>1, LenProperties
  <2>2. CASE rest = Tail(procs[p].stdin) /\ procs[p].stdin # <<>>
    <3>1. /\ rest \in Seq(Job) /\ Len(rest) = Len(procs[p].stdin) - 1
          /\ \A i \in 1..Len(rest) : rest[i] = procs[p].stdin[i + 1]
      BY <1>2, <2>2, HeadTailProperties
    <3>2. Len(rest) \in Nat
      BY <3>1, LenProperties
    <3> QED BY <3>1, <3>2
  <2> QED BY <2>1, <2>2
<1>4. w \in Process /\ w.stdin = rest /\ w.stdout = procs[p].stdout
      /\ w.killed = procs[p].killed /\ w.exitOn = procs[p].exitOn
      /\ w.errorOn = procs[p].errorOn /\ w.state = procs[p].state
  BY <1>1, <1>3 DEF Process
<1> HIDE DEF w
<1>5. /\ Append(w.stdout, line) \in Seq(Reply)
      /\ \A i \in 1..Len(Append(w.stdout, line)) :
           \/ Append(w.stdout, line)[i] = line
           \/ i \in 1..Len(procs[p].stdout) /\ Append(w.stdout, line)[i] = procs[p].stdout[i]
  BY <1>2, <1>4, AppendProperties, LenProperties
<1>6. q \in Process /\ q.stdin = rest /\ q.stdout = Append(w.stdout, line)
      /\ q.killed = procs[p].killed /\ q.exitOn = procs[p].exitOn
      /\ q.errorOn = procs[p].errorOn /\ q.state = procs[p].state
  BY <1>4, <1>5 DEF Process
<1>7. procs' = [procs EXCEPT ![p] = q]
  <2> DEFINE P == [procs EXCEPT ![p] = w]
  <2>1. P[p] = w /\ [P EXCEPT ![p] = q] = [procs EXCEPT ![p] = q]
    <3>1. procs \in [1..Len(procs) -> Process]
      BY <1>1, LenProperties
    <3> HIDE DEF q
    <3> QED BY <3>1
  <2>2. [procs EXCEPT ![p].stdin = rest] = P
    BY DEF w
  <2>3. procs' = [[procs EXCEPT ![p].stdin = rest] EXCEPT ![p].stdout = Append(@, line)]
    BY DEF Written
  <2> HIDE DEF P
  <2>4. procs' = [P EXCEPT ![p] = [P[p] EXCEPT !.stdout = Append(P[p].stdout, line)]]
    BY <2>2, <2>3
  <2> QED BY <2>1, <2>4
<1> HIDE DEF q
<1>8. ASSUME NEW i \in 1..Len(q.stdin) PROVE Knows(State, q.stdin[i])
  BY <1>1, <1>3, <1>6 DEF Knows
<1>9. ASSUME NEW i \in 1..Len(q.stdout)
      PROVE  \/ q.stdout[i].kind = "garbage"
             \/ \E j \in Job : Knows(State, j) /\ q.stdout[i].id = j.id /\ q.stdout[i].req = j.req
  <2>1. CASE q.stdout[i] = line
    <3>1. CASE line.kind = "garbage"
      BY <2>1, <3>1
    <3>2. CASE /\ procs[p].stdin # <<>>
               /\ line.id = Head(procs[p].stdin).id /\ line.req = Head(procs[p].stdin).req
      <4>1. /\ Head(procs[p].stdin) = procs[p].stdin[1]
            /\ Head(procs[p].stdin) \in Job /\ 1 \in 1..Len(procs[p].stdin)
        BY <1>2, <3>2, EmptySeq, ElementOfSeq, HeadTailProperties
      <4>2. Knows(State, Head(procs[p].stdin))
        BY <1>1, <4>1 DEF Knows
      <4> QED BY <2>1, <3>2, <4>1, <4>2
    <3> QED BY <3>1, <3>2
  <2>2. CASE i \in 1..Len(procs[p].stdout) /\ q.stdout[i] = procs[p].stdout[i]
    <3>1. \/ procs[p].stdout[i].kind = "garbage"
          \/ \E j \in Job : /\ Knows(State, j)
                            /\ procs[p].stdout[i].id = j.id
                            /\ procs[p].stdout[i].req = j.req
      BY <1>1, <2>2, StateLine
    <3> QED BY <2>2, <3>1
  <2> QED BY <1>5, <1>6, <2>1, <2>2
<1>10. procs[p].state # "gone" /\ q.state # "gone"
  BY <1>6 DEF Serving
<1>11. UNCHANGED <<closed, sequence, queue, inFlight, timers, process, reader, writes,
                   outcome, answer, sent, unhandled>>
  BY DEF Written
<1> QED BY <1>6, <1>7, <1>8, <1>9, <1>10, <1>11, PipeDone

\* A dead process has nothing more in its stdin.
LEMMA DaemonExitDone ==
  ASSUME IInv, NEW p \in 1..Len(procs), DaemonExit(p)
  PROVE  IInv' /\ [Service!Next]_<<closed, outcome, answer>>
<1> DEFINE w == [procs[p] EXCEPT !.state = "exited"]
           q == [w EXCEPT !.stdin = <<>>]
<1>1. procs \in Seq(Process) /\ procs[p] \in Process /\ Sound(State) /\ State.procs = procs
  BY GoneFields, StateFields DEF IInv
<1>2. q \in Process /\ q.stdin = <<>> /\ q.stdout = procs[p].stdout /\ q.state = "exited"
      /\ q.killed = procs[p].killed /\ q.exitOn = procs[p].exitOn /\ q.errorOn = procs[p].errorOn
  BY <1>1, EmptySeq DEF Process
<1> HIDE DEF w
<1>3. procs' = [procs EXCEPT ![p] = q]
  <2> DEFINE P == [procs EXCEPT ![p] = w]
  <2>1. P[p] = w /\ [P EXCEPT ![p] = q] = [procs EXCEPT ![p] = q]
    <3>1. procs \in [1..Len(procs) -> Process]
      BY <1>1, LenProperties
    <3> HIDE DEF q
    <3> QED BY <3>1
  <2>2. [procs EXCEPT ![p].state = "exited"] = P
    BY DEF w
  <2>3. procs' = [[procs EXCEPT ![p].state = "exited"] EXCEPT ![p].stdin = <<>>]
    BY DEF DaemonExit
  <2> HIDE DEF P
  <2>4. procs' = [P EXCEPT ![p] = [P[p] EXCEPT !.stdin = <<>>]]
    BY <2>2, <2>3
  <2> QED BY <2>1, <2>4
<1> HIDE DEF q
<1>4. \A i \in 1..Len(q.stdin) : FALSE
  BY <1>2, EmptySeq
<1>5. ASSUME NEW i \in 1..Len(q.stdout)
      PROVE  \/ q.stdout[i].kind = "garbage"
             \/ \E j \in Job : Knows(State, j) /\ q.stdout[i].id = j.id /\ q.stdout[i].req = j.req
  <2>1. i \in 1..Len(State.procs[p].stdout) /\ q.stdout[i] = State.procs[p].stdout[i]
    BY <1>1, <1>2
  <2>2. Known(State, State.procs[p].stdout[i])
    <3>1. p \in 1..Len(State.procs)
      BY <1>1
    <3> QED BY <1>1, <2>1, <3>1, LineKnown
  <2> QED BY <2>1, <2>2, Zenon DEF Known
<1>6. /\ procs[p].state # "gone" /\ faults' \in Nat
      /\ UNCHANGED <<closed, sequence, queue, inFlight, timers, process, reader, writes,
                     outcome, answer, sent, unhandled>>
  BY DEF DaemonExit, IInv
<1> QED BY <1>2, <1>3, <1>4, <1>5, <1>6, PipeDone

-----------------------------------------------------------------------------
(* The invariant. *)

\* A new client.
LEMMA InitHolds == Init => IInv /\ Service!Init
<1> SUFFICES ASSUME Init PROVE IInv /\ Service!Init
  OBVIOUS
<1> USE StateFields
<1>1. State \in States
  BY EmptySeq DEF Init, State, States, Outcomes
<1>2. Processes(State) /\ Answers(State)
  BY EmptySeq DEF Init, Processes, Answers
<1>3. OneOwner(State)
  BY EmptySeq, NodeAssumption DEF Init, OneOwner, Knows, Job, NoJob
<1>4. Waiting(State)
  BY EmptySeq, NodeAssumption DEF Init, Waiting, NoJob
<1>5. Pumped(State) /\ Shut(State)
  BY DEF Init, Pumped, Shut
<1> QED BY <1>1, <1>2, <1>3, <1>4, <1>5 DEF Init, IInv, Sound, Service!Init

\* Every callback keeps the invariant, and is a step of RequestService.
LEMMA Step == IInv /\ [Next]_vars => IInv' /\ [Service!Next]_<<closed, outcome, answer>>
<1> SUFFICES ASSUME IInv, [Next]_vars
             PROVE  IInv' /\ [Service!Next]_<<closed, outcome, answer>>
  OBVIOUS
<1>1. unhandled \in BOOLEAN /\ faults \in Nat
  BY DEF IInv
<1>2. ASSUME NEW r \in Requests, Request(r)
      PROVE  IInv' /\ [Service!Next]_<<closed, outcome, answer>>
  <2>1. PICK t : Done(t) /\ Becomes(t)
    <3>1. ASSUME Becomes(Refused(State, r)) PROVE \E t : Done(t) /\ Becomes(t)
      <4>1. State = [State EXCEPT !.sequence = sequence]
        BY DEF State
      <4>2. Done(Refused([State EXCEPT !.sequence = sequence], r))
        BY <1>2, RefusedDone DEF Request
      <4>3. Done(Refused(State, r))
        BY <4>1, <4>2
      <4> QED BY <3>1, <4>3
    <3>2. ASSUME Becomes(Refused([State EXCEPT !.sequence = @ + 1], r))
          PROVE  \E t : Done(t) /\ Becomes(t)
      <4>1. [State EXCEPT !.sequence = @ + 1] = [State EXCEPT !.sequence = sequence + 1]
        BY DEF State
      <4>2. Done(Refused([State EXCEPT !.sequence = sequence + 1], r))
        BY <1>2, RefusedDone DEF Request
      <4>3. Done(Refused([State EXCEPT !.sequence = @ + 1], r))
        BY <4>1, <4>2
      <4> QED BY <3>2, <4>3
    <3>3. ASSUME ~closed, NEW t \in Pump(Submitted(State, r)), Becomes(t)
          PROVE  Done(t)
      BY <1>2, <3>3, SubmittedDone DEF Request
    <3> QED BY <1>2, <3>1, <3>2, <3>3 DEF Request
  <2> QED BY <1>1, <1>2, <2>1, CallbackDone DEF Request
<1>3. ASSUME NEW r \in Requests, Timeout(r)
      PROVE  IInv' /\ [Service!Next]_<<closed, outcome, answer>>
  <2>1. PICK t \in Restart(Reject([State EXCEPT !.timers = @ \ {r}, !.inFlight = NoJob], {r})) :
          Becomes(t)
    BY <1>3 DEF Timeout
  <2>2. Done(t)
    BY <1>3, TimeoutDone DEF Timeout
  <2> QED BY <1>1, <1>3, <2>1, <2>2, CallbackDone DEF Timeout
<1>4. ASSUME Close PROVE IInv' /\ [Service!Next]_<<closed, outcome, answer>>
  BY <1>1, <1>4, CloseDone, CallbackDone DEF Close
<1>5. ASSUME NEW w \in writes, WriteCallback(w)
      PROVE  IInv' /\ [Service!Next]_<<closed, outcome, answer>>
  <2>1. PICK t \in WriteFailed([State EXCEPT !.writes = @ \ {w}], w) : Becomes(t)
    BY <1>5 DEF WriteCallback
  <2>2. Done(t)
    BY WriteFailedDone
  <2> QED BY <1>1, <1>5, <2>1, <2>2, CallbackDone DEF WriteCallback
<1>6. ASSUME LineEvent PROVE IInv' /\ [Service!Next]_<<closed, outcome, answer>>
  <2>1. PICK t \in OnLine([State EXCEPT !.procs[reader].stdout = Tail(@)],
                          Head(procs[reader].stdout)) : Becomes(t)
    BY <1>6 DEF LineEvent
  <2>2. Done(t)
    BY <1>6, LineDone DEF LineEvent
  <2> QED BY <1>1, <1>6, <2>1, <2>2, CallbackDone DEF LineEvent
<1>7. ASSUME NEW p \in 1..Len(procs), procs[p].state # "gone"
      PROVE  /\ ~procs[p].exitOn => procs[p].killed
             /\ ~procs[p].errorOn => procs[p].killed
  BY <1>7, StateFields DEF IInv, Sound, Processes
<1>8. ASSUME NEW p \in 1..Len(procs), ExitEvent(p)
      PROVE  IInv' /\ [Service!Next]_<<closed, outcome, answer>>
  <2>1. CASE procs[p].exitOn
    <3>1. PICK t \in OnExit([State EXCEPT !.procs[p].state = "gone"]) : Becomes(t)
      BY <1>8, <2>1 DEF ExitEvent
    <3>2. Done(t)
      BY <1>8, <2>1, ExitDone DEF ExitEvent
    <3> QED BY <1>1, <1>8, <3>1, <3>2, CallbackDone DEF ExitEvent
  <2>2. CASE ~procs[p].exitOn
    <3>1. Becomes([State EXCEPT !.procs[p].state = "gone"])
      BY <1>8, <2>2 DEF ExitEvent
    <3>2. Done([State EXCEPT !.procs[p].state = "gone"])
      BY <1>7, <1>8, <2>2, GoneDone DEF ExitEvent
    <3> QED BY <1>1, <1>8, <3>1, <3>2, CallbackDone DEF ExitEvent
  <2> QED BY <2>1, <2>2
<1>9. ASSUME NEW p \in 1..Len(procs), ErrorEvent(p)
      PROVE  IInv' /\ [Service!Next]_<<closed, outcome, answer>>
  <2>1. CASE procs[p].errorOn
    <3>1. Becomes(OnError([State EXCEPT !.procs[p].state = "gone"], p))
      BY <1>9, <2>1 DEF ErrorEvent
    <3>2. Done(OnError([State EXCEPT !.procs[p].state = "gone"], p))
      BY <1>9, <2>1, ErrorDone DEF ErrorEvent
    <3>3. unhandled' = unhandled /\ faults' = faults
      BY <1>9, <2>1 DEF ErrorEvent
    <3> QED BY <1>1, <3>1, <3>2, <3>3, CallbackDone
  <2>2. CASE ~procs[p].errorOn
    <3>1. Becomes([State EXCEPT !.procs[p].state = "gone"])
      BY <1>9, <2>2 DEF ErrorEvent
    <3>2. Done([State EXCEPT !.procs[p].state = "gone"])
      BY <1>7, <1>9, <2>2, GoneDone DEF ErrorEvent
    <3>3. unhandled' = TRUE /\ faults' = faults
      BY <1>9, <2>2 DEF ErrorEvent
    <3> QED BY <1>1, <3>1, <3>2, <3>3, CallbackDone
  <2> QED BY <2>1, <2>2
<1>10. ASSUME NEW p \in 1..Len(procs), Serving(p), procs[p].stdin # <<>>
       PROVE  Head(procs[p].stdin) \in Job
  <2>1. procs[p].stdin \in Seq(Job)
    BY GoneFields DEF Process
  <2> QED BY <1>10, <2>1, HeadTailProperties
<1>11. ASSUME NEW p \in 1..Len(procs), DaemonReply(p)
       PROVE  IInv' /\ [Service!Next]_<<closed, outcome, answer>>
  <2> DEFINE job == Head(procs[p].stdin)
  <2>1. PICK kind \in {"ok", "error"} :
          Written(p, [kind |-> kind, id |-> job.id, req |-> job.req], Tail(procs[p].stdin))
    BY <1>11 DEF DaemonReply
  <2>2. Serving(p) /\ procs[p].stdin # <<>> /\ faults' = faults
    BY <1>11 DEF DaemonReply
  <2> DEFINE line == [kind |-> kind, id |-> job.id, req |-> job.req]
  <2>3. line \in Reply /\ line.id = job.id /\ line.req = job.req
    BY <1>10, <2>2 DEF Reply, Job
  <2>4. Written(p, line, Tail(procs[p].stdin))
    BY <2>1
  <2> HIDE DEF line
  <2> QED BY <1>1, <2>2, <2>3, <2>4, WrittenDone
<1>12. ASSUME NEW p \in 1..Len(procs), DaemonFault(p)
       PROVE  IInv' /\ [Service!Next]_<<closed, outcome, answer>>
  <2> DEFINE job == Head(procs[p].stdin)
             noise == [kind |-> "garbage", id |-> 0, req |-> None]
             line == [kind |-> "malformed", id |-> job.id, req |-> job.req]
  <2>1. Serving(p) /\ faults' \in Nat
    BY <1>1, <1>12 DEF DaemonFault
  <2>2. CASE Written(p, noise, procs[p].stdin)
    <3>1. noise \in Reply /\ noise.kind = "garbage"
      BY DEF Reply
    <3> HIDE DEF noise
    <3> QED BY <2>1, <2>2, <3>1, WrittenDone
  <2>3. CASE procs[p].stdin # <<>> /\ Written(p, line, Tail(procs[p].stdin))
    <3>1. line \in Reply /\ line.id = job.id /\ line.req = job.req
      BY <1>10, <2>1, <2>3 DEF Reply, Job
    <3> HIDE DEF line
    <3> QED BY <2>1, <2>3, <3>1, WrittenDone
  <2> QED BY <1>12, <2>2, <2>3 DEF DaemonFault
<1>13. CASE UNCHANGED vars
  <2>1. State' = State /\ unhandled' = unhandled /\ faults' = faults
    BY <1>13 DEF vars, State
  <2> QED BY <1>13, <2>1 DEF IInv, vars
<1> QED BY <1>2, <1>3, <1>4, <1>5, <1>6, <1>8, <1>9, <1>11, <1>12, <1>13, DaemonExitDone DEF Next

-----------------------------------------------------------------------------
(* The theorems. *)

\* Between two callbacks the invariant holds, whatever the daemon does.
THEOREM Inductive == Spec => []IInv
<1>1. Init => IInv
  BY InitHolds
<1>2. IInv /\ [Next]_vars => IInv'
  BY Step
<1> QED BY <1>1, <1>2, PTL DEF Spec

\* What the invariant says of the requests that wait, in terms of the variables.
LEMMA Waits ==
  ASSUME IInv
  PROVE  /\ \A r \in Requests : r \in Pending <=>
              r = inFlight.req \/ \E i \in 1..Len(queue) : queue[i].req = r
         /\ timers = {inFlight.req} \ {None}
         /\ inFlight = NoJob \/ inFlight.req \in Requests
         /\ \A i \in 1..Len(queue) : queue[i].req \in Requests
         /\ queue \in Seq(Job) /\ NoJob.req = None
         /\ queue # <<>> => inFlight # NoJob
<1>1. /\ inFlight = NoJob \/ inFlight.req \in Requests
      /\ queue \in Seq(Job)
  BY StateFields DEF IInv, Sound, States, Job
<1>2. \A i \in 1..Len(queue) : queue[i] \in Job
  BY <1>1, ElementOfSeq
<1>3. \A i \in 1..Len(queue) : queue[i].req \in Requests
  BY <1>2 DEF Job
<1>4. /\ \A r \in Requests : outcome[r] = "pending" <=>
              r = inFlight.req \/ \E i \in 1..Len(queue) : queue[i].req = r
      /\ timers = {inFlight.req} \ {None}
      /\ queue # <<>> => inFlight # NoJob
  BY StateFields DEF IInv, Sound, Waiting, Pumped
<1> QED BY <1>1, <1>3, <1>4 DEF Pending, NoJob

\* No answer reaches the caller of another request, though lines get lost, come
\* late, or are not what they should be.
THEOREM AnswersAreOwn == Spec => []NoCrossedAnswer
<1>1. IInv => NoCrossedAnswer
  BY StateFields DEF IInv, Sound, Waiting, NoCrossedAnswer
<1> QED BY <1>1, Inductive, PTL

\* Every request that request() accepted and has not settled is the one in flight
\* or in the queue, and #pump never leaves the queue behind an empty slot.
THEOREM RequestsKept == Spec => []NoLostRequest
<1>1. ASSUME IInv PROVE NoLostRequest
  <2>1. Queued(State) = {queue[i].req : i \in 1..Len(queue)}
    BY StateFields DEF Queued
  <2> QED BY <1>1, <2>1, Waits, NodeAssumption DEF NoLostRequest, Pending
<1> QED BY <1>1, Inductive, PTL

\* The deadline timer is armed exactly while a request is outstanding, so the
\* event loop is neither held open by an idle client nor let go by a busy one.
THEOREM TimerWhileOutstanding == Spec => []LoopHeldOpen
<1>1. ASSUME IInv PROVE LoopHeldOpen
  <2>1. CASE inFlight = NoJob
    <3>1. queue = <<>> /\ timers = {}
      BY <1>1, <2>1, Waits
    <3>2. \A i \in 1..Len(queue) : FALSE
      BY <3>1, EmptySeq
    <3>3. Pending = {}
      BY <1>1, <2>1, <3>2, Waits, NodeAssumption DEF Pending
    <3> QED BY <1>1, <3>1, <3>3, Waits DEF LoopHeldOpen
  <2>2. CASE inFlight.req \in Requests
    <3>1. inFlight.req \in Pending /\ inFlight.req \in timers
      BY <1>1, <2>2, Waits, NodeAssumption
    <3> QED BY <1>1, <3>1, Waits DEF LoopHeldOpen
  <2> QED BY <1>1, <2>1, <2>2, Waits
<1> QED BY <1>1, Inductive, PTL

\* The daemon that was not told to stop is the client's current process, and the
\* only one it reads: two browsers' worth of state are never mixed.
THEOREM OneDaemon == Spec => []OneIdentity
<1>1. IInv => OneIdentity
  BY StateFields DEF IInv, Sound, Processes, OneIdentity
<1> QED BY <1>1, Inductive, PTL

\* No private method writes a request to a daemon a second time.
THEOREM NeverSentTwice == Spec => []SentAtMostOnce
<1>1. IInv => SentAtMostOnce
  BY StateFields DEF IInv, Sound, Waiting, SentAtMostOnce
<1> QED BY <1>1, Inductive, PTL

\* After close() no timer, no process and no promise is left, and no late callback
\* brings one back.
THEOREM ClosedForGood == Spec => []CloseIsFinal
<1>1. ASSUME IInv, closed PROVE Pending = {} /\ timers = {} /\ process = 0
  <2>1. queue = <<>> /\ inFlight = NoJob /\ process = 0
    BY <1>1, StateFields DEF IInv, Shut
  <2>2. \A i \in 1..Len(queue) : FALSE
    BY <2>1, EmptySeq
  <2> QED BY <1>1, <2>1, <2>2, Waits, NodeAssumption DEF Pending
<1>2. IInv => CloseIsFinal
  BY <1>1 DEF CloseIsFinal
<1> QED BY <1>2, Inductive, PTL

\* Every callback is a step of the request service, or none.
THEOREM ServiceImplemented == Spec => Implements
<1>1. Init => Service!Init
  BY InitHolds
<1>2. IInv /\ [Next]_vars => [Service!Next]_<<closed, outcome, answer>>
  BY Step
<1>3. IInv /\ [Next]_vars => [Service!Next]_(Service!vars)
  BY <1>2 DEF Service!vars
<1> QED BY <1>1, <1>3, Inductive, PTL DEF Spec, Implements, Service!Spec
=============================================================================
