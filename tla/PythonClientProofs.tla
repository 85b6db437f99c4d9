-------------------------- MODULE PythonClientProofs --------------------------
(***************************************************************************)
(* The Python client keeps its promises for any number of threads and any  *)
(* number of faults of the daemon, and implements RequestService.          *)
(***************************************************************************)
EXTENDS PythonClient, SequenceTheorems, TLAPS

\* Every variable holds what the code can put there.
TypeOK ==
  /\ lock \in Calls \cup {None}
  /\ closed \in BOOLEAN
  /\ sequence \in Nat
  /\ process \in 0..Len(procs)
  /\ lines \in 1..Len(queues)
  /\ live \in SUBSET Nat
  /\ pc \in [Calls -> {"idle", "lock", "start", "write", "get", "stop", "done"}]
  /\ ident \in [Requests -> Nat]
  /\ stopping \in 0..Len(procs)
  /\ procs \in Seq(Process)
  /\ queues \in Seq(Seq(Reply \cup {EOF}))
  /\ outcome \in [Requests -> {"new", "pending", "answered", "failed"}]
  /\ answer \in [Requests -> Requests \cup {None}]
  /\ dropped \in BOOLEAN
  /\ faults \in Nat

\* The lock belongs to the call that is past it, and what that call relies on
\* holds: close() has not been there, and there is the process it expects.
Held ==
  /\ \A c \in Calls : pc[c] \in {"start", "write", "get", "stop"} <=> lock = c
  /\ \A k \in Closers : pc[k] \in {"idle", "lock", "stop", "done"}
  /\ \A r \in Requests : pc[r] \in {"start", "write", "get"} => ~closed
  /\ \A r \in Requests : pc[r] \in {"write", "get"} => process # 0
  /\ \A c \in Calls : pc[c] = "stop" => stopping # 0 /\ process = 0
  /\ closed => process = 0

\* A request is pending from its call to its return.
Outstanding ==
  \A r \in Requests : /\ outcome[r] = "new" <=> pc[r] = "idle"
                      /\ outcome[r] = "pending" <=> pc[r] \notin {"idle", "done"}

\* Each process has a queue of its own, the current one the queue that is read.
Sinks ==
  /\ \A p \in 1..Len(procs) : procs[p].sink \in 1..Len(queues)
  /\ \A p, q \in 1..Len(procs) : procs[p].sink = procs[q].sink => p = q
  /\ process # 0 => procs[process].sink = lines

\* The sentinel in a queue is of a process that has ended.
Ends ==
  \A n \in 1..Len(queues) : \A i \in 1..Len(queues[n]) :
    queues[n][i] = EOF => \E p \in 1..Len(procs) : procs[p].sink = n /\ procs[p].state = "exited"

\* An id was taken from the sequence, for one request, before it was written.
Ids ==
  /\ \A r, s \in Requests : ident[r] # 0 /\ ident[r] = ident[s] => r = s
  /\ \A r \in Requests : ident[r] <= sequence
  /\ \A r \in Requests : pc[r] \in {"idle", "lock"} => ident[r] = 0
  /\ \A r \in Requests : pc[r] \in {"start", "write", "get"} => ident[r] # 0

\* j names a request with the id that request has.
Own(j) == j.req \in Requests /\ j.id = ident[j.req] /\ j.id # 0

\* What goes through the pipes of the processes, ...
PipesOwn ==
  \A p \in 1..Len(procs) :
    /\ \A i \in 1..Len(procs[p].stdin) : Own(procs[p].stdin[i])
    /\ \A i \in 1..Len(procs[p].stdout) :
         procs[p].stdout[i].kind # "garbage" => Own(procs[p].stdout[i])

\* ... and what is in the queues.
QueuesOwn ==
  \A n \in 1..Len(queues) : \A i \in 1..Len(queues[n]) :
    queues[n][i].kind \notin {"garbage", "eof"} => Own(queues[n][i])

IInv == TypeOK /\ Held /\ Outstanding /\ Sinks /\ Ends /\ Ids /\ PipesOwn /\ QueuesOwn
-----------------------------------------------------------------------------
(* What changes in the world outside the calls. *)

\* One process changes: its queue stays its own, and what is in its pipes was
\* written for the requests it names.
LEMMA ProcSet ==
  ASSUME IInv, NEW p \in 1..Len(procs), NEW q \in Process,
         q.sink = procs[p].sink, procs[p].state = "exited" => q.state = "exited",
         \A i \in 1..Len(q.stdin) : Own(q.stdin[i]),
         \A i \in 1..Len(q.stdout) : q.stdout[i].kind # "garbage" => Own(q.stdout[i]),
         procs' = [procs EXCEPT ![p] = q], ident' = ident
  PROVE  /\ procs' \in Seq(Process) /\ Len(procs') = Len(procs) /\ PipesOwn'
         /\ \A x \in 1..Len(procs) : /\ procs'[x].sink = procs[x].sink
                                     /\ procs[x].state = "exited" => procs'[x].state = "exited"
         /\ procs'[p] = q
<1>1. /\ procs' \in Seq(Process) /\ Len(procs') = Len(procs)
      /\ \A x \in 1..Len(procs) : procs'[x] = IF x = p THEN q ELSE procs[x]
  BY ExceptSeq DEF IInv, TypeOK
<1>2. PipesOwn'
  BY <1>1 DEF IInv, PipesOwn, Own
<1> QED BY <1>1, <1>2

\* One queue changes.
LEMMA QueueSet ==
  ASSUME IInv, NEW n \in 1..Len(queues), NEW w \in Seq(Reply \cup {EOF}),
         \A i \in 1..Len(w) : \/ \E k \in 1..Len(queues[n]) : w[i] = queues[n][k]
                              \/ w[i].kind \in {"garbage", "eof"}
                              \/ Own(w[i]),
         queues' = [queues EXCEPT ![n] = w], ident' = ident
  PROVE  /\ queues' \in Seq(Seq(Reply \cup {EOF})) /\ Len(queues') = Len(queues) /\ QueuesOwn'
         /\ \A m \in 1..Len(queues) : queues'[m] = IF m = n THEN w ELSE queues[m]
<1>1. /\ queues' \in Seq(Seq(Reply \cup {EOF})) /\ Len(queues') = Len(queues)
      /\ \A m \in 1..Len(queues) : queues'[m] = IF m = n THEN w ELSE queues[m]
  BY ExceptSeq DEF IInv, TypeOK
<1>2. ASSUME NEW m \in 1..Len(queues), NEW i \in 1..Len(queues'[m]),
             queues'[m][i].kind \notin {"garbage", "eof"}
      PROVE  Own(queues'[m][i])
  <2>1. CASE m = n
    <3>1. queues'[m] = w
      BY <1>1, <2>1
    <3> QED BY <1>2, <2>1, <3>1 DEF IInv, QueuesOwn
  <2>2. CASE m # n
    <3>1. queues'[m] = queues[m]
      BY <1>1, <2>2
    <3> QED BY <1>2, <3>1 DEF IInv, QueuesOwn
  <2> QED BY <2>1, <2>2
<1>3. QueuesOwn'
  <2>1. \A m \in 1..Len(queues') : \A i \in 1..Len(queues'[m]) :
          queues'[m][i].kind \notin {"garbage", "eof"} =>
            /\ queues'[m][i].req \in Requests
            /\ queues'[m][i].id = ident'[queues'[m][i].req]
            /\ queues'[m][i].id # 0
    BY <1>1, <1>2 DEF Own
  <2> QED BY <2>1 DEF QueuesOwn, Own
<1> QED BY <1>1, <1>3

\* The queues stay apart when no process gets another one, and none of them ends
\* before its process has.
LEMMA SinksKept ==
  ASSUME IInv, Len(procs') = Len(procs), Len(queues') = Len(queues),
         process' \in {process, 0}, lines' = lines,
         \A x \in 1..Len(procs) : /\ procs'[x].sink = procs[x].sink
                                  /\ procs[x].state = "exited" => procs'[x].state = "exited",
         \A n \in 1..Len(queues) : \A i \in 1..Len(queues'[n]) : queues'[n][i] = EOF =>
           \/ \E k \in 1..Len(queues[n]) : queues[n][k] = EOF
           \/ \E p \in 1..Len(procs) : procs'[p].sink = n /\ procs'[p].state = "exited"
  PROVE  Sinks' /\ Ends'
<1>1. Sinks'
  <2>1. \A p \in 1..Len(procs') : procs'[p].sink \in 1..Len(queues')
    BY DEF IInv, Sinks
  <2>2. \A p, q \in 1..Len(procs') : procs'[p].sink = procs'[q].sink => p = q
    BY DEF IInv, Sinks
  <2>3. process' # 0 => procs'[process'].sink = lines'
    <3>1. process \in 1..Len(procs) \/ process = 0
      BY LenProperties DEF IInv, TypeOK
    <3> QED BY <3>1 DEF IInv, Sinks
  <2> QED BY <2>1, <2>2, <2>3 DEF Sinks
<1>2. \A n \in 1..Len(queues) : \A k \in 1..Len(queues[n]) : queues[n][k] = EOF =>
        \E p \in 1..Len(procs) : procs'[p].sink = n /\ procs'[p].state = "exited"
  <2> SUFFICES ASSUME NEW n \in 1..Len(queues), NEW k \in 1..Len(queues[n]), queues[n][k] = EOF
               PROVE  \E p \in 1..Len(procs) : procs'[p].sink = n /\ procs'[p].state = "exited"
    OBVIOUS
  <2>1. PICK p \in 1..Len(procs) : procs[p].sink = n /\ procs[p].state = "exited"
    BY DEF IInv, Ends
  <2> QED BY <2>1
<1>3. Ends'
  <2>1. EOF' = EOF
    BY DEF EOF
  <2> QED BY <1>2, <2>1 DEF Ends
<1> QED BY <1>1, <1>3

\* A process and its pipes are typed, and what they hold is there.
LEMMA ProcTypes ==
  ASSUME IInv, NEW p \in 1..Len(procs)
  PROVE  /\ procs[p] \in Process
         /\ procs[p].stdin \in Seq(Job) /\ procs[p].stdout \in Seq(Reply)
         /\ procs[p].sink \in 1..Len(queues)
         /\ \A i \in 1..Len(procs[p].stdin) : Own(procs[p].stdin[i])
         /\ \A i \in 1..Len(procs[p].stdout) :
              procs[p].stdout[i].kind # "garbage" => Own(procs[p].stdout[i])
<1>1. procs[p] \in Process
  BY ElementOfSeq DEF IInv, TypeOK
<1> QED BY <1>1 DEF IInv, Sinks, PipesOwn, Process

\* A queue holds replies and sentinels.
LEMMA QueueTypes ==
  ASSUME IInv, NEW n \in 1..Len(queues)
  PROVE  queues[n] \in Seq(Reply \cup {EOF})
BY ElementOfSeq DEF IInv, TypeOK

\* What a call does to the processes is to close the stdin of one.
LEMMA StdinClosed ==
  ASSUME IInv, NEW p \in 1..Len(procs), procs' = [procs EXCEPT ![p].stdinOpen = FALSE],
         ident' = ident
  PROVE  /\ procs' \in Seq(Process) /\ Len(procs') = Len(procs) /\ PipesOwn'
         /\ \A x \in 1..Len(procs) : /\ procs'[x].sink = procs[x].sink
                                     /\ procs[x].state = "exited" => procs'[x].state = "exited"
<1> DEFINE q == [procs[p] EXCEPT !.stdinOpen = FALSE]
<1>1. /\ q \in Process /\ q.sink = procs[p].sink /\ q.state = procs[p].state
      /\ q.stdin = procs[p].stdin /\ q.stdout = procs[p].stdout
  BY ProcTypes DEF Process
<1>2. procs' = [procs EXCEPT ![p] = q]
  OBVIOUS
<1> HIDE DEF q
<1>3. /\ \A i \in 1..Len(q.stdin) : Own(q.stdin[i])
      /\ \A i \in 1..Len(q.stdout) : q.stdout[i].kind # "garbage" => Own(q.stdout[i])
  BY <1>1, ProcTypes
<1>4. procs[p].state = "exited" => q.state = "exited"
  BY <1>1
<1>5. q \in Process /\ q.sink = procs[p].sink
  BY <1>1
<1> QED BY <1>2, <1>3, <1>4, <1>5, ProcSet

\* A new client.
LEMMA InitHolds == Init => IInv /\ Service!Init
<1> SUFFICES ASSUME Init PROVE IInv /\ Service!Init
  OBVIOUS
<1>1. procs \in Seq(Process) /\ Len(procs) = 0
  BY EmptySeq DEF Init
<1>2. queues \in Seq(Seq(Reply \cup {EOF})) /\ Len(queues) = 1 /\ queues[1] = <<>>
  BY EmptySeq DEF Init
<1>3. \A n \in 1..Len(queues) : \A i \in 1..Len(queues[n]) : FALSE
  <2>1. \A n \in 1..Len(queues) : n = 1
    BY <1>2
  <2> QED BY <1>2, <2>1, EmptySeq
<1>4. TypeOK
  <2>1. lines \in 1..Len(queues) /\ process \in 0..Len(procs) /\ stopping \in 0..Len(procs)
    BY <1>1, <1>2 DEF Init
  <2>2. /\ pc \in [Calls -> {"idle", "lock", "start", "write", "get", "stop", "done"}]
        /\ ident \in [Requests -> Nat]
        /\ outcome \in [Requests -> {"new", "pending", "answered", "failed"}]
        /\ answer \in [Requests -> Requests \cup {None}]
    BY DEF Init
  <2> QED BY <1>1, <1>2, <2>1, <2>2 DEF Init, TypeOK
<1>5. Held /\ Outstanding
  BY PythonAssumption DEF Init, Held, Outstanding, Calls
<1>6. Sinks /\ PipesOwn
  BY <1>1 DEF Init, Sinks, PipesOwn
<1>7. Ends /\ QueuesOwn
  BY <1>3 DEF Ends, QueuesOwn
<1>8. Ids
  BY DEF Init, Ids, Calls
<1> QED BY <1>4, <1>5, <1>6, <1>7, <1>8 DEF IInv, Init, Service!Init

-----------------------------------------------------------------------------
(* The calls. *)

\* A step that leaves pipes and queues alone.
LEMMA WorldStill ==
  ASSUME IInv, UNCHANGED <<procs, queues, lines, ident>>, process' \in {process, 0}
  PROVE  Sinks' /\ Ends' /\ PipesOwn' /\ QueuesOwn'
<1>1. Sinks' /\ Ends'
  BY SinksKept
<1>2. PipesOwn' /\ QueuesOwn'
  BY DEF IInv, PipesOwn, QueuesOwn, Own
<1> QED BY <1>1, <1>2

\* A call that raises fails its own request.
LEMMA RaiseServes ==
  ASSUME IInv, NEW r \in Requests, pc[r] \notin {"idle", "done"}, Raise(r), UNCHANGED closed
  PROVE  Service!Next
<1>1. outcome[r] = "pending" /\ outcome \in [Requests -> {"new", "pending", "answered", "failed"}]
  BY DEF IInv, Outstanding, TypeOK
<1>2. Service!Failing({r})
  BY <1>1 DEF Raise, Service!Failing
<1>3. {r} \in SUBSET Service!Pending /\ {r} # {}
  BY <1>1 DEF Service!Pending
<1> QED BY <1>2, <1>3 DEF Raise, Service!Next, Service!Fail

\* A call of request(): it waits for the lock, or its arguments are refused.
LEMMA CallDone ==
  ASSUME IInv, NEW r \in Requests, Call(r)
  PROVE  IInv' /\ [Service!Next]_<<closed, outcome, answer>>
<1>1. /\ pc[r] = "idle" /\ r \in Calls /\ outcome[r] = "new" /\ lock # r
      /\ UNCHANGED <<lock, client, ident, stopping, world, answer, dropped>>
  BY DEF Call, Calls, IInv, Outstanding, Held
<1>2. PICK l \in {"lock", "done"}, o \in {"pending", "failed"} :
        /\ pc' = [pc EXCEPT ![r] = l] /\ outcome' = [outcome EXCEPT ![r] = o]
        /\ l = "lock" <=> o = "pending"
  BY DEF Call, Goto
<1>3. TypeOK'
  BY <1>1, <1>2 DEF IInv, TypeOK, client, world
<1>4. \A c \in Calls : pc'[c] = IF c = r THEN l ELSE pc[c]
  BY <1>1, <1>2 DEF IInv, TypeOK
<1>5. \A s \in Requests : outcome'[s] = IF s = r THEN o ELSE outcome[s]
  BY <1>2 DEF IInv, TypeOK
<1>6. Held'
  BY <1>1, <1>4, PythonAssumption DEF IInv, Held, client, Calls
<1>7. Outstanding'
  BY <1>1, <1>2, <1>4, <1>5 DEF IInv, Outstanding, Calls
<1>8. Ids'
  BY <1>1, <1>4 DEF IInv, Ids, client, Calls
<1>9. Sinks' /\ Ends' /\ PipesOwn' /\ QueuesOwn'
  BY <1>1, WorldStill DEF client, world
<1>10. [Service!Next]_<<closed, outcome, answer>>
  <2>1. CASE o = "pending"
    BY <1>1, <1>2, <2>1 DEF client, Service!Next, Service!Submit
  <2>2. CASE o = "failed"
    BY <1>1, <1>2, <2>2 DEF client, Service!Next, Service!Refuse
  <2> QED BY <2>1, <2>2
<1> QED BY <1>3, <1>6, <1>7, <1>8, <1>9, <1>10 DEF IInv

\* A call that raises inside the lock lets it go.
LEMMA RaiseKeeps ==
  ASSUME IInv, NEW r \in Requests, lock = r \/ (lock = None /\ pc[r] = "lock"), Raise(r),
         closed' = closed, process' = process, ident' \in [Requests -> Nat], sequence' \in Nat
  PROVE  /\ Held' /\ Outstanding'
         /\ lock' \in Calls \cup {None} /\ outcome' \in [Requests -> {"new", "pending", "answered", "failed"}]
         /\ pc' \in [Calls -> {"idle", "lock", "start", "write", "get", "stop", "done"}]
         /\ \A c \in Calls : pc'[c] = IF c = r THEN "done" ELSE pc[c]
<1>1. /\ r \in Calls /\ pc' = [pc EXCEPT ![r] = "done"] /\ lock' = None
      /\ outcome' = [outcome EXCEPT ![r] = "failed"]
  BY DEF Raise, Goto, Calls
<1>2. \A c \in Calls : pc'[c] = IF c = r THEN "done" ELSE pc[c]
  BY <1>1 DEF IInv, TypeOK
<1>3. \A s \in Requests : outcome'[s] = IF s = r THEN "failed" ELSE outcome[s]
  BY <1>1 DEF IInv, TypeOK
<1>4. Held'
  <2>1. \A c \in Calls : pc[c] \in {"start", "write", "get", "stop"} => c = r
    BY PythonAssumption DEF IInv, Held, Calls
  <2>2. \A c \in Calls : pc'[c] \notin {"start", "write", "get", "stop"}
    BY <1>2, <2>1
  <2>3. None \notin Calls
    BY PythonAssumption DEF Calls
  <2> QED BY <1>1, <1>2, <2>2, <2>3, PythonAssumption DEF IInv, Held, Calls
<1>5. Outstanding'
  BY <1>2, <1>3 DEF IInv, Outstanding, Calls
<1>6. /\ lock' \in Calls \cup {None} /\ outcome' \in [Requests -> {"new", "pending", "answered", "failed"}]
      /\ pc' \in [Calls -> {"idle", "lock", "start", "write", "get", "stop", "done"}]
  BY <1>1 DEF IInv, TypeOK
<1> QED BY <1>2, <1>4, <1>5, <1>6

\* A lock that is free is taken by a call that finds the client open, and an id is
\* taken with it.
LEMMA AcquireDone ==
  ASSUME IInv, NEW r \in Requests, Acquire(r)
  PROVE  IInv' /\ [Service!Next]_<<closed, outcome, answer>>
<1>1. /\ pc[r] = "lock" /\ r \in Calls /\ lock = None /\ None \notin Calls /\ ident[r] = 0
      /\ UNCHANGED <<closed, process, lines, live, stopping, world, dropped>>
      /\ sequence \in Nat /\ ident \in [Requests -> Nat]
  BY PythonAssumption DEF Acquire, Calls, IInv, Ids, TypeOK
<1>2. CASE closed /\ Raise(r) /\ UNCHANGED <<sequence, ident>>
  <2>1. /\ Held' /\ Outstanding'
        /\ lock' \in Calls \cup {None}
        /\ outcome' \in [Requests -> {"new", "pending", "answered", "failed"}]
        /\ pc' \in [Calls -> {"idle", "lock", "start", "write", "get", "stop", "done"}]
        /\ \A c \in Calls : pc'[c] = IF c = r THEN "done" ELSE pc[c]
    BY <1>1, <1>2, RaiseKeeps
  <2>2. Ids'
    BY <1>2, <2>1 DEF IInv, Ids, Calls
  <2>3. Sinks' /\ Ends' /\ PipesOwn' /\ QueuesOwn'
    BY <1>1, <1>2, WorldStill DEF world
  <2>4. TypeOK'
    BY <1>1, <1>2, <2>1 DEF IInv, TypeOK, world, Raise
  <2> QED BY <1>1, <1>2, <2>1, <2>2, <2>3, <2>4, RaiseServes DEF IInv
<1>3. ASSUME sequence' = sequence + 1, ident' = [ident EXCEPT ![r] = sequence + 1],
             \A c \in Calls \ {r} : pc'[c] = pc[c], pc'[r] \in {"start", "done"}
      PROVE  Ids' /\ Sinks' /\ Ends' /\ PipesOwn' /\ QueuesOwn'
  <2>1. \A s \in Requests : ident'[s] = IF s = r THEN sequence + 1 ELSE ident[s]
    BY <1>1, <1>3
  <2>2. \A s \in Requests : ident[s] \in Nat /\ ident[s] <= sequence
    BY <1>1 DEF IInv, Ids
  <2>3. \A s \in Requests : ident'[s] <= sequence'
    BY <1>1, <1>3, <2>1, <2>2
  <2>4. \A s, u \in Requests : ident'[s] # 0 /\ ident'[s] = ident'[u] => s = u
    BY <1>1, <2>1, <2>2 DEF IInv, Ids
  <2>5. \A s \in Requests : /\ pc'[s] \in {"idle", "lock"} => ident'[s] = 0
                            /\ pc'[s] \in {"start", "write", "get"} => ident'[s] # 0
    BY <1>1, <1>3, <2>1 DEF IInv, Ids, Calls
  <2>6. Ids'
    BY <2>3, <2>4, <2>5 DEF Ids
  <2>7. Sinks' /\ Ends'
    BY <1>1, SinksKept DEF world
  <2>8. \A j : Own(j) => j.req \in Requests /\ j.id = ident'[j.req] /\ j.id # 0
    BY <1>1, <2>1 DEF Own
  <2>9. PipesOwn' /\ QueuesOwn'
    BY <1>1, <2>8 DEF IInv, PipesOwn, QueuesOwn, Own, world
  <2> QED BY <2>6, <2>7, <2>9
<1>4. CASE /\ sequence' = sequence + 1 /\ ident' = [ident EXCEPT ![r] = sequence + 1] /\ Raise(r)
  <2>1. ident' \in [Requests -> Nat] /\ sequence' \in Nat
    BY <1>1, <1>4
  <2>2. /\ Held' /\ Outstanding'
        /\ lock' \in Calls \cup {None}
        /\ outcome' \in [Requests -> {"new", "pending", "answered", "failed"}]
        /\ pc' \in [Calls -> {"idle", "lock", "start", "write", "get", "stop", "done"}]
        /\ \A c \in Calls : pc'[c] = IF c = r THEN "done" ELSE pc[c]
    BY <1>1, <1>4, <2>1, RaiseKeeps
  <2>3. Ids' /\ Sinks' /\ Ends' /\ PipesOwn' /\ QueuesOwn'
    BY <1>1, <1>3, <1>4, <2>2
  <2>4. TypeOK'
    BY <1>1, <1>4, <2>1, <2>2 DEF IInv, TypeOK, world, Raise
  <2> QED BY <1>1, <1>4, <2>2, <2>3, <2>4, RaiseServes DEF IInv
<1>5. CASE /\ ~closed /\ sequence' = sequence + 1 /\ ident' = [ident EXCEPT ![r] = sequence + 1]
           /\ lock' = r /\ Goto(r, "start") /\ UNCHANGED result
  <2>1. ident' \in [Requests -> Nat] /\ sequence' \in Nat
    BY <1>1, <1>5
  <2>2. pc' = [pc EXCEPT ![r] = "start"]
    BY <1>5 DEF Goto
  <2>3. \A c \in Calls : pc'[c] = IF c = r THEN "start" ELSE pc[c]
    BY <1>1, <2>2 DEF IInv, TypeOK
  <2>4. Ids' /\ Sinks' /\ Ends' /\ PipesOwn' /\ QueuesOwn'
    BY <1>1, <1>3, <1>5, <2>3
  <2>5. Held'
    <3>1. \A c \in Calls : pc[c] \notin {"start", "write", "get", "stop"}
      BY <1>1 DEF IInv, Held
    <3>2. r \notin Closers
      BY PythonAssumption
    <3> QED BY <1>1, <1>5, <2>3, <3>1, <3>2 DEF IInv, Held, Calls
  <2>6. Outstanding'
    BY <1>1, <1>5, <2>3 DEF IInv, Outstanding, Calls, result
  <2>7. TypeOK'
    BY <1>1, <1>5, <2>1, <2>2 DEF IInv, TypeOK, world, result
  <2> QED BY <1>1, <1>5, <2>4, <2>5, <2>6, <2>7 DEF IInv, result
<1> QED BY <1>2, <1>4, <1>5 DEF Acquire

\* A new process gets a queue nobody has put anything in.
LEMMA StartedKeeps ==
  ASSUME IInv, process = 0, NewQueue, process' = Len(procs) + 1,
         procs' = Append(procs, NewProcess(lines')), ident' = ident
  PROVE  /\ procs' \in Seq(Process) /\ queues' \in Seq(Seq(Reply \cup {EOF}))
         /\ process' \in 0..Len(procs') /\ lines' \in 1..Len(queues') /\ process' # 0
         /\ stopping \in 0..Len(procs')
         /\ Sinks' /\ Ends' /\ PipesOwn' /\ QueuesOwn'
<1> DEFINE n == NewProcess(lines')
           e == <<>>
<1>1. Len(procs) \in Nat /\ Len(queues) \in Nat /\ stopping \in 0..Len(procs)
  BY LenProperties DEF IInv, TypeOK
<1>2. lines' = Len(queues) + 1 /\ queues' = Append(queues, e) /\ lines' \in Nat
  BY <1>1 DEF NewQueue
<1>3. n \in Process /\ n.sink = lines' /\ n.stdin = <<>> /\ n.stdout = <<>> /\ n.state = "running"
  BY <1>2, EmptySeq DEF NewProcess, Process
<1>4. e \in Seq(Reply \cup {EOF}) /\ \A i \in 1..Len(e) : FALSE
  BY EmptySeq
<1> HIDE DEF n, e
<1>5. /\ procs' \in Seq(Process) /\ Len(procs') = Len(procs) + 1
      /\ procs'[Len(procs) + 1] = n
      /\ \A p \in 1..Len(procs) : procs'[p] = procs[p]
      /\ \A p \in 1..Len(procs') : p \in 1..Len(procs) \/ p = Len(procs) + 1
  <2>1. procs' = Append(procs, n)
    BY DEF n
  <2> QED BY <1>1, <1>3, <2>1, AppendProperties DEF IInv, TypeOK
<1>6. /\ queues' \in Seq(Seq(Reply \cup {EOF})) /\ Len(queues') = Len(queues) + 1
      /\ queues'[Len(queues) + 1] = e
      /\ \A m \in 1..Len(queues) : queues'[m] = queues[m]
      /\ \A m \in 1..Len(queues') : m \in 1..Len(queues) \/ m = Len(queues) + 1
  <2> DEFINE Q == Seq(Reply \cup {EOF})
  <2>1. queues \in Seq(Q) /\ e \in Q /\ queues' = Append(queues, e)
    BY <1>2, <1>4 DEF IInv, TypeOK
  <2> HIDE DEF Q
  <2>2. /\ queues' \in Seq(Q) /\ Len(queues') = Len(queues) + 1
        /\ queues'[Len(queues) + 1] = e
        /\ \A m \in 1..Len(queues) : queues'[m] = queues[m]
    BY <2>1, AppendProperties
  <2>3. \A m \in 1..Len(queues') : m \in 1..Len(queues) \/ m = Len(queues) + 1
    BY <1>1, <2>2
  <2> QED BY <2>2, <2>3 DEF Q
<1>7. Sinks'
  <2>1. \A p \in 1..Len(procs) : procs'[p].sink \in 1..Len(queues)
    BY <1>5 DEF IInv, Sinks
  <2>2. procs'[Len(procs) + 1].sink = Len(queues) + 1
    BY <1>2, <1>3, <1>5
  <2>3. \A p \in 1..Len(procs') : procs'[p].sink \in 1..Len(queues')
    BY <1>1, <1>5, <1>6, <2>1, <2>2
  <2>4. \A p, q \in 1..Len(procs) : procs'[p].sink = procs'[q].sink => p = q
    BY <1>5 DEF IInv, Sinks
  <2>5. \A p, q \in 1..Len(procs') : procs'[p].sink = procs'[q].sink => p = q
    BY <1>1, <1>5, <2>1, <2>2, <2>4
  <2>6. process' # 0 => procs'[process'].sink = lines'
    BY <1>2, <2>2
  <2> QED BY <2>3, <2>5, <2>6 DEF Sinks
<1>8. Ends'
  <2>1. ASSUME NEW m \in 1..Len(queues), NEW i \in 1..Len(queues[m]), queues[m][i] = EOF
        PROVE  \E p \in 1..Len(procs') : procs'[p].sink = m /\ procs'[p].state = "exited"
    <3>1. PICK p \in 1..Len(procs) : procs[p].sink = m /\ procs[p].state = "exited"
      BY <2>1 DEF IInv, Ends
    <3>2. p \in 1..Len(procs')
      BY <1>1, <1>5
    <3> QED BY <1>5, <3>1, <3>2
  <2>2. \A m \in 1..Len(queues') : \A i \in 1..Len(queues'[m]) : m \in 1..Len(queues) /\ i \in 1..Len(queues[m])
    BY <1>4, <1>6
  <2>3. EOF' = EOF
    BY DEF EOF
  <2> QED BY <1>6, <2>1, <2>2, <2>3 DEF Ends
<1>9. PipesOwn'
  <2>1. ASSUME NEW p \in 1..Len(procs')
        PROVE  /\ \A i \in 1..Len(procs'[p].stdin) : Own(procs'[p].stdin[i])
               /\ \A i \in 1..Len(procs'[p].stdout) :
                    procs'[p].stdout[i].kind # "garbage" => Own(procs'[p].stdout[i])
    <3>1. CASE p \in 1..Len(procs)
      <4>1. procs'[p] = procs[p]
        BY <1>5, <3>1
      <4> QED BY <3>1, <4>1, ProcTypes
    <3>2. CASE p = Len(procs) + 1
      <4>1. procs'[p].stdin = <<>> /\ procs'[p].stdout = <<>>
        BY <1>3, <1>5, <3>2
      <4> QED BY <4>1, EmptySeq
    <3> QED BY <1>5, <3>1, <3>2
  <2> QED BY <2>1 DEF PipesOwn, Own
<1>10. QueuesOwn'
  <2>1. ASSUME NEW m \in 1..Len(queues'), NEW i \in 1..Len(queues'[m]),
               queues'[m][i].kind \notin {"garbage", "eof"}
        PROVE  Own(queues'[m][i])
    <3>1. m \in 1..Len(queues) /\ queues'[m] = queues[m]
      BY <1>4, <1>6
    <3> QED BY <2>1, <3>1 DEF IInv, QueuesOwn
  <2> QED BY <2>1 DEF QueuesOwn, Own
<1> QED BY <1>1, <1>2, <1>5, <1>6, <1>7, <1>8, <1>9, <1>10

\* The call that holds the lock moves on.
LEMMA MovedKeeps ==
  ASSUME IInv, NEW r \in Requests, lock = r, NEW l \in {"write", "get", "stop"},
         pc[r] \in {"start", "write", "get"}, pc' = [pc EXCEPT ![r] = l], lock' = lock,
         closed' = closed, UNCHANGED <<sequence, ident, outcome>>,
         l = "stop" => process' = 0 /\ stopping' # 0, l # "stop" => process' # 0
  PROVE  /\ Held' /\ Outstanding' /\ Ids'
         /\ pc' \in [Calls -> {"idle", "lock", "start", "write", "get", "stop", "done"}]
<1>1. r \in Calls /\ r \notin Closers /\ \A c \in Calls : pc'[c] = IF c = r THEN l ELSE pc[c]
  BY PythonAssumption DEF IInv, TypeOK, Calls
<1>2. Held'
  <2>1. \A c \in Calls : c # r => pc[c] \notin {"start", "write", "get", "stop"}
    BY DEF IInv, Held
  <2>2. ~closed
    BY DEF IInv, Held
  <2> QED BY <1>1, <2>1, <2>2 DEF IInv, Held, Calls
<1>3. Outstanding' /\ Ids'
  BY <1>1 DEF IInv, Outstanding, Ids, Calls
<1>4. pc' \in [Calls -> {"idle", "lock", "start", "write", "get", "stop", "done"}]
  BY DEF IInv, TypeOK
<1> QED BY <1>2, <1>3, <1>4

\* _ensure_started: the process there is, a new one, or none that starts.
LEMMA EnsureStartedDone ==
  ASSUME IInv, NEW r \in Requests, EnsureStarted(r)
  PROVE  IInv' /\ [Service!Next]_<<closed, outcome, answer>>
<1>1. /\ pc[r] = "start" /\ r \in Calls /\ lock = r
      /\ UNCHANGED <<closed, sequence, ident, stopping, dropped, faults>>
  BY DEF EnsureStarted, Calls, IInv, Held
<1>2. CASE process # 0 /\ Goto(r, "write") /\ UNCHANGED <<lock, process, lines, live, procs, queues, result>>
  <2>1. /\ Held' /\ Outstanding' /\ Ids'
        /\ pc' \in [Calls -> {"idle", "lock", "start", "write", "get", "stop", "done"}]
    BY <1>1, <1>2, MovedKeeps DEF Goto, result
  <2>2. Sinks' /\ Ends' /\ PipesOwn' /\ QueuesOwn'
    BY <1>1, <1>2, WorldStill
  <2>3. TypeOK'
    BY <1>1, <1>2, <2>1 DEF IInv, TypeOK, result
  <2> QED BY <1>1, <1>2, <2>1, <2>2, <2>3 DEF IInv, result
<1>3. CASE Raise(r) /\ UNCHANGED <<process, lines, live, procs, queues>>
  <2>1. /\ Held' /\ Outstanding'
        /\ lock' \in Calls \cup {None}
        /\ outcome' \in [Requests -> {"new", "pending", "answered", "failed"}]
        /\ pc' \in [Calls -> {"idle", "lock", "start", "write", "get", "stop", "done"}]
        /\ \A c \in Calls : pc'[c] = IF c = r THEN "done" ELSE pc[c]
    BY <1>1, <1>3, RaiseKeeps DEF IInv, TypeOK
  <2>2. Ids'
    BY <1>1, <2>1 DEF IInv, Ids, Calls
  <2>3. Sinks' /\ Ends' /\ PipesOwn' /\ QueuesOwn'
    BY <1>1, <1>3, WorldStill
  <2>4. TypeOK'
    BY <1>1, <1>3, <2>1 DEF IInv, TypeOK, Raise
  <2> QED BY <1>1, <1>3, <2>1, <2>2, <2>3, <2>4, RaiseServes DEF IInv
<1>4. CASE /\ process = 0 /\ NewQueue /\ process' = Len(procs) + 1
           /\ procs' = Append(procs, NewProcess(lines'))
           /\ Register(process') /\ Goto(r, "write") /\ UNCHANGED <<lock, result>>
  <2>1. /\ procs' \in Seq(Process) /\ queues' \in Seq(Seq(Reply \cup {EOF}))
        /\ process' \in 0..Len(procs') /\ lines' \in 1..Len(queues') /\ process' # 0
        /\ stopping \in 0..Len(procs')
        /\ Sinks' /\ Ends' /\ PipesOwn' /\ QueuesOwn'
    BY <1>1, <1>4, StartedKeeps
  <2>2. /\ Held' /\ Outstanding' /\ Ids'
        /\ pc' \in [Calls -> {"idle", "lock", "start", "write", "get", "stop", "done"}]
    BY <1>1, <1>4, <2>1, MovedKeeps DEF Goto, result
  <2>3. live' \in SUBSET Nat
    <3>1. process' \in Nat
      BY <1>4, LenProperties DEF IInv, TypeOK
    <3> QED BY <1>4, <3>1 DEF Register, IInv, TypeOK
  <2>4. TypeOK'
    BY <1>1, <1>4, <2>1, <2>2, <2>3 DEF IInv, TypeOK, result
  <2> QED BY <1>1, <1>4, <2>1, <2>2, <2>4 DEF IInv, result
<1> QED BY <1>2, <1>3, <1>4 DEF EnsureStarted

\* No process is added, given another queue or brought back to life.
ProcsKept ==
  /\ process' \in {process, 0} /\ Len(procs') = Len(procs)
  /\ \A x \in 1..Len(procs) : /\ procs'[x].sink = procs[x].sink
                              /\ procs[x].state = "exited" => procs'[x].state = "exited"

\* The head of a queue is taken: no sentinel and no line comes to it.
LEMMA TailTaken ==
  ASSUME IInv, NEW n \in 1..Len(queues), queues[n] # <<>>,
         queues' = [queues EXCEPT ![n] = Tail(@)], ident' = ident, lines' = lines, ProcsKept
  PROVE  /\ queues' \in Seq(Seq(Reply \cup {EOF})) /\ Len(queues') = Len(queues)
         /\ QueuesOwn' /\ Sinks' /\ Ends'
<1> DEFINE w == Tail(queues[n])
<1>1. queues[n] \in Seq(Reply \cup {EOF})
  BY QueueTypes
<1>2. /\ w \in Seq(Reply \cup {EOF})
      /\ \A i \in 1..Len(w) : i + 1 \in 1..Len(queues[n]) /\ w[i] = queues[n][i + 1]
  BY <1>1, HeadTailProperties, LenProperties
<1>3. queues' = [queues EXCEPT ![n] = w]
  OBVIOUS
<1> HIDE DEF w
<1>4. /\ queues' \in Seq(Seq(Reply \cup {EOF})) /\ Len(queues') = Len(queues) /\ QueuesOwn'
      /\ \A m \in 1..Len(queues) : queues'[m] = IF m = n THEN w ELSE queues[m]
  <2>1. \A i \in 1..Len(w) : \E k \in 1..Len(queues[n]) : w[i] = queues[n][k]
    BY <1>2
  <2>2. w \in Seq(Reply \cup {EOF})
    BY <1>2
  <2>3. /\ queues' \in Seq(Seq(Reply \cup {EOF})) /\ Len(queues') = Len(queues) /\ QueuesOwn'
        /\ \A m \in 1..Len(queues) : queues'[m] = IF m = n THEN w ELSE queues[m]
    <3>1. \A i \in 1..Len(w) : \/ \E k \in 1..Len(queues[n]) : w[i] = queues[n][k]
                              \/ w[i].kind \in {"garbage", "eof"}
                              \/ Own(w[i])
      BY <2>1
    <3> QED BY <1>3, <2>2, <3>1, QueueSet
  <2> QED BY <2>3
<1>5. ASSUME NEW m \in 1..Len(queues), NEW i \in 1..Len(queues'[m]), queues'[m][i] = EOF
      PROVE  \E k \in 1..Len(queues[m]) : queues[m][k] = EOF
  <2>1. CASE m = n
    <3>1. queues'[m] = w
      BY <1>4, <2>1
    <3> QED BY <1>2, <1>5, <2>1, <3>1
  <2>2. CASE m # n
    <3>1. queues'[m] = queues[m]
      BY <1>4, <2>2
    <3> QED BY <1>5, <3>1
  <2> QED BY <2>1, <2>2
<1> QED BY <1>4, <1>5, SinksKept DEF ProcsKept

\* _stop: the process is forgotten before its end is waited for.
LEMMA BeginStopDone ==
  ASSUME IInv, NEW r \in Requests, pc[r] \in {"write", "get"},
         NEW q, BeginStop(r, q), UNCHANGED <<ident, dropped, faults>>,
         \/ q = queues
         \/ queues[lines] # <<>> /\ q = [queues EXCEPT ![lines] = Tail(@)]
  PROVE  IInv' /\ [Service!Next]_<<closed, outcome, answer>>
<1>1. /\ lock = r /\ process # 0 /\ process \in 1..Len(procs) /\ r \in Calls /\ lines \in 1..Len(queues)
      /\ Len(procs) \in Nat
  BY LenProperties DEF IInv, Held, TypeOK, Calls
<1>2. /\ process' = 0 /\ stopping' = process /\ procs' = [procs EXCEPT ![process].stdinOpen = FALSE]
      /\ queues' = q /\ pc' = [pc EXCEPT ![r] = "stop"]
      /\ UNCHANGED <<lock, closed, sequence, lines, live, result>>
  BY DEF BeginStop, Goto
<1>3. /\ procs' \in Seq(Process) /\ Len(procs') = Len(procs) /\ PipesOwn'
      /\ \A x \in 1..Len(procs) : /\ procs'[x].sink = procs[x].sink
                                  /\ procs[x].state = "exited" => procs'[x].state = "exited"
  BY <1>1, <1>2, StdinClosed
<1>4. /\ Held' /\ Outstanding' /\ Ids'
      /\ pc' \in [Calls -> {"idle", "lock", "start", "write", "get", "stop", "done"}]
  BY <1>1, <1>2, MovedKeeps DEF result
<1>5. /\ queues' \in Seq(Seq(Reply \cup {EOF})) /\ Len(queues') = Len(queues)
      /\ QueuesOwn' /\ Sinks' /\ Ends'
  <2>1. CASE q = queues
    <3>1. queues' = queues
      BY <1>2, <2>1
    <3>2. Sinks' /\ Ends'
      BY <1>2, <1>3, <3>1, SinksKept
    <3>3. queues' \in Seq(Seq(Reply \cup {EOF})) /\ Len(queues') = Len(queues)
      BY <3>1 DEF IInv, TypeOK
    <3>4. QueuesOwn'
      BY <3>1 DEF IInv, QueuesOwn, Own
    <3> QED BY <3>2, <3>3, <3>4
  <2>2. CASE queues[lines] # <<>> /\ q = [queues EXCEPT ![lines] = Tail(@)]
    <3>1. queues' = [queues EXCEPT ![lines] = Tail(@)] /\ ident' = ident /\ lines' = lines
      BY <1>2, <2>2
    <3>2. ProcsKept
      BY <1>2, <1>3 DEF ProcsKept
    <3> QED BY <1>1, <2>2, <3>1, <3>2, TailTaken
  <2> QED BY <2>1, <2>2
<1>6. TypeOK'
  BY <1>1, <1>2, <1>3, <1>4, <1>5 DEF IInv, TypeOK, result
<1> QED BY <1>2, <1>3, <1>4, <1>5, <1>6 DEF IInv, result

\* The write: the line is in the pipe, or the process turns out to have ended.
LEMMA WriteDone ==
  ASSUME IInv, NEW r \in Requests, Write(r)
  PROVE  IInv' /\ [Service!Next]_<<closed, outcome, answer>>
<1>1. /\ pc[r] = "write" /\ r \in Calls /\ UNCHANGED <<ident, dropped, faults>>
      /\ lock = r /\ process # 0 /\ process \in 1..Len(procs) /\ ident[r] \in Nat /\ ident[r] # 0
  BY LenProperties DEF Write, Calls, IInv, Held, TypeOK, Ids
<1>2. CASE /\ procs' = [procs EXCEPT ![process].stdin = Append(@, [req |-> r, id |-> ident[r]])]
           /\ Goto(r, "get")
           /\ UNCHANGED <<lock, closed, sequence, process, lines, live, stopping, queues, result>>
  <2> DEFINE j == [req |-> r, id |-> ident[r]]
             w == Append(procs[process].stdin, j)
             q == [procs[process] EXCEPT !.stdin = w]
  <2>1. j \in Job /\ Own(j)
    BY <1>1 DEF Job, Own
  <2> HIDE DEF j
  <2>2. /\ w \in Seq(Job)
        /\ \A i \in 1..Len(w) : w[i] = j \/ (i \in 1..Len(procs[process].stdin) /\ w[i] = procs[process].stdin[i])
    BY <1>1, <2>1, ProcTypes, AppendProperties, LenProperties
  <2> HIDE DEF w
  <2>3. /\ q \in Process /\ q.sink = procs[process].sink /\ q.state = procs[process].state
        /\ q.stdin = w /\ q.stdout = procs[process].stdout
    BY <1>1, <2>2, ProcTypes DEF Process
  <2>4. procs' = [procs EXCEPT ![process] = q]
    BY <1>2 DEF j, w
  <2> HIDE DEF q
  <2>5. /\ \A i \in 1..Len(q.stdin) : Own(q.stdin[i])
        /\ \A i \in 1..Len(q.stdout) : q.stdout[i].kind # "garbage" => Own(q.stdout[i])
        /\ procs[process].state = "exited" => q.state = "exited"
    BY <1>1, <2>1, <2>2, <2>3, ProcTypes
  <2>6. /\ procs' \in Seq(Process) /\ Len(procs') = Len(procs) /\ PipesOwn'
        /\ \A x \in 1..Len(procs) : /\ procs'[x].sink = procs[x].sink
                                    /\ procs[x].state = "exited" => procs'[x].state = "exited"
    BY <1>1, <2>3, <2>4, <2>5, ProcSet
  <2>7. /\ Held' /\ Outstanding' /\ Ids'
        /\ pc' \in [Calls -> {"idle", "lock", "start", "write", "get", "stop", "done"}]
    BY <1>1, <1>2, MovedKeeps DEF Goto, result
  <2>8. Sinks' /\ Ends'
    BY <1>2, <2>6, SinksKept
  <2>9. QueuesOwn'
    BY <1>1, <1>2 DEF IInv, QueuesOwn, Own
  <2>10. TypeOK'
    BY <1>1, <1>2, <2>6, <2>7 DEF IInv, TypeOK, result
  <2> QED BY <1>2, <2>6, <2>7, <2>8, <2>9, <2>10 DEF IInv, result
<1>3. CASE BeginStop(r, queues)
  BY <1>1, <1>3, BeginStopDone
<1> QED BY <1>2, <1>3 DEF Write

\* An answer with the id of the call is the answer to its request.
LEMMA MineIsMine ==
  ASSUME IInv, NEW r \in Requests, pc[r] = "get", NEW line, Own(line), Mine(r, line)
  PROVE  line.req = r
BY DEF IInv, Ids, Own, Mine

\* One line of the queue: the sentinel, garbage, another's reply, or its own.
LEMMA ReceiveDone ==
  ASSUME IInv, NEW r \in Requests, Receive(r)
  PROVE  IInv' /\ [Service!Next]_<<closed, outcome, answer>>
<1> DEFINE line == Head(queues[lines])
           rest == [queues EXCEPT ![lines] = Tail(@)]
<1>1. /\ pc[r] = "get" /\ r \in Calls /\ lock = r /\ queues[lines] # <<>>
      /\ lines \in 1..Len(queues) /\ ~closed /\ outcome[r] = "pending"
      /\ UNCHANGED <<ident, dropped, faults>>
  BY DEF Receive, Calls, IInv, Held, TypeOK, Outstanding
<1>2. /\ line \in Reply \cup {EOF}
      /\ line.kind \notin {"garbage", "eof"} => Own(line)
  <2>1. queues[lines] \in Seq(Reply \cup {EOF})
    BY <1>1, QueueTypes
  <2>2. line = queues[lines][1] /\ 1 \in 1..Len(queues[lines])
    BY <1>1, <2>1, EmptySeq, HeadTailProperties, LenProperties
  <2>3. line \in Reply \cup {EOF}
    BY <2>1, <2>2, ElementOfSeq
  <2> QED BY <1>1, <2>2, <2>3 DEF IInv, QueuesOwn
<1>3. CASE BeginStop(r, rest)
  BY <1>1, <1>3, BeginStopDone
<1>4. ASSUME queues' = rest, UNCHANGED <<client, stopping, procs>>
      PROVE  /\ queues' \in Seq(Seq(Reply \cup {EOF})) /\ Len(queues') = Len(queues)
             /\ QueuesOwn' /\ Sinks' /\ Ends' /\ PipesOwn'
  <2>1. /\ queues' = [queues EXCEPT ![lines] = Tail(@)] /\ lines' = lines /\ process' = process
        /\ procs' = procs /\ ident' = ident
    BY <1>1, <1>4 DEF client
  <2>2. /\ queues' \in Seq(Seq(Reply \cup {EOF})) /\ Len(queues') = Len(queues)
        /\ QueuesOwn' /\ Sinks' /\ Ends'
    <3>1. ProcsKept
      BY <2>1 DEF ProcsKept
    <3> QED BY <1>1, <2>1, <3>1, TailTaken
  <2> QED BY <2>1, <2>2 DEF IInv, PipesOwn, Own
<1>5. CASE queues' = rest /\ UNCHANGED <<client, stopping, procs>> /\ Raise(r)
  <2>1. /\ Held' /\ Outstanding'
        /\ lock' \in Calls \cup {None}
        /\ outcome' \in [Requests -> {"new", "pending", "answered", "failed"}]
        /\ pc' \in [Calls -> {"idle", "lock", "start", "write", "get", "stop", "done"}]
        /\ \A c \in Calls : pc'[c] = IF c = r THEN "done" ELSE pc[c]
    BY <1>1, <1>5, RaiseKeeps DEF IInv, TypeOK, client
  <2>2. Ids'
    BY <1>1, <1>5, <2>1 DEF IInv, Ids, Calls, client
  <2>3. TypeOK'
    BY <1>1, <1>4, <1>5, <2>1 DEF IInv, TypeOK, Raise, client
  <2> QED BY <1>1, <1>4, <1>5, <2>1, <2>2, <2>3, RaiseServes DEF IInv, client
<1>6. CASE queues' = rest /\ UNCHANGED <<client, stopping, procs>> /\ UNCHANGED <<lock, pc, result>>
  <2>1. Held' /\ Outstanding' /\ Ids'
    BY <1>1, <1>6 DEF IInv, Held, Outstanding, Ids, client, result
  <2>2. TypeOK'
    BY <1>1, <1>4, <1>6 DEF IInv, TypeOK, client, result
  <2> QED BY <1>4, <1>6, <2>1, <2>2 DEF IInv, client, result
<1>7. CASE /\ queues' = rest /\ UNCHANGED <<client, stopping, procs>> /\ Return(r, line)
           /\ Mine(r, line) /\ line.kind = "ok"
  <2>1. /\ line.req = r /\ pc' = [pc EXCEPT ![r] = "done"] /\ lock' = None
        /\ outcome' = [outcome EXCEPT ![r] = "answered"] /\ answer' = [answer EXCEPT ![r] = r]
    BY <1>1, <1>2, <1>7, MineIsMine DEF Return, Goto
  <2>2. /\ \A c \in Calls : pc'[c] = IF c = r THEN "done" ELSE pc[c]
        /\ \A s \in Requests : outcome'[s] = IF s = r THEN "answered" ELSE outcome[s]
    BY <1>1, <2>1 DEF IInv, TypeOK
  <2>3. Held'
    <3>1. \A c \in Calls : pc'[c] \notin {"start", "write", "get", "stop"}
      BY <1>1, <2>2 DEF IInv, Held
    <3>2. None \notin Calls
      BY PythonAssumption DEF Calls
    <3> QED BY <1>1, <1>7, <2>1, <2>2, <3>1, <3>2, PythonAssumption DEF IInv, Held, Calls, client
  <2>4. Outstanding' /\ Ids'
    BY <1>1, <1>7, <2>2 DEF IInv, Outstanding, Ids, Calls, client
  <2>5. TypeOK'
    BY <1>1, <1>4, <1>7, <2>1 DEF IInv, TypeOK, client
  <2>6. Service!Answer(r)
    BY <1>1, <1>7, <2>1 DEF Service!Answer, client
  <2> QED BY <1>4, <1>7, <2>3, <2>4, <2>5, <2>6 DEF IInv, Service!Next
<1> QED BY <1>3, <1>5, <1>6, <1>7 DEF Receive

\* The process that was stopped has been waited for.
LEMMA ReapedDone ==
  ASSUME IInv, NEW r \in Requests, Reaped(r)
  PROVE  IInv' /\ [Service!Next]_<<closed, outcome, answer>>
<1>1. /\ pc[r] = "stop" /\ r \in Calls /\ lock = r /\ stopping' = 0 /\ live' = {} /\ Raise(r)
      /\ UNCHANGED <<closed, sequence, process, lines, ident, world, dropped>>
      /\ Len(procs) \in Nat
  BY LenProperties DEF Reaped, Calls, IInv, Held, TypeOK
<1>2. /\ Held' /\ Outstanding'
      /\ lock' \in Calls \cup {None}
      /\ outcome' \in [Requests -> {"new", "pending", "answered", "failed"}]
      /\ pc' \in [Calls -> {"idle", "lock", "start", "write", "get", "stop", "done"}]
      /\ \A c \in Calls : pc'[c] = IF c = r THEN "done" ELSE pc[c]
  BY <1>1, RaiseKeeps DEF IInv, TypeOK
<1>3. Ids'
  BY <1>1, <1>2 DEF IInv, Ids, Calls
<1>4. Sinks' /\ Ends' /\ PipesOwn' /\ QueuesOwn'
  BY <1>1, WorldStill DEF world
<1>5. TypeOK'
  BY <1>1, <1>2 DEF IInv, TypeOK, Raise, world
<1> QED BY <1>1, <1>2, <1>3, <1>4, <1>5, RaiseServes DEF IInv

-----------------------------------------------------------------------------
(* close(), and what runs beside the calls. *)

\* A call of close() waits for the lock.
LEMMA CallCloseDone ==
  ASSUME IInv, NEW k \in Closers, CallClose(k)
  PROVE  IInv' /\ [Service!Next]_<<closed, outcome, answer>>
<1>1. /\ pc[k] = "idle" /\ k \in Calls /\ k \notin Requests /\ pc' = [pc EXCEPT ![k] = "lock"]
      /\ UNCHANGED <<lock, client, ident, stopping, world, result, dropped>>
  BY PythonAssumption DEF CallClose, Goto, Calls
<1>2. \A c \in Calls : pc'[c] = IF c = k THEN "lock" ELSE pc[c]
  BY <1>1 DEF IInv, TypeOK
<1>3. Held'
  BY <1>1, <1>2 DEF IInv, Held, Calls, client
<1>4. Outstanding' /\ Ids'
  BY <1>1, <1>2 DEF IInv, Outstanding, Ids, Calls, client, result
<1>5. Sinks' /\ Ends' /\ PipesOwn' /\ QueuesOwn'
  BY <1>1, WorldStill DEF client, world
<1>6. TypeOK'
  BY <1>1 DEF IInv, TypeOK, client, world, result
<1> QED BY <1>1, <1>3, <1>4, <1>5, <1>6 DEF IInv, client, result

\* close() waits for the lock, so no call is between the check of _closed and its
\* answer.
LEMMA CloseDone ==
  ASSUME IInv, NEW k \in Closers, Close(k)
  PROVE  IInv' /\ [Service!Next]_<<closed, outcome, answer>>
<1>1. /\ pc[k] = "lock" /\ lock = None /\ None \notin Calls /\ k \in Calls /\ k \notin Requests
      /\ closed' = TRUE /\ process' = 0 /\ Len(procs) \in Nat
      /\ UNCHANGED <<sequence, lines, live, ident, queues, faults, result, dropped>>
  BY PythonAssumption, LenProperties DEF Close, Calls, IInv, TypeOK
<1>2. \A c \in Calls : pc[c] \notin {"start", "write", "get", "stop"}
  BY <1>1 DEF IInv, Held
<1>3. Service!Close
  <2>1. Service!Failing({})
    BY <1>1 DEF Service!Failing, result, IInv, TypeOK
  <2> QED BY <1>1, <2>1 DEF Service!Close, result
<1>4. ASSUME NEW l \in {"done", "stop"}, pc' = [pc EXCEPT ![k] = l],
             l = "stop" => lock' = k /\ stopping' # 0, l = "done" => lock' = None
      PROVE  Held' /\ Outstanding' /\ Ids'
  <2>1. \A c \in Calls : pc'[c] = IF c = k THEN l ELSE pc[c]
    BY <1>4 DEF IInv, TypeOK
  <2>2. Held'
    BY <1>1, <1>2, <1>4, <2>1 DEF IInv, Held, Calls
  <2> QED BY <1>1, <2>1, <2>2 DEF IInv, Outstanding, Ids, Calls, result
<1>5. CASE Goto(k, "done") /\ UNCHANGED <<lock, stopping, procs>>
  <2>1. pc' = [pc EXCEPT ![k] = "done"] /\ lock' = None
    BY <1>1, <1>5 DEF Goto
  <2>2. Held' /\ Outstanding' /\ Ids'
    BY <1>4, <2>1
  <2>3. Sinks' /\ Ends' /\ PipesOwn' /\ QueuesOwn'
    BY <1>1, <1>5, WorldStill
  <2>4. TypeOK'
    BY <1>1, <1>5, <2>1 DEF IInv, TypeOK, result
  <2> QED BY <1>3, <2>2, <2>3, <2>4 DEF IInv, Service!Next
<1>6. CASE /\ process # 0 /\ lock' = k /\ stopping' = process
           /\ procs' = [procs EXCEPT ![process].stdinOpen = FALSE] /\ Goto(k, "stop")
  <2>1. pc' = [pc EXCEPT ![k] = "stop"] /\ process \in 1..Len(procs) /\ stopping' # 0
    BY <1>1, <1>6 DEF Goto, IInv, TypeOK
  <2>2. Held' /\ Outstanding' /\ Ids'
    BY <1>4, <1>6, <2>1
  <2>3. /\ procs' \in Seq(Process) /\ Len(procs') = Len(procs) /\ PipesOwn'
        /\ \A x \in 1..Len(procs) : /\ procs'[x].sink = procs[x].sink
                                    /\ procs[x].state = "exited" => procs'[x].state = "exited"
    BY <1>1, <1>6, <2>1, StdinClosed
  <2>4. Sinks' /\ Ends'
    BY <1>1, <2>3, SinksKept
  <2>5. QueuesOwn'
    BY <1>1 DEF IInv, QueuesOwn, Own
  <2>6. TypeOK'
    BY <1>1, <1>6, <2>1, <2>3 DEF IInv, TypeOK, result
  <2> QED BY <1>3, <2>2, <2>3, <2>4, <2>5, <2>6 DEF IInv, Service!Next
<1> QED BY <1>5, <1>6 DEF Close

\* close() has seen its process go, and gives the lock back.
LEMMA CloseReapedDone ==
  ASSUME IInv, NEW k \in Closers, CloseReaped(k)
  PROVE  IInv' /\ [Service!Next]_<<closed, outcome, answer>>
<1>1. /\ pc[k] = "stop" /\ k \in Calls /\ k \notin Requests /\ lock = k /\ lock' = None
      /\ None \notin Calls /\ stopping' = 0 /\ live' = {} /\ pc' = [pc EXCEPT ![k] = "done"]
      /\ UNCHANGED <<closed, sequence, process, lines, ident, world, result, dropped>>
      /\ Len(procs) \in Nat
  BY PythonAssumption, LenProperties DEF CloseReaped, Goto, Calls, IInv, Held, TypeOK
<1>2. \A c \in Calls : pc'[c] = IF c = k THEN "done" ELSE pc[c]
  BY <1>1 DEF IInv, TypeOK
<1>3. \A c \in Calls : pc'[c] \notin {"start", "write", "get", "stop"}
  BY <1>1, <1>2 DEF IInv, Held
<1>4. Held'
  BY <1>1, <1>2, <1>3 DEF IInv, Held, Calls
<1>5. Outstanding' /\ Ids'
  BY <1>1, <1>2 DEF IInv, Outstanding, Ids, Calls, result
<1>6. Sinks' /\ Ends' /\ PipesOwn' /\ QueuesOwn'
  BY <1>1, WorldStill DEF world
<1>7. TypeOK'
  BY <1>1 DEF IInv, TypeOK, world, result
<1> QED BY <1>1, <1>4, <1>5, <1>6, <1>7 DEF IInv, result

\* The finalizer closes the stdin of what is left.
LEMMA CollectDone ==
  ASSUME IInv, Collect
  PROVE  IInv' /\ [Service!Next]_<<closed, outcome, answer>>
<1>1. /\ procs' = [p \in DOMAIN procs |->
                     IF p \in live THEN [procs[p] EXCEPT !.stdinOpen = FALSE] ELSE procs[p]]
      /\ live' = {} /\ dropped' = TRUE
      /\ UNCHANGED <<lock, closed, sequence, process, lines, pc, ident, stopping, queues, faults, result>>
  BY DEF Collect
<1>2. Len(procs) \in Nat /\ DOMAIN procs = 1..Len(procs)
  BY LenProperties DEF IInv, TypeOK
<1>3. ASSUME NEW p \in 1..Len(procs)
      PROVE  /\ procs'[p] \in Process /\ procs'[p].sink = procs[p].sink
             /\ procs'[p].state = procs[p].state
             /\ procs'[p].stdin = procs[p].stdin /\ procs'[p].stdout = procs[p].stdout
  <2>1. procs[p] \in Process
    BY ProcTypes
  <2>2. procs'[p] = IF p \in live THEN [procs[p] EXCEPT !.stdinOpen = FALSE] ELSE procs[p]
    BY <1>1, <1>2
  <2> QED BY <2>1, <2>2 DEF Process
<1>4. procs' \in Seq(Process) /\ Len(procs') = Len(procs)
  <2>1. procs' \in [1..Len(procs) -> Process]
    BY <1>1, <1>2, <1>3
  <2> QED BY <1>2, <2>1, SeqDef, LenProperties
<1>5. PipesOwn'
  <2>1. \A p \in 1..Len(procs') :
          /\ \A i \in 1..Len(procs'[p].stdin) : Own(procs'[p].stdin[i])
          /\ \A i \in 1..Len(procs'[p].stdout) :
               procs'[p].stdout[i].kind # "garbage" => Own(procs'[p].stdout[i])
    BY <1>3, <1>4, ProcTypes
  <2>2. ident' = ident
    BY <1>1
  <2> QED BY <2>1, <2>2 DEF PipesOwn, Own
<1>6. Sinks' /\ Ends'
  BY <1>1, <1>3, <1>4, SinksKept
<1>7. QueuesOwn'
  BY <1>1 DEF IInv, QueuesOwn, Own
<1>8. Held' /\ Outstanding' /\ Ids'
  BY <1>1 DEF IInv, Held, Outstanding, Ids, result
<1>9. TypeOK'
  BY <1>1, <1>4 DEF IInv, TypeOK, result
<1> QED BY <1>1, <1>5, <1>6, <1>7, <1>8, <1>9 DEF IInv, result

\* What a reader or a daemon leaves alone.
LEMMA CallsStill ==
  ASSUME IInv, UNCHANGED others, Len(procs') = Len(procs), procs' \in Seq(Process),
         queues' \in Seq(Seq(Reply \cup {EOF})), Len(queues') = Len(queues), faults' \in Nat
  PROVE  TypeOK' /\ Held' /\ Outstanding' /\ Ids' /\ UNCHANGED <<closed, outcome, answer>>
BY DEF IInv, TypeOK, Held, Outstanding, Ids, others, client, result

\* A line, or the sentinel of a process that has ended, goes to its own queue.
LEMMA PutDone ==
  ASSUME IInv, NEW p \in 1..Len(procs), NEW q \in Process, NEW line \in Reply \cup {EOF},
         q.sink = procs[p].sink, q.state = procs[p].state, q.stdin = procs[p].stdin,
         \A i \in 1..Len(q.stdout) : \E k \in 1..Len(procs[p].stdout) : q.stdout[i] = procs[p].stdout[k],
         line = EOF => procs[p].state = "exited",
         line.kind \in {"garbage", "eof"} \/ Own(line),
         queues' = [queues EXCEPT ![procs[p].sink] = Append(@, line)],
         procs' = [procs EXCEPT ![p] = q], UNCHANGED <<others, faults>>
  PROVE  IInv' /\ UNCHANGED <<closed, outcome, answer>>
<1> DEFINE n == procs[p].sink
           w == Append(queues[n], line)
<1>1. n \in 1..Len(queues) /\ ident' = ident /\ lines' = lines /\ process' = process
  BY ProcTypes DEF others, client
<1>2. queues[n] \in Seq(Reply \cup {EOF})
  BY <1>1, QueueTypes
<1>3. /\ w \in Seq(Reply \cup {EOF})
      /\ \A i \in 1..Len(w) : w[i] = line \/ (i \in 1..Len(queues[n]) /\ w[i] = queues[n][i])
  BY <1>2, AppendProperties, LenProperties
<1>4. queues' = [queues EXCEPT ![n] = w]
  OBVIOUS
<1> HIDE DEF w
<1>5. /\ queues' \in Seq(Seq(Reply \cup {EOF})) /\ Len(queues') = Len(queues) /\ QueuesOwn'
      /\ \A m \in 1..Len(queues) : queues'[m] = IF m = n THEN w ELSE queues[m]
  <2>1. \A i \in 1..Len(w) : \/ \E k \in 1..Len(queues[n]) : w[i] = queues[n][k]
                             \/ w[i].kind \in {"garbage", "eof"}
                             \/ Own(w[i])
    BY <1>3
  <2>2. w \in Seq(Reply \cup {EOF})
    BY <1>3
  <2> HIDE DEF n
  <2> QED BY <1>1, <1>4, <2>1, <2>2, QueueSet
<1>6. /\ procs' \in Seq(Process) /\ Len(procs') = Len(procs) /\ PipesOwn'
      /\ \A x \in 1..Len(procs) : /\ procs'[x].sink = procs[x].sink
                                  /\ procs[x].state = "exited" => procs'[x].state = "exited"
      /\ procs'[p] = q
  <2>1. /\ \A i \in 1..Len(q.stdin) : Own(q.stdin[i])
        /\ \A i \in 1..Len(q.stdout) : q.stdout[i].kind # "garbage" => Own(q.stdout[i])
    BY ProcTypes
  <2>2. procs[p].state = "exited" => q.state = "exited"
    OBVIOUS
  <2> QED BY <1>1, <2>1, <2>2, ProcSet
<1>7. ASSUME NEW m \in 1..Len(queues), NEW i \in 1..Len(queues'[m]), queues'[m][i] = EOF
      PROVE  \/ \E k \in 1..Len(queues[m]) : queues[m][k] = EOF
             \/ \E x \in 1..Len(procs) : procs'[x].sink = m /\ procs'[x].state = "exited"
  <2>1. CASE m = n
    <3>1. queues'[m] = w
      BY <1>5, <2>1
    <3>2. CASE w[i] = line
      BY <1>6, <1>7, <2>1, <3>1, <3>2
    <3>3. CASE i \in 1..Len(queues[n]) /\ w[i] = queues[n][i]
      BY <1>7, <2>1, <3>1, <3>3
    <3> QED BY <1>3, <1>7, <3>1, <3>2, <3>3
  <2>2. CASE m # n
    <3>1. queues'[m] = queues[m]
      BY <1>5, <2>2
    <3> QED BY <1>7, <3>1
  <2> QED BY <2>1, <2>2
<1>8. Sinks' /\ Ends'
  BY <1>1, <1>5, <1>6, <1>7, SinksKept
<1>9. TypeOK' /\ Held' /\ Outstanding' /\ Ids' /\ UNCHANGED <<closed, outcome, answer>>
  BY <1>5, <1>6, CallsStill DEF IInv, TypeOK
<1> QED BY <1>5, <1>6, <1>8, <1>9 DEF IInv

\* The reader thread of a process puts a line, or the sentinel, in its queue.
LEMMA ReaderDone ==
  ASSUME IInv, NEW p \in 1..Len(procs), ReaderStep(p)
  PROVE  IInv' /\ UNCHANGED <<closed, outcome, answer>>
<1>1. procs[p] \in Process /\ procs[p].stdout \in Seq(Reply)
  BY ProcTypes
<1>2. CASE ReaderLine(p)
  <2> DEFINE line == Head(procs[p].stdout)
             q == [procs[p] EXCEPT !.stdout = Tail(@)]
  <2>1. procs[p].stdout # <<>> /\ UNCHANGED <<others, faults>>
    BY <1>2 DEF ReaderLine
  <2>2. /\ line = procs[p].stdout[1] /\ 1 \in 1..Len(procs[p].stdout) /\ line \in Reply
        /\ Tail(procs[p].stdout) \in Seq(Reply)
        /\ \A i \in 1..Len(Tail(procs[p].stdout)) :
             i + 1 \in 1..Len(procs[p].stdout) /\ Tail(procs[p].stdout)[i] = procs[p].stdout[i + 1]
    BY <1>1, <2>1, HeadTailProperties, LenProperties, EmptySeq
  <2>3. line # EOF /\ (line.kind = "garbage" \/ Own(line))
    BY <2>2, ProcTypes DEF Reply, EOF
  <2>4. /\ q \in Process /\ q.sink = procs[p].sink /\ q.state = procs[p].state
        /\ q.stdin = procs[p].stdin /\ q.stdout = Tail(procs[p].stdout)
    BY <1>1, <2>2 DEF Process
  <2>5. /\ queues' = [queues EXCEPT ![procs[p].sink] = Append(@, line)]
        /\ procs' = [procs EXCEPT ![p] = q]
    BY <1>2 DEF ReaderLine
  <2> HIDE DEF line, q
  <2>6. \A i \in 1..Len(q.stdout) : \E k \in 1..Len(procs[p].stdout) : q.stdout[i] = procs[p].stdout[k]
    BY <2>2, <2>4
  <2>7. line \in Reply \cup {EOF}
    BY <2>2
  <2> QED BY <2>1, <2>3, <2>4, <2>5, <2>6, <2>7, PutDone
<1>3. CASE ReaderEnd(p)
  <2> DEFINE q == [procs[p] EXCEPT !.reading = FALSE]
  <2>1. procs[p].state = "exited" /\ UNCHANGED <<others, faults>> /\ EOF.kind = "eof"
    BY <1>3 DEF ReaderEnd, EOF
  <2>2. /\ q \in Process /\ q.sink = procs[p].sink /\ q.state = procs[p].state
        /\ q.stdin = procs[p].stdin /\ q.stdout = procs[p].stdout
    BY <1>1 DEF Process
  <2>3. /\ queues' = [queues EXCEPT ![procs[p].sink] = Append(@, EOF)]
        /\ procs' = [procs EXCEPT ![p] = q]
    BY <1>3 DEF ReaderEnd
  <2> HIDE DEF q
  <2>4. \A i \in 1..Len(q.stdout) : \E k \in 1..Len(procs[p].stdout) : q.stdout[i] = procs[p].stdout[k]
    BY <2>2
  <2> QED BY <2>1, <2>2, <2>3, <2>4, PutDone
<1> QED BY <1>2, <1>3 DEF ReaderStep

\* One process changes and no queue does.
LEMMA DaemonDone ==
  ASSUME IInv, NEW p \in 1..Len(procs), NEW q \in Process,
         q.sink = procs[p].sink, procs[p].state = "exited" => q.state = "exited",
         \A i \in 1..Len(q.stdin) : Own(q.stdin[i]),
         \A i \in 1..Len(q.stdout) : q.stdout[i].kind # "garbage" => Own(q.stdout[i]),
         procs' = [procs EXCEPT ![p] = q], UNCHANGED <<others, queues>>, faults' \in Nat
  PROVE  IInv' /\ UNCHANGED <<closed, outcome, answer>>
<1>1. ident' = ident /\ lines' = lines /\ process' = process /\ queues' = queues
  BY DEF others, client
<1>2. /\ procs' \in Seq(Process) /\ Len(procs') = Len(procs) /\ PipesOwn'
      /\ \A x \in 1..Len(procs) : /\ procs'[x].sink = procs[x].sink
                                  /\ procs[x].state = "exited" => procs'[x].state = "exited"
  BY <1>1, ProcSet
<1>3. Sinks' /\ Ends'
  BY <1>1, <1>2, SinksKept
<1>4. QueuesOwn'
  BY <1>1 DEF IInv, QueuesOwn, Own
<1>5. TypeOK' /\ Held' /\ Outstanding' /\ Ids' /\ UNCHANGED <<closed, outcome, answer>>
  BY <1>1, <1>2, CallsStill DEF IInv, TypeOK
<1> QED BY <1>2, <1>3, <1>4, <1>5 DEF IInv

\* The daemon takes its line from stdin, or none, and writes one to stdout.
LEMMA WrittenDone ==
  ASSUME IInv, NEW p \in 1..Len(procs), procs[p].state = "running", NEW line \in Reply,
         NEW rest \in {procs[p].stdin, Tail(procs[p].stdin)},
         rest = procs[p].stdin \/ procs[p].stdin # <<>>,
         \/ line.kind = "garbage"
         \/ /\ procs[p].stdin # <<>>
            /\ line.id = Head(procs[p].stdin).id /\ line.req = Head(procs[p].stdin).req,
         Written(p, line, rest), faults' \in Nat
  PROVE  IInv' /\ UNCHANGED <<closed, outcome, answer>>
<1> DEFINE w == [procs[p] EXCEPT !.stdin = rest]
           out == Append(procs[p].stdout, line)
           q == [w EXCEPT !.stdout = out]
<1>1. /\ procs \in Seq(Process) /\ procs[p] \in Process
      /\ procs[p].stdin \in Seq(Job) /\ procs[p].stdout \in Seq(Reply)
  BY ProcTypes DEF IInv, TypeOK
<1>2. /\ rest \in Seq(Job)
      /\ \A i \in 1..Len(rest) : \E k \in 1..Len(procs[p].stdin) : rest[i] = procs[p].stdin[k]
  <2>1. CASE rest = procs[p].stdin
    BY <1>1, <2>1
  <2>2. CASE rest = Tail(procs[p].stdin) /\ procs[p].stdin # <<>>
    <3>1. /\ rest \in Seq(Job)
          /\ \A i \in 1..Len(rest) : i + 1 \in 1..Len(procs[p].stdin) /\ rest[i] = procs[p].stdin[i + 1]
      BY <1>1, <2>2, HeadTailProperties, LenProperties
    <3> QED BY <3>1
  <2> QED BY <2>1, <2>2
<1>3. line.kind # "garbage" => Own(line)
  <2>1. ASSUME procs[p].stdin # <<>> PROVE Own(Head(procs[p].stdin))
    <3>1. Head(procs[p].stdin) = procs[p].stdin[1] /\ 1 \in 1..Len(procs[p].stdin)
      BY <1>1, <2>1, EmptySeq, HeadTailProperties, LenProperties
    <3> QED BY <3>1, ProcTypes
  <2> QED BY <2>1 DEF Own
<1>4. /\ out \in Seq(Reply)
      /\ \A i \in 1..Len(out) : out[i] = line \/ (i \in 1..Len(procs[p].stdout) /\ out[i] = procs[p].stdout[i])
  BY <1>1, AppendProperties, LenProperties
<1>5. w \in Process /\ w.stdout = procs[p].stdout /\ w.sink = procs[p].sink
      /\ w.state = procs[p].state /\ w.stdin = rest
  BY <1>1, <1>2 DEF Process
<1> HIDE DEF w, out
<1>6. q \in Process /\ q.sink = procs[p].sink /\ q.state = procs[p].state
      /\ q.stdin = rest /\ q.stdout = out
  BY <1>4, <1>5 DEF Process
<1>7. procs' = [procs EXCEPT ![p] = q]
  <2> DEFINE P == [procs EXCEPT ![p] = w]
  <2>1. P[p] = w /\ [P EXCEPT ![p] = q] = [procs EXCEPT ![p] = q]
    <3>1. procs \in [1..Len(procs) -> Process]
      BY <1>1, LenProperties
    <3> HIDE DEF q
    <3> QED BY <3>1
  <2>2. [procs EXCEPT ![p].stdin = rest] = P
    BY DEF w
  <2>3. procs' = [[procs EXCEPT ![p].stdin = rest] EXCEPT ![p].stdout = Append(@, line)]
    BY DEF Written
  <2> HIDE DEF P
  <2>4. procs' = [P EXCEPT ![p] = [P[p] EXCEPT !.stdout = Append(P[p].stdout, line)]]
    BY <2>2, <2>3
  <2>5. Append(P[p].stdout, line) = out
    BY <1>5, <2>1 DEF out
  <2> QED BY <2>1, <2>4, <2>5
<1> HIDE DEF q
<1>8. /\ \A i \in 1..Len(q.stdin) : Own(q.stdin[i])
      /\ \A i \in 1..Len(q.stdout) : q.stdout[i].kind # "garbage" => Own(q.stdout[i])
  BY <1>2, <1>3, <1>4, <1>6, ProcTypes
<1>9. UNCHANGED <<others, queues>> /\ (procs[p].state = "exited" => q.state = "exited")
  BY DEF Written
<1> QED BY <1>6, <1>7, <1>8, <1>9, DaemonDone

\* A dead daemon has nothing more in its stdin.
LEMMA ExitDone ==
  ASSUME IInv, NEW p \in 1..Len(procs), Exit(p)
  PROVE  IInv' /\ UNCHANGED <<closed, outcome, answer>>
<1> DEFINE w == [procs[p] EXCEPT !.state = "exited"]
           q == [w EXCEPT !.stdin = <<>>]
<1>1. procs \in Seq(Process) /\ procs[p] \in Process
  BY ProcTypes DEF IInv, TypeOK
<1>2. /\ q \in Process /\ q.sink = procs[p].sink /\ q.state = "exited"
      /\ q.stdin = <<>> /\ q.stdout = procs[p].stdout
  BY <1>1, EmptySeq DEF Process
<1> HIDE DEF w
<1>3. procs' = [procs EXCEPT ![p] = q]
  <2> DEFINE P == [procs EXCEPT ![p] = w]
  <2>1. P[p] = w /\ [P EXCEPT ![p] = q] = [procs EXCEPT ![p] = q]
    <3>1. procs \in [1..Len(procs) -> Process]
      BY <1>1, LenProperties
    <3> HIDE DEF q
    <3> QED BY <3>1
  <2>2. [procs EXCEPT ![p].state = "exited"] = P
    BY DEF w
  <2>3. procs' = [[procs EXCEPT ![p].state = "exited"] EXCEPT ![p].stdin = <<>>]
    BY DEF Exit
  <2> HIDE DEF P
  <2>4. procs' = [P EXCEPT ![p] = [P[p] EXCEPT !.stdin = <<>>]]
    BY <2>2, <2>3
  <2> QED BY <2>1, <2>4
<1> HIDE DEF q
<1>4. /\ \A i \in 1..Len(q.stdin) : Own(q.stdin[i])
      /\ \A i \in 1..Len(q.stdout) : q.stdout[i].kind # "garbage" => Own(q.stdout[i])
  BY <1>2, EmptySeq, ProcTypes
<1>5. UNCHANGED <<others, queues>> /\ faults' \in Nat
  BY DEF Exit, IInv, TypeOK
<1> QED BY <1>2, <1>3, <1>4, <1>5, DaemonDone

\* The invariant is inductive, and every step is one of RequestService.
LEMMA Step == IInv /\ [Next]_vars => IInv' /\ [Service!Next]_<<closed, outcome, answer>>
<1> SUFFICES ASSUME IInv, [Next]_vars
             PROVE  IInv' /\ [Service!Next]_<<closed, outcome, answer>>
  OBVIOUS
<1>1. ASSUME NEW r \in Requests, Call(r) \/ RequestStep(r)
      PROVE  IInv' /\ [Service!Next]_<<closed, outcome, answer>>
  <2>1. ASSUME Timeout(r) PROVE IInv' /\ [Service!Next]_<<closed, outcome, answer>>
    <3>1. pc[r] \in {"write", "get"} /\ BeginStop(r, queues) /\ UNCHANGED <<ident, dropped, faults>>
      BY <2>1 DEF Timeout
    <3> QED BY <3>1, BeginStopDone
  <2> QED BY <1>1, <2>1, CallDone, AcquireDone, EnsureStartedDone, WriteDone, ReceiveDone,
             ReapedDone DEF RequestStep
<1>2. ASSUME NEW k \in Closers, CallClose(k) \/ CloseStep(k)
      PROVE  IInv' /\ [Service!Next]_<<closed, outcome, answer>>
  BY <1>2, CallCloseDone, CloseDone, CloseReapedDone DEF CloseStep
<1>3. CASE Collect
  BY <1>3, CollectDone
<1>4. ASSUME NEW p \in 1..Len(procs), ReaderStep(p) \/ DaemonExit(p)
      PROVE  IInv' /\ [Service!Next]_<<closed, outcome, answer>>
  BY <1>4, ReaderDone, ExitDone DEF DaemonExit
<1>5. ASSUME NEW p \in 1..Len(procs), procs[p].stdin # <<>>
      PROVE  Head(procs[p].stdin) \in Job
  BY <1>5, ProcTypes, HeadTailProperties
<1>6. ASSUME NEW p \in 1..Len(procs), DaemonReply(p)
      PROVE  IInv' /\ [Service!Next]_<<closed, outcome, answer>>
  <2> DEFINE job == Head(procs[p].stdin)
  <2>1. PICK kind \in {"ok", "error"} :
          Written(p, [kind |-> kind, id |-> job.id, req |-> job.req], Tail(procs[p].stdin))
    BY <1>6 DEF DaemonReply
  <2>2. procs[p].state = "running" /\ procs[p].stdin # <<>> /\ faults' \in Nat
    BY <1>6 DEF DaemonReply, IInv, TypeOK
  <2> DEFINE line == [kind |-> kind, id |-> job.id, req |-> job.req]
  <2>3. line \in Reply /\ line.id = job.id /\ line.req = job.req
    BY <1>5, <2>2 DEF Reply, Job
  <2>4. Written(p, line, Tail(procs[p].stdin))
    BY <2>1
  <2> HIDE DEF line
  <2> QED BY <2>2, <2>3, <2>4, WrittenDone
<1>7. ASSUME NEW p \in 1..Len(procs), DaemonFault(p)
      PROVE  IInv' /\ [Service!Next]_<<closed, outcome, answer>>
  <2> DEFINE job == Head(procs[p].stdin)
             noise == [kind |-> "garbage", id |-> 0, req |-> None]
             line == [kind |-> "malformed", id |-> job.id, req |-> job.req]
  <2>1. procs[p].state = "running" /\ faults' \in Nat
    BY <1>7 DEF DaemonFault, IInv, TypeOK
  <2>2. CASE Written(p, noise, procs[p].stdin)
    <3>1. noise \in Reply /\ noise.kind = "garbage"
      BY DEF Reply
    <3> HIDE DEF noise
    <3> QED BY <2>1, <2>2, <3>1, WrittenDone
  <2>3. CASE procs[p].stdin # <<>> /\ Written(p, line, Tail(procs[p].stdin))
    <3>1. line \in Reply /\ line.id = job.id /\ line.req = job.req
      BY <1>5, <2>3 DEF Reply, Job
    <3> HIDE DEF line
    <3> QED BY <2>1, <2>3, <3>1, WrittenDone
  <2> QED BY <1>7, <2>2, <2>3 DEF DaemonFault
<1>8. CASE UNCHANGED vars
  BY <1>8 DEF vars, client, world, result, IInv, TypeOK, Held, Outstanding, Sinks, Ends, Ids,
              Own, PipesOwn, QueuesOwn
<1> QED BY <1>1, <1>2, <1>3, <1>4, <1>6, <1>7, <1>8 DEF Next

-----------------------------------------------------------------------------
(* The theorems. *)

\* The invariant holds however the threads, readers and daemons interleave.
THEOREM Inductive == Spec => []IInv
<1>1. Init => IInv
  BY InitHolds
<1>2. IInv /\ [Next]_vars => IInv'
  BY Step
<1> QED BY <1>1, <1>2, PTL DEF Spec

\* The lock keeps a call alone with its process and its queue, and close() out.
THEOREM LockKeepsApart == Spec => []AloneWithItsProcess
<1>1. IInv => AloneWithItsProcess
  BY DEF IInv, Held, Sinks, AloneWithItsProcess, Calls
<1> QED BY <1>1, Inductive, PTL

\* The end of the stream that _receive takes for the end of its process is just
\* that: a sentinel of an earlier process is in a queue nobody reads any more.
THEOREM SentinelIsOwn == Spec => EndIsItsOwn
<1>1. ASSUME IInv, [Next]_vars, NEW r \in Requests, pc[r] = "get", pc'[r] = "stop", queues' # queues
      PROVE  procs[process].state = "exited"
  <2>1. r \in Calls /\ r \notin Closers
    BY PythonAssumption DEF Calls
  <2>2. \A c \in Calls : \A l : pc' = [pc EXCEPT ![c] = l] => pc'[r] = IF c = r THEN l ELSE pc[r]
    BY <1>1, <2>1 DEF IInv, TypeOK
  <2>3. Receive(r) /\ Head(queues[lines]) = EOF
    <3>1. ASSUME NEW s \in Requests, Call(s) \/ Acquire(s) \/ Reaped(s) PROVE FALSE
      BY <1>1, <3>1 DEF Call, Acquire, Reaped, world
    <3>2. ASSUME NEW s \in Requests, EnsureStarted(s) PROVE FALSE
      <4>1. pc'[r] # "stop" \/ queues' = queues
        BY <1>1, <2>1, <2>2, <3>2 DEF EnsureStarted, Goto, Raise, Calls
      <4> QED BY <1>1, <4>1
    <3>3. ASSUME NEW s \in Requests, Write(s) \/ Timeout(s) PROVE FALSE
      BY <1>1, <3>3 DEF Write, Timeout, BeginStop
    <3>4. ASSUME NEW k \in Closers, CallClose(k) \/ Close(k) \/ CloseReaped(k) PROVE FALSE
      BY <1>1, <3>4 DEF CallClose, Close, CloseReaped, world
    <3>5. ASSUME Collect PROVE FALSE
      BY <1>1, <3>5 DEF Collect
    <3>6. ASSUME NEW p \in 1..Len(procs),
                 ReaderStep(p) \/ DaemonReply(p) \/ DaemonFault(p) \/ DaemonExit(p)
          PROVE FALSE
      BY <1>1, <3>6 DEF ReaderStep, ReaderLine, ReaderEnd, DaemonReply, DaemonFault, DaemonExit,
           Exit, Written, others
    <3>7. PICK s \in Requests : Receive(s)
      BY <1>1, <3>1, <3>2, <3>3, <3>4, <3>5, <3>6 DEF Next, RequestStep, CloseStep, vars, world
    <3>8. s = r
      BY <1>1, <2>1, <3>7 DEF Receive, IInv, Held, Calls
    <3> QED BY <1>1, <2>1, <2>2, <3>7, <3>8 DEF Receive, Goto, Raise, Return
  <2>4. lines \in 1..Len(queues) /\ queues[lines] # <<>>
    BY <1>1, <2>3 DEF Receive, IInv, TypeOK
  <2>5. queues[lines][1] = EOF /\ 1 \in 1..Len(queues[lines])
    <3>1. queues[lines] \in Seq(Reply \cup {EOF})
      BY <1>1, <2>4, QueueTypes
    <3> QED BY <2>3, <2>4, <3>1, EmptySeq, HeadTailProperties, LenProperties
  <2>6. PICK p \in 1..Len(procs) : procs[p].sink = lines /\ procs[p].state = "exited"
    BY <1>1, <2>4, <2>5 DEF IInv, Ends
  <2>7. process \in 1..Len(procs) /\ procs[process].sink = lines
    BY <1>1, LenProperties DEF IInv, Held, Sinks, TypeOK
  <2> QED BY <1>1, <2>6, <2>7 DEF IInv, Sinks
<1>2. IInv /\ [Next]_vars =>
        [\A r \in Requests : pc[r] = "get" /\ pc'[r] = "stop" /\ queues' # queues
           => procs[process].state = "exited"]_vars
  BY <1>1
<1> QED BY <1>2, Inductive, PTL DEF Spec, EndIsItsOwn

\* Every step of a thread is a step of the request service, or none: no crossed
\* answers, none after close(), and nothing settled twice.
THEOREM ServiceImplemented == Spec => Implements
<1>1. Init => Service!Init
  BY InitHolds
<1>2. IInv /\ [Next]_vars => [Service!Next]_<<closed, outcome, answer>>
  BY Step
<1>3. IInv /\ [Next]_vars => [Service!Next]_(Service!vars)
  BY <1>2 DEF Service!vars
<1> QED BY <1>1, <1>3, Inductive, PTL DEF Spec, Implements, Service!Spec
===============================================================================
