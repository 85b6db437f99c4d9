----------------------------- MODULE PythonClient -----------------------------
(***************************************************************************)
(* The Python client (src/python/src/tlsforge/_client.py): threads that    *)
(* call request() and close() on one Client, serialised by its lock; a     *)
(* reader thread per daemon process that copies the process's stdout into  *)
(* the queue made for it; and the daemon processes.  Threads, readers and  *)
(* daemons interleave; a step is what one of them does between two points  *)
(* where another can see or change something.                              *)
(***************************************************************************)
EXTENDS Naturals, Sequences

CONSTANTS Requests,    \* the calls of request(), one per thread
          Closers,     \* the calls of close()
          None,        \* not a call
          PipeRoom,    \* how many lines the pipe to a daemon holds
          MaxFaults    \* how many lines a daemon may get wrong

ASSUME PythonAssumption == /\ None \notin Requests \cup Closers
                           /\ Requests \cap Closers = {}
                           /\ PipeRoom \in Nat \ {0}
                           /\ MaxFaults \in Nat

VARIABLES lock,        \* _lock: the call that holds it
          closed,      \* _closed
          sequence,    \* _sequence
          process,     \* _process: an index of procs, 0 for None
          lines,       \* _lines: an index of queues
          live,        \* _live, the processes the finalizer will stop
          pc,          \* where each call is
          ident,       \* the id each call gave its request
          stopping,    \* the process _kill is waiting for, 0 if none
          procs,       \* every process started so far
          queues,      \* every queue.Queue made so far
          outcome,     \* how each request stands
          answer,      \* whose answer a request returned
          dropped,     \* the client was garbage collected
          faults       \* lines a daemon got wrong so far

client == <<closed, sequence, process, lines, live>>
world  == <<procs, queues, faults>>
result == <<outcome, answer>>
vars   == <<lock, client, pc, ident, stopping, world, result, dropped>>

Calls == Requests \cup Closers

-----------------------------------------------------------------------------
Job   == [req : Requests, id : Nat]
Reply == [kind : {"ok", "error", "malformed", "garbage"}, id : Nat, req : Requests \cup {None}]
EOF   == [kind |-> "eof", id |-> 0, req |-> None]

\* sink is the queue the reader thread of the process puts its lines in; reading
\* ends when that thread has put the sentinel.
Process == [state : {"running", "exited"}, stdinOpen : BOOLEAN, reading : BOOLEAN,
            sink : Nat, stdin : Seq(Job), stdout : Seq(Reply)]

NewProcess(q) == [state |-> "running", stdinOpen |-> TRUE, reading |-> TRUE,
                  sink |-> q, stdin |-> <<>>, stdout |-> <<>>]

Init == /\ lock = None
        /\ closed = FALSE
        /\ sequence = 0
        /\ process = 0
        /\ lines = 1
        /\ live = {}
        /\ pc = [c \in Calls |-> "idle"]
        /\ ident = [r \in Requests |-> 0]
        /\ stopping = 0
        /\ procs = <<>>
        /\ queues = << <<>> >>
        /\ outcome = [r \in Requests |-> "new"]
        /\ answer = [r \in Requests |-> None]
        /\ dropped = FALSE
        /\ faults = 0

-----------------------------------------------------------------------------
(* What several steps of a call have in common.                            *)

Goto(c, l) == pc' = [pc EXCEPT ![c] = l]

\* Mutant: the lock is not released when the call raises.
RaiseHoldingLock(r) == /\ Goto(r, "done")
                       /\ UNCHANGED lock
                       /\ outcome' = [outcome EXCEPT ![r] = "failed"]
                       /\ UNCHANGED answer

\* The call raises; the with statement releases the lock.
Raise(r) == /\ Goto(r, "done")
            /\ lock' = None
            /\ outcome' = [outcome EXCEPT ![r] = "failed"]
            /\ UNCHANGED answer

Return(r, line) == /\ Goto(r, "done")
                   /\ lock' = None
                   /\ outcome' = [outcome EXCEPT ![r] = "answered"]
                   /\ answer' = [answer EXCEPT ![r] = line.req]

\* _stop: the process is forgotten, its stdin closed, and _kill waits for it.
BeginStop(c, q) == /\ process' = 0
                   /\ stopping' = process
                   /\ procs' = [procs EXCEPT ![process].stdinOpen = FALSE]
                   /\ queues' = q
                   /\ Goto(c, "stop")
                   /\ UNCHANGED <<lock, closed, sequence, lines, live, result>>

-----------------------------------------------------------------------------
(* request()                                                               *)

Call(r) ==
  /\ ~dropped
  /\ pc[r] = "idle"
  /\ \/ Goto(r, "lock") /\ outcome' = [outcome EXCEPT ![r] = "pending"]
     \/ Goto(r, "done") /\ outcome' = [outcome EXCEPT ![r] = "failed"]
  /\ UNCHANGED <<lock, client, ident, stopping, world, answer, dropped>>

\* Mutant: no check of _closed.
AcquireUnchecked(r) ==
  /\ pc[r] = "lock"
  /\ lock = None
  /\ lock' = r
  /\ sequence' = sequence + 1
  /\ ident' = [ident EXCEPT ![r] = sequence + 1]
  /\ Goto(r, "start")
  /\ UNCHANGED <<closed, process, lines, live, stopping, world, result, dropped>>

\* The lock is taken, and given back at once by a call that finds the client
\* closed or (its id already taken) cannot be encoded.
Acquire(r) ==
  /\ pc[r] = "lock"
  /\ lock = None
  /\ IF closed
     THEN Raise(r) /\ UNCHANGED <<sequence, ident>>
     ELSE /\ sequence' = sequence + 1
          /\ ident' = [ident EXCEPT ![r] = sequence + 1]
          /\ \/ Raise(r)
             \/ lock' = r /\ Goto(r, "start") /\ UNCHANGED result
  /\ UNCHANGED <<closed, process, lines, live, stopping, world, dropped>>

\* Mutants: one queue for all the processes; a process the finalizer does not know.
SharedQueue == UNCHANGED <<queues, lines>>

RegisterNothing(p) == UNCHANGED live

\* A new process gets a queue of its own.
NewQueue == /\ queues' = Append(queues, <<>>)
            /\ lines' = Len(queues) + 1

Register(p) == live' = live \cup {p}

EnsureStarted(r) ==
  /\ pc[r] = "start"
  /\ IF process # 0
     THEN /\ Goto(r, "write")
          /\ UNCHANGED <<lock, process, lines, live, procs, queues, result>>
     ELSE \/ /\ Raise(r)
             /\ UNCHANGED <<process, lines, live, procs, queues>>
          \/ /\ NewQueue
             /\ process' = Len(procs) + 1
             /\ procs' = Append(procs, NewProcess(lines'))
             /\ Register(process')
             /\ Goto(r, "write")
             /\ UNCHANGED <<lock, result>>
  /\ UNCHANGED <<closed, sequence, ident, stopping, dropped, faults>>

\* The write has no deadline: it waits for room in the pipe, and fails once
\* there is no process to read it.
Write(r) ==
  /\ pc[r] = "write"
  /\ \/ /\ procs[process].state = "running"
        /\ Len(procs[process].stdin) < PipeRoom
        /\ procs' = [procs EXCEPT ![process].stdin = Append(@, [req |-> r, id |-> ident[r]])]
        /\ Goto(r, "get")
        /\ UNCHANGED <<lock, closed, sequence, process, lines, live, stopping, queues, result>>
     \/ /\ procs[process].state = "exited"
        /\ BeginStop(r, queues)
  /\ UNCHANGED <<ident, dropped, faults>>

\* One line from the queue: the sentinel ends the process, garbage fails the
\* call and keeps the process, an answer to another id is dropped.
Mine(r, line) == line.id = ident[r]

Receive(r) ==
  /\ pc[r] = "get"
  /\ queues[lines] # <<>>
  /\ LET line == Head(queues[lines])
         rest == [queues EXCEPT ![lines] = Tail(@)]
     IN  IF line = EOF
         THEN BeginStop(r, rest)
         ELSE /\ queues' = rest
              /\ \/ line.kind = "garbage" /\ Raise(r)
                 \/ /\ line.kind # "garbage"
                    /\ ~Mine(r, line)
                    /\ UNCHANGED <<lock, pc, result>>
                 \/ /\ line.kind # "garbage"
                    /\ Mine(r, line)
                    /\ IF line.kind = "ok" THEN Return(r, line) ELSE Raise(r)
              /\ UNCHANGED <<client, stopping, procs>>
  /\ UNCHANGED <<ident, dropped, faults>>

\* queue.Empty: the deadline passed and nothing is in the queue.
Timeout(r) ==
  /\ pc[r] = "get"
  /\ queues[lines] = <<>>
  /\ BeginStop(r, queues)
  /\ UNCHANGED <<ident, dropped, faults>>

\* The process was reaped: _live is cleared and the call raises.
Reaped(r) ==
  /\ pc[r] = "stop"
  /\ procs[stopping].state = "exited"
  /\ stopping' = 0
  /\ live' = {}
  /\ Raise(r)
  /\ UNCHANGED <<closed, sequence, process, lines, ident, world, dropped>>

-----------------------------------------------------------------------------
(* close() and the finalizer                                               *)

CallClose(k) ==
  /\ ~dropped
  /\ pc[k] = "idle"
  /\ Goto(k, "lock")
  /\ UNCHANGED <<lock, client, ident, stopping, world, result, dropped>>

\* Mutant: close() without the lock.
CloseUnlocked(k) ==
  /\ pc[k] = "lock"
  /\ closed' = TRUE
  /\ process' = 0
  /\ Goto(k, "done")
  /\ UNCHANGED <<lock, stopping, sequence, lines, live, ident, world, result, dropped>>

Close(k) ==
  /\ pc[k] = "lock"
  /\ lock = None
  /\ closed' = TRUE
  /\ process' = 0
  /\ IF process = 0
     THEN Goto(k, "done") /\ UNCHANGED <<lock, stopping, procs>>
     ELSE /\ lock' = k
          /\ stopping' = process
          /\ procs' = [procs EXCEPT ![process].stdinOpen = FALSE]
          /\ Goto(k, "stop")
  /\ UNCHANGED <<sequence, lines, live, ident, queues, faults, result, dropped>>

CloseReaped(k) ==
  /\ pc[k] = "stop"
  /\ procs[stopping].state = "exited"
  /\ stopping' = 0
  /\ live' = {}
  /\ lock' = None
  /\ Goto(k, "done")
  /\ UNCHANGED <<closed, sequence, process, lines, ident, world, result, dropped>>

\* weakref.finalize: the client is collected when no call uses it any more.
Collect ==
  /\ ~dropped
  /\ \A c \in Calls : pc[c] \in {"idle", "done"}
  /\ dropped' = TRUE
  /\ procs' = [p \in DOMAIN procs |->
                 IF p \in live THEN [procs[p] EXCEPT !.stdinOpen = FALSE] ELSE procs[p]]
  /\ live' = {}
  /\ UNCHANGED <<lock, closed, sequence, process, lines, pc, ident, stopping, queues, faults, result>>

-----------------------------------------------------------------------------
(* The reader thread of process p, and the daemon itself.                  *)

others == <<lock, client, pc, ident, stopping, result, dropped>>

ReaderLine(p) ==
  /\ procs[p].stdout # <<>>
  /\ queues' = [queues EXCEPT ![procs[p].sink] = Append(@, Head(procs[p].stdout))]
  /\ procs' = [procs EXCEPT ![p].stdout = Tail(@)]
  /\ UNCHANGED <<others, faults>>

ReaderEnd(p) ==
  /\ procs[p].reading
  /\ procs[p].state = "exited"
  /\ procs[p].stdout = <<>>
  /\ queues' = [queues EXCEPT ![procs[p].sink] = Append(@, EOF)]
  /\ procs' = [procs EXCEPT ![p].reading = FALSE]
  /\ UNCHANGED <<others, faults>>

Written(p, line, rest) ==
  /\ procs' = [procs EXCEPT ![p].stdin = rest, ![p].stdout = Append(@, line)]
  /\ UNCHANGED <<others, queues>>

DaemonReply(p) ==
  /\ procs[p].state = "running"
  /\ procs[p].stdin # <<>>
  /\ LET job == Head(procs[p].stdin)
     IN  \E kind \in {"ok", "error"} :
           Written(p, [kind |-> kind, id |-> job.id, req |-> job.req], Tail(procs[p].stdin))
  /\ UNCHANGED faults

\* Something else prints on the daemon's stdout, or a reply has the wrong shape.
DaemonFault(p) ==
  /\ procs[p].state = "running"
  /\ faults < MaxFaults
  /\ faults' = faults + 1
  /\ \/ Written(p, [kind |-> "garbage", id |-> 0, req |-> None], procs[p].stdin)
     \/ /\ procs[p].stdin # <<>>
        /\ LET job == Head(procs[p].stdin)
           IN  Written(p, [kind |-> "malformed", id |-> job.id, req |-> job.req],
                       Tail(procs[p].stdin))

Exit(p) == /\ procs[p].state = "running"
           /\ procs' = [procs EXCEPT ![p].state = "exited", ![p].stdin = <<>>]
           /\ UNCHANGED <<others, queues, faults>>

DaemonExit(p) == Exit(p)

\* The end of its input makes the daemon return; a signal ends one that does not.
DaemonStop(p) == ~procs[p].stdinOpen /\ Exit(p)

-----------------------------------------------------------------------------
RequestStep(r) == \/ Acquire(r) \/ EnsureStarted(r) \/ Write(r)
                  \/ Receive(r) \/ Timeout(r) \/ Reaped(r)

CloseStep(k) == Close(k) \/ CloseReaped(k)

ReaderStep(p) == ReaderLine(p) \/ ReaderEnd(p)

Next == \/ \E r \in Requests : Call(r) \/ RequestStep(r)
        \/ \E k \in Closers : CallClose(k) \/ CloseStep(k)
        \/ Collect
        \/ \E p \in 1..Len(procs) : \/ ReaderStep(p)
                                    \/ DaemonReply(p)
                                    \/ DaemonFault(p)
                                    \/ DaemonExit(p)

Spec == Init /\ [][Next]_vars

\* Threads are scheduled and a deadline passes; a daemon answers or dies, since
\* its own requests have a deadline; a daemon without stdin ends.
Fairness == /\ \A r \in Requests : WF_vars(RequestStep(r))
            /\ \A k \in Closers : WF_vars(CloseStep(k))
            /\ WF_vars(\E p \in 1..Len(procs) : DaemonReply(p))
            /\ WF_vars(\E p \in 1..Len(procs) : DaemonStop(p))

FairSpec == Spec /\ Fairness

-----------------------------------------------------------------------------
Pending == {r \in Requests : outcome[r] = "pending"}

Running == {p \in 1..Len(procs) : procs[p].state = "running"}

\* Past the lock a call is alone: the process it writes to and the queue it reads
\* from belong together until it lets go, and close() cannot take them away.
AloneWithItsProcess ==
  \A c \in Calls : pc[c] \in {"start", "write", "get", "stop"} =>
    /\ lock = c
    /\ pc[c] \in {"write", "get"} => /\ process # 0
                                     /\ procs[process].sink = lines
                                     /\ ~closed
    /\ pc[c] = "stop" => stopping # 0 /\ process = 0

\* A call fails for the end of the stream only if the process it was written to
\* has ended: the sentinel of an earlier process goes to an earlier queue.
EndIsItsOwn ==
  [][\A r \in Requests : pc[r] = "get" /\ pc'[r] = "stop" /\ queues' # queues
        => procs[process].state = "exited"]_vars

\* The client does what a request service promises.
Service == INSTANCE RequestService
Implements == Service!Spec

\* Every call of request() and close() returns, whoever holds the lock.
EveryCallReturns == \A c \in Calls : pc[c] = "lock" ~> pc[c] = "done"

\* No daemon outlives a client that was closed or collected.
DaemonsEnd == ((closed /\ lock = None) \/ dropped) ~> Running = {}
===============================================================================
