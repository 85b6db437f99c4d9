------------------------------ MODULE NodeClient ------------------------------
(***************************************************************************)
(* The Node client (src/node/index.js): one Client object, the daemon      *)
(* processes it spawns, and the callbacks of the event loop that connect   *)
(* them.  A callback runs to its end before the next one starts, so every  *)
(* action is one whole callback, with each private method it calls.        *)
(*                                                                         *)
(* A private method of the class is an operator from a state to a state    *)
(* (to a set of states where a spawn can turn out in several ways); the    *)
(* actions apply them in the order the callback does.                      *)
(***************************************************************************)
EXTENDS Naturals, Sequences

CONSTANTS Requests,    \* the calls of request() the program makes
          None,        \* not a request
          MaxFaults    \* how many lines a daemon may get wrong

ASSUME NodeAssumption == None \notin Requests /\ MaxFaults \in Nat

VARIABLES closed,      \* #closed
          sequence,    \* #sequence
          queue,       \* #queue
          inFlight,    \* #inFlight, NoJob for null
          timers,      \* the requests whose deadline timer is armed
          process,     \* #process: an index of procs, 0 for null
          reader,      \* the process whose stdout #reader reads, 0 for null
          procs,       \* every process spawned so far, in order
          writes,      \* stdin.write calls whose callback may still bring an error
          outcome,     \* the promise of each request
          answer,      \* whose answer a promise was resolved with
          sent,        \* how many times a request was written to a process
          unhandled,   \* an 'error' event found no listener
          faults       \* lines a daemon got wrong so far

vars == <<closed, sequence, queue, inFlight, timers, process, reader, procs,
          writes, outcome, answer, sent, unhandled, faults>>

-----------------------------------------------------------------------------
Job == [req : Requests, id : Nat]
NoJob == [req |-> None, id |-> 0]

\* A line of stdout.  "garbage" is not a JSON object, "malformed" has a field of
\* the wrong type; req names the request whose answer the line really is.
Reply == [kind : {"ok", "error", "malformed", "garbage"}, id : Nat, req : Requests \cup {None}]

\* "failing": spawn() returned but its 'error' event is still to come.
\* "exited": the process is dead but its 'exit' event is still to come.
Process == [state : {"failing", "running", "exited", "gone"},
            killed : BOOLEAN, exitOn : BOOLEAN, errorOn : BOOLEAN,
            stdin : Seq(Job), stdout : Seq(Reply)]

NewProcess(st) == [state |-> st, killed |-> FALSE, exitOn |-> TRUE, errorOn |-> TRUE,
                   stdin |-> <<>>, stdout |-> <<>>]

Init == /\ closed = FALSE
        /\ sequence = 0
        /\ queue = <<>>
        /\ inFlight = NoJob
        /\ timers = {}
        /\ process = 0
        /\ reader = 0
        /\ procs = <<>>
        /\ writes = {}
        /\ outcome = [r \in Requests |-> "new"]
        /\ answer = [r \in Requests |-> None]
        /\ sent = [r \in Requests |-> 0]
        /\ unhandled = FALSE
        /\ faults = 0

-----------------------------------------------------------------------------
(* The private methods.                                                    *)

State == [closed |-> closed, sequence |-> sequence, queue |-> queue, inFlight |-> inFlight,
          timers |-> timers, process |-> process, reader |-> reader, procs |-> procs,
          writes |-> writes, outcome |-> outcome, answer |-> answer, sent |-> sent]

Becomes(s) == /\ closed' = s.closed
              /\ sequence' = s.sequence
              /\ queue' = s.queue
              /\ inFlight' = s.inFlight
              /\ timers' = s.timers
              /\ process' = s.process
              /\ reader' = s.reader
              /\ procs' = s.procs
              /\ writes' = s.writes
              /\ outcome' = s.outcome
              /\ answer' = s.answer
              /\ sent' = s.sent

Queued(s) == {s.queue[i].req : i \in 1..Len(s.queue)}

\* A promise keeps the first outcome it is given.
Reject(s, R) ==
  [s EXCEPT !.outcome =
     [r \in Requests |-> IF r \in R /\ @[r] = "pending" THEN "failed" ELSE @[r]]]

\* A reply with an "error" rejects the promise, any other resolves it.
Resolve(s, r, line) ==
  IF line.kind = "ok" /\ s.outcome[r] = "pending"
  THEN [s EXCEPT !.outcome[r] = "answered", !.answer[r] = line.req]
  ELSE Reject(s, {r})

\* What the reader had not delivered is lost.
CloseReaders(s) == IF s.reader = 0
                   THEN s
                   ELSE [s EXCEPT !.reader = 0, !.procs[s.reader].stdout = <<>>]

\* Mutant: the 'exit' listener of a killed process is left attached.
KilledStillHeard(p) == [p EXCEPT !.killed = TRUE, !.errorOn = FALSE, !.stdin = <<>>, !.stdout = <<>>]

\* Both pipes of a killed process are destroyed, with what they hold.
Killed(p) == [p EXCEPT !.killed = TRUE, !.exitOn = FALSE, !.errorOn = FALSE,
                       !.stdin = <<>>, !.stdout = <<>>]

Kill(s) == IF s.process = 0
           THEN s
           ELSE [CloseReaders(s) EXCEPT !.process = 0, !.procs[s.process] = Killed(@)]

\* Mutant: the timer of a settled job stays armed.
ClearInFlightKeepTimer(s) == [s EXCEPT !.inFlight = NoJob]

\* #inFlight = null and clearTimeout(job.timer).
ClearInFlight(s) == [s EXCEPT !.inFlight = NoJob, !.timers = @ \ {s.inFlight.req}]

FailInFlight(s) == ClearInFlight(Reject(s, {s.inFlight.req}))

FailAll(s) == [FailInFlight(Reject(s, Queued(s))) EXCEPT !.queue = <<>>]

Start(s, st) == LET p == Len(s.procs) + 1
                IN  [CloseReaders(s) EXCEPT !.process = p, !.reader = p,
                                            !.procs = Append(@, NewProcess(st))]

\* The line reaches the pipe only of a process that is there to read it.
Dispatch(s) ==
  LET job == Head(s.queue)
      p   == s.process
  IN  [s EXCEPT !.queue = Tail(@),
                !.inFlight = job,
                !.timers = @ \cup {job.req},
                !.procs[p].stdin = IF s.procs[p].state = "running" THEN Append(@, job) ELSE @,
                !.writes = @ \cup {[job |-> job, proc |-> p]},
                !.sent[job.req] = @ + 1]

\* spawn() may work, fail later through 'error', or throw.
Pump(s) ==
  IF s.inFlight # NoJob \/ s.queue = <<>> THEN {s}
  ELSE IF s.process # 0 THEN {Dispatch(s)}
  ELSE {Dispatch(Start(s, st)) : st \in {"running", "failing"}} \cup {FailAll(CloseReaders(s))}

Restart(s) == Pump(Kill(s))

-----------------------------------------------------------------------------
(* The program's calls.                                                    *)

\* 'error' is emitted from process.nextTick, ahead of every other callback.
Ticking == \E p \in 1..Len(procs) : procs[p].state = "failing"

Callback == ~unhandled /\ ~Ticking

Refused(s, r) == [s EXCEPT !.outcome[r] = "failed"]

Submitted(s, r) == [s EXCEPT !.sequence = @ + 1,
                             !.queue = Append(@, [req |-> r, id |-> s.sequence + 1]),
                             !.outcome[r] = "pending"]

\* A call is refused for want of a url, on a closed client (before an id is
\* taken), or because its body cannot be encoded (after).
Request(r) ==
  /\ ~unhandled
  /\ outcome[r] = "new"
  /\ \/ Becomes(Refused(State, r))
     \/ ~closed /\ Becomes(Refused([State EXCEPT !.sequence = @ + 1], r))
     \/ ~closed /\ \E s \in Pump(Submitted(State, r)) : Becomes(s)
  /\ UNCHANGED <<unhandled, faults>>

\* Mutants: close() without #kill; close() that lets the request in flight end.
CloseWithoutKill == /\ ~unhandled
                    /\ Becomes(FailAll([State EXCEPT !.closed = TRUE]))
                    /\ UNCHANGED <<unhandled, faults>>

CloseInBackground == /\ ~unhandled
                     /\ Becomes([State EXCEPT !.closed = TRUE])
                     /\ UNCHANGED <<unhandled, faults>>

Close == /\ ~unhandled
         /\ Becomes(FailAll(Kill([State EXCEPT !.closed = TRUE])))
         /\ UNCHANGED <<unhandled, faults>>

-----------------------------------------------------------------------------
(* The callbacks.                                                          *)

\* The timer that #pump armed fires: it clears #inFlight whatever it holds.
Timeout(r) ==
  /\ Callback
  /\ r \in timers
  /\ \E fired \in {Reject([State EXCEPT !.timers = @ \ {r}, !.inFlight = NoJob], {r})} :
        \E s \in Restart(fired) : Becomes(s)
  /\ UNCHANGED <<unhandled, faults>>

\* Mutant: a failed write settles its request and leaves the queue alone.
WriteFailedNoRestart(s, w) == IF s.inFlight # w.job THEN {s} ELSE {FailInFlight(s)}

\* The callback of stdin.write.  It returns at once unless it is given an error,
\* which it may be when the process is gone.
WriteFailed(s, w) == IF s.inFlight # w.job THEN {s} ELSE Restart(FailInFlight(s))

WriteCallback(w) ==
  /\ Callback
  /\ w \in writes
  /\ procs[w.proc].killed \/ procs[w.proc].state # "running"
  /\ \E s \in WriteFailed([State EXCEPT !.writes = @ \ {w}], w) : Becomes(s)
  /\ UNCHANGED <<unhandled, faults>>

\* Mutant: whatever line comes settles the request in flight.
OnLineAnyId(s, line) ==
  IF line.kind = "garbage" /\ s.inFlight # NoJob THEN Pump(FailInFlight(s))
  ELSE IF s.inFlight = NoJob THEN {s}
  ELSE Pump(ClearInFlight(Resolve(s, s.inFlight.req, line)))

\* #onLine: a line that is no response costs the request in flight, an answer
\* nobody waits for is dropped, a response with a field of the wrong type is
\* an error of its own request.
OnLine(s, line) ==
  IF line.kind = "garbage" /\ s.inFlight # NoJob THEN Pump(FailInFlight(s))
  ELSE IF s.inFlight = NoJob \/ line.id # s.inFlight.id THEN {s}
  ELSE Pump(ClearInFlight(Resolve(s, s.inFlight.req, line)))

LineEvent ==
  /\ Callback
  /\ reader # 0
  /\ procs[reader].stdout # <<>>
  /\ LET read == [State EXCEPT !.procs[reader].stdout = Tail(@)]
     IN  \E s \in OnLine(read, Head(procs[reader].stdout)) : Becomes(s)
  /\ UNCHANGED <<unhandled, faults>>

\* Mutants: no #pump after an exit; the request in flight is sent again.
OnExitNoPump(s) == {FailInFlight(CloseReaders([s EXCEPT !.process = 0]))}

OnExitRetry(s) ==
  Pump(ClearInFlight(CloseReaders(
    [s EXCEPT !.process = 0, !.queue = IF s.inFlight = NoJob THEN @ ELSE <<s.inFlight>> \o @])))

\* 'exit': only the request written to the dead process is lost with it.
OnExit(s) == Pump(FailInFlight(CloseReaders([s EXCEPT !.process = 0])))

ExitEvent(p) ==
  /\ Callback
  /\ procs[p].state = "exited"
  /\ LET gone == [State EXCEPT !.procs[p].state = "gone"]
     IN  IF procs[p].exitOn
         THEN \E s \in OnExit(gone) : Becomes(s)
         ELSE Becomes(gone)
  /\ UNCHANGED <<unhandled, faults>>

\* 'error' after a spawn that failed.  #kill takes the listener away, and then
\* the event is an uncaught exception.
OnError(s, p) == FailAll(CloseReaders([s EXCEPT !.procs[p].exitOn = FALSE, !.process = 0]))

ErrorEvent(p) ==
  /\ ~unhandled
  /\ procs[p].state = "failing"
  /\ LET gone == [State EXCEPT !.procs[p].state = "gone"]
     IN  IF procs[p].errorOn
         THEN Becomes(OnError(gone, p)) /\ UNCHANGED unhandled
         ELSE Becomes(gone) /\ unhandled' = TRUE
  /\ UNCHANGED faults

-----------------------------------------------------------------------------
(* The daemon at the other end of the pipes.  It works on one line at a    *)
(* time and echoes the id of each; its own deadline is longer than the     *)
(* client's, so an answer may come at any time.                            *)

Serving(p) == procs[p].state = "running" /\ ~procs[p].killed

Written(p, line, rest) ==
  /\ procs' = [procs EXCEPT ![p].stdin = rest, ![p].stdout = Append(@, line)]
  /\ UNCHANGED <<closed, sequence, queue, inFlight, timers, process, reader, writes,
                 outcome, answer, sent, unhandled>>

DaemonReply(p) ==
  /\ Serving(p)
  /\ procs[p].stdin # <<>>
  /\ LET job == Head(procs[p].stdin)
     IN  \E kind \in {"ok", "error"} :
           Written(p, [kind |-> kind, id |-> job.id, req |-> job.req], Tail(procs[p].stdin))
  /\ UNCHANGED faults

\* Something else prints on the daemon's stdout, or a reply has the wrong shape.
DaemonFault(p) ==
  /\ Serving(p)
  /\ faults < MaxFaults
  /\ faults' = faults + 1
  /\ \/ Written(p, [kind |-> "garbage", id |-> 0, req |-> None], procs[p].stdin)
     \/ /\ procs[p].stdin # <<>>
        /\ LET job == Head(procs[p].stdin)
           IN  Written(p, [kind |-> "malformed", id |-> job.id, req |-> job.req],
                       Tail(procs[p].stdin))

\* A daemon dies, by itself or of the signal #kill sent.
DaemonExit(p) ==
  /\ procs[p].state = "running"
  /\ procs' = [procs EXCEPT ![p].state = "exited", ![p].stdin = <<>>]
  /\ UNCHANGED <<closed, sequence, queue, inFlight, timers, process, reader, writes,
                 outcome, answer, sent, unhandled, faults>>

-----------------------------------------------------------------------------
Next == \/ \E r \in Requests : Request(r) \/ Timeout(r)
        \/ Close
        \/ \E w \in writes : WriteCallback(w)
        \/ LineEvent
        \/ \E p \in 1..Len(procs) : \/ ExitEvent(p)
                                    \/ ErrorEvent(p)
                                    \/ DaemonReply(p)
                                    \/ DaemonFault(p)
                                    \/ DaemonExit(p)

Spec == Init /\ [][Next]_vars

\* Timers fire and events are delivered; nothing is promised by the daemon.
Fairness == /\ WF_vars(\E r \in Requests : Timeout(r))
            /\ WF_vars(\E p \in 1..Len(procs) : ErrorEvent(p))

FairSpec == Spec /\ Fairness

-----------------------------------------------------------------------------
(* What must hold between two callbacks.                                   *)

Pending == {r \in Requests : outcome[r] = "pending"}

\* A promise is never resolved with the answer to another request, not even
\* when a line was rejected as garbage and the answer it delayed comes later.
NoCrossedAnswer == \A r \in Requests : answer[r] \in {None, r}

\* No accepted request is forgotten: it is in flight or in the queue, and the
\* queue never waits behind nothing (#pump ran after whatever freed the slot).
NoLostRequest ==
  /\ Pending = Queued(State) \cup ({inFlight.req} \ {None})
  /\ queue # <<>> => inFlight # NoJob

\* The armed timer is what keeps the event loop open: there is one exactly while
\* a request is outstanding, and it belongs to the request in flight.
LoopHeldOpen ==
  /\ timers = {inFlight.req} \ {None}
  /\ timers = {} <=> Pending = {}

\* One client is one identity: a daemon that was not told to stop is the
\* client's current process, and only its output is read.
OneIdentity ==
  /\ \A p \in 1..Len(procs) : procs[p].state = "running" /\ ~procs[p].killed => p = process
  /\ reader = process

\* A request is written to a daemon at most once, over all the processes the
\* client goes through: no retry behind the caller's back.
SentAtMostOnce == \A r \in Requests : sent[r] <= 1

\* close() leaves nothing behind, and nothing starts a daemon afterwards.
CloseIsFinal == closed => Pending = {} /\ timers = {} /\ process = 0

\* A Node process is never taken down by a daemon that cannot be started: the
\* 'error' event always finds a listener.
NoUnhandledError == ~unhandled

\* The client does what a request service promises.
Service == INSTANCE RequestService
Implements == Service!Spec

\* Every accepted request is settled, by its answer, an error or its deadline.
EventuallySettled == Service!Settled
===============================================================================
