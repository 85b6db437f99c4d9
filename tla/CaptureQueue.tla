----------------------------- MODULE CaptureQueue -----------------------------
(***************************************************************************)
(* What the echo server promises whoever waits for a capture: a completed  *)
(* capture is handed to one caller, the oldest first; nobody waits while   *)
(* there is one; and a closed server keeps nobody waiting.  EchoServer     *)
(* implements this module.                                                 *)
(***************************************************************************)
EXTENDS Sequences

CONSTANTS Sessions,   \* the connections a capture can be of
          Callers,    \* the calls of Await
          None        \* not a session

VARIABLES closed,     \* the server is closed
          queue,      \* captures completed and not handed out
          caller,     \* where each call stands
          result      \* the capture each call returned

vars == <<closed, queue, caller, result>>

Init == /\ closed = FALSE
        /\ queue = <<>>
        /\ caller = [w \in Callers |-> "waiting"]
        /\ result = [w \in Callers |-> None]

Complete == /\ \E s \in Sessions : queue' = Append(queue, s)
            /\ UNCHANGED <<closed, caller, result>>

Take(w) == /\ caller[w] = "waiting"
           /\ queue # <<>>
           /\ queue' = Tail(queue)
           /\ result' = [result EXCEPT ![w] = Head(queue)]
           /\ caller' = [caller EXCEPT ![w] = "returned"]
           /\ UNCHANGED closed

\* The deadline of the call, or the end of the server.
GiveUp(w) == /\ caller[w] = "waiting"
             /\ caller' = [caller EXCEPT ![w] = "returned"]
             /\ UNCHANGED <<closed, queue, result>>

Close == /\ closed' = TRUE
         /\ UNCHANGED <<queue, caller, result>>

Next == \/ Complete
        \/ Close
        \/ \E w \in Callers : Take(w) \/ GiveUp(w)

\* A capture does not lie there while somebody waits; the end of the server
\* releases everybody.
Spec == /\ Init /\ [][Next]_vars
        /\ WF_vars(\E w \in Callers : Take(w))
        /\ \A w \in Callers : WF_vars(closed /\ (Take(w) \/ GiveUp(w)))
===============================================================================
