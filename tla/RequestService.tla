---------------------------- MODULE RequestService ----------------------------
(***************************************************************************)
(* What a client of the daemon promises its caller, whatever language it   *)
(* is written in: a request is settled exactly once, either with the       *)
(* answer to that very request or with an error; once the client has been  *)
(* closed nothing is answered any more; and no accepted request is left    *)
(* unsettled.  NodeClient and PythonClient implement this module.          *)
(***************************************************************************)
CONSTANTS Requests,   \* the calls a program makes, each of them made once
          None        \* not a request

VARIABLES closed,     \* close() has been called
          outcome,    \* how each request stands
          answer      \* whose answer a request was settled with

vars == <<closed, outcome, answer>>

Outcomes == {"new", "pending", "answered", "failed"}

Pending == {r \in Requests : outcome[r] = "pending"}

Init == /\ closed = FALSE
        /\ outcome = [r \in Requests |-> "new"]
        /\ answer = [r \in Requests |-> None]

Submit(r) == /\ outcome[r] = "new"
             /\ outcome' = [outcome EXCEPT ![r] = "pending"]
             /\ UNCHANGED <<closed, answer>>

\* A call that fails at once: no url, a body that cannot be encoded, a closed
\* client, a transport that cannot be started.
Refuse(r) == /\ outcome[r] = "new"
             /\ outcome' = [outcome EXCEPT ![r] = "failed"]
             /\ UNCHANGED <<closed, answer>>

Answer(r) == /\ ~closed
             /\ outcome[r] = "pending"
             /\ outcome' = [outcome EXCEPT ![r] = "answered"]
             /\ answer' = [answer EXCEPT ![r] = r]
             /\ UNCHANGED closed

\* One event can fail several requests: a transport that does not start fails
\* everything behind it.
Failing(S) == outcome' = [r \in Requests |-> IF r \in S THEN "failed" ELSE outcome[r]]

Fail == /\ \E S \in SUBSET Pending : S # {} /\ Failing(S)
        /\ UNCHANGED <<closed, answer>>

Close == /\ closed' = TRUE
         /\ \E S \in SUBSET Pending : Failing(S)
         /\ UNCHANGED answer

Settle(r) == Answer(r) \/ (Fail /\ outcome[r] = "pending" /\ outcome'[r] = "failed")

Next == \/ \E r \in Requests : Submit(r) \/ Refuse(r) \/ Answer(r)
        \/ Fail
        \/ Close

Spec == Init /\ [][Next]_vars

\* What the implementations also promise: nobody waits for ever.
Settled == \A r \in Requests : [](outcome[r] = "pending" => <>(outcome[r] # "pending"))
===============================================================================
