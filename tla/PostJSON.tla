------------------------------ MODULE PostJSON ------------------------------
(***************************************************************************)
(* postJSON of internal/bench/rpc.go: one JSON-RPC request, posted again   *)
(* while the server says HTTP 429 and a few times when nobody answers.     *)
(*                                                                         *)
(* The loop has two budgets and one shared counter.  `attempt` counts      *)
(* every iteration, `failures` the unanswered ones; a 429 is waited out    *)
(* while attempt < rateLimitRetries, an unanswered request is repeated     *)
(* while failures <= failedRetries.  A request that timed out may still be *)
(* on its way: such copies are `strays` and reach the server later, or     *)
(* never.                                                                  *)
(***************************************************************************)
EXTENDS Naturals

CONSTANTS
  RateLimitRetries,   \* rateLimitRetries, 60 in the code
  FailedRetries       \* failedRetries, 3 in the code

ASSUME RetriesAssumption ==
  /\ RateLimitRetries \in Nat
  /\ FailedRetries \in Nat

VARIABLES
  pc,         \* where the loop is
  attempt,    \* the loop counter
  failures,   \* iterations nobody answered
  limited,    \* iterations answered 429 and waited out (history)
  copy,       \* what became of this iteration's request
  strays,     \* earlier requests still on their way (environment)
  executed,   \* requests the server has executed (environment)
  canceled,   \* ctx is done
  result      \* what the call returned

client == <<pc, attempt, failures, limited, result>>
vars == <<pc, attempt, failures, limited, copy, strays, executed, canceled, result>>

Results == {"none", "answered", "refused", "undecodable", "unanswered", "canceled"}

\* The variables have their types, and each budget of the loop its limit.
TypeOK ==
  /\ pc \in {"send", "await", "backoff", "done"}
  /\ attempt \in Nat
  /\ failures \in 0..(FailedRetries + 1)
  /\ limited \in 0..RateLimitRetries
  /\ copy \in {"none", "flying", "executed"}
  /\ strays \in Nat
  /\ executed \in Nat
  /\ canceled \in BOOLEAN
  /\ result \in Results

Init ==
  /\ pc = "send"
  /\ attempt = 0
  /\ failures = 0
  /\ limited = 0
  /\ copy = "none"
  /\ strays = 0
  /\ executed = 0
  /\ canceled = FALSE
  /\ result = "none"

-----------------------------------------------------------------------------
(* The client.                                                             *)

Return(r) ==
  /\ pc' = "done"
  /\ result' = r

\* client.Do puts a request on the wire, unless the context has ended.
Send ==
  /\ pc = "send"
  /\ ~canceled
  /\ pc' = "await"
  /\ copy' = "flying"
  /\ UNCHANGED <<attempt, failures, limited, strays, executed, canceled, result>>

\* The copy this iteration leaves behind when it stops waiting for it.
LeaveCopy ==
  /\ copy' = "none"
  /\ strays' = IF copy = "flying" THEN strays + 1 ELSE strays

\* Fault: failures are measured by the shared counter, which 429s also spend.
UnansweredSharesBudget ==
  /\ pc = "await" \/ (pc = "send" /\ canceled)
  /\ failures' = failures + 1
  /\ IF attempt + 1 <= FailedRetries
       THEN pc' = "backoff" /\ UNCHANGED result
       ELSE Return("unanswered")
  /\ LeaveCopy
  /\ UNCHANGED <<attempt, limited, executed, canceled>>

\* Fault: a client without a timeout waits for an answer for ever.
UnansweredNoTimeout ==
  /\ pc = "send" /\ canceled
  /\ failures' = failures + 1
  /\ IF failures' <= FailedRetries
       THEN pc' = "backoff" /\ UNCHANGED result
       ELSE Return("unanswered")
  /\ LeaveCopy
  /\ UNCHANGED <<attempt, limited, executed, canceled>>

\* client.Do fails (a timeout, a reset, the context) or a proxy says 5xx: the
\* iteration is a failure, repeated within its budget.
Unanswered ==
  /\ pc = "await" \/ (pc = "send" /\ canceled)
  /\ failures' = failures + 1
  /\ IF failures' <= FailedRetries
       THEN pc' = "backoff" /\ UNCHANGED result
       ELSE Return("unanswered")
  /\ LeaveCopy
  /\ UNCHANGED <<attempt, limited, executed, canceled>>

\* Fault: off by one in the budget of 429s.
RateLimitedOnceMore ==
  /\ pc = "await"
  /\ copy = "flying"
  /\ attempt <= RateLimitRetries
  /\ pc' = "backoff"
  /\ limited' = limited + 1
  /\ copy' = "none"
  /\ UNCHANGED <<attempt, failures, strays, executed, canceled, result>>

\* HTTP 429 within the budget: the request was not executed, wait and repeat.
RateLimited ==
  /\ pc = "await"
  /\ copy = "flying"
  /\ attempt < RateLimitRetries
  /\ pc' = "backoff"
  /\ limited' = limited + 1
  /\ copy' = "none"
  /\ UNCHANGED <<attempt, failures, strays, executed, canceled, result>>

\* Fault: a proxy's refusal is taken for the server's answer.
RefusedLooksAnswered ==
  /\ pc = "await"
  /\ copy = "flying"
  /\ Return("answered")
  /\ copy' = "none"
  /\ UNCHANGED <<attempt, failures, limited, strays, executed, canceled>>

\* A final answer that is not the server's: a 429 past the budget or another
\* 4xx.  With a body that decodes it looks like an answer to the caller.
Refused ==
  /\ pc = "await"
  /\ copy = "flying"
  /\ \E r \in {"refused", "undecodable"} : Return(r)
  /\ copy' = "none"
  /\ UNCHANGED <<attempt, failures, limited, strays, executed, canceled>>

\* The server's answer arrives, whole or cut short.
Answered ==
  /\ pc = "await"
  /\ copy = "executed"
  /\ \E r \in {"answered", "undecodable"} : Return(r)
  /\ copy' = "none"
  /\ UNCHANGED <<attempt, failures, limited, strays, executed, canceled>>

\* wait returns after its delay; the loop's post statement counts the attempt.
WaitOver ==
  /\ pc = "backoff"
  /\ pc' = "send"
  /\ attempt' = attempt + 1
  /\ UNCHANGED <<failures, limited, copy, strays, executed, canceled, result>>

\* wait returns because the context ended.
WaitCanceled ==
  /\ pc = "backoff"
  /\ canceled
  /\ Return("canceled")
  /\ UNCHANGED <<attempt, failures, limited, copy, strays, executed, canceled>>

-----------------------------------------------------------------------------
(* The environment: the caller's context, the network and the server.      *)

Cancel ==
  /\ ~canceled
  /\ pc # "done"
  /\ canceled' = TRUE
  /\ UNCHANGED <<client, copy, strays, executed>>

Execute ==
  /\ copy = "flying"
  /\ copy' = "executed"
  /\ executed' = executed + 1
  /\ UNCHANGED <<client, strays, canceled>>

StrayArrives ==
  /\ strays > 0
  /\ strays' = strays - 1
  /\ executed' = executed + 1
  /\ UNCHANGED <<client, copy, canceled>>

StrayLost ==
  /\ strays > 0
  /\ strays' = strays - 1
  /\ UNCHANGED <<client, copy, executed, canceled>>

ClientStep ==
  Send \/ Unanswered \/ RateLimited \/ Refused \/ Answered \/ WaitOver \/ WaitCanceled

Next == ClientStep \/ Cancel \/ Execute \/ StrayArrives \/ StrayLost

\* The http.Client's timeout ends an await that nothing else ends and the timer
\* ends every wait; nothing is assumed of the network and the server.
Spec == Init /\ [][Next]_vars /\ WF_vars(Send \/ Unanswered \/ WaitOver)

-----------------------------------------------------------------------------
(* Properties.                                                             *)

\* The two budgets share one counter: at the head of the loop attempt is the
\* iterations waited out as 429 plus the unanswered ones, so every failure also
\* spends one of the rateLimitRetries.
CountersAgree ==
  /\ pc \in {"send", "await"} => attempt = limited + failures
  /\ pc = "backoff" => attempt + 1 = limited + failures

\* A call posts at most rateLimitRetries + failedRetries + 1 requests however
\* 429s and failures alternate, and the server sees the request no more often.
RequestsBounded ==
  /\ attempt <= RateLimitRetries + FailedRetries
  /\ executed + strays + (IF copy = "flying" THEN 1 ELSE 0)
       <= RateLimitRetries + FailedRetries + 1

\* A call that reports no answer spent its whole retry budget on failures: 429s
\* in between do not eat it.  The code's reason for retrying is that giving up
\* early leaves a gap in an account's nonces.
GivesUpLast == result = "unanswered" => failures = FailedRetries + 1

\* What postJSON promises its callers.
Promise == INSTANCE ReliableCall WITH
  MaxCopies <- RateLimitRetries + FailedRetries + 1,
  executed <- executed,
  verdict <- CASE result = "none" -> "none"
               [] result = "answered" -> "answered"
               [] result = "refused" -> "refused"
               [] OTHER -> "failed"

\* PostJSON keeps the promise of ReliableCall: one verdict, "answered" only for
\* a request the server executed, and a bounded number of executions.
KeepsPromise == Promise!Spec

\* Every call returns, even if the network and the server do nothing.
Returns == <>(pc = "done")
=============================================================================
