---------------------------- MODULE ReliableCall ----------------------------
(***************************************************************************)
(* What one call of postJSON (internal/bench/rpc.go) promises its callers: *)
(* a single verdict, and a request that the server executes a bounded      *)
(* number of times.  The verdict "answered" means the server did execute   *)
(* the request at least once; the verdict "failed" says nothing about the  *)
(* server, which may have executed the request already or may still do so. *)
(* Broadcast is built on this promise; PostJSON is shown to keep it.       *)
(***************************************************************************)
EXTENDS Naturals

CONSTANT MaxCopies   \* copies of the request a call may put on the wire, in Nat

VARIABLES
  executed,   \* how often the server has executed the request
  verdict     \* what the caller was told

vars == <<executed, verdict>>

Verdicts == {"none", "answered", "refused", "failed"}

Init ==
  /\ executed = 0
  /\ verdict = "none"

\* A copy reaches the server, before or after the caller has its verdict.
Execute ==
  /\ executed < MaxCopies
  /\ executed' = executed + 1
  /\ UNCHANGED verdict

\* The caller reads the server's own answer to a copy it executed.
Answer ==
  /\ verdict = "none"
  /\ executed > 0
  /\ verdict' = "answered"
  /\ UNCHANGED executed

\* Whatever stands before the server answers in its place, or nobody does.
Fail ==
  /\ verdict = "none"
  /\ verdict' \in {"refused", "failed"}
  /\ UNCHANGED executed

Next == Execute \/ Answer \/ Fail

Spec == Init /\ [][Next]_vars
=============================================================================
