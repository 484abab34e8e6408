--------------------------- MODULE PostJSONProofs ---------------------------
(***************************************************************************)
(* Proofs about PostJSON for every value of the two retry budgets: the     *)
(* loop's counters, the number of requests a call can put on the wire, and *)
(* the promise of ReliableCall.  That a call returns is liveness and is    *)
(* checked by TLC only.                                                    *)
(***************************************************************************)
EXTENDS PostJSON, TLAPS

\* The inductive invariant.  A copy on the wire belongs to the current
\* iteration (`await`) or to one that failed, so the copies the server can
\* still see are counted by attempt.
Copies == executed + strays + (IF copy = "flying" THEN 1 ELSE 0)

IInv ==
  /\ TypeOK
  /\ CountersAgree
  /\ pc # "done" => failures <= FailedRetries /\ result = "none"
  /\ pc = "done" => result # "none"
  /\ attempt <= RateLimitRetries + FailedRetries
  /\ pc \in {"send", "backoff"} => copy = "none"
  /\ pc = "done" => copy = "none"
  /\ copy = "executed" => executed > 0
  /\ result = "answered" => executed > 0
  /\ Copies <= attempt + (IF pc = "send" THEN 0 ELSE 1)
  /\ GivesUpLast

\* A call starts in the invariant.
LEMMA InitIInv == Init => IInv
<1> SUFFICES ASSUME Init PROVE IInv
  OBVIOUS
<1>0. canceled \in BOOLEAN
  BY Zenon DEF Init
<1>1. TypeOK /\ CountersAgree /\ GivesUpLast
  BY <1>0, RetriesAssumption DEF Init, TypeOK, CountersAgree, GivesUpLast, Results
<1>2. Copies = 0
  BY DEF Init, Copies
<1> QED
  BY <1>1, <1>2, RetriesAssumption DEF Init, IInv

\* Every step of the loop, the network and the server keeps it.
LEMMA NextIInv == IInv /\ [Next]_vars => IInv'
<1> SUFFICES ASSUME IInv, [Next]_vars PROVE IInv'
  OBVIOUS
<1> USE RetriesAssumption DEF IInv, TypeOK, CountersAgree, Copies, GivesUpLast, Results
<1>1. CASE Send
  BY <1>1 DEF Send
<1>2. CASE Unanswered
  BY <1>2 DEF Unanswered, LeaveCopy, Return
<1>3. CASE RateLimited
  BY <1>3 DEF RateLimited
<1>4. CASE Refused
  BY <1>4 DEF Refused, Return
<1>5. CASE Answered
  BY <1>5 DEF Answered, Return
<1>6. CASE WaitOver
  BY <1>6 DEF WaitOver
<1>7. CASE WaitCanceled
  BY <1>7 DEF WaitCanceled, Return
<1>8. CASE Cancel
  BY <1>8 DEF Cancel, client
<1>9. CASE Execute
  BY <1>9 DEF Execute, client
<1>10. CASE StrayArrives
  BY <1>10 DEF StrayArrives, client
<1>11. CASE StrayLost
  BY <1>11 DEF StrayLost, client
<1>12. CASE UNCHANGED vars
  BY <1>12 DEF vars
<1> QED
  BY <1>1, <1>2, <1>3, <1>4, <1>5, <1>6, <1>7, <1>8, <1>9, <1>10, <1>11, <1>12
  DEF Next, ClientStep

\* The inductive invariant behind the theorems.
LEMMA Inductive == Spec => []IInv
  BY InitIInv, NextIInv, PTL DEF Spec

\* postJSON's variables keep their types.
THEOREM TypeCorrect == Spec => []TypeOK
<1>1. IInv => TypeOK
  BY DEF IInv
<1> QED
  BY <1>1, Inductive, PTL

\* The shared attempt counter is the 429s plus the failures.
THEOREM CountersCorrect == Spec => []CountersAgree
<1>1. IInv => CountersAgree
  BY DEF IInv
<1> QED
  BY <1>1, Inductive, PTL

\* However 429s and failures alternate, a call posts at most
\* rateLimitRetries + failedRetries + 1 requests and the server executes no more.
THEOREM RequestsAreBounded == Spec => []RequestsBounded
<1>1. IInv => RequestsBounded
  BY RetriesAssumption DEF IInv, RequestsBounded, TypeOK, Copies
<1> QED
  BY <1>1, Inductive, PTL

\* "No answer" is reported only once the retry budget is spent on failures.
THEOREM GivesUpLastCorrect == Spec => []GivesUpLast
<1>1. IInv => GivesUpLast
  BY DEF IInv
<1> QED
  BY <1>1, Inductive, PTL

\* postJSON implements ReliableCall.
THEOREM Refinement == Spec => KeepsPromise
<1> USE RetriesAssumption DEF Promise!vars
<1>1. Init => Promise!Init
  BY DEF Init, Promise!Init
<1>2. IInv /\ IInv' /\ [Next]_vars => [Promise!Next]_(Promise!vars)
  <2> SUFFICES ASSUME IInv, IInv', [Next]_vars PROVE [Promise!Next]_(Promise!vars)
    OBVIOUS
  <2> USE DEF IInv, TypeOK, Results, Copies, Promise!Next, Promise!Execute, Promise!Answer, Promise!Fail
  <2>1. CASE Send
    BY <2>1 DEF Send
  <2>2. CASE Unanswered
    BY <2>2 DEF Unanswered, Return
  <2>3. CASE RateLimited
    BY <2>3 DEF RateLimited
  <2>4. CASE Refused
    BY <2>4 DEF Refused, Return
  <2>5. CASE Answered
    BY <2>5 DEF Answered, Return
  <2>6. CASE WaitOver
    BY <2>6 DEF WaitOver
  <2>7. CASE WaitCanceled
    BY <2>7 DEF WaitCanceled, Return
  <2>8. CASE Cancel
    BY <2>8 DEF Cancel, client
  <2>9. CASE Execute
    BY <2>9 DEF Execute, client
  <2>10. CASE StrayArrives
    BY <2>10 DEF StrayArrives, client
  <2>11. CASE StrayLost
    BY <2>11 DEF StrayLost, client
  <2>12. CASE UNCHANGED vars
    BY <2>12 DEF vars
  <2> QED
    BY <2>1, <2>2, <2>3, <2>4, <2>5, <2>6, <2>7, <2>8, <2>9, <2>10, <2>11, <2>12
    DEF Next, ClientStep
<1> QED
  BY <1>1, <1>2, Inductive, PTL DEF Spec, KeepsPromise, Promise!Spec
=============================================================================
