------------------------------ MODULE Broadcast ------------------------------
(***************************************************************************)
(* The load sender of internal/bench/rpc.go: BroadcastRawTxs and           *)
(* BroadcastStreams cut the load into requests, and broadcast runs one     *)
(* worker per queue.  A worker takes a request, waits for room in the      *)
(* node's pool (awaitPoolRoom), posts it and records what came back.       *)
(*                                                                         *)
(* A posted request behaves as ReliableCall promises (PostJSON is shown to *)
(* keep that promise): the node may execute it several times, the last     *)
(* answer is the one that counts, and a request given up on may still      *)
(* arrive.  The node and its pool are external and modelled as far as the  *)
(* sender can tell: admission, nonce order, mining, other users' traffic.  *)
(***************************************************************************)
EXTENDS Integers, Sequences, SequencesExt, FiniteSets, FiniteSetsExt

CONSTANTS
  StreamLens,     \* sequence: how many transactions each account sends
  InOrder,        \* TRUE: BroadcastStreams, FALSE: BroadcastRawTxs
  Options,        \* BroadcastOptions as given: Concurrency, BatchSize, Watermark
  DefaultWatermark, \* DefaultPendingWatermark, 5000 in the code
  NeverPause,     \* math.MaxInt64
  SparsePoll,     \* transactions between samples when the gate cannot bind (256)
  StallTimeout,   \* poolStallTimeout, in ticks of the model's clock
  MaxCopies,      \* executions of one request by the node
  MaxForeign,     \* bound on other users' pending transactions
  MayCancel,      \* whether the context may end
  Lossy,          \* whether requests may go unanswered
  MayRefuse       \* whether the node may refuse a new transaction

ASSUME BroadcastAssumption ==
  /\ StreamLens \in Seq(Nat)
  /\ Options \in [Concurrency : Int, BatchSize : Int, Watermark : Int]
  /\ DefaultWatermark \in Nat
  /\ NeverPause \in Nat
  /\ SparsePoll \in Nat
  /\ StallTimeout \in Nat \ {0}
  /\ MaxCopies \in Nat \ {0}
  /\ MaxForeign \in Nat
  /\ {InOrder, MayCancel, Lossy, MayRefuse} \subseteq BOOLEAN

-----------------------------------------------------------------------------
(* The load and how it is cut into requests.                               *)

\* A transaction is its account and its position among the account's nonces.
Streams == [s \in 1..Len(StreamLens) |-> [k \in 1..StreamLens[s] |-> <<s, k>>]]

Txs == UNION {Range(Streams[s]) : s \in 1..Len(Streams)}

AtLeast(n, low) == IF n < low THEN low ELSE n
AtMost(n, high) == IF n > high THEN high ELSE n

WithDefaults(o) ==
  [Concurrency |-> AtLeast(o.Concurrency, 1),
   BatchSize   |-> AtLeast(o.BatchSize, 1),
   Watermark   |-> CASE o.Watermark < 0 -> NeverPause
                     [] o.Watermark = 0 -> DefaultWatermark
                     [] OTHER -> o.Watermark]

Opts == WithDefaults(Options)

\* txs cut into requests of at most size transactions, the last one shorter.
Chunk(txs, size) ==
  [i \in 1..((Len(txs) + size - 1) \div size) |->
     SubSeq(txs, (i - 1) * size + 1, AtMost(i * size, Len(txs)))]

NumWorkers == IF InOrder THEN AtMost(Opts.Concurrency, Len(Streams)) ELSE Opts.Concurrency

Workers == 1..NumWorkers

\* Fault: transactions, not whole streams, are dealt to the workers.
MineDealsTxs(w) ==
  LET all == FlattenSeq(Streams) IN
  [k \in 1..((Len(all) - w) \div NumWorkers + 1) |-> all[w + (k - 1) * NumWorkers]]

\* BroadcastStreams: worker w owns streams w, w + workers, ..., one after the other.
Mine(w) ==
  FlattenSeq([k \in 1..((Len(Streams) - w) \div NumWorkers + 1) |->
                Streams[w + (k - 1) * NumWorkers]])

\* The queue worker w reads: its own, or the one all workers share.
QueueOf(w) == IF InOrder THEN w ELSE 1

Queue ==
  [q \in {QueueOf(w) : w \in Workers} |->
     Chunk(IF InOrder THEN Mine(q) ELSE FlattenSeq(Streams), Opts.BatchSize)]

Total == IF InOrder THEN Len(FlattenSeq([w \in Workers |-> Mine(w)]))
                    ELSE Len(FlattenSeq(Streams))

\* Fault: the sparse sampling is used when the gate can bind.
PollEverySwapped == IF Opts.Watermark >= Total THEN 1 ELSE SparsePoll

PollEvery == IF Opts.Watermark >= Total THEN SparsePoll ELSE 1

-----------------------------------------------------------------------------
VARIABLES
  (* the send *)
  next,       \* per queue: requests taken from the channel
  deepest,    \* maxPending, -1 until a sample succeeds
  stalled,    \* some worker declared the pool stuck
  failed,     \* transactions of requests that returned an error
  rejected,   \* transactions counted in RejectReasons
  returned,   \* wg.Wait() is over and BroadcastStats returned
  canceled,   \* ctx is done
  (* per worker *)
  pc,
  cur,        \* the request in hand, an index into the worker's queue
  sincePoll,
  sample,     \* pending as the pool last reported it
  prev,       \* deepest as the compare-and-swap loop last loaded it
  lowest,     \* lowest sample of this wait
  quiet,      \* ticks since lowest was set
  drained,    \* a block took from the pool in this tick (history)
  excused,    \* since lowest was set a tick saw no such block, or the pool grew (history)
  tries,      \* executions of the request in hand
  reply,      \* the node's last answer to it, transaction by transaction
  (* the node and the network, external *)
  node,       \* per transaction: absent, pooled or mined
  foreign,    \* other users' pending transactions
  strays,     \* requests given up on that may still arrive
  (* history *)
  seen,       \* transactions that reached the node
  peak,       \* highest sample so far, -1 before the first
  blind       \* some worker passed the gate without reading the pool

sendVars == <<next, deepest, stalled, failed, rejected, returned, canceled>>
gateVars == <<sample, prev, lowest, quiet, drained, excused>>
postVars == <<tries, reply>>
nodeVars == <<node, foreign, strays, seen>>
history == <<peak, blind>>
vars == <<sendVars, pc, cur, sincePoll, gateVars, postVars, nodeVars, history>>

NoReply == <<>>
Answers == {"ok", "already_known", "nonce_too_low", "refused"}
Unset == -1             \* a local of awaitPoolRoom outside a wait
Highest == NeverPause   \* lowest before the first sample of a wait

Locations == {"take", "gate", "load", "swap", "judge", "pause", "post", "exit"}

InHand(w) == Queue[QueueOf(w)][cur[w]]

Init ==
  /\ next = [q \in DOMAIN Queue |-> 0]
  /\ deepest = -1
  /\ stalled = FALSE
  /\ failed = {}
  /\ rejected = {}
  /\ returned = FALSE
  /\ canceled = FALSE
  /\ pc = [w \in Workers |-> "take"]
  /\ cur = [w \in Workers |-> 0]
  /\ sincePoll = [w \in Workers |-> 0]
  /\ sample = [w \in Workers |-> Unset]
  /\ prev = [w \in Workers |-> Unset]
  /\ lowest = [w \in Workers |-> Unset]
  /\ quiet = [w \in Workers |-> 0]
  /\ tries = [w \in Workers |-> 0]
  /\ reply = [w \in Workers |-> NoReply]
  /\ node = [t \in Txs |-> "absent"]
  /\ foreign = 0
  /\ strays = {}
  /\ seen = {}
  /\ peak = -1
  /\ drained = [w \in Workers |-> FALSE]
  /\ excused = [w \in Workers |-> FALSE]
  /\ blind = FALSE

Goto(w, l) == pc' = [pc EXCEPT ![w] = l]

-----------------------------------------------------------------------------
(* The pool, as txpool_status reports it.                                  *)

\* Executable: no earlier nonce of the account is missing.
Executable(t) ==
  node[t] = "pooled" /\ \A k \in 1..(t[2] - 1) : node[<<t[1], k>>] # "absent"

OwnPending == Cardinality({t \in Txs : Executable(t)})

\* Fault: queued transactions count against the watermark too.
PendingWithQueued == Cardinality({t \in Txs : node[t] = "pooled"}) + foreign

Pending == OwnPending + foreign

-----------------------------------------------------------------------------
(* A worker: taking a request.                                             *)

\* One receive from the channel.  The context is checked after the receive, so
\* a canceled worker drops the request it just took.
Take(w) ==
  LET q == QueueOf(w)
      n == sincePoll[w] + Len(Queue[q][next[q] + 1])
      poll == n >= PollEvery
  IN
  /\ pc[w] = "take"
  /\ next[q] < Len(Queue[q])
  /\ next' = [next EXCEPT ![q] = @ + 1]
  /\ IF canceled
       THEN Goto(w, "exit") /\ UNCHANGED <<cur, sincePoll, lowest>>
       ELSE /\ cur' = [cur EXCEPT ![w] = next[q] + 1]
            /\ sincePoll' = [sincePoll EXCEPT ![w] = IF poll THEN 0 ELSE n]
            /\ lowest' = [lowest EXCEPT ![w] = IF poll THEN Highest ELSE Unset]
            /\ Goto(w, IF poll THEN "gate" ELSE "post")
  /\ UNCHANGED <<deepest, stalled, failed, rejected, returned, canceled, sample, prev, quiet,
                 drained, excused, postVars, nodeVars, history>>

\* The channel is closed and empty.
QueueEmpty(w) ==
  /\ pc[w] = "take"
  /\ next[QueueOf(w)] = Len(Queue[QueueOf(w)])
  /\ Goto(w, "exit")
  /\ UNCHANGED <<sendVars, cur, sincePoll, gateVars, postVars, nodeVars, history>>

-----------------------------------------------------------------------------
(* A worker: awaitPoolRoom.                                                *)

LeaveGate(w) ==
  /\ sample' = [sample EXCEPT ![w] = Unset]
  /\ prev' = [prev EXCEPT ![w] = Unset]
  /\ lowest' = [lowest EXCEPT ![w] = Unset]
  /\ quiet' = [quiet EXCEPT ![w] = 0]
  /\ drained' = [drained EXCEPT ![w] = FALSE]
  /\ excused' = [excused EXCEPT ![w] = FALSE]

\* TxPoolStatus answers.
Sample(w) ==
  /\ pc[w] = "gate"
  /\ ~canceled
  /\ sample' = [sample EXCEPT ![w] = Pending]
  /\ peak' = AtLeast(Pending, peak)
  /\ Goto(w, "load")
  /\ UNCHANGED <<sendVars, cur, sincePoll, prev, lowest, quiet, drained, excused, postVars,
                 nodeVars, blind>>

\* TxPoolStatus fails: a pool that cannot be read does not throttle.
SampleFails(w) ==
  /\ pc[w] = "gate"
  /\ Lossy \/ canceled
  /\ LeaveGate(w)
  /\ blind' = TRUE
  /\ Goto(w, "post")
  /\ UNCHANGED <<sendVars, cur, sincePoll, postVars, nodeVars, peak>>

\* deepest.Load()
LoadDeepest(w) ==
  /\ pc[w] = "load"
  /\ prev' = [prev EXCEPT ![w] = deepest]
  /\ Goto(w, "swap")
  /\ UNCHANGED <<sendVars, cur, sincePoll, sample, lowest, quiet, drained, excused,
                 postVars, nodeVars, history>>

\* Fault: the maximum is stored without comparing.
SwapDeepestStores(w) ==
  /\ pc[w] = "swap"
  /\ deepest' = IF sample[w] > prev[w] THEN sample[w] ELSE deepest
  /\ Goto(w, "judge")
  /\ prev' = [prev EXCEPT ![w] = Unset]
  /\ UNCHANGED <<next, stalled, failed, rejected, returned, canceled, cur, sincePoll, sample,
                 lowest, quiet, drained, excused, postVars, nodeVars, history>>

\* deepest.CompareAndSwap(prev, pending), tried only when pending is deeper.
SwapDeepest(w) ==
  /\ pc[w] = "swap"
  /\ \/ /\ sample[w] <= prev[w]
        /\ Goto(w, "judge")
        /\ UNCHANGED deepest
     \/ /\ sample[w] > prev[w]
        /\ deepest = prev[w]
        /\ deepest' = sample[w]
        /\ Goto(w, "judge")
     \/ /\ sample[w] > prev[w]
        /\ deepest # prev[w]
        /\ Goto(w, "load")
        /\ UNCHANGED deepest
  /\ prev' = [prev EXCEPT ![w] = Unset]
  /\ UNCHANGED <<next, stalled, failed, rejected, returned, canceled, cur, sincePoll, sample,
                 lowest, quiet, drained, excused, postVars, nodeVars, history>>

\* Room in the pool, or a pool nobody waits on any more.
Room(w) == sample[w] <= Opts.Watermark \/ stalled

Pass(w) ==
  /\ pc[w] = "judge"
  /\ Room(w)
  /\ LeaveGate(w)
  /\ Goto(w, "post")
  /\ UNCHANGED <<sendVars, cur, sincePoll, postVars, nodeVars, history>>

\* Fault: an unchanged pool counts as progress.
NewLowOrEqual(w) ==
  /\ pc[w] = "judge"
  /\ ~Room(w)
  /\ sample[w] <= lowest[w]
  /\ lowest' = [lowest EXCEPT ![w] = sample[w]]
  /\ quiet' = [quiet EXCEPT ![w] = 0]
  /\ sample' = [sample EXCEPT ![w] = Unset]
  /\ excused' = [excused EXCEPT ![w] = Pending > sample[w]]
  /\ drained' = [drained EXCEPT ![w] = FALSE]
  /\ Goto(w, "pause")
  /\ UNCHANGED <<sendVars, cur, sincePoll, prev, postVars, nodeVars, history>>

\* No room, but the pool is lower than this wait has seen it: wait on.
NewLow(w) ==
  /\ pc[w] = "judge"
  /\ ~Room(w)
  /\ sample[w] < lowest[w]
  /\ lowest' = [lowest EXCEPT ![w] = sample[w]]
  /\ quiet' = [quiet EXCEPT ![w] = 0]
  /\ sample' = [sample EXCEPT ![w] = Unset]
  /\ excused' = [excused EXCEPT ![w] = Pending > sample[w]]
  /\ drained' = [drained EXCEPT ![w] = FALSE]
  /\ Goto(w, "pause")
  /\ UNCHANGED <<sendVars, cur, sincePoll, prev, postVars, nodeVars, history>>

\* Fault: the stall timer ends one tick early.
NoNewLowEarly(w) ==
  /\ pc[w] = "judge"
  /\ ~Room(w)
  /\ sample[w] >= lowest[w]
  /\ IF quiet[w] >= StallTimeout - 1
       THEN stalled' = TRUE /\ LeaveGate(w) /\ Goto(w, "post")
       ELSE /\ sample' = [sample EXCEPT ![w] = Unset]
            /\ Goto(w, "pause")
            /\ UNCHANGED <<stalled, prev, lowest, quiet, drained, excused>>
  /\ UNCHANGED <<next, deepest, failed, rejected, returned, canceled, cur, sincePoll,
                 postVars, nodeVars, history>>

\* No room and no new low: wait on until poolStallTimeout, then give up waiting
\* for every worker.
NoNewLow(w) ==
  /\ pc[w] = "judge"
  /\ ~Room(w)
  /\ sample[w] >= lowest[w]
  /\ IF quiet[w] >= StallTimeout
       THEN stalled' = TRUE /\ LeaveGate(w) /\ Goto(w, "post")
       ELSE /\ sample' = [sample EXCEPT ![w] = Unset]
            /\ Goto(w, "pause")
            /\ UNCHANGED <<stalled, prev, lowest, quiet, drained, excused>>
  /\ UNCHANGED <<next, deepest, failed, rejected, returned, canceled, cur, sincePoll,
                 postVars, nodeVars, history>>

\* The backoff elapses.  time.Since(since) is kept in ticks much longer than a
\* backoff: most polls come within a tick, and every so often one does pass.
Resume(w) ==
  /\ pc[w] = "pause"
  /\ Goto(w, "gate")
  /\ UNCHANGED <<sendVars, cur, sincePoll, gateVars, postVars, nodeVars, history>>

ResumeLater(w) ==
  /\ pc[w] = "pause"
  /\ Goto(w, "gate")
  /\ quiet' = [quiet EXCEPT ![w] = @ + 1]
  /\ excused' = [excused EXCEPT ![w] = @ \/ ~drained[w]]
  /\ drained' = [drained EXCEPT ![w] = FALSE]
  /\ UNCHANGED <<sendVars, cur, sincePoll, sample, prev, lowest, postVars, nodeVars,
                 history>>

\* The context ends during the backoff, and the worker with it.
PauseCanceled(w) ==
  /\ pc[w] = "pause"
  /\ canceled
  /\ LeaveGate(w)
  /\ Goto(w, "exit")
  /\ UNCHANGED <<sendVars, cur, sincePoll, postVars, nodeVars, history>>

-----------------------------------------------------------------------------
(* A worker: posting the request and recording the outcome.                *)

\* What the node answers for t when a request carrying it is executed and the
\* transactions in admitted are the new ones it takes.
Outcome(t, admitted) ==
  CASE node[t] = "pooled" -> "already_known"
    [] node[t] = "mined" -> "nonce_too_low"
    [] t \in admitted -> "ok"
    [] OTHER -> "refused"

\* The pool grows under the workers that wait on it (history).
Grows == excused' = [w \in Workers |-> excused[w] \/ lowest[w] \notin {Unset, Highest}]

\* The node executes a request: new transactions are admitted or refused.
Executes(chunk, admitted) ==
  /\ admitted \subseteq {t \in Range(chunk) : node[t] = "absent"}
  /\ MayRefuse \/ admitted = {t \in Range(chunk) : node[t] = "absent"}
  /\ node' = [t \in Txs |-> IF t \in admitted THEN "pooled" ELSE node[t]]
  /\ seen' = seen \cup Range(chunk)
  /\ admitted # {} => Grows
  /\ admitted = {} => UNCHANGED excused

\* A copy of the request in hand is executed.  Earlier answers are lost.
Deliver(w) ==
  /\ pc[w] = "post"
  /\ tries[w] < (IF Lossy THEN MaxCopies ELSE 1)
  /\ \E admitted \in SUBSET Range(InHand(w)) :
       /\ Executes(InHand(w), admitted)
       /\ reply' = [reply EXCEPT ![w] =
                      [i \in 1..Len(InHand(w)) |-> Outcome(InHand(w)[i], admitted)]]
  /\ tries' = [tries EXCEPT ![w] = @ + 1]
  /\ UNCHANGED <<sendVars, pc, cur, sincePoll, sample, prev, lowest, quiet, drained, foreign,
                 strays, history>>

NextRequest(w) ==
  /\ Goto(w, "take")
  /\ cur' = [cur EXCEPT ![w] = 0]
  /\ tries' = [tries EXCEPT ![w] = 0]
  /\ reply' = [reply EXCEPT ![w] = NoReply]

\* Fault: a retry that finds its transaction in the pool counts as a rejection.
RejectionAnyError(answer) == answer # "ok"

\* Fault: only nonce errors are rejections.
RejectionNonceOnly(answer) == answer = "nonce_too_low"

\* The answers sendRawTxBatch reports as rejections.
Rejection(answer) == answer \notin {"ok", "already_known"}

\* The last answer comes back.  A request of one transaction goes through
\* JSONRPCCall, which turns any error object into an error of the request; a
\* larger one through sendRawTxBatch, which reports rejections.
Record(w) ==
  LET chunk == InHand(w) IN
  /\ pc[w] = "post"
  /\ reply[w] # NoReply
  /\ IF Len(chunk) = 1
       THEN /\ failed' = IF reply[w][1] # "ok" THEN failed \cup Range(chunk) ELSE failed
            /\ UNCHANGED rejected
       ELSE /\ rejected' = rejected \cup
                  {chunk[i] : i \in {j \in 1..Len(chunk) : Rejection(reply[w][j])}}
            /\ UNCHANGED failed
  /\ NextRequest(w)
  /\ UNCHANGED <<next, deepest, stalled, returned, canceled, sincePoll, gateVars, nodeVars,
                 history>>

\* postJSON returns an error: retries spent, the context over, or an answer
\* that does not decode.  The request may still be on its way.
RecordError(w) ==
  /\ pc[w] = "post"
  /\ Lossy \/ canceled
  /\ failed' = failed \cup Range(InHand(w))
  /\ \E late \in BOOLEAN :
       strays' = IF late THEN strays \cup {InHand(w)} ELSE strays
  /\ NextRequest(w)
  /\ UNCHANGED <<next, deepest, stalled, rejected, returned, canceled, sincePoll, gateVars,
                 node, foreign, seen, history>>

\* The BroadcastStats of a send; read once it has returned.
Stats ==
  [Sent        |-> Total,
   MaxPending  |-> AtLeast(deepest, 0),
   PoolUnknown |-> deepest < 0,
   PoolStalled |-> stalled,
   Rejected    |-> Cardinality(rejected),
   Failed      |-> Cardinality(failed)]

\* wg.Wait(): every worker is done.
Return ==
  /\ ~returned
  /\ \A w \in Workers : pc[w] = "exit"
  /\ returned' = TRUE
  /\ UNCHANGED <<next, deepest, stalled, failed, rejected, canceled, pc, cur, sincePoll,
                 gateVars, postVars, nodeVars, history>>

-----------------------------------------------------------------------------
(* The environment.                                                        *)

Cancel ==
  /\ MayCancel
  /\ ~returned
  /\ ~canceled
  /\ canceled' = TRUE
  /\ UNCHANGED <<next, deepest, stalled, failed, rejected, returned, pc, cur, sincePoll,
                 gateVars, postVars, nodeVars, history>>

\* A block takes an account's lowest pooled transaction.
MineOwn(t) ==
  /\ node[t] = "pooled"
  /\ \A k \in 1..(t[2] - 1) : node[<<t[1], k>>] = "mined"
  /\ node' = [node EXCEPT ![t] = "mined"]
  /\ drained' = [w \in Workers |-> lowest[w] \notin {Unset, Highest}]
  /\ UNCHANGED <<sendVars, pc, cur, sincePoll, sample, prev, lowest, quiet, excused, postVars,
                 foreign, strays, seen, history>>

MineForeign ==
  /\ foreign > 0
  /\ foreign' = foreign - 1
  /\ drained' = [w \in Workers |-> lowest[w] \notin {Unset, Highest}]
  /\ UNCHANGED <<sendVars, pc, cur, sincePoll, sample, prev, lowest, quiet, excused, postVars,
                 node, strays, seen, history>>

ForeignArrives ==
  /\ foreign < MaxForeign
  /\ ~returned
  /\ foreign' = foreign + 1
  /\ Grows
  /\ UNCHANGED <<sendVars, pc, cur, sincePoll, sample, prev, lowest, quiet, drained, postVars,
                 node, strays, seen, history>>

\* A request given up on arrives after all, its answer goes nowhere.
StrayArrives ==
  /\ \E chunk \in strays :
       /\ strays' = strays \ {chunk}
       /\ \E admitted \in SUBSET Range(chunk) : Executes(chunk, admitted)
  /\ UNCHANGED <<sendVars, pc, cur, sincePoll, sample, prev, lowest, quiet, drained, postVars,
                 foreign, history>>

-----------------------------------------------------------------------------
Gate(w) ==
  \/ Sample(w) \/ SampleFails(w) \/ LoadDeepest(w) \/ SwapDeepest(w)
  \/ Pass(w) \/ NewLow(w) \/ NoNewLow(w) \/ Resume(w) \/ ResumeLater(w)
  \/ PauseCanceled(w)

Worker(w) ==
  Take(w) \/ QueueEmpty(w) \/ Gate(w) \/ Deliver(w) \/ Record(w) \/ RecordError(w)

Block == MineForeign \/ \E t \in Txs : MineOwn(t)

Environment == Cancel \/ Block \/ ForeignArrives \/ StrayArrives

\* After the return nothing of the sender is left to do.
Next == Return \/ Environment \/ \E w \in Workers : Worker(w)

WorkerFairness == WF_vars(Return) /\ \A w \in Workers : WF_vars(Worker(w))

Spec == Init /\ [][Next]_vars

\* A chain that may stop for good, while the clock does not: time passes however
\* often a worker polls.
ClockSpec == Spec /\ WorkerFairness /\ \A w \in Workers : SF_vars(ResumeLater(w))

\* A chain that keeps producing blocks, and no help from the clock.
ChainSpec == Spec /\ WorkerFairness /\ WF_vars(MineForeign) /\ \A t \in Txs : WF_vars(MineOwn(t))

-----------------------------------------------------------------------------
(* Properties.                                                             *)

\* The variables have their types: no worker reads past its queue, waits longer
\* than poolStallTimeout, or has a request executed more often than postJSON
\* allows.
TypeOK ==
  /\ next \in [DOMAIN Queue -> Nat]
  /\ \A q \in DOMAIN Queue : next[q] <= Len(Queue[q])
  /\ deepest \in Nat \cup {-1}
  /\ stalled \in BOOLEAN
  /\ failed \subseteq Txs
  /\ rejected \subseteq Txs
  /\ returned \in BOOLEAN
  /\ canceled \in BOOLEAN
  /\ pc \in [Workers -> Locations]
  /\ cur \in [Workers -> Nat]
  /\ \A w \in Workers : cur[w] <= Len(Queue[QueueOf(w)])
  /\ sincePoll \in [Workers -> Nat]
  /\ sample \in [Workers -> Nat \cup {-1}]
  /\ prev \in [Workers -> Nat \cup {-1}]
  /\ lowest \in [Workers -> Nat \cup {-1}]
  /\ quiet \in [Workers -> 0..StallTimeout]
  /\ tries \in [Workers -> 0..MaxCopies]
  /\ reply \in [Workers -> Seq(Answers)]
  /\ node \in [Txs -> {"absent", "pooled", "mined"}]
  /\ foreign \in 0..MaxForeign
  /\ strays \subseteq Seq(Txs)
  /\ seen \subseteq Txs
  /\ peak \in Nat \cup {-1}
  /\ drained \in [Workers -> BOOLEAN]
  /\ excused \in [Workers -> BOOLEAN]
  /\ blind \in BOOLEAN

\* The lock-free maximum of awaitPoolRoom loses no sample: a sample deeper than
\* maxPending is still held by a worker about to swap it in, so once all workers
\* are done MaxPending is the deepest pool any of them saw, and PoolUnknown is
\* reported exactly when none saw any.
PeakRecorded ==
  /\ deepest <= peak
  /\ deepest < peak => \E w \in Workers : pc[w] \in {"load", "swap"} /\ sample[w] = peak
  /\ returned => /\ Stats.MaxPending = AtLeast(peak, 0)
                        /\ Stats.PoolUnknown <=> peak = -1

\* BroadcastStreams: no transaction reaches the node before an earlier one of
\* its stream, unless the earlier one's request failed for good.
NothingOvertakes ==
  InOrder => \A t \in seen : \A k \in 1..(t[2] - 1) : <<t[1], k>> \in seen \cup failed

\* A send that was not canceled posts the whole load, and whatever of it the
\* node did not admit is counted, as failed or as rejected.
NothingSilentlyLost ==
  returned /\ ~canceled =>
    /\ Txs = seen \cup failed
    /\ {t \in Txs : node[t] = "absent"} \subseteq failed \cup rejected

\* The gate is only checked before a request, so the pool can exceed the
\* watermark, but by no more than one request per worker while every request
\* is answered, every sample read and the pool not declared stuck.  (With the
\* accounts sent in order: a late nonce can release queued ones by the dozen.)
OvershootBounded ==
  InOrder /\ failed = {} /\ rejected = {} /\ ~stalled /\ ~blind =>
    OwnPending <= Opts.Watermark + NumWorkers * Opts.BatchSize

\* The send returns although the chain may stop: a pool that never drains holds
\* the workers for poolStallTimeout at most.
Terminates == <>(returned)

\* A transaction counted as rejected is not waiting in the pool, although a
\* request whose answer was lost is posted again and then refused for what is
\* already there: an "already known" on retry is "in, not refused".  (It may be in
\* a block: the retry is then answered "nonce too low", which is counted.)
RejectedNotPooled == \A t \in rejected : node[t] # "pooled"

\* PoolStalled means the pool stopped draining above the watermark: a worker sets
\* it only if some interval of its wait passed without a block taking anything
\* from the pool, or something was added to the pool meanwhile, by other workers
\* or other users.
StalledMeansNotDraining ==
  [][~stalled /\ stalled' =>
       \E w \in Workers : pc[w] = "judge" /\ pc'[w] = "post" /\ excused[w]]_vars
=============================================================================
