# A verification development for evm-benchmark

evm-benchmark generates signed transactions, starts (or attaches to) a network of
EVM nodes, sends the load over JSON-RPC, waits until it is in blocks and computes
rates from the blocks. The TLA+ modules here model the parts of it in which a mistake
would go unnoticed: a number would still be printed, but it would be of another
chain, of a part of the load, or of a sender that was waiting for itself. TLC checks
them on small instances; TLAPS proves some of the results for every value of the
constants. Paths below are relative to `src/`.

## Inventory

| Component | State | Operations | What is hard | What makes it correct |
|---|---|---|---|---|
| `postJSON` (`internal/bench/rpc.go`) | attempt, failures | post, 429, no answer, refusal, answer, wait, cancel | two retry budgets on one counter; a request that timed out may still arrive | bounded requests, no budget eats the other, "no answer" only after the whole budget |
| Load sender: `BroadcastRawTxs`, `BroadcastStreams`, `awaitPoolRoom` (`rpc.go`) | channels of chunks, per-worker position, shared `maxPending`, `stalled`, counters | take, sample the pool, raise the maximum, pause, post, count | workers sharing one pool and one maximum without a lock; stale samples; a node that stops draining; retries of what is already in | accounts stay in order, everything is accounted for, the send ends, the peak is exact, the overshoot is bounded |
| Polling loops: `WaitForPort`, `WaitForHeight`, `DetectIdleOrHalt`, `WaitForTxs` (`wait.go`, `owntxs.go`) | last head, next block, remaining, quietSince, time | poll, read a block, decide, pause | rounds cut short, backends behind, slow calls, a chain that grows while it is read | remaining is exact; each verdict means what it says; each loop returns |
| `unstick` (`cmd/unstick`) | per sender price, next, lastLatest, stalled; fewest, since | read nonces, read pool, send, judge, sleep | resends over many rounds; nonces read before the pool | window, outbidding, "clear" is true, it ends |
| Workflow, `GenerateTxs`, `RunNode` (`internal/workflows`, `internal/activities/stateless.go`, `devnet.go`) | futures, files, processes, ports | layout, patch, generate, start, drive, stop, collect | concurrent activities, a port an earlier run still serves, processes that die or ignore SIGTERM | the result is of this run's nodes, complete, in order; nothing outlives it |
| Remote preparation (`tempo_remote.go`, `tempo_txgen.go`) | balances, nonces, left-overs | refuse stuck senders, fund, wait, read nonces, sign | the chain moves between steps; uint64 arithmetic | a signed load can be paid for and has no nonce gap |
| Load generation (`txgen.go`, `tempo_txgen.go`, `keygen`) and validation (`config.go`, `runtime*.go`) | slots per account, the file, funded accounts | validate, fund, sign in parallel, emit in order, sign again | parallel signers, a failure half way, rules spread over four families | senders are funded, no nonce twice, streams whole |
| `DumpBlockStats` (`stats.go`) | per-block results, buckets | read in parallel with retries, bucket, average | unreadable blocks, idle seconds, edges of the load | every read transaction counted once, over the seconds named |
| Layouts: `GenerateLayout`, `LoadLayout`, `PatchImage`, the families' bootstraps (`stateless.go`, `runtime*.go`, `*_devnet.go`), `benchctl`, `run-benchmark.sh` | node homes, `nodes.json`, compose file, image, containers | generate, reuse, copy, build an image, clean, stop | operations in any order, each of which may stop half way over what an earlier one left | the nodes of a run are one network, fresh when it was generated; a copy is whole; generating again always works |
| Tempo encoding, `checkfunding`, text of scripts and genesis | bytes, text | | | see "Not modelled" |

How they interact: before a run, `benchctl gen`, the script's prepare, or the workflow's
own first activities write, reuse or copy the network's files (Layout). The workflow then runs
`GenerateTxs` per node (GenerateLoad) and `RunNode` per node (RunNodes). `RunNode` starts the
node, waits for its port and its height (Waits) and calls `doRun`, which sends with Broadcast,
waits with `WaitForTxs` (remote chains) or `DetectIdleOrHalt` (Waits) and computes BlockStats.
Every JSON-RPC call goes through `postJSON`; Broadcast uses only its promise (a call returns an
answer to one of the copies it posted, or an error, and posts at most so many). Before a remote
run RemotePrepare funds and signs; after a run that left its transactions behind, `unstick` clears
the pool. A run the operator interrupts is cleaned up by `run-benchmark.sh` (RunNodes).

The hazards, each at its line with the properties that would catch it, are in
`PROJECT.json`.

## Modules

| Module | Models | Notes |
|---|---|---|
| `ReliableCall` | what callers of `postJSON` rely on | abstract: pending, then one result; the copies the server may execute are bounded |
| `PostJSON` | one call of `postJSON` | one action per way a request ends; `KeepsPromise` is `ReliableCall!Spec` under a refinement mapping |
| `PostJSONProofs` | | its theorems |
| `Broadcast`, `MCBroadcast` | `BroadcastRawTxs`, `BroadcastStreams`, `broadcast`, `awaitPoolRoom`, `withDefaults`, `chunk`, the accounting | a worker's `pc` follows the code from taking a chunk to counting its outcome; the atomic load and compare-and-swap of `maxPending` are separate steps |
| `BroadcastProofs` | | lemmas on how the load is cut, and its theorems |
| `Waits`, `MCWaits` | `WaitForPort`, `WaitForHeight`, `DetectIdleOrHalt`, `WaitForTxs` | one module, since the loops share their pause, their clock and the halt rule; one action per call, a round is any number of them |
| `WaitsProofs` | | its theorems |
| `Unstick` | the loop of `cmd/unstick` | pool and producer are environment |
| `UnstickProofs` | | its theorems |
| `RunNodes`, `MCRunNodes` | the workflow, `GenerateTxs`, `RunNode` with the metrics scrape, the worker's exit and the script's `cleanup_run_all` | each activity has its own program counter; processes and ports are environment |
| `RunNodesProofs` | | its theorems |
| `RemotePrepare`, `MCRemotePrepare` | `bootstrapTempoRemote`, `fundTempoSenders`, `fundFromIndex0`, nonce lanes, signing on lanes | widths of integers are kept in `Cost` |
| `RemotePrepareProofs` | | its theorems |
| `GenerateLoad`, `MCGenerateLoad` | validation, funding by genesis, signing, the transaction file, signing again in `doRun` | every config of a small space is an initial state |
| `GenerateLoadProofs` | | lemmas on places in a file, and its theorems |
| `Layout`, `MCLayout` | `GenerateLayout`, `LoadLayout`, `PatchImage`, the four bootstraps, `benchctl gen` and `patchimage`, the script's prepare, clean and stop | an operation is a list of steps taken one by one; a failure leaves what was written |
| `LayoutProofs` | | the order of the steps, what each one needs, and its theorems |
| `BlockStats` | `DumpBlockStats`, `bucketTPS`, `interiorBuckets`, `drainBuckets` | the rates are operators on the blocks read |

An operator under a comment that begins with "Fault:" is not used by the model. It is the
definition below it with a plausible bug; with it in place of that definition the
property named in `PROJECT.json` fails, which shows that the property depends on that
piece of the code.

Abstractions. Transactions are pairs of account and position (or records of sender,
nonce and a mark), never bytes. Time is counted in poll intervals. In `Broadcast` the
retries inside one `postJSON` are the number of copies the node executes, at most
`MaxCopies`, as `ReliableCall` allows. In `Unstick` the broadcast of one round is one
step, as nothing else of the command runs meanwhile. In `GenerateLoad` signing one
account is one step. In `Layout` a node home is the generation its keys and its genesis come from
and whether a chain has run on it; failing half way through writing one home counts as not having
written it. `BlockStats` has no median, no list of peaks and no text.
Latencies and log lines are left out everywhere. Variables marked "history" record what
happened for a property to refer to and guard nothing; those marked "environment" are
the node's or the chain's.

## Runs

`CHECK_DEADLOCK FALSE` is set in every run because each of these programs ends, or, in Layout,
because the operator stops after a bounded number of operations; that the programs end only in the
intended ways is what the liveness property of a run says. The type invariants of PostJSON and
Broadcast are theorems only; in the other modules `TypeOK` is a conjunct of the invariant that depends on it
most (`RemainingExact`, `WindowRespected`, `SuccessIsComplete`, `NoNonceGap`, `StreamsWhole`,
`LoadCountedOnce`, `RegenerationWorks`).

| Run | Instance | What it shows |
|---|---|---|
| `post_json` | the code's 3 retries after failures, 4 waits on 429 instead of 60 | budgets, bounds, refinement of `ReliableCall`, return |
| `broadcast_streams` | accounts of 2, 1 and 1 transactions, 2 workers, watermark 1, answers lost, the chain may stop | order, peak, overshoot, end by timeout, meaning of `PoolStalled` |
| `broadcast_raw` | 4 transactions of one account in pairs on one channel, 2 workers, retries, refusals, another user, cancellation, blocks go on | accounting, retries that find their transaction, no self-made deadlock of queued transactions |
| `waits` | nine cases of loop and trouble; 2 own transactions, up to 4 blocks, idle window 2, two ticks of patience | exact count, every verdict, return |
| `unstick` | 2 senders, 2 nonces each, window 1, start prices 3 and 4 against 4 in the pool and a base fee of 5 | window, `next`, outbidding, clear, end |
| `run_nodes` | 3 nodes, eight setups, the script interrupted at any time or never | own chain measured, nothing left, complete results, end |
| `remote_prepare` | 3 senders, 3 transactions, 2 lanes, all ways of funding | can pay, no gap, account 0 covered, end |
| `generate_load` | every network of up to 3 nodes, two signers' loads of 3 accounts, hot percentages | funded, no nonce twice, whole streams, spread, end |
| `generate_load_docker` | Tempo docker networks with legacy transactions | finding |
| `block_stats` | every placement of 4 blocks in 4 seconds, each empty or not, each readable or not | rates |
| `layout` | 2 nodes of which 1 is a validator, 24 setups, up to 5 operations and 4 generations | one network, fresh chain, whole copies, regeneration |
| `layout_patch` | a local PatchImage without `source_dir` | finding |

Why the bounds are enough: each is the smallest at which the case occurs that the
properties are about. Two workers can hold samples at the same time and a third adds no new
order of load and swap; a stream of two has an order to break, and a third account makes a
worker own two streams. Four transactions in pairs on one channel let the second chunk
arrive first, be queued, and be retried. Four blocks and an idle window of two allow a
round that is cut short, resumed, reset by an own transaction and quiet again. In Unstick
one nonce inside the window and one beyond it suffice for lost, resent and overtaken
replacements; prices 3 and 4 lie on both sides of where a quarter in whole wei becomes
nothing. In Layout two nodes can be of two
generations, and five operations allow a generation, one that stops half way, a patch of the
result, a clean and a workflow that reuses or regenerates what is left. Three nodes have a first, a failing and a late future. With four seconds there is a first,
an interior, an idle and a last one. The watermark and batch options that switch the gate off,
and sampling only every few requests, are not in a run's instance; the theorems on
Broadcast hold for them too.

Fairness, and why the code justifies it:

* PostJSON: weak fairness of sending, of a request without answer (each attempt has a
  timeout) and of the end of a wait (a timer).
* Broadcast: weak fairness of each worker and of the return (goroutines run). `ClockSpec`
  adds strong fairness of a pause that ends an interval later: the ticker's time passes
  however often a worker samples; nothing is assumed of the chain. `ChainSpec` assumes
  instead that pooled executable transactions are mined, and nothing of the clock.
* Waits: weak fairness of the loop, strong fairness of noticing cancellation (`select` on
  `ctx.Done` and a timer) and of the clock, which goes on however often the loop polls; in the
  endless case also of new blocks. Nothing is assumed of reads that fail, so `Returns` has to
  name the one case in which the wait does not end (`wait.go:143`).
* Unstick, RemotePrepare: weak fairness of the program's own steps only.
* RunNodes: weak fairness of the workflow, of the activities and of the script's cleanup, and of the
  death of a killed process (SIGKILL after the grace period) only while `RunNode` waits for it: a
  node whose worker is gone has nobody to kill it but the script.
* Layout and BlockStats state no fairness and no liveness.
* GenerateLoad: weak fairness of the workflow, the signers and the emitters.

### What the two failing runs show

* `generate_load_docker`: the docker branch of `tempoRuntime.Validate`
  (`runtime_tempo.go:189`) returns before the rule that rejects multi-node legacy load.
* `layout_patch`: a local PatchImage whose `source_dir` is left out takes `data_dir/out` or `data_dir`
  (`stateless.go:217`). The first is removed together with the destination (`stateless.go:261`); the
  second is copied onto itself, and `copyDir` truncates every file before it reads it
  (`stateless.go:821`), after which PatchImage reports success.

### Observations made while modelling

The following behaviours were found while stating the properties; the properties are
stated so that they hold of the code, with the exception named in their comments.

* `rpc.go:426`: a request of one transaction that is answered with an error counts in
  `Failed`, which `rpc.go:233` describes as requests never answered.
* `rpc.go:139`: a retry whose first copy was mined meanwhile is answered "nonce too low"
  and counts in `Rejected` although the transaction is in a block.
* `rpc.go:294`: the stall timer restarts only at a new low of the whole wait, so a pool that
  drains and is refilled by others sets `PoolStalled`, which `rpc.go:230` calls "stopped
  draining".
* `wait.go:147`: a backend that does not have the block yet answers null, which is counted
  as a block without the run's transactions.
* `wait.go:162`: time spent reading blocks counts as time without progress, so a chain that
  grows can be reported halted.
* `wait.go:78`: the idle window may lie before the load, if the chain was idle and none of
  the load is in a block yet.
* `wait.go:61`: one failed poll of a halted chain is reported as "node unreachable" for the
  time since the last block.
* `tempo_remote.go:100`: transactions left behind a nonce gap do not move the pending nonce
  and pass `refuseStuckSenders`.
* `tempo_remote.go:210`: `uint64(len(short))*tempoFundGasPerCall*maxFee` wraps before it is
  divided, and the check then lets pass an account 0 that cannot pay. `FundingCovered` is stated
  short of the wrap.
* `runtime_tempo.go:121`: the outcome of `compose down` is ignored and `up -d` keeps containers
  whose service did not change. After a clean, which removes the compose file while the containers
  run, the next bootstrap tears nothing down and the load meets the old chain, although
  `README.md:257` calls docker mode idempotent. `OneNetwork` and `FreshChain` exclude this case
  (`orphaned`).
* `stateless.go:103`: a copied `nodes.json` names the source's homes, so a local Cosmos run that
  reuses a patched layout starts nodes on the source's homes, and LoadLayout runs before PatchImage.
* A local run with `skip_generate_layout` starts on the chain an earlier run left; `FreshChain` is
  about generated layouts and images only.
* `run-benchmark.sh:318`: `stop_nodes` has no case for local Cosmos nodes, so those of an
  interrupted run stay, although the comment on `cleanup_run_all` says "Nodes too"; Cosmos has no port
  check either. `NothingOutlives` names the exception.
* `cmd/starter/main.go:50`: the starter attaches to a running workflow of the same id, whatever its
  config, and prints its result.
* `cmd/checkfunding/main.go:150`: the probes use up nonces of account 1, from which a load signed
  from nonce 0 cannot recover.

## Proofs

Proved for every value of the constants, from the assumptions the modules declare about them:
`RetriesAssumption` (PostJSON), `BroadcastAssumption`, `WaitAssumption`, `UnstickAssumption`,
`RunAssumption`, `PrepareAssumption`, `LoadAssumption` and `LayoutAssumption`. These are types and
signs of the constants, that sets the code holds in memory are finite, and that reth and Allegro have
no docker runner; TLC evaluates them in the runs. Three theorems have a hypothesis of their own,
explained below.

| Theorem | Statement |
|---|---|
| `PostJSONProofs!TypeCorrect` | both retry budgets keep their limits |
| `PostJSONProofs!CountersCorrect` | `attempt` is the sum of waits on 429 and failures |
| `PostJSONProofs!RequestsAreBounded` | at most `rateLimitRetries + failedRetries + 1` copies are posted and executed |
| `PostJSONProofs!GivesUpLastCorrect` | "unanswered" only after the whole budget of failures |
| `PostJSONProofs!Refinement` | PostJSON implements ReliableCall |
| `BroadcastProofs!TypeCorrect` | types and bounds of the sender's state |
| `BroadcastProofs!PeakCorrect` | the compare-and-swap maximum loses no sample |
| `BroadcastProofs!NothingIsLost` | the whole load is posted, and what is not in the node is counted |
| `BroadcastProofs!RejectionsAreFinal` | what counts as rejected is not waiting in the pool |
| `BroadcastProofs!OrderIsKept` | streams: nothing reaches the node before an earlier transaction of its account |
| `BroadcastProofs!StallsAreReal` | action property: the pool is declared stalled only if an interval passed without a drain, or with additions |
| `BroadcastProofs!OvershootIsBounded` | the pool exceeds the watermark by at most one batch per worker |
| `WaitsProofs!CountIsExact` | `remaining` is exact, and "all" is true |
| `WaitsProofs!DroppedIsQuiet` | "dropped" only after `IdleBlocks` blocks in a row without ours |
| `WaitsProofs!VerdictsAreTrue` | idle, halted, unreachable and timed out are true when said |
| `UnstickProofs!WindowHolds` | nothing beyond the window is sent, everything below `next` is at the current price |
| `UnstickProofs!ResendsOutbid` | action property: a resend pays what the pool asks of a replacement |
| `UnstickProofs!ClearIsClear` | action property: "clear" is true when the pool was read |
| `RunNodesProofs!TypesHold` | types of the workflow's and the activities' state |
| `RunNodesProofs!RunMeasuresItsNodes` | a successful run was answered only by the nodes it started (families that check the port, and docker) |
| `RunNodesProofs!NodesAreStopped` | nothing outlives its `RunNode`, or the cleanup of an interrupted script |
| `RunNodesProofs!WorkflowIsComplete` | a successful workflow has every result in order, each of a whole file |
| `RemotePrepareProofs!NoGapIsSigned` | every lane continues where the chain and the pool leave off |
| `RemotePrepareProofs!TransfersAreCovered` | account 0 can pay for all transfers on their way, short of the wrap |
| `RemotePrepareProofs!SendersCanPay` | every sender of a signed load holds its reserve |
| `GenerateLoadProofs!StreamsAreWhole` | each stream of a load is one account's whole sequence |
| `GenerateLoadProofs!NoncesAreUnique` | no account and nonce is signed twice, no validator's key is used |
| `GenerateLoadProofs!SendersAreFunded` | accepted configs send only from funded keys |
| `GenerateLoadProofs!HotIsSpread` | any stretch of an account has its share of hot transactions, give or take one |
| `LayoutProofs!Invariance` | the inductive invariant: what holds before each step, and what survives a failure at any |
| `LayoutProofs!NetworksAreOne` | the nodes a load meets are of one generation |
| `LayoutProofs!ChainsAreFresh` | a generated or imaged network has no chain of an earlier run on it |
| `LayoutProofs!PatchesAreWhole` | a finished PatchImage left exactly what its source held |
| `LayoutProofs!RegenerationAlwaysWorks` | no step of a generation is refused over what earlier operations left |

The three hypotheses. `SendersCanPay` assumes `OnProtocolNonce`: that what an earlier run left in the
pool is on the protocol nonce, which `refuseStuckSenders` reads. It is false of left-overs on a user
key, which that check does not see and which may be mined, and paid for, after the balances were
read; the run of RemotePrepare has the same restriction. `SendersAreFunded` assumes
`NoLegacyInDocker`, which excludes exactly the configs that the run `generate_load_docker` shows to
be accepted by mistake. `PatchesAreWhole` assumes `SourceNotDest`: a local PatchImage is given a
`source_dir` that is not `data_dir`. Without one its source is `data_dir/out` or `data_dir`, in the
directory it resets and copies into, which `layout_patch` shows to end in a layout lost; the docker
PatchImage needs no hypothesis. The run `layout` satisfies it.

The arguments, each by an inductive invariant that adds to the property what its steps rely on:

* PostJSON. The agreement of the counters and a bound on the copies that are still under way: without
  the last, a stray copy could push the number executed past the bound.
* Broadcast, the cut. The load is cut into streams, batches and queues with folds and flattening. That
  every transaction is in exactly one request, behind the earlier ones of its account
  (`RequestsAre`), is proved from the library's definitions by least counterexample, since the
  induction theorems cannot be used.
* Broadcast, the peak. `PeakInv` with what a worker holds at each place. The step that matters is the
  swap: it fails if another worker raised the maximum, in which case the worker loads again and still
  holds its sample; so a peak above the maximum is always in some worker's hand.
* Broadcast, delivery. `DeliveryInv` follows a request from its queue to a worker's hand to its
  outcome: nobody else has a worker's request (`HandInv`), nothing of an open request is counted and a
  stray copy belongs to one that failed (`CountInv`), an answer tells where its transaction is
  (`ReplyInv`), what is finished has settled (`DoneInv`), and what arrived or may still arrive is not
  ahead of its account (`OrderInv`). From these follow `NothingIsLost`, `RejectionsAreFinal` and
  `OrderIsKept`.
* Broadcast, the stall timer. `StallInv`: as long as nothing was added and every tick of the wait
  saw a drain, the pool is below the wait's lowest sample, and so is the next sample, which restarts
  the timer. A timer that runs out therefore had an excuse.
* Broadcast, the overshoot. A worker that read the pool at or below the watermark is armed until it
  has posted. `ClaimInv`: what the pool holds together with what armed workers have in hand is at most
  the watermark plus a batch per worker. Posting moves transactions from one part to the other; the
  whole grows only when a worker arms itself, and then the pool was at or below the watermark.
* Waits. `OwnInv` (the blocks below `next` are exactly the ones counted), `QuietInv` (no block after
  `quietSince` has ours), `IdleInv`, and `StillInv` and `ReadyInv`, which relate the loop's clock to
  how long the chain and the node have really been as they are.
* Unstick. `ChainInv` (what was read may be old, never new) and `SendInv` (a nonce that is due, or
  will be, was last sent at a price the next one outbids).
* RunNodes. `PortInv` (past the port check an earlier node is gone for good), `ProcInv` (a process
  exists from start to stop of its activity, unless that was lost with the worker), `FlowInv` and
  `ResultInv` (phases and awaited futures), `LoadInv`.
* RemotePrepare. `FundInv` (transfers on their way pay different senders out of what account 0 had)
  and `PayInv`: of a sender that passed `refuseStuckSenders` nothing is mined any more, so a balance
  read once stays enough. This is why `OnProtocolNonce` is needed.
* GenerateLoad. `FileInv`: a file is the first m accounts one after the other, and m is all of them
  when it is complete. What is at a position then follows from the arithmetic of places
  (`PlaceExists`, `PlaceUnique`), and a key is funded by a case split over the families' rules. The
  number of hot transactions in a stretch telescopes (`HotCount`).
* Layout, by Floyd's method. `Follows` says which step comes after which in the lists of all
  operations (proved list by list: `GeneratePath`, `PatchPath`, `WorkflowPath`, `PreparePath`), and
  what is left to do always follows it (`Plan`). `Pre` says what holds when a step is reached: which
  homes are wiped, hold this generation's keys, its genesis too, have been copied, and which
  containers are up. Each step, taken from its `Pre`, establishes the `Pre` of whatever follows it:
  one lemma per action. Since any step may fail and any operation come next, what a load relies on
  cannot rest on `Pre` alone: `Settled` holds between any two steps. It says that homes which are
  all complete are of one generation, in either place and in the image, however stale
  the mixture an interrupted generation left (`Whole`); that no home is used where runs must start
  fresh (`Fresh`); that containers which were not orphaned run on one generation (`Contained`);
  that a finished copy equals its source (`Patched`, `Sourced`). `Whole` is why a leftover
  `nodes.json` is harmless: wiping comes before keys, keys before the genesis, so homes of two
  generations are never all complete.

Only model-checked, and why:

* Liveness (`Returns`, `Terminates`, `Ends`, `WorkflowEnds`, `PrepareEnds`, `GenerationEnds`): beyond the
  prover, as is ENABLED. `KeepsPromise` is proved; ReliableCall states safety.
* BlockStats (`LoadCountedOnce`, `SpansTile`, `WholeSecondsOnly`): sums over the blocks of all
  buckets, for which every rearrangement would need an induction over the blocks.

## Not modelled

* Tempo transaction encoding and hashing, and the calldata of its shapes: pure bytes, pinned by the
  repository's tests.
* The text of launch scripts, compose files, `config.toml`, `app.toml` and genesis documents; chain
  profiles, path expansion and deep merging of configs: conversions of data. Which accounts a
  genesis funds, and which port a node is checked on, are modelled.
* Pool sizes of the devnets (`tempo_devnet.go:237`): whether they suffice depends on how Tempo's
  nodes gossip, which is not in this repository.
* Compose projects of two data directories that compete for the same ports; Layout keeps one
  project.
* `checkfunding` reads, prints and sends three probes in sequence. Of `starter`, retrying the wait
  and printing; of `run-benchmark.sh`, building images, waiting for Temporal and terminating
  workflows by id.
* The heartbeat timeout of `GenerateTxs`: one of the ways it fails.
* The median and the list of peaks of BlockStats, latencies, logs.

## Plan

Done in this order: PostJSON with its promise and proofs; Broadcast on top of it; the polling
loops; Unstick; RunNodes; RemotePrepare; GenerateLoad; BlockStats; then the two readiness waits in
Waits, the interrupted script and the metrics scrape in RunNodes, and Layout; then the proofs of
RunNodes, Waits, Unstick, RemotePrepare, Broadcast, GenerateLoad and Layout.

The planned proofs are complete: every safety and action property of a passing run is a theorem but
the three of BlockStats. What would come next is a proof of those, with lemmas that
split and reorder a sum over blocks, once the prover can use the library's induction theorems; and
liveness, once it has rules for fairness. Both stay with TLC until then.
