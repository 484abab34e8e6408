-------------------------------- MODULE Waits --------------------------------
(***************************************************************************)
(* The polling loops of internal/bench/wait.go, one per behaviour:         *)
(*   port    WaitForPort, until the node listens or the deadline passes;   *)
(*   height  WaitForHeight, until it reports MinHeight;                    *)
(*   idle    DetectIdleOrHalt, after a send to the run's own chain, until  *)
(*           the newest idleBlocks blocks carry nothing, or the chain or   *)
(*           the node stands still for haltAfter;                          *)
(*   own     WaitForTxs, after a send to a shared chain, until the run's   *)
(*           own transactions are in, until idleBlocks blocks pass without *)
(*           one, or until the chain stalls for haltAfter.                 *)
(*                                                                         *)
(* Heights are absolute, or for own count from the head the run started    *)
(* at: block 1 is `from`.  Chain, node and clock are external.  Behind one *)
(* URL there may be several backends, some of them behind: such a one      *)
(* reports an older head and answers null for a block it does not have,    *)
(* which JSONRPCCall decodes as a block without transactions.              *)
(***************************************************************************)
EXTENDS Integers, Sequences, FiniteSets

CONSTANTS
  Own,         \* the run's transactions
  MinHeight,   \* min_ready_height
  IdleBlocks,  \* num_idle
  HaltAfter,   \* chain_halt_interval_seconds, or the readiness timeout, in ticks
  StartHead,   \* blocks before DetectIdleOrHalt is called
  MaxHead,     \* bound on the chain
  Cases        \* which loop, and what may go wrong around it: pairs of Kinds and Troubles

Kinds == {"port", "height", "idle", "own"}

\* Calls may fail or the context end; time may pass during a call; some backends
\* may be behind; the chain may go on past MaxHead, with other users' blocks.
Troubles == {"failing", "slow", "lagging", "endless"}

ASSUME WaitAssumption ==
  /\ IsFiniteSet(Own)
  /\ IdleBlocks \in Nat \ {0}
  /\ HaltAfter \in Nat \ {0}
  /\ MinHeight \in Nat /\ StartHead \in Nat /\ MaxHead \in Nat
  /\ Cases \subseteq Kinds \X SUBSET Troubles

VARIABLES
  case,         \* the loop and its surroundings
  pc,
  h,            \* the head as this poll reported it
  next,         \* own: the next block to read
  remaining,    \* own: transactions not seen in a block
  quietSince,   \* own: head at the first poll, then the last block carrying ours
  back,         \* idle: how far back from h the check has got
  lastHead,     \* the highest head reported
  since,        \* ticks since lastHead grew, or since the readiness wait began
  canceled,     \* ctx is done
  result,
  blocks,       \* the transactions of interest in each block (environment)
  listening,    \* port: the node's port is served (environment)
  firstHead,    \* the head the first poll reported (history)
  stillFor,     \* ticks since the chain's last block (history)
  stillest,     \* the highest stillFor since the last answered poll (history)
  readyFor,     \* ticks since the node became ready (history)
  skipped       \* blocks answered with null (history)

ownVars == <<next, remaining, quietSince, firstHead, skipped>>
chainVars == <<blocks, listening>>
history == <<stillFor, stillest, readyFor>>
vars == <<case, pc, h, ownVars, back, lastHead, since, canceled, result, chainVars, history>>

Kind == case[1]
Failing == "failing" \in case[2]
Slow == "slow" \in case[2]
Lagging == "lagging" \in case[2]
Endless == "endless" \in case[2]

Included == UNION {blocks[i] : i \in 1..Len(blocks)}

Ready == IF Kind = "port" THEN listening ELSE Len(blocks) >= MinHeight

\* The variables have their types and the wait stays within the chain.
TypeOK ==
  /\ case \in Cases
  /\ pc \in {"poll", "late", "read", "decide", "halt", "pause", "done"}
  /\ blocks \in Seq(SUBSET Own)
  /\ h \in 0..Len(blocks)
  /\ next \in 1..(Len(blocks) + 1)
  /\ remaining \in 0..Cardinality(Own)
  /\ back \in 0..IdleBlocks /\ back <= h
  /\ quietSince \in -1..Len(blocks) /\ firstHead \in -1..Len(blocks)
  /\ lastHead \in -1..Len(blocks)
  /\ since \in 0..HaltAfter /\ stillFor \in 0..HaltAfter
  /\ stillest \in 0..HaltAfter /\ readyFor \in 0..HaltAfter
  /\ canceled \in BOOLEAN /\ listening \in BOOLEAN
  /\ result \in {"none", "ready", "timeout", "idle", "unreachable", "all", "dropped", "halt",
                 "canceled"}
  /\ skipped \subseteq 1..(next - 1)

Init ==
  /\ case \in Cases
  /\ pc = "poll"
  /\ h = 0
  /\ next = 1
  /\ remaining = Cardinality(Own)
  /\ quietSince = -1
  /\ back = 0
  /\ lastHead = IF Kind = "own" THEN -1 ELSE 0
  /\ since = 0
  /\ canceled = FALSE
  /\ result = "none"
  /\ blocks \in [1..(IF Kind = "idle" THEN StartHead ELSE 0) -> {{}, Own}]
  /\ listening = FALSE
  /\ firstHead = -1
  /\ stillFor = 0 /\ stillest = 0 /\ readyFor = 0
  /\ skipped = {}

-----------------------------------------------------------------------------
(* Common to the loops.                                                    *)

Return(r) ==
  /\ pc' = "done"
  /\ result' = r

\* Time is up for what the loop waits on: a halt, or the end of the patience.
UpOr(r) == IF since >= HaltAfter THEN Return(r) ELSE pc' = "pause" /\ UNCHANGED result

PauseOver ==
  /\ pc = "pause"
  /\ pc' = "poll"
  /\ UNCHANGED <<case, h, ownVars, back, lastHead, since, canceled, result, chainVars, history>>

PauseCanceled ==
  /\ pc = "pause"
  /\ canceled
  /\ Return("canceled")
  /\ UNCHANGED <<case, h, ownVars, back, lastHead, since, canceled, chainVars, history>>

-----------------------------------------------------------------------------
(* WaitForPort and WaitForHeight.                                          *)

\* Fault: the deadline is looked at before the node is.
ProbeLast ==
  /\ Kind \in {"port", "height"}
  /\ pc = "poll"
  /\ IF since >= HaltAfter THEN Return("timeout")
     ELSE IF Ready /\ ~canceled THEN Return("ready") ELSE pc' = "late" /\ UNCHANGED result
  /\ UNCHANGED <<case, h, ownVars, back, lastHead, since, canceled, chainVars, history>>

\* Dial the port, or ask for the height.
Probe ==
  /\ Kind \in {"port", "height"}
  /\ pc = "poll"
  /\ \/ Ready /\ ~canceled /\ Return("ready")
     \/ /\ ~Ready \/ Failing \/ canceled
        /\ pc' = "late"
        /\ UNCHANGED result
  /\ UNCHANGED <<case, h, ownVars, back, lastHead, since, canceled, chainVars, history>>

\* Only after a probe that failed: time.Now().After(deadline).
CheckDeadline ==
  /\ pc = "late"
  /\ UpOr("timeout")
  /\ UNCHANGED <<case, h, ownVars, back, lastHead, since, canceled, chainVars, history>>

-----------------------------------------------------------------------------
(* DetectIdleOrHalt.                                                       *)

\* CurrentHeight answers: new blocks start an idle check, else look for a halt.
PollIdle ==
  /\ Kind = "idle" /\ pc = "poll"
  /\ ~canceled
  /\ h' = Len(blocks)
  /\ IF h' > lastHead
       THEN lastHead' = h' /\ since' = 0 /\ pc' = "read"
       ELSE pc' = "halt" /\ UNCHANGED <<lastHead, since>>
  /\ back' = 0
  /\ stillest' = stillFor
  /\ UNCHANGED <<case, ownVars, canceled, result, chainVars, stillFor, readyFor>>

\* Fault: an unreachable node is polled for ever.
PollIdleFailsForever ==
  /\ Kind = "idle" /\ pc = "poll"
  /\ Failing \/ canceled
  /\ pc' = "pause"
  /\ UNCHANGED <<case, h, ownVars, back, lastHead, since, canceled, result, chainVars, history>>

\* CurrentHeight fails.
PollIdleFails ==
  /\ Kind = "idle" /\ pc = "poll"
  /\ Failing \/ canceled
  /\ UpOr("unreachable")
  /\ UNCHANGED <<case, h, ownVars, back, lastHead, since, canceled, chainVars, history>>

\* Fault: the idle check starts over from wherever the head is by now.
TargetFromHead == Len(blocks) - back

\* The block the idle check is at.
Target == h - back

\* BlockByNumber answers; a block with transactions ends the check.
ReadBack ==
  /\ Kind = "idle" /\ pc = "read"
  /\ back < IdleBlocks
  /\ Target > 0
  /\ ~canceled
  /\ IF blocks[Target] # {} THEN pc' = "pause" /\ UNCHANGED back
                            ELSE back' = back + 1 /\ UNCHANGED pc
  /\ UNCHANGED <<case, h, ownVars, lastHead, since, canceled, result, chainVars, history>>

\* Fewer than idleBlocks blocks exist, or one cannot be read: not idle.
CutShort ==
  /\ Kind = "idle" /\ pc = "read"
  /\ back < IdleBlocks
  /\ Target <= 0 \/ Failing \/ canceled
  /\ pc' = "pause"
  /\ UNCHANGED <<case, h, ownVars, back, lastHead, since, canceled, result, chainVars, history>>

\* The whole window is empty.  The pool is read and printed, not acted on.
Idle ==
  /\ Kind = "idle" /\ pc = "read"
  /\ back = IdleBlocks
  /\ Return("idle")
  /\ UNCHANGED <<case, h, ownVars, back, lastHead, since, canceled, chainVars, history>>

-----------------------------------------------------------------------------
(* WaitForTxs.                                                             *)

\* The heads a poll may be told.  A chain that goes on past MaxHead has always
\* grown since the last poll.
Reported == IF Lagging THEN 0..Len(blocks) ELSE {Len(blocks)}

Grown(n) == n > lastHead \/ (Endless /\ n = MaxHead)

\* CurrentHeight answers.
PollOwn ==
  /\ Kind = "own" /\ pc = "poll"
  /\ ~canceled
  /\ \E n \in Reported :
       /\ h' = n
       /\ quietSince' = IF quietSince < 0 THEN n ELSE quietSince
       /\ firstHead' = IF firstHead < 0 THEN n ELSE firstHead
       /\ lastHead' = IF n > lastHead THEN n ELSE lastHead
       /\ since' = IF Grown(n) THEN 0 ELSE since
  /\ stillest' = stillFor
  /\ pc' = "read"
  /\ UNCHANGED <<case, next, remaining, back, canceled, result, chainVars, stillFor, readyFor,
                 skipped>>

\* CurrentHeight fails: only the halt check is left of this round.
PollOwnFails ==
  /\ Kind = "own" /\ pc = "poll"
  /\ Failing \/ canceled
  /\ pc' = "halt"
  /\ UNCHANGED <<case, h, ownVars, back, lastHead, since, canceled, result, chainVars, history>>

\* Block next is read, and the last block carrying ours is now q.
Scanned(q) ==
  /\ Kind = "own" /\ pc = "read"
  /\ next <= h
  /\ ~canceled
  /\ remaining' = remaining - Cardinality(blocks[next])
  /\ quietSince' = q
  /\ next' = next + 1
  /\ UNCHANGED <<case, pc, h, back, lastHead, since, canceled, result, chainVars, history,
                 firstHead, skipped>>

\* Fault: quietSince falls back to a block before the call.
ReadBlockNoMax == Scanned(IF blocks[next] # {} THEN next ELSE quietSince)

\* BlockByNumber answers with block next, and own.Count counts ours in it.
ReadBlock == Scanned(IF blocks[next] # {} /\ next > quietSince THEN next ELSE quietSince)

\* BlockByNumber is answered null by a backend that is behind.
ReadNull ==
  /\ Kind = "own" /\ pc = "read"
  /\ next <= h
  /\ Lagging
  /\ ~canceled
  /\ next' = next + 1
  /\ skipped' = skipped \cup {next}
  /\ UNCHANGED <<case, pc, h, remaining, quietSince, firstHead, back, lastHead, since, canceled,
                 result, chainVars, history>>

\* Fault: a round cut short reads its blocks again.
ReadFailsRestarts ==
  /\ Kind = "own" /\ pc = "read"
  /\ next <= h
  /\ Failing \/ canceled
  /\ next' = 1
  /\ skipped' = {}
  /\ pc' = "decide"
  /\ UNCHANGED <<case, h, remaining, quietSince, firstHead, back, lastHead, since, canceled,
                 result, chainVars, history>>

\* BlockByNumber fails: the next round resumes at this block.
ReadFails ==
  /\ Kind = "own" /\ pc = "read"
  /\ next <= h
  /\ Failing \/ canceled
  /\ pc' = "decide"
  /\ UNCHANGED <<case, h, ownVars, back, lastHead, since, canceled, result, chainVars, history>>

\* Everything is in, or nothing of ours for idleBlocks blocks.
Decide ==
  /\ Kind = "own"
  /\ pc = "decide" \/ (pc = "read" /\ next > h)
  /\ IF remaining <= 0 THEN Return("all")
     ELSE IF next - 1 - quietSince >= IdleBlocks THEN Return("dropped")
     ELSE pc' = "halt" /\ UNCHANGED result
  /\ UNCHANGED <<case, h, ownVars, back, lastHead, since, canceled, chainVars, history>>

\* time.Since(lastProgressAt) >= haltAfter, in both loops that watch the chain.
CheckHalt ==
  /\ pc = "halt"
  /\ UpOr("halt")
  /\ UNCHANGED <<case, h, ownVars, back, lastHead, since, canceled, chainVars, history>>

-----------------------------------------------------------------------------
(* The environment: the caller's context, the clock, the node, the chain.  *)

Cancel ==
  /\ Failing
  /\ ~canceled
  /\ pc # "done"
  /\ canceled' = TRUE
  /\ UNCHANGED <<case, pc, h, ownVars, back, lastHead, since, result, chainVars, history>>

\* A call is under way.
Calling ==
  \/ pc = "poll"
  \/ pc = "read" /\ IF Kind = "own" THEN next <= h ELSE back < IdleBlocks /\ Target > 0

OneMore(n) == IF n < HaltAfter THEN n + 1 ELSE n

\* A tick of the clock, much longer than a poll interval.
Tick ==
  /\ pc = "pause" \/ (Slow /\ Calling)
  /\ since' = OneMore(since)
  /\ stillFor' = OneMore(stillFor)
  /\ stillest' = IF stillFor' > stillest THEN stillFor' ELSE stillest
  /\ readyFor' = IF Ready THEN OneMore(readyFor) ELSE 0
  /\ UNCHANGED <<case, pc, h, ownVars, back, lastHead, canceled, result, chainVars>>

\* A block takes some of the run's transactions, or none.  With Endless the last
\* IdleBlocks blocks within the bound carry none, and the first poll is before.
Mine ==
  /\ Kind # "port"
  /\ Len(blocks) < MaxHead
  /\ pc # "done"
  /\ \E S \in IF Kind = "own" THEN SUBSET (Own \ Included)
              ELSE IF Kind = "idle" THEN {{}, Own} ELSE {{}} :
       /\ Endless /\ Len(blocks) >= MaxHead - IdleBlocks => S = {} /\ firstHead >= 0
       /\ blocks' = Append(blocks, S)
  /\ stillFor' = 0
  /\ UNCHANGED <<case, pc, h, ownVars, back, lastHead, since, canceled, result, listening, stillest,
                 readyFor>>

\* The node starts to listen, or dies.
Listen ==
  /\ Kind = "port"
  /\ pc # "done"
  /\ listening' = ~listening
  /\ readyFor' = 0
  /\ UNCHANGED <<case, pc, h, ownVars, back, lastHead, since, canceled, result, blocks, stillFor,
                 stillest>>

Loop ==
  \/ Probe \/ CheckDeadline
  \/ PollIdle \/ PollIdleFails \/ ReadBack \/ CutShort \/ Idle
  \/ PollOwn \/ PollOwnFails \/ ReadBlock \/ ReadNull \/ ReadFails \/ Decide
  \/ CheckHalt \/ PauseOver \/ PauseCanceled

Next == Loop \/ Cancel \/ Tick \/ Mine \/ Listen

\* The loop goes on, a wait that starts after the context ended ends with it, and
\* time passes however often the loop polls.
Fairness ==
  /\ WF_vars(Loop) /\ SF_vars(PauseCanceled) /\ SF_vars(Tick)
  /\ WF_vars(Endless /\ Mine)

Spec == Init /\ [][Next]_vars /\ Fairness

-----------------------------------------------------------------------------
(* Properties.                                                             *)

\* The run's transactions in the blocks read.
Seen == UNION {blocks[i] : i \in (1..(next - 1)) \ skipped}

\* The types hold, and remaining is exactly the run's transactions outside the
\* blocks read, although a round may be cut short anywhere and resumed: no block is
\* counted twice and only a null answer is missed.  So "all included" is never
\* reported early, whatever the backends answer.
RemainingExact ==
  /\ TypeOK
  /\ Kind = "own" => remaining = Cardinality(Own \ Seen)
  /\ result = "all" => Own \subseteq Included

\* Giving up on dropped transactions takes idleBlocks blocks in a row without any
\* of ours, all of them after the head at the call: "once idleBlocks blocks pass
\* without any of them (counted from the call or the last inclusion)".  The wait
\* cannot tell a null answer from such a block.
DroppedMeansQuiet ==
  result = "dropped" =>
    /\ next - 1 >= firstHead + IdleBlocks
    /\ \A i \in (next - IdleBlocks)..(next - 1) : blocks[i] = {} \/ i \in skipped

\* Idle is reported on idleBlocks consecutive blocks without transactions, the
\* newest one polled among them, although the chain grows during the check:
\* num_idle "counts blocks without transactions".
IdleMeansEmpty ==
  result = "idle" =>
    /\ h >= IdleBlocks
    /\ \A i \in (h - IdleBlocks + 1)..h : blocks[i] = {}

\* A halt is reported only "once the chain stalls for haltAfter": it was still that
\* long when last polled, or has been at some time since.  WaitForTxs may count time
\* spent in calls as time without a block, so of a node that answers promptly.
HaltMeansStalled ==
  result = "halt" /\ (Kind = "idle" \/ case[2] \subseteq {"endless"}) => stillest >= HaltAfter

\* DetectIdleOrHalt calls a node unreachable only if its chain stands still as well,
\* or if it has answered no poll since the chain last grew: the time is measured from
\* the last new block, not from the last answer.
UnreachableMeansStuck ==
  result = "unreachable" => stillFor >= HaltAfter \/ lastHead < Len(blocks)

\* A node is given up at the deadline only if it was not ready when last looked at,
\* after the last pause: one that came up before the last pause ended is not missed.
\* Of a node that answers promptly.
TimeoutMeansNotReady ==
  result = "timeout" /\ ~Failing /\ ~Slow => readyFor = 0

\* What the loops report is true of the chain and of the node, however slow the
\* calls and however many of them failed.
VerdictTrue ==
  IdleMeansEmpty /\ HaltMeansStalled /\ UnreachableMeansStuck /\ TimeoutMeansNotReady

\* The wait ends, whether the chain stops, goes on for ever with or without the
\* run's transactions, or the node dies.  The one exception: WaitForTxs goes on while
\* the head advances and one block cannot be read, for as long as that lasts.
Returns ==
  \/ <>(pc = "done")
  \/ Endless /\ Failing /\ <>[](next <= lastHead)
=============================================================================
