----------------------------- MODULE WaitsProofs -----------------------------
(***************************************************************************)
(* Proofs about Waits for any transactions, heights and patience: what the *)
(* loops report is true of the chain and of the node.                      *)
(***************************************************************************)
EXTENDS Waits, FiniteSetTheorems, TLAPS

-----------------------------------------------------------------------------
(* The inductive invariant, in the parts the properties need.              *)

\* Which loop is where, and what it may report.
LoopInv ==
  /\ canceled => Failing
  /\ result = "none" <=> pc # "done"
  /\ pc = "late" \/ result \in {"ready", "timeout"} => Kind \in {"port", "height"}
  /\ pc \in {"read", "halt"} \/ result = "halt" => Kind \in {"idle", "own"}
  /\ pc = "decide" \/ result \in {"all", "dropped"} => Kind = "own"
  /\ result \in {"idle", "unreachable"} => Kind = "idle"
  /\ Kind # "idle" => back = 0

\* A transaction is in one block, and those of the blocks read are not awaited.
OwnInv ==
  Kind = "own" =>
    /\ \A i, j \in 1..Len(blocks) : i # j => blocks[i] \cap blocks[j] = {}
    /\ remaining = Cardinality(Own \ Seen)
    /\ result = "all" => remaining <= 0

\* No block read after quietSince carries ours, and quietSince starts at the first head.
QuietInv ==
  Kind = "own" =>
    /\ firstHead < 0 => next = 1 /\ h = 0 /\ quietSince < 0 /\ pc \notin {"read", "decide"}
    /\ firstHead <= quietSince
    /\ \A i \in 1..(next - 1) : i > quietSince => blocks[i] = {} \/ i \in skipped
    /\ result = "dropped" => firstHead >= 0 /\ next - 1 - quietSince >= IdleBlocks

\* The blocks the idle check has been over are empty.
IdleInv ==
  /\ pc = "read" \/ result = "idle" => \A i \in (h - back + 1)..h : blocks[i] = {}
  /\ result = "idle" => back = IdleBlocks

\* The time since the last new head is time without a block, unless one came that
\* was not polled yet; of WaitForTxs only if calls take no time.
Prompt == Kind = "own" => case[2] \subseteq {"endless"}

StillInv ==
  Prompt =>
    /\ lastHead = Len(blocks) => stillFor >= since
    /\ pc = "halt" \/ (Kind = "own" /\ pc \in {"read", "decide"}) => stillest >= since
    /\ result = "halt" => stillest >= HaltAfter
    /\ result = "unreachable" => stillFor >= HaltAfter \/ lastHead < Len(blocks)

\* A node that is not ready has been so since the last tick, and so has one that was
\* found not ready.
ReadyInv ==
  /\ ~Ready => readyFor = 0
  /\ (pc = "late" \/ result = "timeout") /\ ~Failing /\ ~Slow => readyFor = 0

IInv ==
  TypeOK /\ LoopInv /\ OwnInv /\ QuietInv /\ IdleInv /\ StillInv /\ ReadyInv

-----------------------------------------------------------------------------
(* Steps.                                                                  *)

\* No step changes the loop or its surroundings.
LEMMA CaseStays ==
  ASSUME [Next]_vars
  PROVE  UNCHANGED <<case, Kind, Failing, Slow, Lagging, Endless, Prompt>>
<1>1. UNCHANGED case
  BY Zenon DEF Next, Loop, Probe, CheckDeadline, PollIdle, PollIdleFails, ReadBack, CutShort, Idle,
     PollOwn, PollOwnFails, ReadBlock, Scanned, ReadNull, ReadFails, Decide, CheckHalt, PauseOver,
     PauseCanceled, Cancel, Tick, Mine, Listen, vars
<1> QED
  BY <1>1 DEF Kind, Failing, Slow, Lagging, Endless, Prompt

\* Each loop reports what is its to report.
LEMMA LoopStep == TypeOK /\ LoopInv /\ [Next]_vars => LoopInv'
<1> SUFFICES ASSUME TypeOK, LoopInv, [Next]_vars PROVE LoopInv'
  OBVIOUS
<1> USE DEF TypeOK, LoopInv
<1>0. UNCHANGED <<Kind, Failing, Slow, Lagging, Endless>>
  BY CaseStays
<1>1. CASE Probe
  BY <1>0, <1>1 DEF Probe, Return
<1>2. CASE CheckDeadline
  BY <1>0, <1>2 DEF CheckDeadline, UpOr, Return
<1>3. CASE PollIdle
  BY <1>0, <1>3 DEF PollIdle
<1>4. CASE PollIdleFails
  BY <1>0, <1>4 DEF PollIdleFails, UpOr, Return
<1>5. CASE ReadBack
  BY <1>0, <1>5 DEF ReadBack, Target
<1>6. CASE CutShort \/ PollOwnFails \/ ReadFails \/ PauseOver
  BY <1>0, <1>6 DEF CutShort, Target, PollOwnFails, ReadFails, PauseOver
<1>7. CASE Idle
  BY <1>0, <1>7 DEF Idle, Return
<1>8. CASE PollOwn
  BY <1>0, <1>8 DEF PollOwn, Reported, Grown
<1>9. CASE Decide
  BY <1>0, <1>9 DEF Decide, Return
<1>10. CASE CheckHalt
  BY <1>0, <1>10 DEF CheckHalt, UpOr, Return
<1>11. CASE PauseCanceled
  BY <1>0, <1>11 DEF PauseCanceled, Return
<1>12. CASE Cancel
  BY <1>0, <1>12 DEF Cancel
<1>13. CASE ReadBlock \/ ReadNull \/ Tick \/ Mine \/ Listen \/ UNCHANGED vars
  <2>1. UNCHANGED <<pc, back, canceled, result>>
    BY <1>13, Zenon DEF ReadBlock, Scanned, ReadNull, Tick, OneMore, Calling, Target, Mine,
       Listen, vars, ownVars, chainVars, history
  <2> QED
    BY <1>0, <2>1
<1> QED
  BY <1>1, <1>2, <1>3, <1>4, <1>5, <1>6, <1>7, <1>8, <1>9, <1>10, <1>11, <1>12, <1>13 DEF Next,
     Loop

\* The counters are integers, and heights lie within the chain.
LEMMA Counters ==
  ASSUME TypeOK
  PROVE  /\ Len(blocks) \in Nat /\ h \in 0..Len(blocks) /\ next \in 1..(Len(blocks) + 1)
         /\ back \in 0..IdleBlocks /\ back <= h
         /\ quietSince \in Int /\ firstHead \in Int /\ lastHead \in Int /\ lastHead <= Len(blocks)
         /\ since \in 0..HaltAfter /\ stillFor \in 0..HaltAfter /\ stillest \in 0..HaltAfter
         /\ readyFor \in 0..HaltAfter
BY DEF TypeOK

\* A block is added at the head: the others stay, and of the run's transactions it takes
\* only ones that are in no block.
LEMMA MineAppends ==
  ASSUME TypeOK, Mine
  PROVE  /\ blocks' \in Seq(SUBSET Own)
         /\ Len(blocks') = Len(blocks) + 1
         /\ \A i \in 1..Len(blocks) : blocks'[i] = blocks[i]
         /\ Kind = "own" => \A i \in 1..Len(blocks) : blocks'[Len(blocks')] \cap blocks[i] = {}
<1>1. PICK S \in SUBSET Own : /\ blocks' = Append(blocks, S)
                              /\ Kind = "own" => S \subseteq Own \ Included
  BY DEF Mine
<1>2. Kind = "own" => \A i \in 1..Len(blocks) : S \cap blocks[i] = {}
  BY <1>1 DEF Included
<1> QED
  BY <1>1, <1>2 DEF TypeOK

\* Reading a block the first time takes its transactions out of what remains.
LEMMA ReadBlockCounts ==
  ASSUME TypeOK, OwnInv, Kind = "own", ReadBlock
  PROVE  /\ remaining' = Cardinality(Own \ Seen')
         /\ remaining' \in 0..remaining
<1> DEFINE B == blocks[next]
<1>1. /\ next \in 1..Len(blocks) /\ next' = next + 1
      /\ UNCHANGED <<blocks, skipped>>
      /\ remaining' = remaining - Cardinality(B)
  BY DEF TypeOK, ReadBlock, Scanned, chainVars
<1>2. B \subseteq Own
  BY <1>1 DEF TypeOK
<1>3. Seen' = Seen \cup B
  <2>1. (1..(next' - 1)) \ skipped' = ((1..(next - 1)) \ skipped) \cup {next}
    BY <1>1 DEF TypeOK
  <2> QED
    BY <1>1, <2>1 DEF Seen
<1>4. B \cap Seen = {}
  <2> SUFFICES ASSUME NEW i \in 1..(next - 1) PROVE B \cap blocks[i] = {}
    BY DEF Seen
  <2>1. i \in 1..Len(blocks) /\ i # next
    BY <1>1 DEF TypeOK
  <2> QED
    BY <1>1, <2>1 DEF OwnInv
<1>5. IsFiniteSet(Own \ Seen) /\ (Own \ Seen) \cap B = B
  <2>1. IsFiniteSet(Own \ Seen)
    BY FS_Difference, WaitAssumption
  <2> QED
    BY <1>2, <1>4, <2>1
<1>6. /\ Cardinality((Own \ Seen) \ B) = Cardinality(Own \ Seen) - Cardinality(B)
      /\ IsFiniteSet((Own \ Seen) \ B) /\ IsFiniteSet(B)
  <2>1. IsFiniteSet(B)
    BY <1>2, FS_Subset, WaitAssumption
  <2> QED
    BY <1>5, <2>1, FS_Difference
<1>7. Own \ Seen' = (Own \ Seen) \ B
  BY <1>3
<1>8. Cardinality(B) \in Nat /\ Cardinality(Own \ Seen') \in Nat
  BY <1>6, <1>7, FS_CardinalityType
<1>9. remaining = Cardinality(Own \ Seen)
  BY Zenon DEF OwnInv
<1>10. remaining' = Cardinality(Own \ Seen')
  BY <1>1, <1>6, <1>7, <1>9
<1>11. remaining' = remaining - Cardinality(B) /\ remaining \in Nat
  BY <1>1 DEF TypeOK
<1> HIDE DEF B
<1> QED
  BY <1>8, <1>10, <1>11

\* No block is counted twice, and only a null answer is missed.
LEMMA OwnStep == TypeOK /\ LoopInv /\ OwnInv /\ [Next]_vars => OwnInv'
<1> SUFFICES ASSUME TypeOK, LoopInv, OwnInv, [Next]_vars PROVE OwnInv'
  OBVIOUS
<1>0. UNCHANGED <<Kind, Failing, Slow, Lagging, Endless>>
  BY CaseStays
<1>1. CASE Probe
  <2>1. UNCHANGED <<blocks, next, skipped, remaining, Seen>> /\ result' # "all"
    BY <1>1 DEF Probe, Return, LoopInv, ownVars, chainVars, Seen
  <2> QED
    BY <1>0, <2>1 DEF OwnInv
<1>2. CASE CheckDeadline
  <2>1. UNCHANGED <<blocks, next, skipped, remaining, Seen>> /\ result' # "all"
    BY <1>2 DEF CheckDeadline, UpOr, Return, LoopInv, ownVars, chainVars, Seen
  <2> QED
    BY <1>0, <2>1 DEF OwnInv
<1>3. CASE PollIdleFails
  <2>1. UNCHANGED <<blocks, next, skipped, remaining, Seen>> /\ result' # "all"
    BY <1>3 DEF PollIdleFails, UpOr, Return, LoopInv, ownVars, chainVars, Seen
  <2> QED
    BY <1>0, <2>1 DEF OwnInv
<1>4. CASE Idle
  <2>1. UNCHANGED <<blocks, next, skipped, remaining, Seen>> /\ result' # "all"
    BY <1>4 DEF Idle, Return, LoopInv, ownVars, chainVars, Seen
  <2> QED
    BY <1>0, <2>1 DEF OwnInv
<1>5. CASE ReadBlock
  <2>1. UNCHANGED <<blocks, result>> /\ result = "none"
    BY <1>5 DEF ReadBlock, Scanned, chainVars, LoopInv
  <2> QED
    BY <1>0, <1>5, <2>1, ReadBlockCounts DEF OwnInv
<1>6. CASE ReadNull
  <2>1. (1..(next' - 1)) \ skipped' = (1..(next - 1)) \ skipped
    BY <1>6 DEF TypeOK, ReadNull
  <2>2. UNCHANGED <<Seen, blocks, remaining, result>>
    BY <1>6, <2>1 DEF ReadNull, Seen, chainVars
  <2> QED
    BY <1>0, <2>2 DEF OwnInv
<1>7. CASE Decide
  <2>1. UNCHANGED <<blocks, next, skipped, remaining, Seen>>
    BY <1>7 DEF Decide, ownVars, chainVars, Seen
  <2>2. result' = "all" => remaining <= 0
    BY <1>7 DEF Decide, Return, LoopInv
  <2> QED
    BY <1>0, <2>1, <2>2 DEF OwnInv
<1>8. CASE CheckHalt
  <2>1. UNCHANGED <<blocks, next, skipped, remaining, Seen>> /\ result' # "all"
    BY <1>8 DEF CheckHalt, UpOr, Return, LoopInv, ownVars, chainVars, Seen
  <2> QED
    BY <1>0, <2>1 DEF OwnInv
<1>9. CASE PauseCanceled
  <2>1. UNCHANGED <<blocks, next, skipped, remaining, Seen>> /\ result' # "all"
    BY <1>9 DEF PauseCanceled, Return, LoopInv, ownVars, chainVars, Seen
  <2> QED
    BY <1>0, <2>1 DEF OwnInv
<1>10. CASE Mine
  <2>1. UNCHANGED <<next, skipped, remaining, result>>
    BY <1>10, Zenon DEF Mine, ownVars
  <2>2. Seen' = Seen
    <3>1. (1..(next - 1)) \ skipped \subseteq 1..Len(blocks)
      BY DEF TypeOK
    <3>2. \A i \in (1..(next - 1)) \ skipped : blocks'[i] = blocks[i]
      BY <1>10, <3>1, MineAppends
    <3> QED
      BY <2>1, <3>2 DEF Seen
  <2>3. SUFFICES ASSUME NEW i \in 1..Len(blocks'), NEW j \in 1..Len(blocks'), i # j, Kind = "own"
               PROVE  blocks'[i] \cap blocks'[j] = {}
    BY <1>0, <2>1, <2>2 DEF OwnInv
  <2>4. CASE i \in 1..Len(blocks) /\ j \in 1..Len(blocks)
    BY <1>10, <2>3, <2>4, MineAppends DEF OwnInv
  <2>5. Len(blocks) \in Nat
    BY DEF TypeOK
  <2>6. CASE i = Len(blocks')
    <3>1. j \in 1..Len(blocks)
      BY <1>10, <2>3, <2>5, <2>6, MineAppends
    <3> QED
      BY <1>10, <2>3, <2>6, <3>1, MineAppends
  <2>7. CASE j = Len(blocks')
    <3>1. i \in 1..Len(blocks)
      BY <1>10, <2>3, <2>5, <2>7, MineAppends
    <3> QED
      BY <1>10, <2>3, <2>7, <3>1, MineAppends
  <2> QED
    BY <1>10, <2>4, <2>5, <2>6, <2>7, MineAppends
<1>11. CASE PollIdle \/ ReadBack \/ CutShort \/ PollOwn \/ PollOwnFails \/ ReadFails \/
   PauseOver \/ Cancel \/ Tick \/ Listen \/ UNCHANGED vars
  <2>1. UNCHANGED <<next, remaining, skipped, result, blocks>>
    BY <1>11, Zenon DEF PollIdle, ReadBack, Target, CutShort, PollOwn, Reported, Grown,
       PollOwnFails, ReadFails, PauseOver, Cancel, Tick, OneMore, Calling, Listen, vars,
       ownVars, chainVars, history
  <2> QED
    BY <1>0, <2>1 DEF OwnInv, Seen
<1> QED
  BY <1>1, <1>2, <1>3, <1>4, <1>5, <1>6, <1>7, <1>8, <1>9, <1>10, <1>11 DEF Next, Loop

\* quietSince is the last block read that carries ours, or the first head.
LEMMA QuietStep == TypeOK /\ LoopInv /\ QuietInv /\ [Next]_vars => QuietInv'
<1> SUFFICES ASSUME TypeOK, LoopInv, QuietInv, [Next]_vars PROVE QuietInv'
  OBVIOUS
<1>0. UNCHANGED <<Kind, Failing, Slow, Lagging, Endless>>
  BY CaseStays
<1>1. CASE Probe \/ CheckDeadline \/ PollIdleFails \/ CutShort \/ Idle \/ PollOwnFails \/
   ReadFails \/ CheckHalt \/ PauseOver \/ PauseCanceled
  BY <1>0, <1>1 DEF Probe, Return, LoopInv, QuietInv, ownVars, chainVars, CheckDeadline, UpOr,
     PollIdleFails, CutShort, Target, Idle, PollOwnFails, ReadFails, CheckHalt, PauseOver,
     PauseCanceled
<1>2. CASE PollIdle
  BY <1>0, <1>2 DEF PollIdle, LoopInv, QuietInv, ownVars, chainVars
<1>3. CASE ReadBack
  BY <1>0, <1>3 DEF ReadBack, Target, LoopInv, QuietInv, ownVars, chainVars
<1>4. CASE PollOwn
  <2>0. SUFFICES ASSUME Kind = "own" PROVE QuietInv'
    BY <1>0 DEF QuietInv
  <2>1. PICK n \in 0..Len(blocks) :
          /\ h' = n
          /\ quietSince' = IF quietSince < 0 THEN n ELSE quietSince
          /\ firstHead' = IF firstHead < 0 THEN n ELSE firstHead
    <3>1. Reported \subseteq 0..Len(blocks)
      BY Counters DEF Reported
    <3> QED
      BY <1>4, <3>1 DEF PollOwn
  <2>2. UNCHANGED <<next, blocks, skipped, result>> /\ pc' = "read" /\ result = "none"
    BY <1>4 DEF PollOwn, LoopInv, chainVars
  <2>3. quietSince \in Int /\ firstHead \in Int /\ n \in Nat /\ next \in Nat
    BY Counters
  <2>4. CASE firstHead < 0
    <3>1. quietSince < 0 /\ next = 1
      BY <2>0, <2>4 DEF QuietInv
    <3>2. firstHead' = n /\ quietSince' = n
      BY <2>1, <2>4, <3>1
    <3> QED
      BY <1>0, <2>0, <2>2, <2>3, <3>1, <3>2 DEF QuietInv
  <2>5. CASE firstHead >= 0
    <3>1. quietSince >= 0
      BY <2>0, <2>3, <2>5 DEF QuietInv
    <3>2. firstHead' = firstHead /\ quietSince' = quietSince
      BY <2>1, <2>3, <2>5, <3>1
    <3> QED
      BY <1>0, <2>0, <2>2, <2>3, <2>5, <3>2 DEF QuietInv
  <2> QED
    BY <2>3, <2>4, <2>5
<1>5. CASE ReadBlock
  <2>0. SUFFICES ASSUME Kind = "own" PROVE QuietInv'
    BY <1>0 DEF QuietInv
  <2>1. /\ UNCHANGED <<firstHead, h, pc, blocks, skipped, result>> /\ pc = "read" /\ result = "none"
        /\ next' = next + 1 /\ next <= h
        /\ quietSince' = IF blocks[next] # {} /\ next > quietSince THEN next ELSE quietSince
    BY <1>5 DEF ReadBlock, Scanned, LoopInv, chainVars
  <2>2. quietSince \in Int /\ firstHead \in Int /\ next \in Nat /\ h \in Nat
    BY Counters
  <2>3. quietSince' \in Int /\ quietSince' >= quietSince /\ (next > quietSince' => blocks[next] = {})
    BY <2>1, <2>2
  <2>4. \A i \in 1..next : i > quietSince' => blocks[i] = {} \/ i \in skipped
    BY <2>0, <2>2, <2>3 DEF QuietInv
  <2> QED
    BY <1>0, <2>0, <2>1, <2>2, <2>3, <2>4 DEF QuietInv
<1>6. CASE ReadNull
  <2>0. SUFFICES ASSUME Kind = "own" PROVE QuietInv'
    BY <1>0 DEF QuietInv
  <2>1. /\ UNCHANGED <<firstHead, h, pc, blocks, quietSince, result>>
        /\ next' = next + 1 /\ next <= h /\ skipped' = skipped \cup {next}
    BY <1>6 DEF ReadNull, chainVars
  <2>2. quietSince \in Int /\ firstHead \in Int /\ next \in Nat /\ h \in Nat
    BY Counters
  <2>3. \A i \in 1..next : i > quietSince => blocks[i] = {} \/ i \in skipped'
    BY <2>0, <2>1, <2>2 DEF QuietInv
  <2>4. result # "dropped"
    BY <1>6 DEF ReadNull, LoopInv
  <2> QED
    BY <1>0, <2>0, <2>1, <2>2, <2>3, <2>4 DEF QuietInv
<1>7. CASE Decide
  <2>1. UNCHANGED <<firstHead, next, h, quietSince, blocks, skipped>> /\ pc' \in {"done", "halt"}
    BY <1>7 DEF Decide, Return, ownVars, chainVars
  <2>2. result' = "dropped" => next - 1 - quietSince >= IdleBlocks
    BY <1>7 DEF Decide, Return, LoopInv
  <2>3. Kind = "own" /\ firstHead >= 0
    BY <1>7, Counters DEF Decide, QuietInv
  <2> QED
    BY <1>0, <2>1, <2>2, <2>3 DEF QuietInv
<1>8. CASE Mine
  <2>1. UNCHANGED <<firstHead, next, h, quietSince, pc, skipped, result>>
    BY <1>8, Zenon DEF Mine, ownVars
  <2>2. \A i \in 1..(next - 1) : blocks'[i] = blocks[i]
    BY <1>8, MineAppends DEF TypeOK
  <2> QED
    BY <1>0, <2>1, <2>2 DEF QuietInv
<1>9. CASE Cancel \/ Tick \/ Listen \/ UNCHANGED vars
  <2>1. UNCHANGED <<pc, h, next, quietSince, firstHead, skipped, result, blocks>>
    BY <1>9, Zenon DEF Cancel, Tick, OneMore, Calling, Target, Listen, vars, ownVars,
       chainVars, history
  <2> QED
    BY <1>0, <2>1 DEF LoopInv, QuietInv, ownVars, chainVars
<1> QED
  BY <1>1, <1>2, <1>3, <1>4, <1>5, <1>6, <1>7, <1>8, <1>9 DEF Next, Loop

\* The idle check goes back over the blocks below the head it polled.
LEMMA IdleStep == TypeOK /\ LoopInv /\ IdleInv /\ [Next]_vars => IdleInv'
<1> SUFFICES ASSUME TypeOK, LoopInv, IdleInv, [Next]_vars PROVE IdleInv'
  OBVIOUS
<1>1. CASE Probe \/ CheckDeadline \/ PollIdleFails \/ CutShort \/ Idle \/ PollOwnFails \/
   ReadFails \/ CheckHalt \/ PauseOver \/ PauseCanceled
  BY Counters, <1>1 DEF Probe, Return, LoopInv, IdleInv, ownVars, chainVars, CheckDeadline,
     UpOr, PollIdleFails, CutShort, Target, Idle, PollOwnFails, ReadFails, CheckHalt,
     PauseOver, PauseCanceled
<1>2. CASE PollIdle
  BY Counters, <1>2 DEF PollIdle, LoopInv, IdleInv, ownVars, chainVars
<1>3. CASE ReadBack
  <2>1. /\ h - back \in 1..Len(blocks) /\ UNCHANGED <<h, blocks, result>> /\ result = "none"
        /\ pc = "read" /\ h \in Nat /\ back \in Nat
    BY <1>3, Counters DEF ReadBack, Target, LoopInv, chainVars
  <2>2. CASE blocks[h - back] # {}
    BY <1>3, <2>1, <2>2 DEF ReadBack, Target, IdleInv
  <2>3. CASE blocks[h - back] = {}
    <3>1. back' = back + 1
      BY <1>3, <2>3 DEF ReadBack, Target
    <3>2. \A i \in (h - back)..h : i = h - back \/ i \in (h - back + 1)..h
      BY <2>1
    <3>3. h' - back' + 1 = h - back
      BY <2>1, <3>1
    <3> QED
      BY <2>1, <2>3, <3>2, <3>3 DEF IdleInv
  <2> QED
    BY <2>2, <2>3
<1>4. CASE PollOwn
  BY Counters, <1>4 DEF PollOwn, Reported, Grown, LoopInv, IdleInv, ownVars, chainVars
<1>5. CASE Decide
  BY Counters, <1>5 DEF Decide, Return, LoopInv, IdleInv, ownVars, chainVars
<1>6. CASE Mine
  <2>1. UNCHANGED <<pc, h, back, result>>
    BY <1>6, Zenon DEF Mine
  <2>2. \A i \in (h - back + 1)..h : blocks'[i] = blocks[i]
    BY <1>6, MineAppends DEF TypeOK
  <2> QED
    BY <2>1, <2>2 DEF IdleInv
<1>7. CASE ReadBlock \/ ReadNull \/ Cancel \/ Tick \/ Listen \/ UNCHANGED vars
  <2>1. UNCHANGED <<pc, h, back, result, blocks>>
    BY <1>7, Zenon DEF ReadBlock, Scanned, ReadNull, Cancel, Tick, OneMore, Calling, Target,
       Listen, vars, ownVars, chainVars, history
  <2> QED
    BY Counters, <2>1 DEF LoopInv, IdleInv, ownVars, chainVars
<1> QED
  BY <1>1, <1>2, <1>3, <1>4, <1>5, <1>6, <1>7 DEF Next, Loop

\* Time without a new head is time without a block.
LEMMA StillStep == TypeOK /\ LoopInv /\ StillInv /\ [Next]_vars => StillInv'
<1> SUFFICES ASSUME TypeOK, LoopInv, StillInv, [Next]_vars PROVE StillInv'
  OBVIOUS
<1>0. UNCHANGED <<Kind, Prompt>>
  BY CaseStays
<1>1. CASE Probe \/ CheckDeadline \/ CutShort \/ Idle \/ PauseOver \/ PauseCanceled
  BY <1>0, <1>1 DEF Probe, Return, LoopInv, StillInv, chainVars, history, CheckDeadline, UpOr,
     CutShort, Target, Idle, PauseOver, PauseCanceled
<1>2. CASE PollIdle
  <2>1. stillest' = stillFor /\ UNCHANGED <<blocks, stillFor, result>> /\ result = "none"
    BY <1>2 DEF PollIdle, LoopInv, chainVars
  <2>2. Kind = "idle" /\ Prompt
    BY <1>2 DEF PollIdle, Prompt
  <2>3. CASE Len(blocks) > lastHead
    <3>1. lastHead' = Len(blocks) /\ since' = 0 /\ pc' = "read"
      BY <1>2, <2>3 DEF PollIdle
    <3> QED
      BY <1>0, <2>1, <2>2, <3>1, Counters DEF StillInv
  <2>4. CASE lastHead = Len(blocks)
    <3>1. UNCHANGED <<lastHead, since>>
      BY <1>2, <2>4, Counters DEF PollIdle
    <3> QED
      BY <1>0, <2>1, <2>2, <2>4, <3>1 DEF StillInv
  <2> QED
    BY <2>3, <2>4, Counters
<1>3. CASE PollIdleFails
  <2>1. UNCHANGED <<lastHead, since, blocks, stillFor, stillest>> /\ pc' \in {"pause", "done"}
    BY <1>3 DEF PollIdleFails, UpOr, Return, chainVars, history
  <2>2. result' = "unreachable" => since >= HaltAfter
    BY <1>3 DEF PollIdleFails, UpOr, Return, LoopInv
  <2>3. result' \in {"none", "unreachable"}
    BY <1>3 DEF PollIdleFails, UpOr, Return, LoopInv
  <2> QED
    BY <1>0, <2>1, <2>2, <2>3, Counters, WaitAssumption DEF StillInv
<1>4. CASE ReadBack
  BY <1>0, <1>4 DEF ReadBack, Target, LoopInv, StillInv, chainVars, history
<1>5. CASE PollOwn
  <2>0. SUFFICES ASSUME Prompt PROVE StillInv'
    BY <1>0 DEF StillInv
  <2>1. Reported = {Len(blocks)}
    BY <1>5, <2>0 DEF PollOwn, Prompt, Reported, Lagging
  <2>2. /\ lastHead' = IF Len(blocks) > lastHead THEN Len(blocks) ELSE lastHead
        /\ since' = IF Grown(Len(blocks)) THEN 0 ELSE since
        /\ stillest' = stillFor /\ pc' = "read" /\ UNCHANGED <<blocks, stillFor, result>>
        /\ result = "none"
    BY <1>5, <2>1 DEF PollOwn, LoopInv, chainVars
  <2>3. lastHead' = Len(blocks)
    BY <2>2, Counters
  <2>4. stillFor >= since'
    BY <2>0, <2>2, Counters DEF Grown, StillInv
  <2> QED
    BY <1>0, <2>2, <2>3, <2>4 DEF StillInv
<1>6. CASE PollOwnFails
  <2>1. ~Prompt
    BY <1>6 DEF PollOwnFails, Prompt, Failing, LoopInv
  <2> QED
    BY <1>0, <2>1 DEF StillInv
<1>7. CASE ReadFails
  <2>1. ~Prompt
    BY <1>7 DEF ReadFails, Prompt, Failing, LoopInv
  <2> QED
    BY <1>0, <2>1 DEF StillInv
<1>8. CASE Decide
  BY <1>0, <1>8 DEF Decide, Return, LoopInv, StillInv, chainVars, history
<1>9. CASE CheckHalt
  <2>1. UNCHANGED <<lastHead, since, blocks, stillFor, stillest>> /\ pc' \in {"pause", "done"}
    BY <1>9 DEF CheckHalt, UpOr, Return, chainVars, history
  <2>2. result' = "halt" => since >= HaltAfter
    BY <1>9 DEF CheckHalt, UpOr, Return, LoopInv
  <2>3. result' \in {"none", "halt"} /\ pc = "halt"
    BY <1>9 DEF CheckHalt, UpOr, Return, LoopInv
  <2> QED
    BY <1>0, <2>1, <2>2, <2>3, Counters, WaitAssumption DEF StillInv
<1>10. CASE Tick
  <2>1. UNCHANGED <<lastHead, blocks, pc, result>> /\ pc \in {"pause", "poll", "read"}
    BY <1>10 DEF Tick, Calling, chainVars
  <2>2. /\ stillFor >= since => stillFor' >= since'
        /\ stillest' >= stillest
    <3>1. /\ since \in 0..HaltAfter /\ stillFor \in 0..HaltAfter /\ stillest \in 0..HaltAfter
          /\ HaltAfter \in Nat
      BY Counters, WaitAssumption
    <3>2. /\ since' = OneMore(since) /\ stillFor' = OneMore(stillFor)
          /\ stillest' = IF stillFor' > stillest THEN stillFor' ELSE stillest
      BY <1>10 DEF Tick
    <3> QED
      BY <3>1, <3>2 DEF OneMore
  <2>3. result = "none"
    BY <2>1 DEF LoopInv
  <2>4. Prompt /\ Kind = "own" => pc # "read"
    BY <1>10, <2>1 DEF Tick, Calling, Prompt, Slow
  <2> QED
    BY <1>0, <2>1, <2>2, <2>3, <2>4, Counters DEF StillInv, LoopInv
<1>11. CASE Mine
  <2>1. UNCHANGED <<lastHead, since, pc, result, stillest>> /\ result = "none"
    BY <1>11 DEF Mine, LoopInv
  <2>2. lastHead' # Len(blocks')
    BY <1>11, <2>1, MineAppends, Counters
  <2> QED
    BY <1>0, <2>1, <2>2 DEF StillInv
<1>12. CASE ReadBlock \/ ReadNull \/ Cancel \/ Listen \/ UNCHANGED vars
  <2>1. UNCHANGED <<pc, lastHead, since, result, blocks, stillFor, stillest>>
    BY <1>12, Zenon DEF ReadBlock, Scanned, ReadNull, Cancel, Listen, vars, ownVars, chainVars,
       history
  <2> QED
    BY <1>0, <2>1 DEF LoopInv, StillInv, chainVars, history
<1> QED
  BY <1>1, <1>2, <1>3, <1>4, <1>5, <1>6, <1>7, <1>8, <1>9, <1>10, <1>11, <1>12 DEF Next, Loop

\* A node not ready is not counted as ready.
LEMMA ReadyStep == TypeOK /\ LoopInv /\ ReadyInv /\ [Next]_vars => ReadyInv'
<1> SUFFICES ASSUME TypeOK, LoopInv, ReadyInv, [Next]_vars PROVE ReadyInv'
  OBVIOUS
<1>0. UNCHANGED <<Kind, Failing, Slow>>
  BY CaseStays
<1>1. CASE Probe
  <2>1. UNCHANGED <<readyFor, blocks, listening>> /\ result' # "timeout"
    BY <1>1 DEF Probe, Return, LoopInv, chainVars, history
  <2>2. pc' = "late" /\ ~Failing => ~Ready
    BY <1>1 DEF Probe, Return, LoopInv
  <2>3. Ready' = Ready
    BY <1>0, <2>1 DEF Ready
  <2> QED
    BY <1>0, <2>1, <2>2, <2>3 DEF ReadyInv
<1>2. CASE CheckDeadline
  BY <1>0, <1>2 DEF CheckDeadline, UpOr, Return, LoopInv, ReadyInv, Ready, chainVars, history
<1>3. CASE PollIdle \/ ReadBack \/ CutShort \/ PollOwn \/ PollOwnFails \/ ReadFails \/
   PauseOver
  BY <1>0, <1>3 DEF PollIdle, LoopInv, ReadyInv, Ready, chainVars, history, ReadBack, Target,
     CutShort, PollOwn, Reported, Grown, PollOwnFails, ReadFails, PauseOver
<1>4. CASE PollIdleFails \/ Idle \/ Decide \/ CheckHalt \/ PauseCanceled
  BY <1>0, <1>4 DEF PollIdleFails, UpOr, Return, LoopInv, ReadyInv, Ready, chainVars, history,
     Idle, Decide, CheckHalt, PauseCanceled
<1>5. CASE Tick
  <2>1. UNCHANGED <<blocks, listening>> /\ pc' # "late" /\ result' # "timeout"
    BY <1>5 DEF Tick, Calling, LoopInv, chainVars
  <2>2. Ready' = Ready
    BY <1>0, <2>1 DEF Ready
  <2>3. ~Ready => readyFor' = 0
    BY <1>5 DEF Tick
  <2> QED
    BY <2>1, <2>2, <2>3 DEF ReadyInv
<1>6. CASE Mine
  <2>1. UNCHANGED <<pc, result, readyFor, listening>> /\ Kind # "port"
    BY <1>6, Zenon DEF Mine
  <2>2. Ready => Ready'
    BY <1>0, <2>1, <1>6, MineAppends, Counters, WaitAssumption DEF Ready
  <2> QED
    BY <1>0, <2>1, <2>2 DEF ReadyInv
<1>7. CASE Listen
  <2>1. readyFor' = 0
    BY <1>7 DEF Listen
  <2> QED
    BY <2>1 DEF ReadyInv
<1>8. CASE ReadBlock \/ ReadNull \/ Cancel \/ UNCHANGED vars
  <2>1. UNCHANGED <<pc, result, blocks, listening, readyFor>>
    BY <1>8, Zenon DEF ReadBlock, Scanned, ReadNull, Cancel, vars, ownVars, chainVars, history
  <2> QED
    BY <1>0, <2>1 DEF LoopInv, ReadyInv, Ready, chainVars, history
<1> QED
  BY <1>1, <1>2, <1>3, <1>4, <1>5, <1>6, <1>7, <1>8 DEF Next, Loop

\* Every step keeps the types.
LEMMA TypeStep == TypeOK /\ LoopInv /\ OwnInv /\ [Next]_vars => TypeOK'
<1> SUFFICES ASSUME TypeOK, LoopInv, OwnInv, [Next]_vars PROVE TypeOK'
  OBVIOUS
<1>1. CASE Probe \/ CheckDeadline \/ PollIdleFails \/ CutShort \/ Idle \/ PollOwnFails \/
   ReadFails \/ Decide \/ CheckHalt \/ PauseOver \/ PauseCanceled
  BY WaitAssumption, <1>1 DEF Probe, Return, TypeOK, ownVars, chainVars, history,
     CheckDeadline, UpOr, PollIdleFails, CutShort, Target, Idle, PollOwnFails, ReadFails,
     Decide, CheckHalt, PauseOver, PauseCanceled
<1>2. CASE PollIdle
  BY WaitAssumption, <1>2 DEF PollIdle, TypeOK, ownVars, chainVars, history
<1>3. CASE ReadBack
  BY WaitAssumption, <1>3 DEF ReadBack, Target, TypeOK, ownVars, chainVars, history
<1>4. CASE PollOwn
  <2>1. PICK n \in 0..Len(blocks) :
          /\ h' = n
          /\ quietSince' = IF quietSince < 0 THEN n ELSE quietSince
          /\ firstHead' = IF firstHead < 0 THEN n ELSE firstHead
          /\ lastHead' = IF n > lastHead THEN n ELSE lastHead
          /\ since' = IF Grown(n) THEN 0 ELSE since
    <3>1. Reported \subseteq 0..Len(blocks)
      BY Counters DEF Reported
    <3> QED
      BY <1>4, <3>1 DEF PollOwn
  <2>2. back = 0 /\ pc' = "read" /\ stillest' = stillFor
    BY <1>4 DEF PollOwn, LoopInv
  <2>3. UNCHANGED <<case, next, remaining, back, canceled, result, blocks, listening, stillFor,
                  readyFor, skipped>>
    BY <1>4, Zenon DEF PollOwn, chainVars
  <2> QED
    BY <2>1, <2>2, <2>3, WaitAssumption DEF TypeOK
<1>5. CASE ReadBlock
  <2>1. remaining' \in 0..Cardinality(Own)
    <3>1. Kind = "own"
      BY <1>5, Zenon DEF ReadBlock, Scanned
    <3>2. remaining' \in 0..remaining
      BY <1>5, <3>1, ReadBlockCounts
    <3> QED
      BY <3>2, FS_CardinalityType, WaitAssumption DEF TypeOK
  <2>2. next' \in 1..(Len(blocks) + 1) /\ quietSince' \in -1..Len(blocks) /\ next' = next + 1
    BY <1>5 DEF ReadBlock, Scanned, TypeOK
  <2> QED
    BY <1>5, <2>1, <2>2 DEF ReadBlock, Scanned, TypeOK, chainVars, history
<1>6. CASE ReadNull
  BY WaitAssumption, <1>6 DEF ReadNull, TypeOK, ownVars, chainVars, history
<1>7. CASE Cancel
  BY WaitAssumption, <1>7 DEF Cancel, TypeOK, ownVars, chainVars, history
<1>8. CASE Tick
  BY WaitAssumption, <1>8 DEF Tick, OneMore, Calling, Target, TypeOK, ownVars, chainVars,
     history
<1>9. CASE Mine
  <2>1. blocks' \in Seq(SUBSET Own) /\ Len(blocks') = Len(blocks) + 1 /\ Len(blocks) \in Nat
    BY <1>9, MineAppends, Counters
  <2> QED
    BY <1>9, <2>1, WaitAssumption DEF Mine, TypeOK, ownVars
<1>10. CASE Listen
  BY WaitAssumption, <1>10 DEF Listen, TypeOK, ownVars, chainVars, history
<1>11. CASE UNCHANGED vars
  <2>1. UNCHANGED <<case, pc, h, next, remaining, quietSince, firstHead, skipped, back, lastHead, since, canceled, result, blocks, listening, stillFor, stillest, readyFor>>
    BY <1>11, Zenon DEF vars, ownVars, chainVars, history
  <2> QED
    BY WaitAssumption, <2>1 DEF TypeOK, ownVars, chainVars, history
<1> QED
  BY <1>1, <1>2, <1>3, <1>4, <1>5, <1>6, <1>7, <1>8, <1>9, <1>10, <1>11 DEF Next, Loop

-----------------------------------------------------------------------------
(* Theorems.                                                               *)

\* IInv holds initially, and every step preserves it.
LEMMA Inductive == Spec => []IInv
<1>1. Init => IInv
  <2> SUFFICES ASSUME Init PROVE IInv
    OBVIOUS
  <2>1. blocks \in Seq(SUBSET Own) /\ Len(blocks) \in Nat /\ (Kind # "idle" => Len(blocks) = 0)
    BY WaitAssumption DEF Init
  <2>2. Cardinality(Own) \in Nat /\ Own \ Seen = Own
    BY FS_CardinalityType, WaitAssumption DEF Init, Seen
  <2>3. TypeOK
    <3>1. /\ case \in Cases /\ h = 0 /\ next = 1 /\ back = 0 /\ quietSince = -1 /\ firstHead = -1
          /\ lastHead \in {-1, 0} /\ since = 0 /\ stillFor = 0 /\ stillest = 0 /\ readyFor = 0
          /\ pc = "poll" /\ result = "none" /\ skipped = {} /\ remaining = Cardinality(Own)
      BY DEF Init
    <3>2. canceled \in BOOLEAN /\ listening \in BOOLEAN
      BY Zenon DEF Init
    <3> QED
      BY <2>1, <2>2, <3>1, <3>2, WaitAssumption DEF TypeOK
  <2>4. LoopInv /\ IdleInv
    BY DEF Init, LoopInv, IdleInv
  <2>5. OwnInv
    <3>1. remaining = Cardinality(Own \ Seen) /\ result = "none"
      BY <2>2, Zenon DEF Init
    <3> QED
      BY <2>1, <3>1 DEF OwnInv
  <2>6. QuietInv
    BY DEF Init, QuietInv
  <2>7. StillInv /\ ReadyInv
    BY DEF Init, StillInv, ReadyInv
  <2> QED
    BY <2>3, <2>4, <2>5, <2>6, <2>7 DEF IInv
<1>2. IInv /\ [Next]_vars => IInv'
  BY TypeStep, LoopStep, OwnStep, QuietStep, IdleStep, StillStep, ReadyStep DEF IInv
<1> QED
  BY <1>1, <1>2, PTL DEF Spec

\* WaitForTxs counts every block it reads once, however often a round is cut short, so
\* it reports all included only when every one of the run's transactions is in a block.
THEOREM CountIsExact == Spec => []RemainingExact
<1>1. IInv => RemainingExact
  <2> SUFFICES ASSUME IInv PROVE RemainingExact
    OBVIOUS
  <2>1. ASSUME result = "all" PROVE Own \subseteq Included
    <3>1. IsFiniteSet(Own \ Seen) /\ Cardinality(Own \ Seen) \in Nat
      BY FS_Difference, FS_CardinalityType, WaitAssumption
    <3>2. Cardinality(Own \ Seen) <= 0
      BY <2>1 DEF IInv, LoopInv, OwnInv
    <3>3. Own \ Seen = {}
      BY <3>1, <3>2, FS_EmptySet
    <3>4. Seen \subseteq Included
      BY DEF IInv, TypeOK, Seen, Included
    <3> QED
      BY <3>3, <3>4
  <2> QED
    BY <2>1 DEF IInv, OwnInv, RemainingExact
<1> QED
  BY <1>1, Inductive, PTL

\* WaitForTxs gives the rest up only after idleBlocks blocks in a row, read after the
\* first head, that carry none of the run's transactions or were answered with null.
THEOREM DroppedIsQuiet == Spec => []DroppedMeansQuiet
<1>1. IInv => DroppedMeansQuiet
  <2> SUFFICES ASSUME IInv, result = "dropped" PROVE DroppedMeansQuiet
    BY DEF DroppedMeansQuiet
  <2>1. /\ quietSince \in Int /\ firstHead \in Int /\ next \in Nat /\ IdleBlocks \in Nat
        /\ firstHead >= 0 /\ firstHead <= quietSince /\ next - 1 - quietSince >= IdleBlocks
    BY Counters, WaitAssumption DEF IInv, LoopInv, QuietInv
  <2>2. ASSUME NEW i \in (next - IdleBlocks)..(next - 1) PROVE i \in 1..(next - 1) /\ i > quietSince
    BY <2>1
  <2> QED
    BY <2>1, <2>2 DEF IInv, LoopInv, QuietInv, DroppedMeansQuiet
<1> QED
  BY <1>1, Inductive, PTL

\* What the loops report is true: idle of idleBlocks empty blocks below the newest head
\* polled, a halt of a chain that stood still, unreachable of a node that answered no
\* poll since the chain grew or stands still as well, a timeout of a node not ready.
THEOREM VerdictsAreTrue == Spec => []VerdictTrue
<1>1. IInv => VerdictTrue
  <2> SUFFICES ASSUME IInv PROVE VerdictTrue
    OBVIOUS
  <2>1. IdleMeansEmpty
    BY Counters DEF IInv, IdleInv, IdleMeansEmpty
  <2>2. HaltMeansStalled
    BY DEF IInv, LoopInv, StillInv, Prompt, HaltMeansStalled
  <2>3. UnreachableMeansStuck
    BY DEF IInv, LoopInv, StillInv, Prompt, UnreachableMeansStuck
  <2>4. TimeoutMeansNotReady
    BY DEF IInv, ReadyInv, TimeoutMeansNotReady
  <2> QED
    BY <2>1, <2>2, <2>3, <2>4 DEF VerdictTrue
<1> QED
  BY <1>1, Inductive, PTL
==============================================================================
