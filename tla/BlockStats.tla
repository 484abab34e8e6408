----------------------------- MODULE BlockStats -----------------------------
(***************************************************************************)
(* DumpBlockStats of internal/bench/stats.go: read the run's blocks in     *)
(* parallel, each with a few retries, and turn them into rates per whole   *)
(* second of block time.                                                   *)
(*                                                                         *)
(* Rates are kept as exact fractions: transactions over seconds.  Block    *)
(* timestamps never decrease, which the code relies on.                    *)
(***************************************************************************)
EXTENDS Integers, Sequences, FiniteSets, FiniteSetsExt

CONSTANTS
  NumBlocks,   \* startHeight..endHeight, counted from 1
  Seconds,     \* the timestamps a block may have
  TxCounts,    \* how many of the run's transactions a block may carry
  Retries      \* retries of fetchBlockPoint, 8 in the code

Heights == 1..NumBlocks

ASSUME StatsAssumption ==
  /\ NumBlocks \in Nat
  /\ Seconds \subseteq Nat /\ IsFiniteSet(Seconds) /\ Seconds # {}
  /\ TxCounts \subseteq Nat
  /\ Retries \in Nat \ {0}

VARIABLES
  pc,
  attempt,   \* per height: failed reads so far, 0 once it is settled
  fetched,   \* per height: todo, read or skipped
  canceled,  \* ctx is done
  sendEnd,   \* the second in which the sender finished
  chain      \* per height: its second and transaction count (environment)

vars == <<pc, attempt, fetched, canceled, sendEnd, chain>>

\* The variables have their types, and no block is tried more than retries times.
TypeOK ==
  /\ pc \in {"fetch", "done", "canceled"}
  /\ attempt \in [Heights -> 0..(Retries - 1)]
  /\ fetched \in [Heights -> {"todo", "read", "skipped"}]
  /\ canceled \in BOOLEAN
  /\ sendEnd \in Seconds
  /\ chain \in [Heights -> [at : Seconds, txs : TxCounts]]

Init ==
  /\ pc = "fetch"
  /\ attempt = [h \in Heights |-> 0]
  /\ fetched = [h \in Heights |-> "todo"]
  /\ canceled = FALSE
  /\ sendEnd \in Seconds
  /\ chain \in [Heights -> [at : Seconds, txs : TxCounts]]
  /\ \A g, h \in Heights : g < h => chain[g].at <= chain[h].at

-----------------------------------------------------------------------------
(* Reading the blocks.                                                     *)

Settle(h, how) ==
  /\ fetched' = [fetched EXCEPT ![h] = how]
  /\ attempt' = [attempt EXCEPT ![h] = 0]

\* A block that is not there yet is answered null, whose timestamp does not
\* parse: it counts as a failed read.
Fetch(h) ==
  /\ pc = "fetch"
  /\ fetched[h] = "todo"
  /\ ~canceled
  /\ Settle(h, "read")
  /\ UNCHANGED <<pc, canceled, sendEnd, chain>>

FetchFails(h) ==
  /\ pc = "fetch"
  /\ fetched[h] = "todo"
  /\ IF attempt[h] + 1 = Retries THEN Settle(h, "skipped")
     ELSE attempt' = [attempt EXCEPT ![h] = @ + 1] /\ UNCHANGED fetched
  /\ UNCHANGED <<pc, canceled, sendEnd, chain>>

\* The context ends between two tries.
FetchCanceled(h) ==
  /\ pc = "fetch"
  /\ fetched[h] = "todo"
  /\ attempt[h] > 0
  /\ canceled
  /\ Settle(h, "skipped")
  /\ UNCHANGED <<pc, canceled, sendEnd, chain>>

\* fetches.Wait(), and the summary unless the context has ended.
Dump ==
  /\ pc = "fetch"
  /\ \A h \in Heights : fetched[h] # "todo"
  /\ pc' = IF canceled THEN "canceled" ELSE "done"
  /\ UNCHANGED <<attempt, fetched, canceled, sendEnd, chain>>

Cancel ==
  /\ pc = "fetch"
  /\ ~canceled
  /\ canceled' = TRUE
  /\ UNCHANGED <<pc, attempt, fetched, sendEnd, chain>>

Reading == \E h \in Heights : Fetch(h) \/ FetchFails(h) \/ FetchCanceled(h)

Next == Reading \/ Dump \/ Cancel

Spec == Init /\ [][Next]_vars /\ WF_vars(Reading) /\ WF_vars(Dump)

-----------------------------------------------------------------------------
(* The summary, from the heights that could be read.                       *)

Read == {h \in Heights : fetched[h] = "read"}

TxsOf(H) == MapThenSumSet(LAMBDA h : chain[h].txs, H)

IncludedTxs == TxsOf(Read)

Loaded(H) == {h \in H : chain[h].txs > 0}

\* The blocks from the first to the last that carried transactions.
Window(H) == {h \in H : Min(Loaded(H)) <= h /\ h <= Max(Loaded(H))}

Start(H) == chain[Min(Loaded(H))].at
End(H) == chain[Max(Loaded(H))].at

\* Fault: the second after the load ends the last block, whatever follows.
AfterEndIgnoresRest(H) == End(H) + 1

\* When the block after the window's last second came, if one did.
AfterEnd(H) ==
  LET later == {h \in H : h > Max(Loaded(H)) /\ chain[h].at > End(H)} IN
  IF later = {} THEN End(H) + 1 ELSE chain[Min(later)].at

\* Fault: the slice of the window stops before the last loaded block.
BlocksBeforeLast(H, t) == {h \in Window(H) : h < Max(Loaded(H)) /\ chain[h].at = t}

\* The window's blocks of second t.
BlocksAt(H, t) == {h \in Window(H) : chain[h].at = t}

\* bucketTPS: one bucket per second of the window; span is the seconds until the
\* next block, 0 for a second without one.  The rate is txs / span.
BucketTPS(H) ==
  IF Loaded(H) = {} THEN <<>>
  ELSE [i \in 1..(End(H) - Start(H) + 1) |->
          LET t == Start(H) + i - 1
              next == Min({AfterEnd(H)} \cup {chain[h].at : h \in {g \in Window(H) : chain[g].at > t}})
          IN [at |-> t, txs |-> TxsOf(BlocksAt(H, t)),
              span |-> IF BlocksAt(H, t) = {} THEN 0 ELSE next - t]]

Buckets == BucketTPS(Read)

SumTxs(buckets) == MapThenSumSet(LAMBDA i : buckets[i].txs, DOMAIN buckets)

\* Fault: a window of two seconds has an interior, too.
InteriorOfTwo(buckets) ==
  IF Len(buckets) < 2 THEN <<>> ELSE SubSeq(buckets, 2, Len(buckets))

InteriorBuckets(buckets) ==
  IF Len(buckets) < 3 THEN <<>> ELSE SubSeq(buckets, 2, Len(buckets) - 1)

\* drainBuckets: the whole seconds after sendEnd, without the last.
DrainBuckets(buckets) ==
  SelectSeq(SubSeq(buckets, 1, Len(buckets) - 1), LAMBDA b : b.at > sendEnd)

\* RunStats; a rate is its transactions over its seconds.
Stats ==
  [IncludedTxs   |-> IncludedTxs,
   SustainedTxs  |-> SumTxs(Buckets),                  ActiveSeconds |-> Len(Buckets),
   FullSecondTxs |-> SumTxs(InteriorBuckets(Buckets)), FullSeconds   |-> Len(InteriorBuckets(Buckets)),
   DrainTxs      |-> SumTxs(DrainBuckets(Buckets)),    DrainSeconds  |-> Len(DrainBuckets(Buckets))]

-----------------------------------------------------------------------------
(* Properties.                                                             *)

\* The types hold, and every included transaction counts once in the rates, whichever
\* blocks could not be read: sustained is included over the active seconds.
LoadCountedOnce == TypeOK /\ (pc = "done" => Stats.SustainedTxs = Stats.IncludedTxs)

\* The seconds the rates are spread over tile the time from the first loaded
\* block to the block after the load: no second is counted twice, none is missed,
\* and no rate divides by zero.
SpansTile ==
  pc = "done" /\ Loaded(Read) # {} =>
    /\ MapThenSumSet(LAMBDA i : Buckets[i].span, DOMAIN Buckets) = AfterEnd(Read) - Start(Read)
    /\ \A i \in DOMAIN Buckets : Buckets[i].txs > 0 => Buckets[i].span > 0
    /\ LET later == {h \in Read : chain[h].at > End(Read)} IN
       later # {} => AfterEnd(Read) = Min({chain[h].at : h \in later})

\* "full_second covers only seconds lying entirely inside the load", those strictly
\* between the first and the last loaded one, and drain is "the rate over the
\* DrainSeconds whole seconds after the sender finished": each counts all of its
\* seconds, idle ones included, and all that was mined in them.
WholeSecondsOnly ==
  pc = "done" /\ Loaded(Read) # {} =>
    LET full == {t \in Start(Read)..End(Read) : Start(Read) < t /\ t < End(Read)}
        drain == {t \in Start(Read)..End(Read) : sendEnd < t /\ t < End(Read)}
        mined(seconds) == TxsOf({h \in Read : chain[h].at \in seconds}) IN
    /\ <<Stats.FullSeconds, Stats.FullSecondTxs>> = <<Cardinality(full), mined(full)>>
    /\ <<Stats.DrainSeconds, Stats.DrainTxs>> = <<Cardinality(drain), mined(drain)>>
=============================================================================
