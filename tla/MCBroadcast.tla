---------------------------- MODULE MCBroadcast ----------------------------
(***************************************************************************)
(* Loads and options for the runs of Broadcast.                            *)
(***************************************************************************)
EXTENDS Broadcast

\* Accounts and how many transactions each sends.
ThreeAccounts == <<2, 1, 1>>
OneAccount == <<4>>

\* BroadcastOptions: two workers and a gate that binds after one transaction, with
\* and without batching.
GatedSingles == [Concurrency |-> 2, BatchSize |-> 1, Watermark |-> 1]
GatedPairs == [Concurrency |-> 2, BatchSize |-> 2, Watermark |-> 1]
=============================================================================
