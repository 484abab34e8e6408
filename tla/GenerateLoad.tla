---------------------------- MODULE GenerateLoad ----------------------------
(***************************************************************************)
(* From a config to the transactions a run sends: which configs are        *)
(* accepted (internal/config, the families' Validate), which accounts the  *)
(* network's genesis funds, how each node's load is signed in parallel and *)
(* written to its file (internal/bench/txgen.go, tempo_txgen.go,           *)
(* GenerateTxs), and what doRun makes of the file.                         *)
(*                                                                         *)
(* A key is <<branch, index>>, the two numbers of its HD path.  Only the   *)
(* settings that decide who sends are kept; binaries, images and a private *)
(* mnemonic are taken to be set.                                           *)
(***************************************************************************)
EXTENDS Integers, Sequences, SequencesExt, FiniteSets

CONSTANTS
  Specs,          \* the configs an operator may write, after applyDefaults
  SigningWorkers  \* signing workers per node

Families == {"cosmos", "tempo", "allegro", "reth"}

SpecType ==
  [ChainFamily : Families, Docker : BOOLEAN, StartNode : BOOLEAN, RemoteRPC : BOOLEAN,
   Validators : Nat, Fullnodes : Nat, ValidatorGenerateLoad : BOOLEAN, TempoLegacyTxs : BOOLEAN,
   HotRecipientPercent : Nat, NumAccounts : Nat \ {0}, NumTxs : Nat \ {0}]

ASSUME LoadAssumption == Specs \subseteq SpecType /\ SigningWorkers \in Nat \ {0}

Workers == 1..SigningWorkers

VARIABLES
  pc,
  spec,
  funded,    \* the keys that hold funds when the network starts
  taken,     \* per node: accounts taken off the jobs channel
  hand,      \* per node and worker: the account it signs, 0 for none
  slot,      \* per node and account: todo, ok or err
  file,      \* per node: the transactions written to its file
  complete,  \* per node: the file is finished, so it parses
  load       \* per node: what doRun sends

vars == <<pc, spec, funded, taken, hand, slot, file, complete, load>>

Nodes == 0..(spec.Validators + spec.Fullnodes - 1)
Accounts == 1..spec.NumAccounts

-----------------------------------------------------------------------------
(* The config.                                                             *)

\* validateHotRecipient and validateRemote
ConfigValid ==
  /\ spec.Validators >= 1
  /\ spec.HotRecipientPercent <= 100
  /\ spec.HotRecipientPercent > 0 => spec.ChainFamily # "tempo" \/ spec.TempoLegacyTxs
  /\ spec.RemoteRPC => /\ spec.ChainFamily = "tempo"
                       /\ ~spec.StartNode /\ ~spec.Docker
                       /\ spec.Validators = 1 /\ spec.Fullnodes = 0

\* tempoRuntime.Validate; a docker config returns before the last check.
TempoValid ==
  /\ spec.Fullnodes = 0
  /\ IF spec.RemoteRPC THEN ~spec.TempoLegacyTxs
     ELSE IF spec.Docker THEN ~spec.StartNode /\ spec.Validators >= 2
     ELSE ~(spec.TempoLegacyTxs /\ spec.Validators > 1 /\ spec.ValidatorGenerateLoad)

\* Every entry of an allegro genesis votes, so there are no fullnodes.
AllegroValid == ~spec.Docker /\ spec.Fullnodes = 0

\* A second dev node would build a competing chain.
RethValid == ~spec.Docker /\ spec.Validators = 1

\* ChainRuntime.Validate; cosmos only asks for a binary.
Validate ==
  CASE spec.ChainFamily = "cosmos"  -> TRUE
    [] spec.ChainFamily = "tempo"   -> TempoValid
    [] spec.ChainFamily = "allegro" -> AllegroValid
    [] spec.ChainFamily = "reth"    -> RethValid

-----------------------------------------------------------------------------
(* Keys.                                                                   *)

ProducesTxs == spec.ChainFamily = "tempo" /\ ~spec.TempoLegacyTxs

\* Every node's own branch, whose index 0 is the validator's.
SignerAddresses == Nodes \X Accounts

\* tempo-xtask funds that many accounts of branch 0, from index 0.
TempoFunded == {0} \X (0..(spec.NumAccounts * spec.Validators))

\* The signers, and every node's validator key.
CosmosFunded == SignerAddresses \cup (Nodes \X {0})

\* Merged into the genesis allegro-xtask writes.
AllegroFundedAlloc == SignerAddresses

\* The alloc of rethGenesis; for ERC-20 load they hold the deployed token too.
RethFunded == SignerAddresses

\* fundTempoSenders, see RemotePrepare
RemoteFunded == {0} \X Accounts

\* What Bootstrap funds: in genesis, or on a running network.
Funded ==
  CASE spec.ChainFamily = "cosmos"                    -> CosmosFunded
    [] spec.ChainFamily = "allegro"                   -> AllegroFundedAlloc
    [] spec.ChainFamily = "reth"                      -> RethFunded
    [] spec.ChainFamily = "tempo" /\ ~spec.RemoteRPC  -> TempoFunded
    [] spec.ChainFamily = "tempo" /\ spec.RemoteRPC   -> RemoteFunded

\* Fault: every node signs from the start of branch 0.
NativeKeyNoOffset(n, a) == <<0, a>>

\* Node n's slice of branch 0.
NativeKey(n, a) == <<0, n * spec.NumAccounts + a>>

LegacyKey(n, a) == <<n, a>>

\* Fault: the first percent of every hundred nonces are hot.
HotFirst(nonce) == nonce % 100 < spec.HotRecipientPercent

SendsToHotRecipient(nonce) ==
  ((nonce + 1) * spec.HotRecipientPercent) \div 100 > (nonce * spec.HotRecipientPercent) \div 100

\* signAccountTxs
LegacyTxs(n, a) ==
  [i \in 1..spec.NumTxs |->
     [from |-> LegacyKey(n, a), nonce |-> i - 1, hot |-> SendsToHotRecipient(i - 1)]]

\* signAccount of generateTempoNativeTxs, on a fresh chain and a single lane
NativeTxs(n, a) ==
  [i \in 1..spec.NumTxs |-> [from |-> NativeKey(n, a), nonce |-> i - 1, hot |-> FALSE]]

-----------------------------------------------------------------------------
(* The workflow.                                                           *)

Init ==
  /\ spec \in Specs
  /\ pc = "config"
  /\ funded = {}
  /\ taken = [n \in Nodes |-> 0]
  /\ hand = [n \in Nodes |-> [w \in Workers |-> 0]]
  /\ slot = [n \in Nodes |-> [a \in Accounts |-> "todo"]]
  /\ file = [n \in Nodes |-> <<>>]
  /\ complete = [n \in Nodes |-> FALSE]
  /\ load = [n \in Nodes |-> <<>>]

LoadConfig ==
  /\ pc = "config"
  /\ pc' = IF ConfigValid THEN "layout" ELSE "refused"
  /\ UNCHANGED <<spec, funded, taken, hand, slot, file, complete, load>>

GenerateLayout ==
  /\ pc = "layout"
  /\ IF Validate THEN pc' = "generate" /\ funded' = Funded
                 ELSE pc' = "refused" /\ UNCHANGED funded
  /\ UNCHANGED <<spec, taken, hand, slot, file, complete, load>>

Failed(n) == \E a \in Accounts : slot[n][a] = "err"

\* A worker takes the next job.  The native signer stops after an error.
TakeAccount(n, w) ==
  /\ pc \in {"generate", "rerun"}   \* the activities outlive a workflow that failed
  /\ hand[n][w] = 0
  /\ taken[n] < spec.NumAccounts
  /\ ProducesTxs => ~Failed(n)
  /\ taken' = [taken EXCEPT ![n] = @ + 1]
  /\ hand' = [hand EXCEPT ![n][w] = taken'[n]]
  /\ UNCHANGED <<pc, spec, funded, slot, file, complete, load>>

SignAccount(n, w) ==
  /\ hand[n][w] # 0
  /\ \E outcome \in {"ok", "err"} : slot' = [slot EXCEPT ![n][hand[n][w]] = outcome]
  /\ hand' = [hand EXCEPT ![n][w] = 0]
  /\ UNCHANGED <<pc, spec, funded, taken, file, complete, load>>

\* How many accounts the file holds.
Emitted(n) == Len(file[n]) \div spec.NumTxs

\* Fault: the array is closed although accounts are missing.
EmitUnfinished(n) ==
  /\ pc \in {"generate", "rerun"}
  /\ ~ProducesTxs
  /\ Emitted(n) < spec.NumAccounts
  /\ slot[n][Emitted(n) + 1] = "ok"
  /\ file' = [file EXCEPT ![n] = @ \o LegacyTxs(n, Emitted(n) + 1)]
  /\ complete' = [complete EXCEPT ![n] = TRUE]
  /\ UNCHANGED <<pc, spec, funded, taken, hand, slot, load>>

\* GenerateSignedTxsStream hands an account on when all before it are through;
\* GenerateTxs closes the array after the last.
Emit(n) ==
  /\ pc \in {"generate", "rerun"}
  /\ ~ProducesTxs
  /\ Emitted(n) < spec.NumAccounts
  /\ slot[n][Emitted(n) + 1] = "ok"
  /\ file' = [file EXCEPT ![n] = @ \o LegacyTxs(n, Emitted(n) + 1)]
  /\ complete' = [complete EXCEPT ![n] = Emitted(n) + 1 = spec.NumAccounts]
  /\ UNCHANGED <<pc, spec, funded, taken, hand, slot, load>>

\* ProduceTxs waits for every signer and renames a finished file into place.
ProduceTxs(n) ==
  /\ pc \in {"generate", "rerun"}
  /\ ProducesTxs
  /\ ~complete[n]
  /\ \A a \in Accounts : slot[n][a] = "ok"
  /\ file' = [file EXCEPT ![n] = FlattenSeq([a \in Accounts |-> NativeTxs(n, a)])]
  /\ complete' = [complete EXCEPT ![n] = TRUE]
  /\ UNCHANGED <<pc, spec, funded, taken, hand, slot, load>>

\* Fault: an error is kept in its slot and the emitter waits on.
GivesUpNever(n) == FALSE

\* The activity fails when it comes to the account that could not be signed; the
\* native one when its signers are done.
GivesUp(n) ==
  IF ProducesTxs THEN Failed(n) /\ \A w \in Workers : hand[n][w] = 0
  ELSE Emitted(n) < spec.NumAccounts /\ slot[n][Emitted(n) + 1] = "err"

\* The workflow's first failed GenerateTxs ends it; a rerun may skip the
\* generation (pre_generate_txs false) and go on with the files as they are.
GenerateFails ==
  /\ pc = "generate"
  /\ \E n \in Nodes : GivesUp(n)
  /\ pc' = "rerun"
  /\ UNCHANGED <<spec, funded, taken, hand, slot, file, complete, load>>

GenerateDone ==
  /\ pc = "generate"
  /\ \A n \in Nodes : complete[n]
  /\ pc' = "run"
  /\ UNCHANGED <<spec, funded, taken, hand, slot, file, complete, load>>

\* Fault: native transactions are signed again by the legacy signer, too.
ResignAlways(n) == FlattenSeq([a \in Accounts |-> LegacyTxs(n, a)])

\* doRun signs legacy transactions again when the node suggests a higher price.
Resign(n) == IF ProducesTxs THEN file[n] ELSE FlattenSeq([a \in Accounts |-> LegacyTxs(n, a)])

\* RunNode: a validator without load returns; a file that does not parse fails.
RunNode(n) ==
  /\ pc \in {"run", "rerun"}
  /\ n < spec.Validators => spec.ValidatorGenerateLoad
  /\ complete[n]
  /\ load[n] = <<>>
  /\ \E priceRose \in BOOLEAN : load' = [load EXCEPT ![n] = IF priceRose THEN Resign(n) ELSE file[n]]
  /\ UNCHANGED <<pc, spec, funded, taken, hand, slot, file, complete>>

Signing == \E n \in Nodes, w \in Workers : TakeAccount(n, w) \/ SignAccount(n, w)
Emitting == \E n \in Nodes : Emit(n) \/ ProduceTxs(n)
Running == \E n \in Nodes : RunNode(n)

Workflow == LoadConfig \/ GenerateLayout \/ GenerateFails \/ GenerateDone

Next == Workflow \/ Signing \/ Emitting \/ Running

Spec == Init /\ [][Next]_vars /\ WF_vars(Workflow) /\ WF_vars(Signing) /\ WF_vars(Emitting)

-----------------------------------------------------------------------------
(* Properties.                                                             *)

\* The variables have their types; a worker holds an account that was taken.
TypeOK ==
  /\ pc \in {"config", "layout", "generate", "rerun", "run", "refused"}
  /\ funded \subseteq Nat \X Nat
  /\ \A n \in Nodes :
       /\ taken[n] \in 0..spec.NumAccounts
       /\ hand[n] \in [Workers -> 0..taken[n]]
       /\ slot[n] \in [Accounts -> {"todo", "ok", "err"}]
       /\ complete[n] \in BOOLEAN
       /\ \A seq \in {file[n], load[n]} : Len(seq) \in 0..(spec.NumAccounts * spec.NumTxs)

\* "An address funded from this list is one that can pay": every accepted config
\* sends only from keys that hold funds, signed again at a higher price or not.
EverySenderFunded ==
  \A n \in Nodes : \A i \in DOMAIN load[n] : load[n][i].from \in funded

\* No two transactions sent, by whichever nodes, are for the same account and
\* nonce, and none is signed with a validator's key.
NoNonceTwice ==
  \A n \in Nodes : \A i \in DOMAIN load[n] :
    /\ \A m \in Nodes : \A j \in DOMAIN load[m] :
         <<n, i>> # <<m, j>> =>
           <<load[n][i].from, load[n][i].nonce>> # <<load[m][j].from, load[m][j].nonce>>
    /\ load[n][i].from[2] # 0

\* The types hold, and "the file holds each account's transactions contiguously":
\* cut every num_txs transactions, as doRun does for BroadcastStreams, each stream is
\* one account's whole sequence from nonce 0, even after a generation that failed
\* half way.
StreamsWhole ==
  /\ TypeOK
  /\ \A n \in Nodes : load[n] # <<>> =>
       /\ Len(load[n]) = spec.NumAccounts * spec.NumTxs
       /\ \A s \in 0..(spec.NumAccounts - 1) : \A i \in 1..spec.NumTxs :
            LET tx == load[n][s * spec.NumTxs + i] IN
            tx.from = load[n][s * spec.NumTxs + 1].from /\ tx.nonce = i - 1

\* "The hot nonces are spread evenly through the sequence": any stretch of an
\* account's transactions has its share of hot ones, give or take one.
HotSpread ==
  \A n \in Nodes : load[n] # <<>> =>
    \A i \in 1..spec.NumTxs : \A j \in i..spec.NumTxs :
      LET hot == Cardinality({k \in i..j : load[n][k].hot})
          share == (j - i + 1) * (IF ProducesTxs THEN 0 ELSE spec.HotRecipientPercent) IN
      100 * (hot - 1) < share /\ share < 100 * (hot + 1)

\* Generating ends: with every file complete, or with the error of a signer.
GenerationEnds == <>(pc \in {"run", "rerun", "refused"})
=============================================================================
