---------------------------- MODULE RemotePrepare ----------------------------
(***************************************************************************)
(* How a Tempo run against a public endpoint gets ready                    *)
(* (internal/activities/tempo_remote.go, tempo_txgen.go): refuse senders   *)
(* that still have transactions in the node's pool, top up the ones that   *)
(* cannot pay for the run, from the faucet or from account 0, wait for the *)
(* balances, and later, in GenerateTxs, read where each nonce lane stands  *)
(* and sign from there.                                                    *)
(*                                                                         *)
(* The chain, its pool and the faucet are external.  What an earlier run   *)
(* left in the pool may be mined at any time.                              *)
(***************************************************************************)
EXTENDS Integers, FiniteSets, FiniteSetsExt

CONSTANTS
  NumAccounts,
  NumTxs,         \* transactions per account
  TempoNonceKey,  \* the first lane's key; 0 is the protocol nonce
  NonceLanes,     \* lanes per account, as tempoNonceLanes gives them
  Fundings,       \* "faucet" (tempo_faucet), "index0" (tempo_fund_from_index0), "none"
  Need,           \* tempoFeeReserve
  CallsPerTx,     \* tempoFundCallsPerTx, 32 in the code
  GasPerCall,     \* tempoFundGasPerCall
  MaxFee,         \* maxFee of the funding transactions
  Scale,          \* tempoGasPriceScale
  Word,           \* 2^64: uint64 arithmetic wraps around
  Account0,       \* amounts account 0 may hold
  FundTimeout,    \* tempoFundTimeout, in ticks
  MaxNonce,       \* bound on the nonces an earlier run left
  LeftOver        \* what an earlier run may have left: sets of <<key, nonce>>

Senders == 1..NumAccounts
Lanes == 0..(NonceLanes - 1)
Keys == {TempoNonceKey + l : l \in Lanes} \cup {0}

ASSUME PrepareAssumption ==
  /\ {NumAccounts, NumTxs, NonceLanes, Need, CallsPerTx, GasPerCall, MaxFee, Scale, Word}
       \subseteq Nat \ {0}
  /\ {TempoNonceKey, FundTimeout, MaxNonce} \cup Account0 \subseteq Nat
  /\ Fundings \subseteq {"faucet", "index0", "none"}
  /\ LeftOver \subseteq SUBSET (Keys \X (0..(MaxNonce - 1)))

VARIABLES
  pc,
  funding,    \* where the config has the senders funded from
  short,      \* the senders found short of the reserve
  asked,      \* the ones the faucet was asked for
  elapsed,    \* ticks since the funding was sent
  first,      \* per sender and key: the first nonce signed, -1 before
  balance,    \* the senders' fee tokens (environment)
  bank,       \* account 0's (environment)
  coming,     \* transfers on their way: sets of senders paid together (environment)
  nonce,      \* per sender and key: the chain's next nonce (environment)
  pool        \* per sender: <<key, nonce>> the node holds (environment)

chainVars == <<balance, bank, coming, nonce, pool>>
vars == <<pc, funding, short, asked, elapsed, first, chainVars>>

\* The variables have their types; the funding loop stops at its timeout.
TypeOK ==
  /\ pc \in {"stuck", "short", "fund", "settle", "pause", "nonces", "signed", "refused", "failed"}
  /\ funding \in Fundings
  /\ short \subseteq Senders
  /\ asked \subseteq short
  /\ elapsed \in 0..(FundTimeout + 1)
  /\ first \in [Senders -> [Keys -> Nat \cup {-1}]]
  /\ balance \in [Senders -> Nat]
  /\ bank \in Nat
  /\ coming \subseteq SUBSET Senders
  /\ nonce \in [Senders -> [Keys -> Nat]]
  /\ pool \in [Senders -> SUBSET (Keys \X Nat)]

Init ==
  /\ pc = "stuck"
  /\ funding \in Fundings
  /\ short = {}
  /\ asked = {}
  /\ elapsed = 0
  /\ first = [s \in Senders |-> [k \in Keys |-> -1]]
  /\ balance \in [Senders -> {0, Need}]
  /\ bank \in Account0
  /\ coming = {}
  /\ nonce = [s \in Senders |-> [k \in Keys |-> 0]]
  /\ pool \in [Senders -> LeftOver]

\* The nonces of key k that s could execute now: the chain's next one and what
\* the pool holds without a gap from there.
PendingNonce(s, k) ==
  CHOOSE n \in nonce[s][k]..MaxNonce :
    /\ \A m \in nonce[s][k]..(n - 1) : <<k, m>> \in pool[s]
    /\ <<k, n>> \notin pool[s]

-----------------------------------------------------------------------------
(* bootstrapTempoRemote.                                                   *)

\* Fault: nobody looks at the pool.
RefuseNobody ==
  /\ pc = "stuck"
  /\ pc' = "short"
  /\ UNCHANGED <<funding, short, asked, elapsed, first, chainVars>>

\* refuseStuckSenders: eth_getTransactionCount, pending against latest.
RefuseStuck ==
  /\ pc = "stuck"
  /\ pc' = IF \E s \in Senders : PendingNonce(s, 0) > nonce[s][0] THEN "refused" ELSE "short"
  /\ UNCHANGED <<funding, short, asked, elapsed, first, chainVars>>

\* tempoShortOfFees
Short(accounts) == {s \in accounts : balance[s] < Need}

\* The first half of fundTempoSenders.
FindShort ==
  /\ pc = "short"
  /\ short' = Short(Senders)
  /\ pc' = IF short' = {} THEN "nonces" ELSE IF funding = "none" THEN "failed" ELSE "fund"
  /\ UNCHANGED <<funding, asked, elapsed, first, chainVars>>

\* tempo_fundAddress, one short sender after the other.
AskFaucet ==
  /\ pc = "fund"
  /\ funding = "faucet"
  /\ asked # short
  /\ LET s == Min(short \ asked) IN asked' = asked \cup {s} /\ coming' = coming \cup {{s}}
  /\ UNCHANGED <<funding, pc, short, elapsed, first, balance, bank, nonce, pool>>

AllAsked ==
  /\ pc = "fund"
  /\ funding = "faucet"
  /\ asked = short
  /\ pc' = "settle"
  /\ UNCHANGED <<funding, short, asked, elapsed, first, chainVars>>

\* Fault: the price of the funding's gas is left out.
CostWithoutGas == Need * Cardinality(short)

\* What account 0 is checked for.  The gas is uint64 arithmetic.
Cost == Need * Cardinality(short)
        + ((Cardinality(short) * GasPerCall * MaxFee) % Word) \div Scale

\* What it really takes to pay the senders in group.
Price(group) == Need * Cardinality(group)
                + (Cardinality(group) * GasPerCall * MaxFee) \div Scale

\* The short senders, CallsPerTx to a transaction.
Groups ==
  {{s \in short : Cardinality({r \in short : r < s}) \div CallsPerTx = g} :
     g \in 0..((Cardinality(short) - 1) \div CallsPerTx)}

\* fundFromIndex0.  A refused or unanswered transaction fails the run although
\* the others are on their way.
FundFromIndex0 ==
  /\ pc = "fund"
  /\ funding = "index0"
  /\ \/ bank < Cost /\ pc' = "failed" /\ UNCHANGED coming
     \/ bank >= Cost /\ pc' = "settle" /\ coming' = coming \cup Groups
     \/ /\ bank >= Cost
        /\ pc' = "failed"
        /\ \E sent \in SUBSET Groups : coming' = coming \cup sent
  /\ UNCHANGED <<funding, short, asked, elapsed, first, balance, bank, nonce, pool>>

\* Fault: the deadline is not looked at.
SettleForever ==
  /\ pc = "settle"
  /\ short' = Short(short)
  /\ asked' = asked \cap short'
  /\ pc' = IF short' = {} THEN "nonces" ELSE "pause"
  /\ UNCHANGED <<funding, elapsed, first, chainVars>>

\* The second half of fundTempoSenders: until every balance is there.
Settle ==
  /\ pc = "settle"
  /\ short' = Short(short)
  /\ asked' = asked \cap short'
  /\ pc' = IF short' = {} THEN "nonces" ELSE IF elapsed > FundTimeout THEN "failed" ELSE "pause"
  /\ UNCHANGED <<funding, elapsed, first, chainVars>>

PauseOver ==
  /\ pc = "pause"
  /\ pc' = "settle"
  /\ elapsed' = IF elapsed > FundTimeout THEN elapsed ELSE elapsed + 1
  /\ UNCHANGED <<funding, short, asked, first, chainVars>>

\* A call fails, or the context ends.
Fails ==
  /\ pc \in {"stuck", "short", "fund", "settle", "pause", "nonces"}
  /\ pc' = "failed"
  /\ UNCHANGED <<funding, short, asked, elapsed, first, chainVars>>

-----------------------------------------------------------------------------
(* GenerateTxs: tempoRemoteNonces and generateTempoNativeTxs.              *)

\* Key 0 counts what the pool would execute; a user key, read from the nonce
\* precompile, only what is on the chain.
ReadNonces ==
  /\ pc = "nonces"
  /\ first' = [s \in Senders |-> [k \in Keys |-> IF k = 0 THEN PendingNonce(s, 0) ELSE nonce[s][k]]]
  /\ pc' = "signed"
  /\ UNCHANGED <<funding, short, asked, elapsed, chainVars>>

\* The nonce key of an account's transaction i.
LaneKey(i) == TempoNonceKey + (i % NonceLanes)

\* Fault: one nonce counter for all lanes.
SignedOneCounter(s) ==
  {<<LaneKey(i), first[s][LaneKey(i)] + i>> : i \in 0..(NumTxs - 1)}

\* The <<key, nonce>> of the transactions of s, round-robin over the lanes.
Signed(s) ==
  {<<LaneKey(i), first[s][LaneKey(i)] + i \div NonceLanes>> : i \in 0..(NumTxs - 1)}

-----------------------------------------------------------------------------
(* The chain.                                                              *)

\* A funding transfer is mined: all its senders are paid, or none is.
MineFunding ==
  \E group \in coming :
    /\ coming' = coming \ {group}
    /\ IF funding = "index0"
         THEN bank >= Price(group) /\ bank' = bank - Price(group)
         ELSE UNCHANGED bank
    /\ balance' = [s \in Senders |-> IF s \in group THEN balance[s] + Need ELSE balance[s]]
    /\ UNCHANGED <<funding, pc, short, asked, elapsed, first, nonce, pool>>

\* The earlier run's next transaction of s is mined, and paid by s.
MineLeftOver(s, k) ==
  /\ <<k, nonce[s][k]>> \in pool[s]
  /\ balance[s] > 0
  /\ balance' = [balance EXCEPT ![s] = @ - 1]
  /\ pool' = [pool EXCEPT ![s] = @ \ {<<k, nonce[s][k]>>}]
  /\ nonce' = [nonce EXCEPT ![s][k] = @ + 1]
  /\ UNCHANGED <<funding, pc, short, asked, elapsed, first, bank, coming>>

Chain == MineFunding \/ \E s \in Senders, k \in Keys : MineLeftOver(s, k)

Prepare ==
  \/ RefuseStuck \/ FindShort \/ AskFaucet \/ AllAsked \/ FundFromIndex0 \/ Settle
  \/ PauseOver \/ ReadNonces

Next == Prepare \/ Fails \/ (pc \notin {"signed", "refused", "failed"} /\ Chain)

Spec == Init /\ [][Next]_vars /\ WF_vars(Prepare)

-----------------------------------------------------------------------------
(* Properties.                                                             *)

\* When the load is signed every sender still holds what the run may spend,
\* although balances are read long before and only once: "makes sure every sender
\* can pay for the whole run".
EverySenderCanPay == pc = "signed" => \A s \in Senders : balance[s] >= Need

\* The types hold, and what is signed can be executed from the chain as it is: every
\* earlier nonce of the lane is mined, held by the node or signed too.  A gap would queue
\* the rest of the lane for ever.
NoNonceGap ==
  /\ TypeOK
  /\ pc = "signed" =>
       \A s \in Senders : \A t \in Signed(s) : \A m \in nonce[s][t[1]]..(t[2] - 1) :
         <<t[1], m>> \in Signed(s) \cup pool[s]

\* Account 0 can pay for all the funding transactions still on their way together, so
\* that none of the senders is left waiting for a transfer that cannot happen.  With more
\* gas than a word holds the check that promises this is of a wrapped product.
FundingCovered ==
  /\ funding = "index0" /\ pc \in {"settle", "pause"}
  /\ NumAccounts * GasPerCall * MaxFee < Word
  =>
    bank >= Price(UNION coming)

\* The preparation ends, though the funding may never be mined.
PrepareEnds == <>(pc \in {"signed", "refused", "failed"})
=============================================================================
