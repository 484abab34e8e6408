------------------------------- MODULE Unstick -------------------------------
(***************************************************************************)
(* cmd/unstick: clear a remote run's senders out of an RPC node's pool.    *)
(* Round after round it reads the senders' on-chain nonces and what the    *)
(* pool holds of them, and sends a replacement at each nonce from the      *)
(* on-chain one up to the highest held, at most `window` ahead per sender. *)
(* Replacements that get a sender nowhere for stallRounds rounds, or that  *)
(* the pool finds underpriced, are sent again for 25% more.                *)
(*                                                                         *)
(* The node is external: it takes a replacement that pays 10% more than    *)
(* what it holds, and forwards to the block producer what it takes, or     *)
(* does not.                                                               *)
(***************************************************************************)
EXTENDS Integers, FiniteSets, FiniteSetsExt

CONSTANTS
  Senders,
  MaxNonce,      \* bound: the node holds no nonce at or above it
  Window,        \* -window
  StartPrices,   \* values of -gas-price
  PoolPrice,     \* what the stuck transactions pay
  BaseFee,
  StallRounds,   \* stallRounds, 5 in the code
  GiveUpAfter,   \* giveUpAfter, in rounds of pollEvery
  Batched,       \* whether requests carry more than one transaction
  Lagging        \* whether some backends report an older nonce

ASSUME UnstickAssumption ==
  /\ IsFiniteSet(Senders)
  /\ MaxNonce \in Nat
  /\ Window \in Nat
  /\ StartPrices \subseteq Nat
  /\ PoolPrice \in Nat
  /\ BaseFee \in Nat
  /\ StallRounds \in Nat \ {0}
  /\ GiveUpAfter \in Nat
  /\ {Batched, Lagging} \subseteq BOOLEAN

Nonces == 0..(MaxNonce - 1)
None == 0    \* the price of nothing

VARIABLES
  pc,
  latest,      \* per sender: the nonce as this round read it
  price,       \* sender.price
  next,        \* sender.next
  lastLatest,  \* sender.lastLatest
  stalled,     \* sender.stalled
  due,         \* per sender: the nonces to send this round
  stuck,       \* transactions stuck in this round
  fewest,      \* fewest stuck so far, -1 before the first round
  since,       \* time since fewest fell, in rounds
  result,
  nonce,       \* on-chain nonces (environment)
  held,        \* per sender and nonce: the price pooled, or None (environment)
  forwarded,   \* pooled transactions the producer has (environment)
  sent         \* per sender and nonce: the price last sent, or None (history)

senderVars == <<price, next, lastLatest, stalled>>
mainVars == <<stuck, fewest, since, result>>
nodeVars == <<nonce, held, forwarded>>
vars == <<pc, latest, senderVars, due, mainVars, nodeVars, sent>>

Init ==
  /\ pc = "nonces"
  /\ latest = [s \in Senders |-> 0]
  /\ \E p \in StartPrices : price = [s \in Senders |-> p]
  /\ next = [s \in Senders |-> 0]
  /\ lastLatest = [s \in Senders |-> 0]
  /\ stalled = [s \in Senders |-> 0]
  /\ due = [s \in Senders |-> {}]
  /\ stuck = 0
  /\ fewest = -1
  /\ since = 0
  /\ result = "none"
  /\ nonce = [s \in Senders |-> 0]
  /\ held \in [Senders -> [Nonces -> {None, PoolPrice}]]
  /\ forwarded = {}
  /\ sent = [s \in Senders |-> [n \in Nonces |-> None]]

-----------------------------------------------------------------------------
(* One round.                                                              *)

Larger(m, n) == IF m > n THEN m ELSE n
Smaller(m, n) == IF m < n THEN m ELSE n

\* The batch of eth_getTransactionCount calls.
ReadNonces ==
  /\ pc = "nonces"
  /\ latest' \in [Senders -> 0..MaxNonce]
  /\ \A s \in Senders : IF Lagging THEN latest'[s] <= nonce[s] ELSE latest'[s] = nonce[s]
  /\ pc' = "pool"
  /\ UNCHANGED <<senderVars, due, mainVars, nodeVars, sent>>

\* Fault: only what the pool could execute counts.
TopPendingOnly(s) ==
  Max({0} \cup {n + 1 : n \in {m \in Nonces : \A k \in nonce[s]..m : held[s][k] # None}})

\* pooledTops: one past the highest nonce held, queued included.
Top(s) == Max({0} \cup {n + 1 : n \in {m \in Nonces : held[s][m] # None}})

Stuck(s) == Top(s) > latest[s]
StuckNonces(s) == latest[s]..(Top(s) - 1)

\* Fault: 5% is less than the pool asks of a replacement.
OutbidTooLittle(p) == (p * 21) \div 20

\* 25% more, in whole wei.
Outbid(p) == (p * 5) \div 4

\* sender.due for a stuck sender: whether the chain moved, and whether the
\* outstanding replacements are given up on.
Moved(s) == latest[s] > lastLatest[s]
Outstanding(s) == ~Moved(s) /\ next[s] > latest[s]

Lost(s) == Outstanding(s) /\ stalled[s] + 1 >= StallRounds

FirstDue(s) == Larger(IF Lost(s) THEN lastLatest[s] ELSE next[s], latest[s])

\* Fault: the window opens at the next nonce instead of the on-chain one.
EndDueSlides(s) == Larger(FirstDue(s), Smaller(Top(s), FirstDue(s) + Window))

EndDue(s) == Larger(FirstDue(s), Smaller(Top(s), latest[s] + Window))

\* txpool_inspect, then due for every stuck sender.  Nothing stuck is the end.
ReadPool ==
  /\ pc = "pool"
  /\ stuck' = Cardinality(UNION {{s} \X StuckNonces(s) : s \in Senders})
  /\ lastLatest' = [s \in Senders |-> IF Stuck(s) /\ Moved(s) THEN latest[s] ELSE lastLatest[s]]
  /\ stalled' = [s \in Senders |->
                   IF ~Stuck(s) THEN stalled[s]
                   ELSE IF Moved(s) \/ Lost(s) THEN 0
                   ELSE IF Outstanding(s) THEN stalled[s] + 1 ELSE stalled[s]]
  /\ price' = [s \in Senders |-> IF Stuck(s) /\ Lost(s) THEN Outbid(price[s]) ELSE price[s]]
  /\ next' = [s \in Senders |-> IF Stuck(s) THEN EndDue(s) ELSE next[s]]
  /\ due' = [s \in Senders |-> IF Stuck(s) THEN FirstDue(s)..(EndDue(s) - 1) ELSE {}]
  /\ IF stuck' = 0 THEN pc' = "done" /\ result' = "clear"
     ELSE /\ pc' = IF \A s \in Senders : due'[s] = {} THEN "judge" ELSE "send"
          /\ UNCHANGED result
  /\ UNCHANGED <<latest, fewest, since, nodeVars, sent>>

\* What the node makes of the replacement of s at n.
Answer(s, n) ==
  CASE n < nonce[s] -> "nonce_too_low"
    [] price[s] < BaseFee -> "below_basefee"
    [] held[s][n] # None /\ 10 * price[s] < 11 * held[s][n] -> "underpriced"
    [] OTHER -> "ok"

\* BroadcastStreams: some of the replacements arrive.  A pool that asks for more
\* is outbid at once, for every sender; only a batch reports what it asks.
Broadcast ==
  /\ pc = "send"
  /\ sent' = [s \in Senders |-> [n \in Nonces |-> IF n \in due[s] THEN price[s] ELSE sent[s][n]]]
  /\ \E arrived \in SUBSET UNION {{s} \X due[s] : s \in Senders} :
       LET taken == {t \in arrived : Answer(t[1], t[2]) = "ok"}
           asksMore == \E t \in arrived : Answer(t[1], t[2]) \in {"below_basefee", "underpriced"}
       IN /\ held' = [s \in Senders |-> [n \in Nonces |->
                        IF <<s, n>> \in taken THEN price[s] ELSE held[s][n]]]
          /\ \E lost \in SUBSET taken : forwarded' = (forwarded \cup taken) \ lost
          /\ IF Batched /\ asksMore
               THEN /\ price' = [s \in Senders |-> Outbid(price[s])]
                    /\ next' = lastLatest
                    /\ stalled' = [s \in Senders |-> 0]
               ELSE UNCHANGED <<price, next, stalled>>
  /\ due' = [s \in Senders |-> {}]
  /\ pc' = "judge"
  /\ UNCHANGED <<latest, lastLatest, mainVars, nonce>>

\* Fault: the time of the last progress is never looked at.
JudgeForever ==
  /\ pc = "judge"
  /\ IF fewest < 0 \/ stuck < fewest
       THEN fewest' = stuck /\ since' = 0 /\ pc' = "sleep" /\ UNCHANGED result
       ELSE pc' = "sleep" /\ UNCHANGED <<fewest, since, result>>
  /\ UNCHANGED <<latest, senderVars, due, stuck, nodeVars, sent>>

\* Fewer stuck than ever is progress; none for giveUpAfter is the end.
Judge ==
  /\ pc = "judge"
  /\ IF fewest < 0 \/ stuck < fewest
       THEN fewest' = stuck /\ since' = 0 /\ pc' = "sleep" /\ UNCHANGED result
       ELSE /\ IF since > GiveUpAfter
                 THEN pc' = "done" /\ result' = "gave_up"
                 ELSE pc' = "sleep" /\ UNCHANGED result
            /\ UNCHANGED <<fewest, since>>
  /\ UNCHANGED <<latest, senderVars, due, stuck, nodeVars, sent>>

\* time.Sleep(pollEvery)
Sleep ==
  /\ pc = "sleep"
  /\ since' = IF since > GiveUpAfter THEN since ELSE since + 1
  /\ pc' = "nonces"
  /\ UNCHANGED <<latest, senderVars, due, stuck, fewest, result, nodeVars, sent>>

\* The calls of a round fail: fatal.
Fatal ==
  /\ pc \in {"nonces", "pool"}
  /\ pc' = "done"
  /\ result' = "failed"
  /\ UNCHANGED <<latest, senderVars, due, stuck, fewest, since, nodeVars, sent>>

\* The producer includes a sender's next transaction.
Mine(s) ==
  /\ pc # "done"
  /\ nonce[s] \in Nonces
  /\ <<s, nonce[s]>> \in forwarded
  /\ nonce' = [nonce EXCEPT ![s] = @ + 1]
  /\ held' = [held EXCEPT ![s][nonce[s]] = None]
  /\ forwarded' = forwarded \ {<<s, nonce[s]>>}
  /\ UNCHANGED <<pc, latest, senderVars, due, mainVars, sent>>

Step == ReadNonces \/ ReadPool \/ Broadcast \/ Judge \/ Sleep \/ Fatal

Next == Step \/ \E s \in Senders : Mine(s)

Spec == Init /\ [][Next]_vars /\ WF_vars(Step)

-----------------------------------------------------------------------------
(* Properties.                                                             *)

\* The variables have their types: no nonce past the pool's highest is sent, and
\* no sender sits still for more than stallRounds rounds.
TypeOK ==
  /\ pc \in {"nonces", "pool", "send", "judge", "sleep", "done"}
  /\ latest \in [Senders -> 0..MaxNonce]
  /\ price \in [Senders -> Nat]
  /\ next \in [Senders -> 0..MaxNonce]
  /\ lastLatest \in [Senders -> 0..MaxNonce]
  /\ stalled \in [Senders -> 0..(StallRounds - 1)]
  /\ due \in [Senders -> SUBSET Nonces]
  /\ stuck \in Nat
  /\ fewest \in Nat \cup {-1}
  /\ since \in 0..(GiveUpAfter + 1)
  /\ result \in {"none", "clear", "gave_up", "failed"}
  /\ nonce \in [Senders -> 0..MaxNonce]
  /\ held \in [Senders -> [Nonces -> Nat]]
  /\ forwarded \subseteq Senders \X Nonces
  /\ sent \in [Senders -> [Nonces -> Nat]]

\* The types hold, and however rounds, resends and stale nonces alternate, "at most
\* -window per sender are in flight at once": no nonce at or past the on-chain one plus
\* window has been sent; and sender.next is the "lowest nonce not yet replaced at the
\* current price": each one below it that is not on-chain has been sent at that price.
WindowRespected ==
  /\ TypeOK
  /\ \A s \in Senders : \A n \in Nonces : sent[s][n] # None => n < nonce[s] + Window
  /\ pc # "send" => \A s \in Senders : \A n \in nonce[s]..(next[s] - 1) : sent[s][n] = price[s]

\* A replacement sent again pays the 10% more that the pool asks of it, at any
\* price of at least 4 wei: a quarter of less is nothing in whole wei.
ResendOutbids ==
  [][\A s \in Senders : \A n \in Nonces :
       pc = "send" /\ pc' = "judge" /\ n \in due[s] /\ sent[s][n] >= 4 =>
         10 * sent'[s][n] >= 11 * sent[s][n]]_vars

\* "no transactions left in the pool for these senders" is true when the pool was
\* read, although the nonces were read before it.
ClearMeansClear ==
  [][result' = "clear" /\ result # "clear" =>
       \A s \in Senders : \A n \in Nonces : held[s][n] = None]_vars

\* Unstick ends: the pool clears, or it gives up giveUpAfter after the last
\* progress.
Ends == <>(pc = "done")
=============================================================================
