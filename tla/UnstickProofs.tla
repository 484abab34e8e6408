---------------------------- MODULE UnstickProofs ----------------------------
(***************************************************************************)
(* Proofs about Unstick for any senders, nonces, window, prices and        *)
(* patience: the window is respected, a resend outbids, and the pool is    *)
(* clear when unstick says so.                                             *)
(***************************************************************************)
EXTENDS Unstick, FiniteSetTheorems, WellFoundedInduction, TLAPS

-----------------------------------------------------------------------------
(* The inductive invariant, in the parts the properties need.              *)

\* What a round reads of the chain may be old, never new; what is mined is not pooled.
ChainInv ==
  \A s \in Senders :
    /\ latest[s] <= nonce[s]
    /\ lastLatest[s] <= nonce[s]
    /\ \A n \in Nonces : n < nonce[s] => held[s][n] = None

\* A replacement of what was sent for p pays the 10% more, or is for too little to tell.
Outbids(p, old) == old >= 4 => 10 * p >= 11 * old

\* What is due is within the window, and everything below sender.next is on-chain, due,
\* or sent at the current price; everything else was sent for less, if at all.
SendInv ==
  \A s \in Senders :
    /\ pc # "send" => due[s] = {}
    /\ \A n \in due[s] : n < latest[s] + Window /\ n < next[s]
    /\ \A n \in nonce[s]..(next[s] - 1) : n \in due[s] \/ sent[s][n] = price[s]
    /\ \A n \in Nonces :
         /\ sent[s][n] # None => n < nonce[s] + Window
         /\ sent[s][n] <= price[s]
         /\ n \in due[s] \/ n >= next[s] => Outbids(price[s], sent[s][n])

IInv == TypeOK /\ ChainInv /\ SendInv

-----------------------------------------------------------------------------
(* Operators.                                                              *)

\* A non-empty set of naturals up to b has a largest element.
LEMMA MaxOfNats ==
  ASSUME NEW b \in Nat, NEW S, S \subseteq 0..b, S # {}
  PROVE  Max(S) \in S /\ \A y \in S : y <= Max(S)
<1> DEFINE T == {b - x : x \in S}
<1>1. T \subseteq Nat /\ T # {}
  <2>1. T \subseteq Nat
    OBVIOUS
  <2>2. PICK x \in S : TRUE
    OBVIOUS
  <2>3. b - x \in T
    OBVIOUS
  <2> QED
    BY <2>1, <2>3
<1>2. PICK m \in T : \A y \in T : ~(<<y, m>> \in OpToRel(<, Nat))
  BY <1>1, NatLessThanWellFounded, WFMin
<1>3. \A y \in T : ~(y < m)
  BY <1>1, <1>2 DEF OpToRel
<1>4. \E x \in S : \A y \in S : x >= y
  <2>1. PICK x \in S : m = b - x
    BY <1>2
  <2>2. ASSUME NEW y \in S PROVE x >= y
    <3>1. b - y \in T
      OBVIOUS
    <3>2. ~(b - y < b - x)
      BY <1>3, <2>1, <3>1
    <3>3. x \in Nat /\ y \in Nat
      OBVIOUS
    <3> QED
      BY <3>2, <3>3
  <2> QED
    BY <2>2
<1>5. Max(S) \in S /\ \A y \in S : Max(S) >= y
  BY <1>4, Zenon DEF Max
<1> QED
  BY <1>5

\* Top is one past the highest nonce held.
LEMMA TopBounds ==
  ASSUME TypeOK, NEW s \in Senders
  PROVE  /\ Top(s) \in 0..MaxNonce
         /\ \A n \in Nonces : held[s][n] # None => n < Top(s)
<1> DEFINE S == {0} \cup {n + 1 : n \in {m \in Nonces : held[s][m] # None}}
<1>1. S \subseteq 0..MaxNonce /\ S # {}
  BY UnstickAssumption DEF Nonces
<1>2. Max(S) \in S /\ \A y \in S : y <= Max(S)
  BY <1>1, MaxOfNats, UnstickAssumption
<1>3. Top(s) = Max(S)
  BY DEF Top
<1> QED
  BY <1>1, <1>2, <1>3, UnstickAssumption DEF Nonces

\* 25% more is at least what the pool asks.
LEMMA OutbidIsEnough ==
  ASSUME NEW p \in Nat
  PROVE  /\ Outbid(p) \in Nat /\ Outbid(p) >= p
         /\ \A old \in 0..p : Outbids(Outbid(p), old)
BY DEF Outbid, Outbids

\* FirstDue and EndDue stay within what is held and what was sent.
LEMMA DueBounds ==
  ASSUME TypeOK, NEW s \in Senders
  PROVE  /\ FirstDue(s) \in 0..MaxNonce /\ FirstDue(s) >= latest[s]
         /\ ~Lost(s) => FirstDue(s) >= next[s]
         /\ ~Lost(s) /\ next[s] <= latest[s] => FirstDue(s) = latest[s]
         /\ ~Lost(s) /\ next[s] > latest[s] => FirstDue(s) = next[s]
         /\ Lost(s) => FirstDue(s) \in {lastLatest[s], latest[s]}
         /\ EndDue(s) \in FirstDue(s)..MaxNonce
         /\ EndDue(s) > FirstDue(s) => EndDue(s) <= latest[s] + Window
<1>1. /\ latest[s] \in 0..MaxNonce /\ next[s] \in 0..MaxNonce /\ lastLatest[s] \in 0..MaxNonce
      /\ Top(s) \in 0..MaxNonce
  BY TopBounds DEF TypeOK
<1>2. MaxNonce \in Nat /\ Window \in Nat
  BY UnstickAssumption
<1> QED
  BY <1>1, <1>2 DEF FirstDue, EndDue, Larger, Smaller

\* The stuck transactions are finitely many, and none is left if there are 0.
LEMMA StuckCount ==
  ASSUME TypeOK
  PROVE  LET All == UNION {{s} \X StuckNonces(s) : s \in Senders}
         IN  /\ Cardinality(All) \in Nat
             /\ Cardinality(All) = 0 => \A s \in Senders : Top(s) <= latest[s]
<1> DEFINE All == UNION {{s} \X StuckNonces(s) : s \in Senders}
<1>1. ASSUME NEW s \in Senders
      PROVE  StuckNonces(s) \subseteq Nonces /\ (Top(s) > latest[s] => latest[s] \in StuckNonces(s))
  <2>1. latest[s] \in 0..MaxNonce /\ Top(s) \in 0..MaxNonce /\ MaxNonce \in Nat
    BY TopBounds, UnstickAssumption DEF TypeOK
  <2> QED
    BY <2>1 DEF StuckNonces, Nonces
<1>2. All \subseteq Senders \X Nonces
  BY <1>1
<1>3. IsFiniteSet(Senders \X Nonces)
  <2>1. IsFiniteSet(Nonces)
    BY FS_Interval, UnstickAssumption DEF Nonces
  <2> QED
    BY <2>1, FS_Product, UnstickAssumption
<1>4. IsFiniteSet(All) /\ Cardinality(All) \in Nat
  BY <1>2, <1>3, FS_Subset, FS_CardinalityType
<1>5. ASSUME Cardinality(All) = 0, NEW s \in Senders PROVE Top(s) <= latest[s]
  <2>1. All = {}
    BY <1>4, <1>5, FS_EmptySet
  <2>2. ~(Top(s) > latest[s])
    <3> SUFFICES ASSUME Top(s) > latest[s] PROVE FALSE
      OBVIOUS
    <3>1. <<s, latest[s]>> \in All
      BY <1>1
    <3> QED
      BY <2>1, <3>1
  <2> QED
    BY <2>2, TopBounds DEF TypeOK
<1> QED
  BY <1>4, <1>5

-----------------------------------------------------------------------------
(* Steps.                                                                  *)

\* What the node takes of a round is among what was due, and above what is mined.
LEMMA BroadcastSends ==
  ASSUME TypeOK, Broadcast
  PROVE  /\ pc = "send" /\ pc' = "judge"
         /\ UNCHANGED <<latest, lastLatest, stuck, fewest, since, result, nonce>>
         /\ due' = [s \in Senders |-> {}]
         /\ sent' = [s \in Senders |-> [n \in Nonces |-> IF n \in due[s] THEN price[s]
                                                         ELSE sent[s][n]]]
         /\ held' \in [Senders -> [Nonces -> Nat]]
         /\ \A s \in Senders, n \in Nonces : n < nonce[s] => held'[s][n] = held[s][n]
         /\ forwarded' \subseteq Senders \X Nonces
         /\ \/ /\ price' = [s \in Senders |-> Outbid(price[s])]
               /\ next' = lastLatest
               /\ stalled' = [s \in Senders |-> 0]
            \/ UNCHANGED <<price, next, stalled>>
<1>1. PICK arrived \in SUBSET UNION {{s} \X due[s] : s \in Senders} :
        LET taken == {t \in arrived : Answer(t[1], t[2]) = "ok"}
            asksMore == \E t \in arrived : Answer(t[1], t[2]) \in {"below_basefee", "underpriced"}
        IN  /\ held' = [s \in Senders |-> [n \in Nonces |->
                          IF <<s, n>> \in taken THEN price[s] ELSE held[s][n]]]
            /\ \E lost \in SUBSET taken : forwarded' = (forwarded \cup taken) \ lost
            /\ IF Batched /\ asksMore
                 THEN /\ price' = [s \in Senders |-> Outbid(price[s])]
                      /\ next' = lastLatest
                      /\ stalled' = [s \in Senders |-> 0]
                 ELSE UNCHANGED <<price, next, stalled>>
  BY Zenon DEF Broadcast
<1> DEFINE taken == {t \in arrived : Answer(t[1], t[2]) = "ok"}
<1>2. held' = [s \in Senders |-> [n \in Nonces |->
                 IF <<s, n>> \in taken THEN price[s] ELSE held[s][n]]]
  BY <1>1
<1>3. \E lost \in SUBSET taken : forwarded' = (forwarded \cup taken) \ lost
  BY <1>1
<1>4. \/ /\ price' = [s \in Senders |-> Outbid(price[s])]
         /\ next' = lastLatest
         /\ stalled' = [s \in Senders |-> 0]
      \/ UNCHANGED <<price, next, stalled>>
  BY <1>1, Zenon
<1>5. taken \subseteq Senders \X Nonces
  BY DEF TypeOK
<1>6. ASSUME NEW s \in Senders, NEW n \in Nonces, n < nonce[s] PROVE <<s, n>> \notin taken
  BY <1>6 DEF Answer
<1> HIDE DEF taken
<1>7. forwarded' \subseteq Senders \X Nonces
  BY <1>3, <1>5 DEF TypeOK
<1>8. held' \in [Senders -> [Nonces -> Nat]]
  BY <1>2 DEF TypeOK
<1>9. \A s \in Senders, n \in Nonces : n < nonce[s] => held'[s][n] = held[s][n]
  BY <1>2, <1>6
<1>10. /\ pc = "send" /\ pc' = "judge"
       /\ UNCHANGED <<latest, lastLatest, stuck, fewest, since, result, nonce>>
       /\ due' = [s \in Senders |-> {}]
       /\ sent' = [s \in Senders |-> [n \in Nonces |-> IF n \in due[s] THEN price[s]
                                                       ELSE sent[s][n]]]
  BY Zenon DEF Broadcast, mainVars
<1> QED
  BY <1>4, <1>7, <1>8, <1>9, <1>10

\* Reading the pool decides what is due, per sender.
LEMMA ReadPoolSets ==
  ASSUME TypeOK, ReadPool
  PROVE  /\ pc = "pool" /\ pc' \in {"send", "judge", "done"}
         /\ UNCHANGED <<latest, fewest, since, nonce, held, forwarded, sent>>
         /\ lastLatest' \in [Senders -> 0..MaxNonce] /\ price' \in [Senders -> Nat]
         /\ next' \in [Senders -> 0..MaxNonce] /\ due' \in [Senders -> SUBSET Nonces]
         /\ stalled' \in [Senders -> 0..(StallRounds - 1)]
         /\ stuck' \in Nat
         /\ pc' # "send" => \A s \in Senders : due'[s] = {}
         /\ result' = "clear" \/ result' = result
         /\ result' = "clear" /\ result # "clear" => \A s \in Senders : Top(s) <= latest[s]
         /\ \A s \in Senders :
              /\ lastLatest'[s] \in {lastLatest[s], latest[s]}
              /\ \/ UNCHANGED <<price[s], next[s]>> /\ due'[s] = {}
                 \/ /\ price'[s] = (IF Lost(s) THEN Outbid(price[s]) ELSE price[s])
                    /\ next'[s] = EndDue(s)
                    /\ due'[s] = FirstDue(s)..(EndDue(s) - 1)
<1>0. /\ pc = "pool"
      /\ stuck' = Cardinality(UNION {{s} \X StuckNonces(s) : s \in Senders})
      /\ lastLatest' = [s \in Senders |-> IF Stuck(s) /\ Moved(s) THEN latest[s] ELSE lastLatest[s]]
      /\ stalled' = [s \in Senders |->
                       IF ~Stuck(s) THEN stalled[s]
                       ELSE IF Moved(s) \/ Lost(s) THEN 0
                       ELSE IF Outstanding(s) THEN stalled[s] + 1 ELSE stalled[s]]
      /\ price' = [s \in Senders |-> IF Stuck(s) /\ Lost(s) THEN Outbid(price[s]) ELSE price[s]]
      /\ next' = [s \in Senders |-> IF Stuck(s) THEN EndDue(s) ELSE next[s]]
      /\ due' = [s \in Senders |-> IF Stuck(s) THEN FirstDue(s)..(EndDue(s) - 1) ELSE {}]
      /\ \/ stuck' = 0 /\ pc' = "done" /\ result' = "clear"
         \/ (\A s \in Senders : due'[s] = {}) /\ pc' = "judge" /\ UNCHANGED result
         \/ pc' = "send" /\ UNCHANGED result
      /\ UNCHANGED <<latest, fewest, since, nonce, held, forwarded, sent>>
  BY DEF ReadPool, nodeVars
<1>1. stuck' \in Nat /\ (stuck' = 0 => \A s \in Senders : Top(s) <= latest[s])
  BY <1>0, StuckCount
<1>2. stuck' = 0 => \A s \in Senders : ~Stuck(s)
  <2> SUFFICES ASSUME stuck' = 0, NEW s \in Senders PROVE ~Stuck(s)
    OBVIOUS
  <2>1. Top(s) <= latest[s] /\ Top(s) \in Int /\ latest[s] \in Int
    BY <1>1, TopBounds, UnstickAssumption DEF TypeOK
  <2> QED
    BY <2>1 DEF Stuck
<1>3. lastLatest' \in [Senders -> 0..MaxNonce]
  BY <1>0 DEF TypeOK
<1>4. price' \in [Senders -> Nat]
  BY <1>0, OutbidIsEnough DEF TypeOK
<1>5. next' \in [Senders -> 0..MaxNonce] /\ due' \in [Senders -> SUBSET Nonces]
  <2>1. ASSUME NEW s \in Senders
        PROVE  EndDue(s) \in 0..MaxNonce /\ FirstDue(s)..(EndDue(s) - 1) \subseteq Nonces
    <3>1. FirstDue(s) \in 0..MaxNonce /\ EndDue(s) \in FirstDue(s)..MaxNonce /\ MaxNonce \in Nat
      BY DueBounds, UnstickAssumption
    <3> QED
      BY <3>1 DEF Nonces
  <2> QED
    BY <1>0, <2>1 DEF TypeOK
<1>6. stalled' \in [Senders -> 0..(StallRounds - 1)]
  <2>1. ASSUME NEW s \in Senders PROVE stalled'[s] \in 0..(StallRounds - 1)
    <3>1. stalled[s] \in 0..(StallRounds - 1) /\ StallRounds \in Nat \ {0}
      BY UnstickAssumption DEF TypeOK
    <3>2. stalled'[s] \in {0, stalled[s]} \/ (Outstanding(s) /\ ~Lost(s) /\ stalled'[s] = stalled[s] + 1)
      BY <1>0
    <3> QED
      BY <3>1, <3>2 DEF Lost
  <2> QED
    BY <1>0, <2>1
<1>7. \A s \in Senders :
        /\ lastLatest'[s] \in {lastLatest[s], latest[s]}
        /\ \/ UNCHANGED <<price[s], next[s]>> /\ due'[s] = {}
           \/ /\ price'[s] = (IF Lost(s) THEN Outbid(price[s]) ELSE price[s])
              /\ next'[s] = EndDue(s)
              /\ due'[s] = FirstDue(s)..(EndDue(s) - 1)
  BY <1>0
<1>8. pc' # "send" => \A s \in Senders : due'[s] = {}
  BY <1>0, <1>2
<1> QED
  BY <1>0, <1>1, <1>3, <1>4, <1>5, <1>6, <1>7, <1>8

\* Every step keeps the types.
LEMMA TypeStep == TypeOK /\ [Next]_vars => TypeOK'
<1> SUFFICES ASSUME TypeOK, [Next]_vars PROVE TypeOK'
  OBVIOUS
<1>1. CASE ReadNonces
  BY <1>1 DEF ReadNonces, TypeOK, senderVars, mainVars, nodeVars
<1>2. CASE ReadPool
  <2>1. result' \in {"none", "clear", "gave_up", "failed"}
    BY <1>2, ReadPoolSets DEF TypeOK
  <2> QED
    BY <1>2, <2>1, ReadPoolSets DEF TypeOK
<1>3. CASE Broadcast
  <2>1. sent' \in [Senders -> [Nonces -> Nat]] /\ due' \in [Senders -> SUBSET Nonces]
    BY <1>3, BroadcastSends DEF TypeOK
  <2>2. /\ price' \in [Senders -> Nat] /\ next' \in [Senders -> 0..MaxNonce]
        /\ stalled' \in [Senders -> 0..(StallRounds - 1)]
    BY <1>3, BroadcastSends, OutbidIsEnough, UnstickAssumption DEF TypeOK
  <2> QED
    BY <1>3, <2>1, <2>2, BroadcastSends DEF TypeOK
<1>4. CASE Judge
  BY <1>4, UnstickAssumption DEF Judge, TypeOK, senderVars, nodeVars
<1>5. CASE Sleep
  BY <1>5, UnstickAssumption DEF Sleep, TypeOK, senderVars, nodeVars
<1>6. CASE Fatal
  BY <1>6 DEF Fatal, TypeOK, senderVars, nodeVars
<1>7. ASSUME NEW s \in Senders, Mine(s) PROVE TypeOK'
  <2>1. /\ nonce[s] \in Nonces /\ nonce' = [nonce EXCEPT ![s] = @ + 1]
        /\ held' = [held EXCEPT ![s][nonce[s]] = None]
        /\ forwarded' = forwarded \ {<<s, nonce[s]>>}
        /\ UNCHANGED <<pc, latest, price, next, lastLatest, stalled, due, stuck, fewest, since,
                       result, sent>>
    BY <1>7 DEF Mine, senderVars, mainVars
  <2>2. nonce' \in [Senders -> 0..MaxNonce]
    BY <2>1, UnstickAssumption DEF TypeOK, Nonces
  <2>3. held' \in [Senders -> [Nonces -> Nat]]
    BY <2>1 DEF TypeOK, None
  <2> QED
    BY <2>1, <2>2, <2>3 DEF TypeOK
<1>8. CASE UNCHANGED vars
  BY <1>8 DEF vars, TypeOK, senderVars, mainVars, nodeVars
<1> QED
  BY <1>1, <1>2, <1>3, <1>4, <1>5, <1>6, <1>7, <1>8 DEF Next, Step

\* What is read of the chain is at most what it is at.
LEMMA ChainStep == TypeOK /\ ChainInv /\ [Next]_vars => ChainInv'
<1> SUFFICES ASSUME TypeOK, ChainInv, [Next]_vars PROVE ChainInv'
  OBVIOUS
<1>1. CASE ReadNonces
  <2>1. UNCHANGED <<lastLatest, nonce, held>>
    BY <1>1, Zenon DEF ReadNonces, senderVars, nodeVars
  <2>2. \A s \in Senders : latest'[s] <= nonce[s]
    BY <1>1 DEF ReadNonces, TypeOK
  <2> QED
    BY <2>1, <2>2 DEF ChainInv
<1>2. CASE ReadPool
  <2>1. UNCHANGED <<latest, nonce, held>>
    BY <1>2, ReadPoolSets
  <2>2. \A s \in Senders : lastLatest'[s] \in {lastLatest[s], latest[s]}
    BY <1>2, ReadPoolSets
  <2> QED
    BY <2>1, <2>2 DEF ChainInv
<1>3. CASE Broadcast
  BY <1>3, BroadcastSends DEF ChainInv
<1>4. ASSUME NEW s \in Senders, Mine(s) PROVE ChainInv'
  <2>1. /\ nonce[s] \in Nonces /\ nonce' = [nonce EXCEPT ![s] = @ + 1]
        /\ held' = [held EXCEPT ![s][nonce[s]] = None]
        /\ UNCHANGED <<latest, lastLatest>>
    BY <1>4 DEF Mine, senderVars
  <2>2. ASSUME NEW r \in Senders
        PROVE  /\ latest[r] <= nonce'[r] /\ lastLatest[r] <= nonce'[r]
               /\ \A n \in Nonces : n < nonce'[r] => held'[r][n] = None
    <3>1. /\ latest[r] \in Int /\ lastLatest[r] \in Int /\ nonce[r] \in Int
          /\ latest[r] <= nonce[r] /\ lastLatest[r] <= nonce[r]
      BY UnstickAssumption DEF TypeOK, ChainInv
    <3>2. nonce'[r] = IF r = s THEN nonce[s] + 1 ELSE nonce[r]
      BY <2>1 DEF TypeOK
    <3>3. ASSUME NEW n \in Nonces
          PROVE  held'[r][n] = IF r = s /\ n = nonce[s] THEN None ELSE held[r][n]
      BY <2>1 DEF TypeOK
    <3>4. ASSUME NEW n \in Nonces, n < nonce'[r] PROVE held'[r][n] = None
      <4>1. n < nonce[r] \/ (r = s /\ n = nonce[s])
        BY <3>1, <3>2, <3>4, UnstickAssumption DEF Nonces
      <4> QED
        BY <3>3, <4>1 DEF ChainInv
    <3> QED
      BY <3>1, <3>2, <3>4
  <2> QED
    BY <2>1, <2>2 DEF ChainInv
<1>5. CASE Judge \/ Sleep \/ Fatal \/ UNCHANGED vars
  <2>1. UNCHANGED <<latest, lastLatest, nonce, held>>
    BY <1>5, Zenon DEF Judge, Sleep, Fatal, vars, senderVars, nodeVars
  <2> QED
    BY <2>1 DEF ChainInv
<1> QED
  BY <1>1, <1>2, <1>3, <1>4, <1>5 DEF Next, Step

\* The window holds, and what is below sender.next is replaced.
LEMMA SendStep == TypeOK /\ ChainInv /\ SendInv /\ [Next]_vars => SendInv'
<1> SUFFICES ASSUME TypeOK, ChainInv, SendInv, [Next]_vars PROVE SendInv'
  OBVIOUS
<1>0. ASSUME NEW s \in Senders
      PROVE  /\ latest[s] \in 0..MaxNonce /\ next[s] \in 0..MaxNonce /\ nonce[s] \in 0..MaxNonce
             /\ lastLatest[s] \in 0..MaxNonce /\ price[s] \in Nat /\ due[s] \subseteq Nonces
             /\ latest[s] <= nonce[s] /\ lastLatest[s] <= nonce[s]
             /\ MaxNonce \in Nat /\ Window \in Nat
             /\ \A n \in Nonces : n \in 0..MaxNonce /\ sent[s][n] \in Nat
  BY UnstickAssumption DEF TypeOK, ChainInv, Nonces
<1>1. CASE ReadNonces
  <2>1. UNCHANGED <<price, next, due, nonce, sent>> /\ pc = "nonces" /\ pc' = "pool"
    BY <1>1 DEF ReadNonces, senderVars, nodeVars
  <2> QED
    BY <2>1 DEF SendInv
<1>2. CASE ReadPool
  <2> SUFFICES ASSUME NEW s \in Senders
               PROVE  /\ pc' # "send" => due'[s] = {}
                      /\ \A n \in due'[s] : n < latest'[s] + Window /\ n < next'[s]
                      /\ \A n \in nonce'[s]..(next'[s] - 1) : n \in due'[s] \/ sent'[s][n] = price'[s]
                      /\ \A n \in Nonces :
                           /\ sent'[s][n] # None => n < nonce'[s] + Window
                           /\ sent'[s][n] <= price'[s]
                           /\ n \in due'[s] \/ n >= next'[s] => Outbids(price'[s], sent'[s][n])
    BY DEF SendInv
  <2>1. UNCHANGED <<latest, nonce, sent>> /\ (pc' # "send" => due'[s] = {}) /\ due[s] = {}
    BY <1>2, ReadPoolSets DEF SendInv
  <2>2. CASE UNCHANGED <<price[s], next[s]>> /\ due'[s] = {}
    BY <2>1, <2>2 DEF SendInv
  <2>3. CASE /\ price'[s] = (IF Lost(s) THEN Outbid(price[s]) ELSE price[s])
             /\ next'[s] = EndDue(s)
             /\ due'[s] = FirstDue(s)..(EndDue(s) - 1)
    <3>1. /\ FirstDue(s) \in Nat /\ EndDue(s) \in Nat
          /\ EndDue(s) > FirstDue(s) => EndDue(s) <= latest[s] + Window
      BY DueBounds, <1>0
    <3>2. \A n \in due'[s] : n < latest[s] + Window /\ n < next'[s]
      BY <1>0, <2>3, <3>1
    <3>3. CASE Lost(s)
      <4>1. FirstDue(s) <= nonce[s]
        BY <1>0, <3>3, DueBounds
      <4>2. \A n \in nonce[s]..(next'[s] - 1) : n \in due'[s]
        BY <1>0, <2>3, <3>1, <4>1
      <4>3. price'[s] = Outbid(price[s])
        BY <2>3, <3>3
      <4>4. ASSUME NEW n \in Nonces
            PROVE  sent[s][n] <= price'[s] /\ Outbids(price'[s], sent[s][n])
        <5>1. sent[s][n] \in 0..price[s]
          BY <1>0 DEF SendInv
        <5> QED
          BY <1>0, <4>3, <5>1, OutbidIsEnough
      <4> QED
        BY <2>1, <3>2, <4>2, <4>4 DEF SendInv
    <3>4. CASE ~Lost(s)
      <4>1. price'[s] = price[s]
        BY <2>3, <3>4
      <4>2. FirstDue(s) >= next[s] /\ (FirstDue(s) = next[s] \/ FirstDue(s) = latest[s])
        BY <1>0, <3>4, DueBounds
      <4>3. ASSUME NEW n \in nonce[s]..(next'[s] - 1)
            PROVE  n \in due'[s] \/ n \in nonce[s]..(next[s] - 1)
        BY <1>0, <2>3, <3>1, <4>2
      <4>4. ASSUME NEW n \in Nonces, n \in due'[s] \/ n >= next'[s] PROVE n >= next[s]
        <5>1. EndDue(s) >= FirstDue(s)
          BY DueBounds, <3>1
        <5> QED
          BY <1>0, <2>3, <3>1, <4>2, <4>4, <5>1
      <4> QED
        BY <2>1, <3>2, <4>1, <4>3, <4>4 DEF SendInv
    <3> QED
      BY <3>3, <3>4
  <2> QED
    BY <1>2, <2>2, <2>3, ReadPoolSets
<1>3. CASE Broadcast
  <2> SUFFICES ASSUME NEW s \in Senders
               PROVE  /\ due'[s] = {}
                      /\ \A n \in nonce'[s]..(next'[s] - 1) : sent'[s][n] = price'[s]
                      /\ \A n \in Nonces :
                           /\ sent'[s][n] # None => n < nonce'[s] + Window
                           /\ sent'[s][n] <= price'[s]
                           /\ n >= next'[s] => Outbids(price'[s], sent'[s][n])
    BY DEF SendInv
  <2>1. due'[s] = {} /\ UNCHANGED <<latest, lastLatest, nonce>>
    BY <1>3, BroadcastSends
  <2>2. ASSUME NEW n \in Nonces
        PROVE  sent'[s][n] = IF n \in due[s] THEN price[s] ELSE sent[s][n]
    BY <1>3, BroadcastSends
  <2>3. ASSUME NEW n \in Nonces PROVE sent'[s][n] \in 0..price[s]
    BY <1>0, <2>2 DEF SendInv
  <2>4. ASSUME NEW n \in Nonces PROVE sent'[s][n] # None => n < nonce[s] + Window
    BY <1>0, <2>2 DEF SendInv
  <2>5. CASE price'[s] = Outbid(price[s]) /\ next'[s] = lastLatest[s]
    <3>1. \A n \in Nonces : sent'[s][n] <= price'[s] /\ Outbids(price'[s], sent'[s][n])
      BY <1>0, <2>3, <2>5, OutbidIsEnough
    <3>2. nonce[s]..(next'[s] - 1) = {}
      BY <1>0, <2>5
    <3> QED
      BY <2>1, <2>4, <3>1, <3>2
  <2>6. CASE UNCHANGED <<price, next>>
    <3>1. ASSUME NEW n \in nonce[s]..(next[s] - 1) PROVE n \in Nonces /\ sent'[s][n] = price[s]
      <4>1. n \in Nonces
        BY <1>0 DEF Nonces
      <4> QED
        BY <2>2, <4>1 DEF SendInv
    <3>2. ASSUME NEW n \in Nonces, n >= next[s] PROVE Outbids(price[s], sent'[s][n])
      <4>1. n \notin due[s]
        BY <1>0, <3>2 DEF SendInv
      <4> QED
        BY <2>2, <3>2, <4>1 DEF SendInv
    <3> QED
      BY <2>1, <2>3, <2>4, <2>6, <3>1, <3>2
  <2> QED
    BY <1>3, <2>5, <2>6, BroadcastSends
<1>4. ASSUME NEW s \in Senders, Mine(s) PROVE SendInv'
  <2>1. nonce' = [nonce EXCEPT ![s] = @ + 1] /\ UNCHANGED <<pc, latest, price, next, due, sent>>
    BY <1>4, Zenon DEF Mine, senderVars
  <2>2. \A r \in Senders : nonce'[r] \in Int /\ nonce'[r] >= nonce[r]
    BY <1>0, <2>1 DEF TypeOK
  <2>3. ASSUME NEW r \in Senders
        PROVE  /\ nonce'[r]..(next[r] - 1) \subseteq nonce[r]..(next[r] - 1)
               /\ \A n \in Nonces : n < nonce[r] + Window => n < nonce'[r] + Window
    BY <1>0, <2>2
  <2> QED
    BY <2>1, <2>3 DEF SendInv
<1>5. CASE Judge \/ Sleep \/ Fatal \/ UNCHANGED vars
  <2>1. UNCHANGED <<latest, price, next, due, nonce, sent>>
    BY <1>5, Zenon DEF Judge, Sleep, Fatal, vars, senderVars, nodeVars
  <2>2. pc' # "send" => pc # "send"
    BY <1>5 DEF Judge, Sleep, Fatal, vars
  <2> QED
    BY <2>1, <2>2 DEF SendInv
<1> QED
  BY <1>1, <1>2, <1>3, <1>4, <1>5 DEF Next, Step

-----------------------------------------------------------------------------
(* Theorems.                                                               *)

\* IInv holds initially, and every step preserves it.
LEMMA Inductive == Spec => []IInv
<1>1. Init => IInv
  <2> SUFFICES ASSUME Init PROVE IInv
    OBVIOUS
  <2>1. TypeOK
    BY UnstickAssumption DEF Init, TypeOK, None, Nonces
  <2>2. ChainInv
    BY UnstickAssumption DEF Init, ChainInv, Nonces
  <2>3. SendInv
    <3>1. \A s \in Senders : price[s] \in Nat /\ \A n \in Nonces : sent[s][n] = 0
      BY <2>1 DEF Init, TypeOK, None
    <3> QED
      BY <3>1, UnstickAssumption DEF Init, SendInv, Outbids, None
  <2> QED
    BY <2>1, <2>2, <2>3 DEF IInv
<1>2. IInv /\ [Next]_vars => IInv'
  BY TypeStep, ChainStep, SendStep DEF IInv
<1> QED
  BY <1>1, <1>2, PTL DEF Spec

\* However rounds, resends and stale nonces alternate, no nonce window or more past the
\* on-chain one is sent, and everything below sender.next has been sent at its price.
THEOREM WindowHolds == Spec => []WindowRespected
<1>1. IInv => WindowRespected
  BY DEF IInv, SendInv, WindowRespected
<1> QED
  BY <1>1, Inductive, PTL

\* A replacement that is sent again pays the 10% more the pool asks, because it is due
\* again only after sender.price was raised by a quarter.
THEOREM ResendsOutbid == Spec => ResendOutbids
<1>1. ASSUME IInv, [Next]_vars
      PROVE  [\A s \in Senders : \A n \in Nonces :
                pc = "send" /\ pc' = "judge" /\ n \in due[s] /\ sent[s][n] >= 4 =>
                  10 * sent'[s][n] >= 11 * sent[s][n]]_vars
  <2> SUFFICES ASSUME NEW s \in Senders, NEW n \in Nonces, pc = "send", pc' = "judge",
                      n \in due[s], sent[s][n] >= 4
               PROVE  10 * sent'[s][n] >= 11 * sent[s][n]
    OBVIOUS
  <2>1. Broadcast
    BY <1>1 DEF Next, Step, ReadNonces, ReadPool, Judge, Sleep, Fatal, Mine, vars
  <2>2. sent'[s][n] = price[s]
    BY <1>1, <2>1, BroadcastSends DEF IInv
  <2>3. Outbids(price[s], sent[s][n])
    BY <1>1 DEF IInv, SendInv
  <2> QED
    BY <2>2, <2>3 DEF Outbids
<1> QED
  BY <1>1, Inductive, PTL DEF Spec, ResendOutbids

\* When unstick reports that the pool holds nothing of the senders it holds nothing, not
\* even above nonces that were read before and have been mined since.
THEOREM ClearIsClear == Spec => ClearMeansClear
<1>1. ASSUME IInv, [Next]_vars
      PROVE  [result' = "clear" /\ result # "clear" =>
                \A s \in Senders : \A n \in Nonces : held[s][n] = None]_vars
  <2> SUFFICES ASSUME result' = "clear", result # "clear", NEW s \in Senders, NEW n \in Nonces,
                      held[s][n] # None
               PROVE  FALSE
    OBVIOUS
  <2>1. ReadPool
    BY <1>1 DEF Next, Step, ReadNonces, Broadcast, Judge, Sleep, Fatal, Mine, vars, mainVars
  <2>2. Top(s) <= latest[s] /\ n < Top(s) /\ latest[s] <= nonce[s]
    BY <1>1, <2>1, ReadPoolSets, TopBounds DEF IInv, ChainInv
  <2>3. n \in Int /\ Top(s) \in Int /\ latest[s] \in Int /\ nonce[s] \in Int
    <3>1. Top(s) \in 0..MaxNonce /\ latest[s] \in 0..MaxNonce /\ nonce[s] \in 0..MaxNonce
      BY <1>1, TopBounds DEF IInv, TypeOK
    <3> QED
      BY <3>1, UnstickAssumption DEF Nonces
  <2>4. n < nonce[s]
    BY <2>2, <2>3
  <2> QED
    BY <1>1, <2>4 DEF IInv, ChainInv
<1> QED
  BY <1>1, Inductive, PTL DEF Spec, ClearMeansClear
==============================================================================
