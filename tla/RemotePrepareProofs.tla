------------------------- MODULE RemotePrepareProofs -------------------------
(***************************************************************************)
(* Proofs about RemotePrepare for any accounts, lanes, prices and          *)
(* left-overs: what is signed leaves no nonce gap, account 0 can pay for   *)
(* what it has sent, and the senders for the run.                          *)
(***************************************************************************)
EXTENDS RemotePrepare, FiniteSetTheorems, WellFoundedInduction, TLAPS

-----------------------------------------------------------------------------
(* The inductive invariant, in the parts the properties need.              *)

\* What an earlier run left is mined in nonce order, and nothing is added to it.
PoolInv ==
  \A s \in Senders :
    /\ pool[s] \subseteq Keys \X (0..(MaxNonce - 1))
    /\ \A k \in Keys : nonce[s][k] <= MaxNonce

\* A lane is signed from the first nonce that is neither mined nor about to be.
FirstInv ==
  pc = "signed" => \A s \in Senders, k \in Keys :
    /\ first[s][k] >= nonce[s][k]
    /\ \A m \in nonce[s][k]..(first[s][k] - 1) : <<k, m>> \in pool[s]

NoWrap == NumAccounts * GasPerCall * MaxFee < Word

\* Account 0's transfers pay different senders, and it has what they take together.
FundInv ==
  funding = "index0" =>
    /\ pc \in {"stuck", "short", "fund"} => coming = {}
    /\ \A g, h \in coming : g # h => g \cap h = {}
    /\ pc \in {"settle", "pause"} /\ NoWrap => bank >= Price(UNION coming)

\* The left-overs are the protocol nonce's, which refuseStuckSenders looks at.
OnProtocolNonce == \A left \in LeftOver : \A t \in left : t[1] = 0

\* Of senders that passed refuseStuckSenders nothing is mined any more, so a sender that
\* is not short stays so.
PayInv ==
  OnProtocolNonce =>
    /\ \A s \in Senders : \A t \in pool[s] : t[1] = 0
    /\ pc \notin {"stuck", "refused", "failed"} =>
         \A s \in Senders : <<0, nonce[s][0]>> \notin pool[s]
    /\ pc \in {"fund", "settle", "pause", "nonces", "signed"} =>
         \A s \in Senders \ short : balance[s] >= Need
    /\ pc \in {"nonces", "signed"} => short = {}

\* Nobody is asked for before the short senders are known.
AskInv == pc \in {"stuck", "short"} => asked = {}

IInv == TypeOK /\ AskInv /\ PoolInv /\ FirstInv /\ FundInv /\ PayInv

-----------------------------------------------------------------------------
(* Operators.                                                              *)

\* The constants the arithmetic is about.
LEMMA Constants ==
  /\ NumAccounts \in Nat \ {0} /\ NumTxs \in Nat \ {0} /\ NonceLanes \in Nat \ {0}
  /\ Need \in Nat \ {0} /\ CallsPerTx \in Nat \ {0} /\ GasPerCall \in Nat \ {0}
  /\ MaxFee \in Nat \ {0} /\ Scale \in Nat \ {0} /\ Word \in Nat \ {0}
  /\ TempoNonceKey \in Nat /\ FundTimeout \in Nat /\ MaxNonce \in Nat /\ Account0 \subseteq Nat
  /\ 0 \in Keys
BY PrepareAssumption DEF Keys

\* A non-empty set of naturals has a least element.
LEMMA MinOfNats ==
  ASSUME NEW S, S \subseteq Nat, S # {}
  PROVE  Min(S) \in S /\ \A y \in S : Min(S) <= y
<1>1. PICK m \in S : \A y \in S : ~(<<y, m>> \in OpToRel(<, Nat))
  BY NatLessThanWellFounded, WFMin
<1>2. \A y \in S : ~(y < m)
  BY <1>1 DEF OpToRel
<1>3. \E x \in S : \A y \in S : x <= y
  <2>1. m \in S
    BY <1>1, Zenon
  <2> QED
    BY <1>2, <2>1
<1> QED
  BY <1>3, Zenon DEF Min

\* PendingNonce is one past what could be executed now.
LEMMA PendingNonceIs ==
  ASSUME TypeOK, PoolInv, NEW s \in Senders, NEW k \in Keys
  PROVE  LET n == PendingNonce(s, k)
         IN  /\ n \in nonce[s][k]..MaxNonce
             /\ \A m \in nonce[s][k]..(n - 1) : <<k, m>> \in pool[s]
             /\ <<k, n>> \notin pool[s]
<1> DEFINE S == {n \in nonce[s][k]..MaxNonce : <<k, n>> \notin pool[s]}
<1>1. nonce[s][k] \in Nat /\ nonce[s][k] <= MaxNonce /\ MaxNonce \in Nat
  BY Constants DEF TypeOK, PoolInv
<1>2. <<k, MaxNonce>> \notin pool[s]
  BY <1>1 DEF PoolInv
<1>3. S \subseteq Nat /\ S # {}
  <2>1. MaxNonce \in S
    BY <1>1, <1>2
  <2> QED
    BY <1>1, <2>1
<1>4. Min(S) \in S /\ \A y \in S : Min(S) <= y
  BY <1>3, MinOfNats
<1>5. \E n \in nonce[s][k]..MaxNonce :
        /\ \A m \in nonce[s][k]..(n - 1) : <<k, m>> \in pool[s]
        /\ <<k, n>> \notin pool[s]
  <2> HIDE DEF S
  <2>1. Min(S) \in nonce[s][k]..MaxNonce /\ <<k, Min(S)>> \notin pool[s]
    BY <1>4 DEF S
  <2>2. ASSUME NEW m \in nonce[s][k]..(Min(S) - 1) PROVE <<k, m>> \in pool[s]
    <3>1. m \in nonce[s][k]..MaxNonce /\ ~(Min(S) <= m)
      BY <1>1, <2>1
    <3> QED
      BY <1>4, <3>1 DEF S
  <2> QED
    BY <2>1, <2>2
<1> QED
  BY <1>5, Zenon DEF PendingNonce

\* A finite set of senders has a price.
LEMMA PriceType ==
  ASSUME NEW G, G \subseteq Senders
  PROVE  /\ IsFiniteSet(G) /\ Cardinality(G) \in Nat /\ Cardinality(G) <= NumAccounts
         /\ Price(G) \in Nat
<1>1. IsFiniteSet(Senders) /\ Cardinality(Senders) = NumAccounts
  BY Constants, FS_Interval DEF Senders
<1>2. IsFiniteSet(G) /\ Cardinality(G) \in Nat /\ Cardinality(G) <= NumAccounts
  BY <1>1, FS_Subset, FS_CardinalityType
<1>3. Cardinality(G) * GasPerCall \in Nat /\ Need * Cardinality(G) \in Nat
  BY <1>2, Constants
<1>4. Cardinality(G) * GasPerCall * MaxFee \in Nat
  BY <1>3, Constants
<1>5. (Cardinality(G) * GasPerCall * MaxFee) \div Scale \in Nat
  BY <1>4, Constants
<1> QED
  BY <1>2, <1>3, <1>5 DEF Price

\* The whole is at least the sum of what is rounded down.
LEMMA DivIsSuperadditive ==
  ASSUME NEW a \in Nat, NEW b \in Nat, NEW c \in Nat \ {0}
  PROVE  (a \div c) + (b \div c) <= (a + b) \div c
BY SMT

\* Paying two groups takes no more than paying both at once.
LEMMA PriceSplits ==
  ASSUME NEW G, NEW H, G \subseteq Senders, H \subseteq Senders, G \cap H = {}
  PROVE  Price(G) + Price(H) <= Price(G \cup H)
<1> DEFINE g == Cardinality(G)
           h == Cardinality(H)
<1>1. Cardinality(G \cup H) = g + h /\ g \in Nat /\ h \in Nat
  <2>1. IsFiniteSet(G) /\ IsFiniteSet(H) /\ g \in Nat /\ h \in Nat
    BY PriceType
  <2>2. Cardinality(G \cup H) = g + h - Cardinality(G \cap H)
    BY <2>1, FS_Union
  <2>3. Cardinality(G \cap H) = 0
    BY FS_EmptySet
  <2> QED
    BY <2>1, <2>2, <2>3
<1> HIDE DEF g, h
<1>2. (g + h) * GasPerCall * MaxFee = g * GasPerCall * MaxFee + h * GasPerCall * MaxFee
  BY <1>1, Constants
<1>3. Need * (g + h) = Need * g + Need * h
  BY <1>1, Constants
<1>4. g * GasPerCall * MaxFee \in Nat /\ h * GasPerCall * MaxFee \in Nat
  <2>1. g * GasPerCall \in Nat /\ h * GasPerCall \in Nat
    BY <1>1, Constants
  <2> QED
    BY <2>1, Constants
<1>5. (g * GasPerCall * MaxFee) \div Scale + (h * GasPerCall * MaxFee) \div Scale
        <= ((g + h) * GasPerCall * MaxFee) \div Scale
  BY <1>2, <1>4, DivIsSuperadditive, Constants
<1>6. /\ (g * GasPerCall * MaxFee) \div Scale \in Nat
      /\ (h * GasPerCall * MaxFee) \div Scale \in Nat
      /\ ((g + h) * GasPerCall * MaxFee) \div Scale \in Nat
      /\ Need * g \in Nat /\ Need * h \in Nat
  BY <1>1, <1>2, <1>4, Constants
<1>7. /\ Price(G) = Need * g + (g * GasPerCall * MaxFee) \div Scale
      /\ Price(H) = Need * h + (h * GasPerCall * MaxFee) \div Scale
      /\ Price(G \cup H) = Need * (g + h) + ((g + h) * GasPerCall * MaxFee) \div Scale
  BY <1>1 DEF Price, g, h
<1> QED
  BY <1>3, <1>5, <1>6, <1>7

\* The groups hold short senders, and no sender is in two of them.
LEMMA GroupsDisjoint ==
  /\ \A g \in Groups : g \subseteq short
  /\ \A g, h \in Groups : g # h => g \cap h = {}
<1> DEFINE Of(i) == {s \in short : Cardinality({r \in short : r < s}) \div CallsPerTx = i}
           I == 0..((Cardinality(short) - 1) \div CallsPerTx)
<1>1. Groups = {Of(i) : i \in I}
  BY Zenon DEF Groups
<1>2. \A i : Of(i) \subseteq short
  BY Zenon
<1>3. \A i, j : i # j => Of(i) \cap Of(j) = {}
  BY Zenon
<1> HIDE DEF Of, I
<1> QED
  BY <1>1, <1>2, <1>3

\* Below the limit of a word the check of account 0 is of what the groups take.
LEMMA CostCovers ==
  ASSUME TypeOK, NoWrap, NEW sent, sent \subseteq Groups
  PROVE  Price(UNION sent) <= Cost
<1> DEFINE g == Cardinality(UNION sent)
           h == Cardinality(short)
<1>1. UNION sent \subseteq short /\ short \subseteq Senders
  BY GroupsDisjoint DEF TypeOK
<1>2. g \in Nat /\ h \in Nat /\ g <= h /\ h <= NumAccounts
  BY <1>1, PriceType, FS_Subset
<1> HIDE DEF g, h
<1>3. /\ Price(UNION sent) = Need * g + (g * GasPerCall * MaxFee) \div Scale
      /\ Cost = Need * h + ((h * GasPerCall * MaxFee) % Word) \div Scale
  BY DEF Price, Cost, g, h
<1>4. Need * g <= Need * h /\ Need * g \in Nat /\ Need * h \in Nat
  BY <1>2, Constants
<1>5. /\ g * GasPerCall <= h * GasPerCall /\ h * GasPerCall <= NumAccounts * GasPerCall
      /\ g * GasPerCall \in Nat /\ h * GasPerCall \in Nat /\ NumAccounts * GasPerCall \in Nat
  BY <1>2, Constants
<1>6. /\ g * GasPerCall * MaxFee <= h * GasPerCall * MaxFee
      /\ h * GasPerCall * MaxFee <= NumAccounts * GasPerCall * MaxFee
      /\ g * GasPerCall * MaxFee \in Nat /\ h * GasPerCall * MaxFee \in Nat
  BY <1>5, Constants
<1> DEFINE x == g * GasPerCall * MaxFee
           y == h * GasPerCall * MaxFee
<1>7. y < Word /\ x <= y /\ x \in Nat /\ y \in Nat
  BY <1>6, <1>5, Constants DEF NoWrap
<1> HIDE DEF x, y
<1>8. y % Word = y /\ x \div Scale <= y \div Scale /\ x \div Scale \in Nat /\ y \div Scale \in Nat
  <2>1. y % Word = y
    BY <1>7, Constants, SMT
  <2>2. x \div Scale <= y \div Scale
    <3>1. (y - x) \in Nat /\ x + (y - x) = y
      BY <1>7
    <3>2. (x \div Scale) + ((y - x) \div Scale) <= (x + (y - x)) \div Scale
      BY <1>7, <3>1, DivIsSuperadditive, Constants
    <3>3. (y - x) \div Scale \in Nat /\ x \div Scale \in Nat /\ y \div Scale \in Nat
      BY <1>7, <3>1, Constants
    <3> QED
      BY <3>1, <3>2, <3>3
  <2> QED
    BY <1>7, <2>1, <2>2, Constants
<1> QED
  BY <1>3, <1>4, <1>8 DEF x, y

\* Transaction i of an account is the one after those of its lane before it.
LEMMA LaneIndex ==
  ASSUME NEW i \in Nat, NEW j \in Nat, j < i \div NonceLanes
  PROVE  \E e \in 0..i : e \div NonceLanes = j /\ LaneKey(e) = LaneKey(i)
<1> DEFINE q == i \div NonceLanes
           r == i - q * NonceLanes
           e == r + j * NonceLanes
<1>1. q \in Nat /\ NonceLanes * q <= i /\ i < NonceLanes * q + NonceLanes
  BY Constants, SMT
<1>2. r \in Nat /\ r < NonceLanes /\ i = r + q * NonceLanes
  BY <1>1, Constants
<1> HIDE DEF r
<1>3. e \div NonceLanes = j /\ e % NonceLanes = r
  BY <1>2, Constants, SMT
<1>4. i % NonceLanes = r
  <2>1. (r + q * NonceLanes) % NonceLanes = r
    <3> HIDE DEF q
    <3> QED
      BY <1>1, <1>2, Constants, SMT
  <2> QED
    BY <1>2, <2>1
<1>5. e \in 0..i
  <2>1. j * NonceLanes <= q * NonceLanes /\ j * NonceLanes \in Nat /\ q * NonceLanes \in Nat
    BY <1>1, Constants
  <2> QED
    BY <1>2, <2>1
<1> QED
  BY <1>3, <1>4, <1>5 DEF LaneKey

-----------------------------------------------------------------------------
(* Steps.                                                                  *)

\* Every step keeps the types.
LEMMA TypeStep == TypeOK /\ AskInv /\ PoolInv /\ [Next]_vars => TypeOK'
<1> SUFFICES ASSUME TypeOK, AskInv, PoolInv, [Next]_vars PROVE TypeOK'
  OBVIOUS
<1>1. CASE RefuseStuck \/ AllAsked \/ Fails
  BY <1>1 DEF RefuseStuck, AllAsked, Fails, TypeOK, chainVars
<1>2. CASE FindShort
  <2>1. asked' \subseteq short'
    BY <1>2 DEF FindShort, AskInv
  <2> QED
    BY <1>2, <2>1 DEF FindShort, Short, TypeOK, chainVars
<1>3. CASE AskFaucet
  <2>1. Min(short \ asked) \in short \ asked
    <3>1. short \ asked # {} /\ short \subseteq Senders
      BY <1>3 DEF AskFaucet, TypeOK
    <3>2. Senders \subseteq Nat
      BY Constants DEF Senders
    <3>3. short \ asked \subseteq Nat
      BY <3>1, <3>2
    <3> QED
      BY <3>1, <3>3, MinOfNats, Zenon
  <2>2. asked' \subseteq short /\ coming' \subseteq SUBSET Senders
    BY <1>3, <2>1 DEF AskFaucet, TypeOK
  <2> QED
    BY <1>3, <2>2 DEF AskFaucet, TypeOK
<1>4. CASE FundFromIndex0
  <2>1. Groups \subseteq SUBSET Senders
    <3>1. \A g \in Groups : g \subseteq short
      BY GroupsDisjoint
    <3> QED
      BY <3>1 DEF TypeOK
  <2>2. coming' \subseteq SUBSET Senders /\ pc' \in {"failed", "settle"}
    BY <1>4, <2>1 DEF FundFromIndex0, TypeOK
  <2>3. UNCHANGED <<funding, short, asked, elapsed, first, balance, bank, nonce, pool>>
    BY <1>4 DEF FundFromIndex0
  <2> QED
    BY <2>2, <2>3 DEF TypeOK
<1>5. CASE Settle \/ PauseOver
  BY <1>5, Constants DEF Settle, PauseOver, Short, TypeOK, chainVars
<1>6. CASE ReadNonces
  <2>1. first' \in [Senders -> [Keys -> Nat \cup {-1}]]
    <3>1. ASSUME NEW s \in Senders PROVE PendingNonce(s, 0) \in Nat
      <4>1. PendingNonce(s, 0) \in nonce[s][0]..MaxNonce
        BY PendingNonceIs, Constants
      <4> QED
        BY <4>1, Constants DEF TypeOK
    <3>2. ASSUME NEW s \in Senders, NEW k \in Keys PROVE nonce[s][k] \in Nat
      BY DEF TypeOK
    <3> QED
      BY <1>6, <3>1, <3>2 DEF ReadNonces
  <2> QED
    BY <1>6, <2>1 DEF ReadNonces, TypeOK, chainVars
<1>7. ASSUME MineFunding, pc \notin {"signed", "refused", "failed"} PROVE TypeOK'
  <2>1. PICK g \in coming :
         /\ coming' = coming \ {g}
         /\ IF funding = "index0" THEN bank >= Price(g) /\ bank' = bank - Price(g) ELSE UNCHANGED bank
         /\ balance' = [s \in Senders |-> IF s \in g THEN balance[s] + Need ELSE balance[s]]
         /\ UNCHANGED <<funding, pc, short, asked, elapsed, first, nonce, pool>>
    BY <1>7 DEF MineFunding
  <2>2. Price(g) \in Nat
    BY <2>1, PriceType DEF TypeOK
  <2>3. bank' \in Nat
    BY <2>1, <2>2 DEF TypeOK
  <2>4. balance' \in [Senders -> Nat]
    BY <2>1, Constants DEF TypeOK
  <2>5. coming' \subseteq SUBSET Senders
    BY <2>1 DEF TypeOK
  <2> QED
    BY <2>1, <2>3, <2>4, <2>5 DEF TypeOK
<1>8. ASSUME NEW s \in Senders, NEW k \in Keys, MineLeftOver(s, k),
             pc \notin {"signed", "refused", "failed"}
      PROVE TypeOK'
  <2>1. /\ <<k, nonce[s][k]>> \in pool[s] /\ balance[s] > 0
        /\ balance' = [balance EXCEPT ![s] = @ - 1]
        /\ pool' = [pool EXCEPT ![s] = @ \ {<<k, nonce[s][k]>>}]
        /\ nonce' = [nonce EXCEPT ![s][k] = @ + 1]
        /\ UNCHANGED <<pc, funding, short, asked, elapsed, first, bank, coming>>
    BY <1>8 DEF MineLeftOver
  <2>2. balance' \in [Senders -> Nat]
    BY <2>1 DEF TypeOK
  <2>3. pool' \in [Senders -> SUBSET (Keys \X Nat)]
    BY <2>1 DEF TypeOK
  <2>4. nonce' \in [Senders -> [Keys -> Nat]]
    BY <2>1 DEF TypeOK
  <2> QED
    BY <2>1, <2>2, <2>3, <2>4 DEF TypeOK
<1>9. CASE UNCHANGED vars
  BY <1>9 DEF vars, chainVars, TypeOK
<1> QED
  BY <1>1, <1>2, <1>3, <1>4, <1>5, <1>6, <1>7, <1>8, <1>9 DEF Next, Prepare, Chain

\* Asking the faucet comes after the search.
LEMMA AskStep == AskInv /\ [Next]_vars => AskInv'
<1> SUFFICES ASSUME AskInv, [Next]_vars PROVE AskInv'
  OBVIOUS
<1>1. CASE RefuseStuck \/ FindShort \/ AskFaucet \/ AllAsked \/ FundFromIndex0
  BY <1>1 DEF RefuseStuck, FindShort, AskFaucet, AllAsked, FundFromIndex0, AskInv
<1>2. CASE Settle \/ PauseOver \/ Fails \/ ReadNonces
  BY <1>2 DEF Settle, PauseOver, Fails, ReadNonces, AskInv
<1>3. CASE MineFunding \/ \E s \in Senders, k \in Keys : MineLeftOver(s, k)
  BY <1>3 DEF MineFunding, MineLeftOver, AskInv
<1>4. CASE UNCHANGED vars
  BY <1>4 DEF vars, AskInv
<1> QED
  BY <1>1, <1>2, <1>3, <1>4 DEF Next, Prepare, Chain

\* The pool only shrinks, from the front of its lanes.
LEMMA PoolStep == TypeOK /\ PoolInv /\ [Next]_vars => PoolInv'
<1> SUFFICES ASSUME TypeOK, PoolInv, [Next]_vars PROVE PoolInv'
  OBVIOUS
<1>1. CASE RefuseStuck \/ FindShort \/ AskFaucet \/ AllAsked \/ FundFromIndex0 \/ Settle \/
   PauseOver \/ ReadNonces \/ Fails \/ MineFunding \/ UNCHANGED vars
  <2>1. UNCHANGED <<nonce, pool>>
    BY <1>1, Zenon DEF RefuseStuck, FindShort, AskFaucet, AllAsked, FundFromIndex0, Settle,
       PauseOver, ReadNonces, Fails, MineFunding, vars, chainVars
  <2> QED
    BY <2>1 DEF PoolInv
<1>2. ASSUME NEW s \in Senders, NEW k \in Keys, MineLeftOver(s, k),
             pc \notin {"signed", "refused", "failed"}
      PROVE PoolInv'
  <2>1. /\ <<k, nonce[s][k]>> \in pool[s] /\ balance[s] > 0
        /\ balance' = [balance EXCEPT ![s] = @ - 1]
        /\ pool' = [pool EXCEPT ![s] = @ \ {<<k, nonce[s][k]>>}]
        /\ nonce' = [nonce EXCEPT ![s][k] = @ + 1]
        /\ UNCHANGED <<pc, funding, short, asked, elapsed, first, bank, coming>>
    BY <1>2 DEF MineLeftOver
  <2>2. nonce[s][k] \in 0..(MaxNonce - 1)
    BY <2>1 DEF PoolInv
  <2>3. ASSUME NEW r \in Senders PROVE pool'[r] \subseteq pool[r]
    BY <2>1 DEF TypeOK
  <2>4. ASSUME NEW r \in Senders, NEW l \in Keys
      PROVE  nonce'[r][l] = IF r = s /\ l = k THEN nonce[s][k] + 1 ELSE nonce[r][l]
    BY <2>1 DEF TypeOK
  <2>5. ASSUME NEW r \in Senders, NEW l \in Keys PROVE nonce'[r][l] <= MaxNonce
    BY <2>2, <2>4, Constants DEF PoolInv
  <2> QED
    BY <2>3, <2>5 DEF PoolInv
<1> QED
  BY <1>1, <1>2 DEF Next, Prepare, Chain

\* A lane is signed from where the chain and the pool end.
LEMMA FirstStep == TypeOK /\ PoolInv /\ FirstInv /\ [Next]_vars => FirstInv'
<1> SUFFICES ASSUME TypeOK, PoolInv, FirstInv, [Next]_vars PROVE FirstInv'
  OBVIOUS
<1>1. CASE RefuseStuck \/ FindShort \/ AskFaucet \/ AllAsked \/ FundFromIndex0 \/ Settle \/
   PauseOver \/ Fails
  <2>1. pc' # "signed"
    BY <1>1 DEF RefuseStuck, FindShort, AskFaucet, AllAsked, FundFromIndex0, Settle, PauseOver,
       Fails
  <2> QED
    BY <2>1 DEF FirstInv
<1>2. CASE ReadNonces
  <2>1. ASSUME NEW s \in Senders, NEW k \in Keys
      PROVE  /\ first'[s][k] >= nonce[s][k]
             /\ \A m \in nonce[s][k]..(first'[s][k] - 1) : <<k, m>> \in pool[s]
    <3>1. CASE k = 0
      <4>1. first'[s][k] = PendingNonce(s, 0)
        BY <1>2, <3>1 DEF ReadNonces
      <4>2. /\ PendingNonce(s, 0) \in nonce[s][0]..MaxNonce
            /\ \A m \in nonce[s][0]..(PendingNonce(s, 0) - 1) : <<0, m>> \in pool[s]
        BY PendingNonceIs, Constants
      <4> QED
        BY <3>1, <4>1, <4>2, Constants DEF TypeOK
    <3>2. CASE k # 0
      <4>1. first'[s][k] = nonce[s][k] /\ nonce[s][k] \in Nat
        BY <1>2, <3>2 DEF ReadNonces, TypeOK
      <4> QED
        BY <4>1
    <3> QED
      BY <3>1, <3>2
  <2>2. UNCHANGED <<nonce, pool>>
    BY <1>2 DEF ReadNonces, chainVars
  <2> QED
    BY <2>1, <2>2 DEF FirstInv
<1>3. CASE pc \notin {"signed", "refused", "failed"} /\ Chain
  <2>1. pc' = pc
    BY <1>3 DEF Chain, MineFunding, MineLeftOver
  <2> QED
    BY <1>3, <2>1 DEF FirstInv
<1>4. CASE UNCHANGED vars
  BY <1>4 DEF vars, chainVars, FirstInv
<1> QED
  BY <1>1, <1>2, <1>3, <1>4 DEF Next, Prepare, Chain

\* Account 0 is checked for all the transfers at once; each takes its own part.
LEMMA FundStep == TypeOK /\ FundInv /\ [Next]_vars => FundInv'
<1> SUFFICES ASSUME TypeOK, FundInv, [Next]_vars PROVE FundInv'
  OBVIOUS
<1>1. CASE RefuseStuck \/ FindShort \/ Settle \/ PauseOver \/ Fails \/ ReadNonces
  <2>1. UNCHANGED <<funding, bank, coming>>
    BY <1>1 DEF RefuseStuck, FindShort, Settle, PauseOver, Fails, ReadNonces, chainVars
  <2>2. /\ pc' \in {"stuck", "short", "fund"} => pc \in {"stuck", "short", "fund"}
        /\ pc' \in {"settle", "pause"} => pc \in {"settle", "pause"}
    BY <1>1 DEF RefuseStuck, FindShort, Settle, PauseOver, Fails, ReadNonces
  <2> QED
    BY <2>1, <2>2 DEF FundInv, Price
<1>2. CASE AskFaucet \/ AllAsked
  BY <1>2 DEF AskFaucet, AllAsked, chainVars, FundInv
<1>3. CASE FundFromIndex0
  <2>1. coming = {} /\ UNCHANGED <<funding, bank>>
    BY <1>3 DEF FundFromIndex0, FundInv
  <2>2. /\ pc' \in {"failed", "settle"}
        /\ coming' \subseteq Groups
        /\ pc' = "settle" => bank >= Cost
    BY <1>3, <2>1 DEF FundFromIndex0
  <2>3. \A g, h \in coming' : g # h => g \cap h = {}
    BY <2>2, GroupsDisjoint
  <2>4. ASSUME pc' = "settle", NoWrap PROVE bank >= Price(UNION coming')
    <3>1. Price(UNION coming') <= Cost
      BY <2>2, <2>4, CostCovers
    <3>2. UNION coming' \subseteq Senders
      BY <2>2, GroupsDisjoint DEF TypeOK
    <3>3. Price(UNION coming') \in Nat
      BY <3>2, PriceType
    <3>4. Cost \in Int
      <4>1. Cardinality(short) \in Nat
        BY PriceType DEF TypeOK
      <4>2. Need * Cardinality(short) \in Int /\ Cardinality(short) * GasPerCall \in Int
        BY <4>1, Constants
      <4>3. Cardinality(short) * GasPerCall * MaxFee \in Int
        BY <4>2, Constants
      <4>4. (Cardinality(short) * GasPerCall * MaxFee) % Word \in Int
        BY <4>3, Constants
      <4>5. ((Cardinality(short) * GasPerCall * MaxFee) % Word) \div Scale \in Int
        BY <4>4, Constants
      <4> QED
        BY <4>2, <4>5 DEF Cost
    <3> QED
      BY <2>2, <2>4, <3>1, <3>3, <3>4 DEF TypeOK
  <2>5. pc' \in {"settle", "pause"} /\ NoWrap => bank' >= Price(UNION coming')
    BY <2>1, <2>2, <2>4
  <2>6. Price(UNION coming)' = Price(UNION coming')
    BY DEF Price
  <2> QED
    BY <2>2, <2>3, <2>5, <2>6 DEF FundInv
<1>4. ASSUME MineFunding, pc \notin {"signed", "refused", "failed"} PROVE FundInv'
  <2>1. PICK g \in coming :
         /\ coming' = coming \ {g}
         /\ IF funding = "index0" THEN bank >= Price(g) /\ bank' = bank - Price(g) ELSE UNCHANGED bank
         /\ balance' = [s \in Senders |-> IF s \in g THEN balance[s] + Need ELSE balance[s]]
         /\ UNCHANGED <<funding, pc, short, asked, elapsed, first, nonce, pool>>
    BY <1>4 DEF MineFunding
  <2>2. SUFFICES ASSUME funding = "index0" PROVE FundInv'
    BY <2>1 DEF FundInv
  <2>3. pc' = pc /\ ~(pc \in {"stuck", "short", "fund"}) /\ coming' \subseteq coming
    BY <2>1, <2>2 DEF FundInv
  <2>4. \A e, h \in coming' : e # h => e \cap h = {}
    BY <2>2, <2>3 DEF FundInv
  <2>5. ASSUME bank >= Price(UNION coming) PROVE bank' >= Price(UNION coming')
    <3>1. g \cap UNION coming' = {} /\ UNION coming = g \cup UNION coming'
      BY <2>1, <2>2 DEF FundInv
    <3>2. g \subseteq Senders /\ UNION coming' \subseteq Senders /\ UNION coming \subseteq Senders
      BY <2>1, <2>3 DEF TypeOK
    <3>3. Price(g) + Price(UNION coming') <= Price(UNION coming)
      BY <3>1, <3>2, PriceSplits
    <3>4. Price(g) \in Nat /\ Price(UNION coming') \in Nat /\ Price(UNION coming) \in Nat
      BY <3>2, PriceType
    <3> QED
      BY <2>1, <2>2, <2>5, <3>3, <3>4 DEF TypeOK
  <2>6. Price(UNION coming)' = Price(UNION coming')
    BY DEF Price
  <2> QED
    BY <2>2, <2>3, <2>4, <2>5, <2>6 DEF FundInv
<1>5. CASE \E s \in Senders, k \in Keys : MineLeftOver(s, k)
  <2>1. UNCHANGED <<pc, funding, bank, coming>>
    BY <1>5 DEF MineLeftOver
  <2> QED
    BY <2>1 DEF FundInv, Price
<1>6. CASE UNCHANGED vars
  BY <1>6 DEF vars, chainVars, FundInv, Price
<1> QED
  BY <1>1, <1>2, <1>3, <1>4, <1>5, <1>6 DEF Next, Prepare, Chain

\* A sender that was found able to pay spends nothing before the run.
LEMMA PayStep == TypeOK /\ PoolInv /\ PayInv /\ [Next]_vars => PayInv'
<1> SUFFICES ASSUME TypeOK, PoolInv, PayInv, [Next]_vars PROVE PayInv'
  OBVIOUS
<1>1. CASE RefuseStuck
  <2>1. UNCHANGED <<short, chainVars>> /\ pc' \in {"refused", "short"}
    BY <1>1 DEF RefuseStuck
  <2>2. ASSUME pc' = "short", NEW s \in Senders PROVE <<0, nonce[s][0]>> \notin pool[s]
    <3>1. ~(PendingNonce(s, 0) > nonce[s][0])
      BY <1>1, <2>2 DEF RefuseStuck
    <3>2. PendingNonce(s, 0) \in nonce[s][0]..MaxNonce /\ <<0, PendingNonce(s, 0)>> \notin pool[s]
      BY PendingNonceIs, Constants
    <3>3. nonce[s][0] \in Nat
      BY Constants DEF TypeOK
    <3>4. PendingNonce(s, 0) = nonce[s][0]
      BY <3>1, <3>2, <3>3, Constants
    <3> QED
      BY <3>2, <3>4
  <2> QED
    BY <2>1, <2>2 DEF PayInv, chainVars
<1>2. CASE FindShort
  <2>1. UNCHANGED chainVars /\ pc = "short" /\ short' = Short(Senders)
        /\ pc' \in {"nonces", "failed", "fund"} /\ (pc' = "nonces" => short' = {})
    BY <1>2 DEF FindShort
  <2>2. \A s \in Senders \ short' : balance'[s] >= Need
    <3>1. \A s \in Senders : balance[s] \in Nat
      BY DEF TypeOK
    <3> QED
      BY <2>1, <3>1, Constants DEF Short, chainVars
  <2> QED
    BY <2>1, <2>2 DEF PayInv, chainVars
<1>3. CASE AskFaucet \/ AllAsked \/ FundFromIndex0 \/ PauseOver \/ Fails \/ ReadNonces
  <2>1. UNCHANGED <<short, balance, nonce, pool>>
    BY <1>3, Zenon DEF AskFaucet, AllAsked, FundFromIndex0, PauseOver, Fails, ReadNonces, chainVars
  <2>2. /\ pc' \notin {"stuck", "refused", "failed"} => pc \notin {"stuck", "refused", "failed"}
        /\ pc' \in {"fund", "settle", "pause", "nonces", "signed"} =>
             pc \in {"fund", "settle", "pause", "nonces", "signed"}
        /\ pc' \in {"nonces", "signed"} => pc \in {"nonces", "signed"}
    BY <1>3 DEF AskFaucet, AllAsked, FundFromIndex0, PauseOver, Fails, ReadNonces
  <2> QED
    BY <2>1, <2>2 DEF PayInv
<1>4. CASE Settle
  <2>1. UNCHANGED chainVars /\ pc = "settle" /\ short' = Short(short)
        /\ pc' \in {"nonces", "failed", "pause"} /\ (pc' = "nonces" => short' = {})
    BY <1>4 DEF Settle
  <2>2. ASSUME OnProtocolNonce PROVE \A s \in Senders \ short' : balance'[s] >= Need
    <3>1. \A s \in Senders : balance[s] \in Nat
      BY DEF TypeOK
    <3>2. \A s \in Senders \ short : balance[s] >= Need
      BY <2>1, <2>2 DEF PayInv
    <3> QED
      BY <2>1, <3>1, <3>2, Constants DEF Short, chainVars
  <2> QED
    BY <2>1, <2>2 DEF PayInv, chainVars
<1>5. ASSUME MineFunding, pc \notin {"signed", "refused", "failed"} PROVE PayInv'
  <2>1. PICK g \in coming :
         /\ coming' = coming \ {g}
         /\ IF funding = "index0" THEN bank >= Price(g) /\ bank' = bank - Price(g) ELSE UNCHANGED bank
         /\ balance' = [s \in Senders |-> IF s \in g THEN balance[s] + Need ELSE balance[s]]
         /\ UNCHANGED <<funding, pc, short, asked, elapsed, first, nonce, pool>>
    BY <1>5 DEF MineFunding
  <2>2. \A s \in Senders : balance[s] \in Nat
    BY DEF TypeOK
  <2>3. \A s \in Senders : balance'[s] >= balance[s] /\ balance'[s] \in Nat
    BY <2>1, <2>2, Constants
  <2>4. \A s \in Senders : balance[s] >= Need => balance'[s] >= Need
    BY <2>2, <2>3, Constants
  <2> QED
    BY <2>1, <2>4 DEF PayInv
<1>6. ASSUME NEW s \in Senders, NEW k \in Keys, MineLeftOver(s, k),
             pc \notin {"signed", "refused", "failed"}
      PROVE PayInv'
  <2>1. /\ <<k, nonce[s][k]>> \in pool[s] /\ balance[s] > 0
        /\ balance' = [balance EXCEPT ![s] = @ - 1]
        /\ pool' = [pool EXCEPT ![s] = @ \ {<<k, nonce[s][k]>>}]
        /\ nonce' = [nonce EXCEPT ![s][k] = @ + 1]
        /\ UNCHANGED <<pc, funding, short, asked, elapsed, first, bank, coming>>
    BY <1>6 DEF MineLeftOver
  <2>2. SUFFICES ASSUME OnProtocolNonce PROVE PayInv'
    BY DEF PayInv
  <2>3. k = 0
    BY <2>1, <2>2 DEF PayInv
  <2>4. pc = "stuck"
    BY <1>6, <2>1, <2>2, <2>3 DEF PayInv
  <2>5. \A r \in Senders : pool'[r] \subseteq pool[r]
    BY <2>1 DEF TypeOK
  <2> QED
    BY <2>1, <2>2, <2>4, <2>5 DEF PayInv
<1>7. CASE UNCHANGED vars
  BY <1>7 DEF vars, chainVars, PayInv
<1> QED
  BY <1>1, <1>2, <1>3, <1>4, <1>5, <1>6, <1>7 DEF Next, Prepare, Chain

-----------------------------------------------------------------------------
(* Theorems.                                                               *)

\* The invariant holds at the start.
LEMMA InitHolds == Init => IInv
<1> SUFFICES ASSUME Init PROVE IInv
  OBVIOUS
<1>1. \A s \in Senders : pool[s] \subseteq Keys \X (0..(MaxNonce - 1))
  BY PrepareAssumption DEF Init
<1>2. \A s \in Senders : pool[s] \subseteq Keys \X Nat
  BY <1>1, Constants
<1>3. TypeOK
  <2>1. pool \in [Senders -> SUBSET (Keys \X Nat)]
    BY <1>2 DEF Init
  <2>2. balance \in [Senders -> Nat] /\ bank \in Nat
    BY Constants DEF Init
  <2>3. first \in [Senders -> [Keys -> Nat \cup {-1}]] /\ nonce \in [Senders -> [Keys -> Nat]]
    BY DEF Init
  <2>4. elapsed \in 0..(FundTimeout + 1)
    BY Constants DEF Init
  <2> QED
    BY <2>1, <2>2, <2>3, <2>4 DEF Init, TypeOK
<1>4. PoolInv
  BY <1>1, Constants DEF PoolInv, Init
<1>5. AskInv /\ FirstInv /\ FundInv
  BY DEF AskInv, FirstInv, FundInv, Init
<1>6. PayInv
  BY DEF PayInv, OnProtocolNonce, Init
<1> QED
  BY <1>3, <1>4, <1>5, <1>6 DEF IInv

\* The invariant holds throughout.
LEMMA InvariantHolds == Spec => []IInv
<1>1. IInv /\ [Next]_vars => IInv'
  BY TypeStep, AskStep, PoolStep, FirstStep, FundStep, PayStep DEF IInv
<1> QED
  BY InitHolds, <1>1, PTL DEF Spec

\* Whatever an earlier run left and whatever is mined meanwhile, generateTempoNativeTxs
\* signs no transaction behind a nonce that is neither mined, pooled nor signed too, for
\* any number of lanes and transactions.
THEOREM NoGapIsSigned == Spec => []NoNonceGap
<1>1. IInv => NoNonceGap
  <2> SUFFICES ASSUME IInv, pc = "signed", NEW s \in Senders, NEW t \in Signed(s),
                      NEW m \in nonce[s][t[1]]..(t[2] - 1)
               PROVE  <<t[1], m>> \in Signed(s) \cup pool[s]
    BY DEF NoNonceGap, IInv
  <2>1. PICK i \in 0..(NumTxs - 1) :
          t = <<LaneKey(i), first[s][LaneKey(i)] + i \div NonceLanes>>
    BY DEF Signed
  <2> DEFINE k == LaneKey(i)
  <2>2. i \in Nat /\ i % NonceLanes \in Lanes
    BY <2>1, Constants DEF Lanes
  <2>3. k \in Keys
    BY <2>2 DEF LaneKey, Keys
  <2>4. nonce[s][k] \in Nat /\ first[s][k] \in Int /\ first[s][k] >= nonce[s][k]
    BY <2>3 DEF IInv, TypeOK, FirstInv
  <2>5. t[1] = k /\ t[2] = first[s][k] + i \div NonceLanes
    BY <2>1
  <2>6. m \in nonce[s][k]..((first[s][k] + i \div NonceLanes) - 1)
    BY <2>5
  <2> HIDE DEF k
  <2>7. CASE m < first[s][k]
    <3>1. m \in nonce[s][k]..(first[s][k] - 1)
      BY <2>4, <2>6, <2>7
    <3>2. <<k, m>> \in pool[s]
      BY <2>3, <3>1 DEF IInv, FirstInv
    <3> QED
      BY <2>5, <3>2
  <2>8. CASE ~(m < first[s][k])
    <3> DEFINE j == m - first[s][k]
    <3>1. i \div NonceLanes \in Nat
      BY <2>2, Constants
    <3>2. j \in Nat /\ j < i \div NonceLanes /\ m = first[s][k] + j
      BY <2>4, <2>6, <2>8, <3>1
    <3> HIDE DEF j
    <3>3. PICK e \in 0..i : e \div NonceLanes = j /\ LaneKey(e) = LaneKey(i)
      BY <2>2, <3>2, LaneIndex
    <3>4. e \in 0..(NumTxs - 1)
      BY <2>1, <3>3, Constants
    <3>5. <<LaneKey(e), first[s][LaneKey(e)] + e \div NonceLanes>> = <<k, m>>
      BY <3>2, <3>3 DEF k
    <3>6. <<LaneKey(e), first[s][LaneKey(e)] + e \div NonceLanes>> \in Signed(s)
      BY <3>4 DEF Signed
    <3> QED
      BY <2>5, <3>5, <3>6
  <2> QED
    BY <2>7, <2>8
<1> QED
  BY InvariantHolds, <1>1, PTL

\* While fundTempoSenders waits, account 0 can still pay for every transfer it has on its
\* way, however they are grouped, priced and ordered: what it is checked for, once and
\* before the first of them, covers the sum, rounding included.
THEOREM TransfersAreCovered == Spec => []FundingCovered
<1>1. IInv => FundingCovered
  BY DEF IInv, FundInv, FundingCovered, NoWrap
<1> QED
  BY InvariantHolds, <1>1, PTL

\* When an earlier run left only protocol-nonce transactions, the ones refuseStuckSenders
\* can see, every sender of a run that gets to signing holds its reserve, though its balance
\* was read once, long before.  (Of left-overs on a user key this is not so.)
THEOREM SendersCanPay ==
  ASSUME OnProtocolNonce
  PROVE  Spec => []EverySenderCanPay
<1>1. IInv => EverySenderCanPay
  BY OnProtocolNonce DEF IInv, PayInv, EverySenderCanPay
<1> QED
  BY InvariantHolds, <1>1, PTL
==============================================================================
