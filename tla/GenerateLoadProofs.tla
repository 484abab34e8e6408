------------------------- MODULE GenerateLoadProofs -------------------------
(***************************************************************************)
(* Proofs about GenerateLoad for any configs, accounts, transactions and   *)
(* signers: what is sent is whole, funded, signed for no nonce twice, and  *)
(* hot where it should be.                                                 *)
(***************************************************************************)
EXTENDS GenerateLoad, FiniteSetTheorems, WellFoundedInduction, TLAPS

-----------------------------------------------------------------------------
(* Positions in a file: account s's i-th transaction is at s * T + i.      *)

\* The place of an account's transaction is in the file.
LEMMA PlaceWithin ==
  ASSUME NEW T \in Nat \ {0}, NEW m \in Nat, NEW s \in 0..(m - 1), NEW i \in 1..T
  PROVE  s * T + i \in 1..(m * T)
<1>1. PICK d \in Nat : m = s + 1 + d
  <2>1. m - (s + 1) \in Nat /\ m = s + 1 + (m - (s + 1))
    OBVIOUS
  <2> QED
    BY <2>1
<1>2. m * T = (s * T) + T + (d * T)
  BY <1>1
<1>3. s * T \in Nat /\ d * T \in Nat
  OBVIOUS
<1> QED
  BY <1>2, <1>3

\* Every position in the file is the place of some account's transaction.
LEMMA PlaceExists ==
  ASSUME NEW T \in Nat \ {0}, NEW m \in Nat, NEW p \in 1..(m * T)
  PROVE  \E s \in 0..(m - 1), i \in 1..T : p = s * T + i
<1> DEFINE q == (p - 1) \div T
<1>1. m * T \in Nat
  OBVIOUS
<1>2. q \in Nat /\ T * q <= p - 1 /\ p - 1 < (T * q) + T
  BY <1>1, SMT
<1> HIDE DEF q
<1>3. T * q < m * T /\ T * q = q * T
  BY <1>1, <1>2
<1>4. q < m
  BY <1>2, <1>3
<1>5. p - (q * T) \in 1..T /\ p = (q * T) + (p - (q * T))
  BY <1>1, <1>2, <1>3
<1>6. q \in 0..(m - 1)
  BY <1>2, <1>4
<1> QED
  BY <1>5, <1>6

\* It is the place of one only.
LEMMA PlaceUnique ==
  ASSUME NEW T \in Nat \ {0}, NEW s \in Nat, NEW r \in Nat, NEW i \in 1..T, NEW j \in 1..T,
         (s * T) + i = (r * T) + j
  PROVE  s = r /\ i = j
<1>1. ASSUME NEW a \in Nat, NEW b \in Nat, NEW k \in 1..T, NEW l \in 1..T, a < b
      PROVE  (a * T) + k # (b * T) + l
  <2>1. PICK d \in Nat : b = a + 1 + d
    <3>1. b - (a + 1) \in Nat /\ b = a + 1 + (b - (a + 1))
      BY <1>1
    <3> QED
      BY <3>1
  <2>2. b * T = (a * T) + T + (d * T)
    BY <2>1
  <2>3. a * T \in Nat /\ d * T \in Nat
    OBVIOUS
  <2> QED
    BY <2>2, <2>3
<1>2. s = r
  BY <1>1
<1> QED
  BY <1>2

\* Whole accounts in a file are counted right.
LEMMA Quotient ==
  ASSUME NEW T \in Nat \ {0}, NEW m \in Nat
  PROVE  (m * T) \div T = m
<1> DEFINE q == (m * T) \div T
<1>1. q \in Nat /\ T * q <= m * T /\ m * T < (T * q) + T
  BY SMT
<1> HIDE DEF q
<1>2. ~(q < m)
  <2>1. SUFFICES ASSUME q < m PROVE FALSE
    OBVIOUS
  <2>2. PICK d \in Nat : m = q + 1 + d
    <3>1. m - (q + 1) \in Nat /\ m = q + 1 + (m - (q + 1))
      BY <1>1, <2>1
    <3> QED
      BY <3>1
  <2>3. m * T = (T * q) + T + (d * T)
    BY <1>1, <2>2
  <2>4. d * T \in Nat /\ T * q \in Nat
    BY <1>1
  <2> QED
    BY <1>1, <2>3, <2>4
<1>3. ~(m < q)
  <2>1. SUFFICES ASSUME m < q PROVE FALSE
    OBVIOUS
  <2>2. PICK d \in Nat : q = m + 1 + d
    <3>1. q - (m + 1) \in Nat /\ q = m + 1 + (q - (m + 1))
      BY <1>1, <2>1
    <3> QED
      BY <3>1
  <2>3. T * q = (m * T) + T + (d * T)
    BY <1>1, <2>2
  <2>4. d * T \in Nat /\ m * T \in Nat
    OBVIOUS
  <2> QED
    BY <1>1, <2>3, <2>4
<1>4. q = m
  BY <1>1, <1>2, <1>3
<1> QED
  BY <1>4 DEF q
-----------------------------------------------------------------------------
(* Accounts one after the other in a file.                                 *)

\* A non-empty set of naturals has a least element.
LEMMA LeastOf ==
  ASSUME NEW S, S \subseteq Nat, S # {}
  PROVE  \E m \in S : \A y \in S : m <= y
<1>1. PICK m \in S : \A y \in S : ~(<<y, m>> \in OpToRel(<, Nat))
  BY NatLessThanWellFounded, WFMin
<1>2. \A y \in S : ~(y < m)
  BY <1>1 DEF OpToRel
<1>3. m \in S
  BY <1>1, Zenon
<1> QED
  BY <1>2, <1>3

\* f is the function FlattenSeq computes with, up to n.
Flattens(f, seqs, n) ==
  f = [i \in 1..n |-> IF i = 1 THEN seqs[i] ELSE f[i - 1] \o seqs[i]]

\* There is such a function.
LEMMA FlattensExists ==
  ASSUME NEW seqs, NEW n \in Nat
  PROVE  \E f : Flattens(f, seqs, n)
<1> DEFINE S == {m \in Nat : ~ \E f : Flattens(f, seqs, m)}
<1>1. SUFFICES ASSUME S # {} PROVE FALSE
  OBVIOUS
<1>2. PICK m \in S : \A y \in S : m <= y
  <2> HIDE DEF S
  <2>1. S \subseteq Nat
    BY DEF S
  <2> QED
    BY <1>1, <2>1, LeastOf
<1>3. m # 0
  <2>1. Flattens([i \in 1..0 |-> {}], seqs, 0)
    BY DEF Flattens
  <2> QED
    BY <1>2, <2>1
<1>4. m - 1 \in Nat /\ m - 1 \notin S /\ m \in Nat
  BY <1>2, <1>3
<1>5. PICK f : Flattens(f, seqs, m - 1)
  BY <1>4
<1> DEFINE last == IF m = 1 THEN seqs[m] ELSE f[m - 1] \o seqs[m]
           g == [i \in 1..m |-> IF i = m THEN last ELSE f[i]]
<1> HIDE DEF last, S
<1>6. \A i \in 1..(m - 1) : f[i] = IF i = 1 THEN seqs[i] ELSE f[i - 1] \o seqs[i]
  BY <1>4, <1>5 DEF Flattens
<1>7. g[m] = last /\ \A i \in 1..(m - 1) : g[i] = f[i]
  BY <1>3, <1>4
<1>8. g = [i \in 1..m |-> g[i]]
  OBVIOUS
<1> HIDE DEF g
<1>9. ASSUME NEW i \in 1..m PROVE g[i] = IF i = 1 THEN seqs[i] ELSE g[i - 1] \o seqs[i]
  <2>1. CASE i = m /\ i = 1
    BY <1>7, <2>1 DEF last
  <2>2. CASE i = m /\ i # 1
    <3>1. i - 1 \in 1..(m - 1)
      BY <1>4, <2>2
    <3> QED
      BY <1>7, <2>2, <3>1 DEF last
  <2>3. CASE i # m
    <3>1. i \in 1..(m - 1) /\ (i # 1 => i - 1 \in 1..(m - 1))
      BY <1>4, <2>3
    <3> QED
      BY <1>6, <1>7, <3>1
  <2> QED
    BY <2>1, <2>2, <2>3
<1>10. Flattens(g, seqs, m)
  BY <1>8, <1>9 DEF Flattens
<1> QED
  BY <1>2, <1>10 DEF S

\* What FlattenSeq returns, prefix by prefix.
LEMMA FlattenIs ==
  ASSUME NEW seqs, NEW n \in Nat \ {0}, Len(seqs) = n
  PROVE  \E f : /\ f[1] = seqs[1]
                /\ \A i \in 2..n : f[i] = f[i - 1] \o seqs[i]
                /\ FlattenSeq(seqs) = f[n]
<1> DEFINE f == CHOOSE g : Flattens(g, seqs, n)
<1>1. Flattens(f, seqs, n)
  BY FlattensExists, Zenon
<1>2. FlattenSeq(seqs) = f[n]
  BY Zenon DEF FlattenSeq, Flattens
<1> HIDE DEF f
<1>3. \A i \in 1..n : f[i] = IF i = 1 THEN seqs[i] ELSE f[i - 1] \o seqs[i]
  BY <1>1 DEF Flattens
<1>4. f[1] = seqs[1]
  BY <1>3
<1>5. ASSUME NEW i \in 2..n PROVE f[i] = f[i - 1] \o seqs[i]
  <2>1. i \in 1..n /\ i # 1
    OBVIOUS
  <2> QED
    BY <1>3, <2>1
<1> QED
  BY <1>2, <1>4, <1>5, Zenon


Tx == [from : Nat \X Nat, nonce : Nat, hot : BOOLEAN]

\* seq is the first m of the sequences seqs, each of T transactions, one after the other.
Laid(seq, seqs, m, T) ==
  /\ seq \in Seq(Tx)
  /\ Len(seq) = m * T
  /\ \A s \in 0..(m - 1) : \A i \in 1..T : seq[(s * T) + i] = seqs[s + 1][i]

\* The next one is appended.
LEMMA LaidNext ==
  ASSUME NEW T \in Nat \ {0}, NEW m \in Nat, NEW seq, NEW seqs, Laid(seq, seqs, m, T),
         seqs[m + 1] \in Seq(Tx), Len(seqs[m + 1]) = T
  PROVE  Laid(seq \o seqs[m + 1], seqs, m + 1, T)
<1> DEFINE next == seqs[m + 1]
           all == seq \o next
<1>1. /\ seq \in Seq(Tx) /\ Len(seq) = m * T
      /\ \A s \in 0..(m - 1) : \A i \in 1..T : seq[(s * T) + i] = seqs[s + 1][i]
  BY DEF Laid
<1>2. next \in Seq(Tx) /\ Len(next) = T
  OBVIOUS
<1>3. m * T \in Nat /\ (m + 1) * T = (m * T) + T
  OBVIOUS
<1> HIDE DEF next
<1>4. /\ all \in Seq(Tx) /\ Len(all) = (m * T) + T
      /\ \A p \in 1..(m * T) : all[p] = seq[p]
      /\ \A i \in 1..T : all[(m * T) + i] = next[i]
  BY <1>1, <1>2, <1>3
<1> HIDE DEF all
<1>5. ASSUME NEW s \in 0..m, NEW i \in 1..T PROVE all[(s * T) + i] = seqs[s + 1][i]
  <2>1. CASE s = m
    BY <1>4, <2>1 DEF next
  <2>2. CASE s # m
    <3>1. s \in 0..(m - 1)
      BY <2>2
    <3>2. (s * T) + i \in 1..(m * T)
      BY <3>1, PlaceWithin
    <3> QED
      BY <1>1, <1>4, <3>1, <3>2
  <2> QED
    BY <2>1, <2>2
<1>6. (m + 1) - 1 = m
  OBVIOUS
<1>7. Laid(all, seqs, m + 1, T)
  BY <1>3, <1>4, <1>5, <1>6 DEF Laid
<1> QED
  BY <1>7 DEF all, next

\* All of them are, by FlattenSeq.
LEMMA LaidWhole ==
  ASSUME NEW T \in Nat \ {0}, NEW n \in Nat \ {0}, NEW seqs, Len(seqs) = n,
         \A i \in 1..n : seqs[i] \in Seq(Tx) /\ Len(seqs[i]) = T
  PROVE  Laid(FlattenSeq(seqs), seqs, n, T)
<1>1. PICK f : /\ f[1] = seqs[1]
               /\ \A i \in 2..n : f[i] = f[i - 1] \o seqs[i]
               /\ FlattenSeq(seqs) = f[n]
  BY FlattenIs
<1> DEFINE S == {m \in 1..n : ~Laid(f[m], seqs, m, T)}
<1>2. SUFFICES ASSUME S # {} PROVE FALSE
  <2>1. S = {} => Laid(f[n], seqs, n, T)
    <3>1. n \in 1..n
      OBVIOUS
    <3> QED
      BY <3>1
  <2> QED
    BY <1>1, <2>1, Zenon
<1>3. PICK m \in S : \A y \in S : m <= y
  <2>1. S \subseteq Nat
    OBVIOUS
  <2> HIDE DEF S
  <2> QED
    BY <1>2, <2>1, LeastOf
<1>4. Laid(f[1], seqs, 1, T)
  <2>1. seqs[1] \in Seq(Tx) /\ Len(seqs[1]) = T /\ 1 * T = T /\ 1 - 1 = 0
    OBVIOUS
  <2>2. ASSUME NEW s \in 0..0, NEW i \in 1..T PROVE seqs[1][(s * T) + i] = seqs[s + 1][i]
    <3>1. s = 0 /\ (s * T) + i = i /\ s + 1 = 1
      OBVIOUS
    <3> QED
      BY <3>1
  <2>3. Laid(seqs[1], seqs, 1, T)
    BY <2>1, <2>2 DEF Laid
  <2> QED
    BY <1>1, <2>3, Zenon
<1>5. m \in 2..n /\ m - 1 \in 1..n /\ m - 1 \notin S
  <2>1. m \in 1..n
    BY <1>3
  <2>2. m # 1
    BY <1>3, <1>4
  <2>3. \A y \in S : m <= y
    BY <1>3
  <2> HIDE DEF S
  <2> QED
    BY <2>1, <2>2, <2>3
<1>6. Laid(f[m - 1], seqs, m - 1, T)
  BY <1>5
<1>7. (m - 1) + 1 = m /\ m - 1 \in Nat /\ m \in 1..n
  BY <1>5
<1>8. Laid(f[m - 1] \o seqs[m], seqs, m, T)
  <2>1. seqs[(m - 1) + 1] \in Seq(Tx) /\ Len(seqs[(m - 1) + 1]) = T
    BY <1>7
  <2>2. Laid(f[m - 1] \o seqs[(m - 1) + 1], seqs, (m - 1) + 1, T)
    BY <1>6, <1>7, <2>1, LaidNext
  <2> QED
    BY <1>7, <2>2
<1>9. Laid(f[m], seqs, m, T)
  BY <1>1, <1>5, <1>8
<1> QED
  BY <1>3, <1>9
-----------------------------------------------------------------------------
(* The inductive invariant, in the parts the properties need.              *)

Begun == {"generate", "rerun", "run"}

\* What node n signs with its account a, and in which order its file has it.
Account(n, a) == IF ProducesTxs THEN NativeTxs(n, a) ELSE LegacyTxs(n, a)

Shares(n) == [a \in Accounts |-> Account(n, a)]

\* seq is the load of node n, up to its account m.
Whole(seq, n, m) == Laid(seq, Shares(n), m, spec.NumTxs)

\* What is under way was accepted, and the funds are the ones Bootstrap gave.
SpecInv ==
  /\ spec \in SpecType
  /\ pc \in {"config", "layout", "refused"} \cup Begun
  /\ pc \in {"layout"} \cup Begun => ConfigValid
  /\ pc \in Begun => Validate
  /\ funded = IF pc \in Begun THEN Funded ELSE {}

SignInv ==
  /\ taken \in [Nodes -> 0..spec.NumAccounts]
  /\ hand \in [Nodes -> [Workers -> 0..spec.NumAccounts]]
  /\ slot \in [Nodes -> [Accounts -> {"todo", "ok", "err"}]]
  /\ \A n \in Nodes : \A w \in Workers : hand[n][w] <= taken[n]

\* A file has the first accounts, all of them when it is complete.
FileInv ==
  /\ DOMAIN file = Nodes
  /\ complete \in [Nodes -> BOOLEAN]
  /\ \A n \in Nodes : \E m \in 0..spec.NumAccounts :
       Whole(file[n], n, m) /\ (complete[n] => m = spec.NumAccounts)

\* What is sent is all of a node's load, of a node that has some.
LoadInv ==
  /\ DOMAIN load = Nodes
  /\ \A n \in Nodes : load[n] # <<>> =>
       /\ pc \in Begun
       /\ n < spec.Validators => spec.ValidatorGenerateLoad
       /\ Whole(load[n], n, spec.NumAccounts)

IInv == SpecInv /\ SignInv /\ FileInv /\ LoadInv

-----------------------------------------------------------------------------
(* Operators.                                                              *)

\* The numbers of a config.
LEMMA SpecNumbers ==
  ASSUME spec \in SpecType
  PROVE  /\ spec.NumTxs \in Nat \ {0} /\ spec.NumAccounts \in Nat \ {0}
         /\ spec.Validators \in Nat /\ spec.Fullnodes \in Nat /\ spec.HotRecipientPercent \in Nat
         /\ Nodes \subseteq Nat
  BY DEF SpecType, Nodes

\* A config is read once.
LEMMA SpecStays ==
  ASSUME [Next]_vars
  PROVE  spec' = spec
  BY DEF Next, Workflow, Signing, Emitting, Running, LoadConfig, GenerateLayout, TakeAccount,
         SignAccount, Emit, ProduceTxs, GenerateFails, GenerateDone, RunNode, vars

\* What depends on the config only stays with it.
LEMMA SharesStay ==
  ASSUME spec' = spec
  PROVE  /\ Nodes' = Nodes /\ Accounts' = Accounts
         /\ \A n : Shares(n)' = Shares(n)
  BY DEF Nodes, Accounts, Shares, Account, ProducesTxs, NativeTxs, LegacyTxs, NativeKey, LegacyKey,
         SendsToHotRecipient

\* So does what a node's load is.
LEMMA WholeStays ==
  ASSUME spec' = spec, NEW n, NEW m,
         NEW seq, Whole(seq, n, m)
  PROVE  Laid(seq, Shares(n)', m, spec'.NumTxs)
  BY SharesStay DEF Whole

\* An account's transactions.
LEMMA AccountIs ==
  ASSUME spec \in SpecType, NEW n \in Nodes, NEW a \in Accounts
  PROVE  /\ Account(n, a) \in Seq(Tx)
         /\ Len(Account(n, a)) = spec.NumTxs
         /\ \A i \in 1..spec.NumTxs :
              /\ Account(n, a)[i].from = IF ProducesTxs THEN NativeKey(n, a) ELSE LegacyKey(n, a)
              /\ Account(n, a)[i].nonce = i - 1
              /\ Account(n, a)[i].hot = (~ProducesTxs /\ SendsToHotRecipient(i - 1))
<1> DEFINE key == IF ProducesTxs THEN NativeKey(n, a) ELSE LegacyKey(n, a)
           tx(i) == [from |-> key, nonce |-> i - 1, hot |-> ~ProducesTxs /\ SendsToHotRecipient(i - 1)]
<1>1. spec.NumTxs \in Nat /\ spec.NumAccounts \in Nat /\ n \in Nat /\ a \in Nat
  BY SpecNumbers DEF Accounts
<1>2. key \in Nat \X Nat
  BY <1>1 DEF NativeKey, LegacyKey
<1>3. Account(n, a) = [i \in 1..spec.NumTxs |-> tx(i)]
  <2>1. CASE ProducesTxs
    <3>1. \A i : tx(i) = [from |-> NativeKey(n, a), nonce |-> i - 1, hot |-> FALSE]
      BY <2>1, Zenon
    <3>2. Account(n, a) = [i \in 1..spec.NumTxs |->
                            [from |-> NativeKey(n, a), nonce |-> i - 1, hot |-> FALSE]]
      BY <2>1, Zenon DEF Account, NativeTxs
    <3> HIDE DEF tx
    <3> QED
      BY <3>1, <3>2, Zenon
  <2>2. CASE ~ProducesTxs
    <3>1. \A i : SendsToHotRecipient(i) \in BOOLEAN
      BY SMT DEF SendsToHotRecipient
    <3>2. \A i : (~ProducesTxs /\ SendsToHotRecipient(i - 1)) = SendsToHotRecipient(i - 1)
      BY <2>2, <3>1, Zenon
    <3>3. \A i : tx(i) =
            [from |-> LegacyKey(n, a), nonce |-> i - 1, hot |-> SendsToHotRecipient(i - 1)]
      BY <2>2, <3>2, Zenon
    <3>4. Account(n, a) = [i \in 1..spec.NumTxs |->
            [from |-> LegacyKey(n, a), nonce |-> i - 1, hot |-> SendsToHotRecipient(i - 1)]]
      BY <2>2, Zenon DEF Account, LegacyTxs
    <3> HIDE DEF tx
    <3> QED
      BY <3>3, <3>4, Zenon
  <2> QED
    BY <2>1, <2>2
<1> HIDE DEF key
<1>4. \A i \in 1..spec.NumTxs : tx(i) \in Tx
  <2> SUFFICES ASSUME NEW i \in 1..spec.NumTxs PROVE tx(i) \in Tx
    OBVIOUS
  <2>1. i - 1 \in Nat
    BY <1>1
  <2>2. (~ProducesTxs /\ SendsToHotRecipient(i - 1)) \in BOOLEAN
    BY Zenon
  <2> QED
    BY <1>2, <2>1, <2>2 DEF Tx
<1>5. \A i \in 1..spec.NumTxs :
        /\ tx(i).from = key
        /\ tx(i).nonce = i - 1
        /\ tx(i).hot = (~ProducesTxs /\ SendsToHotRecipient(i - 1))
  BY Zenon
<1> HIDE DEF tx
<1>6. Account(n, a) \in Seq(Tx) /\ Len(Account(n, a)) = spec.NumTxs
  BY <1>1, <1>3, <1>4
<1>7. \A i \in 1..spec.NumTxs : Account(n, a)[i] = tx(i)
  BY <1>3
<1> QED
  BY <1>5, <1>6, <1>7 DEF key

\* All of a node's accounts, flattened, are its whole load.
LEMMA SharesFlat ==
  ASSUME spec \in SpecType, NEW n \in Nodes
  PROVE  Whole(FlattenSeq(Shares(n)), n, spec.NumAccounts)
<1>1. spec.NumTxs \in Nat \ {0} /\ spec.NumAccounts \in Nat \ {0}
  BY SpecNumbers
<1>2. \A i \in 1..spec.NumAccounts : Shares(n)[i] \in Seq(Tx) /\ Len(Shares(n)[i]) = spec.NumTxs
  BY AccountIs DEF Shares, Accounts
<1>3. Len(Shares(n)) = spec.NumAccounts
  BY <1>1 DEF Shares, Accounts
<1> QED
  BY <1>1, <1>2, <1>3, LaidWhole DEF Whole

\* A file with m whole accounts is found to hold m.
LEMMA EmittedIs ==
  ASSUME spec \in SpecType, NEW n \in Nodes, NEW m \in Nat, Whole(file[n], n, m)
  PROVE  Emitted(n) = m
<1>1. Len(file[n]) = m * spec.NumTxs
  BY DEF Whole, Laid
<1> QED
  BY <1>1, SpecNumbers, Quotient DEF Emitted

-----------------------------------------------------------------------------
(* Preservation.                                                           *)

\* A config is read and nothing is signed.
LEMMA InitInv == Init => IInv
<1> SUFFICES ASSUME Init PROVE IInv
  OBVIOUS
<1> USE DEF Init
<1>1. SpecInv
  BY LoadAssumption DEF SpecInv, Begun
<1>2. SignInv
  BY <1>1, SpecNumbers DEF SignInv, SpecInv
<1>3. FileInv
  <2>1. 0 * spec.NumTxs = 0 /\ <<>> \in Seq(Tx) /\ Len(<<>>) = 0 /\ 0..(0 - 1) = {}
    BY <1>1, SpecNumbers DEF SpecInv
  <2>2. \A n : Whole(<<>>, n, 0)
    BY <2>1 DEF Whole, Laid
  <2>3. 0 \in 0..spec.NumAccounts
    BY <1>1, SpecNumbers DEF SpecInv
  <2> QED
    BY <2>2, <2>3 DEF FileInv
<1>4. LoadInv
  BY DEF LoadInv
<1> QED
  BY <1>1, <1>2, <1>3, <1>4 DEF IInv
\* What is valid and who is funded depends on the config only.
LEMMA ConfigStays ==
  ASSUME spec' = spec
  PROVE  /\ ConfigValid' = ConfigValid
         /\ Validate' = Validate
         /\ Funded' = Funded
<1>1. ConfigValid' = ConfigValid
  BY DEF ConfigValid
<1>2. Validate' = Validate
  BY DEF Validate, TempoValid, AllegroValid, RethValid
<1>3. Funded' = Funded
  BY DEF Funded, CosmosFunded, AllegroFundedAlloc, RethFunded, TempoFunded, RemoteFunded,
         SignerAddresses, Nodes, Accounts
<1> QED
  BY <1>1, <1>2, <1>3

\* A config is accepted before funds move, and the funds stay.
LEMMA SpecStep == SpecInv /\ [Next]_vars => SpecInv'
<1> SUFFICES ASSUME SpecInv, [Next]_vars PROVE SpecInv'
  OBVIOUS
<1>0. /\ spec' = spec /\ ConfigValid' = ConfigValid /\ Validate' = Validate /\ Funded' = Funded
  BY SpecStays, ConfigStays
<1>1. CASE LoadConfig
  BY <1>0, <1>1 DEF LoadConfig, SpecInv, Begun
<1>2. CASE GenerateLayout
  BY <1>0, <1>2 DEF GenerateLayout, SpecInv, Begun
<1>3. CASE GenerateFails
  BY <1>0, <1>3 DEF GenerateFails, SpecInv, Begun
<1>4. CASE GenerateDone
  BY <1>0, <1>4 DEF GenerateDone, SpecInv, Begun
<1>5. CASE Signing \/ Emitting \/ Running \/ UNCHANGED vars
  <2>1. pc' = pc /\ funded' = funded
    BY <1>5 DEF Signing, Emitting, Running, TakeAccount, SignAccount, Emit, ProduceTxs, RunNode, vars
  <2> QED
    BY <1>0, <2>1 DEF SpecInv
<1> QED
  BY <1>1, <1>2, <1>3, <1>4, <1>5 DEF Next, Workflow

\* A worker signs an account that was taken off the channel.
LEMMA SignStep == SignInv /\ SpecInv /\ [Next]_vars => SignInv'
<1> SUFFICES ASSUME SignInv, SpecInv, [Next]_vars PROVE SignInv'
  OBVIOUS
<1>0. spec' = spec /\ Nodes' = Nodes /\ Accounts' = Accounts
  BY SpecStays, SharesStay
<1>1. CASE Signing
  <2>1. PICK n \in Nodes, w \in Workers : TakeAccount(n, w) \/ SignAccount(n, w)
    BY <1>1 DEF Signing
  <2>2. CASE TakeAccount(n, w)
    <3>1. taken[n] + 1 \in 1..spec.NumAccounts
      BY <2>2, SpecNumbers DEF TakeAccount, SignInv, SpecInv
    <3>2. taken' = [taken EXCEPT ![n] = taken[n] + 1]
      BY <2>2 DEF TakeAccount
    <3>3. taken'[n] = taken[n] + 1
      BY <3>2 DEF SignInv
    <3>4. hand' = [hand EXCEPT ![n][w] = taken[n] + 1] /\ slot' = slot
      BY <2>2, <3>3 DEF TakeAccount
    <3>5. taken' \in [Nodes -> 0..spec.NumAccounts]
      BY <3>1, <3>2 DEF SignInv
    <3>6. hand' \in [Nodes -> [Workers -> 0..spec.NumAccounts]]
      BY <3>1, <3>4 DEF SignInv
    <3>7. ASSUME NEW m \in Nodes, NEW v \in Workers PROVE hand'[m][v] <= taken'[m]
      <4>0. taken[m] \in Nat /\ hand[m][v] \in Nat /\ hand[m][v] <= taken[m]
        BY SpecNumbers DEF SignInv, SpecInv
      <4>1. CASE m = n /\ v = w
        BY <3>1, <3>3, <3>4, <4>1 DEF SignInv
      <4>2. CASE ~(m = n /\ v = w)
        <5>1. hand'[m][v] = hand[m][v]
          BY <3>4, <4>2 DEF SignInv
        <5>2. taken'[m] \in {taken[m], taken[m] + 1}
          BY <3>2 DEF SignInv
        <5> QED
          BY <4>0, <5>1, <5>2
      <4> QED
        BY <4>1, <4>2
    <3> QED
      BY <1>0, <3>4, <3>5, <3>6, <3>7 DEF SignInv
  <2>3. CASE SignAccount(n, w)
    <3>1. PICK outcome \in {"ok", "err"} : slot' = [slot EXCEPT ![n][hand[n][w]] = outcome]
      BY <2>3 DEF SignAccount
    <3>2. hand' = [hand EXCEPT ![n][w] = 0] /\ taken' = taken
      BY <2>3 DEF SignAccount
    <3>3. hand' \in [Nodes -> [Workers -> 0..spec.NumAccounts]]
      BY <3>2, SpecNumbers DEF SignInv, SpecInv
    <3>4. slot' \in [Nodes -> [Accounts -> {"todo", "ok", "err"}]]
      BY <3>1 DEF SignInv
    <3>5. ASSUME NEW m \in Nodes, NEW v \in Workers PROVE hand'[m][v] <= taken[m]
      <4>0. taken[m] \in Nat /\ hand[m][v] <= taken[m]
        BY SpecNumbers DEF SignInv, SpecInv
      <4>1. hand'[m][v] \in {hand[m][v], 0}
        BY <3>2 DEF SignInv
      <4> QED
        BY <4>0, <4>1
    <3> QED
      BY <1>0, <3>2, <3>3, <3>4, <3>5 DEF SignInv
  <2> QED
    BY <2>1, <2>2, <2>3
<1>2. CASE Workflow \/ Emitting \/ Running \/ UNCHANGED vars
  <2>1. taken' = taken /\ hand' = hand /\ slot' = slot
    BY <1>2 DEF Workflow, Emitting, Running, LoadConfig, GenerateLayout, GenerateFails, GenerateDone,
                Emit, ProduceTxs, RunNode, vars
  <2> QED
    BY <1>0, <2>1 DEF SignInv
<1> QED
  BY <1>1, <1>2 DEF Next

\* A file grows by the next account, or is written when all are signed.
LEMMA FileStep == FileInv /\ SpecInv /\ [Next]_vars => FileInv'
<1> SUFFICES ASSUME FileInv, SpecInv, [Next]_vars PROVE FileInv'
  OBVIOUS
<1>0. spec' = spec /\ Nodes' = Nodes /\ \A n : Shares(n)' = Shares(n)
  BY SpecStays, SharesStay
<1> DEFINE Fine(n, seq, done) ==
             \E m \in 0..spec.NumAccounts : Whole(seq, n, m) /\ (done => m = spec.NumAccounts)
<1>n. spec \in SpecType /\ spec.NumTxs \in Nat \ {0} /\ spec.NumAccounts \in Nat \ {0}
  BY SpecNumbers DEF SpecInv
<1>a. SUFFICES /\ DOMAIN file' = Nodes
               /\ complete' \in [Nodes -> BOOLEAN]
               /\ \A n \in Nodes : Fine(n, file'[n], complete'[n])
  <2>1. ASSUME NEW n, NEW m, NEW seq PROVE Whole(seq, n, m) <=> Laid(seq, Shares(n)', m, spec'.NumTxs)
    BY <1>0 DEF Whole
  <2> QED
    BY <1>0, <2>1 DEF FileInv, Whole
<1>b. /\ DOMAIN file = Nodes
      /\ complete \in [Nodes -> BOOLEAN]
      /\ \A n \in Nodes : Fine(n, file[n], complete[n])
  BY DEF FileInv
<1>1. ASSUME NEW n \in Nodes, Emit(n)
      PROVE  /\ DOMAIN file' = Nodes
             /\ complete' \in [Nodes -> BOOLEAN]
             /\ \A k \in Nodes : Fine(k, file'[k], complete'[k])
  <2>1. PICK m \in 0..spec.NumAccounts : Whole(file[n], n, m)
    BY <1>b
  <2>2. Emitted(n) = m
    BY <1>n, <2>1, EmittedIs
  <2>3. m < spec.NumAccounts /\ ~ProducesTxs
    BY <1>1, <2>2 DEF Emit
  <2>4. m \in Nat /\ m + 1 \in Accounts /\ m + 1 \in 0..spec.NumAccounts
    BY <1>n, <2>3 DEF Accounts
  <2>5. Shares(n)[m + 1] = LegacyTxs(n, m + 1) /\ Shares(n)[m + 1] = Account(n, m + 1)
    BY <2>3, <2>4 DEF Shares, Account
  <2>6. Whole(file[n] \o LegacyTxs(n, m + 1), n, m + 1)
    <3>1. Shares(n)[m + 1] \in Seq(Tx) /\ Len(Shares(n)[m + 1]) = spec.NumTxs
      BY <1>n, <2>4, <2>5, AccountIs
    <3>2. Whole(file[n] \o Shares(n)[m + 1], n, m + 1)
      BY <1>n, <2>1, <2>4, <3>1, LaidNext DEF Whole
    <3> QED
      BY <2>5, <3>2
  <2>7. file' = [file EXCEPT ![n] = file[n] \o LegacyTxs(n, m + 1)]
    BY <1>1, <2>2 DEF Emit
  <2>8. complete' = [complete EXCEPT ![n] = (m + 1 = spec.NumAccounts)]
    BY <1>1, <2>2 DEF Emit
  <2>9. Fine(n, file'[n], complete'[n])
    <3>1. file'[n] = file[n] \o LegacyTxs(n, m + 1)
      BY <1>b, <2>7
    <3>2. complete'[n] => m + 1 = spec.NumAccounts
      BY <1>b, <2>8
    <3> QED
      BY <2>4, <2>6, <3>1, <3>2
  <2>10. ASSUME NEW k \in Nodes, k # n PROVE Fine(k, file'[k], complete'[k])
    <3>1. file'[k] = file[k] /\ complete'[k] = complete[k]
      BY <1>b, <2>7, <2>8, <2>10
    <3> QED
      BY <1>b, <3>1, Zenon
  <2>11. DOMAIN file' = Nodes /\ complete' \in [Nodes -> BOOLEAN]
    BY <1>b, <2>7, <2>8
  <2> HIDE DEF Fine
  <2> QED
    BY <2>9, <2>10, <2>11
<1>2. ASSUME NEW n \in Nodes, ProduceTxs(n)
      PROVE  /\ DOMAIN file' = Nodes
             /\ complete' \in [Nodes -> BOOLEAN]
             /\ \A k \in Nodes : Fine(k, file'[k], complete'[k])
  <2>1. Shares(n) = [a \in Accounts |-> NativeTxs(n, a)]
    BY <1>2 DEF ProduceTxs, Shares, Account
  <2>2. file' = [file EXCEPT ![n] = FlattenSeq(Shares(n))] /\ complete' = [complete EXCEPT ![n] = TRUE]
    BY <1>2, <2>1 DEF ProduceTxs
  <2>3. file'[n] = FlattenSeq(Shares(n))
    BY <1>b, <2>2
  <2>4. Fine(n, file'[n], complete'[n])
    BY <1>n, <2>3, SharesFlat
  <2>5. ASSUME NEW k \in Nodes, k # n PROVE Fine(k, file'[k], complete'[k])
    <3>1. file'[k] = file[k] /\ complete'[k] = complete[k]
      BY <1>b, <2>2, <2>5
    <3> QED
      BY <1>b, <3>1, Zenon
  <2>6. DOMAIN file' = Nodes /\ complete' \in [Nodes -> BOOLEAN]
    BY <1>b, <2>2
  <2> HIDE DEF Fine
  <2> QED
    BY <2>4, <2>5, <2>6
<1>3. CASE Workflow \/ Signing \/ Running \/ UNCHANGED vars
  <2>1. file' = file /\ complete' = complete
    BY <1>3 DEF Workflow, Signing, Running, LoadConfig, GenerateLayout, GenerateFails, GenerateDone,
                TakeAccount, SignAccount, RunNode, vars
  <2> QED
    BY <1>b, <2>1
<1> QED
  BY <1>1, <1>2, <1>3 DEF Next, Emitting

\* A run sends a complete file, or what it signs again.
LEMMA LoadStep == LoadInv /\ FileInv /\ SpecInv /\ [Next]_vars => LoadInv'
<1> SUFFICES ASSUME LoadInv, FileInv, SpecInv, [Next]_vars PROVE LoadInv'
  OBVIOUS
<1>0. spec' = spec /\ Nodes' = Nodes /\ \A n : Shares(n)' = Shares(n)
  BY SpecStays, SharesStay
<1>n. spec \in SpecType /\ spec.NumTxs \in Nat \ {0} /\ spec.NumAccounts \in Nat \ {0}
  BY SpecNumbers DEF SpecInv
<1> DEFINE Fine(n, seq) == /\ n < spec.Validators => spec.ValidatorGenerateLoad
                           /\ Whole(seq, n, spec.NumAccounts)
<1>a. SUFFICES /\ DOMAIN load' = Nodes
               /\ \A n \in Nodes : load'[n] # <<>> => pc' \in Begun /\ Fine(n, load'[n])
  <2>1. ASSUME NEW n, NEW m, NEW seq PROVE Whole(seq, n, m) <=> Laid(seq, Shares(n)', m, spec'.NumTxs)
    BY <1>0 DEF Whole
  <2> QED
    BY <1>0, <2>1 DEF LoadInv, Whole, Begun
<1>b. /\ DOMAIN load = Nodes
      /\ \A n \in Nodes : load[n] # <<>> => pc \in Begun /\ Fine(n, load[n])
  BY DEF LoadInv
<1>1. ASSUME NEW n \in Nodes, RunNode(n)
      PROVE  /\ DOMAIN load' = Nodes
             /\ \A k \in Nodes : load'[k] # <<>> => pc' \in Begun /\ Fine(k, load'[k])
  <2>1. pc' = pc /\ pc \in Begun /\ (n < spec.Validators => spec.ValidatorGenerateLoad)
    BY <1>1 DEF RunNode, Begun
  <2>2. Whole(file[n], n, spec.NumAccounts)
    BY <1>1 DEF RunNode, FileInv
  <2>3. Whole(Resign(n), n, spec.NumAccounts)
    <3>1. CASE ProducesTxs
      BY <2>2, <3>1 DEF Resign
    <3>2. CASE ~ProducesTxs
      <4>1. Shares(n) = [a \in Accounts |-> LegacyTxs(n, a)]
        BY <3>2 DEF Shares, Account
      <4>2. Resign(n) = FlattenSeq(Shares(n))
        BY <3>2, <4>1, Zenon DEF Resign
      <4> QED
        BY <1>n, <4>2, SharesFlat
    <3> QED
      BY <3>1, <3>2
  <2>4. PICK seq : load' = [load EXCEPT ![n] = seq] /\ Whole(seq, n, spec.NumAccounts)
    BY <1>1, <2>2, <2>3 DEF RunNode
  <2>5. load'[n] = seq
    BY <1>b, <2>4
  <2>6. Fine(n, load'[n])
    BY <2>1, <2>4, <2>5
  <2>7. ASSUME NEW k \in Nodes, k # n, load'[k] # <<>> PROVE pc \in Begun /\ Fine(k, load'[k])
    <3>1. load'[k] = load[k]
      BY <1>b, <2>4, <2>7
    <3> QED
      BY <1>b, <2>7, <3>1, Zenon
  <2>8. DOMAIN load' = Nodes
    BY <1>b, <2>4
  <2> HIDE DEF Fine
  <2> QED
    BY <2>1, <2>6, <2>7, <2>8
<1>2. CASE Workflow \/ Signing \/ Emitting \/ UNCHANGED vars
  <2>1. load' = load
    BY <1>2 DEF Workflow, Signing, Emitting, LoadConfig, GenerateLayout, GenerateFails, GenerateDone,
                TakeAccount, SignAccount, Emit, ProduceTxs, vars
  <2>2. pc \in Begun => pc' \in Begun
    BY <1>2 DEF Workflow, Signing, Emitting, LoadConfig, GenerateLayout, GenerateFails, GenerateDone,
                TakeAccount, SignAccount, Emit, ProduceTxs, vars, Begun
  <2> HIDE DEF Fine
  <2> QED
    BY <1>b, <2>1, <2>2
<1> QED
  BY <1>1, <1>2 DEF Next, Running

\* The inductive invariant holds.
LEMMA InvariantHolds == Spec => []IInv
<1>1. IInv /\ [Next]_vars => IInv'
  BY SpecStep, SignStep, FileStep, LoadStep DEF IInv
<1> QED
  BY InitInv, <1>1, PTL DEF Spec
-----------------------------------------------------------------------------
(* Theorems.                                                               *)

\* What a transaction in a node's load is, by its place.
LEMMA PlacedTx ==
  ASSUME spec \in SpecType, NEW n \in Nodes, NEW seq, Whole(seq, n, spec.NumAccounts)
  PROVE  /\ DOMAIN seq = 1..(spec.NumAccounts * spec.NumTxs)
         /\ \A s \in 0..(spec.NumAccounts - 1) : \A i \in 1..spec.NumTxs :
              LET tx == seq[(s * spec.NumTxs) + i] IN
              /\ tx.from = IF ProducesTxs THEN NativeKey(n, s + 1) ELSE LegacyKey(n, s + 1)
              /\ tx.nonce = i - 1
              /\ tx.hot = (~ProducesTxs /\ SendsToHotRecipient(i - 1))
<1> DEFINE key(s) == IF ProducesTxs THEN NativeKey(n, s + 1) ELSE LegacyKey(n, s + 1)
           hot(i) == ~ProducesTxs /\ SendsToHotRecipient(i - 1)
<1>1. spec.NumTxs \in Nat \ {0} /\ spec.NumAccounts \in Nat \ {0}
  BY SpecNumbers
<1>2. DOMAIN seq = 1..(spec.NumAccounts * spec.NumTxs)
  BY <1>1 DEF Whole, Laid
<1>3. ASSUME NEW s \in 0..(spec.NumAccounts - 1), NEW i \in 1..spec.NumTxs
      PROVE  /\ seq[(s * spec.NumTxs) + i].from = key(s)
             /\ seq[(s * spec.NumTxs) + i].nonce = i - 1
             /\ seq[(s * spec.NumTxs) + i].hot = hot(i)
  <2>1. s + 1 \in Accounts
    BY <1>1 DEF Accounts
  <2>2. seq[(s * spec.NumTxs) + i] = Shares(n)[s + 1][i]
    BY DEF Whole, Laid
  <2>3. Shares(n)[s + 1] = Account(n, s + 1)
    BY <2>1, Zenon DEF Shares
  <2>4. seq[(s * spec.NumTxs) + i] = Account(n, s + 1)[i]
    BY <2>2, <2>3, Zenon
  <2>5. /\ Account(n, s + 1)[i].from = key(s)
        /\ Account(n, s + 1)[i].nonce = i - 1
        /\ Account(n, s + 1)[i].hot = hot(i)
    BY <2>1, AccountIs, Zenon
  <2> QED
    BY <2>4, <2>5, Zenon
<1> QED
  BY <1>2, <1>3, Zenon

\* Every transaction in a node's load has a place.
LEMMA EveryTx ==
  ASSUME spec \in SpecType, NEW n \in Nodes, NEW seq, Whole(seq, n, spec.NumAccounts),
         NEW p \in DOMAIN seq
  PROVE  \E s \in 0..(spec.NumAccounts - 1) : \E i \in 1..spec.NumTxs :
           /\ p = (s * spec.NumTxs) + i
           /\ seq[p].from = IF ProducesTxs THEN NativeKey(n, s + 1) ELSE LegacyKey(n, s + 1)
           /\ seq[p].nonce = i - 1
<1>1. spec.NumTxs \in Nat \ {0} /\ spec.NumAccounts \in Nat \ {0}
  BY SpecNumbers
<1>2. p \in 1..(spec.NumAccounts * spec.NumTxs)
  BY PlacedTx, Zenon
<1>3. PICK s \in 0..(spec.NumAccounts - 1), i \in 1..spec.NumTxs : p = (s * spec.NumTxs) + i
  BY <1>1, <1>2, PlaceExists
<1>4. /\ seq[p].from = IF ProducesTxs THEN NativeKey(n, s + 1) ELSE LegacyKey(n, s + 1)
      /\ seq[p].nonce = i - 1
  BY <1>3, PlacedTx, Zenon
<1> QED
  BY <1>3, <1>4, Zenon

\* Branches and indices make keys.
LEMMA KeysIn ==
  ASSUME NEW A, NEW B, A \subseteq Nat, B \subseteq Nat
  PROVE  A \X B \subseteq Nat \X Nat
<1> SUFFICES ASSUME NEW x \in A \X B PROVE x \in Nat \X Nat
  OBVIOUS
<1>1. x = <<x[1], x[2]>> /\ x[1] \in A /\ x[2] \in B
  OBVIOUS
<1> QED
  BY <1>1

\* Every bootstrap funds keys.
LEMMA FundedKeys ==
  ASSUME spec \in SpecType
  PROVE  Funded \subseteq Nat \X Nat
<1>1. spec.NumAccounts \in Nat /\ spec.Validators \in Nat /\ Nodes \subseteq Nat /\ Accounts \subseteq Nat
  BY SpecNumbers DEF Accounts
<1>2. 0..(spec.NumAccounts * spec.Validators) \subseteq Nat
  OBVIOUS
<1>3. SignerAddresses \subseteq Nat \X Nat
  BY <1>1 DEF SignerAddresses
<1>4. {0} \subseteq Nat
  OBVIOUS
<1>5. /\ CosmosFunded \subseteq Nat \X Nat
      /\ TempoFunded \subseteq Nat \X Nat
      /\ RemoteFunded \subseteq Nat \X Nat
  <2>1. Nodes \X {0} \subseteq Nat \X Nat
    BY <1>1, <1>4, KeysIn, Zenon
  <2>2. TempoFunded \subseteq Nat \X Nat
    BY <1>2, <1>4, KeysIn, Zenon DEF TempoFunded
  <2>3. RemoteFunded \subseteq Nat \X Nat
    BY <1>1, <1>4, KeysIn, Zenon DEF RemoteFunded
  <2> QED
    BY <1>3, <2>1, <2>2, <2>3 DEF CosmosFunded
<1>6. spec.ChainFamily \in {"cosmos", "tempo", "allegro", "reth"} /\ spec.RemoteRPC \in BOOLEAN
  BY DEF SpecType, Families
<1> QED
  BY <1>3, <1>5, <1>6 DEF Funded, AllegroFundedAlloc, RethFunded

\* A load of some accounts is not longer than one of all.
LEMMA LengthBound ==
  ASSUME spec \in SpecType, NEW n, NEW seq, NEW m \in 0..spec.NumAccounts, Whole(seq, n, m)
  PROVE  Len(seq) \in 0..(spec.NumAccounts * spec.NumTxs)
<1>1. spec.NumTxs \in Nat \ {0} /\ spec.NumAccounts \in Nat \ {0} /\ m \in Nat
  BY SpecNumbers
<1>2. PICK d \in Nat : spec.NumAccounts = m + d
  <2>1. spec.NumAccounts - m \in Nat /\ spec.NumAccounts = m + (spec.NumAccounts - m)
    BY <1>1
  <2> QED
    BY <2>1
<1>3. spec.NumAccounts * spec.NumTxs = (m * spec.NumTxs) + (d * spec.NumTxs)
  BY <1>1, <1>2
<1>4. m * spec.NumTxs \in Nat /\ d * spec.NumTxs \in Nat
  BY <1>1
<1> QED
  BY <1>3, <1>4 DEF Whole, Laid

\* The types of the workflow's variables.
LEMMA TypesHold == IInv => TypeOK
<1> SUFFICES ASSUME IInv PROVE TypeOK
  OBVIOUS
<1>1. spec \in SpecType
  BY DEF IInv, SpecInv
<1>n. spec.NumTxs \in Nat \ {0} /\ spec.NumAccounts \in Nat \ {0}
  BY <1>1, SpecNumbers
<1>2. pc \in {"config", "layout", "generate", "rerun", "run", "refused"}
  BY DEF IInv, SpecInv, Begun
<1>3. funded \subseteq Nat \X Nat
  BY <1>1, FundedKeys DEF IInv, SpecInv
<1>4. ASSUME NEW n \in Nodes
      PROVE  /\ taken[n] \in 0..spec.NumAccounts
             /\ hand[n] \in [Workers -> 0..taken[n]]
             /\ slot[n] \in [Accounts -> {"todo", "ok", "err"}]
             /\ complete[n] \in BOOLEAN
  <2>1. /\ taken[n] \in 0..spec.NumAccounts
        /\ hand[n] \in [Workers -> 0..spec.NumAccounts]
        /\ slot[n] \in [Accounts -> {"todo", "ok", "err"}]
        /\ complete[n] \in BOOLEAN
    BY DEF IInv, SignInv, FileInv
  <2>2. \A w \in Workers : hand[n][w] \in 0..taken[n]
    <3> SUFFICES ASSUME NEW w \in Workers PROVE hand[n][w] \in 0..taken[n]
      OBVIOUS
    <3>1. hand[n][w] <= taken[n]
      BY DEF IInv, SignInv
    <3> QED
      BY <1>n, <2>1, <3>1
  <2> QED
    BY <2>1, <2>2
<1>5. ASSUME NEW n \in Nodes, NEW seq \in {file[n], load[n]}
      PROVE  Len(seq) \in 0..(spec.NumAccounts * spec.NumTxs)
  <2>1. CASE seq = file[n]
    <3>1. PICK m \in 0..spec.NumAccounts : Whole(file[n], n, m)
      BY DEF IInv, FileInv
    <3> QED
      BY <1>1, <2>1, <3>1, LengthBound
  <2>2. CASE seq = load[n] /\ load[n] = <<>>
    <3>1. spec.NumAccounts * spec.NumTxs \in Nat
      BY <1>n
    <3> QED
      BY <2>2, <3>1
  <2>3. CASE seq = load[n] /\ load[n] # <<>>
    <3>1. Whole(load[n], n, spec.NumAccounts)
      BY <2>3 DEF IInv, LoadInv
    <3>2. spec.NumAccounts \in 0..spec.NumAccounts
      BY <1>n
    <3> QED
      BY <1>1, <2>3, <3>1, <3>2, LengthBound
  <2> QED
    BY <2>1, <2>2, <2>3
<1> QED
  BY <1>2, <1>3, <1>4, <1>5 DEF TypeOK

\* Each stream of a load is one account's whole sequence from nonce 0, after every way
\* in which signing and writing can be interleaved and fail.
THEOREM StreamsAreWhole == Spec => []StreamsWhole
<1>1. ASSUME IInv PROVE StreamsWhole
  <2>1. spec \in SpecType
    BY <1>1 DEF IInv, SpecInv
  <2>n. spec.NumTxs \in Nat \ {0} /\ spec.NumAccounts \in Nat \ {0}
    BY <2>1, SpecNumbers
  <2>2. ASSUME NEW n \in Nodes, load[n] # <<>>
        PROVE  /\ Len(load[n]) = spec.NumAccounts * spec.NumTxs
               /\ \A s \in 0..(spec.NumAccounts - 1) : \A i \in 1..spec.NumTxs :
                    LET tx == load[n][(s * spec.NumTxs) + i] IN
                    tx.from = load[n][(s * spec.NumTxs) + 1].from /\ tx.nonce = i - 1
    <3>1. Whole(load[n], n, spec.NumAccounts)
      BY <1>1, <2>2 DEF IInv, LoadInv
    <3>2. Len(load[n]) = spec.NumAccounts * spec.NumTxs
      BY <3>1 DEF Whole, Laid
    <3>3. 1 \in 1..spec.NumTxs
      BY <2>n
    <3>4. ASSUME NEW s \in 0..(spec.NumAccounts - 1), NEW i \in 1..spec.NumTxs
          PROVE  /\ load[n][(s * spec.NumTxs) + i].from = load[n][(s * spec.NumTxs) + 1].from
                 /\ load[n][(s * spec.NumTxs) + i].nonce = i - 1
      <4>1. \A k \in 1..spec.NumTxs :
              /\ load[n][(s * spec.NumTxs) + k].from =
                   IF ProducesTxs THEN NativeKey(n, s + 1) ELSE LegacyKey(n, s + 1)
              /\ load[n][(s * spec.NumTxs) + k].nonce = k - 1
        BY <2>1, <3>1, PlacedTx, Zenon
      <4> QED
        BY <3>3, <4>1, Zenon
    <3> QED
      BY <3>2, <3>4
  <2> QED
    BY <1>1, <2>2, TypesHold DEF StreamsWhole
<1> QED
  BY InvariantHolds, <1>1, PTL

\* No account and nonce is signed twice, by whichever nodes, nor a validator's key used.
THEOREM NoncesAreUnique == Spec => []NoNonceTwice
<1>1. ASSUME IInv PROVE NoNonceTwice
  <2>1. spec \in SpecType
    BY <1>1 DEF IInv, SpecInv
  <2>n. spec.NumTxs \in Nat \ {0} /\ spec.NumAccounts \in Nat \ {0} /\ Nodes \subseteq Nat
    BY <2>1, SpecNumbers
  <2> DEFINE Key(n, s) == IF ProducesTxs THEN NativeKey(n, s + 1) ELSE LegacyKey(n, s + 1)
  <2>2. ASSUME NEW n \in Nodes, NEW i \in DOMAIN load[n]
        PROVE  \E s \in 0..(spec.NumAccounts - 1) : \E k \in 1..spec.NumTxs :
                 /\ i = (s * spec.NumTxs) + k
                 /\ load[n][i].from = Key(n, s) /\ load[n][i].nonce = k - 1
    <3>1. load[n] # <<>>
      BY <2>2
    <3>2. Whole(load[n], n, spec.NumAccounts)
      BY <1>1, <3>1 DEF IInv, LoadInv
    <3> QED
      BY <2>1, <3>2, EveryTx
  <2>3. ASSUME NEW n \in Nodes, NEW m \in Nodes, NEW s \in 0..(spec.NumAccounts - 1),
               NEW r \in 0..(spec.NumAccounts - 1), Key(n, s) = Key(m, r)
        PROVE  n = m /\ s = r
    <3>1. n \in Nat /\ m \in Nat /\ s \in Nat /\ r \in Nat
      BY <2>n
    <3>2. CASE ProducesTxs
      <4>1. (n * spec.NumAccounts) + (s + 1) = (m * spec.NumAccounts) + (r + 1)
        BY <2>3, <3>2 DEF NativeKey
      <4>2. s + 1 \in 1..spec.NumAccounts /\ r + 1 \in 1..spec.NumAccounts
        BY <2>n
      <4>3. n = m /\ s + 1 = r + 1
        BY <2>n, <3>1, <4>1, <4>2, PlaceUnique
      <4> QED
        BY <3>1, <4>3
    <3>3. CASE ~ProducesTxs
      <4>1. n = m /\ s + 1 = r + 1
        BY <2>3, <3>3 DEF LegacyKey
      <4> QED
        BY <3>1, <4>1
    <3> QED
      BY <3>2, <3>3
  <2>4. ASSUME NEW n \in Nodes, NEW s \in 0..(spec.NumAccounts - 1) PROVE Key(n, s)[2] # 0
    <3>1. n * spec.NumAccounts \in Nat /\ s \in Nat
      BY <2>n
    <3> QED
      BY <3>1 DEF NativeKey, LegacyKey
  <2> HIDE DEF Key
  <2>5. ASSUME NEW n \in Nodes, NEW i \in DOMAIN load[n], NEW m \in Nodes, NEW j \in DOMAIN load[m],
               load[n][i].from = load[m][j].from, load[n][i].nonce = load[m][j].nonce
        PROVE  <<n, i>> = <<m, j>>
    <3>1. PICK s \in 0..(spec.NumAccounts - 1), k \in 1..spec.NumTxs :
             /\ i = (s * spec.NumTxs) + k
             /\ load[n][i].from = Key(n, s) /\ load[n][i].nonce = k - 1
      BY <2>2
    <3>2. PICK r \in 0..(spec.NumAccounts - 1), l \in 1..spec.NumTxs :
             /\ j = (r * spec.NumTxs) + l
             /\ load[m][j].from = Key(m, r) /\ load[m][j].nonce = l - 1
      BY <2>2
    <3>3. n = m /\ s = r
      BY <2>3, <2>5, <3>1, <3>2
    <3>4. k = l
      BY <2>n, <2>5, <3>1, <3>2
    <3> QED
      BY <3>1, <3>2, <3>3, <3>4
  <2>6. ASSUME NEW n \in Nodes, NEW i \in DOMAIN load[n] PROVE load[n][i].from[2] # 0
    BY <2>2, <2>4
  <2> QED
    BY <2>5, <2>6 DEF NoNonceTwice
<1> QED
  BY InvariantHolds, <1>1, PTL
\* The configs that tempoRuntime.Validate means to refuse and does not: its docker branch
\* returns before the rule on legacy transactions.
NoLegacyInDocker == \A s \in Specs : s.ChainFamily = "tempo" /\ s.Docker => ~s.TempoLegacyTxs

\* Of every other config that is accepted, a node that sends load signs with keys that
\* Bootstrap has funded.
LEMMA KeysFunded ==
  ASSUME spec \in SpecType, ConfigValid, Validate,
         spec.ChainFamily = "tempo" /\ spec.Docker => ~spec.TempoLegacyTxs,
         NEW n \in Nodes, n < spec.Validators => spec.ValidatorGenerateLoad, NEW a \in Accounts
  PROVE  (IF ProducesTxs THEN NativeKey(n, a) ELSE LegacyKey(n, a)) \in Funded
<1> DEFINE V == spec.Validators
           A == spec.NumAccounts
<1>1. V \in Nat /\ A \in Nat \ {0} /\ n \in Nat /\ a \in 1..A
  BY SpecNumbers DEF Accounts
<1>2. spec.ChainFamily \in {"cosmos", "tempo", "allegro", "reth"}
      /\ spec.RemoteRPC \in BOOLEAN /\ spec.Docker \in BOOLEAN /\ spec.TempoLegacyTxs \in BOOLEAN
  BY DEF SpecType, Families
<1>3. CASE spec.ChainFamily # "tempo"
  <2>1. ~ProducesTxs
    BY <1>3 DEF ProducesTxs
  <2>2. LegacyKey(n, a) \in SignerAddresses
    BY DEF LegacyKey, SignerAddresses
  <2>3. SignerAddresses \subseteq Funded
    BY <1>2, <1>3 DEF Funded, CosmosFunded, AllegroFundedAlloc, RethFunded
  <2> QED
    BY <2>1, <2>2, <2>3
<1>4. CASE spec.ChainFamily = "tempo"
  <2>1. TempoValid
    BY <1>4 DEF Validate
  <2>2. V >= 1 /\ n <= V - 1
    BY <1>1, <2>1 DEF ConfigValid, TempoValid, Nodes
  <2>3. CASE spec.RemoteRPC
    <3>1. ~spec.TempoLegacyTxs /\ V = 1
      BY <2>1, <2>3 DEF TempoValid, ConfigValid
    <3>2. n = 0 /\ ProducesTxs
      BY <1>1, <1>4, <2>2, <3>1 DEF ProducesTxs
    <3>3. (n * A) + a = a
      BY <1>1, <3>2
    <3>4. NativeKey(n, a) = <<0, a>>
      BY <3>3 DEF NativeKey
    <3>5. Funded = {0} \X Accounts
      BY <1>4, <2>3 DEF Funded, RemoteFunded
    <3> QED
      BY <3>2, <3>4, <3>5
  <2>4. CASE ~spec.RemoteRPC /\ ProducesTxs
    <3>1. PICK d \in Nat : V = n + 1 + d
      <4>1. V - (n + 1) \in Nat /\ V = n + 1 + (V - (n + 1))
        BY <1>1, <2>2
      <4> QED
        BY <4>1
    <3>2. A * V = (n * A) + A + (d * A)
      BY <1>1, <3>1
    <3>3. n * A \in Nat /\ d * A \in Nat
      BY <1>1
    <3>4. (n * A) + a \in 0..(A * V)
      BY <1>1, <3>2, <3>3
    <3>5. Funded = {0} \X (0..(A * V))
      BY <1>4, <2>4 DEF Funded, TempoFunded
    <3> QED
      BY <2>4, <3>4, <3>5 DEF NativeKey
  <2>5. CASE ~spec.RemoteRPC /\ ~ProducesTxs
    <3>1. spec.TempoLegacyTxs /\ ~spec.Docker
      BY <1>2, <1>4, <2>5 DEF ProducesTxs
    <3>2. ~(V > 1 /\ spec.ValidatorGenerateLoad)
      BY <2>1, <2>5, <3>1 DEF TempoValid
    <3>3. n = 0
      BY <1>1, <2>2, <3>2
    <3>4. a \in 0..(A * V)
      <4>1. PICK d \in Nat : V = 1 + d
        <5>1. V - 1 \in Nat /\ V = 1 + (V - 1)
          BY <1>1, <2>2
        <5> QED
          BY <5>1
      <4>2. A * V = A + (A * d) /\ A * d \in Nat
        BY <1>1, <4>1
      <4> QED
        BY <1>1, <4>2
    <3>5. Funded = {0} \X (0..(A * V))
      BY <1>4, <2>5 DEF Funded, TempoFunded
    <3> QED
      BY <2>5, <3>3, <3>4, <3>5 DEF LegacyKey
  <2> QED
    BY <2>3, <2>4, <2>5
<1> QED
  BY <1>3, <1>4

\* A config read is one of those an operator may write.
LEMMA SpecListed == Spec => [](spec \in Specs)
<1>1. Init => spec \in Specs
  BY DEF Init
<1>2. spec \in Specs /\ [Next]_vars => (spec \in Specs)'
  BY SpecStays
<1> QED
  BY <1>1, <1>2, PTL DEF Spec

\* Every accepted config sends only from keys that hold funds, whichever signer signs and
\* whether it signs again at a higher price.  The one hole in the rules is excluded, and
\* GenerateLoadDocker shows what comes through it.
THEOREM SendersAreFunded ==
  ASSUME NoLegacyInDocker
  PROVE  Spec => []EverySenderFunded
<1>1. ASSUME IInv, spec \in Specs PROVE EverySenderFunded
  <2>1. spec \in SpecType
    BY <1>1 DEF IInv, SpecInv
  <2> SUFFICES ASSUME NEW n \in Nodes, NEW i \in DOMAIN load[n]
               PROVE  load[n][i].from \in funded
    BY DEF EverySenderFunded
  <2>2. load[n] # <<>>
    OBVIOUS
  <2>3. /\ pc \in Begun
        /\ n < spec.Validators => spec.ValidatorGenerateLoad
        /\ Whole(load[n], n, spec.NumAccounts)
    BY <1>1, <2>2 DEF IInv, LoadInv
  <2>4. ConfigValid /\ Validate /\ funded = Funded
    BY <1>1, <2>3 DEF IInv, SpecInv, Begun
  <2>5. PICK s \in 0..(spec.NumAccounts - 1), k \in 1..spec.NumTxs :
          /\ i = (s * spec.NumTxs) + k
          /\ load[n][i].from = IF ProducesTxs THEN NativeKey(n, s + 1) ELSE LegacyKey(n, s + 1)
          /\ load[n][i].nonce = k - 1
    BY <2>1, <2>3, EveryTx
  <2>6. s + 1 \in Accounts
    BY <2>1, SpecNumbers DEF Accounts
  <2>7. spec.ChainFamily = "tempo" /\ spec.Docker => ~spec.TempoLegacyTxs
    BY <1>1, NoLegacyInDocker DEF NoLegacyInDocker
  <2>8. (IF ProducesTxs THEN NativeKey(n, s + 1) ELSE LegacyKey(n, s + 1)) \in Funded
    BY <2>1, <2>3, <2>4, <2>6, <2>7, KeysFunded
  <2> QED
    BY <2>4, <2>5, <2>8
<1> QED
  BY InvariantHolds, SpecListed, <1>1, PTL

-----------------------------------------------------------------------------
(* The hot recipient's share.                                              *)

\* How many of the first k transactions of an account are for the hot recipient.
HotUpTo(k) == (k * spec.HotRecipientPercent) \div 100

\* Each transaction adds its share in hundredths, and at most one to the count.
LEMMA HotGrows ==
  ASSUME spec.HotRecipientPercent \in 0..100, NEW k \in Nat
  PROVE  /\ HotUpTo(k) \in Nat
         /\ 100 * HotUpTo(k) <= k * spec.HotRecipientPercent
         /\ k * spec.HotRecipientPercent < (100 * HotUpTo(k)) + 100
         /\ SendsToHotRecipient(k) <=> HotUpTo(k + 1) = HotUpTo(k) + 1
         /\ ~SendsToHotRecipient(k) <=> HotUpTo(k + 1) = HotUpTo(k)
<1> DEFINE p == spec.HotRecipientPercent
           x == k * p
           y == (k + 1) * p
<1>1. x \in Nat /\ y \in Nat /\ y = x + p
  OBVIOUS
<1> HIDE DEF x, y
<1>2. /\ x \div 100 \in Nat /\ 100 * (x \div 100) <= x /\ x < (100 * (x \div 100)) + 100
      /\ y \div 100 \in Nat /\ 100 * (y \div 100) <= y /\ y < (100 * (y \div 100)) + 100
  BY <1>1
<1>3. y \div 100 \in {x \div 100, (x \div 100) + 1}
  <2>1. p \in 0..100
    OBVIOUS
  <2> DEFINE q == x \div 100
             r == y \div 100
  <2>2. q \in Nat /\ r \in Nat /\ 100 * q <= x /\ x < (100 * q) + 100 /\ 100 * r <= y
        /\ y < (100 * r) + 100
    BY <1>2
  <2> HIDE DEF p, q, r
  <2>3. r <= q + 1 /\ q <= r
    BY <1>1, <2>1, <2>2
  <2>4. r \in {q, q + 1}
    BY <2>2, <2>3
  <2> QED
    BY <2>4 DEF q, r
<1>4. HotUpTo(k) = x \div 100 /\ HotUpTo(k + 1) = y \div 100
  BY DEF HotUpTo, x, y
<1>5. SendsToHotRecipient(k) <=> y \div 100 > x \div 100
  BY DEF SendsToHotRecipient, x, y
<1> QED
  BY <1>2, <1>3, <1>4, <1>5 DEF x

\* The hot ones among the transactions i to j.
HotAmong(i, j) == {k \in i..j : SendsToHotRecipient(k - 1)}

\* Their number telescopes.
LEMMA HotCount ==
  ASSUME spec.HotRecipientPercent \in 0..100, NEW i \in Nat \ {0}, NEW j \in Nat, i <= j
  PROVE  /\ IsFiniteSet(HotAmong(i, j))
         /\ Cardinality(HotAmong(i, j)) = HotUpTo(j) - HotUpTo(i - 1)
<1>0. i - 1 \in Nat
  OBVIOUS
<1> DEFINE Fine(m) == /\ IsFiniteSet(HotAmong(i, m))
                      /\ Cardinality(HotAmong(i, m)) = HotUpTo(m) - HotUpTo(i - 1)
           S == {m \in Nat : m >= i - 1 /\ ~Fine(m)}
<1>1. SUFFICES ASSUME S # {} PROVE FALSE
  <2>1. S = {} => Fine(j)
    <3> HIDE DEF Fine
    <3> QED
      OBVIOUS
  <2> QED
    BY <2>1
<1>2. PICK m \in S : \A y \in S : m <= y
  <2>1. S \subseteq Nat
    OBVIOUS
  <2> HIDE DEF S
  <2> QED
    BY <1>1, <2>1, LeastOf
<1>3. Fine(i - 1)
  <2>1. HotAmong(i, i - 1) = {}
    BY DEF HotAmong
  <2>2. HotUpTo(i - 1) \in Nat
    BY <1>0, HotGrows
  <2>3. IsFiniteSet(HotAmong(i, i - 1)) /\ Cardinality(HotAmong(i, i - 1)) = 0
    BY <2>1, FS_EmptySet, Zenon
  <2>4. HotUpTo(i - 1) - HotUpTo(i - 1) = 0
    BY <2>2
  <2> QED
    BY <2>3, <2>4, Zenon
<1>4. m \in Nat /\ m >= i /\ m - 1 \in Nat /\ m - 1 \notin S
  <2>1. m \in Nat /\ m >= i - 1 /\ m # i - 1
    BY <1>2, <1>3
  <2>2. \A y \in S : m <= y
    BY <1>2
  <2> HIDE DEF S
  <2> QED
    BY <2>1, <2>2
<1>5. Fine(m - 1)
  BY <1>4
<1> DEFINE k == m - 1
<1>6. k \in Nat /\ k + 1 = m
  BY <1>4
<1>7. /\ HotUpTo(k) \in Nat /\ HotUpTo(i - 1) \in Nat
      /\ SendsToHotRecipient(k) => HotUpTo(m) = HotUpTo(k) + 1
      /\ ~SendsToHotRecipient(k) => HotUpTo(m) = HotUpTo(k)
  <2>1. i - 1 \in Nat
    OBVIOUS
  <2> HIDE DEF k
  <2> QED
    BY <1>6, <2>1, HotGrows
<1>8. CASE SendsToHotRecipient(k)
  <2>1. HotAmong(i, m) = HotAmong(i, k) \cup {m} /\ m \notin HotAmong(i, k)
    BY <1>4, <1>6, <1>8 DEF HotAmong
  <2>2. Fine(m)
    BY <1>5, <1>7, <1>8, <2>1, FS_AddElement
  <2> QED
    BY <1>2, <2>2
<1>9. CASE ~SendsToHotRecipient(k)
  <2>1. HotAmong(i, m) = HotAmong(i, k)
    BY <1>4, <1>6, <1>9 DEF HotAmong
  <2>2. Fine(m)
    BY <1>5, <1>7, <1>9, <2>1
  <2> QED
    BY <1>2, <2>2
<1> QED
  BY <1>8, <1>9

\* A percentage that was accepted is one.
LEMMA SharePercent ==
  ASSUME SpecInv, pc \in Begun
  PROVE  spec.HotRecipientPercent \in 0..100
<1>1. spec.HotRecipientPercent \in Nat
  BY SpecNumbers DEF SpecInv
<1>2. ConfigValid
  BY DEF SpecInv
<1>3. spec.HotRecipientPercent <= 100
  BY <1>2, Zenon DEF ConfigValid
<1> QED
  BY <1>1, <1>3

\* Two counts that fall short of their shares by less than one differ as the shares do,
\* give or take one.
LEMMA ShareBetween ==
  ASSUME NEW h \in Nat, NEW g \in Nat, NEW a \in Int, NEW b \in Int,
         100 * h <= a, a < (100 * h) + 100, 100 * g <= b, b < (100 * g) + 100
  PROVE  100 * ((h - g) - 1) < a - b /\ a - b < 100 * ((h - g) + 1)
OBVIOUS

\* Any stretch of an account's transactions has its share of hot ones, give or take one,
\* for every percentage and every number of transactions.
THEOREM HotIsSpread == Spec => []HotSpread
<1>1. ASSUME IInv PROVE HotSpread
  <2>1. spec \in SpecType
    BY <1>1 DEF IInv, SpecInv
  <2>n. spec.NumTxs \in Nat \ {0} /\ spec.NumAccounts \in Nat \ {0} /\ Nodes \subseteq Nat
        /\ spec.HotRecipientPercent \in Nat
    BY <2>1, SpecNumbers
  <2> SUFFICES ASSUME NEW n \in Nodes, load[n] # <<>>,
                      NEW i \in 1..spec.NumTxs, NEW j \in i..spec.NumTxs
               PROVE  LET hot == Cardinality({k \in i..j : load[n][k].hot})
                          share == (j - i + 1) * (IF ProducesTxs THEN 0 ELSE spec.HotRecipientPercent) IN
                      100 * (hot - 1) < share /\ share < 100 * (hot + 1)
    BY DEF HotSpread
  <2>2. Whole(load[n], n, spec.NumAccounts) /\ pc \in Begun
    BY <1>1 DEF IInv, LoadInv
  <2>3. spec.HotRecipientPercent \in 0..100
    BY <1>1, <2>2, SharePercent DEF IInv
  <2>4. i \in Nat \ {0} /\ j \in Nat /\ i <= j /\ j <= spec.NumTxs
    BY <2>n
  <2>5. \A k \in i..j : load[n][k].hot = (~ProducesTxs /\ SendsToHotRecipient(k - 1))
    <3> SUFFICES ASSUME NEW k \in i..j
                 PROVE  load[n][k].hot = (~ProducesTxs /\ SendsToHotRecipient(k - 1))
      OBVIOUS
    <3>1. k \in 1..spec.NumTxs /\ 0 \in 0..(spec.NumAccounts - 1) /\ (0 * spec.NumTxs) + k = k
      BY <2>n, <2>4
    <3>2. load[n][(0 * spec.NumTxs) + k].hot = (~ProducesTxs /\ SendsToHotRecipient(k - 1))
      BY <2>1, <2>2, <3>1, PlacedTx, Zenon
    <3> QED
      BY <3>1, <3>2, Zenon
  <2>6. CASE ProducesTxs
    <3>1. {k \in i..j : load[n][k].hot} = {}
      BY <2>5, <2>6
    <3>2. Cardinality({k \in i..j : load[n][k].hot}) = 0
      BY <3>1, FS_EmptySet
    <3>3. (j - i + 1) * 0 = 0
      BY <2>4
    <3> QED
      BY <2>6, <3>2, <3>3
  <2>7. CASE ~ProducesTxs
    <3> DEFINE p == spec.HotRecipientPercent
               hot == Cardinality(HotAmong(i, j))
    <3>1. {k \in i..j : load[n][k].hot} = HotAmong(i, j)
      BY <2>5, <2>7 DEF HotAmong
    <3>2. hot = HotUpTo(j) - HotUpTo(i - 1)
      BY <2>3, <2>4, HotCount
    <3>3. /\ HotUpTo(j) \in Nat
          /\ 100 * HotUpTo(j) <= j * p
          /\ j * p < (100 * HotUpTo(j)) + 100
      BY <2>3, <2>4, HotGrows
    <3>4. /\ HotUpTo(i - 1) \in Nat
          /\ 100 * HotUpTo(i - 1) <= (i - 1) * p
          /\ (i - 1) * p < (100 * HotUpTo(i - 1)) + 100
      <4>1. i - 1 \in Nat
        BY <2>4
      <4> QED
        BY <2>3, <4>1, HotGrows
    <3>5. (j - i + 1) * p = (j * p) - ((i - 1) * p) /\ j * p \in Int /\ (i - 1) * p \in Int
      BY <2>n, <2>4
    <3> HIDE DEF p, hot
    <3>6. 100 * (hot - 1) < (j - i + 1) * p /\ (j - i + 1) * p < 100 * (hot + 1)
      <4> DEFINE upTo == j * p
                 before == (i - 1) * p
      <4>1. upTo \in Int /\ before \in Int /\ (j - i + 1) * p = upTo - before
        BY <3>5
      <4>2. 100 * HotUpTo(j) <= upTo /\ upTo < (100 * HotUpTo(j)) + 100
        BY <3>3
      <4>3. 100 * HotUpTo(i - 1) <= before /\ before < (100 * HotUpTo(i - 1)) + 100
        BY <3>4
      <4> HIDE DEF upTo, before
      <4>4. 100 * (hot - 1) < upTo - before /\ upTo - before < 100 * (hot + 1)
        BY <3>2, <3>3, <3>4, <4>1, <4>2, <4>3, ShareBetween
      <4> QED
        BY <4>1, <4>4, Zenon
    <3> QED
      BY <2>7, <3>1, <3>6 DEF p, hot
  <2> QED
    BY <2>6, <2>7
<1> QED
  BY InvariantHolds, <1>1, PTL
=============================================================================
