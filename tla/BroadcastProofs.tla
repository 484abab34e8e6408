--------------------------- MODULE BroadcastProofs ---------------------------
(***************************************************************************)
(* Proofs about Broadcast for every load, every number of workers and      *)
(* every bound.                                                            *)
(*                                                                         *)
(* First the lemmas on how the load is cut: every transaction is in one    *)
(* request of one queue, behind the earlier ones of its account.  Then the *)
(* type invariant, the lock-free maximum of awaitPoolRoom, what becomes of *)
(* each request (nothing is lost, counted twice or overtaken), the stall   *)
(* timer, and the bound on how far the pool exceeds the watermark.         *)
(***************************************************************************)
EXTENDS Broadcast, FiniteSetTheorems, WellFoundedInduction, TLAPS

-----------------------------------------------------------------------------
(* How the load is cut.  Induction over a sequence is by least             *)
(* counterexample.                                                         *)

\* A non-empty set of naturals has a least element.
LEMMA LeastOf ==
  ASSUME NEW S, S \subseteq Nat, S # {}
  PROVE  \E m \in S : \A y \in S : m <= y
<1>1. PICK m \in S : \A y \in S : ~(<<y, m>> \in OpToRel(<, Nat))
  BY NatLessThanWellFounded, WFMin
<1>2. \A y \in S : ~(y < m)
  BY <1>1 DEF OpToRel
<1>3. m \in S
  BY <1>1, Zenon
<1> QED
  BY <1>2, <1>3

\* f is the function FlattenSeq computes with, up to n.
Flattens(f, seqs, n) ==
  f = [i \in 1..n |-> IF i = 1 THEN seqs[i] ELSE f[i - 1] \o seqs[i]]

\* There is such a function.
LEMMA FlattensExists ==
  ASSUME NEW seqs, NEW n \in Nat
  PROVE  \E f : Flattens(f, seqs, n)
<1> DEFINE S == {m \in Nat : ~ \E f : Flattens(f, seqs, m)}
<1>1. SUFFICES ASSUME S # {} PROVE FALSE
  OBVIOUS
<1>2. PICK m \in S : \A y \in S : m <= y
  <2> HIDE DEF S
  <2>1. S \subseteq Nat
    BY DEF S
  <2> QED
    BY <1>1, <2>1, LeastOf
<1>3. m # 0
  <2>1. Flattens([i \in 1..0 |-> {}], seqs, 0)
    BY DEF Flattens
  <2> QED
    BY <1>2, <2>1
<1>4. m - 1 \in Nat /\ m - 1 \notin S /\ m \in Nat
  BY <1>2, <1>3
<1>5. PICK f : Flattens(f, seqs, m - 1)
  BY <1>4
<1> DEFINE last == IF m = 1 THEN seqs[m] ELSE f[m - 1] \o seqs[m]
           g == [i \in 1..m |-> IF i = m THEN last ELSE f[i]]
<1> HIDE DEF last, S
<1>6. \A i \in 1..(m - 1) : f[i] = IF i = 1 THEN seqs[i] ELSE f[i - 1] \o seqs[i]
  BY <1>4, <1>5 DEF Flattens
<1>7. g[m] = last /\ \A i \in 1..(m - 1) : g[i] = f[i]
  BY <1>3, <1>4
<1>8. g = [i \in 1..m |-> g[i]]
  OBVIOUS
<1> HIDE DEF g
<1>9. ASSUME NEW i \in 1..m PROVE g[i] = IF i = 1 THEN seqs[i] ELSE g[i - 1] \o seqs[i]
  <2>1. CASE i = m /\ i = 1
    BY <1>7, <2>1 DEF last
  <2>2. CASE i = m /\ i # 1
    <3>1. i - 1 \in 1..(m - 1)
      BY <1>4, <2>2
    <3> QED
      BY <1>7, <2>2, <3>1 DEF last
  <2>3. CASE i # m
    <3>1. i \in 1..(m - 1) /\ (i # 1 => i - 1 \in 1..(m - 1))
      BY <1>4, <2>3
    <3> QED
      BY <1>6, <1>7, <3>1
  <2> QED
    BY <2>1, <2>2, <2>3
<1>10. Flattens(g, seqs, m)
  BY <1>8, <1>9 DEF Flattens
<1> QED
  BY <1>2, <1>10 DEF S

\* What FlattenSeq returns, prefix by prefix.
LEMMA FlattenIs ==
  ASSUME NEW seqs, NEW n \in Nat \ {0}, Len(seqs) = n
  PROVE  \E f : /\ f[1] = seqs[1]
                /\ \A i \in 2..n : f[i] = f[i - 1] \o seqs[i]
                /\ FlattenSeq(seqs) = f[n]
<1> DEFINE f == CHOOSE g : Flattens(g, seqs, n)
<1>1. Flattens(f, seqs, n)
  BY FlattensExists, Zenon
<1>2. FlattenSeq(seqs) = f[n]
  BY Zenon DEF FlattenSeq, Flattens
<1> HIDE DEF f
<1>3. \A i \in 1..n : f[i] = IF i = 1 THEN seqs[i] ELSE f[i - 1] \o seqs[i]
  BY <1>1 DEF Flattens
<1>4. f[1] = seqs[1]
  BY <1>3
<1>5. ASSUME NEW i \in 2..n PROVE f[i] = f[i - 1] \o seqs[i]
  <2>1. i \in 1..n /\ i # 1
    OBVIOUS
  <2> QED
    BY <1>3, <2>1
<1> QED
  BY <1>2, <1>4, <1>5, Zenon

\* What a sequence holds is what it has at its positions.
LEMMA RangeIs ==
  ASSUME NEW T, NEW s \in Seq(T)
  PROVE  /\ \A x : x \in Range(s) <=> \E i \in 1..Len(s) : x = s[i]
         /\ Range(s) \subseteq T
<1>1. DOMAIN s = 1..Len(s) /\ \A i \in 1..Len(s) : s[i] \in T
  OBVIOUS
<1> QED
  BY <1>1 DEF Range

\* What a sequence holds, and what two sequences one after the other do.
LEMMA ConcatHolds ==
  ASSUME NEW T, NEW s \in Seq(T), NEW r \in Seq(T)
  PROVE  /\ s \o r \in Seq(T)
         /\ Range(s \o r) = Range(s) \cup Range(r)
<1>1. s \o r \in Seq(T) /\ Len(s \o r) = Len(s) + Len(r)
  OBVIOUS
<1>2. \A i \in 1..Len(s) : (s \o r)[i] = s[i]
  OBVIOUS
<1>3. \A i \in 1..Len(r) : (s \o r)[Len(s) + i] = r[i]
  OBVIOUS
<1>4. Range(s) \subseteq Range(s \o r) /\ Range(r) \subseteq Range(s \o r)
  <2>1. \A i \in 1..Len(s) : i \in 1..Len(s \o r)
    BY <1>1
  <2>2. \A i \in 1..Len(r) : Len(s) + i \in 1..Len(s \o r)
    BY <1>1
  <2>3. ASSUME NEW x \in Range(s) PROVE x \in Range(s \o r)
    <3>1. PICK i \in 1..Len(s) : x = s[i]
      BY RangeIs
    <3>2. x = (s \o r)[i] /\ i \in 1..Len(s \o r)
      BY <1>2, <2>1, <3>1
    <3> QED
      BY <1>1, <3>2, RangeIs
  <2>4. ASSUME NEW x \in Range(r) PROVE x \in Range(s \o r)
    <3>1. PICK i \in 1..Len(r) : x = r[i]
      BY RangeIs
    <3>2. x = (s \o r)[Len(s) + i] /\ Len(s) + i \in 1..Len(s \o r)
      BY <1>3, <2>2, <3>1
    <3> QED
      BY <1>1, <3>2, RangeIs
  <2> QED
    BY <2>3, <2>4
<1>5. ASSUME NEW i \in 1..Len(s \o r) PROVE (s \o r)[i] \in Range(s) \cup Range(r)
  <2>1. CASE i <= Len(s)
    BY <1>1, <1>2, <2>1 DEF Range
  <2>2. CASE ~(i <= Len(s))
    <3>1. i - Len(s) \in 1..Len(r) /\ Len(s) + (i - Len(s)) = i
      BY <1>1, <2>2
    <3> QED
      BY <1>3, <3>1 DEF Range
  <2> QED
    BY <2>1, <2>2
<1>6. Range(s \o r) \subseteq Range(s) \cup Range(r)
  BY <1>1, <1>5 DEF Range
<1> QED
  BY <1>1, <1>4, <1>6

\* A flattened sequence holds what its parts hold.
LEMMA FlattenHolds ==
  ASSUME NEW T, NEW seqs \in Seq(Seq(T))
  PROVE  /\ FlattenSeq(seqs) \in Seq(T)
         /\ \A x : x \in Range(FlattenSeq(seqs)) <=> \E i \in 1..Len(seqs) : x \in Range(seqs[i])
<1>1. CASE Len(seqs) = 0
  <2>1. FlattenSeq(seqs) = seqs
    BY <1>1, Zenon DEF FlattenSeq
  <2>2. seqs = <<>>
    BY <1>1
  <2> QED
    BY <2>1, <2>2 DEF Range
<1>2. CASE Len(seqs) # 0
  <2> DEFINE n == Len(seqs)
  <2>0. n \in Nat \ {0}
    BY <1>2
  <2>1. PICK f : /\ f[1] = seqs[1]
                 /\ \A i \in 2..n : f[i] = f[i - 1] \o seqs[i]
                 /\ FlattenSeq(seqs) = f[n]
    BY <2>0, FlattenIs
  <2> DEFINE Fine(m) == /\ f[m] \in Seq(T)
                        /\ \A x : x \in Range(f[m]) <=> \E i \in 1..m : x \in Range(seqs[i])
             S == {m \in 1..n : ~Fine(m)}
  <2>2. SUFFICES ASSUME S # {} PROVE FALSE
    <3>1. S = {} => Fine(n)
      <4>1. n \in 1..n
        BY <2>0
      <4> HIDE DEF n, Fine
      <4> QED
        BY <4>1
    <3> QED
      BY <2>1, <3>1, Zenon
  <2>3. PICK m \in S : \A y \in S : m <= y
    <3>1. S \subseteq Nat
      BY <2>0
    <3> HIDE DEF S
    <3> QED
      BY <2>2, <3>1, LeastOf
  <2>4. Fine(1)
    <3>1. f[1] \in Seq(T)
      BY <2>0, <2>1
    <3>2. \A i \in 1..1 : i = 1
      OBVIOUS
    <3> QED
      BY <2>1, <3>1, <3>2
  <2>5. m \in 2..n /\ m - 1 \in 1..n /\ m - 1 \notin S
    <3> HIDE DEF n, Fine
    <3>1. m \in 1..n /\ m # 1
      BY <2>3, <2>4
    <3> QED
      BY <2>0, <2>3, <3>1
  <2>6. Fine(m - 1)
    <3> HIDE DEF n, Fine
    <3> QED
      BY <2>5
  <2>7. seqs[m] \in Seq(T)
    BY <2>0, <2>5
  <2>8. f[m] \in Seq(T) /\ Range(f[m]) = Range(f[m - 1]) \cup Range(seqs[m])
    <3>1. f[m] = f[m - 1] \o seqs[m] /\ f[m - 1] \in Seq(T)
      BY <2>1, <2>5, <2>6, Zenon
    <3> HIDE DEF n, S, Fine
    <3>2. /\ f[m - 1] \o seqs[m] \in Seq(T)
          /\ Range(f[m - 1] \o seqs[m]) = Range(f[m - 1]) \cup Range(seqs[m])
      BY <2>7, <3>1, ConcatHolds
    <3> QED
      BY <3>1, <3>2, Zenon
  <2>9. \A i : i \in 1..m <=> i \in 1..(m - 1) \/ i = m
    BY <2>5
  <2>10. Fine(m)
    BY <2>6, <2>8, <2>9, Zenon
  <2> QED
    BY <2>3, <2>10
<1> QED
  BY <1>1, <1>2

\* The order of the load: by account, and by nonce within one.
Before(a, b) == a[1] < b[1] \/ (a[1] = b[1] /\ a[2] < b[2])

Sorted(s) == \A i, j \in 1..Len(s) : i < j => Before(s[i], s[j])

\* Two sorted sequences one after the other are sorted if everything in the first is
\* before everything in the second.
LEMMA ConcatSorted ==
  ASSUME NEW T, NEW s \in Seq(T), NEW r \in Seq(T), Sorted(s), Sorted(r),
         \A a \in Range(s), b \in Range(r) : Before(a, b)
  PROVE  Sorted(s \o r)
<1> SUFFICES ASSUME NEW i \in 1..Len(s \o r), NEW j \in 1..Len(s \o r), i < j
             PROVE  Before((s \o r)[i], (s \o r)[j])
  BY DEF Sorted
<1>1. Len(s \o r) = Len(s) + Len(r) /\ Len(s) \in Nat /\ Len(r) \in Nat
  OBVIOUS
<1>2. \A k \in 1..Len(s) : (s \o r)[k] = s[k] /\ s[k] \in Range(s)
  BY RangeIs
<1>3. \A k \in 1..Len(r) : (s \o r)[Len(s) + k] = r[k] /\ r[k] \in Range(r)
  BY RangeIs
<1>4. CASE j <= Len(s)
  <2>1. i \in 1..Len(s) /\ j \in 1..Len(s)
    BY <1>1, <1>4
  <2> QED
    BY <1>2, <2>1 DEF Sorted
<1>5. CASE i <= Len(s) /\ ~(j <= Len(s))
  <2>1. i \in 1..Len(s) /\ j - Len(s) \in 1..Len(r) /\ Len(s) + (j - Len(s)) = j
    BY <1>1, <1>5
  <2>2. (s \o r)[i] \in Range(s) /\ (s \o r)[j] \in Range(r)
    BY <1>2, <1>3, <2>1
  <2> QED
    BY <2>2
<1>6. CASE ~(i <= Len(s))
  <2> DEFINE k == i - Len(s)
             l == j - Len(s)
  <2>1. k \in 1..Len(r) /\ l \in 1..Len(r) /\ k < l /\ Len(s) + k = i /\ Len(s) + l = j
    BY <1>1, <1>6
  <2> HIDE DEF k, l
  <2>2. (s \o r)[i] = r[k] /\ (s \o r)[j] = r[l]
    BY <1>3, <2>1
  <2> QED
    BY <2>1, <2>2 DEF Sorted
<1> QED
  BY <1>4, <1>5, <1>6

\* So is a whole sequence of them, flattened.
LEMMA FlattenSorted ==
  ASSUME NEW T, NEW seqs \in Seq(Seq(T)),
         \A i \in 1..Len(seqs) : Sorted(seqs[i]),
         \A i, j \in 1..Len(seqs) : i < j =>
            \A a \in Range(seqs[i]), b \in Range(seqs[j]) : Before(a, b)
  PROVE  Sorted(FlattenSeq(seqs))
<1>1. CASE Len(seqs) = 0
  <2>1. FlattenSeq(seqs) = seqs
    BY <1>1, Zenon DEF FlattenSeq
  <2> QED
    BY <1>1, <2>1 DEF Sorted
<1>2. CASE Len(seqs) # 0
  <2> DEFINE n == Len(seqs)
  <2>0. n \in Nat \ {0}
    BY <1>2
  <2>1. PICK f : /\ f[1] = seqs[1]
                 /\ \A i \in 2..n : f[i] = f[i - 1] \o seqs[i]
                 /\ FlattenSeq(seqs) = f[n]
    BY <2>0, FlattenIs
  <2> DEFINE Fine(m) == /\ f[m] \in Seq(T)
                        /\ \A x \in Range(f[m]) : \E i \in 1..m : x \in Range(seqs[i])
                        /\ Sorted(f[m])
             S == {m \in 1..n : ~Fine(m)}
  <2>2. SUFFICES ASSUME S # {} PROVE FALSE
    <3>1. S = {} => Fine(n)
      <4>1. n \in 1..n
        BY <2>0
      <4> HIDE DEF n, Fine
      <4> QED
        BY <4>1
    <3> QED
      BY <2>1, <3>1, Zenon
  <2>3. PICK m \in S : \A y \in S : m <= y
    <3>1. S \subseteq Nat
      BY <2>0
    <3> HIDE DEF S
    <3> QED
      BY <2>2, <3>1, LeastOf
  <2>4. Fine(1)
    <3>1. f[1] \in Seq(T) /\ Sorted(f[1])
      BY <2>0, <2>1
    <3>2. 1 \in 1..1
      OBVIOUS
    <3> QED
      BY <2>1, <3>1, <3>2, Zenon
  <2>5. m \in 2..n /\ m - 1 \in 1..n /\ m - 1 \notin S
    <3> HIDE DEF n, Fine
    <3>1. m \in 1..n /\ m # 1
      BY <2>3, <2>4
    <3> QED
      BY <2>0, <2>3, <3>1
  <2>6. Fine(m - 1)
    <3> HIDE DEF n, Fine
    <3> QED
      BY <2>5
  <2>7. seqs[m] \in Seq(T) /\ Sorted(seqs[m])
    BY <2>0, <2>5
  <2>8. \A x \in Range(f[m - 1]) : \E i \in 1..(m - 1) : x \in Range(seqs[i])
    BY <2>6, Zenon
  <2>9. ASSUME NEW a \in Range(f[m - 1]), NEW b \in Range(seqs[m]) PROVE Before(a, b)
    <3>1. PICK i \in 1..(m - 1) : a \in Range(seqs[i])
      BY <2>8
    <3>2. i \in 1..n /\ m \in 1..n /\ i < m
      BY <2>0, <2>5
    <3> QED
      BY <3>1, <3>2
  <2> HIDE DEF S
  <2>10. f[m] = f[m - 1] \o seqs[m] /\ f[m - 1] \in Seq(T) /\ Sorted(f[m - 1])
    BY <2>1, <2>5, <2>6, Zenon
  <2>11. /\ f[m - 1] \o seqs[m] \in Seq(T)
         /\ Range(f[m - 1] \o seqs[m]) = Range(f[m - 1]) \cup Range(seqs[m])
         /\ Sorted(f[m - 1] \o seqs[m])
    <3> HIDE DEF Fine, n
    <3> QED
      BY <2>7, <2>9, <2>10, ConcatHolds, ConcatSorted
  <2>12. 1..(m - 1) \subseteq 1..m /\ m \in 1..m
    BY <2>5
  <2>13. Fine(m)
    BY <2>8, <2>10, <2>11, <2>12, Zenon
  <2> QED
    BY <2>3, <2>13 DEF S
<1> QED
  BY <1>1, <1>2

\* The options with their defaults, and the workers.
LEMMA OptsAre ==
  /\ Opts.Concurrency \in Nat \ {0} /\ Opts.BatchSize \in Nat \ {0} /\ Opts.Watermark \in Nat
  /\ Len(StreamLens) \in Nat /\ Len(Streams) = Len(StreamLens)
  /\ NumWorkers \in Nat
  /\ ~InOrder => NumWorkers # 0
  /\ InOrder => NumWorkers <= Len(Streams) /\ (Len(Streams) # 0 => NumWorkers # 0)
<1>1. Len(StreamLens) \in Nat /\ Len(Streams) = Len(StreamLens)
  BY BroadcastAssumption DEF Streams
<1>2. /\ Options.Concurrency \in Int /\ Options.BatchSize \in Int /\ Options.Watermark \in Int
      /\ NeverPause \in Nat /\ DefaultWatermark \in Nat
  BY BroadcastAssumption
<1>3. /\ Opts.Concurrency = AtLeast(Options.Concurrency, 1)
      /\ Opts.BatchSize = AtLeast(Options.BatchSize, 1)
      /\ Opts.Watermark = CASE Options.Watermark < 0 -> NeverPause
                            [] Options.Watermark = 0 -> DefaultWatermark
                            [] OTHER -> Options.Watermark
  BY DEF Opts, WithDefaults
<1>4. Opts.Concurrency \in Nat \ {0} /\ Opts.BatchSize \in Nat \ {0} /\ Opts.Watermark \in Nat
  BY <1>2, <1>3 DEF AtLeast
<1> QED
  BY <1>1, <1>4 DEF NumWorkers, AtMost

\* The load, account by account.
LEMMA TxsAre ==
  /\ \A s \in 1..Len(Streams) :
       /\ StreamLens[s] \in Nat
       /\ Streams[s] = [k \in 1..StreamLens[s] |-> <<s, k>>]
  /\ \A t : t \in Txs <=> \E s \in 1..Len(Streams) : \E k \in 1..StreamLens[s] : t = <<s, k>>
<1>1. ASSUME NEW s \in 1..Len(Streams)
      PROVE  /\ StreamLens[s] \in Nat
             /\ Streams[s] = [k \in 1..StreamLens[s] |-> <<s, k>>]
  BY OptsAre, BroadcastAssumption DEF Streams
<1>2. ASSUME NEW s \in 1..Len(Streams), NEW t
      PROVE  t \in Range(Streams[s]) <=> \E k \in 1..StreamLens[s] : t = <<s, k>>
  <2> DEFINE f == [k \in 1..StreamLens[s] |-> <<s, k>>]
  <2>1. Streams[s] = f
    BY <1>1
  <2>2. t \in Range(f) <=> \E k \in 1..StreamLens[s] : t = <<s, k>>
    BY DEF Range
  <2> QED
    BY <2>1, <2>2, Zenon
<1>3. \A t : t \in Txs <=> \E s \in 1..Len(Streams) : t \in Range(Streams[s])
  BY Zenon DEF Txs
<1>4. ASSUME NEW t
      PROVE  t \in Txs <=> \E s \in 1..Len(Streams) : \E k \in 1..StreamLens[s] : t = <<s, k>>
  BY <1>2, <1>3
<1> QED
  BY <1>1, <1>4, Zenon

\* An account's stream holds its transactions in nonce order.
LEMMA StreamsAre ==
  /\ Streams \in Seq(Seq(Txs))
  /\ \A s \in 1..Len(Streams) : Sorted(Streams[s])
  /\ \A s \in 1..Len(Streams) : \A t : t \in Range(Streams[s]) <=> t \in Txs /\ t[1] = s
<1>1. ASSUME NEW s \in 1..Len(Streams)
      PROVE  /\ Streams[s] \in Seq(Txs)
             /\ Len(Streams[s]) = StreamLens[s]
             /\ \A k \in 1..StreamLens[s] : Streams[s][k] = <<s, k>>
  <2>1. \A k \in 1..StreamLens[s] : <<s, k>> \in Txs
    BY TxsAre, Zenon
  <2>2. StreamLens[s] \in Nat /\ Streams[s] = [k \in 1..StreamLens[s] |-> <<s, k>>]
    BY TxsAre, Zenon
  <2> QED
    BY <2>1, <2>2
<1>2. Streams \in Seq(Seq(Txs))
  BY <1>1, OptsAre DEF Streams
<1>3. ASSUME NEW s \in 1..Len(Streams) PROVE Sorted(Streams[s])
  <2>1. StreamLens[s] \in Nat
    BY TxsAre, Zenon
  <2>3. s \in Nat
    BY OptsAre
  <2>2. ASSUME NEW i \in 1..StreamLens[s], NEW j \in 1..StreamLens[s], i < j
        PROVE  Before(Streams[s][i], Streams[s][j])
    BY <1>1, <2>1, <2>2, <2>3 DEF Before
  <2> QED
    BY <1>1, <2>2 DEF Sorted
<1>4. ASSUME NEW s \in 1..Len(Streams), NEW t
      PROVE  t \in Range(Streams[s]) <=> t \in Txs /\ t[1] = s
  <2>1. t \in Range(Streams[s]) <=> \E k \in 1..StreamLens[s] : t = <<s, k>>
    <3>1. t \in Range(Streams[s]) <=> \E k \in 1..Len(Streams[s]) : t = Streams[s][k]
      BY <1>1, RangeIs
    <3> QED
      BY <1>1, <3>1
  <2>2. ASSUME t \in Txs, t[1] = s PROVE \E k \in 1..StreamLens[s] : t = <<s, k>>
    <3>1. PICK r \in 1..Len(Streams) : \E k \in 1..StreamLens[r] : t = <<r, k>>
      BY <2>2, TxsAre
    <3>2. r = s
      BY <2>2, <3>1
    <3> QED
      BY <3>1, <3>2
  <2>3. ASSUME NEW k \in 1..StreamLens[s], t = <<s, k>> PROVE t \in Txs /\ t[1] = s
    BY <2>3, TxsAre
  <2> QED
    BY <2>1, <2>2, <2>3
<1> QED
  BY <1>2, <1>3, <1>4

\* Which part of s the request i of Chunk(s, size) is.
InRequest(p, i, size) == (i - 1) * size < p /\ p <= i * size

\* Every position is in exactly one request.
LEMMA OneRequest ==
  ASSUME NEW size \in Nat \ {0}, NEW n \in Nat, NEW p \in 1..n
  PROVE  /\ \E i \in 1..((n + size - 1) \div size) : InRequest(p, i, size)
         /\ \A i, j \in Nat : InRequest(p, i, size) /\ InRequest(p, j, size) => i = j
<1>1. \E i \in 1..((n + size - 1) \div size) : InRequest(p, i, size)
  <2> DEFINE q == (p - 1) \div size
             m == (n + size - 1) \div size
  <2>1. q \in Nat /\ size * q <= p - 1 /\ p - 1 < size * q + size
    BY SMT
  <2>2. m \in Nat /\ n + size - 1 < size * m + size
    BY SMT
  <2> HIDE DEF q, m
  <2>3. (q + 1) * size = size * q + size /\ ((q + 1) - 1) * size = size * q
    BY <2>1
  <2>4. size * q < size * m
    BY <2>1, <2>2
  <2>5. q < m
    BY <2>1, <2>2, <2>4
  <2>6. q + 1 \in 1..m /\ InRequest(p, q + 1, size)
    BY <2>1, <2>2, <2>3, <2>5 DEF InRequest
  <2> QED
    BY <2>6 DEF m
<1>2. ASSUME NEW i \in Nat, NEW j \in Nat, InRequest(p, i, size), InRequest(p, j, size), i < j
      PROVE  FALSE
  <2>1. i * size <= (j - 1) * size
    BY <1>2
  <2>2. i * size \in Int /\ (j - 1) * size \in Int
    BY <1>2
  <2> QED
    BY <1>2, <2>1, <2>2 DEF InRequest
<1>3. ASSUME NEW i \in Nat, NEW j \in Nat, InRequest(p, i, size), InRequest(p, j, size)
      PROVE  i = j
  BY <1>2, <1>3
<1> QED
  BY <1>1, <1>3

\* A request holds the next size transactions, or what is left.
LEMMA ChunkIs ==
  ASSUME NEW T, NEW s \in Seq(T), NEW size \in Nat \ {0}
  PROVE  /\ Chunk(s, size) \in Seq(Seq(T))
         /\ Len(Chunk(s, size)) = (Len(s) + size - 1) \div size
         /\ \A i \in 1..Len(Chunk(s, size)) :
              /\ Len(Chunk(s, size)[i]) \in 1..size
              /\ \A x \in Range(Chunk(s, size)[i]) :
                   \E p \in 1..Len(s) : InRequest(p, i, size) /\ x = s[p]
              /\ \A p \in 1..Len(s) : InRequest(p, i, size) => s[p] \in Range(Chunk(s, size)[i])
<1> DEFINE n == (Len(s) + size - 1) \div size
           C(i) == SubSeq(s, (i - 1) * size + 1, AtMost(i * size, Len(s)))
<1>1. n \in Nat /\ size * n <= Len(s) + size - 1
  BY SMT
<1>2. Chunk(s, size) = [i \in 1..n |-> C(i)]
  BY Zenon DEF Chunk
<1> HIDE DEF n
<1>3. ASSUME NEW i \in 1..n
      PROVE  /\ C(i) \in Seq(T)
             /\ Len(C(i)) \in 1..size
             /\ \A x \in Range(C(i)) : \E p \in 1..Len(s) : InRequest(p, i, size) /\ x = s[p]
             /\ \A p \in 1..Len(s) : InRequest(p, i, size) => s[p] \in Range(C(i))
  <2> DEFINE a == (i - 1) * size
             b == AtMost(i * size, Len(s))
  <2>1. a \in Nat /\ i * size = a + size
    BY <1>1, <1>3
  <2>2. a < Len(s)
    <3>1. size * i <= size * n
      BY <1>1, <1>3
    <3>2. size * i = a + size /\ size * n \in Nat
      BY <1>1, <1>3, <2>1
    <3> HIDE DEF a
    <3> QED
      BY <1>1, <2>1, <3>1, <3>2
  <2>3. b \in Nat /\ a < b /\ b <= Len(s) /\ b <= a + size
        /\ \A p \in 1..Len(s) : p <= b <=> p <= i * size
    <3> HIDE DEF a
    <3> QED
      BY <2>1, <2>2 DEF AtMost
  <2>4. \A p \in 1..Len(s) : InRequest(p, i, size) <=> p \in (a + 1)..b
    <3>1. \A p \in 1..Len(s) : InRequest(p, i, size) <=> a < p /\ p <= i * size
      BY DEF InRequest
    <3> HIDE DEF a, b
    <3> QED
      BY <2>1, <2>3, <3>1
  <2>5. C(i) = SubSeq(s, a + 1, b)
    OBVIOUS
  <2> HIDE DEF a, b, C
  <2>6. /\ C(i) \in Seq(T)
        /\ Len(C(i)) = b - a
        /\ \A k \in 1..(b - a) : C(i)[k] = s[a + k]
    BY <2>1, <2>2, <2>3, <2>5
  <2>7. ASSUME NEW x \in Range(C(i))
        PROVE  \E p \in 1..Len(s) : InRequest(p, i, size) /\ x = s[p]
    <3>1. PICK k \in 1..(b - a) : x = s[a + k]
      BY <2>6, RangeIs
    <3>2. a + k \in 1..Len(s) /\ a + k \in (a + 1)..b
      BY <2>1, <2>3
    <3> QED
      BY <2>4, <3>1, <3>2
  <2>9. ASSUME NEW p \in 1..Len(s), InRequest(p, i, size) PROVE s[p] \in Range(C(i))
    <3>1. p \in (a + 1)..b
      BY <2>4, <2>9
    <3>2. p - a \in 1..(b - a) /\ a + (p - a) = p
      BY <2>1, <2>3, <3>1
    <3>3. C(i)[p - a] = s[p] /\ p - a \in 1..Len(C(i))
      BY <2>6, <3>2
    <3> QED
      BY <2>6, <3>3, RangeIs
  <2>8. Len(C(i)) \in 1..size
    BY <2>1, <2>3, <2>6
  <2> QED
    BY <2>6, <2>7, <2>8, <2>9
<1> HIDE DEF C
<1>4. Len(Chunk(s, size)) = n /\ \A i \in 1..n : Chunk(s, size)[i] = C(i)
  BY <1>1, <1>2
<1>5. Chunk(s, size) \in Seq(Seq(T))
  BY <1>1, <1>2, <1>3
<1> QED
  BY <1>3, <1>4, <1>5 DEF n

\* The worker whose queue an account's transactions go to.
DealtTo(s) == ((s - 1) % NumWorkers) + 1

\* Dealing round-robin: worker w gets the accounts w, w + workers, ... and no others.
LEMMA RoundRobin ==
  ASSUME NumWorkers # 0, NEW w \in Workers, w <= Len(Streams)
  PROVE  LET n == (Len(Streams) - w) \div NumWorkers + 1 IN
         /\ n \in Nat
         /\ \A k \in 1..n : /\ w + (k - 1) * NumWorkers \in 1..Len(Streams)
                            /\ DealtTo(w + (k - 1) * NumWorkers) = w
         /\ \A s \in 1..Len(Streams) : DealtTo(s) = w => \E k \in 1..n : s = w + (k - 1) * NumWorkers
<1> DEFINE N == NumWorkers
           L == Len(Streams)
           d == (L - w) \div N
<1>1. N \in Nat \ {0} /\ L \in Nat /\ w \in 1..N /\ w <= L
  BY OptsAre DEF Workers
<1> HIDE DEF N, L
<1>2. d \in Nat /\ N * d <= L - w /\ L - w < N * d + N
  BY <1>1, SMT
<1> HIDE DEF d
<1>3. ASSUME NEW r \in 0..(N - 1), NEW q \in Nat PROVE (r + q * N) % N = r
  BY <1>1, SMT
<1>4. ASSUME NEW k \in 1..(d + 1)
      PROVE  /\ w + (k - 1) * N \in 1..L
             /\ (((w + (k - 1) * N) - 1) % N) + 1 = w
  <2>1. k - 1 \in Nat /\ k - 1 <= d
    BY <1>2
  <2>2. (k - 1) * N <= N * d /\ (k - 1) * N \in Nat
    BY <1>1, <1>2, <2>1
  <2>3. w - 1 \in 0..(N - 1) /\ ((w - 1) + (k - 1) * N) % N = w - 1
    BY <1>1, <1>3, <2>1
  <2>4. (w + (k - 1) * N) - 1 = (w - 1) + (k - 1) * N
    BY <1>1, <2>2
  <2> QED
    BY <1>1, <1>2, <2>2, <2>3, <2>4
<1>5. ASSUME NEW s \in 1..L, ((s - 1) % N) + 1 = w
      PROVE  \E k \in 1..(d + 1) : s = w + (k - 1) * N
  <2> DEFINE q == (s - 1) \div N
             r == (s - 1) - q * N
  <2>1. q \in Nat /\ N * q <= s - 1 /\ s - 1 < N * q + N
    BY <1>1, SMT
  <2> HIDE DEF q
  <2>2. r \in 0..(N - 1) /\ s - 1 = r + q * N
    BY <1>1, <2>1
  <2> HIDE DEF r
  <2>3. (s - 1) % N = r
    BY <1>3, <2>1, <2>2
  <2>4. r = w - 1
    BY <1>1, <1>5, <2>2, <2>3
  <2>5. N * q < N * (d + 1) /\ N * (d + 1) = N * d + N
    BY <1>1, <1>2, <2>1, <2>2, <2>4
  <2>6. q < d + 1
    BY <1>1, <1>2, <2>1, <2>5
  <2>7. q + 1 \in 1..(d + 1) /\ s = w + ((q + 1) - 1) * N
    <3>1. q + 1 \in 1..(d + 1)
      BY <1>2, <2>1, <2>6
    <3>2. (q + 1) - 1 = q /\ q * N \in Int /\ s \in Int
      BY <1>1, <2>1
    <3> DEFINE z == q * N
    <3>3. s - 1 = (w - 1) + z /\ z \in Int
      BY <2>2, <2>4, <3>2
    <3> HIDE DEF z
    <3>4. s \in Int /\ w \in Int
      BY <1>1
    <3>5. s = w + z
      BY <3>3, <3>4
    <3> QED
      BY <3>1, <3>2, <3>5 DEF z
  <2> QED
    BY <2>7
<1>6. d + 1 \in Nat
  BY <1>2
<1>7. \A s : DealtTo(s) = ((s - 1) % N) + 1
  BY Zenon DEF DealtTo, N
<1>8. ASSUME NEW k \in 1..(d + 1) PROVE w + (k - 1) * N \in 1..L /\ DealtTo(w + (k - 1) * N) = w
  <2> DEFINE x == w + (k - 1) * N
  <2>1. x \in 1..L /\ ((x - 1) % N) + 1 = w
    BY <1>4
  <2> HIDE DEF x
  <2>2. x \in 1..L /\ DealtTo(x) = w
    BY <1>7, <2>1, Zenon
  <2> QED
    BY <2>2 DEF x
<1>9. ASSUME NEW s \in 1..L, DealtTo(s) = w PROVE \E k \in 1..(d + 1) : s = w + (k - 1) * N
  <2>1. ((s - 1) % N) + 1 = w
    BY <1>7, <1>9, Zenon
  <2> QED
    BY <1>5, <2>1, Zenon
<1> QED
  BY <1>6, <1>8, <1>9 DEF N, L, d

\* A worker's own queue holds its accounts' transactions, account by account.
LEMMA MineIs ==
  ASSUME InOrder, NEW w \in Workers
  PROVE  /\ Mine(w) \in Seq(Txs)
         /\ Sorted(Mine(w))
         /\ \A t : t \in Range(Mine(w)) <=> t \in Txs /\ DealtTo(t[1]) = w
<1> DEFINE n == (Len(Streams) - w) \div NumWorkers + 1
           D == [k \in 1..n |-> Streams[w + (k - 1) * NumWorkers]]
<1>1. NumWorkers \in Nat \ {0} /\ w \in 1..NumWorkers /\ w <= Len(Streams) /\ Len(Streams) \in Nat
  BY OptsAre DEF Workers
<1>2. /\ n \in Nat
      /\ \A k \in 1..n : /\ w + (k - 1) * NumWorkers \in 1..Len(Streams)
                         /\ DealtTo(w + (k - 1) * NumWorkers) = w
      /\ \A s \in 1..Len(Streams) : DealtTo(s) = w => \E k \in 1..n : s = w + (k - 1) * NumWorkers
  BY <1>1, RoundRobin
<1>3. Mine(w) = FlattenSeq(D)
  BY Zenon DEF Mine
<1> HIDE DEF n
<1>4. /\ D \in Seq(Seq(Txs)) /\ Len(D) = n
      /\ \A k \in 1..n : D[k] = Streams[w + (k - 1) * NumWorkers]
  BY <1>2, StreamsAre
<1> HIDE DEF D
<1>5. ASSUME NEW k \in 1..n
      PROVE  Sorted(D[k]) /\ \A t : t \in Range(D[k]) <=> t \in Txs /\ t[1] = w + (k - 1) * NumWorkers
  <2>1. D[k] = Streams[w + (k - 1) * NumWorkers] /\ w + (k - 1) * NumWorkers \in 1..Len(Streams)
    BY <1>2, <1>4
  <2> QED
    BY <2>1, StreamsAre, Zenon
<1>6. ASSUME NEW j \in 1..n, NEW k \in 1..n, j < k, NEW a \in Range(D[j]), NEW b \in Range(D[k])
      PROVE  Before(a, b)
  <2>1. a[1] = w + (j - 1) * NumWorkers /\ b[1] = w + (k - 1) * NumWorkers
    BY <1>5
  <2>2. (j - 1) * NumWorkers < (k - 1) * NumWorkers
    BY <1>1, <1>2, <1>6
  <2>3. (j - 1) * NumWorkers \in Int /\ (k - 1) * NumWorkers \in Int
    BY <1>1, <1>2
  <2> QED
    BY <1>1, <2>1, <2>2, <2>3 DEF Before
<1>7. Mine(w) \in Seq(Txs) /\ Sorted(Mine(w))
  BY <1>3, <1>4, <1>5, <1>6, FlattenHolds, FlattenSorted
<1>8. \A t : t \in Range(Mine(w)) <=> \E k \in 1..n : t \in Range(D[k])
  BY <1>3, <1>4, FlattenHolds
<1>9. ASSUME NEW t PROVE t \in Range(Mine(w)) <=> t \in Txs /\ DealtTo(t[1]) = w
  <2>1. ASSUME t \in Range(Mine(w)) PROVE t \in Txs /\ DealtTo(t[1]) = w
    BY <1>2, <1>5, <1>8, <2>1
  <2>2. ASSUME t \in Txs, DealtTo(t[1]) = w PROVE t \in Range(Mine(w))
    <3>1. t[1] \in 1..Len(Streams)
      BY <2>2, TxsAre
    <3>2. PICK k \in 1..n : t[1] = w + (k - 1) * NumWorkers
      BY <1>2, <2>2, <3>1
    <3> QED
      BY <1>5, <1>8, <2>2, <3>2
  <2> QED
    BY <2>1, <2>2
<1> QED
  BY <1>7, <1>9

\* What goes through queue q, before it is cut.
Line(q) == IF InOrder THEN Mine(q) ELSE FlattenSeq(Streams)

\* The lines part the load, no account is in two of them, and each is sorted.
LEMMA LinesAre ==
  /\ DOMAIN Queue = IF InOrder THEN Workers ELSE {1}
  /\ \A q \in DOMAIN Queue :
       /\ Queue[q] = Chunk(Line(q), Opts.BatchSize)
       /\ Line(q) \in Seq(Txs)
       /\ Sorted(Line(q))
  /\ \A t \in Txs : \E q \in DOMAIN Queue : t \in Range(Line(q))
  /\ \A q, r \in DOMAIN Queue : \A t \in Range(Line(q)), u \in Range(Line(r)) :
       t[1] = u[1] => q = r
<1>1. CASE InOrder
  <2>1. DOMAIN Queue = Workers
    BY <1>1 DEF Queue, QueueOf
  <2>2. ASSUME NEW q \in Workers
        PROVE  /\ Queue[q] = Chunk(Line(q), Opts.BatchSize)
               /\ Line(q) = Mine(q)
               /\ Line(q) \in Seq(Txs)
               /\ Sorted(Line(q))
               /\ \A t : t \in Range(Line(q)) <=> t \in Txs /\ DealtTo(t[1]) = q
    <3>1. Line(q) = Mine(q)
      BY <1>1 DEF Line
    <3>2. Queue[q] = Chunk(Mine(q), Opts.BatchSize)
      BY <1>1, <2>1 DEF Queue
    <3> QED
      BY <1>1, <3>1, <3>2, MineIs
  <2>3. ASSUME NEW t \in Txs PROVE DealtTo(t[1]) \in Workers
    <3>1. t[1] \in 1..Len(Streams)
      BY TxsAre
    <3>2. NumWorkers \in Nat \ {0} /\ Len(Streams) \in Nat
      BY <1>1, <3>1, OptsAre
    <3>3. (t[1] - 1) % NumWorkers \in 0..(NumWorkers - 1)
      BY <3>1, <3>2
    <3> QED
      BY <3>2, <3>3 DEF DealtTo, Workers
  <2>4. \A t \in Txs : \E q \in Workers : t \in Range(Line(q))
    BY <2>2, <2>3
  <2>5. \A q, r \in Workers : \A t \in Range(Line(q)), u \in Range(Line(r)) : t[1] = u[1] => q = r
    BY <2>2
  <2> QED
    BY <1>1, <2>1, <2>2, <2>4, <2>5
<1>2. CASE ~InOrder
  <2>1. DOMAIN Queue = {1}
    <3>1. 1 \in Workers
      BY <1>2, OptsAre DEF Workers
    <3> QED
      BY <1>2, <3>1 DEF Queue, QueueOf
  <2>2. Queue[1] = Chunk(Line(1), Opts.BatchSize) /\ Line(1) = FlattenSeq(Streams)
    BY <1>2, <2>1 DEF Queue, Line
  <2>3. ASSUME NEW i \in 1..Len(Streams), NEW j \in 1..Len(Streams), i < j,
               NEW a \in Range(Streams[i]), NEW b \in Range(Streams[j])
        PROVE  Before(a, b)
    <3>1. a[1] = i /\ b[1] = j
      BY StreamsAre
    <3> QED
      BY <2>3, <3>1 DEF Before
  <2>4. FlattenSeq(Streams) \in Seq(Txs) /\ Sorted(FlattenSeq(Streams))
    BY <2>3, StreamsAre, FlattenHolds, FlattenSorted
  <2>5. ASSUME NEW t \in Txs PROVE t \in Range(FlattenSeq(Streams))
    <3>1. t[1] \in 1..Len(Streams)
      BY TxsAre
    <3>2. t \in Range(Streams[t[1]])
      BY <3>1, StreamsAre
    <3> QED
      BY <3>1, <3>2, StreamsAre, FlattenHolds
  <2> QED
    BY <1>2, <2>1, <2>2, <2>4, <2>5
<1> QED
  BY <1>1, <1>2

\* The requests: each is a piece of its queue's line, no longer than a batch and not empty;
\* every transaction is in exactly one of them, and no transaction is in an earlier request
\* than one before it in its account, nor in another queue.
LEMMA RequestsAre ==
  /\ \A q \in DOMAIN Queue : Queue[q] \in Seq(Seq(Txs)) /\ Len(Queue[q]) \in Nat
  /\ \A q \in DOMAIN Queue : \A i \in 1..Len(Queue[q]) :
       /\ Len(Queue[q][i]) \in 1..Opts.BatchSize
       /\ Range(Queue[q][i]) \subseteq Txs
  /\ \A t \in Txs : \E q \in DOMAIN Queue : \E i \in 1..Len(Queue[q]) : t \in Range(Queue[q][i])
  /\ \A q, r \in DOMAIN Queue : \A i \in 1..Len(Queue[q]), j \in 1..Len(Queue[r]) :
       \A t : t \in Range(Queue[q][i]) /\ t \in Range(Queue[r][j]) => q = r /\ i = j
  /\ \A q, r \in DOMAIN Queue : \A i \in 1..Len(Queue[q]), j \in 1..Len(Queue[r]) :
       \A t \in Range(Queue[q][i]), u \in Range(Queue[r][j]) :
         t[1] = u[1] /\ u[2] < t[2] => q = r /\ j <= i
<1> DEFINE B == Opts.BatchSize
<1>1. B \in Nat \ {0}
  BY OptsAre
<1> HIDE DEF B
<1>2. ASSUME NEW q \in DOMAIN Queue
      PROVE  /\ Line(q) \in Seq(Txs) /\ Len(Line(q)) \in Nat /\ Sorted(Line(q))
             /\ Queue[q] \in Seq(Seq(Txs))
             /\ Len(Queue[q]) = (Len(Line(q)) + B - 1) \div B /\ Len(Queue[q]) \in Nat
  <2>1. Queue[q] = Chunk(Line(q), B) /\ Line(q) \in Seq(Txs) /\ Sorted(Line(q))
    BY LinesAre DEF B
  <2>2. /\ Chunk(Line(q), B) \in Seq(Seq(Txs))
        /\ Len(Chunk(Line(q), B)) = (Len(Line(q)) + B - 1) \div B
    BY <1>1, <2>1, ChunkIs, Zenon
  <2>3. Len(Line(q)) \in Nat /\ Len(Queue[q]) \in Nat
    BY <2>1, <2>2
  <2> QED
    BY <2>1, <2>2, <2>3, Zenon
<1>10. ASSUME NEW q \in DOMAIN Queue, NEW i \in 1..Len(Queue[q])
       PROVE  /\ Len(Queue[q][i]) \in 1..B
              /\ \A x \in Range(Queue[q][i]) :
                   \E p \in 1..Len(Line(q)) : InRequest(p, i, B) /\ x = Line(q)[p]
              /\ \A p \in 1..Len(Line(q)) : InRequest(p, i, B) => Line(q)[p] \in Range(Queue[q][i])
  <2>1. Queue[q] = Chunk(Line(q), B) /\ Line(q) \in Seq(Txs)
    BY LinesAre DEF B
  <2>2. i \in 1..Len(Chunk(Line(q), B))
    BY <2>1, Zenon
  <2>3. /\ Len(Chunk(Line(q), B)[i]) \in 1..B
        /\ \A x \in Range(Chunk(Line(q), B)[i]) :
             \E p \in 1..Len(Line(q)) : InRequest(p, i, B) /\ x = Line(q)[p]
        /\ \A p \in 1..Len(Line(q)) : InRequest(p, i, B) => Line(q)[p] \in Range(Chunk(Line(q), B)[i])
    BY <1>1, <2>1, <2>2, ChunkIs
  <2> QED
    BY <2>1, <2>3, Zenon
<1>3. ASSUME NEW q \in DOMAIN Queue, NEW i \in 1..Len(Queue[q]), NEW x \in Range(Queue[q][i])
      PROVE  x \in Range(Line(q)) /\ x \in Txs
  <2>1. PICK p \in 1..Len(Line(q)) : x = Line(q)[p]
    BY <1>10
  <2> QED
    BY <1>2, <2>1, RangeIs
<1>4. ASSUME NEW t \in Txs
      PROVE  \E q \in DOMAIN Queue : \E i \in 1..Len(Queue[q]) : t \in Range(Queue[q][i])
  <2>1. PICK q \in DOMAIN Queue : t \in Range(Line(q))
    BY LinesAre
  <2>2. PICK p \in 1..Len(Line(q)) : t = Line(q)[p]
    BY <2>1, LinesAre, RangeIs
  <2>3. \E i \in 1..Len(Queue[q]) : InRequest(p, i, B)
    BY <1>1, <1>2, OneRequest
  <2> QED
    BY <1>10, <2>2, <2>3
<1>5. ASSUME NEW q \in DOMAIN Queue, NEW r \in DOMAIN Queue,
             NEW i \in 1..Len(Queue[q]), NEW j \in 1..Len(Queue[r]),
             NEW t \in Range(Queue[q][i]), NEW u \in Range(Queue[r][j]),
             t = u \/ (t[1] = u[1] /\ u[2] < t[2])
      PROVE  q = r /\ j <= i /\ (t = u => i = j)
  <2>1. q = r
    <3>1. t \in Range(Line(q)) /\ u \in Range(Line(r)) /\ t[1] = u[1]
      BY <1>3, <1>5
    <3> QED
      BY <3>1, LinesAre
  <2>2. PICK p \in 1..Len(Line(q)) : InRequest(p, i, B) /\ t = Line(q)[p]
    BY <1>10
  <2>3. PICK o \in 1..Len(Line(q)) : InRequest(o, j, B) /\ u = Line(q)[o]
    BY <1>10, <2>1
  <2>4. Sorted(Line(q)) /\ Len(Line(q)) \in Nat
    BY <1>2
  <2>5. t[1] \in Nat /\ t[2] \in Nat /\ u[1] \in Nat /\ u[2] \in Nat
    <3>1. \A x \in Txs : x[1] \in Nat /\ x[2] \in Nat
      BY TxsAre, OptsAre
    <3> QED
      BY <1>3, <3>1
  <2>6. o <= p /\ (t = u => o = p)
    <3>1. o < p => Before(u, t)
      BY <2>2, <2>3, <2>4 DEF Sorted
    <3>2. p < o => Before(t, u)
      BY <2>2, <2>3, <2>4 DEF Sorted
    <3> QED
      BY <1>5, <2>4, <2>5, <3>1, <3>2 DEF Before
  <2>7. i \in Nat /\ j \in Nat /\ Len(Queue[q]) \in Nat
    BY <1>2, <2>1
  <2>8. t = u => i = j
    <3>1. t = u => InRequest(p, i, B) /\ InRequest(p, j, B)
      BY <2>2, <2>3, <2>6
    <3>2. InRequest(p, i, B) /\ InRequest(p, j, B) => i = j
      BY <1>1, <2>4, <2>7, OneRequest
    <3> QED
      BY <3>1, <3>2
  <2>9. j <= i
    <3>1. SUFFICES ASSUME i <= j - 1 PROVE FALSE
      BY <2>7
    <3>2. i * B <= (j - 1) * B /\ i * B \in Int /\ (j - 1) * B \in Int
      BY <1>1, <2>7, <3>1
    <3>3. (j - 1) * B < o /\ p <= i * B
      BY <2>2, <2>3 DEF InRequest
    <3> QED
      BY <2>4, <2>6, <3>2, <3>3
  <2> QED
    BY <2>1, <2>8, <2>9
<1>6. \A q \in DOMAIN Queue : Queue[q] \in Seq(Seq(Txs)) /\ Len(Queue[q]) \in Nat
  BY <1>2
<1>7. \A q \in DOMAIN Queue : \A i \in 1..Len(Queue[q]) :
        Len(Queue[q][i]) \in 1..Opts.BatchSize /\ Range(Queue[q][i]) \subseteq Txs
  BY <1>3, <1>10 DEF B
<1>8. ASSUME NEW q \in DOMAIN Queue, NEW r \in DOMAIN Queue,
             NEW i \in 1..Len(Queue[q]), NEW j \in 1..Len(Queue[r]),
             NEW t, t \in Range(Queue[q][i]), t \in Range(Queue[r][j])
      PROVE  q = r /\ i = j
  <2>1. \A a \in Range(Queue[q][i]), b \in Range(Queue[r][j]) : a = b => q = r /\ i = j
    BY <1>5
  <2> QED
    BY <1>8, <2>1, Zenon
<1>9. ASSUME NEW q \in DOMAIN Queue, NEW r \in DOMAIN Queue,
             NEW i \in 1..Len(Queue[q]), NEW j \in 1..Len(Queue[r]),
             NEW t \in Range(Queue[q][i]), NEW u \in Range(Queue[r][j]),
             t[1] = u[1], u[2] < t[2]
      PROVE  q = r /\ j <= i
  BY <1>5, <1>9
<1> QED
  BY <1>4, <1>6, <1>7, <1>8, <1>9

\* The whole load is counted.
LEMMA TotalCovers == IsFiniteSet(Txs) /\ Cardinality(Txs) \in Nat /\ Total \in Nat /\ Cardinality(Txs) <= Total
<1>1. \E s \in Seq(Txs) : Total = Len(s) /\ \A t \in Txs : t \in Range(s)
  <2>1. CASE InOrder
    <3> DEFINE M == [w \in Workers |-> Mine(w)]
    <3>1. M \in Seq(Seq(Txs)) /\ Len(M) = NumWorkers /\ \A w \in 1..NumWorkers : M[w] = Mine(w)
      BY <2>1, MineIs, OptsAre DEF Workers
    <3>2. Total = Len(FlattenSeq(M))
      BY <2>1 DEF Total
    <3> HIDE DEF M
    <3>3. ASSUME NEW t \in Txs PROVE \E w \in 1..NumWorkers : t \in Range(M[w])
      BY <2>1, <3>1, LinesAre DEF Line, Workers
    <3> QED
      BY <3>1, <3>2, <3>3, FlattenHolds
  <2>2. CASE ~InOrder
    <3>1. Total = Len(FlattenSeq(Streams))
      BY <2>2 DEF Total
    <3>2. FlattenSeq(Streams) \in Seq(Txs) /\ \A t \in Txs : t \in Range(FlattenSeq(Streams))
      BY <2>2, LinesAre DEF Line
    <3> QED
      BY <3>1, <3>2
  <2> QED
    BY <2>1, <2>2
<1>2. PICK s \in Seq(Txs) : Total = Len(s) /\ \A t \in Txs : t \in Range(s)
  BY <1>1
<1>3. s \in Surjection(1..Len(s), Txs) /\ Len(s) \in Nat
  BY <1>2, RangeIs DEF Surjection
<1>4. ExistsSurjection(1..Len(s), Txs)
  BY <1>3 DEF ExistsSurjection
<1>5. Cardinality(Txs) <= Len(s)
  BY <1>3, <1>4, FS_SurjCardinalityBound
<1>6. IsFiniteSet(Txs)
  BY <1>3, FS_Interval, FS_Surjection
<1> QED
  BY <1>2, <1>3, <1>5, <1>6, FS_CardinalityType

-----------------------------------------------------------------------------
(* The pool is finite, so txpool_status reports a number.                  *)

\* txpool_status counts the executable transactions: a natural number.
LEMMA OwnPendingNat == OwnPending \in Nat
<1>1. IsFiniteSet({t \in Txs : Executable(t)})
  BY TotalCovers, FS_Subset
<1> QED
  BY <1>1, FS_CardinalityType DEF OwnPending

-----------------------------------------------------------------------------
(* Type correctness.  A worker past the receive holds a request of its     *)
(* queue, and one in the backoff has not reached the stall timeout: the    *)
(* two facts that make the type invariant inductive.                       *)

Held == \A w \in Workers : pc[w] \notin {"take", "exit"} => cur[w] # 0

TimerRuns == \A w \in Workers : pc[w] = "pause" => quiet[w] < StallTimeout

BoolOK ==
  /\ stalled \in BOOLEAN
  /\ returned \in BOOLEAN
  /\ canceled \in BOOLEAN
  /\ drained \in [Workers -> BOOLEAN]
  /\ excused \in [Workers -> BOOLEAN]
  /\ blind \in BOOLEAN

QueueOK ==
  /\ next \in [DOMAIN Queue -> Nat]
  /\ \A q \in DOMAIN Queue : next[q] <= Len(Queue[q])
  /\ pc \in [Workers -> Locations]
  /\ cur \in [Workers -> Nat]
  /\ \A w \in Workers : cur[w] <= Len(Queue[QueueOf(w)])
  /\ sincePoll \in [Workers -> Nat]
  /\ Held

GateOK ==
  /\ deepest \in Nat \cup {-1}
  /\ peak \in Nat \cup {-1}
  /\ sample \in [Workers -> Nat \cup {-1}]
  /\ prev \in [Workers -> Nat \cup {-1}]
  /\ lowest \in [Workers -> Nat \cup {-1}]
  /\ quiet \in [Workers -> 0..StallTimeout]
  /\ foreign \in 0..MaxForeign
  /\ TimerRuns

NodeOK ==
  /\ failed \subseteq Txs
  /\ rejected \subseteq Txs
  /\ tries \in [Workers -> 0..MaxCopies]
  /\ reply \in [Workers -> Seq(Answers)]
  /\ node \in [Txs -> {"absent", "pooled", "mined"}]
  /\ strays \subseteq Seq(Txs)
  /\ seen \subseteq Txs

\* The type invariant and its two strengthenings, in parts one action disturbs.
LEMMA TypeOKSplit == TypeOK /\ Held /\ TimerRuns <=> BoolOK /\ QueueOK /\ GateOK /\ NodeOK
  BY Zenon DEF TypeOK, BoolOK, QueueOK, GateOK, NodeOK

\* A worker reads one of the queues.
LEMMA WorkerQueue ==
  ASSUME NEW w \in Workers
  PROVE  /\ QueueOf(w) \in DOMAIN Queue
         /\ Queue[QueueOf(w)] \in Seq(Seq(Txs))
         /\ Len(Queue[QueueOf(w)]) \in Nat
<1>1. QueueOf(w) \in DOMAIN Queue
  BY DEF Queue
<1>2. Queue[QueueOf(w)] \in Seq(Seq(Txs))
  BY <1>1, RequestsAre
<1> QED
  BY <1>1, <1>2

\* A pool that grows is marked for the workers that wait on it, and so is one
\* that executes a request.
LEMMA GrowsType ==
  ASSUME BoolOK
  PROVE  /\ Grows => excused' \in [Workers -> BOOLEAN]
         /\ \A chunk, admitted : Executes(chunk, admitted) => excused' \in [Workers -> BOOLEAN]
<1>1. ASSUME Grows PROVE excused' \in [Workers -> BOOLEAN]
  <2> DEFINE grown(w) == excused[w] \/ lowest[w] \notin {Unset, Highest}
  <2>1. \A w \in Workers : grown(w) \in BOOLEAN
    BY Zenon
  <2>2. excused' = [w \in Workers |-> grown(w)]
    BY <1>1, Zenon DEF Grows
  <2> QED
    BY <2>1, <2>2, Zenon
<1>2. ASSUME UNCHANGED excused PROVE excused' \in [Workers -> BOOLEAN]
  BY <1>2, Zenon DEF BoolOK
<1> QED
  BY <1>1, <1>2, Zenon DEF Executes

\* What the send decides stays Boolean.
LEMMA BoolStep == BoolOK /\ [Next]_vars => BoolOK'
<1> SUFFICES ASSUME BoolOK, [Next]_vars PROVE BoolOK'
  OBVIOUS
<1> USE DEF sendVars, gateVars, postVars, nodeVars, history, BoolOK
<1>1. ASSUME NEW w \in Workers, Worker(w) PROVE BoolOK'
  <2>1. CASE Take(w)
    BY <2>1, Zenon DEF Take, Goto
  <2>2. CASE QueueEmpty(w)
    BY <2>2, Zenon DEF QueueEmpty, Goto
  <2>3. CASE Sample(w)
    BY <2>3, Zenon DEF Sample, Goto
  <2>4. CASE SampleFails(w)
    BY <2>4, Zenon DEF SampleFails, Goto, LeaveGate
  <2>5. CASE LoadDeepest(w)
    BY <2>5, Zenon DEF LoadDeepest, Goto
  <2>6. CASE SwapDeepest(w)
    BY <2>6, Zenon DEF SwapDeepest, Goto
  <2>7. CASE Pass(w)
    BY <2>7, Zenon DEF Pass, Goto, LeaveGate
  <2>8. CASE NewLow(w)
    <3>1. (Pending > sample[w]) \in BOOLEAN
      OBVIOUS
    <3>2. /\ drained' = [drained EXCEPT ![w] = FALSE]
          /\ excused' = [excused EXCEPT ![w] = Pending > sample[w]]
          /\ UNCHANGED <<stalled, returned, canceled, blind>>
      BY <2>8, Zenon DEF NewLow
    <3> QED
      BY <3>1, <3>2, Zenon
  <2>9. CASE NoNewLow(w)
    BY <2>9, Zenon DEF NoNewLow, Goto, LeaveGate
  <2>10. CASE Resume(w)
    BY <2>10, Zenon DEF Resume, Goto
  <2>11. CASE ResumeLater(w)
    BY <2>11, Zenon DEF ResumeLater, Goto
  <2>12. CASE PauseCanceled(w)
    BY <2>12, Zenon DEF PauseCanceled, Goto, LeaveGate
  <2>13. CASE Deliver(w)
    <3>1. UNCHANGED <<stalled, returned, canceled, drained, blind>>
      BY <2>13, Zenon DEF Deliver
    <3>2. excused' \in [Workers -> BOOLEAN]
      BY <2>13, GrowsType, Zenon DEF Deliver
    <3> QED
      BY <3>1, <3>2, Zenon
  <2>14. CASE Record(w)
    BY <2>14, Zenon DEF Record, Goto, NextRequest
  <2>15. CASE RecordError(w)
    BY <2>15, Zenon DEF RecordError, Goto, NextRequest
  <2> QED
    BY <1>1, <2>1, <2>2, <2>3, <2>4, <2>5, <2>6, <2>7, <2>8, <2>9, <2>10, <2>11, <2>12, <2>13, <2>14, <2>15 DEF Worker, Gate
<1>2. CASE Return
  BY <1>2, Zenon DEF Return
<1>3. CASE Cancel
  BY <1>3, Zenon DEF Cancel
<1>4. CASE MineForeign
  BY <1>4, Zenon DEF MineForeign
<1>5. CASE ForeignArrives
  BY <1>5, GrowsType, Zenon DEF ForeignArrives
<1>6. CASE StrayArrives
  <2>1. UNCHANGED <<stalled, returned, canceled, drained, blind>>
    BY <1>6, Zenon DEF StrayArrives
  <2>2. excused' \in [Workers -> BOOLEAN]
    BY <1>6, GrowsType, Zenon DEF StrayArrives
  <2> QED
    BY <2>1, <2>2, Zenon
<1>7. ASSUME NEW t \in Txs, MineOwn(t) PROVE BoolOK'
  BY <1>7, Zenon DEF MineOwn
<1>8. CASE UNCHANGED vars
  BY <1>8, Zenon DEF vars
<1> QED
  BY <1>1, <1>2, <1>3, <1>4, <1>5, <1>6, <1>7, <1>8 DEF Next, Environment, Block

\* Workers stay within their queues.
LEMMA QueueStep == QueueOK /\ [Next]_vars => QueueOK'
<1> SUFFICES ASSUME QueueOK, [Next]_vars PROVE QueueOK'
  OBVIOUS
<1> USE WorkerQueue DEF sendVars, gateVars, postVars, nodeVars, history, QueueOK, Held, Locations
<1>1. ASSUME NEW w \in Workers, Worker(w) PROVE QueueOK'
  <2>1. CASE Take(w)
    <3> DEFINE q == QueueOf(w)
    <3>1. /\ q \in DOMAIN Queue
          /\ Queue[q] \in Seq(Seq(Txs))
          /\ next[q] + 1 \in 1..Len(Queue[q])
      BY <2>1 DEF Take
    <3>2. Queue[q][next[q] + 1] \in Seq(Txs)
      BY <3>1
    <3>3. Len(Queue[q][next[q] + 1]) \in Nat
      BY <3>2
    <3> DEFINE n == sincePoll[w] + Len(Queue[q][next[q] + 1])
    <3>4. n \in Nat
      BY <3>3
    <3>5. /\ next' \in [DOMAIN Queue -> Nat]
          /\ \A r \in DOMAIN Queue : next'[r] <= Len(Queue[r])
      BY <2>1, <3>1, RequestsAre DEF Take
    <3>6. CASE canceled
      BY <2>1, <3>5, <3>6 DEF Take, Goto
    <3>7. CASE ~canceled
      <4>1. /\ cur' = [cur EXCEPT ![w] = next[q] + 1]
            /\ sincePoll' = [sincePoll EXCEPT ![w] = IF n >= PollEvery THEN 0 ELSE n]
            /\ pc' = [pc EXCEPT ![w] = IF n >= PollEvery THEN "gate" ELSE "post"]
        BY <2>1, <3>7, Zenon DEF Take, Goto
      <4> HIDE DEF n
      <4>2. pc' \in [Workers -> Locations] /\ sincePoll' \in [Workers -> Nat]
        BY <3>4, <4>1
      <4>3. /\ cur' \in [Workers -> Nat]
            /\ \A v \in Workers : cur'[v] <= Len(Queue[QueueOf(v)])
        BY <3>1, <4>1
      <4>4. Held'
        BY <3>1, <4>1
      <4> QED
        BY <3>5, <4>2, <4>3, <4>4
    <3> QED
      BY <3>6, <3>7
  <2>2. CASE QueueEmpty(w)
    BY <2>2 DEF QueueEmpty, Goto
  <2>3. CASE Sample(w)
    BY <2>3 DEF Sample, Goto
  <2>4. CASE SampleFails(w)
    BY <2>4 DEF SampleFails, Goto, LeaveGate
  <2>5. CASE LoadDeepest(w)
    BY <2>5 DEF LoadDeepest, Goto
  <2>6. CASE SwapDeepest(w)
    BY <2>6 DEF SwapDeepest, Goto
  <2>7. CASE Pass(w)
    BY <2>7 DEF Pass, Goto, LeaveGate
  <2>8. CASE NewLow(w)
    BY <2>8 DEF NewLow, Goto
  <2>9. CASE NoNewLow(w)
    BY <2>9 DEF NoNewLow, Goto, LeaveGate
  <2>10. CASE Resume(w)
    BY <2>10 DEF Resume, Goto
  <2>11. CASE ResumeLater(w)
    BY <2>11 DEF ResumeLater, Goto
  <2>12. CASE PauseCanceled(w)
    BY <2>12 DEF PauseCanceled, Goto, LeaveGate
  <2>13. CASE Deliver(w)
    BY <2>13 DEF Deliver, Goto
  <2>14. CASE Record(w)
    BY <2>14 DEF Record, Goto, NextRequest
  <2>15. CASE RecordError(w)
    BY <2>15 DEF RecordError, Goto, NextRequest
  <2> QED
    BY <1>1, <2>1, <2>2, <2>3, <2>4, <2>5, <2>6, <2>7, <2>8, <2>9, <2>10, <2>11, <2>12, <2>13, <2>14, <2>15 DEF Worker, Gate
<1>2. CASE Return
  BY <1>2 DEF Return
<1>3. CASE Cancel
  BY <1>3 DEF Cancel
<1>4. CASE MineForeign
  BY <1>4 DEF MineForeign
<1>5. CASE ForeignArrives
  BY <1>5 DEF ForeignArrives
<1>6. CASE StrayArrives
  BY <1>6 DEF StrayArrives
<1>7. ASSUME NEW t \in Txs, MineOwn(t) PROVE QueueOK'
  BY <1>7 DEF MineOwn
<1>8. CASE UNCHANGED vars
  BY <1>8 DEF vars
<1> QED
  BY <1>1, <1>2, <1>3, <1>4, <1>5, <1>6, <1>7, <1>8 DEF Next, Environment, Block

\* The locals of awaitPoolRoom stay numbers, and the stall timer within its limit.
LEMMA GateStep == GateOK /\ QueueOK /\ [Next]_vars => GateOK'
<1> SUFFICES ASSUME GateOK, QueueOK, [Next]_vars PROVE GateOK'
  OBVIOUS
<1> USE BroadcastAssumption, OwnPendingNat DEF sendVars, gateVars, postVars, nodeVars, history, GateOK, QueueOK, TimerRuns, Locations, AtLeast, Unset, Highest
<1>1. ASSUME NEW w \in Workers, Worker(w) PROVE GateOK'
  <2>1. CASE Take(w)
    <3>1. lowest' \in [Workers -> Nat \cup {-1}]
      BY <2>1 DEF Take
    <3>2. pc' \in [Workers -> Locations] /\ \A v \in Workers : pc'[v] = "pause" => pc[v] = "pause"
      BY <2>1 DEF Take, Goto
    <3> QED
      BY <2>1, <3>1, <3>2 DEF Take
  <2>2. CASE QueueEmpty(w)
    BY <2>2 DEF QueueEmpty, Goto
  <2>3. CASE Sample(w)
    BY <2>3 DEF Sample, Goto, Pending
  <2>4. CASE SampleFails(w)
    BY <2>4 DEF SampleFails, Goto, LeaveGate
  <2>5. CASE LoadDeepest(w)
    BY <2>5 DEF LoadDeepest, Goto
  <2>6. CASE SwapDeepest(w)
    BY <2>6 DEF SwapDeepest, Goto
  <2>7. CASE Pass(w)
    BY <2>7 DEF Pass, Goto, LeaveGate
  <2>8. CASE NewLow(w)
    BY <2>8 DEF NewLow, Goto
  <2>9. CASE NoNewLow(w)
    <3>1. CASE quiet[w] >= StallTimeout
      <4>1. LeaveGate(w) /\ Goto(w, "post") /\ UNCHANGED <<deepest, peak, foreign>>
        BY <2>9, <3>1, Zenon DEF NoNewLow
      <4> QED
        BY <4>1 DEF LeaveGate, Goto
    <3>2. CASE ~(quiet[w] >= StallTimeout)
      <4>1. /\ sample' = [sample EXCEPT ![w] = Unset]
            /\ Goto(w, "pause")
            /\ UNCHANGED <<prev, lowest, quiet, deepest, peak, foreign>>
        BY <2>9, <3>2, Zenon DEF NoNewLow
      <4> QED
        BY <3>2, <4>1 DEF Goto
    <3> QED
      BY <3>1, <3>2
  <2>10. CASE Resume(w)
    BY <2>10 DEF Resume, Goto
  <2>11. CASE ResumeLater(w)
    BY <2>11 DEF ResumeLater, Goto
  <2>12. CASE PauseCanceled(w)
    BY <2>12 DEF PauseCanceled, Goto, LeaveGate
  <2>13. CASE Deliver(w)
    BY <2>13 DEF Deliver, Goto
  <2>14. CASE Record(w)
    BY <2>14 DEF Record, Goto, NextRequest
  <2>15. CASE RecordError(w)
    BY <2>15 DEF RecordError, Goto, NextRequest
  <2> QED
    BY <1>1, <2>1, <2>2, <2>3, <2>4, <2>5, <2>6, <2>7, <2>8, <2>9, <2>10, <2>11, <2>12, <2>13, <2>14, <2>15 DEF Worker, Gate
<1>2. CASE Return
  BY <1>2 DEF Return
<1>3. CASE Cancel
  BY <1>3 DEF Cancel
<1>4. CASE MineForeign
  BY <1>4 DEF MineForeign
<1>5. CASE ForeignArrives
  BY <1>5 DEF ForeignArrives
<1>6. CASE StrayArrives
  BY <1>6 DEF StrayArrives
<1>7. ASSUME NEW t \in Txs, MineOwn(t) PROVE GateOK'
  BY <1>7 DEF MineOwn
<1>8. CASE UNCHANGED vars
  BY <1>8 DEF vars
<1> QED
  BY <1>1, <1>2, <1>3, <1>4, <1>5, <1>6, <1>7, <1>8 DEF Next, Environment, Block

\* The request a worker is posting.
LEMMA InHandType ==
  ASSUME QueueOK, NEW w \in Workers, pc[w] = "post"
  PROVE  /\ InHand(w) \in Seq(Txs)
         /\ Range(InHand(w)) \subseteq Txs
         /\ \A i \in 1..Len(InHand(w)) : InHand(w)[i] \in Txs
<1>0. Len(Queue[QueueOf(w)]) \in Nat
  BY WorkerQueue
<1>3. cur[w] \in Nat /\ cur[w] # 0 /\ cur[w] <= Len(Queue[QueueOf(w)])
  BY DEF QueueOK, Held
<1>1. cur[w] \in 1..Len(Queue[QueueOf(w)])
  BY <1>0, <1>3
<1>2. InHand(w) \in Seq(Txs)
  BY <1>1, WorkerQueue DEF InHand
<1> QED
  BY <1>2 DEF Range

\* What the node does with a request stays within the load.
LEMMA ExecutesType ==
  ASSUME NodeOK, NEW chunk \in Seq(Txs), NEW admitted, Executes(chunk, admitted)
  PROVE  /\ node' \in [Txs -> {"absent", "pooled", "mined"}]
         /\ seen' \subseteq Txs
<1>1. Range(chunk) \subseteq Txs
  BY DEF Range
<1>2. node' = [t \in Txs |-> IF t \in admitted THEN "pooled" ELSE node[t]]
  BY Zenon DEF Executes
<1>3. seen' = seen \cup Range(chunk)
  BY Zenon DEF Executes
<1> QED
  BY <1>1, <1>2, <1>3 DEF NodeOK

\* The empty reply is a sequence of answers.
LEMMA NoReplyType == NoReply \in Seq(Answers)
  BY DEF NoReply

\* The node's and the counted transactions stay within the load.
LEMMA NodeStep == NodeOK /\ QueueOK /\ [Next]_vars => NodeOK'
<1> SUFFICES ASSUME NodeOK, QueueOK, [Next]_vars PROVE NodeOK'
  OBVIOUS
<1> USE DEF sendVars, gateVars, postVars, nodeVars, history
<1>1. ASSUME NEW w \in Workers, Worker(w) PROVE NodeOK'
  <2>1. CASE Take(w)
    BY <2>1 DEF Take, Goto, NodeOK
  <2>2. CASE QueueEmpty(w)
    BY <2>2 DEF QueueEmpty, Goto, NodeOK
  <2>3. CASE Sample(w)
    BY <2>3 DEF Sample, Goto, NodeOK
  <2>4. CASE SampleFails(w)
    BY <2>4 DEF SampleFails, Goto, LeaveGate, NodeOK
  <2>5. CASE LoadDeepest(w)
    BY <2>5 DEF LoadDeepest, Goto, NodeOK
  <2>6. CASE SwapDeepest(w)
    BY <2>6 DEF SwapDeepest, Goto, NodeOK
  <2>7. CASE Pass(w)
    BY <2>7 DEF Pass, Goto, LeaveGate, NodeOK
  <2>8. CASE NewLow(w)
    BY <2>8 DEF NewLow, Goto, NodeOK
  <2>9. CASE NoNewLow(w)
    BY <2>9 DEF NoNewLow, Goto, LeaveGate, NodeOK
  <2>10. CASE Resume(w)
    BY <2>10 DEF Resume, Goto, NodeOK
  <2>11. CASE ResumeLater(w)
    BY <2>11 DEF ResumeLater, Goto, NodeOK
  <2>12. CASE PauseCanceled(w)
    BY <2>12 DEF PauseCanceled, Goto, LeaveGate, NodeOK
  <2>13. CASE Deliver(w)
    <3>1. pc[w] = "post"
      BY <2>13 DEF Deliver
    <3>2. InHand(w) \in Seq(Txs)
      BY <3>1, InHandType
    <3>3. PICK admitted \in SUBSET Range(InHand(w)) :
            /\ Executes(InHand(w), admitted)
            /\ reply' = [reply EXCEPT ![w] =
                           [i \in 1..Len(InHand(w)) |-> Outcome(InHand(w)[i], admitted)]]
      BY <2>13, Zenon DEF Deliver
    <3>4. node' \in [Txs -> {"absent", "pooled", "mined"}] /\ seen' \subseteq Txs
      BY <3>2, <3>3, ExecutesType
    <3> DEFINE answer == [i \in 1..Len(InHand(w)) |-> Outcome(InHand(w)[i], admitted)]
    <3>5. \A t : Outcome(t, admitted) \in Answers
      BY DEF Outcome, Answers
    <3>6. answer \in Seq(Answers)
      BY <3>2, <3>5
    <3>7. reply' \in [Workers -> Seq(Answers)]
      BY <3>3, <3>6 DEF NodeOK
    <3>8. /\ tries[w] < (IF Lossy THEN MaxCopies ELSE 1)
          /\ tries' = [tries EXCEPT ![w] = @ + 1]
          /\ UNCHANGED <<failed, rejected, strays>>
      BY <2>13, Zenon DEF Deliver, sendVars, history
    <3>9. tries' \in [Workers -> 0..MaxCopies]
      <4>1. tries[w] + 1 \in 0..MaxCopies
        BY <3>8, BroadcastAssumption DEF NodeOK
      <4> QED
        BY <3>8, <4>1 DEF NodeOK
    <3> QED
      BY <3>4, <3>7, <3>8, <3>9 DEF NodeOK
  <2>14. CASE Record(w)
    <3>1. pc[w] = "post"
      BY <2>14 DEF Record
    <3>2. /\ Range(InHand(w)) \subseteq Txs
          /\ \A i \in 1..Len(InHand(w)) : InHand(w)[i] \in Txs
      BY <3>1, InHandType
    <3>3. failed' \subseteq Txs /\ rejected' \subseteq Txs
      <4>1. CASE Len(InHand(w)) = 1
        BY <2>14, <3>2, <4>1 DEF Record, NodeOK
      <4>2. CASE Len(InHand(w)) # 1
        BY <2>14, <3>2, <4>2 DEF Record, NodeOK
      <4> QED
        BY <4>1, <4>2
    <3>5. /\ tries' = [tries EXCEPT ![w] = 0]
          /\ reply' = [reply EXCEPT ![w] = NoReply]
          /\ UNCHANGED <<node, strays, seen>>
      BY <2>14, Zenon DEF Record, NextRequest, nodeVars
    <3> QED
      BY <3>3, <3>5, NoReplyType, BroadcastAssumption DEF NodeOK
  <2>15. CASE RecordError(w)
    <3>1. pc[w] = "post"
      BY <2>15 DEF RecordError
    <3>2. InHand(w) \in Seq(Txs) /\ Range(InHand(w)) \subseteq Txs
      BY <3>1, InHandType
    <3>3. strays' \subseteq strays \cup {InHand(w)}
      BY <2>15 DEF RecordError
    <3>4. failed' = failed \cup Range(InHand(w))
      BY <2>15, Zenon DEF RecordError
    <3>5. /\ tries' = [tries EXCEPT ![w] = 0]
          /\ reply' = [reply EXCEPT ![w] = NoReply]
          /\ UNCHANGED <<rejected, node, seen>>
      BY <2>15, Zenon DEF RecordError, NextRequest, history
    <3> QED
      BY <3>2, <3>3, <3>4, <3>5, NoReplyType, BroadcastAssumption DEF NodeOK
  <2> QED
    BY <1>1, <2>1, <2>2, <2>3, <2>4, <2>5, <2>6, <2>7, <2>8, <2>9, <2>10, <2>11, <2>12, <2>13, <2>14, <2>15 DEF Worker, Gate
<1>2. CASE Return
  BY <1>2 DEF Return, NodeOK
<1>3. CASE Cancel
  BY <1>3 DEF Cancel, NodeOK
<1>4. CASE MineForeign
  BY <1>4 DEF MineForeign, NodeOK
<1>5. CASE ForeignArrives
  BY <1>5 DEF ForeignArrives, NodeOK
<1>6. CASE StrayArrives
  <2>1. PICK chunk \in strays :
          /\ strays' = strays \ {chunk}
          /\ \E admitted \in SUBSET Range(chunk) : Executes(chunk, admitted)
    BY <1>6, Zenon DEF StrayArrives
  <2>2. chunk \in Seq(Txs)
    BY <2>1 DEF NodeOK
  <2>3. node' \in [Txs -> {"absent", "pooled", "mined"}] /\ seen' \subseteq Txs
    BY <2>1, <2>2, ExecutesType
  <2>4. UNCHANGED <<failed, rejected, tries, reply>>
    BY <1>6, Zenon DEF StrayArrives, sendVars, postVars, history
  <2> QED
    BY <2>1, <2>3, <2>4 DEF NodeOK
<1>7. ASSUME NEW t \in Txs, MineOwn(t) PROVE NodeOK'
  BY <1>7 DEF MineOwn, NodeOK
<1>8. CASE UNCHANGED vars
  BY <1>8 DEF vars, NodeOK
<1> QED
  BY <1>1, <1>2, <1>3, <1>4, <1>5, <1>6, <1>7, <1>8 DEF Next, Environment, Block

\* A send starts well typed.
LEMMA InitTypes == Init => BoolOK /\ QueueOK /\ GateOK /\ NodeOK
<1> SUFFICES ASSUME Init PROVE BoolOK /\ QueueOK /\ GateOK /\ NodeOK
  OBVIOUS
<1>1. BoolOK
  BY Zenon DEF Init, BoolOK
<1>2. QueueOK
  BY RequestsAre DEF Init, QueueOK, Held, Locations
<1>3. GateOK
  BY BroadcastAssumption DEF Init, GateOK, TimerRuns, Unset
<1>4. NodeOK
  BY NoReplyType, BroadcastAssumption DEF Init, NodeOK
<1> QED
  BY <1>1, <1>2, <1>3, <1>4

\* The inductive invariant behind TypeCorrect.
LEMMA Types == Spec => [](BoolOK /\ QueueOK /\ GateOK /\ NodeOK)
<1>1. (BoolOK /\ QueueOK /\ GateOK /\ NodeOK) /\ [Next]_vars
        => (BoolOK /\ QueueOK /\ GateOK /\ NodeOK)'
  BY BoolStep, QueueStep, GateStep, NodeStep
<1> QED
  BY InitTypes, <1>1, PTL DEF Spec

\* The sender's variables keep their types: among them that no worker reads past
\* the end of its queue and that no wait outlasts the stall timeout.
THEOREM TypeCorrect == Spec => []TypeOK
  BY Types, TypeOKSplit, PTL

-----------------------------------------------------------------------------
(* The lock-free maximum.  A worker's prev never runs ahead of deepest, so *)
(* a successful swap raises deepest to the worker's sample and a skipped   *)
(* one leaves a deepest that is no lower: whenever deepest is behind the   *)
(* highest sample, the worker that took it has not finished its loop.      *)

Behind == \E w \in Workers : pc[w] \in {"load", "swap"} /\ sample[w] = peak

PeakInv ==
  /\ deepest <= peak
  /\ \A w \in Workers : pc[w] \in {"load", "swap"} => sample[w] <= peak
  /\ \A w \in Workers : pc[w] = "swap" => prev[w] <= deepest
  /\ deepest < peak => Behind
  /\ returned => \A w \in Workers : pc[w] = "exit"

\* A step of worker w that neither samples nor swaps leaves the maximum alone.
LEMMA OtherStep ==
  ASSUME PeakInv, GateOK, QueueOK, NEW w \in Workers, NEW l,
         pc[w] \notin {"load", "swap", "exit"}, l \notin {"load", "swap"},
         pc' = [pc EXCEPT ![w] = l],
         \A v \in Workers : v # w => sample'[v] = sample[v] /\ prev'[v] = prev[v],
         UNCHANGED <<deepest, peak, returned>>
  PROVE  PeakInv'
<1>1. \A v \in Workers : v # w => pc'[v] = pc[v]
  BY DEF QueueOK
<1>2. pc'[w] = l
  BY DEF QueueOK
<1>3. Behind => Behind'
  BY <1>1 DEF Behind
<1>4. ~returned
  BY DEF PeakInv
<1> QED
  BY <1>1, <1>2, <1>3, <1>4 DEF PeakInv

\* Every step keeps the maximum's invariant.
LEMMA PeakStep == PeakInv /\ GateOK /\ QueueOK /\ [Next]_vars => PeakInv'
<1> SUFFICES ASSUME PeakInv, GateOK, QueueOK, [Next]_vars PROVE PeakInv'
  OBVIOUS
<1>1. ASSUME NEW w \in Workers, Worker(w) PROVE PeakInv'
  <2>1. CASE Take(w)
    <3>1. PICK l \in {"exit", "gate", "post"} : pc' = [pc EXCEPT ![w] = l]
      BY <2>1 DEF Take, Goto
    <3>2. pc[w] = "take" /\ UNCHANGED <<deepest, peak, returned, sample, prev>>
      BY <2>1, Zenon DEF Take, history
    <3> QED
      BY <3>1, <3>2, OtherStep
  <2>2. CASE QueueEmpty(w)
    <3>1. /\ pc[w] \notin {"load", "swap", "exit"}
          /\ pc' = [pc EXCEPT ![w] = "exit"]
          /\ UNCHANGED <<deepest, peak, returned>>
      BY <2>2 DEF QueueEmpty, Goto, sendVars, history
    <3>2. \A v \in Workers : v # w => sample'[v] = sample[v] /\ prev'[v] = prev[v]
      BY <2>2 DEF QueueEmpty, gateVars, GateOK
    <3> QED
      BY <3>1, <3>2, OtherStep
  <2>3. CASE Sample(w)
    <3>1. Pending \in Nat
      BY OwnPendingNat, BroadcastAssumption DEF Pending, GateOK
    <3>2. /\ pc[w] = "gate"
          /\ sample' = [sample EXCEPT ![w] = Pending]
          /\ peak' = AtLeast(Pending, peak)
          /\ pc' = [pc EXCEPT ![w] = "load"]
          /\ UNCHANGED <<deepest, returned, prev>>
      BY <2>3, Zenon DEF Sample, Goto, sendVars
    <3>3. ~returned
      BY <3>2 DEF PeakInv
    <3>4. peak <= peak' /\ Pending <= peak' /\ peak' \in {peak, Pending}
      BY <3>1, <3>2 DEF AtLeast, GateOK
    <3>5. deepest < peak' => Behind'
      <4>1. CASE peak' = Pending
        BY <3>2, <4>1 DEF Behind, GateOK, QueueOK
      <4>2. CASE peak' = peak
        BY <3>2, <4>2 DEF Behind, PeakInv, GateOK, QueueOK
      <4> QED
        BY <3>4, <4>1, <4>2
    <3>6. ASSUME NEW v \in Workers, pc'[v] \in {"load", "swap"} PROVE sample'[v] <= peak'
      <4>1. CASE v = w
        BY <3>2, <3>4, <4>1 DEF GateOK
      <4>2. CASE v # w
        <5>1. pc'[v] = pc[v] /\ sample'[v] = sample[v]
          BY <3>2, <4>2 DEF GateOK, QueueOK
        <5>2. sample[v] <= peak
          BY <3>6, <5>1 DEF PeakInv
        <5>3. sample[v] \in Int /\ peak \in Int /\ peak' \in Int
          BY <3>1, <3>4 DEF GateOK
        <5> QED
          BY <3>4, <5>1, <5>2, <5>3
      <4> QED
        BY <4>1, <4>2
    <3>7. \A v \in Workers : pc'[v] = "swap" => prev'[v] <= deepest'
      BY <3>2 DEF PeakInv, GateOK, QueueOK
    <3>8. deepest' <= peak'
      BY <3>1, <3>2, <3>4 DEF PeakInv, GateOK
    <3>9. deepest' = deepest /\ ~returned'
      BY <3>2, <3>3, Zenon
    <3> QED
      BY <3>5, <3>6, <3>7, <3>8, <3>9 DEF PeakInv
  <2>4. CASE SampleFails(w)
    <3>1. /\ pc[w] \notin {"load", "swap", "exit"}
          /\ pc' = [pc EXCEPT ![w] = "post"]
          /\ UNCHANGED <<deepest, peak, returned>>
      BY <2>4 DEF SampleFails, Goto, sendVars, history
    <3>2. \A v \in Workers : v # w => sample'[v] = sample[v] /\ prev'[v] = prev[v]
      BY <2>4 DEF SampleFails, gateVars, LeaveGate, GateOK
    <3> QED
      BY <3>1, <3>2, OtherStep
  <2>5. CASE LoadDeepest(w)
    <3>1. /\ pc[w] = "load"
          /\ prev' = [prev EXCEPT ![w] = deepest]
          /\ pc' = [pc EXCEPT ![w] = "swap"]
          /\ UNCHANGED <<deepest, peak, returned, sample>>
      BY <2>5, Zenon DEF LoadDeepest, Goto, sendVars, history
    <3>2. Behind => Behind'
      BY <3>1 DEF Behind, QueueOK
    <3> QED
      BY <3>1, <3>2 DEF PeakInv, GateOK, QueueOK
  <2>6. CASE SwapDeepest(w)
    <3>1. /\ pc[w] = "swap"
          /\ prev' = [prev EXCEPT ![w] = Unset]
          /\ UNCHANGED <<peak, returned, sample>>
      BY <2>6, Zenon DEF SwapDeepest, history
    <3>2. ~returned
      BY <3>1 DEF PeakInv
    <3>3. CASE sample[w] <= prev[w] /\ pc' = [pc EXCEPT ![w] = "judge"] /\ UNCHANGED deepest
      <4>1. sample[w] <= deepest
        BY <3>1, <3>3 DEF PeakInv, GateOK
      <4>2. deepest < peak => Behind'
        BY <3>1, <3>3, <4>1 DEF PeakInv, Behind, GateOK, QueueOK
      <4> QED
        BY <3>1, <3>2, <3>3, <4>2 DEF PeakInv, GateOK, QueueOK
    <3>4. CASE /\ sample[w] > prev[w]
               /\ deepest = prev[w]
               /\ deepest' = sample[w]
               /\ pc' = [pc EXCEPT ![w] = "judge"]
      <4>1. deepest <= deepest' /\ deepest' <= peak
        BY <3>1, <3>4 DEF PeakInv, GateOK
      <4>2. deepest' < peak => Behind'
        <5>1. SUFFICES ASSUME deepest' < peak PROVE Behind'
          OBVIOUS
        <5>2. deepest \in Int /\ deepest' \in Int /\ peak \in Int
          BY <3>4 DEF GateOK
        <5>3. deepest < peak
          BY <4>1, <5>1, <5>2
        <5>4. PICK v \in Workers : pc[v] \in {"load", "swap"} /\ sample[v] = peak
          BY <5>3 DEF PeakInv, Behind
        <5>5. v # w
          BY <3>4, <5>1, <5>2, <5>4
        <5>6. pc'[v] = pc[v] /\ sample'[v] = peak'
          BY <3>1, <3>4, <5>4, <5>5 DEF QueueOK
        <5> QED
          BY <5>4, <5>6 DEF Behind
      <4>3. \A v \in Workers : pc'[v] \in {"load", "swap"} => sample'[v] <= peak'
        BY <3>1, <3>4 DEF PeakInv, GateOK, QueueOK
      <4>4. ASSUME NEW v \in Workers, pc'[v] = "swap" PROVE prev'[v] <= deepest'
        <5>1. pc[v] = "swap" /\ prev'[v] = prev[v]
          BY <3>1, <3>4, <4>4 DEF GateOK, QueueOK
        <5>2. prev[v] <= deepest
          BY <5>1 DEF PeakInv
        <5>3. prev[v] \in Int /\ deepest \in Int /\ deepest' \in Int
          BY <3>4 DEF GateOK
        <5> QED
          BY <4>1, <5>1, <5>2, <5>3
      <4>5. peak' = peak /\ ~returned'
        BY <3>1, <3>2, Zenon
      <4> QED
        BY <4>1, <4>2, <4>3, <4>4, <4>5 DEF PeakInv
    <3>5. CASE pc' = [pc EXCEPT ![w] = "load"] /\ UNCHANGED deepest
      <4>1. Behind => Behind'
        BY <3>1, <3>5 DEF Behind, QueueOK
      <4> QED
        BY <3>1, <3>2, <3>5, <4>1 DEF PeakInv, GateOK, QueueOK
    <3> QED
      BY <2>6, <3>3, <3>4, <3>5, Zenon DEF SwapDeepest, Goto
  <2>7. CASE Pass(w)
    <3>1. /\ pc[w] \notin {"load", "swap", "exit"}
          /\ pc' = [pc EXCEPT ![w] = "post"]
          /\ UNCHANGED <<deepest, peak, returned>>
      BY <2>7 DEF Pass, Goto, sendVars, history
    <3>2. \A v \in Workers : v # w => sample'[v] = sample[v] /\ prev'[v] = prev[v]
      BY <2>7 DEF Pass, gateVars, LeaveGate, GateOK
    <3> QED
      BY <3>1, <3>2, OtherStep
  <2>8. CASE NewLow(w)
    <3>1. /\ pc[w] \notin {"load", "swap", "exit"}
          /\ pc' = [pc EXCEPT ![w] = "pause"]
          /\ UNCHANGED <<deepest, peak, returned>>
      BY <2>8 DEF NewLow, Goto, sendVars, history
    <3>2. \A v \in Workers : v # w => sample'[v] = sample[v] /\ prev'[v] = prev[v]
      BY <2>8 DEF NewLow, gateVars, GateOK
    <3> QED
      BY <3>1, <3>2, OtherStep
  <2>9. CASE NoNewLow(w)
    <3>1. PICK l \in {"post", "pause"} : pc' = [pc EXCEPT ![w] = l]
      BY <2>9, Zenon DEF NoNewLow, Goto
    <3>2. pc[w] = "judge" /\ UNCHANGED <<deepest, peak, returned>>
      BY <2>9, Zenon DEF NoNewLow, history
    <3>3. \A v \in Workers : v # w => sample'[v] = sample[v] /\ prev'[v] = prev[v]
      <4>1. CASE quiet[w] >= StallTimeout
        BY <2>9, <4>1 DEF NoNewLow, LeaveGate, GateOK
      <4>2. CASE ~(quiet[w] >= StallTimeout)
        BY <2>9, <4>2 DEF NoNewLow, GateOK
      <4> QED
        BY <4>1, <4>2
    <3> QED
      BY <3>1, <3>2, <3>3, OtherStep
  <2>10. CASE Resume(w)
    <3>1. /\ pc[w] \notin {"load", "swap", "exit"}
          /\ pc' = [pc EXCEPT ![w] = "gate"]
          /\ UNCHANGED <<deepest, peak, returned>>
      BY <2>10 DEF Resume, Goto, sendVars, history
    <3>2. \A v \in Workers : v # w => sample'[v] = sample[v] /\ prev'[v] = prev[v]
      BY <2>10 DEF Resume, gateVars, GateOK
    <3> QED
      BY <3>1, <3>2, OtherStep
  <2>11. CASE ResumeLater(w)
    <3>1. /\ pc[w] \notin {"load", "swap", "exit"}
          /\ pc' = [pc EXCEPT ![w] = "gate"]
          /\ UNCHANGED <<deepest, peak, returned>>
      BY <2>11 DEF ResumeLater, Goto, sendVars, history
    <3>2. \A v \in Workers : v # w => sample'[v] = sample[v] /\ prev'[v] = prev[v]
      BY <2>11 DEF ResumeLater, gateVars, GateOK
    <3> QED
      BY <3>1, <3>2, OtherStep
  <2>12. CASE PauseCanceled(w)
    <3>1. /\ pc[w] \notin {"load", "swap", "exit"}
          /\ pc' = [pc EXCEPT ![w] = "exit"]
          /\ UNCHANGED <<deepest, peak, returned>>
      BY <2>12 DEF PauseCanceled, Goto, sendVars, history
    <3>2. \A v \in Workers : v # w => sample'[v] = sample[v] /\ prev'[v] = prev[v]
      BY <2>12 DEF PauseCanceled, gateVars, LeaveGate, GateOK
    <3> QED
      BY <3>1, <3>2, OtherStep
  <2>13. CASE Deliver(w)
    <3>1. UNCHANGED <<deepest, peak, returned, pc, sample, prev>>
      BY <2>13, Zenon DEF Deliver, sendVars, gateVars, history
    <3> QED
      BY <3>1 DEF PeakInv, Behind
  <2>14. CASE Record(w)
    <3>1. /\ pc[w] \notin {"load", "swap", "exit"}
          /\ pc' = [pc EXCEPT ![w] = "take"]
          /\ UNCHANGED <<deepest, peak, returned>>
      BY <2>14 DEF Record, Goto, sendVars, history, NextRequest
    <3>2. \A v \in Workers : v # w => sample'[v] = sample[v] /\ prev'[v] = prev[v]
      BY <2>14 DEF Record, gateVars, GateOK
    <3> QED
      BY <3>1, <3>2, OtherStep
  <2>15. CASE RecordError(w)
    <3>1. /\ pc[w] \notin {"load", "swap", "exit"}
          /\ pc' = [pc EXCEPT ![w] = "take"]
          /\ UNCHANGED <<deepest, peak, returned>>
      BY <2>15 DEF RecordError, Goto, sendVars, history, NextRequest
    <3>2. \A v \in Workers : v # w => sample'[v] = sample[v] /\ prev'[v] = prev[v]
      BY <2>15 DEF RecordError, gateVars, GateOK
    <3> QED
      BY <3>1, <3>2, OtherStep
  <2> QED
    BY <1>1, <2>1, <2>2, <2>3, <2>4, <2>5, <2>6, <2>7, <2>8, <2>9, <2>10, <2>11, <2>12, <2>13, <2>14, <2>15 DEF Worker, Gate
<1>2. CASE Return
  BY <1>2 DEF Return, gateVars, history, PeakInv, Behind
<1>3. CASE Cancel
  <2>1. UNCHANGED <<deepest, peak, returned, pc, sample, prev>>
    BY <1>3, Zenon DEF Cancel, sendVars, gateVars, history
  <2> QED
    BY <2>1 DEF PeakInv, Behind
<1>4. CASE MineForeign
  <2>1. UNCHANGED <<deepest, peak, returned, pc, sample, prev>>
    BY <1>4, Zenon DEF MineForeign, sendVars, gateVars, history
  <2> QED
    BY <2>1 DEF PeakInv, Behind
<1>5. CASE ForeignArrives
  <2>1. UNCHANGED <<deepest, peak, returned, pc, sample, prev>>
    BY <1>5, Zenon DEF ForeignArrives, sendVars, gateVars, history
  <2> QED
    BY <2>1 DEF PeakInv, Behind
<1>6. CASE StrayArrives
  <2>1. UNCHANGED <<deepest, peak, returned, pc, sample, prev>>
    BY <1>6, Zenon DEF StrayArrives, sendVars, gateVars, history
  <2> QED
    BY <2>1 DEF PeakInv, Behind
<1>7. ASSUME NEW t \in Txs, MineOwn(t) PROVE PeakInv'
  <2>1. UNCHANGED <<deepest, peak, returned, pc, sample, prev>>
    BY <1>7, Zenon DEF MineOwn, sendVars, history
  <2> QED
    BY <2>1 DEF PeakInv, Behind
<1>8. CASE UNCHANGED vars
  BY <1>8 DEF vars, sendVars, gateVars, history, PeakInv, Behind
<1> QED
  BY <1>1, <1>2, <1>3, <1>4, <1>5, <1>6, <1>7, <1>8 DEF Next, Environment, Block

\* The inductive invariant behind PeakCorrect.
LEMMA PeakHolds == Spec => []PeakInv
<1>1. Init => PeakInv
  BY DEF Init, PeakInv
<1> QED
  BY <1>1, PeakStep, Types, PTL DEF Spec

\* MaxPending is the deepest pool any worker saw, and PoolUnknown is reported
\* exactly when none saw any, whatever the interleaving of the workers' loops.
THEOREM PeakCorrect == Spec => []PeakRecorded
<1>1. PeakInv /\ GateOK => PeakRecorded
  <2> SUFFICES ASSUME PeakInv, GateOK PROVE PeakRecorded
    OBVIOUS
  <2>1. returned => deepest = peak
    BY DEF PeakInv, Behind, GateOK
  <2>2. /\ Stats.MaxPending = AtLeast(deepest, 0)
        /\ Stats.PoolUnknown = (deepest < 0)
    BY DEF Stats
  <2>3. deepest < 0 <=> deepest = -1
    BY DEF GateOK
  <2> QED
    BY <2>1, <2>2, <2>3 DEF PeakInv, PeakRecorded, Behind
<1> QED
  BY <1>1, PeakHolds, Types, PTL

-----------------------------------------------------------------------------
(* What becomes of each request.  Those not yet taken or still in hand are *)
(* open, the others taken are finished.                                    *)

Holds(w) == pc[w] \notin {"take", "exit"}

Holding(q, i) == \E w \in Workers : Holds(w) /\ QueueOf(w) = q /\ cur[w] = i

Finished(q, i) == i \in 1..next[q] /\ ~Holding(q, i)

Open(q, i) == i > next[q] \/ Holding(q, i)

\* Nobody else has a worker's request, and a worker with a queue of its own
\* has the latest request taken from it.
HandInv ==
  /\ \A w \in Workers : Holds(w) => cur[w] \in 1..next[QueueOf(w)]
  /\ \A v, w \in Workers :
       Holds(v) /\ Holds(w) /\ QueueOf(v) = QueueOf(w) /\ cur[v] = cur[w] => v = w
  /\ InOrder => \A w \in Workers : Holds(w) => cur[w] = next[w]

\* No transaction is counted while its request is open, none is counted twice,
\* and a request that may still arrive was counted as failed.
CountInv ==
  /\ \A q \in DOMAIN Queue : \A i \in 1..Len(Queue[q]) :
       Open(q, i) => \A t \in Range(Queue[q][i]) : t \notin rejected /\ t \notin failed
  /\ \A t \in rejected : t \notin failed
  /\ \A c \in strays : \A t \in Range(c) : t \in failed

\* An answer tells where its transaction is.
Tells(t, answer) ==
  /\ t \in seen
  /\ Rejection(answer) => node[t] # "pooled"
  /\ ~Rejection(answer) => node[t] # "absent"

ReplyInv ==
  \A w \in Workers : reply[w] # NoReply =>
    /\ pc[w] = "post"
    /\ Len(reply[w]) = Len(InHand(w))
    /\ \A i \in 1..Len(InHand(w)) : Tells(InHand(w)[i], reply[w][i])

\* Nothing finished is lost: it reached the node or its request failed, and what
\* is not at the node is counted.  A worker of a canceled send drops a request,
\* but then exits.
Settled(t) ==
  /\ t \in seen \cup failed
  /\ node[t] = "absent" => t \in failed \cup rejected

Kept(q) == ~canceled \/ (InOrder /\ pc[q] # "exit")

DoneInv ==
  /\ \A q \in DOMAIN Queue : \A i \in 1..Len(Queue[q]) :
       Finished(q, i) /\ Kept(q) => \A t \in Range(Queue[q][i]) : Settled(t)
  /\ ~canceled => \A w \in Workers :
       pc[w] = "exit" => next[QueueOf(w)] = Len(Queue[QueueOf(w)])

\* No transaction that arrived, or may still arrive, is ahead of its account.
InTurn(t) == \A k \in 1..(t[2] - 1) : <<t[1], k>> \in seen \cup failed

OrderInv ==
  InOrder => /\ \A t \in seen : InTurn(t)
             /\ \A c \in strays : \A t \in Range(c) : InTurn(t)
\* A step that neither takes, delivers nor closes a request: the walk through
\* the gate, the end of a worker, a block.
Moves(w) ==
  \/ pc'[w] = pc[w]
  \/ pc[w] \notin {"take", "post", "exit"} /\ pc'[w] \notin {"take", "exit"}
  \/ pc[w] = "take" /\ pc'[w] = "exit" /\ next[QueueOf(w)] = Len(Queue[QueueOf(w)])
  \/ pc[w] = "pause" /\ pc'[w] = "exit" /\ canceled

Drifts ==
  /\ UNCHANGED <<next, failed, rejected, cur, reply, strays, seen>>
  /\ \A t \in Txs : node'[t] = node[t] \/ (node[t] = "pooled" /\ node'[t] = "mined")
  /\ \A w \in Workers : Moves(w)
  /\ canceled => canceled'

\* A worker's steps through the gate.
LEMMA GateDrifts ==
  ASSUME QueueOK, NEW w \in Workers, Gate(w)
  PROVE  Drifts
<1>1. /\ UNCHANGED <<next, failed, rejected, cur, reply, strays, seen, node, canceled>>
      /\ pc[w] \in {"gate", "load", "swap", "judge", "pause"}
      /\ \E l \in {"gate", "load", "swap", "judge", "pause", "post", "exit"} :
           pc' = [pc EXCEPT ![w] = l] /\ (l = "exit" => pc[w] = "pause" /\ canceled)
  <2> USE DEF sendVars, gateVars, postVars, nodeVars, Goto
  <2>1. CASE Sample(w)
    BY <2>1 DEF Sample
  <2>2. CASE SampleFails(w)
    BY <2>2 DEF SampleFails
  <2>3. CASE LoadDeepest(w)
    BY <2>3 DEF LoadDeepest
  <2>4. CASE SwapDeepest(w)
    BY <2>4 DEF SwapDeepest
  <2>5. CASE Pass(w)
    BY <2>5 DEF Pass
  <2>6. CASE NewLow(w)
    BY <2>6 DEF NewLow
  <2>7. CASE NoNewLow(w)
    BY <2>7 DEF NoNewLow
  <2>8. CASE Resume(w)
    BY <2>8 DEF Resume
  <2>9. CASE ResumeLater(w)
    BY <2>9 DEF ResumeLater
  <2>10. CASE PauseCanceled(w)
    BY <2>10 DEF PauseCanceled
  <2> QED
    BY <2>1, <2>2, <2>3, <2>4, <2>5, <2>6, <2>7, <2>8, <2>9, <2>10, Zenon DEF Gate
<1>2. \A v \in Workers : Moves(v)
  BY <1>1 DEF Moves, QueueOK
<1> QED
  BY <1>1, <1>2, Zenon DEF Drifts

\* The kinds of steps the fate of a request depends on.
LEMMA Kinds ==
  ASSUME QueueOK, NodeOK, [Next]_vars
  PROVE  \/ Drifts
         \/ StrayArrives
         \/ \E w \in Workers : Take(w) \/ Deliver(w) \/ Record(w) \/ RecordError(w)
<1> USE DEF sendVars, gateVars, postVars, nodeVars
<1>1. ASSUME NEW w \in Workers, QueueEmpty(w) PROVE Drifts
  <2>1. UNCHANGED <<next, failed, rejected, cur, reply, strays, seen, node, canceled>>
    BY <1>1, Zenon DEF QueueEmpty
  <2>2. /\ pc[w] = "take" /\ next[QueueOf(w)] = Len(Queue[QueueOf(w)])
        /\ pc' = [pc EXCEPT ![w] = "exit"]
    BY <1>1, Zenon DEF QueueEmpty, Goto
  <2>3. \A v \in Workers : Moves(v)
    BY <2>2 DEF Moves, QueueOK
  <2> QED
    BY <2>1, <2>3, Zenon DEF Drifts
<1>2. CASE Return
  BY <1>2, Zenon DEF Return, Drifts, Moves
<1>3. CASE Cancel
  BY <1>3, Zenon DEF Cancel, Drifts, Moves
<1>4. CASE MineForeign
  BY <1>4, Zenon DEF MineForeign, Drifts, Moves
<1>5. CASE ForeignArrives
  BY <1>5, Zenon DEF ForeignArrives, Drifts, Moves
<1>6. ASSUME NEW t \in Txs, MineOwn(t) PROVE Drifts
  <2>1. UNCHANGED <<next, failed, rejected, cur, reply, strays, seen, pc, canceled>>
    BY <1>6, Zenon DEF MineOwn
  <2>2. node[t] = "pooled" /\ node' = [node EXCEPT ![t] = "mined"]
    BY <1>6, Zenon DEF MineOwn
  <2>3. \A u \in Txs : node'[u] = node[u] \/ (node[u] = "pooled" /\ node'[u] = "mined")
    BY <2>2 DEF NodeOK
  <2> QED
    BY <2>1, <2>3, Zenon DEF Drifts, Moves
<1>7. CASE UNCHANGED vars
  BY <1>7, Zenon DEF vars, Drifts, Moves
<1>8. ASSUME NEW w \in Workers, Worker(w)
      PROVE  Drifts \/ Take(w) \/ Deliver(w) \/ Record(w) \/ RecordError(w)
  BY <1>1, <1>8, GateDrifts, Zenon DEF Worker
<1> QED
  BY <1>2, <1>3, <1>4, <1>5, <1>6, <1>7, <1>8, Zenon DEF Next, Environment, Block

\* What taking a request changes.
LEMMA TakeFacts ==
  ASSUME NEW w \in Workers, Take(w)
  PROVE  /\ pc[w] = "take" /\ next[QueueOf(w)] < Len(Queue[QueueOf(w)])
         /\ next' = [next EXCEPT ![QueueOf(w)] = @ + 1]
         /\ UNCHANGED <<failed, rejected, reply, node, strays, seen, canceled>>
         /\ \/ canceled /\ pc' = [pc EXCEPT ![w] = "exit"] /\ cur' = cur
            \/ /\ ~canceled
               /\ cur' = [cur EXCEPT ![w] = next[QueueOf(w)] + 1]
               /\ \E l \in {"gate", "post"} : pc' = [pc EXCEPT ![w] = l]
<1>1. CASE canceled
  BY <1>1, Zenon DEF Take, Goto, postVars, nodeVars
<1>2. CASE ~canceled
  BY <1>2 DEF Take, Goto, postVars, nodeVars
<1> QED
  BY <1>1, <1>2

\* A worker is done with its request.
Closes(w) == Record(w) \/ RecordError(w)

\* What closing a request changes.
LEMMA CloseFacts ==
  ASSUME NEW w \in Workers, Closes(w)
  PROVE  /\ pc[w] = "post"
         /\ pc' = [pc EXCEPT ![w] = "take"]
         /\ cur' = [cur EXCEPT ![w] = 0]
         /\ reply' = [reply EXCEPT ![w] = NoReply]
         /\ UNCHANGED <<next, node, seen, canceled>>
         /\ failed \subseteq failed' /\ rejected \subseteq rejected'
<1>1. CASE Record(w)
  <2>1. /\ pc[w] = "post" /\ NextRequest(w)
        /\ UNCHANGED <<next, node, seen, canceled>>
    BY <1>1, Zenon DEF Record, nodeVars
  <2>2. failed \subseteq failed' /\ rejected \subseteq rejected'
    BY <1>1 DEF Record
  <2> QED
    BY <2>1, <2>2, Zenon DEF NextRequest, Goto
<1>2. CASE RecordError(w)
  <2>1. /\ pc[w] = "post" /\ NextRequest(w) /\ rejected' = rejected
        /\ UNCHANGED <<next, node, seen, canceled>>
    BY <1>2, Zenon DEF RecordError
  <2>2. failed \subseteq failed'
    BY <1>2 DEF RecordError
  <2> QED
    BY <2>1, <2>2, Zenon DEF NextRequest, Goto
<1> QED
  BY <1>1, <1>2, Zenon DEF Closes

\* What an execution of a request changes.
LEMMA ExecutesFacts ==
  ASSUME NodeOK, NEW chunk, NEW admitted, Executes(chunk, admitted)
  PROVE  /\ \A t \in admitted : t \in Range(chunk) /\ node[t] = "absent"
         /\ \A t \in Txs : node'[t] = IF t \in admitted THEN "pooled" ELSE node[t]
         /\ seen' = seen \cup Range(chunk)
<1>1. /\ admitted \subseteq {t \in Range(chunk) : node[t] = "absent"}
      /\ node' = [t \in Txs |-> IF t \in admitted THEN "pooled" ELSE node[t]]
      /\ seen' = seen \cup Range(chunk)
  BY Zenon DEF Executes
<1> QED
  BY <1>1

\* What a delivery changes: the node executes the request in hand and answers.
LEMMA DeliverFacts ==
  ASSUME NEW w \in Workers, Deliver(w)
  PROVE  /\ pc[w] = "post"
         /\ UNCHANGED <<next, failed, rejected, canceled, pc, cur, strays>>
         /\ \E admitted : /\ Executes(InHand(w), admitted)
                          /\ reply' = [reply EXCEPT ![w] =
                               [i \in 1..Len(InHand(w)) |-> Outcome(InHand(w)[i], admitted)]]
  BY Zenon DEF Deliver, sendVars

\* What the late arrival of a request changes.
LEMMA StrayFacts ==
  ASSUME StrayArrives
  PROVE  /\ UNCHANGED <<next, failed, rejected, canceled, pc, cur, reply>>
         /\ \E chunk \in strays :
              /\ strays' = strays \ {chunk}
              /\ \E admitted : Executes(chunk, admitted)
  BY Zenon DEF StrayArrives, sendVars, postVars

\* Nothing counted or sent is forgotten, and no transaction leaves the node.
LEMMA Forward ==
  ASSUME QueueOK, NodeOK, [Next]_vars
  PROVE  /\ seen \subseteq seen' /\ failed \subseteq failed' /\ rejected \subseteq rejected'
         /\ canceled => canceled'
         /\ \A t \in Txs : node[t] # "absent" => node'[t] # "absent"
<1>1. CASE Drifts
  BY <1>1 DEF Drifts
<1>2. CASE StrayArrives
  <2>1. PICK chunk, admitted : Executes(chunk, admitted)
    BY <1>2, StrayFacts, Zenon
  <2>2. /\ \A t \in Txs : node'[t] = IF t \in admitted THEN "pooled" ELSE node[t]
        /\ seen' = seen \cup Range(chunk)
    BY <2>1, ExecutesFacts, Zenon
  <2> QED
    BY <1>2, <2>2, StrayFacts
<1>3. ASSUME NEW w \in Workers, Take(w)
      PROVE UNCHANGED <<failed, rejected, node, seen, canceled>>
  BY <1>3, TakeFacts, Zenon
<1>4. ASSUME NEW w \in Workers, Deliver(w)
      PROVE  /\ UNCHANGED <<failed, rejected, canceled>>
             /\ seen \subseteq seen'
             /\ \A t \in Txs : node[t] # "absent" => node'[t] # "absent"
  <2>1. PICK admitted : Executes(InHand(w), admitted)
    BY <1>4, DeliverFacts, Zenon
  <2>2. /\ \A t \in Txs : node'[t] = IF t \in admitted THEN "pooled" ELSE node[t]
        /\ seen' = seen \cup Range(InHand(w))
    BY <2>1, ExecutesFacts, Zenon
  <2>3. UNCHANGED <<failed, rejected, canceled>>
    BY <1>4, DeliverFacts, Zenon
  <2> QED
    BY <2>2, <2>3
<1>5. ASSUME NEW w \in Workers, Closes(w)
      PROVE  /\ failed \subseteq failed' /\ rejected \subseteq rejected'
             /\ UNCHANGED <<node, seen, canceled>>
  BY <1>5, CloseFacts, Zenon
<1> QED
  <2>1. CASE Drifts \/ StrayArrives
    BY <1>1, <1>2, <2>1, Zenon
  <2>2. ASSUME NEW w \in Workers, Take(w) \/ Deliver(w) \/ Closes(w)
        PROVE  /\ seen \subseteq seen' /\ failed \subseteq failed' /\ rejected \subseteq rejected'
               /\ canceled => canceled'
               /\ \A t \in Txs : node[t] # "absent" => node'[t] # "absent"
    BY <1>3, <1>4, <1>5, <2>2
  <2> QED
    BY <2>1, <2>2, Kinds, Zenon DEF Closes

\* A worker with a queue of its own is that queue.
LEMMA OwnQueue == InOrder => \A w \in Workers : QueueOf(w) = w
  BY DEF QueueOf

\* Every step leaves each request with one worker at most.
LEMMA HandStep == HandInv /\ QueueOK /\ NodeOK /\ [Next]_vars => HandInv'
<1> SUFFICES ASSUME HandInv, QueueOK, NodeOK, [Next]_vars PROVE HandInv'
  OBVIOUS
<1>1. CASE Drifts
  <2>1. UNCHANGED <<next, cur>>
    BY <1>1, Zenon DEF Drifts
  <2>2. \A w \in Workers : Holds(w)' => Holds(w)
    BY <1>1 DEF Drifts, Moves, Holds
  <2> QED
    BY <2>1, <2>2, Zenon DEF HandInv
<1>2. CASE UNCHANGED <<next, cur, pc>>
  BY <1>2 DEF HandInv, Holds
<1>3. ASSUME NEW w \in Workers, Take(w) PROVE HandInv'
  <2> DEFINE q == QueueOf(w)
  <2>1. /\ q \in DOMAIN Queue /\ next' = [next EXCEPT ![q] = next[q] + 1]
        /\ pc[w] = "take"
    BY <1>3, TakeFacts, WorkerQueue
  <2>2. next'[q] = next[q] + 1 /\ next[q] \in Nat /\ \A r \in DOMAIN Queue : r # q => next'[r] = next[r]
    BY <2>1 DEF QueueOK
  <2>3. \A v \in Workers : v # w => pc'[v] = pc[v] /\ cur'[v] = cur[v]
    BY <1>3, TakeFacts DEF QueueOK
  <2>4. Holds(w)' => cur'[w] = next[q] + 1
    BY <1>3, TakeFacts DEF QueueOK, Holds
  <2>5. ASSUME NEW v \in Workers, Holds(v)', v # w
        PROVE  /\ Holds(v) /\ cur'[v] \in 1..next[QueueOf(v)]
               /\ next[QueueOf(v)] \in Nat /\ cur'[v] \in 1..next'[QueueOf(v)]
    <3>1. Holds(v) /\ cur'[v] = cur[v]
      BY <2>3, <2>5 DEF Holds
    <3>2. cur[v] \in 1..next[QueueOf(v)] /\ QueueOf(v) \in DOMAIN Queue
      BY <3>1, WorkerQueue DEF HandInv
    <3>3. next[QueueOf(v)] \in Nat
      BY <3>2 DEF QueueOK
    <3> QED
      BY <2>2, <3>1, <3>2, <3>3
  <2> HIDE DEF q
  <2>6. \A v \in Workers : Holds(v)' => cur'[v] \in 1..next'[QueueOf(v)]
    <3>1. Holds(w)' => cur'[w] \in 1..next'[q]
      BY <2>2, <2>4
    <3> QED
      BY <2>5, <3>1 DEF q
  <2>7. ASSUME NEW u \in Workers, NEW v \in Workers, Holds(u)', Holds(v)',
               QueueOf(u) = QueueOf(v), cur'[u] = cur'[v], u # v
        PROVE  FALSE
    <3>1. CASE u = w
      <4>1. cur'[v] \in 1..next[q] /\ cur'[u] = next[q] + 1
        BY <2>4, <2>5, <2>7, <3>1 DEF q
      <4> QED
        BY <2>2, <2>7, <4>1
    <3>2. CASE v = w
      <4>1. cur'[u] \in 1..next[q] /\ cur'[v] = next[q] + 1
        BY <2>4, <2>5, <2>7, <3>2 DEF q
      <4> QED
        BY <2>2, <2>7, <4>1
    <3>3. CASE u # w /\ v # w
      BY <2>3, <2>5, <2>7, <3>3 DEF HandInv
    <3> QED
      BY <3>1, <3>2, <3>3
  <2>8. ASSUME InOrder, NEW v \in Workers, Holds(v)' PROVE cur'[v] = next'[v]
    <3>1. q = w /\ QueueOf(v) = v
      BY <2>8, OwnQueue DEF q
    <3>2. CASE v = w
      BY <2>2, <2>4, <2>8, <3>1, <3>2
    <3>3. CASE v # w
      <4>1. Holds(v) /\ cur[v] = next[v] /\ cur'[v] = cur[v]
        BY <2>3, <2>5, <2>8, <3>3 DEF HandInv
      <4>2. next'[v] = next[v]
        BY <2>2, <3>1, <3>3, WorkerQueue
      <4> QED
        BY <4>1, <4>2
    <3> QED
      BY <3>2, <3>3
  <2> QED
    BY <2>6, <2>7, <2>8 DEF HandInv
<1>4. ASSUME NEW w \in Workers, Closes(w) PROVE HandInv'
  <2>1. \A v \in Workers : Holds(v)' => v # w /\ Holds(v) /\ cur'[v] = cur[v]
    BY <1>4, CloseFacts DEF QueueOK, Holds
  <2>2. next' = next
    BY <1>4, CloseFacts
  <2> QED
    BY <2>1, <2>2 DEF HandInv
<1> QED
  <2>1. ASSUME NEW w \in Workers, Deliver(w) PROVE UNCHANGED <<next, cur, pc>>
    BY <2>1, DeliverFacts, Zenon
  <2>2. StrayArrives => UNCHANGED <<next, cur, pc>>
    BY StrayFacts, Zenon
  <2> QED
    BY <1>1, <1>2, <1>3, <1>4, <2>1, <2>2, Kinds, Zenon DEF Closes

\* The request a worker holds is open, and its transactions are not counted yet.
LEMMA HeldOpen ==
  ASSUME QueueOK, HandInv, NEW w \in Workers, Holds(w)
  PROVE  /\ QueueOf(w) \in DOMAIN Queue
         /\ cur[w] \in 1..Len(Queue[QueueOf(w)])
         /\ Open(QueueOf(w), cur[w])
<1>1. QueueOf(w) \in DOMAIN Queue /\ Len(Queue[QueueOf(w)]) \in Nat
  BY WorkerQueue
<1>2. next[QueueOf(w)] \in Nat /\ next[QueueOf(w)] <= Len(Queue[QueueOf(w)])
  BY <1>1 DEF QueueOK
<1>3. cur[w] \in 1..next[QueueOf(w)]
  BY DEF HandInv
<1> QED
  BY <1>1, <1>2, <1>3 DEF Open, Holding

\* A transaction in hand is not counted, as failed or as rejected.
LEMMA InHandFresh ==
  ASSUME QueueOK, HandInv, CountInv, NEW w \in Workers, Holds(w), NEW t \in Range(InHand(w))
  PROVE  t \in Txs /\ t \notin rejected /\ t \notin failed
<1>1. /\ QueueOf(w) \in DOMAIN Queue
      /\ cur[w] \in 1..Len(Queue[QueueOf(w)])
      /\ Open(QueueOf(w), cur[w])
  BY HeldOpen
<1>2. t \in Range(Queue[QueueOf(w)][cur[w]])
  BY DEF InHand
<1>3. t \in Txs
  BY <1>1, <1>2, RequestsAre
<1> QED
  BY <1>1, <1>2, <1>3 DEF CountInv

\* Two workers never hold the same transaction.
LEMMA InHandApart ==
  ASSUME QueueOK, HandInv, NEW v \in Workers, NEW w \in Workers, v # w, Holds(v), Holds(w),
         NEW t \in Range(InHand(v))
  PROVE  t \notin Range(InHand(w))
<1>1. /\ QueueOf(w) \in DOMAIN Queue /\ cur[w] \in 1..Len(Queue[QueueOf(w)])
      /\ QueueOf(v) \in DOMAIN Queue /\ cur[v] \in 1..Len(Queue[QueueOf(v)])
  BY HeldOpen
<1>2. ~(QueueOf(v) = QueueOf(w) /\ cur[v] = cur[w])
  BY DEF HandInv
<1>3. SUFFICES ASSUME t \in Range(InHand(w)) PROVE FALSE
  OBVIOUS
<1>4. t \in Range(Queue[QueueOf(v)][cur[v]]) /\ t \in Range(Queue[QueueOf(w)][cur[w]])
  BY <1>3 DEF InHand
<1> QED
  BY <1>1, <1>2, <1>4, RequestsAre

\* A request stays closed, and is finished by the worker that closes it or by
\* one that drops it and exits.
LEMMA Ledger ==
  ASSUME HandInv, QueueOK, NodeOK, [Next]_vars,
         NEW q \in DOMAIN Queue, NEW i \in 1..Len(Queue[q])
  PROVE  /\ Open(q, i)' => Open(q, i)
         /\ Finished(q, i)' =>
              \/ Finished(q, i)
              \/ canceled' /\ \E w \in Workers : QueueOf(w) = q /\ pc'[w] = "exit"
              \/ \E w \in Workers : Closes(w) /\ QueueOf(w) = q /\ cur[w] = i
<1>0. Len(Queue[q]) \in Nat /\ i \in Nat /\ next[q] \in Nat
  BY RequestsAre DEF QueueOK
<1>1. CASE Drifts
  <2>1. UNCHANGED <<next, cur>> /\ (canceled => canceled') /\ \A w \in Workers : Moves(w)
    BY <1>1, Zenon DEF Drifts
  <2>2. Open(q, i)' => Open(q, i)
    BY <2>1 DEF Open, Holding, Holds, Moves
  <2>3. ASSUME Finished(q, i)', Holding(q, i)
        PROVE  canceled' /\ \E w \in Workers : QueueOf(w) = q /\ pc'[w] = "exit"
    <3>1. PICK w \in Workers : Holds(w) /\ QueueOf(w) = q /\ cur[w] = i
      BY <2>3 DEF Holding
    <3>2. ~Holds(w)' /\ Moves(w)
      BY <2>1, <2>3, <3>1 DEF Finished, Holding
    <3> QED
      BY <2>1, <3>1, <3>2 DEF Holds, Moves
  <2>4. Finished(q, i)' => i \in 1..next[q]
    BY <2>1 DEF Finished
  <2> QED
    BY <2>2, <2>3, <2>4 DEF Finished
<1>2. CASE UNCHANGED <<next, cur, pc>>
  <2>1. Open(q, i)' = Open(q, i) /\ Finished(q, i)' = Finished(q, i)
    BY <1>2 DEF Open, Finished, Holding, Holds
  <2> QED
    BY <2>1
<1>3. ASSUME NEW w \in Workers, Take(w)
      PROVE  /\ Open(q, i)' => Open(q, i)
             /\ Finished(q, i)' =>
                  \/ Finished(q, i)
                  \/ canceled' /\ QueueOf(w) = q /\ pc'[w] = "exit"
  <2>1. /\ next' = [next EXCEPT ![QueueOf(w)] = next[QueueOf(w)] + 1]
        /\ pc[w] = "take" /\ QueueOf(w) \in DOMAIN Queue
    BY <1>3, TakeFacts, WorkerQueue
  <2>2. next'[q] = IF q = QueueOf(w) THEN next[q] + 1 ELSE next[q]
    BY <2>1 DEF QueueOK
  <2>3. \A v \in Workers : v # w => pc'[v] = pc[v] /\ cur'[v] = cur[v]
    BY <1>3, TakeFacts DEF QueueOK
  <2>4. Holding(q, i) => Holding(q, i)'
    <3>1. \A v \in Workers : Holds(v) => v # w
      BY <2>1 DEF Holds
    <3>2. \A v \in Workers : Holds(v) => Holds(v)' /\ cur'[v] = cur[v]
      BY <2>3, <3>1 DEF Holds
    <3> QED
      BY <3>2 DEF Holding
  <2>5. CASE canceled
    <3>1. pc'[w] = "exit" /\ canceled'
      BY <1>3, <2>5, TakeFacts DEF QueueOK
    <3>2. Holding(q, i)' => Holding(q, i)
      BY <2>3, <3>1 DEF Holding, Holds
    <3> QED
      BY <1>0, <2>2, <2>4, <3>1, <3>2 DEF Open, Finished
  <2>6. CASE ~canceled
    <3>1. pc'[w] \in {"gate", "post"} /\ cur'[w] = next[QueueOf(w)] + 1
      BY <1>3, <2>6, TakeFacts DEF QueueOK
    <3>2. Holding(q, i)' => Holding(q, i) \/ i = next[q] + 1
      BY <2>3, <3>1 DEF Holding, Holds
    <3>3. QueueOf(w) = q /\ i = next[q] + 1 => Holding(q, i)'
      BY <3>1 DEF Holding, Holds
    <3> QED
      BY <1>0, <2>2, <2>4, <3>2, <3>3 DEF Open, Finished
  <2> QED
    BY <2>5, <2>6
<1>4. ASSUME NEW w \in Workers, Closes(w)
      PROVE  /\ Open(q, i)' => Open(q, i)
             /\ Finished(q, i)' => Finished(q, i) \/ (QueueOf(w) = q /\ cur[w] = i)
  <2>1. next' = next
    BY <1>4, CloseFacts
  <2>2. \A v \in Workers : Holds(v)' => v # w /\ Holds(v) /\ cur'[v] = cur[v]
    BY <1>4, CloseFacts DEF QueueOK, Holds
  <2>3. \A v \in Workers : Holds(v) => v = w \/ (Holds(v)' /\ cur'[v] = cur[v])
    BY <1>4, CloseFacts DEF QueueOK, Holds
  <2>4. Holding(q, i)' => Holding(q, i)
    BY <2>2 DEF Holding
  <2>5. Holding(q, i) => Holding(q, i)' \/ (QueueOf(w) = q /\ cur[w] = i)
    BY <2>3 DEF Holding
  <2> QED
    BY <2>1, <2>4, <2>5 DEF Open, Finished
<1> QED
  <2>1. ASSUME NEW w \in Workers, Deliver(w) PROVE UNCHANGED <<next, cur, pc>>
    BY <2>1, DeliverFacts, Zenon
  <2>2. StrayArrives => UNCHANGED <<next, cur, pc>>
    BY StrayFacts, Zenon
  <2> QED
    BY <1>1, <1>2, <1>3, <1>4, <2>1, <2>2, Kinds, Zenon DEF Closes

\* The request a worker closes is not open any more.
LEMMA Closed ==
  ASSUME HandInv, QueueOK, NEW w \in Workers, Closes(w), NEW q, NEW i,
         q = QueueOf(w), i = cur[w]
  PROVE  ~Open(q, i)'
<1>1. Holds(w) /\ next' = next
  BY CloseFacts DEF Holds
<1>2. i \in 1..next[q]
  BY <1>1 DEF HandInv
<1>3. \A v \in Workers : Holds(v)' => v # w /\ Holds(v) /\ cur'[v] = cur[v]
  BY CloseFacts DEF QueueOK, Holds
<1>4. ~Holding(q, i)'
  BY <1>1, <1>3 DEF HandInv, Holding
<1>5. next[q] \in Nat
  BY WorkerQueue DEF QueueOK
<1> QED
  BY <1>1, <1>2, <1>4, <1>5 DEF Open

\* Closing a request counts its transactions, as failed or as rejected.
LEMMA CloseCounts ==
  ASSUME QueueOK, NEW w \in Workers, Closes(w)
  PROVE  /\ failed' \subseteq failed \cup Range(InHand(w))
         /\ rejected' \subseteq rejected \cup Range(InHand(w))
         /\ rejected' = rejected \/ failed' = failed
         /\ \/ strays' = strays
            \/ /\ strays' \subseteq strays \cup {InHand(w)}
               /\ failed' = failed \cup Range(InHand(w))
<1>1. InHand(w) \in Seq(Txs)
  BY CloseFacts, InHandType
<1>2. CASE Record(w)
  <2>1. strays' = strays
    BY <1>2, Zenon DEF Record, nodeVars
  <2>2. CASE Len(InHand(w)) = 1
    BY <1>2, <2>1, <2>2 DEF Record
  <2>3. CASE Len(InHand(w)) # 1
    <3>1. /\ rejected' = rejected \cup
                {InHand(w)[i] : i \in {j \in 1..Len(InHand(w)) : Rejection(reply[w][j])}}
          /\ failed' = failed
      BY <1>2, <2>3, Zenon DEF Record
    <3>2. {InHand(w)[i] : i \in {j \in 1..Len(InHand(w)) : Rejection(reply[w][j])}}
            \subseteq Range(InHand(w))
      BY <1>1 DEF Range
    <3> QED
      BY <2>1, <3>1, <3>2
  <2> QED
    BY <2>2, <2>3
<1>3. CASE RecordError(w)
  BY <1>3 DEF RecordError
<1> QED
  BY <1>2, <1>3 DEF Closes

\* Every step counts a transaction once at most.
LEMMA CountStep == CountInv /\ HandInv /\ QueueOK /\ NodeOK /\ [Next]_vars => CountInv'
<1> SUFFICES ASSUME CountInv, HandInv, QueueOK, NodeOK, [Next]_vars PROVE CountInv'
  OBVIOUS
<1>1. CASE UNCHANGED <<failed, rejected>> /\ strays' \subseteq strays
  <2>1. ASSUME NEW q \in DOMAIN Queue, NEW i \in 1..Len(Queue[q]), Open(q, i)',
               NEW t \in Range(Queue[q][i])
        PROVE  t \notin rejected' /\ t \notin failed'
    <3>1. Open(q, i)
      BY <2>1, Ledger, Zenon
    <3> QED
      BY <1>1, <3>1 DEF CountInv
  <2>2. \A t \in rejected' : t \notin failed'
    BY <1>1 DEF CountInv
  <2>3. \A c \in strays' : \A t \in Range(c) : t \in failed'
    BY <1>1 DEF CountInv
  <2> QED
    BY <2>1, <2>2, <2>3, Zenon DEF CountInv
<1>2. ASSUME NEW w \in Workers, Closes(w) PROVE CountInv'
  <2>1. /\ failed' \subseteq failed \cup Range(InHand(w))
        /\ rejected' \subseteq rejected \cup Range(InHand(w))
        /\ rejected' = rejected \/ failed' = failed
        /\ \/ strays' = strays
           \/ /\ strays' \subseteq strays \cup {InHand(w)}
              /\ failed' = failed \cup Range(InHand(w))
        /\ failed \subseteq failed'
    BY <1>2, CloseCounts, CloseFacts, Zenon
  <2>2. Holds(w)
    BY <1>2, CloseFacts DEF Holds
  <2>3. \A t \in Range(InHand(w)) : t \notin rejected /\ t \notin failed
    BY <2>2, InHandFresh
  <2>4. ASSUME NEW q \in DOMAIN Queue, NEW i \in 1..Len(Queue[q]), Open(q, i)',
               NEW t \in Range(Queue[q][i])
        PROVE  t \notin rejected' /\ t \notin failed'
    <3>1. Open(q, i)
      BY <2>4, Ledger, Zenon
    <3>2. ~(q = QueueOf(w) /\ i = cur[w])
      BY <1>2, <2>4, Closed
    <3>3. QueueOf(w) \in DOMAIN Queue /\ cur[w] \in 1..Len(Queue[QueueOf(w)])
      BY <2>2, HeldOpen
    <3>4. t \notin Range(InHand(w))
      BY <3>2, <3>3, RequestsAre DEF InHand
    <3>5. t \notin rejected /\ t \notin failed
      BY <3>1 DEF CountInv
    <3> QED
      BY <2>1, <3>4, <3>5
  <2>5. \A t \in rejected' : t \notin failed'
    BY <2>1, <2>3 DEF CountInv
  <2>6. \A c \in strays' : \A t \in Range(c) : t \in failed'
    BY <2>1 DEF CountInv
  <2> QED
    BY <2>4, <2>5, <2>6, Zenon DEF CountInv
<1> QED
  <2>1. ASSUME NEW w \in Workers, Take(w) PROVE UNCHANGED <<failed, rejected>> /\ strays' \subseteq strays
    BY <2>1, TakeFacts
  <2>2. ASSUME NEW w \in Workers, Deliver(w) PROVE UNCHANGED <<failed, rejected>> /\ strays' \subseteq strays
    BY <2>2, DeliverFacts
  <2>3. ASSUME StrayArrives PROVE UNCHANGED <<failed, rejected>> /\ strays' \subseteq strays
    BY <2>3, StrayFacts
  <2>4. ASSUME Drifts PROVE UNCHANGED <<failed, rejected>> /\ strays' \subseteq strays
    BY <2>4 DEF Drifts
  <2> QED
    BY <1>1, <1>2, <2>1, <2>2, <2>3, <2>4, Kinds, Zenon DEF Closes


\* Every step leaves the answers true that a worker has not recorded yet: no
\* other worker, and no late request, touches what it has in hand.
LEMMA ReplyStep ==
  ReplyInv /\ CountInv /\ HandInv /\ QueueOK /\ NodeOK /\ [Next]_vars => ReplyInv'
<1> SUFFICES ASSUME ReplyInv, CountInv, HandInv, QueueOK, NodeOK, [Next]_vars PROVE ReplyInv'
  OBVIOUS
<1>0. ASSUME NEW w \in Workers, reply[w] # NoReply
      PROVE  /\ pc[w] = "post" /\ Holds(w)
             /\ \A i \in 1..Len(InHand(w)) :
                  InHand(w)[i] \in Range(InHand(w)) /\ InHand(w)[i] \in Txs
  <2>1. pc[w] = "post"
    BY <1>0 DEF ReplyInv
  <2> QED
    BY <2>1, InHandType DEF Holds, Range
\* A worker with a reply keeps it when its place and its transactions' stay.
<1>1. ASSUME NEW w \in Workers, reply'[w] = reply[w],
             reply[w] # NoReply => pc'[w] = "post" /\ cur'[w] = cur[w],
             reply[w] # NoReply => \A t \in Range(InHand(w)) : t \in Txs /\ t \in seen =>
               t \in seen' /\ (node'[t] = node[t] \/ (node[t] = "pooled" /\ node'[t] = "mined"))
      PROVE  reply'[w] # NoReply =>
               /\ pc'[w] = "post"
               /\ Len(reply'[w]) = Len(InHand(w)')
               /\ \A i \in 1..Len(InHand(w)') : Tells(InHand(w)[i], reply[w][i])'
  <2>1. SUFFICES ASSUME reply[w] # NoReply
                 PROVE  /\ pc'[w] = "post"
                        /\ Len(reply'[w]) = Len(InHand(w)')
                        /\ \A i \in 1..Len(InHand(w)') : Tells(InHand(w)[i], reply[w][i])'
    BY <1>1, Zenon
  <2>2. InHand(w)' = InHand(w) /\ pc'[w] = "post"
    BY <1>1, <2>1 DEF InHand
  <2>3. Len(reply[w]) = Len(InHand(w))
    BY <2>1 DEF ReplyInv
  <2>4. ASSUME NEW i \in 1..Len(InHand(w)) PROVE Tells(InHand(w)[i], reply[w][i])'
    <3>1. Tells(InHand(w)[i], reply[w][i])
      BY <2>1 DEF ReplyInv
    <3>2. /\ InHand(w)[i] \in Range(InHand(w)) /\ InHand(w)[i] \in Txs
          /\ InHand(w)[i] \in seen
      BY <1>0, <2>1, <3>1 DEF Tells
    <3>3. /\ InHand(w)[i] \in seen'
          /\ \/ node'[InHand(w)[i]] = node[InHand(w)[i]]
             \/ node[InHand(w)[i]] = "pooled" /\ node'[InHand(w)[i]] = "mined"
      BY <1>1, <2>1, <3>2
    <3>4. InHand(w)'[i] = InHand(w)[i] /\ reply'[w][i] = reply[w][i]
      BY <1>1, <2>2
    <3>5. /\ Rejection(reply[w][i]) => node'[InHand(w)[i]] # "pooled"
          /\ ~Rejection(reply[w][i]) => node'[InHand(w)[i]] # "absent"
      BY <3>1, <3>3 DEF Tells
    <3> QED
      BY <3>3, <3>4, <3>5 DEF Tells
  <2> QED
    BY <1>1, <2>2, <2>3, <2>4, Zenon
<1>2. ASSUME \A w \in Workers :
               reply'[w] # NoReply =>
                 /\ pc'[w] = "post"
                 /\ Len(reply'[w]) = Len(InHand(w)')
                 /\ \A i \in 1..Len(InHand(w)') : Tells(InHand(w)[i], reply[w][i])'
      PROVE  ReplyInv'
  BY <1>2, Zenon DEF ReplyInv
<1>3. CASE Drifts
  <2>1. ASSUME NEW w \in Workers
        PROVE  /\ reply'[w] = reply[w]
               /\ reply[w] # NoReply => pc'[w] = "post" /\ cur'[w] = cur[w]
               /\ \A t \in Range(InHand(w)) : t \in Txs /\ t \in seen =>
                    t \in seen' /\ (node'[t] = node[t] \/ (node[t] = "pooled" /\ node'[t] = "mined"))
    BY <1>0, <1>3 DEF Drifts, Moves
  <2> QED
    BY <1>1, <1>2, <2>1, Zenon
<1>4. CASE StrayArrives
  <2>1. PICK chunk \in strays : \E admitted : Executes(chunk, admitted)
    BY <1>4, StrayFacts, Zenon
  <2>2. PICK admitted : Executes(chunk, admitted)
    BY <2>1, Zenon
  <2>3. \A t \in admitted : t \in failed
    BY <2>1, <2>2, ExecutesFacts DEF CountInv
  <2>4. UNCHANGED <<reply, pc, cur>> /\ seen \subseteq seen'
    BY <1>4, StrayFacts, Forward, Zenon
  <2>5. ASSUME NEW w \in Workers, reply[w] # NoReply, NEW t \in Range(InHand(w)), t \in Txs
        PROVE  node'[t] = node[t]
    <3>1. t \notin failed
      BY <1>0, <2>5, InHandFresh
    <3> QED
      BY <2>2, <2>3, <2>5, <3>1, ExecutesFacts
  <2>6. ASSUME NEW w \in Workers
        PROVE  /\ reply'[w] = reply[w]
               /\ reply[w] # NoReply => pc'[w] = "post" /\ cur'[w] = cur[w]
               /\ reply[w] # NoReply => \A t \in Range(InHand(w)) : t \in Txs /\ t \in seen =>
                    t \in seen' /\ (node'[t] = node[t] \/ (node[t] = "pooled" /\ node'[t] = "mined"))
    BY <1>0, <2>4, <2>5
  <2> QED
    BY <1>1, <1>2, <2>6, Zenon
<1>5. ASSUME NEW v \in Workers, Take(v) PROVE ReplyInv'
  <2>1. UNCHANGED <<reply, node, seen>> /\ pc[v] = "take"
    BY <1>5, TakeFacts, Zenon
  <2>2. \A w \in Workers : w # v => pc'[w] = pc[w] /\ cur'[w] = cur[w]
    BY <1>5, TakeFacts DEF QueueOK
  <2>3. ASSUME NEW w \in Workers
        PROVE  /\ reply'[w] = reply[w]
               /\ reply[w] # NoReply => pc'[w] = "post" /\ cur'[w] = cur[w]
               /\ reply[w] # NoReply => \A t \in Range(InHand(w)) : t \in Txs /\ t \in seen =>
                    t \in seen' /\ (node'[t] = node[t] \/ (node[t] = "pooled" /\ node'[t] = "mined"))
    BY <1>0, <2>1, <2>2
  <2> QED
    BY <1>1, <1>2, <2>3, Zenon
<1>6. ASSUME NEW v \in Workers, Deliver(v) PROVE ReplyInv'
  <2>1. PICK admitted : /\ Executes(InHand(v), admitted)
                        /\ reply' = [reply EXCEPT ![v] =
                             [i \in 1..Len(InHand(v)) |-> Outcome(InHand(v)[i], admitted)]]
    BY <1>6, DeliverFacts, Zenon
  <2>2. pc[v] = "post" /\ Holds(v) /\ UNCHANGED <<pc, cur>> /\ seen \subseteq seen'
    BY <1>6, DeliverFacts, Forward DEF Holds
  <2>3. InHand(v) \in Seq(Txs) /\ InHand(v)' = InHand(v)
    BY <2>2, InHandType DEF InHand
  <2>4. reply'[v] = [i \in 1..Len(InHand(v)) |-> Outcome(InHand(v)[i], admitted)]
    BY <2>1 DEF NodeOK
  <2>5. ASSUME NEW i \in 1..Len(InHand(v)') PROVE Tells(InHand(v)[i], reply[v][i])'
    <3>1. InHand(v)[i] \in Range(InHand(v)) /\ InHand(v)[i] \in Txs
      BY <2>3 DEF Range
    <3>2. Tells(InHand(v)[i], Outcome(InHand(v)[i], admitted))'
            <=> /\ InHand(v)[i] \in seen'
                /\ Rejection(Outcome(InHand(v)[i], admitted)') => node'[InHand(v)[i]] # "pooled"
                /\ ~Rejection(Outcome(InHand(v)[i], admitted)') => node'[InHand(v)[i]] # "absent"
      BY <2>3 DEF Tells
    <3>3. /\ node'[InHand(v)[i]] = IF InHand(v)[i] \in admitted THEN "pooled" ELSE node[InHand(v)[i]]
          /\ InHand(v)[i] \in admitted => node[InHand(v)[i]] = "absent"
          /\ InHand(v)[i] \in seen'
      BY <2>1, <3>1, ExecutesFacts
    <3>4. node[InHand(v)[i]] \in {"absent", "pooled", "mined"}
      BY <3>1 DEF NodeOK
    <3>5. InHand(v)'[i] = InHand(v)[i] /\ reply'[v][i] = Outcome(InHand(v)[i], admitted)
      BY <2>3, <2>4
    <3>6. /\ Rejection(Outcome(InHand(v)[i], admitted)) => node'[InHand(v)[i]] # "pooled"
          /\ ~Rejection(Outcome(InHand(v)[i], admitted)) => node'[InHand(v)[i]] # "absent"
      BY <3>3, <3>4 DEF Outcome, Rejection
    <3> QED
      BY <3>3, <3>5, <3>6 DEF Tells
  <2>6. Len(reply'[v]) = Len(InHand(v)')
    BY <2>3, <2>4
  <2>7. ASSUME NEW w \in Workers, w # v, reply[w] # NoReply, NEW t \in Range(InHand(w)), t \in Txs
        PROVE  node'[t] = node[t]
    <3>1. t \notin Range(InHand(v))
      BY <1>0, <2>2, <2>7, InHandApart
    <3> QED
      BY <2>1, <2>7, <3>1, ExecutesFacts
  <2>8. ASSUME NEW w \in Workers, w # v
        PROVE  /\ reply'[w] = reply[w]
               /\ reply[w] # NoReply => pc'[w] = "post" /\ cur'[w] = cur[w]
               /\ reply[w] # NoReply => \A t \in Range(InHand(w)) : t \in Txs /\ t \in seen =>
                    t \in seen' /\ (node'[t] = node[t] \/ (node[t] = "pooled" /\ node'[t] = "mined"))
    <3>1. reply'[w] = reply[w]
      BY <2>1, <2>8 DEF NodeOK
    <3> QED
      BY <1>0, <2>2, <2>7, <2>8, <3>1
  <2>9. ASSUME NEW w \in Workers
        PROVE  reply'[w] # NoReply =>
                 /\ pc'[w] = "post"
                 /\ Len(reply'[w]) = Len(InHand(w)')
                 /\ \A i \in 1..Len(InHand(w)') : Tells(InHand(w)[i], reply[w][i])'
    <3>1. CASE w = v
      BY <2>2, <2>5, <2>6, <3>1
    <3>2. CASE w # v
      BY <1>1, <2>8, <3>2, Zenon
    <3> QED
      BY <3>1, <3>2, Zenon
  <2> QED
    BY <1>2, <2>9, Zenon
<1>7. ASSUME NEW v \in Workers, Closes(v) PROVE ReplyInv'
  <2>1. UNCHANGED <<node, seen>>
    BY <1>7, CloseFacts, Zenon
  <2>2. reply'[v] = NoReply
    BY <1>7, CloseFacts DEF NodeOK
  <2>3. \A w \in Workers : w # v => pc'[w] = pc[w] /\ cur'[w] = cur[w] /\ reply'[w] = reply[w]
    BY <1>7, CloseFacts DEF QueueOK, NodeOK
  <2>4. ASSUME NEW w \in Workers, w # v
        PROVE  /\ reply'[w] = reply[w]
               /\ reply[w] # NoReply => pc'[w] = "post" /\ cur'[w] = cur[w]
               /\ reply[w] # NoReply => \A t \in Range(InHand(w)) : t \in Txs /\ t \in seen =>
                    t \in seen' /\ (node'[t] = node[t] \/ (node[t] = "pooled" /\ node'[t] = "mined"))
    BY <1>0, <2>1, <2>3, <2>4
  <2>5. ASSUME NEW w \in Workers
        PROVE  reply'[w] # NoReply =>
                 /\ pc'[w] = "post"
                 /\ Len(reply'[w]) = Len(InHand(w)')
                 /\ \A i \in 1..Len(InHand(w)') : Tells(InHand(w)[i], reply[w][i])'
    <3>1. CASE w = v
      BY <2>2, <3>1
    <3>2. CASE w # v
      BY <1>1, <2>4, <3>2, Zenon
    <3> QED
      BY <3>1, <3>2, Zenon
  <2> QED
    BY <1>2, <2>5, Zenon
<1> QED
  BY <1>3, <1>4, <1>5, <1>6, <1>7, Kinds, Zenon DEF Closes

\* Whatever a worker counts as rejected is not in the pool at that time.
LEMMA RejectedHolds ==
  ASSUME ReplyInv, QueueOK, NEW w \in Workers, Record(w), NEW t \in rejected', t \notin rejected
  PROVE  node[t] # "pooled"
<1>1. pc[w] = "post" /\ reply[w] # NoReply
  BY Zenon DEF Record
<1>2. Len(InHand(w)) # 1
  BY Zenon DEF Record
<1>3. rejected' = rejected \cup
        {InHand(w)[i] : i \in {j \in 1..Len(InHand(w)) : Rejection(reply[w][j])}}
  BY <1>2, Zenon DEF Record
<1>4. PICK i \in 1..Len(InHand(w)) : t = InHand(w)[i] /\ Rejection(reply[w][i])
  BY <1>3
<1>5. Tells(InHand(w)[i], reply[w][i])
  BY <1>1 DEF ReplyInv
<1> QED
  BY <1>4, <1>5 DEF Tells

\* Every step leaves the rejected transactions out of the pool.
LEMMA RejectedStep ==
  RejectedNotPooled /\ ReplyInv /\ CountInv /\ HandInv /\ QueueOK /\ NodeOK /\ [Next]_vars
    => RejectedNotPooled'
<1> SUFFICES ASSUME RejectedNotPooled, ReplyInv, CountInv, HandInv, QueueOK, NodeOK, [Next]_vars
             PROVE  RejectedNotPooled'
  OBVIOUS
<1>0. \A t \in rejected : node[t] # "pooled" /\ t \in Txs /\ t \notin failed
  BY DEF RejectedNotPooled, CountInv, NodeOK
<1>1. CASE Drifts
  BY <1>0, <1>1 DEF Drifts, RejectedNotPooled
<1>2. CASE StrayArrives
  <2>1. PICK chunk \in strays : \E admitted : Executes(chunk, admitted)
    BY <1>2, StrayFacts, Zenon
  <2>2. PICK admitted : Executes(chunk, admitted)
    BY <2>1, Zenon
  <2>3. \A t \in admitted : t \in failed
    BY <2>1, <2>2, ExecutesFacts DEF CountInv
  <2>4. rejected' = rejected
    BY <1>2, StrayFacts
  <2>5. \A t \in rejected : node'[t] = node[t]
    BY <1>0, <2>2, <2>3, ExecutesFacts
  <2> QED
    BY <1>0, <2>4, <2>5 DEF RejectedNotPooled
<1>3. ASSUME NEW w \in Workers, Take(w) PROVE RejectedNotPooled'
  BY <1>0, <1>3, TakeFacts DEF RejectedNotPooled
<1>4. ASSUME NEW w \in Workers, Deliver(w) PROVE RejectedNotPooled'
  <2>1. PICK admitted : Executes(InHand(w), admitted)
    BY <1>4, DeliverFacts, Zenon
  <2>2. Holds(w) /\ rejected' = rejected
    BY <1>4, DeliverFacts DEF Holds
  <2>3. \A t \in admitted : t \notin rejected
    BY <2>1, <2>2, ExecutesFacts, InHandFresh
  <2>4. \A t \in rejected : node'[t] = node[t]
    BY <1>0, <2>1, <2>3, ExecutesFacts
  <2> QED
    BY <1>0, <2>2, <2>4 DEF RejectedNotPooled
<1>5. ASSUME NEW w \in Workers, Closes(w) PROVE RejectedNotPooled'
  <2>1. node' = node
    BY <1>5, CloseFacts
  <2>2. CASE Record(w)
    BY <1>0, <2>1, <2>2, RejectedHolds DEF RejectedNotPooled
  <2>3. CASE RecordError(w)
    <3>1. rejected' = rejected
      BY <2>3, Zenon DEF RecordError
    <3> QED
      BY <1>0, <2>1, <3>1 DEF RejectedNotPooled
  <2> QED
    BY <1>5, <2>2, <2>3 DEF Closes
<1> QED
  BY <1>1, <1>2, <1>3, <1>4, <1>5, Kinds, Zenon DEF Closes

\* Nothing settled comes undone, and a worker's exit is final.
LEMMA SettledStays ==
  ASSUME QueueOK, NodeOK, [Next]_vars
  PROVE  /\ \A t \in Txs : Settled(t) => Settled(t)'
         /\ \A t : InTurn(t) => InTurn(t)'
         /\ \A w \in Workers : pc[w] = "exit" => pc'[w] = "exit"
         /\ \A q \in DOMAIN Queue : next[q] = Len(Queue[q]) => next'[q] = Len(Queue[q])
<1>1. \A t \in Txs : Settled(t) => Settled(t)'
  BY Forward DEF Settled
<1>2. \A t : InTurn(t) => InTurn(t)'
  BY Forward DEF InTurn
<1>3. CASE Drifts
  BY <1>1, <1>2, <1>3 DEF Drifts, Moves
<1>4. CASE UNCHANGED <<pc, next>>
  BY <1>1, <1>2, <1>4
<1>5. ASSUME NEW w \in Workers, Take(w)
      PROVE  /\ \A v \in Workers : pc[v] = "exit" => pc'[v] = "exit"
             /\ \A q \in DOMAIN Queue : next[q] = Len(Queue[q]) => next'[q] = Len(Queue[q])
  <2>1. \A v \in Workers : v # w => pc'[v] = pc[v]
    BY <1>5, TakeFacts DEF QueueOK
  <2>2. pc[w] = "take" /\ next[QueueOf(w)] < Len(Queue[QueueOf(w)])
    BY <1>5, TakeFacts
  <2>3. \A q \in DOMAIN Queue : q # QueueOf(w) => next'[q] = next[q]
    BY <1>5, TakeFacts DEF QueueOK
  <2>4. next[QueueOf(w)] \in Nat /\ Len(Queue[QueueOf(w)]) \in Nat
    BY WorkerQueue DEF QueueOK
  <2> QED
    BY <2>1, <2>2, <2>3, <2>4
<1>6. ASSUME NEW w \in Workers, Closes(w)
      PROVE  /\ \A v \in Workers : pc[v] = "exit" => pc'[v] = "exit"
             /\ next' = next
  BY <1>6, CloseFacts DEF QueueOK
<1>7. ASSUME NEW w \in Workers, Deliver(w) PROVE UNCHANGED <<pc, next>>
  BY <1>7, DeliverFacts, Zenon
<1>8. StrayArrives => UNCHANGED <<pc, next>>
  BY StrayFacts, Zenon
<1> QED
  BY <1>1, <1>2, <1>3, <1>4, <1>5, <1>6, <1>7, <1>8, Kinds, Zenon DEF Closes

\* A request that is closed is settled.
LEMMA CloseSettles ==
  ASSUME ReplyInv, QueueOK, NodeOK, [Next]_vars, NEW w \in Workers, Closes(w),
         NEW t \in Range(InHand(w))
  PROVE  Settled(t)'
<1>1. pc[w] = "post" /\ UNCHANGED <<node, seen>> /\ failed \subseteq failed' /\ rejected \subseteq rejected'
  BY CloseFacts, Zenon
<1>2. InHand(w) \in Seq(Txs)
  BY <1>1, InHandType
<1>3. PICK i \in 1..Len(InHand(w)) : t = InHand(w)[i]
  BY <1>2 DEF Range
<1>4. CASE Record(w)
  <2>1. Tells(t, reply[w][i])
    BY <1>3, <1>4 DEF Record, ReplyInv
  <2>2. t \in seen'
    BY <1>1, <2>1 DEF Tells
  <2>3. node'[t] = "absent" => t \in failed' \cup rejected'
    <3>1. SUFFICES ASSUME node[t] = "absent" PROVE t \in failed' \cup rejected'
      BY <1>1
    <3>2. Rejection(reply[w][i])
      BY <2>1, <3>1 DEF Tells
    <3>3. CASE Len(InHand(w)) = 1
      <4>1. i = 1 /\ reply[w][1] # "ok"
        BY <1>3, <3>2, <3>3 DEF Rejection
      <4>2. failed' = failed \cup Range(InHand(w))
        BY <1>4, <3>3, <4>1, Zenon DEF Record
      <4> QED
        BY <4>2
    <3>4. CASE Len(InHand(w)) # 1
      <4>1. rejected' = rejected \cup
              {InHand(w)[k] : k \in {j \in 1..Len(InHand(w)) : Rejection(reply[w][j])}}
        BY <1>4, <3>4, Zenon DEF Record
      <4> QED
        BY <1>3, <3>2, <4>1
    <3> QED
      BY <3>3, <3>4
  <2> QED
    BY <2>2, <2>3 DEF Settled
<1>5. CASE RecordError(w)
  <2>1. failed' = failed \cup Range(InHand(w))
    BY <1>5, Zenon DEF RecordError
  <2> QED
    BY <2>1 DEF Settled
<1> QED
  BY <1>4, <1>5 DEF Closes

\* Every step settles the requests it finishes.
LEMMA DoneStep ==
  DoneInv /\ ReplyInv /\ HandInv /\ QueueOK /\ NodeOK /\ [Next]_vars => DoneInv'
<1> SUFFICES ASSUME DoneInv, ReplyInv, HandInv, QueueOK, NodeOK, [Next]_vars PROVE DoneInv'
  OBVIOUS
<1>1. canceled => canceled'
  BY Forward, Zenon
<1>2. ASSUME NEW q \in DOMAIN Queue, Kept(q)'
      PROVE  Kept(q) /\ ~(canceled' /\ \E w \in Workers : QueueOf(w) = q /\ pc'[w] = "exit")
  <2>1. InOrder => q \in Workers
    BY DEF Queue, QueueOf
  <2>2. InOrder /\ pc'[q] # "exit" => pc[q] # "exit"
    BY <2>1, SettledStays, Zenon
  <2> QED
    BY <1>1, <1>2, <2>2, OwnQueue DEF Kept
<1>3. ASSUME NEW q \in DOMAIN Queue, NEW i \in 1..Len(Queue[q]), Finished(q, i)', Kept(q)',
             NEW t \in Range(Queue[q][i])
      PROVE  Settled(t)'
  <2>1. Kept(q) /\ ~(canceled' /\ \E w \in Workers : QueueOf(w) = q /\ pc'[w] = "exit")
    BY <1>2, <1>3, Zenon
  <2>2. CASE Finished(q, i)
    <3>1. Settled(t) /\ t \in Txs
      BY <2>1, <2>2, RequestsAre DEF DoneInv
    <3> QED
      BY <3>1, SettledStays, Zenon
  <2>3. ASSUME NEW w \in Workers, Closes(w), QueueOf(w) = q, cur[w] = i
        PROVE  Settled(t)'
    <3>1. t \in Range(InHand(w))
      BY <2>3 DEF InHand
    <3> QED
      BY <2>3, <3>1, CloseSettles, Zenon
  <2> QED
    BY <1>3, <2>1, <2>2, <2>3, Ledger, Zenon
<1>4. ASSUME ~canceled', NEW w \in Workers, pc'[w] = "exit"
      PROVE  next'[QueueOf(w)] = Len(Queue[QueueOf(w)])
  <2>1. SUFFICES next[QueueOf(w)] = Len(Queue[QueueOf(w)])
    BY SettledStays, WorkerQueue, Zenon
  <2>2. CASE pc[w] = "exit"
    BY <1>1, <1>4, <2>2 DEF DoneInv
  <2>3. CASE pc[w] # "exit"
    <3>1. CASE Drifts
      BY <1>1, <1>4, <2>3, <3>1 DEF Drifts, Moves
    <3>2. ASSUME NEW v \in Workers, Take(v) PROVE FALSE
      <4>1. canceled' = canceled
        BY <3>2, TakeFacts
      <4>2. pc'[w] = pc[w] \/ pc'[w] \in {"gate", "post"}
        BY <1>4, <3>2, <4>1, TakeFacts DEF QueueOK
      <4> QED
        BY <1>4, <2>3, <4>2
    <3>3. ASSUME NEW v \in Workers, Closes(v) PROVE FALSE
      <4>1. pc'[w] = pc[w] \/ pc'[w] = "take"
        BY <3>3, CloseFacts DEF QueueOK
      <4> QED
        BY <1>4, <2>3, <4>1
    <3>4. ASSUME NEW v \in Workers, Deliver(v) PROVE FALSE
      BY <1>4, <2>3, <3>4, DeliverFacts
    <3>5. CASE StrayArrives
      BY <1>4, <2>3, <3>5, StrayFacts
    <3> QED
      BY <3>1, <3>2, <3>3, <3>4, <3>5, Kinds, Zenon DEF Closes
  <2> QED
    BY <2>2, <2>3
<1> QED
  BY <1>3, <1>4, Zenon DEF DoneInv

\* An account's earlier positions are transactions of the load.
LEMMA Earlier ==
  ASSUME NEW t \in Txs, NEW k \in 1..(t[2] - 1)
  PROVE  /\ <<t[1], k>> \in Txs
         /\ <<t[1], k>>[1] = t[1] /\ <<t[1], k>>[2] < t[2]
<1>1. PICK s \in 1..Len(Streams) : \E j \in 1..StreamLens[s] : t = <<s, j>>
  BY TxsAre, Zenon
<1>2. PICK j \in 1..StreamLens[s] : t = <<s, j>>
  BY <1>1
<1>3. t[1] = s /\ t[2] = j /\ StreamLens[s] \in Nat
  BY <1>1, <1>2, TxsAre
<1>4. k \in 1..StreamLens[s] /\ k < t[2]
  BY <1>2, <1>3
<1>5. <<t[1], k>> = <<s, k>>
  BY <1>3
<1>6. <<t[1], k>> \in Txs
  BY <1>1, <1>4, <1>5, TxsAre, Zenon
<1> QED
  BY <1>4, <1>6

\* In an ordered send, whatever comes before a transaction in hand reached the
\* node, failed, or is in hand with it.
LEMMA PostInTurn ==
  ASSUME InOrder, DoneInv, HandInv, QueueOK, NEW w \in Workers, pc[w] = "post",
         NEW t \in Range(InHand(w)), NEW k \in 1..(t[2] - 1)
  PROVE  <<t[1], k>> \in seen \cup failed \cup Range(InHand(w))
<1> DEFINE u == <<t[1], k>>
<1>1. Holds(w) /\ QueueOf(w) = w
  BY OwnQueue DEF Holds
<1>2. w \in DOMAIN Queue /\ cur[w] \in 1..Len(Queue[w]) /\ cur[w] = next[w]
  BY <1>1, HeldOpen DEF HandInv
<1>3. t \in Range(Queue[w][cur[w]])
  BY <1>1 DEF InHand
<1>4. t \in Txs
  BY <1>2, <1>3, RequestsAre
<1>5. u \in Txs /\ u[1] = t[1] /\ u[2] < t[2]
  BY <1>4, Earlier
<1> HIDE DEF u
<1>6. PICK q \in DOMAIN Queue : \E i \in 1..Len(Queue[q]) : u \in Range(Queue[q][i])
  BY <1>5, RequestsAre, Zenon
<1>7. PICK i \in 1..Len(Queue[q]) : u \in Range(Queue[q][i])
  BY <1>6
<1>8. q = w /\ i <= cur[w]
  <2>1. \A r \in DOMAIN Queue : \A j \in 1..Len(Queue[r]) :
          \A x \in Range(Queue[w][cur[w]]), y \in Range(Queue[r][j]) :
            x[1] = y[1] /\ y[2] < x[2] => w = r /\ j <= cur[w]
    BY <1>2, RequestsAre
  <2>2. t[1] = u[1] /\ u[2] < t[2] => w = q /\ i <= cur[w]
    BY <1>3, <1>7, <2>1
  <2> QED
    BY <1>5, <2>2
<1>9. CASE i = cur[w]
  BY <1>1, <1>7, <1>8, <1>9 DEF InHand, u
<1>10. CASE i < cur[w]
  <2>1. i \in 1..next[w]
    BY <1>2, <1>10
  <2>2. \A v \in Workers : QueueOf(v) = w => v = w
    BY OwnQueue
  <2>3. ~Holding(w, i)
    BY <1>2, <1>10, <2>2 DEF Holding
  <2>4. Kept(w)
    BY DEF Kept
  <2>5. Settled(u)
    BY <1>7, <1>8, <2>1, <2>3, <2>4 DEF DoneInv, Finished
  <2> QED
    BY <2>5 DEF Settled, u
<1>11. i \in Nat /\ cur[w] \in Nat
  BY <1>2, <1>8
<1> QED
  BY <1>8, <1>9, <1>10, <1>11

\* Every step keeps the accounts in order.
LEMMA OrderStep ==
  OrderInv /\ DoneInv /\ HandInv /\ QueueOK /\ NodeOK /\ [Next]_vars => OrderInv'
<1> SUFFICES ASSUME OrderInv, DoneInv, HandInv, QueueOK, NodeOK, [Next]_vars, InOrder
             PROVE  /\ \A t \in seen' : InTurn(t)'
                    /\ \A c \in strays' : \A t \in Range(c) : InTurn(t)'
  BY Zenon DEF OrderInv
<1>1. /\ \A t \in seen : InTurn(t)'
      /\ \A c \in strays : \A t \in Range(c) : InTurn(t)'
  BY SettledStays, Zenon DEF OrderInv
<1>2. CASE UNCHANGED <<seen, strays>>
  BY <1>1, <1>2
<1>3. CASE StrayArrives
  <2>1. PICK chunk \in strays :
          strays' = strays \ {chunk} /\ \E admitted : Executes(chunk, admitted)
    BY <1>3, StrayFacts, Zenon
  <2>2. seen' = seen \cup Range(chunk)
    BY <2>1, ExecutesFacts
  <2> QED
    BY <1>1, <2>1, <2>2
<1>4. ASSUME NEW w \in Workers, Deliver(w)
      PROVE  /\ \A t \in seen' : InTurn(t)'
             /\ \A c \in strays' : \A t \in Range(c) : InTurn(t)'
  <2>1. seen' = seen \cup Range(InHand(w))
    BY <1>4, DeliverFacts, ExecutesFacts
  <2>2. pc[w] = "post" /\ UNCHANGED <<failed, strays>>
    BY <1>4, DeliverFacts, Zenon
  <2>3. \A t \in Range(InHand(w)) : InTurn(t)'
    BY <2>1, <2>2, PostInTurn DEF InTurn
  <2> QED
    BY <1>1, <2>1, <2>2, <2>3
<1>5. ASSUME NEW w \in Workers, Closes(w)
      PROVE  /\ \A t \in seen' : InTurn(t)'
             /\ \A c \in strays' : \A t \in Range(c) : InTurn(t)'
  <2>1. pc[w] = "post" /\ seen' = seen
    BY <1>5, CloseFacts, Zenon
  <2>2. CASE strays' = strays
    BY <1>1, <2>1, <2>2
  <2>3. CASE strays' \subseteq strays \cup {InHand(w)} /\ failed' = failed \cup Range(InHand(w))
    <3>1. \A t \in Range(InHand(w)) : InTurn(t)'
      BY <2>1, <2>3, PostInTurn DEF InTurn
    <3> QED
      BY <1>1, <2>1, <2>3, <3>1
  <2> QED
    BY <1>5, <2>2, <2>3, CloseCounts, Zenon
<1> QED
  <2>1. ASSUME NEW w \in Workers, Take(w) PROVE UNCHANGED <<seen, strays>>
    BY <2>1, TakeFacts, Zenon
  <2>2. Drifts => UNCHANGED <<seen, strays>>
    BY Zenon DEF Drifts
  <2> QED
    BY <1>2, <1>3, <1>4, <1>5, <2>1, <2>2, Kinds, Zenon DEF Closes

DeliveryInv == HandInv /\ CountInv /\ ReplyInv /\ DoneInv /\ OrderInv

\* A send starts with nothing taken, counted or sent.
LEMMA InitDelivery == Init => DeliveryInv /\ RejectedNotPooled
<1> SUFFICES ASSUME Init PROVE DeliveryInv /\ RejectedNotPooled
  OBVIOUS
<1>1. \A w \in Workers : pc[w] = "take" /\ reply[w] = NoReply
  BY DEF Init
<1>2. failed = {} /\ rejected = {} /\ strays = {} /\ seen = {}
  BY Zenon DEF Init
<1>3. \A q \in DOMAIN Queue : next[q] = 0
  BY DEF Init
<1>4. HandInv
  BY <1>1 DEF HandInv, Holds
<1>5. CountInv /\ RejectedNotPooled
  BY <1>2, Zenon DEF CountInv, RejectedNotPooled
<1>6. ReplyInv
  BY <1>1, Zenon DEF ReplyInv
<1>7. DoneInv
  BY <1>1, <1>3 DEF DoneInv, Finished
<1>8. OrderInv
  BY <1>2, Zenon DEF OrderInv
<1> QED
  BY <1>4, <1>5, <1>6, <1>7, <1>8, Zenon DEF DeliveryInv

\* The inductive invariant behind the theorems on what becomes of the load.
LEMMA Delivery == Spec => [](DeliveryInv /\ RejectedNotPooled)
<1>1. /\ DeliveryInv /\ RejectedNotPooled
      /\ QueueOK /\ NodeOK
      /\ [Next]_vars
      => (DeliveryInv /\ RejectedNotPooled)'
  <2> SUFFICES ASSUME DeliveryInv, RejectedNotPooled, QueueOK, NodeOK, [Next]_vars
               PROVE  (DeliveryInv /\ RejectedNotPooled)'
    OBVIOUS
  <2>1. HandInv' /\ CountInv' /\ ReplyInv' /\ DoneInv' /\ OrderInv' /\ RejectedNotPooled'
    BY HandStep, CountStep, ReplyStep, DoneStep, OrderStep, RejectedStep, Zenon DEF DeliveryInv
  <2> QED
    BY <2>1, Zenon DEF DeliveryInv
<1> QED
  BY InitDelivery, <1>1, Types, PTL DEF Spec

\* A transaction that sendRawTxBatch reports as a rejection is not waiting in
\* the pool, then or later, however often its request was retried.
THEOREM RejectionsAreFinal == Spec => []RejectedNotPooled
  BY Delivery, PTL

\* An uncanceled send posts the whole load, and whatever of it the node did not
\* admit is in BroadcastStats as failed or rejected.
THEOREM NothingIsLost == Spec => []NothingSilentlyLost
<1>1. DeliveryInv /\ PeakInv /\ NodeOK => NothingSilentlyLost
  <2> SUFFICES ASSUME DeliveryInv, PeakInv, NodeOK, returned, ~canceled
               PROVE  /\ Txs = seen \cup failed
                      /\ {t \in Txs : node[t] = "absent"} \subseteq failed \cup rejected
    BY DEF NothingSilentlyLost
  <2>1. \A w \in Workers : pc[w] = "exit" /\ next[QueueOf(w)] = Len(Queue[QueueOf(w)])
    BY DEF PeakInv, DeliveryInv, DoneInv
  <2>2. ASSUME NEW t \in Txs PROVE Settled(t)
    <3>1. PICK q \in DOMAIN Queue : \E i \in 1..Len(Queue[q]) : t \in Range(Queue[q][i])
      BY RequestsAre, Zenon
    <3>2. PICK i \in 1..Len(Queue[q]) : t \in Range(Queue[q][i])
      BY <3>1
    <3>3. PICK w \in Workers : q = QueueOf(w)
      BY DEF Queue
    <3>4. next[q] = Len(Queue[q])
      BY <2>1, <3>3
    <3>5. ~Holding(q, i)
      BY <2>1 DEF Holding, Holds
    <3>6. Finished(q, i) /\ Kept(q)
      BY <3>2, <3>4, <3>5 DEF Finished, Kept
    <3> QED
      BY <3>2, <3>6 DEF DeliveryInv, DoneInv
  <2> QED
    BY <2>2 DEF Settled, NodeOK
<1> QED
  BY <1>1, Delivery, PeakHolds, Types, PTL

\* BroadcastStreams keeps each account's order: no transaction reaches the node,
\* late requests included, before an earlier one of its account, unless that
\* one's request failed.
THEOREM OrderIsKept == Spec => []NothingOvertakes
<1>1. DeliveryInv => NothingOvertakes
  BY DEF DeliveryInv, OrderInv, InTurn, NothingOvertakes
<1> QED
  BY <1>1, Delivery, PTL

-----------------------------------------------------------------------------
(* The stall timer.  As long as nothing was added to the pool and a block  *)
(* took from it in every tick of a wait, the pool is below the wait's      *)
(* lowest sample, and so is the next sample: the timer starts anew.        *)

Waiting(w) == lowest[w] \notin {Unset, Highest}

StallOf(w) ==
  /\ pc[w] \in {"take", "post", "exit"} => lowest[w] = Unset /\ quiet[w] = 0
  /\ pc[w] \notin {"take", "post", "exit"} => lowest[w] # Unset
  /\ lowest[w] <= Highest
  /\ pc[w] \in {"load", "swap", "judge"} => sample[w] \in Nat
  /\ ~Waiting(w) => ~drained[w] /\ (quiet[w] # 0 => excused[w])
  /\ Waiting(w) /\ ~excused[w] =>
       /\ Pending <= lowest[w]
       /\ drained[w] \/ quiet[w] # 0 => Pending < lowest[w]
       /\ quiet[w] # 0 /\ pc[w] \in {"load", "swap", "judge"} => sample[w] < lowest[w]

StallInv == \A w \in Workers : StallOf(w)

\* The pool as it is reported is a natural number.
LEMMA PendingNat == GateOK => Pending \in Nat
  BY OwnPendingNat, BroadcastAssumption DEF Pending, GateOK

\* Taking an account's lowest pooled transaction leaves one fewer executable.
LEMMA MineTakes ==
  ASSUME NodeOK, NEW t \in Txs, MineOwn(t)
  PROVE  OwnPending' < OwnPending /\ OwnPending \in Nat /\ OwnPending' \in Nat
<1> DEFINE E == {u \in Txs : Executable(u)}
<1>1. node[t] = "pooled" /\ node' = [node EXCEPT ![t] = "mined"]
      /\ \A k \in 1..(t[2] - 1) : node[<<t[1], k>>] = "mined"
  BY Zenon DEF MineOwn
<1>2. t \in E
  BY <1>1 DEF Executable
<1>3. \A u \in Txs : u # t => node'[u] = node[u]
  BY <1>1 DEF NodeOK
<1>4. node'[t] = "mined"
  BY <1>1 DEF NodeOK
<1>5. \A u : node'[u] # "absent" <=> node[u] # "absent"
  BY <1>1, <1>4 DEF NodeOK
<1>6. \A u \in Txs : Executable(u)' <=> Executable(u) /\ u # t
  BY <1>3, <1>4, <1>5 DEF Executable
<1>7. {u \in Txs : Executable(u)}' = E \ {t}
  BY <1>6
<1>8. IsFiniteSet(E)
  BY TotalCovers, FS_Subset
<1> HIDE DEF E
<1>9. Cardinality(E \ {t}) = Cardinality(E) - 1 /\ Cardinality(E) \in Nat
  BY <1>2, <1>8, FS_RemoveElement, FS_CardinalityType
<1>10. IsFiniteSet(E \ {t})
  BY <1>8, FS_Subset
<1>11. Cardinality(E \ {t}) \in Nat
  BY <1>10, FS_CardinalityType
<1>12. OwnPending = Cardinality(E) /\ OwnPending' = Cardinality(E \ {t})
  BY <1>7, Zenon DEF OwnPending, E
<1> QED
  BY <1>9, <1>11, <1>12

\* A worker that does not step, while the pool does not grow.
LEMMA StallFrame ==
  ASSUME GateOK, NEW v \in Workers, StallOf(v),
         pc'[v] = pc[v], sample'[v] = sample[v], lowest'[v] = lowest[v], quiet'[v] = quiet[v],
         drained'[v] <=> drained[v],
         excused[v] => excused'[v],
         Pending' \in Nat, Pending' <= Pending
  PROVE  StallOf(v)'
<1>1. Pending \in Nat /\ lowest[v] \in Int /\ sample[v] \in Int /\ quiet[v] \in Int
  BY PendingNat, BroadcastAssumption DEF GateOK
<1>2. Waiting(v)' <=> Waiting(v)
  BY Zenon DEF Waiting, Unset, Highest
<1>3. Pending <= lowest[v] => Pending' <= lowest[v]
  BY <1>1
<1>4. Pending < lowest[v] => Pending' < lowest[v]
  BY <1>1
<1>5. lowest'[v] <= Highest' <=> lowest[v] <= Highest
  BY Zenon DEF Highest
<1>6. lowest'[v] = Unset' <=> lowest[v] = Unset
  BY Zenon DEF Unset
<1> QED
  BY <1>2, <1>3, <1>4, <1>5, <1>6, Zenon DEF StallOf

\* A worker that does not step, while the pool grows.
LEMMA StallGrows ==
  ASSUME NEW v \in Workers, StallOf(v),
         pc'[v] = pc[v], sample'[v] = sample[v], lowest'[v] = lowest[v], quiet'[v] = quiet[v],
         drained'[v] <=> drained[v],
         excused'[v] <=> excused[v] \/ lowest[v] \notin {Unset, Highest}
  PROVE  StallOf(v)'
<1>1. Waiting(v)' <=> Waiting(v)
  BY Zenon DEF Waiting, Unset, Highest
<1>2. excused'[v] <=> excused[v] \/ Waiting(v)
  BY Zenon DEF Waiting
<1>3. lowest'[v] <= Highest' <=> lowest[v] <= Highest
  BY Zenon DEF Highest
<1>4. lowest'[v] = Unset' <=> lowest[v] = Unset
  BY Zenon DEF Unset
<1> QED
  BY <1>1, <1>2, <1>3, <1>4, Zenon DEF StallOf

\* A worker outside the gate.
LEMMA StallOutside ==
  ASSUME NEW w \in Workers, pc'[w] \in {"take", "post", "exit"},
         lowest'[w] = Unset, quiet'[w] = 0, ~drained'[w]
  PROVE  StallOf(w)'
<1>1. ~Waiting(w)'
  BY DEF Waiting, Unset
<1>2. lowest'[w] = Unset' /\ lowest'[w] <= Highest'
  BY BroadcastAssumption DEF Unset, Highest
<1> QED
  BY <1>1, <1>2 DEF StallOf

\* The whole invariant after a step of one worker that leaves the pool alone.
LEMMA StallOne ==
  ASSUME StallInv, GateOK, NEW w \in Workers,
         \A v \in Workers : v # w =>
           /\ pc'[v] = pc[v] /\ sample'[v] = sample[v]
           /\ lowest'[v] = lowest[v] /\ quiet'[v] = quiet[v]
           /\ drained'[v] <=> drained[v]
           /\ excused[v] => excused'[v],
         UNCHANGED <<node, foreign>>,
         StallOf(w)'
  PROVE  StallInv'
<1>1. Pending' = Pending
  BY DEF Pending, OwnPending, Executable
<1>2. Pending \in Nat /\ Pending' \in Nat /\ Pending' <= Pending
  BY <1>1, PendingNat
<1>3. ASSUME NEW v \in Workers, v # w PROVE StallOf(v)'
  BY <1>2, <1>3, StallFrame DEF StallInv
<1> QED
  BY <1>3, Zenon DEF StallInv

\* A worker that leaves the gate.
LEMMA StallLeaves ==
  ASSUME StallInv, BoolOK, GateOK, QueueOK, NEW w \in Workers, LeaveGate(w), UNCHANGED <<node, foreign>>,
         pc' = [pc EXCEPT ![w] = "post"] \/ pc' = [pc EXCEPT ![w] = "exit"]
  PROVE  StallInv'
<1>1. lowest'[w] = Unset /\ quiet'[w] = 0 /\ ~drained'[w] /\ pc'[w] \in {"take", "post", "exit"}
  BY DEF LeaveGate, BoolOK, GateOK, QueueOK
<1>2. \A v \in Workers : v # w =>
        /\ pc'[v] = pc[v] /\ sample'[v] = sample[v]
        /\ lowest'[v] = lowest[v] /\ quiet'[v] = quiet[v]
        /\ drained'[v] = drained[v] /\ excused'[v] = excused[v]
  BY DEF LeaveGate, BoolOK, GateOK, QueueOK
<1>3. StallOf(w)'
  BY <1>1, StallOutside
<1> QED
  BY <1>2, <1>3, StallOne, Zenon

\* A request is executed: if that adds to the pool, every wait is excused.
LEMMA StallExecutes ==
  ASSUME StallInv, BoolOK, GateOK, NodeOK, NEW chunk, NEW admitted, Executes(chunk, admitted),
         UNCHANGED <<pc, sample, lowest, quiet, drained, foreign>>
  PROVE  StallInv'
<1>1. CASE admitted = {}
  <2>1. node' = [t \in Txs |-> IF t \in admitted THEN "pooled" ELSE node[t]]
        /\ excused' = excused
    BY <1>1, Zenon DEF Executes
  <2>2. node' = node
    BY <1>1, <2>1 DEF NodeOK
  <2>3. Pending' = Pending
    BY <2>2 DEF Pending, OwnPending, Executable
  <2>4. Pending \in Nat /\ Pending' \in Nat /\ Pending' <= Pending
    BY <2>3, PendingNat
  <2> QED
    BY <2>1, <2>4, StallFrame, Zenon DEF StallInv
<1>2. CASE admitted # {}
  <2>1. excused' = [v \in Workers |-> excused[v] \/ lowest[v] \notin {Unset, Highest}]
    BY <1>2, Zenon DEF Executes, Grows
  <2>2. \A v \in Workers : excused'[v] <=> excused[v] \/ lowest[v] \notin {Unset, Highest}
    BY <2>1, Zenon
  <2> QED
    BY <2>2, StallGrows, Zenon DEF StallInv
<1> QED
  BY <1>1, <1>2

\* A block takes from the pool.
LEMMA StallMines ==
  ASSUME StallInv, BoolOK, GateOK, Pending' \in Nat, Pending' < Pending,
         UNCHANGED <<pc, sample, lowest, quiet, excused>>,
         drained' = [w \in Workers |-> lowest[w] \notin {Unset, Highest}]
  PROVE  StallInv'
<1>1. ASSUME NEW w \in Workers PROVE StallOf(w)'
  <2>1. drained'[w] <=> Waiting(w)
    BY Zenon DEF Waiting
  <2>2. Waiting(w)' <=> Waiting(w)
    BY Zenon DEF Waiting, Unset, Highest
  <2>3. Pending \in Nat /\ lowest[w] \in Int
    BY PendingNat DEF GateOK
  <2>4. Pending <= lowest[w] => Pending' <= lowest[w] /\ Pending' < lowest[w]
    BY <2>3
  <2>5. lowest'[w] <= Highest' <=> lowest[w] <= Highest
    BY Zenon DEF Highest
  <2>6. lowest'[w] = Unset' <=> lowest[w] = Unset
    BY Zenon DEF Unset
  <2>7. StallOf(w)
    BY DEF StallInv
  <2> QED
    BY <2>1, <2>2, <2>4, <2>5, <2>6, <2>7, Zenon DEF StallOf
<1> QED
  BY <1>1, Zenon DEF StallInv

\* A worker's step inside the gate that only moves it on.
LEMMA StallMoves ==
  ASSUME StallInv, GateOK, QueueOK, NEW w \in Workers, NEW l,
         pc' = [pc EXCEPT ![w] = l],
         l \in {"gate", "load", "swap", "judge", "pause"},
         pc[w] \in {"gate", "load", "swap", "judge", "pause"},
         l \in {"load", "swap", "judge"} => pc[w] \in {"load", "swap", "judge"},
         l \in {"load", "swap", "judge"} => sample' = sample,
         \A v \in Workers : v # w => sample'[v] = sample[v],
         UNCHANGED <<lowest, quiet, drained, excused, node, foreign>>
  PROVE  StallInv'
<1>1. pc'[w] = l /\ \A v \in Workers : v # w => pc'[v] = pc[v]
  BY DEF QueueOK
<1>2. Pending' = Pending
  BY DEF Pending, OwnPending, Executable
<1>3. Waiting(w)' <=> Waiting(w)
  BY Zenon DEF Waiting, Unset, Highest
<1>4. StallOf(w)
  BY DEF StallInv
<1>5. lowest'[w] <= Highest' <=> lowest[w] <= Highest
  BY Zenon DEF Highest
<1>6. lowest'[w] = Unset' <=> lowest[w] = Unset
  BY Zenon DEF Unset
<1>7. lowest[w] # Unset /\ pc'[w] \notin {"take", "post", "exit"}
  BY <1>1, <1>4 DEF StallOf
<1>8. pc'[w] \in {"load", "swap", "judge"} => sample'[w] = sample[w] /\ pc[w] \in {"load", "swap", "judge"}
  BY <1>1
<1>9. StallOf(w)'
  BY <1>2, <1>3, <1>4, <1>5, <1>6, <1>7, <1>8, Zenon DEF StallOf
<1> QED
  BY <1>1, <1>9, StallOne, Zenon

\* Every step keeps the stall timer's invariant.
LEMMA StallStep == StallInv /\ BoolOK /\ GateOK /\ QueueOK /\ NodeOK /\ [Next]_vars => StallInv'
<1> SUFFICES ASSUME StallInv, BoolOK, GateOK, QueueOK, NodeOK, [Next]_vars PROVE StallInv'
  OBVIOUS
<1> USE DEF sendVars, gateVars, postVars, nodeVars, history
<1>0. UNCHANGED <<pc, sample, lowest, quiet, drained, excused, node, foreign>> => StallInv'
  <2>1. SUFFICES ASSUME UNCHANGED <<pc, sample, lowest, quiet, drained, excused, node, foreign>>
                 PROVE  StallInv'
    OBVIOUS
  <2>2. Pending' = Pending
    BY <2>1 DEF Pending, OwnPending, Executable
  <2>3. Pending \in Nat /\ Pending' \in Nat /\ Pending' <= Pending
    BY <2>2, PendingNat
  <2> QED
    BY <2>1, <2>3, StallFrame, Zenon DEF StallInv
<1>1. ASSUME NEW w \in Workers, Worker(w) PROVE StallInv'
  <2>1. CASE Take(w)
    <3>1. /\ pc[w] = "take"
          /\ UNCHANGED <<sample, quiet, drained, excused, node, foreign>>
      BY <2>1, Zenon DEF Take
    <3>2. lowest[w] = Unset /\ quiet[w] = 0 /\ ~drained[w]
      BY <3>1 DEF StallInv, StallOf, Waiting
    <3>3. /\ \A v \in Workers : v # w => pc'[v] = pc[v] /\ lowest'[v] = lowest[v]
          /\ \/ pc'[w] = "gate" /\ lowest'[w] = Highest
             \/ pc'[w] \in {"exit", "post"} /\ lowest'[w] = Unset
      <4>1. CASE canceled
        BY <2>1, <3>2, <4>1 DEF Take, Goto, QueueOK
      <4>2. CASE ~canceled
        BY <2>1, <4>2 DEF Take, Goto, QueueOK, GateOK
      <4> QED
        BY <4>1, <4>2
    <3>4. quiet'[w] = 0 /\ ~drained'[w]
      BY <3>1, <3>2, Zenon
    <3>5. StallOf(w)'
      <4>1. CASE pc'[w] = "gate" /\ lowest'[w] = Highest
        <5>1. ~Waiting(w)'
          BY <4>1 DEF Waiting, Highest
        <5>2. lowest'[w] # Unset' /\ lowest'[w] <= Highest'
          BY <4>1, BroadcastAssumption DEF Unset, Highest
        <5> QED
          BY <3>4, <4>1, <5>1, <5>2 DEF StallOf
      <4>2. CASE pc'[w] \in {"exit", "post"} /\ lowest'[w] = Unset
        BY <3>4, <4>2, StallOutside
      <4> QED
        BY <3>3, <4>1, <4>2
    <3> QED
      BY <3>1, <3>3, <3>5, StallOne, Zenon
  <2>2. CASE QueueEmpty(w)
    <3>1. /\ pc[w] = "take" /\ pc' = [pc EXCEPT ![w] = "exit"]
          /\ UNCHANGED <<sample, lowest, quiet, drained, excused, node, foreign>>
      BY <2>2, Zenon DEF QueueEmpty, Goto
    <3>2. lowest[w] = Unset /\ quiet[w] = 0 /\ ~drained[w]
      BY <3>1 DEF StallInv, StallOf, Waiting
    <3>3. pc'[w] = "exit" /\ \A v \in Workers : v # w => pc'[v] = pc[v]
      BY <3>1 DEF QueueOK
    <3>4. StallOf(w)'
      <4>1. lowest'[w] = Unset /\ quiet'[w] = 0 /\ ~drained'[w]
        BY <3>1, <3>2, Zenon
      <4> QED
        BY <3>3, <4>1, StallOutside
    <3> QED
      BY <3>1, <3>3, <3>4, StallOne, Zenon
  <2>3. CASE Sample(w)
    <3>1. /\ pc[w] = "gate" /\ pc' = [pc EXCEPT ![w] = "load"]
          /\ sample' = [sample EXCEPT ![w] = Pending]
          /\ UNCHANGED <<lowest, quiet, drained, excused, node, foreign>>
      BY <2>3, Zenon DEF Sample, Goto
    <3>2. /\ pc'[w] = "load" /\ sample'[w] = Pending
          /\ \A v \in Workers : v # w => pc'[v] = pc[v] /\ sample'[v] = sample[v]
      BY <3>1 DEF QueueOK, GateOK
    <3>3. Pending' = Pending /\ Pending \in Nat
      BY <3>1, PendingNat DEF Pending, OwnPending, Executable
    <3>4. StallOf(w)'
      <4>1. Waiting(w)' <=> Waiting(w)
        BY <3>1, Zenon DEF Waiting, Unset, Highest
      <4>2. StallOf(w)
        BY DEF StallInv
      <4>3. lowest'[w] <= Highest' <=> lowest[w] <= Highest
        BY <3>1, Zenon DEF Highest
      <4>4. lowest'[w] = Unset' <=> lowest[w] = Unset
        BY <3>1, Zenon DEF Unset
      <4>5. lowest[w] # Unset /\ pc'[w] \notin {"take", "post", "exit"}
        BY <3>1, <3>2, <4>2 DEF StallOf
      <4>6. sample'[w] = Pending /\ sample'[w] \in Nat
        BY <3>2, <3>3
      <4> QED
        BY <3>1, <3>3, <4>1, <4>2, <4>3, <4>4, <4>5, <4>6, Zenon DEF StallOf
    <3> QED
      BY <3>1, <3>2, <3>4, StallOne, Zenon
  <2>4. CASE SampleFails(w)
    BY <2>4, StallLeaves, Zenon DEF SampleFails, Goto
  <2>5. CASE LoadDeepest(w)
    <3>1. /\ pc[w] = "load" /\ pc' = [pc EXCEPT ![w] = "swap"]
          /\ UNCHANGED <<sample, lowest, quiet, drained, excused, node, foreign>>
      BY <2>5, Zenon DEF LoadDeepest, Goto
    <3> QED
      BY <3>1, StallMoves
  <2>6. CASE SwapDeepest(w)
    <3>1. /\ pc[w] = "swap"
          /\ pc' = [pc EXCEPT ![w] = "judge"] \/ pc' = [pc EXCEPT ![w] = "load"]
          /\ UNCHANGED <<sample, lowest, quiet, drained, excused, node, foreign>>
      BY <2>6, Zenon DEF SwapDeepest, Goto
    <3> QED
      BY <3>1, StallMoves
  <2>7. CASE Pass(w)
    BY <2>7, StallLeaves, Zenon DEF Pass, Goto
  <2>8. CASE NewLow(w)
    <3>1. /\ pc[w] = "judge" /\ sample[w] < lowest[w]
          /\ lowest' = [lowest EXCEPT ![w] = sample[w]]
          /\ quiet' = [quiet EXCEPT ![w] = 0]
          /\ sample' = [sample EXCEPT ![w] = Unset]
          /\ pc' = [pc EXCEPT ![w] = "pause"]
          /\ UNCHANGED <<node, foreign>>
      BY <2>8, Zenon DEF NewLow, Goto
    <3>2. /\ excused'[w] <=> Pending > sample[w]
          /\ ~drained'[w]
          /\ \A v \in Workers : v # w => excused'[v] = excused[v] /\ drained'[v] = drained[v]
      <4>1. /\ excused' = [excused EXCEPT ![w] = Pending > sample[w]]
            /\ drained' = [drained EXCEPT ![w] = FALSE]
        BY <2>8, Zenon DEF NewLow
      <4>2. excused \in [Workers -> BOOLEAN] /\ drained \in [Workers -> BOOLEAN]
        BY Zenon DEF BoolOK
      <4> HIDE DEF NewLow
      <4> QED
        BY <4>1, <4>2, Zenon
    <3>3. /\ lowest'[w] = sample[w] /\ quiet'[w] = 0 /\ pc'[w] = "pause"
          /\ \A v \in Workers : v # w =>
               /\ pc'[v] = pc[v] /\ sample'[v] = sample[v]
               /\ lowest'[v] = lowest[v] /\ quiet'[v] = quiet[v]
      BY <3>1 DEF QueueOK, GateOK
    <3>4. Pending' = Pending /\ Pending \in Nat
      BY <3>1, PendingNat DEF Pending, OwnPending, Executable
    <3>5. sample[w] \in Nat /\ lowest[w] <= Highest /\ lowest[w] \in Int
      BY <3>1 DEF StallInv, StallOf, GateOK
    <3>6. lowest'[w] <= Highest' /\ lowest'[w] # Unset'
      BY <3>1, <3>3, <3>5, BroadcastAssumption DEF Highest, Unset
    <3>7. ~excused'[w] => Pending' <= lowest'[w]
      <4>1. ~(Pending > sample[w]) => Pending <= sample[w]
        BY <3>4, <3>5
      <4> QED
        BY <3>2, <3>3, <3>4, <4>1, Zenon
    <3>8. Waiting(w)'
      BY <3>1, <3>3, <3>5, BroadcastAssumption DEF Waiting, Highest, Unset
    <3>9. pc'[w] \notin {"take", "post", "exit"} /\ pc'[w] \notin {"load", "swap", "judge"}
      BY <3>3
    <3>10. StallOf(w)'
      BY <3>2, <3>3, <3>6, <3>7, <3>8, <3>9, Zenon DEF StallOf
    <3> QED
      BY <3>1, <3>2, <3>3, <3>10, StallOne, Zenon
  <2>9. CASE NoNewLow(w)
    <3>1. CASE quiet[w] >= StallTimeout
      BY <2>9, <3>1, StallLeaves, Zenon DEF NoNewLow, Goto
    <3>2. CASE ~(quiet[w] >= StallTimeout)
      <4>1. /\ pc[w] = "judge" /\ sample' = [sample EXCEPT ![w] = Unset]
            /\ pc' = [pc EXCEPT ![w] = "pause"]
            /\ UNCHANGED <<lowest, quiet, drained, excused, node, foreign>>
        BY <2>9, <3>2, Zenon DEF NoNewLow, Goto
      <4>2. \A v \in Workers : v # w => sample'[v] = sample[v]
        BY <4>1 DEF GateOK
      <4> QED
        BY <4>1, <4>2, StallMoves
    <3> QED
      BY <3>1, <3>2, Zenon
  <2>10. CASE Resume(w)
    <3>1. /\ pc[w] = "pause" /\ pc' = [pc EXCEPT ![w] = "gate"]
          /\ UNCHANGED <<sample, lowest, quiet, drained, excused, node, foreign>>
      BY <2>10, Zenon DEF Resume, Goto
    <3> QED
      BY <3>1, StallMoves
  <2>11. CASE ResumeLater(w)
    <3>1. /\ pc[w] = "pause" /\ pc' = [pc EXCEPT ![w] = "gate"]
          /\ quiet' = [quiet EXCEPT ![w] = @ + 1]
          /\ UNCHANGED <<sample, lowest, node, foreign>>
      BY <2>11, Zenon DEF ResumeLater, Goto
    <3>2. /\ excused'[w] <=> excused[w] \/ ~drained[w]
          /\ ~drained'[w]
          /\ \A v \in Workers : v # w => excused'[v] = excused[v] /\ drained'[v] = drained[v]
      <4>1. /\ excused' = [excused EXCEPT ![w] = excused[w] \/ ~drained[w]]
            /\ drained' = [drained EXCEPT ![w] = FALSE]
        BY <2>11, Zenon DEF ResumeLater
      <4>2. excused \in [Workers -> BOOLEAN] /\ drained \in [Workers -> BOOLEAN]
        BY Zenon DEF BoolOK
      <4> HIDE DEF ResumeLater
      <4> QED
        BY <4>1, <4>2, Zenon
    <3>3. /\ pc'[w] = "gate"
          /\ \A v \in Workers : v # w => pc'[v] = pc[v] /\ quiet'[v] = quiet[v]
      BY <3>1 DEF QueueOK, GateOK
    <3>4. Pending' = Pending
      BY <3>1 DEF Pending, OwnPending, Executable
    <3>5. Waiting(w)' <=> Waiting(w)
      BY <3>1, Zenon DEF Waiting, Unset, Highest
    <3>6. lowest'[w] <= Highest' <=> lowest[w] <= Highest
      BY <3>1, Zenon DEF Highest
    <3>7. lowest'[w] = Unset' <=> lowest[w] = Unset
      BY <3>1, Zenon DEF Unset
    <3>8. StallOf(w)
      BY DEF StallInv
    <3>9. pc[w] \notin {"take", "post", "exit"} /\ pc'[w] \notin {"take", "post", "exit"}
          /\ pc'[w] \notin {"load", "swap", "judge"}
      BY <3>1, <3>3
    <3>10. StallOf(w)'
      BY <3>1, <3>2, <3>4, <3>5, <3>6, <3>7, <3>8, <3>9, Zenon DEF StallOf
    <3> QED
      BY <3>1, <3>2, <3>3, <3>10, StallOne, Zenon
  <2>12. CASE PauseCanceled(w)
    BY <2>12, StallLeaves, Zenon DEF PauseCanceled, Goto
  <2>13. CASE Deliver(w)
    <3>1. \E admitted : Executes(InHand(w), admitted)
      BY <2>13, Zenon DEF Deliver
    <3>2. UNCHANGED <<pc, sample, lowest, quiet, drained, foreign>>
      BY <2>13, Zenon DEF Deliver
    <3> QED
      BY <3>1, <3>2, StallExecutes, Zenon
  <2>14. CASE Record(w) \/ RecordError(w)
    <3>1. UNCHANGED <<sample, lowest, quiet, drained, excused, node, foreign>>
      BY <2>14, Zenon DEF Record, RecordError
    <3>2. pc[w] = "post" /\ pc'[w] = "take" /\ \A v \in Workers : v # w => pc'[v] = pc[v]
      BY <2>14, CloseFacts DEF QueueOK, Closes
    <3>3. lowest[w] = Unset /\ quiet[w] = 0 /\ ~drained[w]
      BY <3>2 DEF StallInv, StallOf, Waiting
    <3>4. StallOf(w)'
      <4>1. lowest'[w] = Unset /\ quiet'[w] = 0 /\ ~drained'[w]
        BY <3>1, <3>3, Zenon
      <4> QED
        BY <3>2, <4>1, StallOutside
    <3> QED
      BY <3>1, <3>2, <3>4, StallOne, Zenon
  <2> QED
    BY <1>1, <2>1, <2>2, <2>3, <2>4, <2>5, <2>6, <2>7, <2>8, <2>9, <2>10, <2>11, <2>12, <2>13, <2>14, Zenon DEF Worker, Gate
<1>2. CASE Return
  BY <1>0, <1>2, Zenon DEF Return
<1>3. CASE Cancel
  BY <1>0, <1>3, Zenon DEF Cancel
<1>4. CASE MineForeign
  <2>1. /\ foreign > 0 /\ foreign' = foreign - 1
        /\ drained' = [w \in Workers |-> lowest[w] \notin {Unset, Highest}]
        /\ UNCHANGED <<pc, sample, lowest, quiet, excused, node>>
    BY <1>4, Zenon DEF MineForeign
  <2>2. OwnPending' = OwnPending
    BY <2>1 DEF OwnPending, Executable
  <2>3. Pending' \in Nat /\ Pending' < Pending
    BY <2>1, <2>2, OwnPendingNat, BroadcastAssumption DEF Pending, GateOK
  <2> QED
    BY <2>1, <2>3, StallMines
<1>5. CASE ForeignArrives
  <2>1. /\ excused' = [v \in Workers |-> excused[v] \/ lowest[v] \notin {Unset, Highest}]
        /\ UNCHANGED <<pc, sample, lowest, quiet, drained>>
    BY <1>5, Zenon DEF ForeignArrives, Grows
  <2>2. \A v \in Workers : excused'[v] <=> excused[v] \/ lowest[v] \notin {Unset, Highest}
    BY <2>1, Zenon
  <2> QED
    BY <2>1, <2>2, StallGrows, Zenon DEF StallInv
<1>6. CASE StrayArrives
  <2>1. \E chunk, admitted : Executes(chunk, admitted)
    BY <1>6, Zenon DEF StrayArrives
  <2>2. UNCHANGED <<pc, sample, lowest, quiet, drained, foreign>>
    BY <1>6, Zenon DEF StrayArrives
  <2> QED
    BY <2>1, <2>2, StallExecutes, Zenon
<1>7. ASSUME NEW t \in Txs, MineOwn(t) PROVE StallInv'
  <2>1. /\ drained' = [w \in Workers |-> lowest[w] \notin {Unset, Highest}]
        /\ UNCHANGED <<pc, sample, lowest, quiet, excused, foreign>>
    BY <1>7, Zenon DEF MineOwn
  <2>2. OwnPending' < OwnPending /\ OwnPending \in Nat /\ OwnPending' \in Nat
    BY <1>7, MineTakes
  <2>3. foreign \in Nat /\ foreign' = foreign
    BY <2>1, BroadcastAssumption DEF GateOK
  <2>4. Pending = OwnPending + foreign /\ Pending' = OwnPending' + foreign'
    BY Zenon DEF Pending
  <2>5. Pending' \in Nat /\ Pending' < Pending
    <3>1. \A a, b, c \in Nat : a < b => a + c \in Nat /\ a + c < b + c
      OBVIOUS
    <3>2. OwnPending' + foreign \in Nat /\ OwnPending' + foreign < OwnPending + foreign
      BY <2>2, <2>3, <3>1, Zenon
    <3> QED
      BY <2>3, <2>4, <3>2, Zenon
  <2> QED
    BY <2>1, <2>5, StallMines
<1>8. CASE UNCHANGED vars
  BY <1>0, <1>8, Zenon DEF vars
<1> QED
  BY <1>1, <1>2, <1>3, <1>4, <1>5, <1>6, <1>7, <1>8, Zenon DEF Next, Environment, Block

\* The inductive invariant behind StallsAreReal.
LEMMA Stall == Spec => []StallInv
<1>1. Init => StallInv
  <2> SUFFICES ASSUME Init, NEW w \in Workers PROVE StallOf(w)
    BY DEF StallInv
  <2>1. pc[w] = "take" /\ lowest[w] = Unset /\ quiet[w] = 0 /\ ~drained[w]
    BY DEF Init
  <2>2. ~Waiting(w) /\ lowest[w] <= Highest
    BY <2>1, BroadcastAssumption DEF Waiting, Unset, Highest
  <2> QED
    BY <2>1, <2>2 DEF StallOf
<1> QED
  BY <1>1, StallStep, Types, PTL DEF Spec

\* PoolStalled is set only by a worker some tick of whose wait passed without a
\* block taking from the pool, or during whose wait the pool was added to.
THEOREM StallsAreReal == Spec => StalledMeansNotDraining
<1>1. StallInv /\ GateOK /\ QueueOK /\ [Next]_vars
        => [~stalled /\ stalled' =>
              \E w \in Workers : pc[w] = "judge" /\ pc'[w] = "post" /\ excused[w]]_vars
  <2> SUFFICES ASSUME StallInv, GateOK, QueueOK, Next, ~stalled, stalled'
               PROVE  \E w \in Workers : pc[w] = "judge" /\ pc'[w] = "post" /\ excused[w]
    OBVIOUS
  <2> USE DEF sendVars, gateVars, postVars, nodeVars, history
  <2>1. PICK w \in Workers : NoNewLow(w)
    <3>1. ASSUME NEW w \in Workers, Worker(w), ~NoNewLow(w) PROVE FALSE
      BY <3>1, Zenon DEF Worker, Gate, Take, QueueEmpty, Sample, SampleFails, LoadDeepest,
         SwapDeepest, Pass, NewLow, Resume, ResumeLater, PauseCanceled, Deliver, Record, RecordError
    <3>2. ASSUME Return \/ Environment PROVE FALSE
      BY <3>2, Zenon DEF Return, Environment, Cancel, Block, MineForeign, MineOwn, ForeignArrives,
         StrayArrives
    <3> QED
      BY <3>1, <3>2, Zenon DEF Next
  <2>2. quiet[w] >= StallTimeout /\ pc[w] = "judge" /\ sample[w] >= lowest[w] /\ Goto(w, "post")
    BY <2>1, Zenon DEF NoNewLow
  <2>3. quiet[w] # 0
    BY <2>2, BroadcastAssumption DEF GateOK
  <2>4. ~(sample[w] < lowest[w])
    BY <2>2 DEF GateOK
  <2>5. excused[w]
    BY <2>2, <2>3, <2>4 DEF StallInv, StallOf
  <2>6. pc'[w] = "post"
    BY <2>2 DEF Goto, QueueOK
  <2> QED
    BY <2>2, <2>5, <2>6
<1> QED
  BY <1>1, Stall, Types, PTL DEF Spec, StalledMeansNotDraining

-----------------------------------------------------------------------------
(* The watermark.  A worker that read the pool at or below the watermark   *)
(* is armed until it has posted; what the pool holds, together with what   *)
(* the armed workers have in hand, only grows when a worker reads a pool   *)
(* at or below the watermark.                                              *)

Clean == failed = {} /\ rejected = {} /\ ~stalled /\ ~blind

Armed(w) ==
  pc[w] = "post" \/ (pc[w] \in {"load", "swap", "judge"} /\ sample[w] <= Opts.Watermark)

Pooled == {t \in Txs : Executable(t)}

Claimed == {t \in Txs : \E w \in Workers : Armed(w) /\ t \in Range(InHand(w))}

Claim == Pooled \cup Claimed

ClaimFits == Cardinality(Claim) <= Opts.Watermark + NumWorkers * Opts.BatchSize

ClaimInv == InOrder /\ Clean /\ Opts.Watermark < Total => ClaimFits

\* Only what was taken reached the node, and only that is there.
SeenInv ==
  /\ \A q \in DOMAIN Queue : \A i \in 1..Len(Queue[q]) :
       i > next[q] => \A t \in Range(Queue[q][i]) : t \notin seen
  /\ \A t \in Txs : node[t] # "absent" => t \in seen

\* Every step sends only what was taken.
LEMMA SeenStep ==
  SeenInv /\ CountInv /\ HandInv /\ QueueOK /\ NodeOK /\ [Next]_vars => SeenInv'
<1> SUFFICES ASSUME SeenInv, CountInv, HandInv, QueueOK, NodeOK, [Next]_vars PROVE SeenInv'
  OBVIOUS
<1>0. \A q \in DOMAIN Queue : Len(Queue[q]) \in Nat /\ next[q] \in Nat
  BY RequestsAre DEF QueueOK
<1>1. CASE Drifts
  BY <1>1 DEF Drifts, SeenInv
<1>2. ASSUME NEW chunk, NEW admitted, Executes(chunk, admitted), next' = next,
             \A q \in DOMAIN Queue : \A i \in 1..Len(Queue[q]) :
               i > next[q] => \A t \in Range(Queue[q][i]) : t \notin Range(chunk)
      PROVE  SeenInv'
  <2>1. /\ \A t \in admitted : t \in Range(chunk)
        /\ \A t \in Txs : node'[t] = IF t \in admitted THEN "pooled" ELSE node[t]
        /\ seen' = seen \cup Range(chunk)
    BY <1>2, ExecutesFacts
  <2>2. \A t \in Txs : node'[t] # "absent" => t \in seen'
    BY <2>1 DEF SeenInv
  <2>3. \A q \in DOMAIN Queue : \A i \in 1..Len(Queue[q]) :
          i > next'[q] => \A t \in Range(Queue[q][i]) : t \notin seen'
    BY <1>2, <2>1 DEF SeenInv
  <2> QED
    BY <2>2, <2>3 DEF SeenInv
<1>3. CASE StrayArrives
  <2>1. PICK chunk \in strays : \E admitted : Executes(chunk, admitted)
    BY <1>3, StrayFacts, Zenon
  <2>2. next' = next
    BY <1>3, StrayFacts
  <2>3. \A q \in DOMAIN Queue : \A i \in 1..Len(Queue[q]) :
          i > next[q] => \A t \in Range(Queue[q][i]) : t \notin Range(chunk)
    BY <2>1 DEF CountInv, Open
  <2> QED
    BY <1>2, <2>1, <2>2, <2>3, Zenon
<1>4. ASSUME NEW w \in Workers, Deliver(w) PROVE SeenInv'
  <2>1. Holds(w) /\ next' = next /\ \E admitted : Executes(InHand(w), admitted)
    BY <1>4, DeliverFacts DEF Holds
  <2>2. /\ QueueOf(w) \in DOMAIN Queue /\ cur[w] \in 1..Len(Queue[QueueOf(w)])
        /\ cur[w] \in 1..next[QueueOf(w)]
    BY <2>1, HeldOpen DEF HandInv
  <2>3. ASSUME NEW q \in DOMAIN Queue, NEW i \in 1..Len(Queue[q]), i > next[q],
               NEW t \in Range(Queue[q][i])
        PROVE  t \notin Range(InHand(w))
    <3>1. ~(q = QueueOf(w) /\ i = cur[w])
      BY <1>0, <2>2, <2>3
    <3> QED
      BY <2>2, <3>1, RequestsAre DEF InHand
  <2> QED
    BY <1>2, <2>1, <2>3, Zenon
<1>5. ASSUME NEW w \in Workers, Take(w) PROVE SeenInv'
  <2>1. /\ next' = [next EXCEPT ![QueueOf(w)] = next[QueueOf(w)] + 1]
        /\ UNCHANGED <<node, seen>>
    BY <1>5, TakeFacts, Zenon
  <2>2. \A q \in DOMAIN Queue : next'[q] \in Nat /\ next[q] <= next'[q]
    BY <1>0, <2>1 DEF QueueOK
  <2>3. \A q \in DOMAIN Queue : \A i \in 1..Len(Queue[q]) : i > next'[q] => i > next[q]
    BY <1>0, <2>2
  <2> QED
    BY <2>1, <2>3 DEF SeenInv
<1>6. ASSUME NEW w \in Workers, Closes(w) PROVE SeenInv'
  <2>1. UNCHANGED <<next, node, seen>>
    BY <1>6, CloseFacts, Zenon
  <2> QED
    BY <2>1 DEF SeenInv
<1> QED
  BY <1>1, <1>3, <1>4, <1>5, <1>6, Kinds, Zenon DEF Closes

\* Workers whose hands are counted claim at most a batch each.
LEMMA ClaimedBound ==
  ASSUME QueueOK, HandInv
  PROVE  /\ IsFiniteSet(Claimed)
         /\ Cardinality(Claimed) \in Nat
         /\ Cardinality(Claimed) <= NumWorkers * Opts.BatchSize
<1> DEFINE B == Opts.BatchSize
           P == Workers \X (1..B)
           At(t, p) == Armed(p[1]) /\ p[2] \in 1..Len(InHand(p[1])) /\ InHand(p[1])[p[2]] = t
           f == [t \in Claimed |-> CHOOSE p \in P : At(t, p)]
<1>1. B \in Nat /\ NumWorkers \in Nat
  BY OptsAre
<1>2. IsFiniteSet(P) /\ Cardinality(P) = NumWorkers * B
  <2>1. IsFiniteSet(Workers) /\ Cardinality(Workers) = NumWorkers
    BY <1>1, FS_Interval DEF Workers
  <2>2. IsFiniteSet(1..B) /\ Cardinality(1..B) = B
    BY <1>1, FS_Interval
  <2> QED
    BY <2>1, <2>2, FS_Product
<1>3. ASSUME NEW t \in Claimed PROVE \E p \in P : At(t, p)
  <2>1. PICK w \in Workers : Armed(w) /\ t \in Range(InHand(w))
    BY DEF Claimed
  <2>2. Holds(w)
    BY <2>1 DEF Armed, Holds
  <2>3. /\ QueueOf(w) \in DOMAIN Queue /\ cur[w] \in 1..Len(Queue[QueueOf(w)])
    BY <2>2, HeldOpen
  <2>4. InHand(w) \in Seq(Txs) /\ Len(InHand(w)) \in 1..B
    <3>1. Queue[QueueOf(w)] \in Seq(Seq(Txs))
      BY <2>3, RequestsAre
    <3>2. InHand(w) \in Seq(Txs)
      BY <2>3, <3>1 DEF InHand
    <3>3. Len(Queue[QueueOf(w)][cur[w]]) \in 1..Opts.BatchSize
      BY <2>3, RequestsAre, Zenon
    <3> QED
      BY <3>2, <3>3, Zenon DEF InHand, B
  <2>5. PICK i \in 1..Len(InHand(w)) : InHand(w)[i] = t
    BY <2>1, <2>4 DEF Range
  <2>6. i \in 1..B
    BY <1>1, <2>4, <2>5
  <2>7. <<w, i>> \in P /\ At(t, <<w, i>>)
    BY <2>1, <2>5, <2>6
  <2> QED
    BY <2>7
<1> HIDE DEF P, At
<1>4. \A t \in Claimed : f[t] \in P /\ At(t, f[t])
  BY <1>3
<1>5. f \in [Claimed -> P]
  BY <1>4
<1>6. \A t, u \in Claimed : f[t] = f[u] => t = u
  BY <1>4 DEF At
<1>7. f \in Injection(Claimed, P)
  BY <1>5, <1>6 DEF Injection, IsInjective
<1> HIDE DEF f
<1>8. IsFiniteSet(Claimed) /\ Cardinality(Claimed) <= Cardinality(P)
  BY <1>2, <1>7, FS_Injection
<1> QED
  BY <1>2, <1>8, FS_CardinalityType DEF B

PoolFits == Cardinality(Pooled) <= Opts.Watermark

\* The claim is bounded whenever the pool is at or below the watermark.
LEMMA RoomForAll == QueueOK /\ HandInv /\ PoolFits => ClaimFits
<1> SUFFICES ASSUME QueueOK, HandInv, PoolFits PROVE ClaimFits
  OBVIOUS
<1>1. IsFiniteSet(Pooled) /\ Cardinality(Pooled) \in Nat
  BY TotalCovers, FS_Subset, FS_CardinalityType DEF Pooled
<1>2. /\ IsFiniteSet(Claimed) /\ Cardinality(Claimed) \in Nat
      /\ Cardinality(Claimed) <= NumWorkers * Opts.BatchSize
  BY ClaimedBound
<1>3. Cardinality(Claim) = Cardinality(Pooled) + Cardinality(Claimed) - Cardinality(Pooled \cap Claimed)
  BY <1>1, <1>2, FS_Union DEF Claim
<1>4. IsFiniteSet(Pooled \cap Claimed)
  BY <1>1, FS_Subset
<1>5. Cardinality(Pooled \cap Claimed) \in Nat
  BY <1>4, FS_CardinalityType
<1>6. Opts.Watermark \in Nat /\ NumWorkers * Opts.BatchSize \in Nat
  BY OptsAre
<1> QED
  BY <1>1, <1>2, <1>3, <1>5, <1>6 DEF PoolFits, ClaimFits

\* A step that claims nothing new keeps the bound.
LEMMA ClaimKept ==
  ASSUME ClaimInv, InOrder /\ Clean' /\ Opts.Watermark < Total => Clean /\ Claim' \subseteq Claim
  PROVE  ClaimInv'
<1> SUFFICES ASSUME InOrder, Clean', Opts.Watermark < Total
             PROVE  Cardinality(Claim') <= Opts.Watermark + NumWorkers * Opts.BatchSize
  BY DEF ClaimInv, ClaimFits
<1>1. Clean /\ Claim' \subseteq Claim
  BY Zenon
<1>2. Cardinality(Claim) <= Opts.Watermark + NumWorkers * Opts.BatchSize
  BY <1>1 DEF ClaimInv, ClaimFits
<1>3. Claim \subseteq Txs
  BY DEF Claim, Pooled, Claimed
<1>4. IsFiniteSet(Claim)
  BY <1>3, TotalCovers, FS_Subset
<1>5. IsFiniteSet(Claim') /\ Cardinality(Claim') <= Cardinality(Claim)
  BY <1>1, <1>4, FS_Subset
<1>6. Cardinality(Claim) \in Nat /\ Cardinality(Claim') \in Nat
  BY <1>4, <1>5, FS_CardinalityType
<1>7. Opts.Watermark + NumWorkers * Opts.BatchSize \in Nat
  BY OptsAre
<1> QED
  BY <1>2, <1>5, <1>6, <1>7

\* What is counted, declared or missed stays so.
LEMMA CleanBack ==
  ASSUME QueueOK, NodeOK, [Next]_vars, Clean'
  PROVE  Clean
<1>1. failed \subseteq failed' /\ rejected \subseteq rejected'
  BY Forward, Zenon
<1>2. stalled => stalled'
  BY Zenon DEF Next, Environment, Block, Worker, Gate, Return, Cancel, MineForeign, MineOwn,
     ForeignArrives, StrayArrives, Take, QueueEmpty, Sample, SampleFails, LoadDeepest, SwapDeepest,
     Pass, NewLow, NoNewLow, Resume, ResumeLater, PauseCanceled, Deliver, Record, RecordError,
     sendVars, gateVars, postVars, nodeVars, history, vars
<1>3. blind => blind'
  BY Zenon DEF Next, Environment, Block, Worker, Gate, Return, Cancel, MineForeign, MineOwn,
     ForeignArrives, StrayArrives, Take, QueueEmpty, Sample, SampleFails, LoadDeepest, SwapDeepest,
     Pass, NewLow, NoNewLow, Resume, ResumeLater, PauseCanceled, Deliver, Record, RecordError,
     sendVars, gateVars, postVars, nodeVars, history, vars
<1> QED
  BY <1>1, <1>2, <1>3 DEF Clean

\* A worker is armed by a sample only.
LEMMA ArmedBySample ==
  ASSUME GateOK, QueueOK, NEW w \in Workers, Worker(w), ~Sample(w), Clean', Opts.Watermark < Total,
         NEW v \in Workers, Armed(v)'
  PROVE  Armed(v) /\ cur'[v] = cur[v]
<1> USE DEF sendVars, gateVars, postVars, nodeVars, history
<1>0. ASSUME NEW l, pc' = [pc EXCEPT ![w] = l], cur' = cur,
             \A u \in Workers : u # w => sample'[u] = sample[u],
             (l = "post" \/ (l \in {"load", "swap", "judge"} /\ sample'[w] <= Opts.Watermark))
               => Armed(w)
      PROVE  Armed(v) /\ cur'[v] = cur[v]
  <2>1. CASE v = w
    BY <1>0, <2>1 DEF Armed, QueueOK
  <2>2. CASE v # w
    <3>1. pc'[v] = pc[v] /\ sample'[v] = sample[v]
      BY <1>0, <2>2 DEF QueueOK
    <3> QED
      BY <1>0, <3>1 DEF Armed
  <2> QED
    BY <2>1, <2>2
<1>1. CASE Take(w)
  <2>1. /\ PollEvery = 1 /\ sample' = sample
        /\ ~canceled => cur' = [cur EXCEPT ![w] = next[QueueOf(w)] + 1]
        /\ canceled => cur' = cur
    BY <1>1, OptsAre, TotalCovers DEF PollEvery, Take
  <2>2. Len(Queue[QueueOf(w)][next[QueueOf(w)] + 1]) \in Nat \ {0}
    <3>1. /\ next[QueueOf(w)] < Len(Queue[QueueOf(w)]) /\ QueueOf(w) \in DOMAIN Queue
          /\ Len(Queue[QueueOf(w)]) \in Nat /\ next[QueueOf(w)] \in Nat
      BY <1>1, WorkerQueue DEF Take, QueueOK
    <3>2. next[QueueOf(w)] + 1 \in 1..Len(Queue[QueueOf(w)])
      BY <3>1
    <3>3. Len(Queue[QueueOf(w)][next[QueueOf(w)] + 1]) \in 1..Opts.BatchSize
      BY <3>1, <3>2, RequestsAre
    <3> QED
      BY <3>3, OptsAre
  <2>3. sincePoll[w] + Len(Queue[QueueOf(w)][next[QueueOf(w)] + 1]) >= PollEvery
    BY <2>1, <2>2 DEF QueueOK
  <2>4. pc' = [pc EXCEPT ![w] = "exit"] \/ pc' = [pc EXCEPT ![w] = "gate"]
    BY <1>1, <2>3, Zenon DEF Take, Goto
  <2>5. v # w /\ pc'[v] = pc[v]
    BY <2>4 DEF Armed, QueueOK
  <2>6. cur'[v] = cur[v]
    BY <2>1, <2>5 DEF QueueOK
  <2> QED
    BY <2>1, <2>5, <2>6 DEF Armed
<1>2. CASE QueueEmpty(w)
  BY <1>0, <1>2 DEF QueueEmpty, Goto
<1>4. CASE SampleFails(w)
  BY <1>4 DEF SampleFails, Clean
<1>5. CASE LoadDeepest(w)
  BY <1>0, <1>5 DEF LoadDeepest, Goto, Armed
<1>6. CASE SwapDeepest(w)
  <2>1. \/ pc' = [pc EXCEPT ![w] = "judge"]
        \/ pc' = [pc EXCEPT ![w] = "load"]
    BY <1>6, Zenon DEF SwapDeepest, Goto
  <2>2. pc[w] = "swap" /\ sample' = sample /\ cur' = cur
    BY <1>6, Zenon DEF SwapDeepest
  <2> QED
    BY <1>0, <2>1, <2>2 DEF Armed
<1>7. CASE Pass(w)
  <2>1. /\ pc[w] = "judge" /\ Room(w) /\ pc' = [pc EXCEPT ![w] = "post"] /\ cur' = cur
        /\ stalled' = stalled /\ sample' = [sample EXCEPT ![w] = Unset]
    BY <1>7, Zenon DEF Pass, Goto, LeaveGate
  <2>2. Armed(w)
    BY <2>1 DEF Room, Clean, Armed
  <2> QED
    BY <1>0, <2>1, <2>2 DEF GateOK
<1>8. CASE NewLow(w)
  <2>1. /\ pc' = [pc EXCEPT ![w] = "pause"] /\ cur' = cur
        /\ sample' = [sample EXCEPT ![w] = Unset]
    BY <1>8, Zenon DEF NewLow, Goto
  <2> QED
    BY <1>0, <2>1 DEF GateOK
<1>9. CASE NoNewLow(w)
  <2>1. CASE quiet[w] >= StallTimeout
    BY <1>9, <2>1 DEF NoNewLow, Clean
  <2>2. CASE ~(quiet[w] >= StallTimeout)
    <3>1. /\ pc' = [pc EXCEPT ![w] = "pause"] /\ cur' = cur
          /\ sample' = [sample EXCEPT ![w] = Unset]
      BY <1>9, <2>2, Zenon DEF NoNewLow, Goto
    <3> QED
      BY <1>0, <3>1 DEF GateOK
  <2> QED
    BY <2>1, <2>2
<1>10. CASE Resume(w)
  BY <1>0, <1>10 DEF Resume, Goto
<1>11. CASE ResumeLater(w)
  BY <1>0, <1>11 DEF ResumeLater, Goto
<1>12. CASE PauseCanceled(w)
  <2>1. /\ pc' = [pc EXCEPT ![w] = "exit"] /\ cur' = cur
        /\ sample' = [sample EXCEPT ![w] = Unset]
    BY <1>12, Zenon DEF PauseCanceled, Goto, LeaveGate
  <2> QED
    BY <1>0, <2>1 DEF GateOK
<1>13. CASE Deliver(w)
  BY <1>13 DEF Deliver, Armed
<1>14. CASE Record(w) \/ RecordError(w)
  <2>1. pc'[w] = "take" /\ \A u \in Workers : u # w => pc'[u] = pc[u] /\ cur'[u] = cur[u]
    BY <1>14, CloseFacts DEF QueueOK, Closes
  <2>2. sample' = sample
    BY <1>14, Zenon DEF Record, RecordError
  <2>3. v # w
    BY <2>1 DEF Armed
  <2> QED
    BY <2>1, <2>2, <2>3 DEF Armed
<1> QED
  BY <1>1, <1>2, <1>4, <1>5, <1>6, <1>7, <1>8, <1>9, <1>10, <1>11, <1>12, <1>13, <1>14, Zenon DEF Worker, Gate

\* In a clean ordered send an execution makes nothing executable but what its
\* worker has in hand: what came before it is at the node, what comes after is not.
LEMMA DeliverReleases ==
  ASSUME InOrder, Clean, DoneInv, HandInv, SeenInv, QueueOK, NodeOK,
         NEW w \in Workers, Deliver(w), NEW t \in Txs, Executable(t)', ~Executable(t)
  PROVE  t \in Range(InHand(w))
<1>1. PICK admitted : Executes(InHand(w), admitted)
  BY DeliverFacts, Zenon
<1>2. /\ \A u \in admitted : u \in Range(InHand(w)) /\ node[u] = "absent"
      /\ \A u \in Txs : node'[u] = IF u \in admitted THEN "pooled" ELSE node[u]
  BY <1>1, ExecutesFacts
<1>3. CASE t \in admitted
  BY <1>2, <1>3
<1>4. CASE t \notin admitted
  <2>1. node'[t] = "pooled" /\ node[t] = "pooled"
    BY <1>2, <1>4 DEF Executable
  <2>2. PICK k \in 1..(t[2] - 1) : node[<<t[1], k>>] = "absent" /\ node'[<<t[1], k>>] # "absent"
    BY <2>1 DEF Executable
  <2> DEFINE u == <<t[1], k>>
  <2>3. u \in Txs /\ u[1] = t[1] /\ u[2] < t[2]
    BY <2>2, Earlier
  <2> HIDE DEF u
  <2>4. node[u] = "absent" /\ node'[u] # "absent"
    BY <2>2, Zenon DEF u
  <2>5. u \in Range(InHand(w))
    BY <1>2, <2>3, <2>4
  <2>6. pc[w] = "post"
    BY DeliverFacts
  <2>7. Holds(w) /\ QueueOf(w) = w
    BY <2>6, OwnQueue DEF Holds
  <2>8. w \in DOMAIN Queue /\ cur[w] \in 1..Len(Queue[w]) /\ cur[w] = next[w]
    BY <2>7, HeldOpen DEF HandInv
  <2>9. u \in Range(Queue[w][cur[w]])
    BY <2>5, <2>7 DEF InHand
  <2>10. PICK q \in DOMAIN Queue : \E i \in 1..Len(Queue[q]) : t \in Range(Queue[q][i])
    BY RequestsAre, Zenon
  <2>11. PICK i \in 1..Len(Queue[q]) : t \in Range(Queue[q][i])
    BY <2>10
  <2>12. q = w /\ cur[w] <= i
    <3>1. \A x \in Range(Queue[q][i]), y \in Range(Queue[w][cur[w]]) :
            x[1] = y[1] /\ y[2] < x[2] => q = w /\ cur[w] <= i
      BY <2>8, <2>11, RequestsAre
    <3>2. t[1] = u[1] /\ u[2] < t[2] => q = w /\ cur[w] <= i
      BY <2>9, <2>11, <3>1
    <3> QED
      BY <2>3, <3>2
  <2>13. ~(i > next[w])
    <3>1. t \in seen
      BY <2>1 DEF SeenInv
    <3> QED
      BY <2>11, <2>12, <3>1 DEF SeenInv
  <2>14. i = cur[w]
    <3>1. i \in Nat /\ next[w] \in Nat
      BY <2>8, <2>11, <2>12 DEF QueueOK
    <3> QED
      BY <2>8, <2>12, <2>13, <3>1
  <2> QED
    BY <2>7, <2>11, <2>12, <2>14 DEF InHand
<1> QED
  BY <1>3, <1>4

\* Every step keeps the claim bounded.
LEMMA ClaimStep ==
  /\ ClaimInv /\ SeenInv /\ DoneInv /\ CountInv /\ HandInv
  /\ GateOK /\ QueueOK /\ NodeOK
  /\ [Next]_vars
  => ClaimInv'
<1> SUFFICES ASSUME ClaimInv, SeenInv, DoneInv, CountInv, HandInv, GateOK, QueueOK, NodeOK,
                    [Next]_vars
             PROVE  ClaimInv'
  OBVIOUS
<1> USE DEF sendVars, gateVars, postVars, nodeVars, history
\* No step but an execution makes a transaction executable.
<1>1. ASSUME \A u \in Txs : node'[u] = node[u] \/ (node[u] = "pooled" /\ node'[u] = "mined"),
             NEW t \in Txs, Executable(t)'
      PROVE  Executable(t)
  <2>1. node[t] = "pooled"
    BY <1>1 DEF Executable
  <2>2. \A k \in 1..(t[2] - 1) : node[<<t[1], k>>] # "absent"
    BY <1>1, Earlier DEF Executable
  <2> QED
    BY <2>1, <2>2 DEF Executable
<1>2. ASSUME \A t \in Txs : Executable(t)' => Executable(t) \/ t \in Claimed,
             \A v \in Workers : Armed(v)' => Armed(v) /\ cur'[v] = cur[v]
      PROVE  Claim' \subseteq Claim
  <2>1. \A v \in Workers : Armed(v)' => Armed(v) /\ InHand(v)' = InHand(v)
    BY <1>2 DEF InHand
  <2>2. Claimed' \subseteq Claimed
    BY <2>1 DEF Claimed
  <2>3. Pooled' \subseteq Pooled \cup Claimed
    BY <1>2 DEF Pooled
  <2> QED
    BY <2>2, <2>3 DEF Claim
<1>3. ASSUME UNCHANGED <<pc, sample, cur>>, Clean',
             \A t \in Txs : Executable(t)' => Executable(t) \/ t \in Claimed
      PROVE  Claim' \subseteq Claim
  BY <1>2, <1>3 DEF Armed
<1>4. ASSUME NEW w \in Workers, Sample(w) PROVE ClaimInv'
  <2>1. /\ pc[w] = "gate" /\ pc' = [pc EXCEPT ![w] = "load"]
        /\ sample' = [sample EXCEPT ![w] = Pending]
        /\ UNCHANGED <<cur, next, node, foreign>>
    BY <1>4, Zenon DEF Sample, Goto
  <2>2. Pooled' = Pooled
    BY <2>1 DEF Pooled, Executable
  <2>3. CASE Pending <= Opts.Watermark
    <3>1. Cardinality(Pooled') <= Opts.Watermark
      <4>1. OwnPending \in Nat /\ foreign \in Nat /\ Opts.Watermark \in Nat
        BY OwnPendingNat, OptsAre, BroadcastAssumption DEF GateOK
      <4>2. OwnPending + foreign <= Opts.Watermark
        BY <2>3 DEF Pending
      <4>3. OwnPending <= Opts.Watermark
        BY <4>1, <4>2
      <4> QED
        BY <2>2, <4>3, Zenon DEF OwnPending, Pooled
    <3>2. QueueOK' /\ HandInv'
      BY QueueStep, HandStep, Zenon
    <3>3. PoolFits'
      BY <3>1, Zenon DEF PoolFits
    <3>4. ClaimFits'
      BY <3>2, <3>3, RoomForAll, PTL
    <3> QED
      BY <3>4, Zenon DEF ClaimInv
  <2>4. CASE ~(Pending <= Opts.Watermark)
    <3>1. \A v \in Workers : Armed(v)' => Armed(v)
      BY <2>1, <2>4 DEF Armed, QueueOK, GateOK
    <3>2. Claim' \subseteq Claim
      <4>1. \A t \in Txs : Executable(t)' => Executable(t)
        BY <2>1 DEF Executable
      <4> QED
        BY <1>2, <2>1, <3>1, <4>1
    <3> QED
      BY <3>2, CleanBack, ClaimKept
  <2> QED
    BY <2>3, <2>4
<1>5. ASSUME NEW w \in Workers, Worker(w), ~Sample(w), InOrder, Clean', Opts.Watermark < Total
      PROVE  Claim' \subseteq Claim
  <2>1. \A v \in Workers : Armed(v)' => Armed(v) /\ cur'[v] = cur[v]
    BY <1>5, ArmedBySample
  <2>2. CASE Deliver(w)
    <3>1. Clean /\ Armed(w)
      BY <1>5, <2>2, CleanBack, DeliverFacts DEF Armed
    <3>2. \A t \in Txs : Executable(t)' => Executable(t) \/ t \in Claimed
      BY <1>5, <2>2, <3>1, DeliverReleases DEF Claimed
    <3> QED
      BY <1>2, <2>1, <3>2
  <2>3. CASE ~Deliver(w)
    <3>1. node' = node
      BY <1>5, <2>3, Zenon DEF Worker, Gate, Take, QueueEmpty, SampleFails, LoadDeepest, SwapDeepest,
         Pass, NewLow, NoNewLow, Resume, ResumeLater, PauseCanceled, Record, RecordError
    <3> QED
      BY <1>1, <1>2, <2>1, <3>1
  <2> QED
    BY <2>2, <2>3
<1>6. ASSUME Return \/ Environment \/ UNCHANGED vars, Clean'
      PROVE  Claim' \subseteq Claim
  <2>1. UNCHANGED <<pc, sample, cur>>
    BY <1>6, Zenon DEF Return, Environment, Block, Cancel, MineForeign, MineOwn, ForeignArrives,
       StrayArrives, vars
  <2>2. \A t \in Txs : node'[t] = node[t] \/ (node[t] = "pooled" /\ node'[t] = "mined")
    <3>1. CASE StrayArrives
      <4>1. PICK chunk \in strays : \E admitted : Executes(chunk, admitted)
        BY <3>1, StrayFacts, Zenon
      <4>2. PICK admitted : Executes(chunk, admitted)
        BY <4>1, Zenon
      <4>3. Clean
        BY <1>6, CleanBack
      <4>4. \A t \in admitted : FALSE
        BY <4>1, <4>2, <4>3, ExecutesFacts DEF CountInv, Clean
      <4> QED
        BY <4>2, <4>4, ExecutesFacts
    <3>2. ASSUME NEW t \in Txs, MineOwn(t)
          PROVE  \A u \in Txs : node'[u] = node[u] \/ (node[u] = "pooled" /\ node'[u] = "mined")
      BY <3>2 DEF MineOwn, NodeOK
    <3>3. CASE node' = node
      BY <3>3
    <3>4. Return \/ Cancel \/ MineForeign \/ ForeignArrives \/ UNCHANGED vars => node' = node
      BY Zenon DEF Return, Cancel, MineForeign, ForeignArrives, vars
    <3> QED
      BY <1>6, <3>1, <3>2, <3>3, <3>4, Zenon DEF Environment, Block
  <2> QED
    BY <1>1, <1>3, <1>6, <2>1, <2>2
<1>7. ASSUME NEW w \in Workers, Worker(w) PROVE ClaimInv'
  BY <1>4, <1>5, <1>7, CleanBack, ClaimKept
<1>8. ASSUME Return \/ Environment \/ UNCHANGED vars PROVE ClaimInv'
  BY <1>6, <1>8, CleanBack, ClaimKept
<1> QED
  BY <1>7, <1>8, Zenon DEF Next

\* The inductive invariant behind OvershootIsBounded.
LEMMA ClaimHolds == Spec => [](SeenInv /\ ClaimInv)
<1>1. Init => SeenInv /\ ClaimInv
  <2> SUFFICES ASSUME Init PROVE SeenInv /\ ClaimInv
    OBVIOUS
  <2>1. seen = {} /\ \A t \in Txs : node[t] = "absent"
    BY DEF Init
  <2>2. Pooled = {}
    BY <2>1 DEF Pooled, Executable
  <2>3. QueueOK /\ HandInv
    BY InitTypes, InitDelivery DEF DeliveryInv
  <2>4. PoolFits
    BY <2>2, FS_EmptySet, OptsAre DEF PoolFits
  <2>5. ClaimFits
    BY <2>3, <2>4, RoomForAll
  <2> QED
    BY <2>1, <2>5 DEF SeenInv, ClaimInv
<1>2. /\ SeenInv /\ ClaimInv
      /\ DeliveryInv
      /\ GateOK /\ QueueOK /\ NodeOK
      /\ [Next]_vars
      => (SeenInv /\ ClaimInv)'
  BY SeenStep, ClaimStep, Zenon DEF DeliveryInv
<1> QED
  BY <1>1, <1>2, Delivery, Types, PTL DEF Spec

\* However the workers' checks and posts interleave, an ordered send exceeds the
\* watermark by at most one request per worker, as long as every request is
\* answered, every sample read and the pool not declared stuck.
THEOREM OvershootIsBounded == Spec => []OvershootBounded
<1>1. ClaimInv => OvershootBounded
  <2> SUFFICES ASSUME ClaimInv, InOrder, Clean
               PROVE  OwnPending <= Opts.Watermark + NumWorkers * Opts.BatchSize
    BY DEF OvershootBounded, Clean
  <2>1. Opts.Watermark \in Nat /\ NumWorkers * Opts.BatchSize \in Nat /\ Total \in Nat
    BY OptsAre, TotalCovers
  <2>2. Pooled \in SUBSET Txs /\ Claim \in SUBSET Txs /\ Pooled \in SUBSET Claim
    BY DEF Pooled, Claim, Claimed
  <2>3. OwnPending = Cardinality(Pooled)
    BY Zenon DEF OwnPending, Pooled
  <2>4. /\ IsFiniteSet(Claim)
        /\ Cardinality(Pooled) <= Cardinality(Txs)
    BY <2>2, TotalCovers, FS_Subset
  <2>5. Cardinality(Pooled) <= Cardinality(Claim)
    BY <2>2, <2>4, FS_Subset
  <2>6. Cardinality(Claim) \in Nat /\ Cardinality(Pooled) \in Nat /\ Cardinality(Txs) \in Nat
    BY <2>3, <2>4, FS_CardinalityType, OwnPendingNat, TotalCovers
  <2>7. CASE Opts.Watermark < Total
    <3>1. Cardinality(Claim) <= Opts.Watermark + NumWorkers * Opts.BatchSize
      BY <2>7 DEF ClaimInv, ClaimFits
    <3> QED
      BY <2>1, <2>3, <2>5, <2>6, <3>1
  <2>8. CASE ~(Opts.Watermark < Total)
    BY <2>1, <2>3, <2>4, <2>6, <2>8, TotalCovers
  <2> QED
    BY <2>7, <2>8
<1> QED
  BY <1>1, ClaimHolds, PTL
=============================================================================
