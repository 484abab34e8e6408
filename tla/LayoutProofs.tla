----------------------------- MODULE LayoutProofs -----------------------------
(***************************************************************************)
(* Proofs that whatever operations were begun, finished or failed before,  *)
(* the network a load meets is one generation's, is fresh where it must    *)
(* be, is the one PatchImage's source held, and can be generated again.    *)
(*                                                                         *)
(* The argument is Floyd's.  Follows says which step comes after which in  *)
(* the operations' lists, Pre what holds when a step is reached, whatever  *)
(* the operation; a step taken from its precondition establishes that of   *)
(* the next.  What must survive a failure at any step is invariant by      *)
(* itself: Whole, Idle, Contained, Fresh, Patched, Sourced.                *)
(***************************************************************************)
EXTENDS Layout, TLAPS

----------------------------------------------------------------------------
(* The order of the steps *)

Words ==
  {"clean", "mkdir", "wipe", "init", "collect", "distribute", "reset", "xtask", "write",
   "down", "compose", "up", "list", "given", "default", "build", "remove", "copy",
   "copylist", "copied", "load", "run"}

StepType == [do : Words, at : Places \cup {"image"}, n : Nat]

Go(do, p, n) == [do |-> do, at |-> p, n |-> n]

Homes == [Nodes -> Home]

Cosmos == setup.family = "cosmos"

\* How many homes a local PatchImage copies.
Copies == IF Cosmos THEN Validators ELSE N

Patching(x) ==
  /\ x.do \in {"given", "default"}
  /\ x.do = "default" => setup.patch # "given"
  /\ ~setup.docker => setup.patch # "off"

Running(x) == x = Go("run", "data", 0)

\* y comes right after x in the list of some operation.
Follows(x, y) ==
  /\ x.do = "clean" => y = Go("mkdir", OutPlace, 0)
  /\ x.do = "mkdir" => y = IF Cosmos THEN Go("wipe", x.at, 1)
                           ELSE Go(IF Compose THEN "down" ELSE "reset", x.at, 0)
  /\ x.do = "wipe" => y = Go("init", x.at, x.n)
  /\ x.do = "init" => y = IF x.n < Count THEN Go("wipe", x.at, x.n + 1)
                          ELSE Go("collect", x.at, 0)
  /\ x.do = "collect" => y = Go("distribute", x.at, 1)
  /\ x.do = "distribute" => y = IF x.n < Count THEN Go("distribute", x.at, x.n + 1)
                                ELSE Go("list", x.at, 0)
  /\ x.do = "down" => y = Go("reset", x.at, 0)
  /\ x.do = "reset" => y = IF setup.family = "reth" THEN Go("write", x.at, 1)
                           ELSE Go("xtask", x.at, 0)
  /\ x.do = "xtask" => y = Go("write", x.at, 1)
  /\ x.do = "write" => y = IF x.n < Count THEN Go("write", x.at, x.n + 1)
                           ELSE Go(IF Compose THEN "compose" ELSE "list", x.at, 0)
  /\ x.do = "compose" => y = Go("up", x.at, 1)
  /\ x.do = "up" => y = IF x.n < Count THEN Go("up", x.at, x.n + 1)
                        ELSE Go("list", x.at, 0)
  /\ x.do \in {"list", "load"} => Patching(y) \/ (setup.patch = "off" /\ Running(y))
  /\ x.do \in {"given", "default"} => y = IF setup.docker THEN Go("build", "image", 0)
                                          ELSE Go("remove", "data", 0)
  /\ x.do = "remove" => y = IF Cosmos THEN Go("copylist", "data", 0)
                            ELSE Go("copy", "data", 1)
  /\ x.do = "copy" => y = IF x.n < Copies THEN Go("copy", "data", x.n + 1)
                          ELSE Go(IF Cosmos THEN "copied" ELSE "copylist", "data", 0)
  /\ x.do = "copylist" => y = IF Cosmos THEN Go("copy", "data", 1)
                              ELSE Go("copied", "data", 0)
  /\ x.do \in {"build", "copied"} => setup.patch # "off" /\ Running(y)
  /\ x.do # "run"

Chain(s) == \A i \in 1..(Len(s) - 1) : Follows(s[i], s[i + 1])

Plan == todo \in Seq(StepType) /\ Chain(todo)

----------------------------------------------------------------------------
(* What holds when a step is reached *)

\* The step at hand, if there is one.
First == IF todo = <<>> THEN {} ELSE {todo[1]}

\* The operation under way is a workflow: it ends with the nodes started.
Runs == todo # <<>> /\ todo[Len(todo)].do = "run"

\* A generation is under way; a workflow's is in data_dir.
Generating(x) ==
  x.at \in Places /\ gens \in 1..MaxGens /\ (Runs => x.at = "data" /\ ~setup.skip)

Keyed(p, S) ==
  \A m \in S : home(p, m).keys = gens /\ home(p, m).genesis = 0 /\ ~home(p, m).used

Written(p, S) ==
  \A m \in S : home(p, m).keys = gens /\ home(p, m).genesis = gens /\ ~home(p, m).used

NoneUp == ~orphaned => \A m \in Nodes : containers[m] = NoContainer

\* The containers before the k-th are there, this generation's unless some survived.
UpBefore(k) ==
  \A m \in Nodes :
    /\ m < k => containers[m].at # None
    /\ ~orphaned /\ m < k =>
         /\ containers[m].home.keys = gens /\ containers[m].home.genesis = gens
         /\ ~containers[m].home.used
    /\ ~orphaned /\ m >= k => containers[m] = NoContainer

PreClean(x) == ~Runs /\ (Len(todo) > 1 => gens \in 1..MaxGens)

PreWipe(x) == Cosmos /\ Generating(x) /\ x.n \in 1..Count /\ Keyed(x.at, 1..(x.n - 1))

PreInit(x) == PreWipe(x) /\ home(x.at, x.n) = NoHome

PreCollect(x) == Cosmos /\ Generating(x) /\ Keyed(x.at, 1..Count)

PreDistribute(x) ==
  /\ Cosmos /\ Generating(x) /\ x.n \in 1..Count
  /\ Written(x.at, {1} \cup 1..(x.n - 1)) /\ Keyed(x.at, (x.n..Count) \ {1})

PreDown(x) == ~Cosmos /\ Compose /\ Generating(x)

PreReset(x) == ~Cosmos /\ Generating(x) /\ (Compose => NoneUp)

PreXtask(x) ==
  PreReset(x) /\ setup.family # "reth" /\ \A m \in Nodes : home(x.at, m) = NoHome

PreWrite(x) ==
  /\ PreReset(x) /\ x.n \in Nodes
  /\ Written(x.at, 1..(x.n - 1))
  /\ \A m \in x.n..N :
       IF setup.family = "reth" THEN home(x.at, m) = NoHome ELSE Keyed(x.at, {m})

PreCompose(x) == PreReset(x) /\ Compose /\ Written(x.at, Nodes)

PreUp(x) ==
  /\ ~Cosmos /\ Generating(x) /\ Compose /\ x.n \in Nodes
  /\ Written(x.at, Nodes) /\ files[x.at].compose /\ UpBefore(x.n)

PreList(x) == Generating(x) /\ Written(x.at, 1..Count) /\ (Compose => UpBefore(N + 1))

PreLoad(x) == Runs /\ setup.skip

\* What PatchImage must keep of what a workflow has generated.
Ready ==
  Runs =>
    /\ targets # None
    /\ ~setup.skip =>
         /\ targets = "data" /\ \A m \in 1..Count : ~home("data", m).used
         /\ Compose /\ ~orphaned => \A m \in Nodes : ~containers[m].home.used

SourceKept == source.from \in Places /\ files[source.from].homes = source.homes

PreBuild(x) == Ready /\ SourceKept /\ setup.docker

PreRemove(x) == Ready /\ SourceKept /\ ~setup.docker

\* The homes of the nodes in S have been copied.
Copying(S) ==
  /\ Ready /\ ~setup.docker /\ source.from \in Places
  /\ source.from = "out" /\ files["out"].exists =>
       /\ files["out"].homes = source.homes
       /\ \A m \in Nodes : home("data", m) = IF m \in S THEN source.homes[m] ELSE NoHome

PreCopy(x) == x.n \in 1..Copies /\ Copying(1..(x.n - 1))

PreCopyList(x) == Copying(IF Cosmos THEN {} ELSE Nodes)

PreCopied(x) ==
  Ready /\ ~setup.docker /\ source.from \in Places
    /\ (source.from = "out" =>
          source.homes \in Homes /\ \A m \in Nodes : home("data", m) = source.homes[m])

PreRun(x) ==
  /\ Ready /\ Runs
  /\ ~setup.skip /\ setup.patch = "off" =>
       gens \in 1..MaxGens /\ Written("data", 1..Count) /\ (Compose => UpBefore(N + 1))

Pre(x) ==
  /\ measured = <<>> /\ (x.do # "run" => ~source.done)
  /\ x.do = "clean" => PreClean(x)
  /\ x.do = "mkdir" => Generating(x)
  /\ x.do = "wipe" => PreWipe(x)
  /\ x.do = "init" => PreInit(x)
  /\ x.do = "collect" => PreCollect(x)
  /\ x.do = "distribute" => PreDistribute(x)
  /\ x.do = "down" => PreDown(x)
  /\ x.do = "reset" => PreReset(x)
  /\ x.do = "xtask" => PreXtask(x)
  /\ x.do = "write" => PreWrite(x)
  /\ x.do = "compose" => PreCompose(x)
  /\ x.do = "up" => PreUp(x)
  /\ x.do = "list" => PreList(x)
  /\ x.do = "load" => PreLoad(x)
  /\ x.do \in {"given", "default"} => Ready /\ Patching(x)
  /\ x.do = "build" => PreBuild(x)
  /\ x.do = "remove" => PreRemove(x)
  /\ x.do = "copy" => PreCopy(x)
  /\ x.do = "copylist" => PreCopyList(x)
  /\ x.do = "copied" => PreCopied(x)
  /\ x.do = "run" => PreRun(x)

Reached == \A x \in First : Pre(x)

----------------------------------------------------------------------------
(* What survives a failure at any step *)

\* Homes that are all complete are of one generation.
OneOf(hs) ==
  (\A n \in 1..Count : hs[n].keys # 0 /\ hs[n].genesis # 0)
    => \E g \in 1..MaxGens : \A n \in 1..Count : hs[n].keys = g /\ hs[n].genesis = g

Whole == (\A p \in Places : OneOf(files[p].homes)) /\ OneOf(image)

\* No node beyond Count has a home.
Idle == \A p \in Places : \A n \in Nodes : n > Count => home(p, n) = NoHome

\* A container runs on a complete home; unless some survived, all on one generation's.
Contained ==
  /\ \A n \in Nodes : containers[n].at # None =>
       containers[n].home.keys # 0 /\ containers[n].home.genesis # 0
  /\ ~orphaned => \E g \in 0..MaxGens : \A n \in Nodes : containers[n].home.keys # 0 =>
       containers[n].home.keys = g /\ containers[n].home.genesis = g

\* No chain runs on the homes an image is built from when the nodes run from the image,
\* nor on those outside data_dir when each workflow generates its own.
Fresh ==
  /\ Cosmos /\ setup.docker /\ ~MountHome =>
       \A n \in Nodes : ~image[n].used /\ \A p \in Places : ~home(p, n).used
  /\ ~setup.skip => \A n \in Nodes : ~home("out", n).used

\* A finished PatchImage.
Patched ==
  source.done =>
    /\ source.from \in Places
    /\ setup.docker => image = source.homes
    /\ ~setup.docker /\ source.from = "out" /\ measured = <<>> =>
         files["data"].homes = source.homes

\* Where a local PatchImage takes its homes from.
Sourced ==
  source.from \in Places /\ ~setup.docker =>
    setup.patch # "off" /\ (setup.patch = "given" /\ setup.out # "same" => source.from = "out")

\* TypeOK, with the types of what it leaves open.
Typed ==
  /\ TypeOK
  /\ source \in [from : Places \cup {None}, homes : Homes \cup {<<>>}, done : BOOLEAN]

\* What does not depend on the step at hand.
Settled ==
  /\ Whole /\ Idle /\ Contained /\ Fresh /\ Patched /\ Sourced
  /\ OneNetwork /\ FreshChain

IInv == Typed /\ Plan /\ Reached /\ Settled

----------------------------------------------------------------------------
(* The operations' lists are in order *)

\* What the number of nodes can be.
LEMMA Counts ==
  ASSUME setup \in Setups
  PROVE  /\ N \in Nat \ {0} /\ Validators \in 1..N
         /\ Count = (IF Cosmos /\ ~setup.docker THEN 1 ELSE N)
         /\ Count \in Nat \ {0} /\ Count <= N
         /\ 1..Count \subseteq Nodes /\ 1 \in 1..Count
         /\ Compose => Count = N /\ ~Cosmos
         /\ setup.family \in {"reth", "allegro"} => Count = N /\ ~setup.docker /\ ~Compose
         /\ setup \in Setup
  BY LayoutAssumption DEF Nodes, Count, Compose, Setup, Cosmos

Path(s, x, y) ==
  s \in Seq(StepType) /\ s # <<>> /\ Chain(s) /\ s[1] = x /\ s[Len(s)] = y

\* One step is a list in order.
LEMMA PathStep ==
  ASSUME NEW do \in Words, NEW p \in Places \cup {"image"}
  PROVE  Path(Step(do, p), Go(do, p, 0), Go(do, p, 0))
  BY DEF Path, Step, Go, StepType, Chain

\* Two lists in order are one if the first step of the second may follow the last of
\* the first.
LEMMA PathJoin ==
  ASSUME NEW s, NEW t, NEW x, NEW y, NEW u, NEW v,
         Path(s, x, y), Path(t, u, v), Follows(y, u)
  PROVE  Path(s \o t, x, v)
<1> DEFINE r == s \o t
           k == Len(s)
           l == Len(t)
<1>1. /\ s \in Seq(StepType) /\ t \in Seq(StepType) /\ s # <<>> /\ t # <<>>
      /\ k \in Nat /\ l \in Nat /\ k > 0 /\ l > 0
  BY DEF Path
<1>2. r \in Seq(StepType) /\ Len(r) = k + l
  BY <1>1
<1>3. \A i \in 1..(k + l) : r[i] = IF i <= k THEN s[i] ELSE t[i - k]
  BY <1>1
<1>4. Chain(s) /\ Chain(t) /\ s[1] = x /\ s[k] = y /\ t[1] = u /\ t[l] = v
  BY DEF Path
<1>5. r[1] = x /\ r[k + l] = v /\ r # <<>>
  BY <1>1, <1>2, <1>3, <1>4
<1> HIDE DEF r, k, l
<1>6. ASSUME NEW i \in 1..(k + l - 1) PROVE Follows(r[i], r[i + 1])
  <2>1. CASE i < k
    <3>1. i \in 1..(k - 1) /\ i \in 1..(k + l) /\ i + 1 \in 1..(k + l) /\ i + 1 <= k /\ i <= k
      BY <1>1, <2>1
    <3>2. r[i] = s[i]
      BY <3>1, <1>3
    <3>3. r[i + 1] = s[i + 1]
      BY <3>1, <1>3
    <3> QED BY <3>1, <3>2, <3>3, <1>4 DEF Chain, k
  <2>2. CASE i = k
    <3>1. r[i] = s[k] /\ r[i + 1] = t[1]
      BY <2>2, <1>1, <1>3
    <3> QED BY <3>1, <1>4
  <2>3. CASE i > k
    <3>1. /\ i - k \in 1..(l - 1) /\ i \in 1..(k + l) /\ i + 1 \in 1..(k + l)
          /\ (i + 1) - k = (i - k) + 1
      BY <1>1, <2>3
    <3>2. r[i] = t[i - k] /\ r[i + 1] = t[(i - k) + 1]
      BY <3>1, <2>3, <1>1, <1>3
    <3> QED BY <3>1, <3>2, <1>4 DEF Chain, l
  <2> QED BY <1>1, <2>1, <2>2, <2>3
<1> QED BY <1>2, <1>5, <1>6 DEF Path, Chain, r

\* A list of consecutive nodes is in order if one node may follow another.
LEMMA EachPath ==
  ASSUME NEW do \in Words, NEW p \in Places, NEW a \in Nat, NEW b \in Nat, a <= b,
         \A i \in a..(b - 1) : Follows(Go(do, p, i), Go(do, p, i + 1))
  PROVE  Path(Each(do, p, a, b), Go(do, p, a), Go(do, p, b))
<1> DEFINE s == Each(do, p, a, b)
           k == b + 1 - a
<1>1. k \in Nat /\ k > 0
  OBVIOUS
<1>2. \A i \in 1..k : Go(do, p, a + i - 1) \in StepType
  BY DEF Go, StepType
<1>3. s = [i \in 1..k |-> Go(do, p, a + i - 1)]
  BY DEF Each, Go
<1> HIDE DEF s, k
<1>4. s \in Seq(StepType) /\ Len(s) = k
  BY <1>1, <1>2, <1>3
<1>5. \A i \in 1..k : s[i] = Go(do, p, a + i - 1)
  BY <1>3
<1>6. ASSUME NEW i \in 1..(k - 1) PROVE Follows(s[i], s[i + 1])
  <2>1. i \in 1..k /\ i + 1 \in 1..k
    BY <1>1
  <2>2. s[i] = Go(do, p, a + i - 1) /\ s[i + 1] = Go(do, p, a + (i + 1) - 1)
    BY <2>1, <1>5
  <2>3. a + i - 1 \in a..(b - 1) /\ a + (i + 1) - 1 = (a + i - 1) + 1
    BY DEF k
  <2> QED BY <2>2, <2>3
<1>7. s[1] = Go(do, p, a)
  <2>1. a + 1 - 1 = a /\ 1 \in 1..k
    BY <1>1
  <2> QED BY <2>1, <1>5
<1>8. s[k] = Go(do, p, b)
  <2>1. a + k - 1 = b /\ k \in 1..k
    BY <1>1 DEF k
  <2> QED BY <2>1, <1>5
<1>9. s # <<>>
  BY <1>1, <1>4
<1> QED BY <1>4, <1>6, <1>7, <1>8, <1>9 DEF Path, Chain, s

\* The homes are wiped and initialised in turn.
LEMMA InitPath ==
  ASSUME setup \in Setups, NEW p \in Places
  PROVE  Path(InitSteps(p), Go("wipe", p, 1), Go("init", p, Count))
<1> DEFINE s == InitSteps(p)
           C == Count
           e(i) == IF i % 2 = 1 THEN Go("wipe", p, (i + 1) \div 2)
                   ELSE Go("init", p, (i + 1) \div 2)
<1>1. C \in Nat /\ C > 0 /\ 2 * C \in Nat
  BY Counts
<1>2. s = [i \in 1..(2 * C) |-> e(i)]
  BY DEF InitSteps, Go
<1> HIDE DEF s, C
<1>3. \A i \in 1..(2 * C) : (i + 1) \div 2 \in Nat
  BY <1>1
<1>4. \A i \in 1..(2 * C) : e(i) \in StepType
  BY <1>3 DEF Go, StepType, Words
<1>5. \A i \in 1..(2 * C) : s[i] = e(i)
  BY <1>2
<1>6. s \in Seq(StepType) /\ Len(s) = 2 * C
  <2> HIDE DEF e
  <2> QED BY <1>1, <1>2, <1>4
<1>7. ASSUME NEW i \in 1..((2 * C) - 1) PROVE Follows(s[i], s[i + 1])
  <2>0. i \in 1..(2 * C) /\ i + 1 \in 1..(2 * C)
    BY <1>1
  <2>1. s[i] = e(i) /\ s[i + 1] = e(i + 1)
    <3> HIDE DEF e
    <3> QED BY <2>0, <1>5
  <2>2. CASE i % 2 = 1
    <3>1. (i + 1) % 2 # 1 /\ ((i + 1) + 1) \div 2 = (i + 1) \div 2
      BY <2>2
    <3>2. e(i + 1) = Go("init", p, (i + 1) \div 2) /\ e(i) = Go("wipe", p, (i + 1) \div 2)
      BY <3>1, <2>2
    <3> QED BY <2>1, <3>2 DEF Follows, Go
  <2>3. CASE i % 2 # 1
    <3>1. /\ (i + 1) % 2 = 1 /\ ((i + 1) + 1) \div 2 = ((i + 1) \div 2) + 1
          /\ (i + 1) \div 2 < C
      BY <1>1, <2>3
    <3>2. /\ e(i + 1) = Go("wipe", p, ((i + 1) \div 2) + 1)
          /\ e(i) = Go("init", p, (i + 1) \div 2)
      BY <3>1, <2>3
    <3> QED BY <2>1, <3>1, <3>2 DEF Follows, Go, C
  <2> QED BY <2>2, <2>3
<1>8. s[1] = Go("wipe", p, 1)
  BY <1>1, <1>5
<1>9. s[2 * C] = Go("init", p, C)
  <2>1. (2 * C) % 2 # 1 /\ ((2 * C) + 1) \div 2 = C /\ 2 * C \in 1..(2 * C)
    BY <1>1
  <2> QED BY <2>1, <1>5
<1>10. s # <<>>
  BY <1>1, <1>6
<1> QED BY <1>6, <1>7, <1>8, <1>9, <1>10 DEF Path, Chain, s, C

\* Genesis by the Cosmos binary: homes, the leader's genesis, the others' copies.
LEMMA CosmosPath ==
  ASSUME setup \in Setups, NEW p \in Places
  PROVE  Path(CosmosSteps(p), Go("wipe", p, 1), Go("distribute", p, Count))
<1> DEFINE a == InitSteps(p)
           b == Step("collect", p)
           c == Each("distribute", p, 1, Count)
<1>1. Path(a, Go("wipe", p, 1), Go("init", p, Count))
  BY InitPath
<1>2. Path(b, Go("collect", p, 0), Go("collect", p, 0))
  BY PathStep DEF Words
<1>3. Count \in Nat /\ 1 <= Count
  BY Counts
<1>4. \A i \in 1..(Count - 1) :
        Follows(Go("distribute", p, i), Go("distribute", p, i + 1))
  BY <1>3 DEF Follows, Go
<1>5. Path(c, Go("distribute", p, 1), Go("distribute", p, Count))
  BY <1>3, <1>4, EachPath DEF Words
<1>6. Follows(Go("init", p, Count), Go("collect", p, 0))
  BY <1>3 DEF Follows, Go
<1>7. Follows(Go("collect", p, 0), Go("distribute", p, 1))
  BY DEF Follows, Go
<1>8. CosmosSteps(p) = a \o b \o c
  BY DEF CosmosSteps
<1> HIDE DEF a, b, c
<1>9. Path(a \o b, Go("wipe", p, 1), Go("collect", p, 0))
  BY <1>1, <1>2, <1>6, PathJoin
<1> QED BY <1>5, <1>7, <1>8, <1>9, PathJoin

\* The nodes of a devnet are written in turn.
LEMMA WritePath ==
  ASSUME setup \in Setups, NEW p \in Places
  PROVE  Path(Each("write", p, 1, Count), Go("write", p, 1), Go("write", p, Count))
<1>1. Count \in Nat /\ 1 <= Count
  BY Counts
<1>2. \A i \in 1..(Count - 1) : Follows(Go("write", p, i), Go("write", p, i + 1))
  BY <1>1 DEF Follows, Go
<1> QED BY <1>1, <1>2, EachPath DEF Words

\* reth writes its nodes over an empty directory.
LEMMA RethPath ==
  ASSUME setup \in Setups, setup.family = "reth", NEW p \in Places
  PROVE  Path(RethSteps(p), Go("reset", p, 0), Go("write", p, Count))
<1>1. Path(Step("reset", p), Go("reset", p, 0), Go("reset", p, 0))
  BY PathStep DEF Words
<1>2. Follows(Go("reset", p, 0), Go("write", p, 1))
  BY DEF Follows, Go
<1> QED BY <1>1, <1>2, WritePath, PathJoin DEF RethSteps

\* allegro and Tempo have xtask run in between.
LEMMA XtaskPath ==
  ASSUME setup \in Setups, setup.family # "reth", NEW p \in Places
  PROVE  Path(Step("reset", p) \o Step("xtask", p) \o Each("write", p, 1, Count),
              Go("reset", p, 0), Go("write", p, Count))
<1>1. Path(Step("reset", p), Go("reset", p, 0), Go("reset", p, 0))
  BY PathStep DEF Words
<1>2. Path(Step("xtask", p), Go("xtask", p, 0), Go("xtask", p, 0))
  BY PathStep DEF Words
<1>3. Follows(Go("reset", p, 0), Go("xtask", p, 0))
  BY DEF Follows, Go
<1>4. Follows(Go("xtask", p, 0), Go("write", p, 1))
  BY DEF Follows, Go
<1>5. Path(Step("reset", p) \o Step("xtask", p), Go("reset", p, 0), Go("xtask", p, 0))
  BY <1>1, <1>2, <1>3, PathJoin
<1> QED BY <1>4, <1>5, WritePath, PathJoin

\* Tempo in docker takes its containers down before, and brings them up after.
LEMMA ComposePath ==
  ASSUME setup \in Setups, Compose, NEW p \in Places
  PROVE  Path(TempoSteps(p), Go("down", p, 0), Go("up", p, Count))
<1> DEFINE d == Step("down", p)
           r == Step("reset", p)
           x == Step("xtask", p)
           w == Each("write", p, 1, Count)
           c == Step("compose", p)
           u == Each("up", p, 1, Count)
<1>1. Path(d, Go("down", p, 0), Go("down", p, 0))
  BY PathStep DEF Words
<1>2. Path(r, Go("reset", p, 0), Go("reset", p, 0))
  BY PathStep DEF Words
<1>3. Path(x, Go("xtask", p, 0), Go("xtask", p, 0))
  BY PathStep DEF Words
<1>4. Path(w, Go("write", p, 1), Go("write", p, Count))
  BY WritePath
<1>5. Path(c, Go("compose", p, 0), Go("compose", p, 0))
  BY PathStep DEF Words
<1>6. Count \in Nat /\ 1 <= Count
  BY Counts
<1>7. \A i \in 1..(Count - 1) : Follows(Go("up", p, i), Go("up", p, i + 1))
  BY <1>6 DEF Follows, Go
<1>8. Path(u, Go("up", p, 1), Go("up", p, Count))
  BY <1>6, <1>7, EachPath DEF Words
<1>9. setup.family # "reth"
  BY DEF Compose
<1>10. /\ Follows(Go("down", p, 0), Go("reset", p, 0))
       /\ Follows(Go("reset", p, 0), Go("xtask", p, 0))
       /\ Follows(Go("xtask", p, 0), Go("write", p, 1))
       /\ Follows(Go("compose", p, 0), Go("up", p, 1))
  BY <1>9 DEF Follows, Go
<1>11. Follows(Go("write", p, Count), Go("compose", p, 0))
  BY <1>6 DEF Follows, Go
<1>12. TempoSteps(p) = d \o r \o x \o w \o (c \o u)
  BY DEF TempoSteps
<1> HIDE DEF d, r, x, w, c, u
<1>13. Path(d \o r, Go("down", p, 0), Go("reset", p, 0))
  BY <1>1, <1>2, <1>10, PathJoin
<1>14. Path(d \o r \o x, Go("down", p, 0), Go("xtask", p, 0))
  BY <1>3, <1>10, <1>13, PathJoin
<1>15. Path(d \o r \o x \o w, Go("down", p, 0), Go("write", p, Count))
  BY <1>4, <1>10, <1>14, PathJoin
<1>16. Path(c \o u, Go("compose", p, 0), Go("up", p, Count))
  BY <1>5, <1>8, <1>10, PathJoin
<1> QED BY <1>11, <1>12, <1>15, <1>16, PathJoin

\* Tempo on the host is like allegro.
LEMMA TempoPath ==
  ASSUME setup \in Setups, setup.family = "tempo", ~Compose, NEW p \in Places
  PROVE  Path(TempoSteps(p), Go("reset", p, 0), Go("write", p, Count))
<1> DEFINE r == Step("reset", p)
           x == Step("xtask", p)
           w == Each("write", p, 1, Count)
<1>1. Path(r \o x \o w, Go("reset", p, 0), Go("write", p, Count))
  BY XtaskPath
<1>2. TempoSteps(p) = <<>> \o r \o x \o w \o <<>>
  BY DEF TempoSteps
<1>3. r \in Seq(StepType)
  BY PathStep DEF Path, Words
<1>4. <<>> \o r = r
  BY <1>3
<1>5. r \o x \o w \in Seq(StepType)
  BY <1>1 DEF Path
<1> HIDE DEF r, x, w
<1>6. TempoSteps(p) = r \o x \o w \o <<>>
  BY <1>2, <1>4
<1> QED BY <1>1, <1>5, <1>6

\* A generation: the homes, whatever the family, and then the list of them.
LEMMA GeneratePath ==
  ASSUME setup \in Setups, NEW p \in Places
  PROVE  Path(GenerateSteps(p), Go("mkdir", p, 0), Go("list", p, 0))
<1> DEFINE m == Step("mkdir", p)
           b == BootstrapSteps(p)
           l == Step("list", p)
<1>1. Path(m, Go("mkdir", p, 0), Go("mkdir", p, 0))
  BY PathStep DEF Words
<1>2. Path(l, Go("list", p, 0), Go("list", p, 0))
  BY PathStep DEF Words
<1>3. Count \in Nat
  BY Counts
<1>4. \E x, y : Path(b, x, y) /\ Follows(Go("mkdir", p, 0), x) /\ Follows(y, Go("list", p, 0))
  <2>1. CASE setup.family = "cosmos"
    <3>1. /\ Follows(Go("mkdir", p, 0), Go("wipe", p, 1))
          /\ Follows(Go("distribute", p, Count), Go("list", p, 0))
      BY <2>1, <1>3 DEF Follows, Go, Cosmos
    <3> QED BY <2>1, <3>1, CosmosPath DEF BootstrapSteps
  <2>2. CASE setup.family # "cosmos" /\ ~Compose
    <3>1. /\ Follows(Go("mkdir", p, 0), Go("reset", p, 0))
          /\ Follows(Go("write", p, Count), Go("list", p, 0))
      BY <2>2, <1>3 DEF Follows, Go, Cosmos
    <3>2. CASE setup.family = "reth"
      BY <3>1, <3>2, RethPath DEF BootstrapSteps
    <3>3. CASE setup.family = "allegro"
      BY <3>1, <3>3, XtaskPath DEF BootstrapSteps, AllegroSteps
    <3>4. CASE setup.family = "tempo"
      BY <3>1, <3>4, <2>2, TempoPath DEF BootstrapSteps
    <3> QED BY <2>2, <3>2, <3>3, <3>4, Counts DEF Setup
  <2>3. CASE Compose
    <3>1. /\ Follows(Go("mkdir", p, 0), Go("down", p, 0))
          /\ Follows(Go("up", p, Count), Go("list", p, 0))
      BY <2>3, <1>3 DEF Follows, Go, Cosmos, Compose
    <3>2. BootstrapSteps(p) = TempoSteps(p)
      BY <2>3 DEF Compose, BootstrapSteps
    <3> QED BY <2>3, <3>1, <3>2, ComposePath
  <2> QED BY <2>1, <2>2, <2>3
<1>5. GenerateSteps(p) = m \o b \o l
  BY DEF GenerateSteps
<1> HIDE DEF m, b, l
<1>6. PICK x, y : Path(b, x, y) /\ Follows(Go("mkdir", p, 0), x) /\ Follows(y, Go("list", p, 0))
  BY <1>4
<1>7. Path(m \o b, Go("mkdir", p, 0), y)
  BY <1>1, <1>6, PathJoin
<1> QED BY <1>2, <1>5, <1>6, <1>7, PathJoin

\* A local PatchImage copies Copies homes.
LEMMA CopyPath ==
  ASSUME setup \in Setups, ~setup.docker
  PROVE  \E x, y : Path(CopySteps, x, y) /\ Follows(Go("remove", "data", 0), x)
                   /\ Follows(y, Go("copied", "data", 0))
<1> DEFINE l == Step("copylist", "data")
           e(a, b) == Each("copy", "data", a, b)
<1>1. Path(l, Go("copylist", "data", 0), Go("copylist", "data", 0))
  BY PathStep DEF Words, Places
<1>2. Copies \in Nat /\ 1 <= Copies /\ N \in Nat /\ Validators \in 1..N
  BY Counts DEF Copies
<1>3. \A i \in 1..(Copies - 1) : Follows(Go("copy", "data", i), Go("copy", "data", i + 1))
  BY <1>2 DEF Follows, Go
<1>4. Path(e(1, Copies), Go("copy", "data", 1), Go("copy", "data", Copies))
  BY <1>2, <1>3, EachPath DEF Words, Places
<1> HIDE DEF l
<1>5. CASE Cosmos
  <2>1. Count = 1 /\ Copies = Validators
    BY <1>5, Counts DEF Copies
  <2>2. e(Validators + 1, Count) = <<>>
    <3> DEFINE d == 1..(Count + 1 - (Validators + 1))
               g(i) == [do |-> "copy", at |-> "data", n |-> Validators + 1 + i - 1]
    <3>2. e(Validators + 1, Count) = [i \in d |-> g(i)]
      BY Zenon DEF Each
    <3>4. d = 1..0
      BY <2>1, <1>2
    <3> HIDE DEF g, d
    <3>3. ASSUME NEW h, h = [i \in 1..0 |-> g(i)] PROVE h = <<>>
      <4>1. h \in Seq(StepType) /\ Len(h) = 0
        BY <3>3
      <4> QED BY <4>1
    <3> HIDE DEF e
    <3> QED BY <3>2, <3>3, <3>4
  <2>3. CopySteps = <<>> \o l \o e(1, Copies)
    BY <1>5, <2>1, <2>2 DEF CopySteps, Cosmos, l
  <2> HIDE DEF e
  <2>4. CopySteps = l \o e(1, Copies)
    BY <2>3, <1>1 DEF Path
  <2>5. /\ Follows(Go("remove", "data", 0), Go("copylist", "data", 0))
        /\ Follows(Go("copylist", "data", 0), Go("copy", "data", 1))
        /\ Follows(Go("copy", "data", Copies), Go("copied", "data", 0))
    BY <1>5, <1>2 DEF Follows, Go
  <2> QED BY <1>1, <1>4, <2>4, <2>5, PathJoin
<1>6. CASE ~Cosmos
  <2>1. Count = N /\ Copies = N
    BY <1>6, Counts DEF Copies
  <2>2. CopySteps = e(1, Copies) \o l
    BY <1>6, <2>1 DEF CopySteps, Cosmos, l
  <2> HIDE DEF e
  <2>3. /\ Follows(Go("remove", "data", 0), Go("copy", "data", 1))
        /\ Follows(Go("copy", "data", Copies), Go("copylist", "data", 0))
        /\ Follows(Go("copylist", "data", 0), Go("copied", "data", 0))
    BY <1>6, <1>2 DEF Follows, Go
  <2> QED BY <1>1, <1>4, <2>2, <2>3, PathJoin
<1> QED BY <1>5, <1>6

\* PatchImage: an image, or a copy over data_dir.
LEMMA PatchPath ==
  ASSUME setup \in Setups, NEW given \in BOOLEAN
  PROVE  Path(PatchSteps(given), Go(IF given THEN "given" ELSE "default", "data", 0),
              IF setup.docker THEN Go("build", "image", 0) ELSE Go("copied", "data", 0))
<1> DEFINE w == IF given THEN "given" ELSE "default"
           h == Step(w, "data")
<1>1. Path(h, Go(w, "data", 0), Go(w, "data", 0))
  BY PathStep DEF Words, Places
<1>2. w \in {"given", "default"}
  OBVIOUS
<1>3. CASE setup.docker
  <2>1. Path(Step("build", "image"), Go("build", "image", 0), Go("build", "image", 0))
    BY PathStep DEF Words
  <2>2. Follows(Go(w, "data", 0), Go("build", "image", 0))
    BY <1>2, <1>3 DEF Follows, Go
  <2>3. PatchSteps(given) = h \o Step("build", "image")
    BY <1>3 DEF PatchSteps
  <2> HIDE DEF w, h
  <2>4. Path(PatchSteps(given), Go(w, "data", 0), Go("build", "image", 0))
    BY <1>1, <2>1, <2>2, <2>3, PathJoin
  <2> QED BY <2>4, <1>3 DEF w
<1>4. CASE ~setup.docker
  <2> DEFINE r == Step("remove", "data")
             c == Step("copied", "data")
  <2>1. Path(r, Go("remove", "data", 0), Go("remove", "data", 0))
    BY PathStep DEF Words, Places
  <2>2. Path(c, Go("copied", "data", 0), Go("copied", "data", 0))
    BY PathStep DEF Words, Places
  <2>3. Follows(Go(w, "data", 0), Go("remove", "data", 0))
    BY <1>2, <1>4 DEF Follows, Go
  <2>4. PICK x, y : Path(CopySteps, x, y) /\ Follows(Go("remove", "data", 0), x)
                    /\ Follows(y, Go("copied", "data", 0))
    BY <1>4, CopyPath
  <2>5. PatchSteps(given) = h \o (r \o CopySteps \o c)
    BY <1>4 DEF PatchSteps
  <2> HIDE DEF w, h, r, c
  <2>6. Path(r \o CopySteps, Go("remove", "data", 0), y)
    BY <2>1, <2>4, PathJoin
  <2>7. Path(r \o CopySteps \o c, Go("remove", "data", 0), Go("copied", "data", 0))
    BY <2>2, <2>4, <2>6, PathJoin
  <2>8. Path(PatchSteps(given), Go(w, "data", 0), Go("copied", "data", 0))
    BY <1>1, <2>3, <2>5, <2>7, PathJoin
  <2> QED BY <2>8, <1>4 DEF w
<1> QED BY <1>3, <1>4

\* A workflow ends with the nodes started.
LEMMA WorkflowPath ==
  ASSUME setup \in Setups
  PROVE  Path(WorkflowSteps, Go(IF setup.skip THEN "load" ELSE "mkdir", "data", 0),
              Go("run", "data", 0))
<1> DEFINE g == IF setup.skip THEN Step("load", "data") ELSE GenerateSteps("data")
           given == (setup.patch = "given")
           q == PatchSteps(given)
           r == Step("run", "data")
           x == Go(IF setup.skip THEN "load" ELSE "mkdir", "data", 0)
           y == Go(IF setup.skip THEN "load" ELSE "list", "data", 0)
           z == Go("run", "data", 0)
           u == Go(IF given THEN "given" ELSE "default", "data", 0)
           v == IF setup.docker THEN Go("build", "image", 0) ELSE Go("copied", "data", 0)
<1>1. Path(g, x, y)
  <2>1. CASE setup.skip
    BY <2>1, PathStep DEF Words, Places
  <2>2. CASE ~setup.skip
    BY <2>2, GeneratePath DEF Places
  <2> QED BY <2>1, <2>2
<1>2. Path(r, z, z)
  BY PathStep DEF Words, Places
<1>3. CASE setup.patch = "off"
  <2>1. WorkflowSteps = g \o <<>> \o r
    BY <1>3 DEF WorkflowSteps
  <2>2. Follows(y, z)
    BY <1>3 DEF Follows, Go, Running
  <2> HIDE DEF g, r, x, y, z
  <2>3. g \o <<>> = g
    BY <1>1 DEF Path
  <2>4. WorkflowSteps = g \o r
    BY <2>1, <2>3
  <2>5. Path(g \o r, x, z)
    BY <1>1, <1>2, <2>2, PathJoin
  <2> QED BY <2>4, <2>5 DEF x, z
<1>4. CASE setup.patch # "off"
  <2>1. WorkflowSteps = g \o q \o r
    BY <1>4 DEF WorkflowSteps
  <2>2. Path(q, u, v)
    BY PatchPath
  <2>3. Follows(y, u)
    BY <1>4 DEF Follows, Go, Patching
  <2>4. Follows(v, z)
    BY <1>4 DEF Follows, Go, Running
  <2> HIDE DEF g, q, r, x, y, z, u, v
  <2>5. Path(g \o q, x, v)
    BY <1>1, <2>2, <2>3, PathJoin
  <2>6. Path(g \o q \o r, x, z)
    BY <2>5, <1>2, <2>4, PathJoin
  <2> QED BY <2>1, <2>6 DEF x, z
<1> QED BY <1>3, <1>4

\* The script's preparation, which starts no node.
LEMMA PreparePath ==
  ASSUME setup \in Setups
  PROVE  \E y : y.do # "run" /\ Path(PrepareSteps, Go("clean", OutPlace, 0), y)
<1> DEFINE c == Step("clean", OutPlace)
           g == GenerateSteps(OutPlace)
           q == PatchSteps(TRUE)
<1>1. OutPlace \in Places
  BY DEF OutPlace, Places
<1>2. Path(c, Go("clean", OutPlace, 0), Go("clean", OutPlace, 0))
  BY <1>1, PathStep DEF Words
<1>3. Path(g, Go("mkdir", OutPlace, 0), Go("list", OutPlace, 0))
  BY <1>1, GeneratePath
<1>4. Follows(Go("clean", OutPlace, 0), Go("mkdir", OutPlace, 0))
  BY DEF Follows, Go
<1>5. CASE Cosmos /\ setup.docker
  <2>1. PrepareSteps = c \o g \o q
    BY <1>5 DEF PrepareSteps, Cosmos
  <2>2. Path(q, Go("given", "data", 0), Go("build", "image", 0))
    BY <1>5, PatchPath
  <2>3. Follows(Go("list", OutPlace, 0), Go("given", "data", 0))
    BY <1>5 DEF Follows, Go, Patching
  <2> HIDE DEF c, g, q
  <2>4. Path(c \o g, Go("clean", OutPlace, 0), Go("list", OutPlace, 0))
    BY <1>2, <1>3, <1>4, PathJoin
  <2>5. Path(c \o g \o q, Go("clean", OutPlace, 0), Go("build", "image", 0))
    BY <2>4, <2>2, <2>3, PathJoin
  <2> QED BY <2>1, <2>5 DEF Go
<1>6. CASE ~(Cosmos /\ setup.docker)
  <2>1. PrepareSteps = c \o g \o <<>>
    BY <1>6 DEF PrepareSteps, Cosmos
  <2> HIDE DEF c, g
  <2>2. Path(c \o g, Go("clean", OutPlace, 0), Go("list", OutPlace, 0))
    BY <1>2, <1>3, <1>4, PathJoin
  <2>3. c \o g \o <<>> = c \o g
    BY <2>2 DEF Path
  <2> QED BY <2>1, <2>2, <2>3 DEF Go
<1> QED BY <1>5, <1>6

----------------------------------------------------------------------------
(* What any step does *)

FileType ==
  [homes : Homes, list : Places \cup {None}, compose : BOOLEAN, exists : BOOLEAN]

\* What depends on the configuration alone does not change with a step.
LEMMA SetupStays ==
  ASSUME setup' = setup
  PROVE  /\ Count' = Count /\ OutPlace' = OutPlace /\ Compose' = Compose
         /\ Cosmos' = Cosmos /\ Copies' = Copies /\ MountHome' = MountHome
         /\ \A x : Patching(x)' = Patching(x)
         /\ \A x, y : Follows(x, y)' = Follows(x, y)
<1>1. Count' = Count /\ OutPlace' = OutPlace /\ Compose' = Compose
  BY DEF Count, OutPlace, Compose
<1>2. Cosmos' = Cosmos /\ Copies' = Copies /\ MountHome' = MountHome
  BY DEF Cosmos, Copies, MountHome
<1>3. \A x : Patching(x)' = Patching(x)
  BY DEF Patching
<1>4. ASSUME NEW x, NEW y PROVE Follows(x, y)' = Follows(x, y)
  BY <1>1, <1>2, <1>3 DEF Follows, Running
<1> QED BY <1>1, <1>2, <1>3, <1>4

\* A step is taken from its precondition, and the one after it follows.
LEMMA Advance ==
  ASSUME IInv, NEW d, Do(d), setup' = setup
  PROVE  \E x \in StepType :
           /\ x = step /\ x.do = d /\ Pre(x) /\ measured = <<>>
           /\ d # "run" => ~source.done
           /\ Plan' /\ (Runs' => Runs)
           /\ \A y \in First' :
                /\ y \in StepType /\ Follows(x, y) /\ (Runs' <=> Runs)
                /\ Len(todo) > 1 /\ (y.do = "run" => Runs')
<1> DEFINE x == todo[1]
<1>1. todo \in Seq(StepType) /\ todo # <<>> /\ todo' = Tail(todo) /\ Chain(todo)
  BY DEF Do, IInv, Plan
<1>2. x \in StepType /\ x = step /\ x.do = d
  BY <1>1 DEF step, Do
<1>3. Pre(x)
  BY <1>1 DEF IInv, Reached, First
<1>4. measured = <<>> /\ (d # "run" => ~source.done)
  BY <1>2, <1>3 DEF Pre
<1>5. /\ Len(todo) \in Nat /\ Len(todo) > 0
      /\ todo' \in Seq(StepType) /\ Len(todo') = Len(todo) - 1
      /\ \A i \in 1..(Len(todo) - 1) : todo'[i] = todo[i + 1]
  BY <1>1
<1>6. Plan'
  <2>1. ASSUME NEW i \in 1..(Len(todo') - 1) PROVE Follows(todo[i], todo[i + 1])'
    <3>1. /\ i + 1 \in 1..(Len(todo) - 1) /\ i \in 1..(Len(todo) - 1)
      BY <1>5
    <3>2. todo'[i] = todo[i + 1] /\ todo'[i + 1] = todo[(i + 1) + 1]
      BY <3>1, <1>5
    <3>3. Follows(todo[i + 1], todo[(i + 1) + 1])
      BY <3>1, <1>1 DEF Chain
    <3>4. \A a, b : Follows(a, b)' = Follows(a, b)
      BY SetupStays
    <3> QED BY <3>2, <3>3, <3>4
  <2> QED BY <2>1, <1>5 DEF Plan, Chain
<1>7. ASSUME NEW y \in First'
      PROVE  /\ y \in StepType /\ Follows(x, y) /\ (Runs' <=> Runs)
             /\ Len(todo) > 1 /\ (y.do = "run" => Runs')
  <2>1. todo' # <<>> /\ y = todo'[1]
    BY DEF First
  <2>2. Len(todo) > 1 /\ 1 \in 1..(Len(todo) - 1) /\ Len(todo') \in 1..(Len(todo) - 1)
    BY <2>1, <1>5
  <2>3. y = todo[2] /\ y \in StepType
    BY <2>1, <2>2, <1>5, <1>1
  <2>4. Follows(x, y)
    BY <2>2, <2>3, <1>1 DEF Chain
  <2>5. todo'[Len(todo')] = todo[Len(todo)]
    BY <2>2, <1>5
  <2>6. Runs' <=> Runs
    BY <2>1, <2>5, <1>1 DEF Runs
  <2>7. ASSUME y.do = "run" PROVE Runs'
    <3>1. ~Follows(todo[2], todo[3])
      BY <2>3, <2>7 DEF Follows
    <3>2. ~(2 \in 1..(Len(todo) - 1))
      BY <3>1, <1>1 DEF Chain
    <3>3. Len(todo') = 1
      BY <3>2, <2>2, <1>5
    <3> QED BY <3>3, <2>1, <2>7 DEF Runs
  <2> QED BY <2>2, <2>3, <2>4, <2>6, <2>7
<1>8. Runs' => Runs
  <2>1. Runs' => First' # {}
    BY DEF Runs, First
  <2> QED BY <2>1, <1>7
<1> HIDE DEF x
<1> QED BY <1>2, <1>3, <1>4, <1>6, <1>7, <1>8

\* A home that is not there is a home.
LEMMA NoHomeTyped == NoHome \in Home /\ NoFiles \in FileType /\ NoFiles.homes \in Homes
<1>1. NoHome \in Home
  BY LayoutAssumption DEF NoHome, Home
<1>2. NoFiles.homes \in Homes
  BY <1>1 DEF NoFiles, Homes
<1> QED BY <1>1, <1>2 DEF NoFiles, FileType, Homes

\* The types, one by one.
LEMMA Types ==
  ASSUME Typed
  PROVE  /\ setup \in Setups /\ files \in [Places -> FileType] /\ image \in Homes
         /\ containers \in [Nodes -> [at : Places \cup {None}, home : Home]]
         /\ targets \in Places \cup {None}
         /\ gens \in Nat /\ gens <= MaxGens /\ MaxGens \in Nat /\ gens \in 0..MaxGens
         /\ ops \in 0..MaxOps /\ orphaned \in BOOLEAN
         /\ source.from \in Places \cup {None}
         /\ source \in [from : Places \cup {None}, homes : Homes \cup {<<>>}, done : BOOLEAN]
         /\ \A p \in Places : \A n \in Nodes :
              /\ home(p, n) \in Home /\ home(p, n).keys \in 0..MaxGens
              /\ home(p, n).genesis \in 0..MaxGens /\ home(p, n).used \in BOOLEAN
<1>1. files \in [Places -> FileType] /\ image \in Homes
  BY DEF Typed, TypeOK, FileType, Homes
<1>2. \A p \in Places : \A n \in Nodes : home(p, n) \in Home
  BY <1>1 DEF FileType, Homes, home
<1>3. \A h \in Home : h.keys \in 0..MaxGens /\ h.genesis \in 0..MaxGens /\ h.used \in BOOLEAN
  BY DEF Home
<1>4. gens \in 0..MaxGens /\ MaxGens \in Nat
  BY LayoutAssumption DEF Typed, TypeOK
<1> QED BY <1>1, <1>2, <1>3, <1>4 DEF Typed, TypeOK

\* A step writes files, and may tell the workflow where the homes are.
FilesAndTargets ==
  /\ UNCHANGED <<setup, image, containers, measured, gens, ops, source, orphaned>>
  /\ targets' \in Places \cup {None}

\* What a step that writes files alone must respect, before a load was sent and with no
\* PatchImage finished.
LEMMA FilesFrame ==
  ASSUME IInv, OnlyFiles \/ FilesAndTargets, measured = <<>>, ~source.done,
         files' \in [Places -> FileType],
         \A p \in Places : OneOf(files'[p].homes),
         \A p \in Places : \A n \in Nodes : n > Count => files'[p].homes[n] = NoHome,
         \A n \in Nodes : files'["out"].homes[n].used => home("out", n).used,
         \A n \in Nodes : files'["data"].homes[n].used => \E p \in Places : home(p, n).used
  PROVE  Typed' /\ Settled'
<1>0. /\ setup' = setup /\ image' = image /\ containers' = containers
      /\ measured' = measured /\ gens' = gens /\ ops' = ops /\ source' = source
      /\ orphaned' = orphaned /\ targets' \in Places \cup {None}
  <2>1. targets \in Places \cup {None}
    BY Types DEF IInv
  <2> QED BY <2>1 DEF OnlyFiles, FilesAndTargets
<1>1. /\ Count' = Count /\ Cosmos' = Cosmos /\ MountHome' = MountHome
  BY <1>0, SetupStays
<1>2. Typed /\ Whole /\ Contained /\ Fresh /\ Sourced
  BY DEF IInv, Settled
<1>3. Typed'
  BY <1>0, <1>2 DEF Typed, TypeOK, FileType, Homes
<1>4. Whole'
  BY <1>0, <1>1, <1>2 DEF Whole, OneOf
<1>5. Idle'
  BY <1>1 DEF Idle, home
<1>6. Contained'
  BY <1>0, <1>2 DEF Contained
<1>7. Fresh'
  <2>1. setup'.skip = setup.skip /\ setup'.docker = setup.docker
    BY <1>0
  <2>2. ASSUME Cosmos, setup.docker, ~MountHome, NEW n \in Nodes
        PROVE  ~image[n].used /\ \A p \in Places : ~files'[p].homes[n].used
    <3>1. ~image[n].used /\ \A p \in Places : ~home(p, n).used
      BY <2>2, <1>2 DEF Fresh
    <3> QED BY <3>1 DEF Places
  <2>3. ASSUME ~setup.skip, NEW n \in Nodes PROVE ~files'["out"].homes[n].used
    BY <2>3, <1>2 DEF Fresh
  <2> QED BY <2>1, <2>2, <2>3, <1>0, <1>1 DEF Fresh, home
<1>8. Patched' /\ Sourced'
  BY <1>0, <1>2 DEF Patched, Sourced
<1>9. OneNetwork' /\ FreshChain'
  BY <1>0 DEF OneNetwork, FreshChain
<1> QED BY <1>3, <1>4, <1>5, <1>6, <1>7, <1>8, <1>9 DEF Settled

\* A home that is written on its own keeps the invariant if it is incomplete, or of this
\* generation with the others of this generation too or one of them incomplete.
LEMMA SetHomeFrame ==
  ASSUME IInv, measured = <<>>, ~source.done,
         NEW p \in Places, NEW n \in 1..Count, NEW h \in Home, SetHome(p, n, h),
         h.used => home(p, n).used,
         h.genesis # 0 =>
           /\ h.keys = gens /\ h.genesis = gens /\ gens \in 1..MaxGens
           /\ \/ \A m \in 1..Count \ {n} : home(p, m).keys = gens /\ home(p, m).genesis = gens
              \/ \E m \in 1..Count : m # n /\ home(p, m).genesis = 0
  PROVE  /\ Typed' /\ Settled'
         /\ \A q \in Places : files'[q].compose = files[q].compose
         /\ \A q \in Places : \A m \in Nodes :
              home(q, m)' = IF q = p /\ m = n THEN h ELSE home(q, m)
<1>1. files \in [Places -> FileType] /\ setup \in Setups
  BY Types DEF IInv
<1>2. n \in Nodes /\ 1..Count \subseteq Nodes /\ n <= Count /\ n \in Nat /\ Count \in Nat
  BY <1>1, Counts
<1>3. files' = [files EXCEPT ![p].homes[n] = h] /\ OnlyFiles
  BY DEF SetHome
<1>4. /\ files' \in [Places -> FileType]
      /\ \A q \in Places : files'[q].compose = files[q].compose
      /\ \A q \in Places : \A m \in Nodes :
           files'[q].homes[m] = IF q = p /\ m = n THEN h ELSE files[q].homes[m]
  <2> DEFINE G == [files[p].homes EXCEPT ![n] = h]
             F == [files[p] EXCEPT !.homes = G]
  <2>1. files' = [files EXCEPT ![p] = F]
    BY <1>3
  <2>2. files[p] \in FileType /\ files[p].homes \in Homes
    BY <1>1 DEF FileType
  <2>3. G \in Homes /\ \A m \in Nodes : G[m] = IF m = n THEN h ELSE files[p].homes[m]
    BY <1>2, <2>2 DEF Homes
  <2> HIDE DEF G
  <2>4. F \in FileType /\ F.compose = files[p].compose /\ F.homes = G
    BY <2>2, <2>3 DEF FileType
  <2> HIDE DEF F
  <2>5. \A q \in Places : files'[q] = IF q = p THEN F ELSE files[q]
    BY <1>1, <2>1
  <2>6. files' \in [Places -> FileType]
    BY <1>1, <2>1, <2>4
  <2> QED BY <2>3, <2>4, <2>5, <2>6
<1>5. ASSUME NEW q \in Places PROVE OneOf(files'[q].homes)
  <2>1. OneOf(files[q].homes)
    BY DEF IInv, Settled, Whole
  <2>2. CASE q # p
    <3>1. \A m \in 1..Count : files'[q].homes[m] = files[q].homes[m]
      BY <2>2, <1>2, <1>4
    <3> QED BY <2>1, <3>1 DEF OneOf
  <2>3. CASE q = p /\ h.genesis = 0
    BY <2>3, <1>2, <1>4 DEF OneOf
  <2>4. CASE q = p /\ h.genesis # 0
    <3>1. CASE \A m \in 1..Count \ {n} : home(p, m).keys = gens /\ home(p, m).genesis = gens
      <4>1. \A m \in 1..Count : files'[q].homes[m].keys = gens /\ files'[q].homes[m].genesis = gens
        BY <2>4, <3>1, <1>2, <1>4 DEF home
      <4> QED BY <4>1, <2>4 DEF OneOf
    <3>2. CASE \E m \in 1..Count : m # n /\ home(p, m).genesis = 0
      BY <2>4, <3>2, <1>2, <1>4 DEF OneOf, home
    <3> QED BY <2>4, <3>1, <3>2
  <2> QED BY <2>2, <2>3, <2>4
<1>6. ASSUME NEW q \in Places, NEW m \in Nodes, m > Count PROVE files'[q].homes[m] = NoHome
  <2>1. home(q, m) = NoHome /\ m # n
    BY <1>6, <1>2 DEF IInv, Settled, Idle, Nodes
  <2> QED BY <2>1, <1>4 DEF home
<1>7. ASSUME NEW q \in Places, NEW m \in Nodes, files'[q].homes[m].used PROVE home(q, m).used
  BY <1>7, <1>4 DEF home
<1>8. Typed' /\ Settled'
  <2>1. {"out", "data"} \subseteq Places
    BY DEF Places
  <2> QED BY <2>1, <1>3, <1>4, <1>5, <1>6, <1>7, FilesFrame
<1> QED BY <1>4, <1>8 DEF home

----------------------------------------------------------------------------
(* The steps of a generation keep the invariant *)

\* A generation goes on.
LEMMA StillGenerating ==
  ASSUME NEW x, NEW y, Generating(x), y.at = x.at, gens' = gens, setup' = setup, Runs' <=> Runs
  PROVE  Generating(y)'
  BY DEF Generating

\* What is known of some of a place's homes stays known if these stay.
LEMMA HomesKept ==
  ASSUME NEW p, NEW S, gens' = gens, \A m \in S : home(p, m)' = home(p, m)
  PROVE  /\ Keyed(p, S) => Keyed(p, S)'
         /\ Written(p, S) => Written(p, S)'
  BY DEF Keyed, Written

\* A node's home is reset.
LEMMA WipeStep == ASSUME IInv, Wipe PROVE IInv'
<1>1. Do("wipe") /\ SetHome(step.at, step.n, NoHome)
  BY DEF Wipe
<1>2. setup' = setup /\ gens' = gens /\ measured' = measured /\ source' = source
  BY <1>1 DEF SetHome, OnlyFiles
<1>3. PICK x \in StepType :
        /\ x = step /\ x.do = "wipe" /\ Pre(x) /\ measured = <<>> /\ ~source.done
        /\ Plan'
        /\ \A y \in First' : y \in StepType /\ Follows(x, y) /\ (Runs' <=> Runs)
  BY <1>1, <1>2, Advance
<1>4. Cosmos /\ Generating(x) /\ x.n \in 1..Count /\ Keyed(x.at, 1..(x.n - 1))
  BY <1>3 DEF Pre, PreWipe
<1>5. x.at \in Places /\ 1..Count \subseteq Nodes /\ Count \in Nat
  BY <1>4, Types, Counts DEF Generating, IInv
<1>6. SetHome(x.at, x.n, NoHome) /\ NoHome \in Home /\ NoHome.genesis = 0 /\ ~NoHome.used
  BY <1>1, <1>3, NoHomeTyped DEF NoHome
<1>7. /\ Typed' /\ Settled'
      /\ \A q \in Places : \A m \in Nodes :
           home(q, m)' = IF q = x.at /\ m = x.n THEN NoHome ELSE home(q, m)
  BY <1>3, <1>4, <1>5, <1>6, SetHomeFrame
<1>8. ASSUME NEW y \in First' PROVE Pre(y)'
  <2>1. y = Go("init", x.at, x.n)
    BY <1>3 DEF Follows
  <2>2. Generating(y)' /\ Cosmos' /\ Count' = Count
    BY <2>1, <1>2, <1>3, <1>4, StillGenerating, SetupStays DEF Go
  <2>3. Keyed(x.at, 1..(x.n - 1))'
    <3>1. \A m \in 1..(x.n - 1) : m \in Nodes /\ m # x.n
      BY <1>4, <1>5
    <3> QED BY <3>1, <1>2, <1>4, <1>5, <1>7, HomesKept
  <2>4. home(x.at, x.n)' = NoHome
    BY <1>4, <1>5, <1>7
  <2> QED BY <2>1, <2>2, <2>3, <2>4, <1>2, <1>3, <1>4 DEF Pre, PreInit, PreWipe, Go
<1> QED BY <1>3, <1>7, <1>8 DEF IInv, Reached

\* The binary's init.
LEMMA InitStep == ASSUME IInv, InitNode PROVE IInv'
<1> DEFINE h == [home(step.at, step.n) EXCEPT !.keys = gens]
<1>1. Do("init") /\ SetHome(step.at, step.n, h)
  BY DEF InitNode
<1>2. setup' = setup /\ gens' = gens /\ measured' = measured /\ source' = source
  BY <1>1 DEF SetHome, OnlyFiles
<1>3. PICK x \in StepType :
        /\ x = step /\ x.do = "init" /\ Pre(x) /\ measured = <<>> /\ ~source.done
        /\ Plan'
        /\ \A y \in First' : y \in StepType /\ Follows(x, y) /\ (Runs' <=> Runs)
  BY <1>1, <1>2, Advance
<1>4. /\ Cosmos /\ Generating(x) /\ x.n \in 1..Count /\ Keyed(x.at, 1..(x.n - 1))
      /\ home(x.at, x.n) = NoHome
  BY <1>3 DEF Pre, PreInit, PreWipe
<1>5. x.at \in Places /\ 1..Count \subseteq Nodes /\ Count \in Nat /\ gens \in 0..MaxGens
  BY <1>4, Types, Counts DEF Generating, IInv
<1>6. h \in Home /\ h.genesis = 0 /\ ~h.used /\ h.keys = gens
  <2>1. home(step.at, step.n) = NoHome
    BY <1>3, <1>4
  <2>2. h = [NoHome EXCEPT !.keys = gens]
    BY <2>1
  <2> QED BY <2>2, <1>5, NoHomeTyped DEF NoHome, Home
<1> HIDE DEF h
<1>7. /\ Typed' /\ Settled'
      /\ \A q \in Places : \A m \in Nodes :
           home(q, m)' = IF q = x.at /\ m = x.n THEN h ELSE home(q, m)
  BY <1>1, <1>3, <1>4, <1>5, <1>6, SetHomeFrame
<1>8. ASSUME NEW y \in First' PROVE Pre(y)'
  <2>1. y = IF x.n < Count THEN Go("wipe", x.at, x.n + 1) ELSE Go("collect", x.at, 0)
    BY <1>3 DEF Follows
  <2>2. Generating(y)' /\ Cosmos' /\ Count' = Count
    BY <2>1, <1>2, <1>3, <1>4, StillGenerating, SetupStays DEF Go
  <2>3. Keyed(x.at, 1..x.n)'
    <3>1. ASSUME NEW m \in 1..x.n
          PROVE  /\ home(x.at, m)'.keys = gens' /\ home(x.at, m)'.genesis = 0
                 /\ ~home(x.at, m)'.used
      <4>1. m \in Nodes
        BY <1>4, <1>5
      <4>2. CASE m = x.n
        BY <4>1, <4>2, <1>2, <1>5, <1>6, <1>7
      <4>3. CASE m # x.n
        <5>1. m \in 1..(x.n - 1) /\ home(x.at, m)' = home(x.at, m)
          BY <4>1, <4>3, <1>4, <1>5, <1>7
        <5> QED BY <5>1, <1>2, <1>4 DEF Keyed
      <4> QED BY <4>2, <4>3
    <3> QED BY <3>1 DEF Keyed
  <2>4. CASE x.n < Count
    <3>1. x.n + 1 \in 1..Count /\ (x.n + 1) - 1 = x.n
      BY <2>4, <1>4, <1>5
    <3> QED BY <3>1, <2>1, <2>2, <2>3, <2>4, <1>2, <1>3 DEF Pre, PreWipe, Go
  <2>5. CASE ~(x.n < Count)
    <3>1. x.n = Count
      BY <2>5, <1>4, <1>5
    <3> QED BY <3>1, <2>1, <2>2, <2>3, <2>5, <1>2, <1>3 DEF Pre, PreCollect, Go
  <2> QED BY <2>4, <2>5
<1> QED BY <1>3, <1>7, <1>8 DEF IInv, Reached

\* The leader gets the genesis.
LEMMA CollectStep == ASSUME IInv, Collect PROVE IInv'
<1> DEFINE h == [home(step.at, 1) EXCEPT !.genesis = gens]
<1>1. Do("collect") /\ SetHome(step.at, 1, h)
  BY DEF Collect
<1>2. setup' = setup /\ gens' = gens /\ measured' = measured /\ source' = source
  BY <1>1 DEF SetHome, OnlyFiles
<1>3. PICK x \in StepType :
        /\ x = step /\ x.do = "collect" /\ Pre(x) /\ measured = <<>> /\ ~source.done
        /\ Plan'
        /\ \A y \in First' : y \in StepType /\ Follows(x, y) /\ (Runs' <=> Runs)
  BY <1>1, <1>2, Advance
<1>4. Cosmos /\ Generating(x) /\ Keyed(x.at, 1..Count)
  BY <1>3 DEF Pre, PreCollect
<1>5. /\ x.at \in Places /\ 1..Count \subseteq Nodes /\ Count \in Nat /\ gens \in 1..MaxGens
      /\ 1 \in 1..Count /\ gens \in 0..MaxGens /\ home(x.at, 1) \in Home
  BY <1>4, Types, Counts DEF Generating, IInv
<1>6. h \in Home /\ h.genesis = gens /\ ~h.used /\ h.keys = gens
  BY <1>3, <1>4, <1>5 DEF Home, Keyed
<1> HIDE DEF h
<1>7. /\ Typed' /\ Settled'
      /\ \A q \in Places : \A m \in Nodes :
           home(q, m)' = IF q = x.at /\ m = 1 THEN h ELSE home(q, m)
  <2>1. \/ \A m \in 1..Count \ {1} : home(x.at, m).keys = gens /\ home(x.at, m).genesis = gens
        \/ \E m \in 1..Count : m # 1 /\ home(x.at, m).genesis = 0
    BY <1>4 DEF Keyed
  <2> QED BY <2>1, <1>1, <1>3, <1>5, <1>6, SetHomeFrame
<1>8. ASSUME NEW y \in First' PROVE Pre(y)'
  <2>1. y = Go("distribute", x.at, 1)
    BY <1>3 DEF Follows
  <2>2. Generating(y)' /\ Cosmos' /\ Count' = Count
    BY <2>1, <1>2, <1>3, <1>4, StillGenerating, SetupStays DEF Go
  <2>3. Written(x.at, {1} \cup 1..(1 - 1))'
    <3>1. \A m \in {1} \cup 1..(1 - 1) : m = 1
      OBVIOUS
    <3>2. home(x.at, 1)' = h
      BY <1>5, <1>7
    <3> QED BY <3>1, <3>2, <1>2, <1>6 DEF Written
  <2>4. Keyed(x.at, 1..Count \ {1})'
    <3>1. Keyed(x.at, 1..Count \ {1})
      BY <1>4 DEF Keyed
    <3>2. \A m \in 1..Count \ {1} : home(x.at, m)' = home(x.at, m)
      BY <1>5, <1>7
    <3> QED BY <3>1, <3>2, <2>2, <1>2 DEF Keyed
  <2> QED BY <2>1, <2>2, <2>3, <2>4, <1>2, <1>3, <1>5 DEF Pre, PreDistribute, Go
<1> QED BY <1>3, <1>7, <1>8 DEF IInv, Reached

\* A node gets the leader's genesis.
LEMMA DistributeStep == ASSUME IInv, Distribute PROVE IInv'
<1> DEFINE h == [home(step.at, step.n) EXCEPT !.genesis = home(step.at, 1).genesis]
<1>1. Do("distribute") /\ SetHome(step.at, step.n, h)
  BY DEF Distribute
<1>2. setup' = setup /\ gens' = gens /\ measured' = measured /\ source' = source /\ OnlyFiles
  BY <1>1 DEF SetHome, OnlyFiles
<1>3. PICK x \in StepType :
        /\ x = step /\ x.do = "distribute" /\ Pre(x) /\ measured = <<>> /\ ~source.done
        /\ Plan'
        /\ \A y \in First' : y \in StepType /\ Follows(x, y) /\ (Runs' <=> Runs)
  BY <1>1, <1>2, Advance
<1>4. /\ Cosmos /\ Generating(x) /\ x.n \in 1..Count
      /\ Written(x.at, {1} \cup 1..(x.n - 1)) /\ Keyed(x.at, (x.n..Count) \ {1})
  BY <1>3 DEF Pre, PreDistribute
<1>5. /\ x.at \in Places /\ 1..Count \subseteq Nodes /\ Count \in Nat /\ gens \in 1..MaxGens
      /\ 1 \in 1..Count /\ gens \in 0..MaxGens /\ gens # 0 /\ x.n \in Nodes
      /\ home(x.at, x.n) \in Home /\ home(x.at, 1) \in Home
  BY <1>4, Types, Counts DEF Generating, IInv
<1>6. h \in Home /\ h.genesis = gens /\ ~h.used /\ h.keys = gens
  <2>1. home(x.at, 1).genesis = gens
    BY <1>4 DEF Written
  <2>2. home(x.at, x.n).keys = gens /\ ~home(x.at, x.n).used
    BY <1>4, <1>5 DEF Written, Keyed
  <2> QED BY <2>1, <2>2, <1>3, <1>5 DEF Home
<1> HIDE DEF h
<1>7. /\ Typed' /\ Settled'
      /\ \A q \in Places : \A m \in Nodes :
           home(q, m)' = IF q = x.at /\ m = x.n THEN h ELSE home(q, m)
  <2>1. CASE \A m \in 1..Count \ {x.n} : m \in {1} \cup 1..(x.n - 1)
    <3>1. \A m \in 1..Count \ {x.n} : home(x.at, m).keys = gens /\ home(x.at, m).genesis = gens
      BY <2>1, <1>4 DEF Written
    <3> QED BY <3>1, <1>1, <1>3, <1>4, <1>5, <1>6, SetHomeFrame
  <2>2. CASE \E m \in 1..Count \ {x.n} : m \notin {1} \cup 1..(x.n - 1)
    <3>1. PICK m \in 1..Count : m # x.n /\ m \notin {1} \cup 1..(x.n - 1)
      BY <2>2
    <3>2. m \in (x.n..Count) \ {1}
      BY <3>1, <1>4, <1>5
    <3>3. home(x.at, m).genesis = 0
      BY <3>2, <1>4 DEF Keyed
    <3> QED BY <3>1, <3>3, <1>1, <1>3, <1>4, <1>5, <1>6, SetHomeFrame
  <2> QED BY <2>1, <2>2
<1>8. ASSUME NEW y \in First' PROVE Pre(y)'
  <2>1. y = IF x.n < Count THEN Go("distribute", x.at, x.n + 1) ELSE Go("list", x.at, 0)
    BY <1>3 DEF Follows
  <2>2. Generating(y)' /\ Cosmos' /\ Count' = Count /\ Compose' = Compose
    BY <2>1, <1>2, <1>3, <1>4, StillGenerating, SetupStays DEF Go
  <2>3. Written(x.at, {1} \cup 1..x.n)'
    <3>1. ASSUME NEW m \in {1} \cup 1..x.n
          PROVE  /\ home(x.at, m)'.keys = gens' /\ home(x.at, m)'.genesis = gens'
                 /\ ~home(x.at, m)'.used
      <4>1. m \in Nodes
        BY <1>4, <1>5
      <4>2. CASE m = x.n
        BY <4>1, <4>2, <1>2, <1>5, <1>6, <1>7
      <4>3. CASE m # x.n
        <5>1. m \in {1} \cup 1..(x.n - 1) /\ home(x.at, m)' = home(x.at, m)
          BY <4>1, <4>3, <1>4, <1>5, <1>7
        <5> QED BY <5>1, <1>2, <1>4 DEF Written
      <4> QED BY <4>2, <4>3
    <3> QED BY <3>1 DEF Written
  <2>4. CASE x.n < Count
    <3>1. x.n + 1 \in 1..Count /\ (x.n + 1) - 1 = x.n
      BY <2>4, <1>4, <1>5
    <3>2. Keyed(x.at, ((x.n + 1)..Count) \ {1})'
      <4>1. \A m \in ((x.n + 1)..Count) \ {1} :
              m \in (x.n..Count) \ {1} /\ m \in Nodes /\ m # x.n
        BY <1>4, <1>5
      <4>2. Keyed(x.at, ((x.n + 1)..Count) \ {1})
        BY <4>1, <1>4 DEF Keyed
      <4>3. \A m \in ((x.n + 1)..Count) \ {1} : home(x.at, m)' = home(x.at, m)
        BY <4>1, <1>5, <1>7
      <4> QED BY <4>2, <4>3, <2>2, <1>2 DEF Keyed
    <3> QED BY <3>1, <3>2, <2>1, <2>2, <2>3, <2>4, <1>2, <1>3 DEF Pre, PreDistribute, Go
  <2>5. CASE ~(x.n < Count)
    <3>1. 1..Count \subseteq {1} \cup 1..x.n /\ ~Compose
      BY <2>5, <1>4, <1>5 DEF Compose, Cosmos
    <3>2. Written(x.at, 1..Count)'
      BY <3>1, <2>2, <2>3 DEF Written
    <3> QED BY <3>1, <3>2, <2>1, <2>2, <2>5, <1>2, <1>3 DEF Pre, PreList, Go
  <2> QED BY <2>4, <2>5
<1> QED BY <1>3, <1>7, <1>8 DEF IInv, Reached

\* Homes that are all missing are not complete.
LEMMA NoneIsOne ==
  ASSUME setup \in Setups, NEW hs, hs[1] = NoHome
  PROVE  OneOf(hs)
  BY Counts DEF OneOf, NoHome

\* Files other than homes may change.
LEMMA HomesFrame ==
  ASSUME IInv, OnlyFiles \/ FilesAndTargets, measured = <<>>, ~source.done,
         files' \in [Places -> FileType],
         \A p \in Places : files'[p].homes = files[p].homes
  PROVE  /\ Typed' /\ Settled'
         /\ \A q \in Places : \A m \in Nodes : home(q, m)' = home(q, m)
<1>1. \A q \in Places : OneOf(files[q].homes)
  BY DEF IInv, Settled, Whole
<1>2. \A q \in Places : \A m \in Nodes : m > Count => files[q].homes[m] = NoHome
  BY DEF IInv, Settled, Idle, home
<1>3. {"out", "data"} \subseteq Places
  BY DEF Places
<1>4. Typed' /\ Settled'
  BY <1>1, <1>2, <1>3, FilesFrame DEF home
<1> QED BY <1>4 DEF home

\* Whole places may be removed.
LEMMA RemoveFrame ==
  ASSUME IInv, OnlyFiles, measured = <<>>, ~source.done, NEW S, RemoveAll(S)
  PROVE  /\ Typed' /\ Settled'
         /\ \A q \in Places : files'[q] = IF q \in S THEN NoFiles ELSE files[q]
<1>1. files \in [Places -> FileType] /\ setup \in Setups
  BY Types DEF IInv
<1>2. files' = [q \in Places |-> IF q \in S THEN NoFiles ELSE files[q]]
  BY DEF RemoveAll
<1>3. /\ files' \in [Places -> FileType]
      /\ \A q \in Places : files'[q] = IF q \in S THEN NoFiles ELSE files[q]
  BY <1>1, <1>2, NoHomeTyped
<1>4. 1 \in Nodes /\ \A m \in Nodes : NoFiles.homes[m] = NoHome
  BY <1>1, Counts DEF NoFiles
<1>5. OneOf(NoFiles.homes)
  BY <1>1, <1>4, NoneIsOne
<1>6. \A q \in Places : OneOf(files'[q].homes)
  BY <1>3, <1>5 DEF IInv, Settled, Whole
<1>7. \A q \in Places : \A m \in Nodes : m > Count => files'[q].homes[m] = NoHome
  BY <1>3, <1>4 DEF IInv, Settled, Idle, home
<1>8. \A q \in Places : \A m \in Nodes : files'[q].homes[m].used => home(q, m).used
  BY <1>3, <1>4 DEF home, NoHome
<1>9. Typed' /\ Settled'
  <2>1. {"out", "data"} \subseteq Places
    BY DEF Places
  <2> QED BY <2>1, <1>3, <1>6, <1>7, <1>8, FilesFrame
<1> QED BY <1>3, <1>9

\* The data root is removed.
LEMMA CleanStep == ASSUME IInv, CleanDataRoot PROVE IInv'
<1>1. Do("clean") /\ RemoveAll(DataRoot) /\ OnlyFiles
  BY DEF CleanDataRoot
<1>2. setup' = setup /\ gens' = gens /\ measured' = measured /\ source' = source
  BY <1>1 DEF OnlyFiles
<1>3. PICK x \in StepType :
        /\ x = step /\ x.do = "clean" /\ Pre(x) /\ measured = <<>> /\ ~source.done
        /\ Plan'
        /\ \A y \in First' :
             y \in StepType /\ Follows(x, y) /\ (Runs' <=> Runs) /\ Len(todo) > 1
  BY <1>1, <1>2, Advance
<1>4. Typed' /\ Settled'
  BY <1>1, <1>3, RemoveFrame
<1>5. ASSUME NEW y \in First' PROVE Pre(y)'
  <2>1. y = Go("mkdir", OutPlace, 0) /\ OutPlace \in Places
    BY <1>3 DEF Follows, OutPlace, Places
  <2>2. ~Runs' /\ gens \in 1..MaxGens
    BY <1>3 DEF Pre, PreClean
  <2>3. Generating(y)'
    BY <2>1, <2>2, <1>2 DEF Generating, Go
  <2> QED BY <2>1, <2>3, <1>2, <1>3 DEF Pre, Go
<1> QED BY <1>3, <1>4, <1>5 DEF IInv, Reached

\* The directory is made.
LEMMA MkdirStep == ASSUME IInv, Mkdir PROVE IInv'
<1>1. /\ Do("mkdir") /\ OnlyFiles
      /\ files' = [p \in Places |-> [files[p] EXCEPT !.exists = @ \/ step.at \in Below(p)]]
  BY DEF Mkdir
<1>2. setup' = setup /\ gens' = gens /\ measured' = measured /\ source' = source
  BY <1>1 DEF OnlyFiles
<1>3. PICK x \in StepType :
        /\ x = step /\ x.do = "mkdir" /\ Pre(x) /\ measured = <<>> /\ ~source.done
        /\ Plan'
        /\ \A y \in First' : y \in StepType /\ Follows(x, y) /\ (Runs' <=> Runs)
  BY <1>1, <1>2, Advance
<1>4. Generating(x)
  BY <1>3 DEF Pre
<1>5. files \in [Places -> FileType] /\ setup \in Setups
  BY Types DEF IInv
<1>6. /\ files' \in [Places -> FileType]
      /\ \A p \in Places : files'[p].homes = files[p].homes
  <2>1. ASSUME NEW p \in Places
        PROVE  /\ [files[p] EXCEPT !.exists = @ \/ step.at \in Below(p)] \in FileType
               /\ [files[p] EXCEPT !.exists = @ \/ step.at \in Below(p)].homes = files[p].homes
    <3>1. files[p] \in FileType
      BY <1>5
    <3>2. (files[p].exists \/ step.at \in Below(p)) \in BOOLEAN
      OBVIOUS
    <3> QED BY <3>1, <3>2 DEF FileType
  <2> QED BY <2>1, <1>1
<1>7. Typed' /\ Settled'
  BY <1>1, <1>3, <1>6, HomesFrame
<1>8. ASSUME NEW y \in First' PROVE Pre(y)'
  <2>1. y = IF Cosmos THEN Go("wipe", x.at, 1)
            ELSE Go(IF Compose THEN "down" ELSE "reset", x.at, 0)
    BY <1>3 DEF Follows
  <2>2. Generating(y)' /\ Cosmos' = Cosmos /\ Count' = Count /\ Compose' = Compose
    BY <2>1, <1>2, <1>3, <1>4, StillGenerating, SetupStays DEF Go
  <2>3. CASE Cosmos
    <3>1. 1 \in 1..Count
      BY <1>5, Counts
    <3>2. Keyed(x.at, 1..(1 - 1))'
      BY DEF Keyed
    <3> QED BY <2>1, <2>2, <2>3, <3>1, <3>2, <1>2, <1>3 DEF Pre, PreWipe, Go
  <2>4. CASE ~Cosmos /\ Compose
    BY <2>1, <2>2, <2>4, <1>2, <1>3 DEF Pre, PreDown, Go
  <2>5. CASE ~Cosmos /\ ~Compose
    BY <2>1, <2>2, <2>5, <1>2, <1>3 DEF Pre, PreReset, Go
  <2> QED BY <2>3, <2>4, <2>5
<1> QED BY <1>3, <1>7, <1>8 DEF IInv, Reached

\* What a devnet's generation knows of itself stays as it writes files.
LEMMA StillReset ==
  ASSUME NEW x, NEW y, PreReset(x), y.at = x.at, OnlyFiles, Runs' <=> Runs
  PROVE  PreReset(y)' /\ ~Cosmos /\ Compose' = Compose /\ Cosmos' = Cosmos /\ Count' = Count
<1>1. /\ setup' = setup /\ gens' = gens /\ containers' = containers /\ orphaned' = orphaned
  BY DEF OnlyFiles
<1>2. Compose' = Compose /\ Cosmos' = Cosmos /\ Count' = Count
  BY <1>1, SetupStays
<1>3. NoneUp => NoneUp'
  BY <1>1 DEF NoneUp
<1>4. Generating(y)' /\ ~Cosmos
  BY <1>1, StillGenerating DEF PreReset
<1> QED BY <1>2, <1>3, <1>4 DEF PreReset

\* The devnet directory is reset.
LEMMA ResetStep == ASSUME IInv, Reset PROVE IInv'
<1> DEFINE F == [files[step.at] EXCEPT !.homes = NoFiles.homes, !.compose = FALSE]
<1>1. /\ Do("reset") /\ OnlyFiles
      /\ files' = [files EXCEPT ![step.at].homes = NoFiles.homes, ![step.at].compose = FALSE]
  BY DEF Reset
<1>2. setup' = setup /\ gens' = gens /\ measured' = measured /\ source' = source
  BY <1>1 DEF OnlyFiles
<1>3. PICK x \in StepType :
        /\ x = step /\ x.do = "reset" /\ Pre(x) /\ measured = <<>> /\ ~source.done
        /\ Plan'
        /\ \A y \in First' : y \in StepType /\ Follows(x, y) /\ (Runs' <=> Runs)
  BY <1>1, <1>2, Advance
<1>4. PreReset(x) /\ x.at \in Places
  BY <1>3 DEF Pre, PreReset, Generating
<1>5. files \in [Places -> FileType] /\ setup \in Setups
  BY Types DEF IInv
<1>6. files' = [files EXCEPT ![x.at] = F]
  BY <1>1, <1>3, <1>4, <1>5
<1>7. F \in FileType /\ F.homes = NoFiles.homes
  <2>1. files[step.at] \in FileType
    BY <1>3, <1>4, <1>5
  <2> QED BY <2>1, NoHomeTyped DEF FileType
<1> HIDE DEF F
<1>8. /\ files' \in [Places -> FileType]
      /\ \A q \in Places : files'[q] = IF q = x.at THEN F ELSE files[q]
  BY <1>4, <1>5, <1>6, <1>7
<1>9. 1 \in Nodes /\ \A m \in Nodes : NoFiles.homes[m] = NoHome
  BY <1>5, Counts DEF NoFiles
<1>10. Typed' /\ Settled'
  <2>1. OneOf(NoFiles.homes)
    BY <1>5, <1>9, NoneIsOne
  <2>2. \A q \in Places : OneOf(files'[q].homes)
    BY <2>1, <1>7, <1>8 DEF IInv, Settled, Whole
  <2>3. \A q \in Places : \A m \in Nodes : m > Count => files'[q].homes[m] = NoHome
    BY <1>7, <1>8, <1>9 DEF IInv, Settled, Idle, home
  <2>4. \A q \in Places : \A m \in Nodes : files'[q].homes[m].used => home(q, m).used
    BY <1>7, <1>8, <1>9 DEF home, NoHome
  <2>5. {"out", "data"} \subseteq Places
    BY DEF Places
  <2> QED BY <2>2, <2>3, <2>4, <2>5, <1>1, <1>3, <1>8, FilesFrame
<1>11. ASSUME NEW y \in First' PROVE Pre(y)'
  <2>1. y = IF setup.family = "reth" THEN Go("write", x.at, 1) ELSE Go("xtask", x.at, 0)
    BY <1>3 DEF Follows
  <2>2. y.at = x.at
    BY <2>1 DEF Go
  <2>3. PreReset(y)'
    BY <2>2, <1>1, <1>3, <1>4, StillReset
  <2>4. \A m \in Nodes : home(x.at, m)' = NoHome
    BY <1>4, <1>7, <1>8, <1>9 DEF home
  <2>5. CASE setup.family = "reth"
    <3>1. Written(x.at, 1..(1 - 1))'
      BY DEF Written
    <3>2. \A m \in 1..N : m \in Nodes
      BY DEF Nodes
    <3> QED BY <2>1, <2>3, <2>4, <2>5, <3>1, <3>2, <1>2, <1>3, <1>9 DEF Pre, PreWrite, Go
  <2>6. CASE setup.family # "reth"
    BY <2>1, <2>3, <2>4, <2>6, <1>2, <1>3 DEF Pre, PreXtask, Go
  <2> QED BY <2>5, <2>6
<1> QED BY <1>3, <1>10, <1>11 DEF IInv, Reached

\* xtask makes the keys of all nodes.
LEMMA XtaskStep == ASSUME IInv, Xtask PROVE IInv'
<1> DEFINE H == [n \in Nodes |-> [home(step.at, n) EXCEPT !.keys = gens]]
           F == [files[step.at] EXCEPT !.homes = H]
<1>1. Do("xtask") /\ OnlyFiles /\ files' = [files EXCEPT ![step.at].homes = H]
  BY DEF Xtask
<1>2. setup' = setup /\ gens' = gens /\ measured' = measured /\ source' = source
  BY <1>1 DEF OnlyFiles
<1>3. PICK x \in StepType :
        /\ x = step /\ x.do = "xtask" /\ Pre(x) /\ measured = <<>> /\ ~source.done
        /\ Plan'
        /\ \A y \in First' : y \in StepType /\ Follows(x, y) /\ (Runs' <=> Runs)
  BY <1>1, <1>2, Advance
<1>4. /\ PreReset(x) /\ x.at \in Places /\ setup.family # "reth" /\ ~Cosmos
      /\ \A m \in Nodes : home(x.at, m) = NoHome
  BY <1>3 DEF Pre, PreXtask, PreReset, Generating
<1>5. files \in [Places -> FileType] /\ setup \in Setups /\ gens \in 0..MaxGens
  BY Types DEF IInv
<1>6. Count = N /\ N \in Nat /\ 1..Count = Nodes /\ 1 \in Nodes
  BY <1>4, <1>5, Counts DEF Nodes
<1>7. H \in Homes /\ \A m \in Nodes : H[m].keys = gens /\ H[m].genesis = 0 /\ ~H[m].used
  <2> DEFINE h == [NoHome EXCEPT !.keys = gens]
  <2>1. H = [n \in Nodes |-> h]
    BY <1>3, <1>4
  <2>2. h \in Home /\ h.keys = gens /\ h.genesis = 0 /\ ~h.used
    BY <1>5, NoHomeTyped DEF NoHome, Home
  <2> HIDE DEF h, H
  <2> QED BY <2>1, <2>2 DEF Homes
<1> HIDE DEF H
<1>8. files' = [files EXCEPT ![x.at] = F]
  BY <1>1, <1>3, <1>4, <1>5
<1>9. F \in FileType /\ F.homes = H
  <2>1. files[step.at] \in FileType
    BY <1>3, <1>4, <1>5
  <2> QED BY <2>1, <1>7 DEF FileType
<1> HIDE DEF F
<1>10. /\ files' \in [Places -> FileType]
       /\ \A q \in Places : files'[q] = IF q = x.at THEN F ELSE files[q]
  BY <1>4, <1>5, <1>8, <1>9
<1>11. Typed' /\ Settled'
  <2>1. OneOf(H)
    BY <1>6, <1>7 DEF OneOf
  <2>2. \A q \in Places : OneOf(files'[q].homes)
    BY <2>1, <1>9, <1>10 DEF IInv, Settled, Whole
  <2>3. \A q \in Places : \A m \in Nodes : m > Count => files'[q].homes[m] = NoHome
    BY <1>6 DEF Nodes
  <2>4. \A q \in Places : \A m \in Nodes : files'[q].homes[m].used => home(q, m).used
    BY <1>7, <1>9, <1>10 DEF home
  <2>5. {"out", "data"} \subseteq Places
    BY DEF Places
  <2> QED BY <2>2, <2>3, <2>4, <2>5, <1>1, <1>3, <1>10, FilesFrame
<1>12. ASSUME NEW y \in First' PROVE Pre(y)'
  <2>1. y = Go("write", x.at, 1) /\ y.at = x.at
    BY <1>3 DEF Follows, Go
  <2>2. PreReset(y)'
    BY <2>1, <1>1, <1>3, <1>4, StillReset
  <2>3. \A m \in Nodes : Keyed(x.at, {m})'
    BY <1>2, <1>4, <1>7, <1>9, <1>10 DEF Keyed, home
  <2>4. Written(x.at, 1..(1 - 1))' /\ \A m \in 1..N : m \in Nodes
    BY DEF Written, Nodes
  <2> QED BY <2>1, <2>2, <2>3, <2>4, <1>2, <1>3, <1>4, <1>6 DEF Pre, PreWrite, Go
<1> QED BY <1>3, <1>11, <1>12 DEF IInv, Reached

\* A devnet's node is written.
LEMMA WriteStep == ASSUME IInv, WriteHome PROVE IInv'
<1> DEFINE h == [home(step.at, step.n) EXCEPT !.keys = gens, !.genesis = gens]
<1>1. Do("write") /\ SetHome(step.at, step.n, h)
  BY DEF WriteHome
<1>2. /\ setup' = setup /\ gens' = gens /\ measured' = measured /\ source' = source
      /\ OnlyFiles
  BY <1>1 DEF SetHome, OnlyFiles
<1>3. PICK x \in StepType :
        /\ x = step /\ x.do = "write" /\ Pre(x) /\ measured = <<>> /\ ~source.done
        /\ Plan'
        /\ \A y \in First' : y \in StepType /\ Follows(x, y) /\ (Runs' <=> Runs)
  BY <1>1, <1>2, Advance
<1>4. /\ PreReset(x) /\ x.n \in Nodes /\ Written(x.at, 1..(x.n - 1)) /\ ~Cosmos /\ Generating(x)
      /\ \A m \in x.n..N :
           IF setup.family = "reth" THEN home(x.at, m) = NoHome ELSE Keyed(x.at, {m})
  BY <1>3 DEF Pre, PreWrite, PreReset
<1>5. /\ x.at \in Places /\ setup \in Setups /\ gens \in 1..MaxGens /\ gens \in 0..MaxGens
      /\ home(x.at, x.n) \in Home
  BY <1>4, Types DEF Generating, IInv
<1>6. Count = N /\ N \in Nat /\ 1..N = Nodes /\ x.n \in 1..Count
  BY <1>4, <1>5, Counts DEF Nodes
<1>7. \A m \in x.n..N : home(x.at, m).genesis = 0 /\ ~home(x.at, m).used
  BY <1>4 DEF Keyed, NoHome
<1>8. h \in Home /\ h.genesis = gens /\ ~h.used /\ h.keys = gens
  <2>1. ~home(x.at, x.n).used
    BY <1>6, <1>7
  <2> QED BY <2>1, <1>3, <1>5 DEF Home
<1> HIDE DEF h
<1>9. /\ Typed' /\ Settled'
      /\ \A q \in Places : \A m \in Nodes :
           home(q, m)' = IF q = x.at /\ m = x.n THEN h ELSE home(q, m)
  <2>1. CASE x.n = N
    <3>1. \A m \in 1..Count \ {x.n} : m \in 1..(x.n - 1)
      BY <2>1, <1>6
    <3>2. \A m \in 1..Count \ {x.n} : home(x.at, m).keys = gens /\ home(x.at, m).genesis = gens
      BY <3>1, <1>4 DEF Written
    <3> QED BY <3>2, <1>1, <1>3, <1>5, <1>6, <1>8, SetHomeFrame
  <2>2. CASE x.n # N
    <3>1. N \in 1..Count /\ N # x.n /\ N \in x.n..N
      BY <2>2, <1>6
    <3>2. \E m \in 1..Count : m # x.n /\ home(x.at, m).genesis = 0
      BY <3>1, <1>7
    <3> QED BY <3>2, <1>1, <1>3, <1>5, <1>6, <1>8, SetHomeFrame
  <2> QED BY <2>1, <2>2
<1>10. ASSUME NEW y \in First' PROVE Pre(y)'
  <2>1. /\ y = IF x.n < Count THEN Go("write", x.at, x.n + 1)
               ELSE Go(IF Compose THEN "compose" ELSE "list", x.at, 0)
        /\ y.at = x.at
    BY <1>3 DEF Follows, Go
  <2>2. PreReset(y)' /\ Compose' = Compose /\ Count' = Count
    BY <2>1, <1>2, <1>3, <1>4, StillReset
  <2>3. Written(x.at, 1..x.n)'
    <3>1. ASSUME NEW m \in 1..x.n
          PROVE  /\ home(x.at, m)'.keys = gens' /\ home(x.at, m)'.genesis = gens'
                 /\ ~home(x.at, m)'.used
      <4>1. m \in Nodes
        BY <1>6
      <4>2. CASE m = x.n
        BY <4>1, <4>2, <1>2, <1>5, <1>8, <1>9
      <4>3. CASE m # x.n
        <5>1. m \in 1..(x.n - 1) /\ home(x.at, m)' = home(x.at, m)
          BY <4>1, <4>3, <1>5, <1>6, <1>9
        <5> QED BY <5>1, <1>2, <1>4 DEF Written
      <4> QED BY <4>2, <4>3
    <3> QED BY <3>1 DEF Written
  <2>4. CASE x.n < Count
    <3>1. x.n + 1 \in Nodes /\ (x.n + 1) - 1 = x.n
      BY <2>4, <1>6
    <3>2. ASSUME NEW m \in (x.n + 1)..N
          PROVE  IF setup'.family = "reth" THEN home(x.at, m)' = NoHome ELSE Keyed(x.at, {m})'
      <4>1. m \in x.n..N /\ m \in Nodes /\ m # x.n
        BY <1>6
      <4>2. home(x.at, m)' = home(x.at, m)
        BY <4>1, <1>5, <1>9
      <4> QED BY <4>1, <4>2, <1>2, <1>4 DEF Keyed
    <3>3. PreWrite(y)'
      BY <3>1, <3>2, <2>1, <2>2, <2>3, <2>4 DEF PreWrite, Go
    <3> QED BY <3>3, <2>1, <2>4, <1>2, <1>3 DEF Pre, Go
  <2>5. CASE ~(x.n < Count)
    <3>1. x.n = N /\ 1..x.n = Nodes
      BY <2>5, <1>6
    <3>2. Written(x.at, Nodes)'
      BY <3>1, <2>3
    <3>3. Generating(y)'
      BY <2>2 DEF PreReset
    <3>4. CASE Compose
      BY <3>2, <3>4, <2>1, <2>2, <2>5, <1>2, <1>3 DEF Pre, PreCompose, Go
    <3>5. CASE ~Compose
      <4>1. Written(x.at, 1..Count)'
        BY <3>2, <2>2, <1>6
      <4> QED BY <3>3, <3>5, <4>1, <2>1, <2>2, <2>5, <1>2, <1>3 DEF Pre, PreList, Go
    <3> QED BY <3>4, <3>5
  <2> QED BY <2>4, <2>5
<1> QED BY <1>3, <1>9, <1>10 DEF IInv, Reached

\* The compose file is written.
LEMMA ComposeStep == ASSUME IInv, WriteCompose PROVE IInv'
<1> DEFINE F == [files[step.at] EXCEPT !.compose = TRUE]
<1>1. Do("compose") /\ OnlyFiles /\ files' = [files EXCEPT ![step.at].compose = TRUE]
  BY DEF WriteCompose
<1>2. /\ setup' = setup /\ gens' = gens /\ measured' = measured /\ source' = source
      /\ containers' = containers /\ orphaned' = orphaned
  BY <1>1 DEF OnlyFiles
<1>3. PICK x \in StepType :
        /\ x = step /\ x.do = "compose" /\ Pre(x) /\ measured = <<>> /\ ~source.done
        /\ Plan'
        /\ \A y \in First' : y \in StepType /\ Follows(x, y) /\ (Runs' <=> Runs)
  BY <1>1, <1>2, Advance
<1>4. /\ PreReset(x) /\ Compose /\ Written(x.at, Nodes) /\ ~Cosmos /\ Generating(x) /\ NoneUp
      /\ x.at \in Places
  BY <1>3 DEF Pre, PreCompose, PreReset, Generating
<1>5. files \in [Places -> FileType] /\ setup \in Setups /\ files[x.at] \in FileType
  BY <1>4, Types DEF IInv
<1>6. files' = [files EXCEPT ![x.at] = F]
  BY <1>1, <1>3, <1>4, <1>5
<1>7. F \in FileType /\ F.homes = files[x.at].homes /\ F.compose
  BY <1>3, <1>5 DEF FileType
<1> HIDE DEF F
<1>8. /\ files' \in [Places -> FileType]
      /\ \A q \in Places : files'[q] = IF q = x.at THEN F ELSE files[q]
  BY <1>4, <1>5, <1>6, <1>7
<1>9. Typed' /\ Settled' /\ \A q \in Places : \A m \in Nodes : home(q, m)' = home(q, m)
  BY <1>1, <1>3, <1>7, <1>8, HomesFrame
<1>10. ASSUME NEW y \in First' PROVE Pre(y)'
  <2>1. y = Go("up", x.at, 1) /\ y.at = x.at
    BY <1>3 DEF Follows, Go
  <2>2. Generating(y)' /\ Cosmos' = Cosmos /\ Compose' = Compose
    BY <2>1, <1>2, <1>3, <1>4, StillGenerating, SetupStays
  <2>3. Written(x.at, Nodes)' /\ files'[x.at].compose
    BY <1>2, <1>4, <1>7, <1>8, <1>9 DEF Written
  <2>4. UpBefore(1)'
    BY <1>2, <1>4 DEF UpBefore, NoneUp, Nodes
  <2>5. 1 \in Nodes
    BY <1>5, Counts DEF Nodes
  <2> QED BY <2>1, <2>2, <2>3, <2>4, <2>5, <1>2, <1>3, <1>4 DEF Pre, PreUp, Go
<1> QED BY <1>3, <1>9, <1>10 DEF IInv, Reached

\* A step changes containers alone.
LEMMA ContainersFrame ==
  ASSUME IInv, OnlyContainers, measured = <<>>, ~source.done, orphaned' \in BOOLEAN,
         containers' \in [Nodes -> [at : Places \cup {None}, home : Home]], Contained'
  PROVE  Typed' /\ Settled'
<1>0. /\ setup' = setup /\ image' = image /\ files' = files /\ targets' = targets
      /\ measured' = measured /\ gens' = gens /\ ops' = ops /\ source' = source
  BY DEF OnlyContainers
<1>1. Count' = Count /\ Cosmos' = Cosmos /\ MountHome' = MountHome
  BY <1>0, SetupStays
<1>2. Typed /\ Whole /\ Idle /\ Fresh /\ Sourced
  BY DEF IInv, Settled
<1>3. Typed'
  BY <1>0, <1>2 DEF Typed, TypeOK
<1>4. Whole' /\ Idle'
  BY <1>0, <1>1, <1>2 DEF Whole, OneOf, Idle, home
<1>5. Fresh'
  BY <1>0, <1>1, <1>2 DEF Fresh, home
<1>6. Patched' /\ Sourced'
  BY <1>0, <1>2 DEF Patched, Sourced
<1>7. OneNetwork' /\ FreshChain'
  BY <1>0 DEF OneNetwork, FreshChain
<1> QED BY <1>3, <1>4, <1>5, <1>6, <1>7 DEF Settled

\* The containers are taken down, or, without the compose file, are not.
LEMMA DownStep == ASSUME IInv, Down PROVE IInv'
<1>1. /\ Do("down") /\ OnlyContainers
      /\ \/ containers' = [n \in Nodes |-> NoContainer] /\ orphaned' = FALSE
         \/ /\ orphaned' = (\E n \in Nodes : containers[n] # NoContainer)
            /\ containers' = containers
  BY DEF Down
<1>2. setup' = setup /\ gens' = gens /\ measured' = measured /\ source' = source
  BY <1>1 DEF OnlyContainers
<1>3. PICK x \in StepType :
        /\ x = step /\ x.do = "down" /\ Pre(x) /\ measured = <<>> /\ ~source.done
        /\ Plan'
        /\ \A y \in First' : y \in StepType /\ Follows(x, y) /\ (Runs' <=> Runs)
  BY <1>1, <1>2, Advance
<1>4. ~Cosmos /\ Generating(x)
  BY <1>3 DEF Pre, PreDown
<1>5. /\ containers \in [Nodes -> [at : Places \cup {None}, home : Home]]
      /\ NoContainer \in [at : Places \cup {None}, home : Home] /\ MaxGens \in Nat
  BY Types, NoHomeTyped DEF IInv, NoContainer
<1>6. /\ containers' \in [Nodes -> [at : Places \cup {None}, home : Home]]
      /\ orphaned' \in BOOLEAN
  BY <1>1, <1>5
<1>7. ~orphaned' => \A n \in Nodes : containers'[n] = NoContainer
  BY <1>1
<1>8. Contained'
  <2>1. ASSUME NEW n \in Nodes, containers'[n].at # None
        PROVE  containers'[n].home.keys # 0 /\ containers'[n].home.genesis # 0
    <3>1. containers'[n] # NoContainer
      BY <2>1 DEF NoContainer
    <3>2. containers' = containers
      BY <3>1, <1>1
    <3> QED BY <2>1, <3>2 DEF IInv, Settled, Contained
  <2>2. ~orphaned' => \A n \in Nodes : containers'[n].home.keys = 0
    BY <1>7 DEF NoContainer, NoHome
  <2>3. 0 \in 0..MaxGens
    BY <1>5
  <2> QED BY <2>1, <2>2, <2>3 DEF Contained
<1>9. Typed' /\ Settled'
  BY <1>1, <1>3, <1>6, <1>8, ContainersFrame
<1>10. ASSUME NEW y \in First' PROVE Pre(y)'
  <2>1. y = Go("reset", x.at, 0) /\ y.at = x.at
    BY <1>3 DEF Follows, Go
  <2>2. Generating(y)' /\ Cosmos' = Cosmos
    BY <2>1, <1>2, <1>3, <1>4, StillGenerating, SetupStays
  <2>3. NoneUp'
    BY <1>7 DEF NoneUp
  <2> QED BY <2>1, <2>2, <2>3, <1>2, <1>3, <1>4 DEF Pre, PreReset, Go
<1> QED BY <1>3, <1>9, <1>10 DEF IInv, Reached

\* A node's container is brought up, unless an old one is there.
LEMMA UpStep == ASSUME IInv, Up PROVE IInv'
<1>1. /\ Do("up") /\ OnlyContainers /\ orphaned' = orphaned
      /\ containers' = IF containers[step.n].at = step.at THEN containers
                       ELSE [containers EXCEPT ![step.n] =
                               [at |-> step.at, home |-> home(step.at, step.n)]]
  BY DEF Up
<1>2. /\ setup' = setup /\ gens' = gens /\ measured' = measured /\ source' = source
      /\ files' = files
  BY <1>1 DEF OnlyContainers
<1>3. PICK x \in StepType :
        /\ x = step /\ x.do = "up" /\ Pre(x) /\ measured = <<>> /\ ~source.done
        /\ Plan'
        /\ \A y \in First' : y \in StepType /\ Follows(x, y) /\ (Runs' <=> Runs)
  BY <1>1, <1>2, Advance
<1>4. /\ ~Cosmos /\ Generating(x) /\ Compose /\ x.n \in Nodes /\ Written(x.at, Nodes)
      /\ files[x.at].compose /\ UpBefore(x.n)
  BY <1>3 DEF Pre, PreUp
<1>5. /\ containers \in [Nodes -> [at : Places \cup {None}, home : Home]]
      /\ x.at \in Places /\ x.at # None /\ gens \in 1..MaxGens /\ gens \in 0..MaxGens /\ gens # 0
      /\ home(x.at, x.n) \in Home /\ setup \in Setups /\ orphaned \in BOOLEAN
  BY <1>4, Types DEF IInv, Generating, Places, None
<1>6. Count = N /\ N \in Nat /\ Nodes = 1..N
  BY <1>4, <1>5, Counts DEF Nodes
<1> DEFINE c == IF containers[x.n].at = x.at THEN containers[x.n]
                ELSE [at |-> x.at, home |-> home(x.at, x.n)]
<1>7. \A m \in Nodes : containers'[m] = IF m = x.n THEN c ELSE containers[m]
  BY <1>1, <1>3, <1>4, <1>5
<1>8. /\ containers' \in [Nodes -> [at : Places \cup {None}, home : Home]]
      /\ c.at = x.at
  BY <1>1, <1>3, <1>4, <1>5
<1>9. ~orphaned => c = [at |-> x.at, home |-> home(x.at, x.n)]
  <2>1. ~orphaned => containers[x.n] = NoContainer
    BY <1>4, <1>6 DEF UpBefore
  <2> QED BY <2>1, <1>5 DEF NoContainer
<1>10. /\ home(x.at, x.n).keys = gens /\ home(x.at, x.n).genesis = gens
       /\ ~home(x.at, x.n).used
  BY <1>4 DEF Written
<1>11. c.home.keys # 0 /\ c.home.genesis # 0
  <2>1. CASE containers[x.n].at = x.at
    BY <2>1, <1>4, <1>5 DEF IInv, Settled, Contained
  <2>2. CASE containers[x.n].at # x.at
    BY <2>2, <1>5, <1>10
  <2> QED BY <2>1, <2>2
<1>12. ~orphaned => c.home.keys = gens /\ c.home.genesis = gens /\ ~c.home.used
  BY <1>9, <1>10
<1> HIDE DEF c
<1>13. UpBefore(x.n + 1)'
  <2>1. ASSUME NEW m \in Nodes
        PROVE  /\ m < x.n + 1 => containers'[m].at # None
               /\ ~orphaned /\ m < x.n + 1 =>
                    /\ containers'[m].home.keys = gens /\ containers'[m].home.genesis = gens
                    /\ ~containers'[m].home.used
               /\ ~orphaned /\ m >= x.n + 1 => containers'[m] = NoContainer
    <3>1. CASE m = x.n
      BY <3>1, <1>5, <1>6, <1>7, <1>8, <1>12
    <3>2. CASE m # x.n
      <4>1. /\ containers'[m] = containers[m]
            /\ m < x.n + 1 => m < x.n
            /\ m >= x.n + 1 => m >= x.n
        BY <3>2, <1>4, <1>6, <1>7
      <4> QED BY <4>1, <1>4 DEF UpBefore
    <3> QED BY <3>1, <3>2
  <2> QED BY <2>1, <1>1, <1>2 DEF UpBefore
<1>14. Contained'
  <2>1. ASSUME NEW n \in Nodes, containers'[n].at # None
        PROVE  containers'[n].home.keys # 0 /\ containers'[n].home.genesis # 0
    BY <2>1, <1>7, <1>11 DEF IInv, Settled, Contained
  <2>2. ASSUME ~orphaned, NEW n \in Nodes, containers'[n].home.keys # 0
        PROVE  containers'[n].home.keys = gens /\ containers'[n].home.genesis = gens
    <3>1. CASE n < x.n + 1
      BY <3>1, <2>2, <1>1, <1>2, <1>13 DEF UpBefore
    <3>2. CASE n >= x.n + 1
      BY <3>2, <2>2, <1>1, <1>13 DEF UpBefore, NoContainer, NoHome
    <3> QED BY <3>1, <3>2, <1>4, <1>6
  <2> QED BY <2>1, <2>2, <1>1, <1>5 DEF Contained
<1>15. Typed' /\ Settled'
  BY <1>1, <1>3, <1>5, <1>8, <1>14, ContainersFrame
<1>16. ASSUME NEW y \in First' PROVE Pre(y)'
  <2>1. /\ y = IF x.n < Count THEN Go("up", x.at, x.n + 1) ELSE Go("list", x.at, 0)
        /\ y.at = x.at
    BY <1>3 DEF Follows, Go
  <2>2. Generating(y)' /\ Cosmos' = Cosmos /\ Compose' = Compose /\ Count' = Count
    BY <2>1, <1>2, <1>3, <1>4, StillGenerating, SetupStays
  <2>3. Written(x.at, Nodes)'
    BY <1>2, <1>4 DEF Written, home
  <2>4. CASE x.n < Count
    <3>1. x.n + 1 \in Nodes
      BY <2>4, <1>4, <1>6
    <3>2. PreUp(y)'
      BY <3>1, <2>1, <2>2, <2>3, <2>4, <1>2, <1>4, <1>13 DEF PreUp, Go
    <3> QED BY <3>2, <2>1, <2>4, <1>2, <1>3 DEF Pre, Go
  <2>5. CASE ~(x.n < Count)
    <3>1. x.n + 1 = N + 1
      BY <2>5, <1>4, <1>6
    <3>2. UpBefore(N + 1)'
      BY <3>1, <1>13
    <3>3. Written(x.at, 1..Count)'
      BY <2>2, <2>3, <1>6
    <3>4. PreList(y)'
      BY <3>2, <3>3, <2>1, <2>2, <2>5 DEF PreList, Go
    <3> QED BY <3>4, <2>1, <2>5, <1>2, <1>3 DEF Pre, Go
  <2> QED BY <2>4, <2>5
<1> QED BY <1>3, <1>15, <1>16 DEF IInv, Reached

\* The list of homes is written, and the workflow told.
LEMMA ListStep == ASSUME IInv, List PROVE IInv'
<1> DEFINE F == [files[step.at] EXCEPT !.list = step.at]
<1>1. /\ Do("list") /\ files' = [files EXCEPT ![step.at].list = step.at] /\ targets' = step.at
      /\ UNCHANGED <<setup, image, containers, measured, gens, ops, source, orphaned>>
  BY DEF List
<1>2. /\ setup' = setup /\ gens' = gens /\ measured' = measured /\ source' = source
      /\ containers' = containers /\ orphaned' = orphaned
  BY <1>1
<1>3. PICK x \in StepType :
        /\ x = step /\ x.do = "list" /\ Pre(x) /\ measured = <<>> /\ ~source.done
        /\ Plan'
        /\ \A y \in First' :
             y \in StepType /\ Follows(x, y) /\ (Runs' <=> Runs) /\ (y.do = "run" => Runs')
  BY <1>1, <1>2, Advance
<1>4. /\ Generating(x) /\ Written(x.at, 1..Count) /\ (Compose => UpBefore(N + 1))
      /\ x.at \in Places /\ x.at # None
  BY <1>3 DEF Pre, PreList, Generating, Places, None
<1>5. /\ files \in [Places -> FileType] /\ setup \in Setups /\ files[x.at] \in FileType
      /\ 1..Count \subseteq Nodes /\ N \in Nat
  BY <1>4, Types, Counts DEF IInv
<1>6. files' = [files EXCEPT ![x.at] = F]
  BY <1>1, <1>3, <1>4, <1>5
<1>7. F \in FileType /\ F.homes = files[x.at].homes
  BY <1>3, <1>4, <1>5 DEF FileType
<1> HIDE DEF F
<1>8. /\ files' \in [Places -> FileType]
      /\ \A q \in Places : files'[q] = IF q = x.at THEN F ELSE files[q]
  BY <1>4, <1>5, <1>6, <1>7
<1>9. Typed' /\ Settled' /\ \A q \in Places : \A m \in Nodes : home(q, m)' = home(q, m)
  <2>1. FilesAndTargets
    BY <1>1, <1>3, <1>4 DEF FilesAndTargets
  <2> QED BY <2>1, <1>3, <1>7, <1>8, HomesFrame
<1>10. ASSUME NEW y \in First' PROVE Pre(y)'
  <2>1. Patching(y) \/ (setup.patch = "off" /\ Running(y))
    BY <1>3 DEF Follows
  <2>2. /\ Count' = Count /\ Compose' = Compose /\ \A z : Patching(z)' = Patching(z)
    BY <1>2, SetupStays
  <2>3. Written(x.at, 1..Count)'
    BY <2>2, <1>2, <1>4, <1>5, <1>9 DEF Written
  <2>4. Compose => UpBefore(N + 1)'
    BY <1>2, <1>4 DEF UpBefore
  <2>5. Ready'
    <3>1. SUFFICES ASSUME Runs'
                   PROVE  /\ targets' # None
                          /\ targets' = "data" /\ \A m \in 1..Count : ~home("data", m)'.used
                          /\ Compose /\ ~orphaned =>
                               \A m \in Nodes : ~containers[m].home.used
      BY <2>2, <1>2 DEF Ready
    <3>2. x.at = "data"
      BY <3>1, <1>3, <1>4 DEF Generating
    <3>3. \A m \in Nodes : m < N + 1
      BY <1>5 DEF Nodes
    <3> QED BY <3>2, <3>3, <2>2, <2>3, <1>1, <1>3, <1>4 DEF Written, UpBefore
  <2>6. CASE Patching(y)
    <3>1. y.do \in {"given", "default"}
      BY <2>6 DEF Patching
    <3> QED BY <3>1, <2>2, <2>5, <2>6, <1>2, <1>3 DEF Pre
  <2>7. CASE setup.patch = "off" /\ Running(y)
    <3>1. y.do = "run" /\ Runs'
      BY <2>7, <1>3 DEF Running, Go
    <3>2. x.at = "data" /\ gens \in 1..MaxGens
      BY <3>1, <1>3, <1>4 DEF Generating
    <3>3. PreRun(y)'
      BY <3>1, <3>2, <2>2, <2>3, <2>4, <2>5, <1>2 DEF PreRun
    <3> QED BY <3>1, <3>3, <1>2, <1>3 DEF Pre
  <2> QED BY <2>1, <2>6, <2>7
<1> QED BY <1>3, <1>9, <1>10 DEF IInv, Reached

\* A layout is reused.
LEMMA LoadStep == ASSUME IInv, LoadLayout PROVE IInv'
<1>1. /\ Do("load") /\ targets' = files["data"].list
      /\ UNCHANGED <<setup, files, image, containers, measured, gens, ops, source, orphaned>>
  BY DEF LoadLayout
<1>2. setup' = setup /\ measured' = measured /\ source' = source
  BY <1>1
<1>3. PICK x \in StepType :
        /\ x = step /\ x.do = "load" /\ Pre(x) /\ measured = <<>> /\ ~source.done
        /\ Plan'
        /\ \A y \in First' :
             y \in StepType /\ Follows(x, y) /\ (Runs' <=> Runs) /\ (y.do = "run" => Runs')
  BY <1>1, <1>2, Advance
<1>4. Runs /\ setup.skip /\ files["data"].list # None
  BY <1>1, <1>3 DEF Pre, PreLoad, Do, Possible
<1>5. files \in [Places -> FileType] /\ files["data"].list \in Places \cup {None}
  BY Types DEF IInv, FileType, Places
<1>6. Typed' /\ Settled'
  <2>1. FilesAndTargets
    BY <1>1, <1>5 DEF FilesAndTargets
  <2> QED BY <2>1, <1>1, <1>3, <1>5, HomesFrame
<1>7. ASSUME NEW y \in First' PROVE Pre(y)'
  <2>1. Patching(y) \/ (setup.patch = "off" /\ Running(y))
    BY <1>3 DEF Follows
  <2>2. \A z : Patching(z)' = Patching(z)
    BY <1>2, SetupStays
  <2>3. Ready' /\ setup'.skip
    BY <1>1, <1>2, <1>4 DEF Ready
  <2>4. CASE Patching(y)
    <3>1. y.do \in {"given", "default"}
      BY <2>4 DEF Patching
    <3> QED BY <3>1, <2>2, <2>3, <2>4, <1>2, <1>3 DEF Pre
  <2>5. CASE Running(y)
    <3>1. y.do = "run" /\ Runs'
      BY <2>5, <1>3 DEF Running, Go
    <3>2. PreRun(y)'
      BY <3>1, <2>3 DEF PreRun
    <3> QED BY <3>1, <3>2, <1>2, <1>3 DEF Pre
  <2> QED BY <2>1, <2>4, <2>5
<1> QED BY <1>3, <1>6, <1>7 DEF IInv, Reached

----------------------------------------------------------------------------
(* The steps of a PatchImage keep the invariant *)

\* What PatchImage must keep is kept if no home in data_dir is used that was not.
LEMMA StillReady ==
  ASSUME Ready, Runs' => Runs, setup' = setup, targets' = targets, containers' = containers,
         orphaned' = orphaned,
         ~setup.skip => \A m \in 1..Count : home("data", m)'.used => home("data", m).used
  PROVE  Ready'
<1>1. Count' = Count /\ Compose' = Compose
  BY SetupStays
<1>2. SUFFICES ASSUME Runs
               PROVE  /\ targets # None
                      /\ ~setup.skip =>
                           /\ targets = "data" /\ \A m \in 1..Count : ~home("data", m)'.used
                           /\ Compose /\ ~orphaned =>
                                \A m \in Nodes : ~containers[m].home.used
  BY <1>1 DEF Ready
<1> QED BY <1>2 DEF Ready

\* A step changes the source alone.
LEMMA SourceFrame ==
  ASSUME IInv, OnlySource, measured = <<>>, Patched', Sourced',
         source' \in [from : Places \cup {None}, homes : Homes \cup {<<>>}, done : BOOLEAN]
  PROVE  Typed' /\ Settled'
<1>0. /\ setup' = setup /\ image' = image /\ files' = files /\ targets' = targets
      /\ measured' = measured /\ gens' = gens /\ ops' = ops /\ containers' = containers
      /\ orphaned' = orphaned
  BY DEF OnlySource
<1>1. Count' = Count /\ Cosmos' = Cosmos /\ MountHome' = MountHome
  BY <1>0, SetupStays
<1>2. Typed /\ Whole /\ Idle /\ Contained /\ Fresh
  BY DEF IInv, Settled
<1>3. source'.from \in Places \cup {None}
  OBVIOUS
<1>4. Typed'
  BY <1>0, <1>2, <1>3 DEF Typed, TypeOK
<1>5. Whole' /\ Idle' /\ Contained'
  BY <1>0, <1>1, <1>2 DEF Whole, OneOf, Idle, home, Contained
<1>6. Fresh'
  BY <1>0, <1>1, <1>2 DEF Fresh, home
<1>7. OneNetwork' /\ FreshChain'
  BY <1>0 DEF OneNetwork, FreshChain
<1> QED BY <1>4, <1>5, <1>6, <1>7 DEF Settled

\* The source is found.
LEMMA FindStep == ASSUME IInv, FindSource PROVE IInv'
<1>1. /\ Do("given") \/ Do("default")
      /\ source' = [from |-> SourceDir, homes |-> files[SourceDir].homes, done |-> FALSE]
      /\ OnlySource
  BY DEF FindSource
<1>2. /\ setup' = setup /\ measured' = measured /\ files' = files /\ targets' = targets
      /\ containers' = containers /\ orphaned' = orphaned
  BY <1>1 DEF OnlySource
<1>3. PICK x \in StepType :
        /\ x = step /\ x.do \in {"given", "default"} /\ Pre(x) /\ measured = <<>>
        /\ Plan' /\ (Runs' => Runs)
        /\ \A y \in First' : y \in StepType /\ Follows(x, y) /\ (Runs' <=> Runs)
  BY <1>1, <1>2, Advance
<1>4. Ready /\ Patching(x)
  BY <1>3 DEF Pre
<1>5. SourceDir \in Places
  BY DEF SourceDir, OutPlace, Places
<1>6. files \in [Places -> FileType] /\ files[SourceDir].homes \in Homes
  BY <1>5, Types DEF IInv, FileType
<1>7. /\ source'.from \in Places /\ source'.homes = files'[source'.from].homes /\ ~source'.done
      /\ source' \in [from : Places \cup {None}, homes : Homes \cup {<<>>}, done : BOOLEAN]
  BY <1>1, <1>2, <1>5, <1>6
<1>8. Sourced'
  <2>1. ASSUME ~setup.docker PROVE setup.patch # "off"
    BY <2>1, <1>4 DEF Patching
  <2>2. ASSUME setup.patch = "given", setup.out # "same" PROVE source'.from = "out"
    <3>1. step.do = "given"
      BY <2>2, <1>3, <1>4 DEF Patching
    <3> QED BY <3>1, <2>2, <1>1 DEF SourceDir, OutPlace
  <2> QED BY <2>1, <2>2, <1>2 DEF Sourced
<1>9. Typed' /\ Settled'
  <2>1. Patched'
    BY <1>7 DEF Patched
  <2> QED BY <2>1, <1>1, <1>3, <1>7, <1>8, SourceFrame
<1>10. ASSUME NEW y \in First' PROVE Pre(y)'
  <2>1. y = IF setup.docker THEN Go("build", "image", 0) ELSE Go("remove", "data", 0)
    BY <1>3 DEF Follows
  <2>2. Ready'
    BY <1>2, <1>3, <1>4, StillReady DEF home
  <2>3. SourceKept'
    BY <1>7 DEF SourceKept
  <2>4. CASE setup.docker
    BY <2>1, <2>2, <2>3, <2>4, <1>2, <1>3, <1>7 DEF Pre, PreBuild, Go
  <2>5. CASE ~setup.docker
    BY <2>1, <2>2, <2>3, <2>5, <1>2, <1>3, <1>7 DEF Pre, PreRemove, Go
  <2> QED BY <2>4, <2>5
<1> QED BY <1>3, <1>9, <1>10 DEF IInv, Reached

\* After a PatchImage come only the nodes.
LEMMA RunsNext ==
  ASSUME NEW x, NEW y, x.do \in {"build", "copied"}, Follows(x, y), y.do = "run" => Runs',
         Ready', measured' = <<>>, setup' = setup
  PROVE  Pre(y)'
<1>1. setup.patch # "off" /\ y.do = "run"
  BY DEF Follows, Running, Go
<1>2. PreRun(y)'
  BY <1>1 DEF PreRun
<1> QED BY <1>1, <1>2 DEF Pre

\* The image is built.
LEMMA BuildStep == ASSUME IInv, Build PROVE IInv'
<1>1. /\ Do("build") /\ image' = files[source.from].homes
      /\ source' = [source EXCEPT !.done = TRUE]
      /\ UNCHANGED <<setup, files, containers, targets, measured, gens, ops, orphaned>>
  BY DEF Build
<1>2. /\ setup' = setup /\ measured' = measured /\ files' = files /\ targets' = targets
      /\ containers' = containers /\ orphaned' = orphaned /\ gens' = gens /\ ops' = ops
  BY <1>1
<1>3. PICK x \in StepType :
        /\ x = step /\ x.do = "build" /\ Pre(x) /\ measured = <<>>
        /\ Plan' /\ (Runs' => Runs)
        /\ \A y \in First' :
             y \in StepType /\ Follows(x, y) /\ (Runs' <=> Runs) /\ (y.do = "run" => Runs')
  BY <1>1, <1>2, Advance
<1>4. /\ Ready /\ source.from \in Places /\ files[source.from].homes = source.homes
      /\ setup.docker
  BY <1>3 DEF Pre, PreBuild, SourceKept
<1>5. /\ files \in [Places -> FileType] /\ files[source.from].homes \in Homes
      /\ source \in [from : Places \cup {None}, homes : Homes \cup {<<>>}, done : BOOLEAN]
  BY <1>4, Types DEF IInv, FileType
<1>6. /\ image' \in Homes
      /\ source' \in [from : Places \cup {None}, homes : Homes \cup {<<>>}, done : BOOLEAN]
      /\ source'.from = source.from /\ source'.homes = source.homes
  BY <1>1, <1>5
<1>7. Count' = Count /\ Cosmos' = Cosmos /\ MountHome' = MountHome
  BY <1>2, SetupStays
<1>8. Typed /\ Whole /\ Idle /\ Contained /\ Fresh
  BY DEF IInv, Settled
<1>9. Typed'
  <2>1. TypeOK'
    BY <1>2, <1>4, <1>6, <1>8 DEF Typed, TypeOK, Homes
  <2> QED BY <2>1, <1>6 DEF Typed, Homes
<1>10. Whole'
  <2>1. \A p \in Places : OneOf(files[p].homes)'
    BY <1>2, <1>7, <1>8 DEF Whole, OneOf
  <2>2. OneOf(image)'
    BY <1>1, <1>4, <1>7, <1>8 DEF Whole, OneOf
  <2> QED BY <2>1, <2>2 DEF Whole
<1>11. Idle' /\ Contained'
  BY <1>2, <1>7, <1>8 DEF Idle, home, Contained
<1>12. Fresh'
  <2>1. ASSUME Cosmos, setup.docker, ~MountHome, NEW n \in Nodes
        PROVE  ~image'[n].used /\ \A p \in Places : ~home(p, n)'.used
    <3>1. \A p \in Places : ~home(p, n).used
      BY <2>1, <1>8 DEF Fresh
    <3> QED BY <3>1, <1>1, <1>2, <1>4 DEF home
  <2>2. ~setup.skip => \A n \in Nodes : ~home("out", n)'.used
    BY <1>2, <1>8 DEF Fresh, home
  <2> QED BY <2>1, <2>2, <1>2, <1>7 DEF Fresh
<1>13. Patched' /\ Sourced'
  BY <1>1, <1>2, <1>4, <1>6 DEF Patched, Sourced
<1>14. OneNetwork' /\ FreshChain'
  BY <1>2, <1>3 DEF OneNetwork, FreshChain
<1>15. ASSUME NEW y \in First' PROVE Pre(y)'
  <2>1. Ready'
    BY <1>2, <1>3, <1>4, StillReady DEF home
  <2> QED BY <2>1, <1>2, <1>3, RunsNext
<1> QED BY <1>3, <1>9, <1>10, <1>11, <1>12, <1>13, <1>14, <1>15 DEF IInv, Reached, Settled

\* The copy is done.
LEMMA CopiedStep == ASSUME IInv, Copied PROVE IInv'
<1>1. Do("copied") /\ source' = [source EXCEPT !.done = TRUE] /\ OnlySource
  BY DEF Copied
<1>2. /\ setup' = setup /\ measured' = measured /\ files' = files /\ targets' = targets
      /\ containers' = containers /\ orphaned' = orphaned
  BY <1>1 DEF OnlySource
<1>3. PICK x \in StepType :
        /\ x = step /\ x.do = "copied" /\ Pre(x) /\ measured = <<>>
        /\ Plan' /\ (Runs' => Runs)
        /\ \A y \in First' :
             y \in StepType /\ Follows(x, y) /\ (Runs' <=> Runs) /\ (y.do = "run" => Runs')
  BY <1>1, <1>2, Advance
<1>4. /\ Ready /\ ~setup.docker /\ source.from \in Places
      /\ source.from = "out" =>
           source.homes \in Homes /\ \A m \in Nodes : home("data", m) = source.homes[m]
  BY <1>3 DEF Pre, PreCopied
<1>5. /\ files["data"].homes \in Homes
      /\ source \in [from : Places \cup {None}, homes : Homes \cup {<<>>}, done : BOOLEAN]
  BY Types DEF IInv, FileType, Places
<1>6. /\ source' \in [from : Places \cup {None}, homes : Homes \cup {<<>>}, done : BOOLEAN]
      /\ source'.from = source.from /\ source'.homes = source.homes
  BY <1>1, <1>5
<1>7. source.from = "out" => files["data"].homes = source.homes
  BY <1>4, <1>5 DEF Homes, home
<1>8. Patched' /\ Sourced'
  <2>1. Sourced
    BY DEF IInv, Settled
  <2> QED BY <2>1, <1>2, <1>4, <1>6, <1>7 DEF Patched, Sourced
<1>9. Typed' /\ Settled'
  BY <1>1, <1>3, <1>6, <1>8, SourceFrame
<1>10. ASSUME NEW y \in First' PROVE Pre(y)'
  <2>1. Ready'
    BY <1>2, <1>3, <1>4, StillReady DEF home
  <2> QED BY <2>1, <1>2, <1>3, RunsNext
<1> QED BY <1>3, <1>9, <1>10 DEF IInv, Reached

\* The destination is removed, and a source in it with it.
LEMMA RemoveStep == ASSUME IInv, RemoveDest PROVE IInv'
<1>1. /\ Do("remove") /\ OnlyFiles
      /\ IF source.from = "data" THEN UNCHANGED files ELSE RemoveAll(Below("data"))
  BY DEF RemoveDest
<1>2. /\ setup' = setup /\ measured' = measured /\ source' = source /\ targets' = targets
      /\ containers' = containers /\ orphaned' = orphaned
  BY <1>1 DEF OnlyFiles
<1>3. PICK x \in StepType :
        /\ x = step /\ x.do = "remove" /\ Pre(x) /\ measured = <<>> /\ ~source.done
        /\ Plan' /\ (Runs' => Runs)
        /\ \A y \in First' : y \in StepType /\ Follows(x, y) /\ (Runs' <=> Runs)
  BY <1>1, <1>2, Advance
<1>4. /\ Ready /\ source.from \in Places /\ files[source.from].homes = source.homes
      /\ ~setup.docker
  BY <1>3 DEF Pre, PreRemove, SourceKept
<1>5. files \in [Places -> FileType] /\ setup \in Setups /\ 1..Count \subseteq Nodes
  BY Types, Counts DEF IInv
<1>6. /\ Typed' /\ Settled'
      /\ \A m \in Nodes : home("data", m)'.used => home("data", m).used
      /\ source.from = "out" =>
           /\ \A m \in Nodes : home("data", m)' = NoHome
           /\ files'["out"] \in {files["out"], NoFiles}
  <2>1. CASE source.from = "data"
    <3>1. files' = files
      BY <2>1, <1>1
    <3>2. Typed' /\ Settled'
      BY <3>1, <1>1, <1>3, <1>5, HomesFrame
    <3> QED BY <2>1, <3>1, <3>2 DEF home
  <2>2. CASE source.from # "data"
    <3>1. RemoveAll(Below("data")) /\ "data" \in Below("data") /\ {"data", "out"} \subseteq Places
      BY <2>2, <1>1 DEF Below, Places
    <3>2. /\ Typed' /\ Settled'
          /\ \A q \in Places : files'[q] = IF q \in Below("data") THEN NoFiles ELSE files[q]
      BY <3>1, <1>1, <1>3, RemoveFrame
    <3>3. files'["data"] = NoFiles /\ files'["out"] \in {files["out"], NoFiles}
      BY <3>1, <3>2
    <3>4. \A m \in Nodes : home("data", m)' = NoHome
      BY <3>3 DEF home, NoFiles
    <3> QED BY <3>2, <3>3, <3>4 DEF NoHome
  <2> QED BY <2>1, <2>2
<1>7. Ready'
  <2>1. \A m \in 1..Count : home("data", m)'.used => home("data", m).used
    BY <1>5, <1>6
  <2> QED BY <2>1, <1>2, <1>3, <1>4, StillReady
<1>8. Copying({})' /\ Copying(1..(1 - 1))'
  <2>1. source.from = "out" /\ files'["out"].exists => files'["out"].homes = source.homes
    BY <1>4, <1>6 DEF NoFiles
  <2> QED BY <2>1, <1>2, <1>4, <1>6, <1>7 DEF Copying
<1>9. ASSUME NEW y \in First' PROVE Pre(y)'
  <2>1. y = IF Cosmos THEN Go("copylist", "data", 0) ELSE Go("copy", "data", 1)
    BY <1>3 DEF Follows
  <2>2. Cosmos' = Cosmos /\ Copies' = Copies /\ 1 \in 1..Copies
    BY <1>2, <1>5, SetupStays, Counts DEF Copies
  <2>3. CASE Cosmos
    BY <2>1, <2>2, <2>3, <1>2, <1>3, <1>8 DEF Pre, PreCopyList, Go
  <2>4. CASE ~Cosmos
    BY <2>1, <2>2, <2>4, <1>2, <1>3, <1>8 DEF Pre, PreCopy, Go
  <2> QED BY <2>3, <2>4
<1> QED BY <1>3, <1>6, <1>9 DEF IInv, Reached

\* A home is copied.
LEMMA CopyStep == ASSUME IInv, CopyHome PROVE IInv'
<1> DEFINE s == source.from
           h == home(s, step.n)
           v == IF s = "data" THEN NoHome
                ELSE [h EXCEPT !.used = h.used \/ home("data", step.n).used]
           G == [files["data"].homes EXCEPT ![step.n] = v]
           F == [files["data"] EXCEPT !.exists = TRUE, !.homes = G]
<1>1. /\ Do("copy") /\ OnlyFiles
      /\ files' = [files EXCEPT !["data"].exists = TRUE, !["data"].homes[step.n] = v]
  BY DEF CopyHome
<1>2. /\ setup' = setup /\ measured' = measured /\ source' = source /\ targets' = targets
      /\ containers' = containers /\ orphaned' = orphaned
  BY <1>1 DEF OnlyFiles
<1>3. PICK x \in StepType :
        /\ x = step /\ x.do = "copy" /\ Pre(x) /\ measured = <<>> /\ ~source.done
        /\ Plan' /\ (Runs' => Runs)
        /\ \A y \in First' : y \in StepType /\ Follows(x, y) /\ (Runs' <=> Runs)
  BY <1>1, <1>2, Advance
<1>4. /\ x.n \in 1..Copies /\ Ready /\ ~setup.docker /\ s \in Places
      /\ s = "out" /\ files["out"].exists =>
           /\ files["out"].homes = source.homes
           /\ \A m \in Nodes :
                home("data", m) = IF m \in 1..(x.n - 1) THEN source.homes[m] ELSE NoHome
  BY <1>3 DEF Pre, PreCopy, Copying
<1>5. files[s].exists
  BY <1>1, <1>3 DEF Do, Possible
<1>6. /\ files \in [Places -> FileType] /\ setup \in Setups /\ files["data"] \in FileType
      /\ files["data"].homes \in Homes
      /\ 1..Count \subseteq Nodes /\ Count \in Nat /\ N \in Nat
      /\ {"data", "out"} \subseteq Places /\ "data" # "out" /\ (s # "data" => s = "out")
  BY <1>4, Types, Counts DEF IInv, FileType, Places
<1>7. Copies \in Nat /\ Copies <= N /\ x.n \in Nodes /\ Nodes = 1..N
  BY <1>4, <1>6, Counts DEF Copies, Nodes
<1>8. v \in Home /\ (s = "out" => v = home("out", x.n) /\ v = source.homes[x.n])
  <2>1. CASE s = "data"
    BY <2>1, NoHomeTyped
  <2>2. CASE s = "out"
    <3>1. home("data", x.n) = NoHome
      BY <2>2, <1>4, <1>5, <1>7
    <3>2. home("out", x.n) \in Home
      BY <1>6, <1>7, Types DEF IInv
    <3>3. home("out", x.n) = source.homes[x.n]
      BY <2>2, <1>4, <1>5 DEF home
    <3>4. v = [home("out", x.n) EXCEPT !.used = home("out", x.n).used \/ FALSE]
      BY <2>2, <3>1, <1>3, <1>6 DEF NoHome
    <3>5. [home("out", x.n) EXCEPT !.used = home("out", x.n).used \/ FALSE] = home("out", x.n)
      BY <3>2 DEF Home
    <3> QED BY <3>2, <3>3, <3>4, <3>5
  <2> QED BY <2>1, <2>2, <1>6
<1>9. files' = [files EXCEPT !["data"] = F]
  <2> HIDE DEF v
  <2> QED BY <1>1, <1>6
<1>10. G \in Homes /\ \A m \in Nodes : G[m] = IF m = x.n THEN v ELSE files["data"].homes[m]
  <2> HIDE DEF v
  <2> QED BY <1>3, <1>6, <1>7, <1>8 DEF Homes
<1>11. s = "data" => v = NoHome
  OBVIOUS
<1> HIDE DEF v, G
<1>12. F \in FileType /\ F.homes = G
  BY <1>6, <1>10 DEF FileType
<1> HIDE DEF F, s
<1>13. /\ files' \in [Places -> FileType]
       /\ files'["data"] = F /\ files'["out"] = files["out"]
  BY <1>6, <1>9, <1>12
<1>14. /\ \A m \in Nodes : home("data", m)' = IF m = x.n THEN v ELSE home("data", m)
       /\ \A m \in Nodes : home("out", m)' = home("out", m)
  BY <1>10, <1>12, <1>13 DEF home
<1>15. s = "out" =>
         \A m \in Nodes : home("data", m)' = IF m \in 1..x.n THEN source.homes[m] ELSE NoHome
  <2>1. ASSUME s = "out", NEW m \in Nodes
        PROVE  home("data", m)' = IF m \in 1..x.n THEN source.homes[m] ELSE NoHome
    <3>1. m = x.n \/ (m \in 1..x.n <=> m \in 1..(x.n - 1))
      BY <1>7
    <3>2. x.n \in 1..x.n
      BY <1>7
    <3> QED BY <2>1, <3>1, <3>2, <1>4, <1>5, <1>8, <1>14
  <2> QED BY <2>1
<1>16. \A q \in Places : OneOf(files'[q].homes)
  <2>1. OneOf(files["data"].homes) /\ OneOf(files["out"].homes)
    BY <1>6 DEF IInv, Settled, Whole
  <2>2. OneOf(files'["data"].homes)
    <3>1. CASE s = "data"
      <4>1. CASE x.n \in 1..Count
        BY <3>1, <4>1, <1>6, <1>11, <1>14 DEF OneOf, NoHome, home
      <4>2. CASE x.n \notin 1..Count
        <5>1. \A m \in 1..Count : files'["data"].homes[m] = files["data"].homes[m]
          BY <4>2, <1>6, <1>14 DEF home
        <5> QED BY <5>1, <2>1 DEF OneOf
      <4> QED BY <4>1, <4>2
    <3>2. CASE s = "out"
      <4>1. \A m \in 1..Count : files'["data"].homes[m] \in {files["out"].homes[m], NoHome}
        BY <3>2, <1>4, <1>5, <1>6, <1>15 DEF home
      <4> QED BY <4>1, <2>1 DEF OneOf, NoHome
    <3> QED BY <3>1, <3>2, <1>6
  <2> QED BY <2>1, <2>2, <1>13 DEF Places
<1>17. ASSUME NEW m \in Nodes, m > Count
       PROVE  home("data", m)' = NoHome /\ home("out", m)' = NoHome
  <2>1. home("data", m) = NoHome /\ home("out", m) = NoHome
    BY <1>6, <1>17 DEF IInv, Settled, Idle
  <2> QED BY <2>1, <1>6, <1>8, <1>11, <1>14
<1>18. ASSUME NEW m \in Nodes, home("data", m)'.used
       PROVE  home("data", m).used \/ (s = "out" /\ home("out", m).used)
  <2>1. CASE m # x.n
    BY <2>1, <1>14, <1>18
  <2>2. CASE m = x.n
    BY <2>2, <1>6, <1>8, <1>11, <1>14, <1>18 DEF NoHome
  <2> QED BY <2>1, <2>2
<1>19. Typed' /\ Settled'
  <2>1. \A q \in Places : \A m \in Nodes : m > Count => files'[q].homes[m] = NoHome
    BY <1>17 DEF home, Places
  <2>2. \A m \in Nodes : files'["out"].homes[m].used => home("out", m).used
    BY <1>13 DEF home
  <2>3. \A m \in Nodes : files'["data"].homes[m].used => \E q \in Places : home(q, m).used
    BY <1>6, <1>18 DEF home
  <2> QED BY <2>1, <2>2, <2>3, <1>1, <1>3, <1>13, <1>16, FilesFrame
<1>20. Ready'
  <2>1. ~setup.skip => \A m \in Nodes : ~home("out", m).used
    BY DEF IInv, Settled, Fresh
  <2>2. ~setup.skip => \A m \in 1..Count : home("data", m)'.used => home("data", m).used
    BY <2>1, <1>6, <1>18
  <2> QED BY <2>2, <1>2, <1>3, <1>4, StillReady
<1>21. Copying(1..x.n)'
  BY <1>2, <1>4, <1>5, <1>13, <1>15, <1>20 DEF Copying, s
<1>22. ASSUME NEW y \in First' PROVE Pre(y)'
  <2>1. y = IF x.n < Copies THEN Go("copy", "data", x.n + 1)
            ELSE Go(IF Cosmos THEN "copied" ELSE "copylist", "data", 0)
    BY <1>3 DEF Follows
  <2>2. Cosmos' = Cosmos /\ Copies' = Copies
    BY <1>2, SetupStays
  <2>3. CASE x.n < Copies
    <3>1. x.n + 1 \in 1..Copies /\ (x.n + 1) - 1 = x.n
      BY <2>3, <1>7
    <3>2. PreCopy(y)'
      BY <3>1, <2>1, <2>2, <2>3, <1>21 DEF PreCopy, Go
    <3> QED BY <3>2, <2>1, <2>3, <1>2, <1>3 DEF Pre, Go
  <2>4. CASE ~(x.n < Copies) /\ ~Cosmos
    <3>1. 1..x.n = Nodes
      BY <2>4, <1>4, <1>7 DEF Copies
    <3>2. PreCopyList(y)'
      BY <3>1, <2>2, <2>4, <1>21 DEF PreCopyList
    <3> QED BY <3>2, <2>1, <2>4, <1>2, <1>3 DEF Pre, Go
  <2>5. CASE ~(x.n < Copies) /\ Cosmos
    <3>1. Count = 1 /\ x.n = Validators /\ x.n \in Nat /\ x.n >= 1
      BY <2>5, <1>4, <1>6, <1>7, Counts DEF Copies
    <3>2. ASSUME s = "out", NEW m \in Nodes PROVE home("data", m)' = source.homes[m]
      <4>1. CASE m \in 1..x.n
        BY <3>2, <4>1, <1>15
      <4>2. CASE m \notin 1..x.n
        <5>1. m > Count
          BY <4>2, <3>1, <1>7
        <5>2. home("out", m) = NoHome
          BY <5>1, <1>14, <1>17
        <5> QED BY <3>2, <4>2, <5>2, <1>4, <1>5, <1>15 DEF home
      <4> QED BY <4>1, <4>2
    <3>3. s = "out" => source.homes \in Homes
      <4>1. files["out"].homes \in Homes
        BY <1>6 DEF FileType
      <4> QED BY <4>1, <1>4, <1>5
    <3>4. PreCopied(y)'
      BY <3>2, <3>3, <1>2, <1>4, <1>20 DEF PreCopied, s
    <3> QED BY <3>4, <2>1, <2>5, <1>2, <1>3 DEF Pre, Go
  <2> QED BY <2>3, <2>4, <2>5
<1> QED BY <1>3, <1>19, <1>22 DEF IInv, Reached

\* The list is copied.
LEMMA CopyListStep == ASSUME IInv, CopyList PROVE IInv'
<1> DEFINE l == IF source.from = "data" THEN None ELSE files[source.from].list
           F == [files["data"] EXCEPT !.exists = TRUE, !.list = l]
<1>1. /\ Do("copylist") /\ OnlyFiles
      /\ files' = [files EXCEPT !["data"].exists = TRUE, !["data"].list = l]
  BY DEF CopyList
<1>2. /\ setup' = setup /\ measured' = measured /\ source' = source /\ targets' = targets
      /\ containers' = containers /\ orphaned' = orphaned
  BY <1>1 DEF OnlyFiles
<1>3. PICK x \in StepType :
        /\ x = step /\ x.do = "copylist" /\ Pre(x) /\ measured = <<>> /\ ~source.done
        /\ Plan' /\ (Runs' => Runs)
        /\ \A y \in First' : y \in StepType /\ Follows(x, y) /\ (Runs' <=> Runs)
  BY <1>1, <1>2, Advance
<1>4. Copying(IF Cosmos THEN {} ELSE Nodes) /\ Ready /\ ~setup.docker /\ source.from \in Places
  BY <1>3 DEF Pre, PreCopyList, Copying
<1>5. files[source.from].exists
  BY <1>1, <1>3 DEF Do, Possible
<1>6. /\ files \in [Places -> FileType] /\ setup \in Setups /\ files["data"] \in FileType
      /\ files[source.from] \in FileType /\ 1..Count \subseteq Nodes
      /\ {"data", "out"} \subseteq Places
  BY <1>4, Types, Counts DEF IInv, Places
<1>7. l \in Places \cup {None}
  BY <1>6 DEF FileType
<1>8. files' = [files EXCEPT !["data"] = F]
  BY <1>1, <1>6
<1> HIDE DEF l
<1>9. F \in FileType /\ F.homes = files["data"].homes
  BY <1>6, <1>7 DEF FileType
<1> HIDE DEF F
<1>10. /\ files' \in [Places -> FileType] /\ files'["out"] = files["out"]
       /\ \A q \in Places : files'[q].homes = files[q].homes
  BY <1>6, <1>8, <1>9
<1>11. Typed' /\ Settled' /\ \A q \in Places : \A m \in Nodes : home(q, m)' = home(q, m)
  BY <1>1, <1>3, <1>10, HomesFrame
<1>12. Ready'
  <2>1. \A m \in 1..Count : home("data", m)' = home("data", m)
    BY <1>6, <1>11
  <2> QED BY <2>1, <1>2, <1>3, <1>4, StillReady
<1>13. ASSUME NEW y \in First' PROVE Pre(y)'
  <2>1. y = IF Cosmos THEN Go("copy", "data", 1) ELSE Go("copied", "data", 0)
    BY <1>3 DEF Follows
  <2>2. Cosmos' = Cosmos /\ Copies' = Copies /\ 1 \in 1..Copies
    BY <1>2, <1>6, SetupStays, Counts DEF Copies
  <2>3. source.from = "out" =>
          /\ files["out"].homes = source.homes
          /\ \A m \in Nodes :
               home("data", m)' = IF Cosmos THEN NoHome ELSE source.homes[m]
    BY <1>4, <1>5, <1>6, <1>11 DEF Copying
  <2>4. CASE Cosmos
    <3>1. Copying(1..(1 - 1))'
      BY <2>3, <2>4, <1>2, <1>4, <1>10, <1>12 DEF Copying
    <3> QED BY <3>1, <2>1, <2>2, <2>4, <1>2, <1>3 DEF Pre, PreCopy, Go
  <2>5. CASE ~Cosmos
    <3>1. files["out"].homes \in Homes
      BY <1>6 DEF FileType
    <3>2. PreCopied(y)'
      BY <2>3, <2>5, <3>1, <1>2, <1>4, <1>12 DEF PreCopied
    <3> QED BY <3>2, <2>1, <2>5, <1>2, <1>3 DEF Pre, Go
  <2> QED BY <2>4, <2>5
<1> QED BY <1>3, <1>11, <1>13 DEF IInv, Reached

----------------------------------------------------------------------------
(* Starting the nodes keeps the invariant *)

\* Where the nodes find their homes.
LEMMA RunSource ==
  ASSUME setup \in Setups, Ready, Runs, targets \in Places \cup {None}
  PROVE  \/ /\ Compose /\ ~Cosmos /\ setup.docker /\ RunsFrom = "containers"
            /\ \A n : RunHome(n) = containers[n].home
         \/ /\ ~Compose /\ Cosmos /\ setup.docker /\ ~MountHome /\ RunsFrom = "image"
            /\ \A n : RunHome(n) = image[n]
         \/ /\ ~Compose /\ ~(Cosmos /\ setup.docker /\ ~MountHome) /\ RunsFrom \in Places
            /\ ~setup.skip => RunsFrom = "data"
            /\ \A n : RunHome(n) = files[RunsFrom].homes[n]
<1>1. targets \in Places /\ (~setup.skip => targets = "data") /\ "data" \in Places
  BY DEF Ready, Places
<1>2. CASE Compose
  BY <1>2, Counts DEF RunsFrom, RunHome, Compose
<1>3. CASE ~Compose /\ Cosmos /\ setup.docker /\ ~MountHome
  BY <1>3 DEF RunsFrom, RunHome, Cosmos
<1>4. CASE ~Compose /\ ~(Cosmos /\ setup.docker /\ ~MountHome)
  <2>1. RunsFrom \in {targets, "data"}
    BY <1>4 DEF RunsFrom, Cosmos
  <2>2. RunsFrom \in Places /\ RunsFrom \notin {"containers", "image"}
    BY <2>1, <1>1 DEF Places
  <2> QED BY <2>1, <2>2, <1>1, <1>4 DEF RunHome, home
<1> QED BY <1>2, <1>3, <1>4

\* The nodes are started, and the load sent.
LEMMA RunStep == ASSUME IInv, Run PROVE IInv'
<1> DEFINE R == RunsFrom
           H == [n \in Nodes |-> [home(R, n) EXCEPT !.used = @ \/ n <= Count]]
           F == [files[R] EXCEPT !.homes = H]
<1>1. /\ Do("run") /\ measured' = [n \in 1..Count |-> RunHome(n)]
      /\ IF R \in Places THEN files' = [files EXCEPT ![R].homes = H] ELSE files' = files
      /\ containers' = IF R # "containers" THEN containers
                       ELSE [n \in Nodes |-> [containers[n] EXCEPT !.home.used = TRUE]]
      /\ UNCHANGED <<setup, image, targets, gens, ops, source, orphaned>>
  BY DEF Run
<1>2. /\ setup' = setup /\ image' = image /\ targets' = targets /\ gens' = gens /\ ops' = ops
      /\ source' = source /\ orphaned' = orphaned
  BY <1>1
<1>3. PICK x \in StepType :
        /\ x = step /\ x.do = "run" /\ Pre(x) /\ measured = <<>>
        /\ Plan' /\ \A y \in First' : Follows(x, y)
  BY <1>1, <1>2, Advance
<1>4. /\ Ready /\ Runs
      /\ ~setup.skip /\ setup.patch = "off" =>
           gens \in 1..MaxGens /\ Written("data", 1..Count) /\ (Compose => UpBefore(N + 1))
  BY <1>3 DEF Pre, PreRun
<1>5. /\ setup \in Setups /\ files \in [Places -> FileType] /\ orphaned \in BOOLEAN
      /\ containers \in [Nodes -> [at : Places \cup {None}, home : Home]]
      /\ targets \in Places \cup {None} /\ MaxGens \in Nat
      /\ Count \in Nat /\ 1..Count \subseteq Nodes /\ 1 \in 1..Count /\ N \in Nat
      /\ (Compose => Count = N)
      /\ \A m \in Nodes : m < N + 1
  BY Types, Counts DEF IInv, Nodes
<1>6. \A n \in 1..Count : RunHome(n).keys # 0 /\ RunHome(n).genesis # 0
  BY <1>1, <1>3 DEF Do, Possible
<1>7. \/ /\ Compose /\ ~Cosmos /\ setup.docker /\ R = "containers"
         /\ \A n : RunHome(n) = containers[n].home
      \/ /\ ~Compose /\ Cosmos /\ setup.docker /\ ~MountHome /\ R = "image"
         /\ \A n : RunHome(n) = image[n]
      \/ /\ ~Compose /\ ~(Cosmos /\ setup.docker /\ ~MountHome) /\ R \in Places
         /\ ~setup.skip => R = "data"
         /\ \A n : RunHome(n) = files[R].homes[n]
  BY <1>4, <1>5, RunSource
<1>8. Typed /\ Whole /\ Idle /\ Contained /\ Fresh /\ Patched /\ Sourced
  BY DEF IInv, Settled
<1> HIDE DEF R, H
<1>9. ASSUME ~orphaned
      PROVE  \E g \in 1..MaxGens : \A n \in 1..Count :
               RunHome(n).keys = g /\ RunHome(n).genesis = g
  <2>1. CASE \A n : RunHome(n) = containers[n].home
    <3>1. PICK g \in 0..MaxGens : \A n \in Nodes : containers[n].home.keys # 0 =>
            containers[n].home.keys = g /\ containers[n].home.genesis = g
      BY <1>8, <1>9 DEF Contained
    <3>2. \A n \in 1..Count : RunHome(n).keys = g /\ RunHome(n).genesis = g
      BY <2>1, <3>1, <1>5, <1>6
    <3>3. g # 0
      BY <3>2, <1>5, <1>6
    <3> QED BY <3>2, <3>3, <1>5
  <2>2. CASE \A n : RunHome(n) = image[n]
    BY <2>2, <1>6, <1>8 DEF Whole, OneOf
  <2>3. CASE R \in Places /\ \A n : RunHome(n) = files[R].homes[n]
    BY <2>3, <1>6, <1>8 DEF Whole, OneOf
  <2> QED BY <2>1, <2>2, <2>3, <1>7
<1>10. ASSUME ~orphaned, ~setup.skip \/ (setup.docker /\ Cosmos), NEW n \in 1..Count
       PROVE  ~RunHome(n).used /\ (setup.patch = "off" /\ ~setup.skip => RunHome(n).genesis = gens)
  <2>1. CASE Compose /\ ~Cosmos /\ RunHome(n) = containers[n].home
    <3>1. ~setup.skip /\ n \in Nodes /\ n < N + 1
      BY <2>1, <1>5, <1>10
    <3> QED BY <2>1, <3>1, <1>4, <1>10 DEF Ready, UpBefore
  <2>2. CASE Cosmos /\ setup.docker /\ ~MountHome /\ RunHome(n) = image[n]
    <3>1. ~(setup.patch = "off" /\ ~setup.skip)
      BY <2>2 DEF MountHome
    <3> QED BY <2>2, <3>1, <1>5, <1>8 DEF Fresh
  <2>3. CASE /\ ~(Cosmos /\ setup.docker /\ ~MountHome)
             /\ (~setup.skip => R = "data") /\ RunHome(n) = files[R].homes[n]
    <3>1. ~setup.skip /\ RunHome(n) = home("data", n)
      BY <2>3, <1>10 DEF MountHome, home
    <3> QED BY <3>1, <1>4 DEF Ready, Written
  <2> QED BY <2>1, <2>2, <2>3, <1>7
<1>11. /\ files' \in [Places -> FileType]
       /\ \A q \in Places : \A m \in Nodes :
            /\ files'[q].homes[m].keys = files[q].homes[m].keys
            /\ files'[q].homes[m].genesis = files[q].homes[m].genesis
            /\ q # R \/ m > Count => files'[q].homes[m] = files[q].homes[m]
  <2>1. CASE R \in Places
    <3>1. files[R] \in FileType /\ files[R].homes \in Homes
      BY <2>1, <1>5 DEF FileType
    <3>2. ASSUME NEW m \in Nodes
          PROVE  /\ H[m] \in Home /\ H[m].keys = files[R].homes[m].keys
                 /\ H[m].genesis = files[R].homes[m].genesis
                 /\ m > Count => H[m] = files[R].homes[m]
      <4> DEFINE h == files[R].homes[m]
                 b == h.used \/ m <= Count
      <4>1. h \in Home /\ h.used \in BOOLEAN
        BY <3>1 DEF Homes, Home
      <4>2. H[m] = [h EXCEPT !.used = b] /\ b \in BOOLEAN
        BY DEF H, home
      <4>3. m > Count => b = h.used
        BY <4>1, <1>5 DEF Nodes
      <4> HIDE DEF b, h
      <4>4. H[m] \in Home /\ H[m].keys = h.keys /\ H[m].genesis = h.genesis
        BY <4>1, <4>2 DEF Home
      <4>5. m > Count => H[m] = h
        BY <4>1, <4>2, <4>3 DEF Home
      <4> QED BY <4>4, <4>5 DEF h
    <3>3. H \in Homes
      BY <3>2 DEF H, Homes
    <3>4. F \in FileType /\ F.homes = H
      BY <3>1, <3>3 DEF FileType
    <3>5. files' = [files EXCEPT ![R] = F]
      BY <2>1, <1>1, <1>5
    <3> HIDE DEF F
    <3>6. \A q \in Places : files'[q] = IF q = R THEN F ELSE files[q]
      BY <3>5, <1>5
    <3>7. files' \in [Places -> FileType]
      BY <3>4, <3>5, <1>5
    <3> QED BY <3>2, <3>4, <3>6, <3>7
  <2>2. CASE R \notin Places
    BY <2>2, <1>1, <1>5
  <2> QED BY <2>1, <2>2
<1>12. /\ containers' \in [Nodes -> [at : Places \cup {None}, home : Home]]
       /\ \A m \in Nodes :
            /\ containers'[m].at = containers[m].at
            /\ containers'[m].home.keys = containers[m].home.keys
            /\ containers'[m].home.genesis = containers[m].home.genesis
  <2>1. CASE R # "containers"
    BY <2>1, <1>1, <1>5
  <2>2. CASE R = "containers"
    <3> DEFINE c(m) == [containers[m] EXCEPT !.home.used = TRUE]
    <3>1. ASSUME NEW m \in Nodes
          PROVE  /\ c(m) \in [at : Places \cup {None}, home : Home]
                 /\ c(m).at = containers[m].at
                 /\ c(m).home.keys = containers[m].home.keys
                 /\ c(m).home.genesis = containers[m].home.genesis
      <4>1. containers[m] \in [at : Places \cup {None}, home : Home]
        BY <1>5
      <4>2. [containers[m].home EXCEPT !.used = TRUE] \in Home
        BY <4>1 DEF Home
      <4>3. c(m) = [containers[m] EXCEPT !.home = [containers[m].home EXCEPT !.used = TRUE]]
        OBVIOUS
      <4> QED BY <4>1, <4>2, <4>3 DEF Home
    <3>2. containers' = [n \in Nodes |-> c(n)]
      BY <2>2, <1>1
    <3> HIDE DEF c
    <3> QED BY <3>1, <3>2
  <2> QED BY <2>1, <2>2
<1>13. Count' = Count /\ Cosmos' = Cosmos /\ MountHome' = MountHome
  BY <1>2, SetupStays
<1>14. DOMAIN measured' = 1..Count /\ measured' # <<>>
  <2>1. DOMAIN measured' = 1..Count
    BY <1>1
  <2>2. \A t : t = <<>> => DOMAIN t = {}
    OBVIOUS
  <2> QED BY <2>1, <2>2, <1>5
<1>15. Typed'
  BY <1>2, <1>8, <1>11, <1>12 DEF Typed, TypeOK, FileType, Homes
<1>16. Whole'
  <2>1. ASSUME NEW q \in Places PROVE OneOf(files[q].homes)'
    <3>1. OneOf(files[q].homes)
      BY <1>8 DEF Whole
    <3>2. \A m \in 1..Count : /\ files'[q].homes[m].keys = files[q].homes[m].keys
                              /\ files'[q].homes[m].genesis = files[q].homes[m].genesis
      BY <1>5, <1>11
    <3> QED BY <3>1, <3>2, <1>13 DEF OneOf
  <2>2. OneOf(image)'
    BY <1>2, <1>8, <1>13 DEF Whole, OneOf
  <2> QED BY <2>1, <2>2 DEF Whole
<1>17. Idle'
  BY <1>8, <1>11, <1>13 DEF Idle, home
<1>18. Contained'
  BY <1>2, <1>8, <1>12 DEF Contained
<1>19. Fresh'
  <2>1. ASSUME Cosmos, setup.docker, ~MountHome, NEW n \in Nodes
        PROVE  ~image[n].used /\ \A q \in Places : ~home(q, n)'.used
    <3>1. ~image[n].used /\ \A q \in Places : ~home(q, n).used
      BY <2>1, <1>8 DEF Fresh
    <3>2. R = "image" /\ \A q \in Places : q # R
      BY <2>1, <1>7 DEF Places
    <3> QED BY <3>1, <3>2, <1>11 DEF home
  <2>2. ASSUME ~setup.skip, NEW n \in Nodes PROVE ~home("out", n)'.used
    <3>1. ~home("out", n).used
      BY <2>2, <1>8 DEF Fresh
    <3>2. R # "out" /\ "out" \in Places
      BY <2>2, <1>7 DEF Places
    <3> QED BY <3>1, <3>2, <1>11 DEF home
  <2> QED BY <2>1, <2>2, <1>2, <1>13 DEF Fresh
<1>20. Patched' /\ Sourced'
  BY <1>2, <1>8, <1>14 DEF Patched, Sourced
<1>21. OneNetwork'
  <2>1. ASSUME ~orphaned
        PROVE  \E g \in 1..MaxGens : \A n \in 1..Count :
                 measured'[n].keys = g /\ measured'[n].genesis = g
    BY <2>1, <1>1, <1>9
  <2> QED BY <2>1, <1>2, <1>14 DEF OneNetwork
<1>22. FreshChain'
  <2>1. ASSUME ~orphaned, ~setup.skip \/ (setup.docker /\ Cosmos), NEW n \in 1..Count
        PROVE  /\ ~measured'[n].used
               /\ setup.patch = "off" /\ ~setup.skip => measured'[n].genesis = gens
    <3>1. measured'[n] = RunHome(n)
      BY <1>1
    <3> QED BY <3>1, <2>1, <1>10
  <2> QED BY <2>1, <1>2, <1>14 DEF FreshChain, Cosmos
<1>23. First' = {}
  BY <1>3 DEF Follows
<1> QED BY <1>3, <1>15, <1>16, <1>17, <1>18, <1>19, <1>20, <1>21, <1>22, <1>23
    DEF IInv, Reached, Settled

----------------------------------------------------------------------------
(* The operator keeps the invariant *)

\* What is settled stays so when an operation begins or fails.
LEMMA StillSettled ==
  ASSUME IInv, UNCHANGED <<setup, files, image, containers, targets, orphaned>>,
         gens' \in 0..MaxGens, ops' \in 0..MaxOps,
         \/ measured' = <<>> /\ source' = [source EXCEPT !.done = FALSE]
         \/ UNCHANGED <<measured, source, gens>>
  PROVE  Typed' /\ Settled'
<1>0. /\ setup' = setup /\ image' = image /\ files' = files /\ targets' = targets
      /\ containers' = containers /\ orphaned' = orphaned
  OBVIOUS
<1>1. Count' = Count /\ Cosmos' = Cosmos /\ MountHome' = MountHome
  BY <1>0, SetupStays
<1>2. /\ Typed /\ Whole /\ Idle /\ Contained /\ Fresh /\ Patched /\ Sourced
      /\ OneNetwork /\ FreshChain
  BY DEF IInv, Settled
<1>3. source \in [from : Places \cup {None}, homes : Homes \cup {<<>>}, done : BOOLEAN]
  BY <1>2 DEF Typed
<1>4. /\ source' \in [from : Places \cup {None}, homes : Homes \cup {<<>>}, done : BOOLEAN]
      /\ source'.from = source.from /\ source'.homes = source.homes
      /\ source'.done => source' = source /\ measured' = measured
  BY <1>3
<1>5. Typed'
  BY <1>0, <1>2, <1>4 DEF Typed, TypeOK
<1>6. Whole' /\ Idle' /\ Contained'
  BY <1>0, <1>1, <1>2 DEF Whole, OneOf, Idle, home, Contained
<1>7. Fresh'
  BY <1>0, <1>1, <1>2 DEF Fresh, home
<1>8. Patched' /\ Sourced'
  BY <1>0, <1>2, <1>4 DEF Patched, Sourced
<1>9. OneNetwork' /\ FreshChain'
  BY <1>0, <1>2 DEF OneNetwork, FreshChain
<1> QED BY <1>5, <1>6, <1>7, <1>8, <1>9 DEF Settled

\* An operation begins with the first step of a list in order.
LEMMA Begins ==
  ASSUME IInv, NEW steps, NEW generates \in BOOLEAN, Begin(steps, generates),
         NEW x, NEW y, Path(steps, x, y)
  PROVE  /\ Typed' /\ Plan' /\ Settled'
         /\ First' = {x} /\ (Runs' <=> y.do = "run")
         /\ generates => gens' \in 1..MaxGens
         /\ setup' = setup /\ measured' = <<>> /\ ~source'.done
<1>1. /\ ops < MaxOps /\ todo' = steps /\ ops' = ops + 1
      /\ gens' = (IF generates THEN gens + 1 ELSE gens) /\ gens' <= MaxGens
      /\ measured' = <<>> /\ source' = [source EXCEPT !.done = FALSE]
      /\ UNCHANGED <<setup, files, image, containers, targets, orphaned>>
  BY DEF Begin
<1>2. /\ gens \in Nat /\ MaxGens \in Nat /\ ops \in 0..MaxOps /\ MaxOps \in Nat
      /\ source \in [from : Places \cup {None}, homes : Homes \cup {<<>>}, done : BOOLEAN]
  BY Types, LayoutAssumption DEF IInv
<1>3. gens' \in 0..MaxGens /\ ops' \in 0..MaxOps /\ (generates => gens' \in 1..MaxGens)
  BY <1>1, <1>2
<1>4. Typed' /\ Settled'
  BY <1>1, <1>3, StillSettled
<1>5. /\ steps \in Seq(StepType) /\ steps # <<>> /\ Chain(steps) /\ steps[1] = x
      /\ steps[Len(steps)] = y
  BY DEF Path
<1>6. Plan'
  <2>1. \A a, b : Follows(a, b)' = Follows(a, b)
    BY <1>1, SetupStays
  <2> QED BY <2>1, <1>1, <1>5 DEF Plan, Chain
<1>7. First' = {x} /\ (Runs' <=> y.do = "run")
  BY <1>1, <1>5 DEF First, Runs
<1>8. ~source'.done
  BY <1>1, <1>2
<1> QED BY <1>1, <1>3, <1>4, <1>6, <1>7, <1>8

\* benchctl gen, benchctl patchimage, the script's preparation, the workflow and the
\* script's clean begin.
LEMMA BeginsAny ==
  ASSUME IInv,
         BenchctlGen \/ BenchctlPatchImage \/ Prepare \/ StartWorkflow \/ Clean
  PROVE  IInv'
<1>1. setup \in Setups /\ OutPlace \in Places /\ "data" \in Places
  BY Types DEF IInv, OutPlace, Places
<1>2. CASE BenchctlGen
  <2>1. PICK x, y : /\ x.do = "mkdir" /\ x.at = OutPlace /\ y.do # "run"
                    /\ Path(GenerateSteps(OutPlace), x, y)
    BY <1>1, GeneratePath DEF Go
  <2>2. /\ Typed' /\ Plan' /\ Settled' /\ First' = {x} /\ (Runs' <=> y.do = "run")
        /\ gens' \in 1..MaxGens /\ measured' = <<>> /\ ~source'.done
    BY <1>2, <2>1, Begins DEF BenchctlGen
  <2>3. Generating(x)'
    BY <1>1, <2>1, <2>2 DEF Generating
  <2>4. Pre(x)'
    BY <2>1, <2>2, <2>3 DEF Pre
  <2> QED BY <2>2, <2>4 DEF IInv, Reached
<1>3. CASE BenchctlPatchImage
  <2> DEFINE given == (setup.patch # "default")
             u == Go(IF given THEN "given" ELSE "default", "data", 0)
             v == IF setup.docker THEN Go("build", "image", 0) ELSE Go("copied", "data", 0)
  <2>1. Path(PatchSteps(given), u, v)
    BY <1>1, PatchPath
  <2>2. u.do \in {"given", "default"} /\ (u.do = "default" => setup.patch = "default")
        /\ v.do # "run"
    BY DEF Go
  <2> HIDE DEF u, v
  <2>3. PICK x, y : /\ x.do \in {"given", "default"} /\ y.do # "run"
                    /\ x.do = "default" => setup.patch = "default"
                    /\ Path(PatchSteps(given), x, y)
    BY <2>1, <2>2
  <2>4. /\ Typed' /\ Plan' /\ Settled' /\ First' = {x} /\ (Runs' <=> y.do = "run")
        /\ setup' = setup /\ measured' = <<>> /\ ~source'.done
    BY <1>3, <2>3, Begins DEF BenchctlPatchImage
  <2>5. Ready'
    BY <2>3, <2>4 DEF Ready
  <2>6. Patching(x)'
    BY <1>3, <2>3, <2>4 DEF Patching, BenchctlPatchImage
  <2>7. Pre(x)'
    BY <2>3, <2>4, <2>5, <2>6 DEF Pre
  <2> QED BY <2>4, <2>7 DEF IInv, Reached
<1>4. CASE Prepare
  <2>1. PICK x, y : x.do = "clean" /\ y.do # "run" /\ Path(PrepareSteps, x, y)
    BY <1>1, PreparePath DEF Go
  <2>2. /\ Typed' /\ Plan' /\ Settled' /\ First' = {x} /\ (Runs' <=> y.do = "run")
        /\ gens' \in 1..MaxGens /\ measured' = <<>> /\ ~source'.done
    BY <1>4, <2>1, Begins DEF Prepare
  <2>3. PreClean(x)'
    BY <2>1, <2>2 DEF PreClean
  <2>4. Pre(x)'
    BY <2>1, <2>2, <2>3 DEF Pre
  <2> QED BY <2>2, <2>4 DEF IInv, Reached
<1>5. CASE StartWorkflow
  <2>1. PICK x, y : /\ x = Go(IF setup.skip THEN "load" ELSE "mkdir", "data", 0)
                    /\ Path(WorkflowSteps, x, y) /\ y.do = "run"
    BY <1>1, WorkflowPath DEF Go
  <2>2. /\ Typed' /\ Plan' /\ Settled' /\ First' = {x} /\ Runs'
        /\ ~setup.skip => gens' \in 1..MaxGens
        /\ setup' = setup /\ measured' = <<>> /\ ~source'.done
    BY <1>5, <2>1, Begins DEF StartWorkflow
  <2>3. CASE setup.skip
    <3>1. x.do = "load"
      BY <2>1, <2>3 DEF Go
    <3>2. PreLoad(x)'
      BY <2>2, <2>3 DEF PreLoad
    <3>3. Pre(x)'
      BY <2>2, <3>1, <3>2 DEF Pre
    <3> QED BY <2>2, <3>3 DEF IInv, Reached
  <2>4. CASE ~setup.skip
    <3>1. x.do = "mkdir" /\ x.at = "data"
      BY <2>1, <2>4 DEF Go
    <3>2. Generating(x)'
      BY <1>1, <2>2, <2>4, <3>1 DEF Generating
    <3>3. Pre(x)'
      BY <2>2, <3>1, <3>2 DEF Pre
    <3> QED BY <2>2, <3>3 DEF IInv, Reached
  <2> QED BY <2>3, <2>4
<1>6. CASE Clean
  <2>1. PICK x : x.do = "clean" /\ Path(Step("clean", OutPlace), x, x)
    BY <1>1, PathStep DEF Words, Go
  <2>2. Len(Step("clean", OutPlace)) = 1
    BY DEF Step
  <2>3. /\ Typed' /\ Plan' /\ Settled' /\ First' = {x} /\ ~Runs'
        /\ measured' = <<>> /\ ~source'.done
    BY <1>6, <2>1, Begins DEF Clean
  <2>4. todo' = Step("clean", OutPlace)
    BY <1>6 DEF Clean, Begin
  <2>5. PreClean(x)'
    BY <2>2, <2>3, <2>4 DEF PreClean
  <2>6. Pre(x)'
    BY <2>1, <2>3, <2>5 DEF Pre
  <2> QED BY <2>3, <2>6 DEF IInv, Reached
<1> QED BY <1>2, <1>3, <1>4, <1>5, <1>6

\* An operation fails.
LEMMA FailStep == ASSUME IInv, Fail PROVE IInv'
<1>1. todo' = <<>> /\ OnlySource /\ source' = source
  BY DEF Fail
<1>2. UNCHANGED <<setup, files, image, containers, targets, orphaned, measured, source, gens, ops>>
  BY <1>1 DEF OnlySource
<1>3. Typed' /\ Settled'
  BY <1>2, StillSettled, Types, LayoutAssumption DEF IInv
<1>4. Plan' /\ First' = {}
  BY <1>1 DEF Plan, Chain, First
<1> QED BY <1>3, <1>4 DEF IInv, Reached

\* The script stops compose's containers.
LEMMA StopStep == ASSUME IInv, StopNodes PROVE IInv'
<1>1. /\ Compose /\ todo = <<>> /\ ops < MaxOps /\ ops' = ops + 1
      /\ containers' = [n \in Nodes |-> NoContainer] /\ orphaned' = FALSE /\ measured' = <<>>
      /\ UNCHANGED <<setup, todo, files, image, targets, gens, source>>
  BY DEF StopNodes
<1>2. /\ setup' = setup /\ files' = files /\ image' = image /\ targets' = targets
      /\ gens' = gens /\ source' = source /\ todo' = <<>>
  BY <1>1
<1>3. /\ Typed /\ Whole /\ Idle /\ Fresh /\ Patched /\ Sourced
      /\ ops \in 0..MaxOps /\ MaxOps \in Nat /\ MaxGens \in Nat
  BY Types, LayoutAssumption DEF IInv, Settled
<1>4. Count' = Count /\ Cosmos' = Cosmos /\ MountHome' = MountHome
  BY <1>2, SetupStays
<1>5. NoContainer \in [at : Places \cup {None}, home : Home]
  BY NoHomeTyped DEF NoContainer
<1>6. Typed'
  <2>1. ops' \in 0..MaxOps
    BY <1>1, <1>3
  <2>2. containers' \in [Nodes -> [at : Places \cup {None}, home : Home]]
    BY <1>1, <1>5
  <2> QED BY <2>1, <2>2, <1>1, <1>2, <1>3 DEF Typed, TypeOK
<1>7. Whole' /\ Idle'
  BY <1>2, <1>3, <1>4 DEF Whole, OneOf, Idle, home
<1>8. Fresh'
  BY <1>2, <1>3, <1>4 DEF Fresh, home
<1>9. Contained'
  <2>1. \A n \in Nodes : containers'[n].at = None /\ containers'[n].home.keys = 0
    BY <1>1 DEF NoContainer, NoHome
  <2>2. 0 \in 0..MaxGens
    BY <1>3
  <2> QED BY <2>1, <2>2 DEF Contained
<1>10. Patched' /\ Sourced'
  BY <1>1, <1>2, <1>3 DEF Patched, Sourced, Compose
<1>11. OneNetwork' /\ FreshChain'
  BY <1>1 DEF OneNetwork, FreshChain
<1>12. Plan' /\ First' = {}
  BY <1>2 DEF Plan, Chain, First
<1> QED BY <1>6, <1>7, <1>8, <1>9, <1>10, <1>11, <1>12 DEF IInv, Settled, Reached

\* Nothing happens.
LEMMA Stuttering == ASSUME IInv, UNCHANGED vars PROVE IInv'
<1>1. UNCHANGED <<setup, files, image, containers, targets, orphaned, measured, source, gens, ops>>
      /\ todo' = todo
  BY DEF vars
<1>2. Typed' /\ Settled'
  BY <1>1, StillSettled, Types DEF IInv
<1>3. Plan'
  <2>1. \A a, b : Follows(a, b)' = Follows(a, b)
    BY <1>1, SetupStays
  <2> QED BY <2>1, <1>1 DEF IInv, Plan, Chain
<1>4. ASSUME NEW y \in First' PROVE Pre(y)'
  <2>1. y \in First /\ Pre(y)
    BY <1>1, <1>4 DEF First, IInv, Reached
  <2>2. /\ Count' = Count /\ OutPlace' = OutPlace /\ Compose' = Compose
        /\ Cosmos' = Cosmos /\ Copies' = Copies /\ MountHome' = MountHome
        /\ Patching(y)' = Patching(y)
    BY <1>1, SetupStays
  <2>3. Runs' = Runs /\ Generating(y)' = Generating(y) /\ Ready' = Ready
    BY <1>1, <2>2 DEF Runs, Generating, Ready, home
  <2>4. \A p, S : Keyed(p, S)' = Keyed(p, S) /\ Written(p, S)' = Written(p, S)
    BY <1>1 DEF Keyed, Written, home
  <2>5. /\ NoneUp' = NoneUp /\ SourceKept' = SourceKept
        /\ \A k : UpBefore(k)' = UpBefore(k)
        /\ \A S : Copying(S)' = Copying(S)
    BY <1>1, <2>3 DEF NoneUp, SourceKept, UpBefore, Copying, home
  <2>6. PreReset(y)' = PreReset(y)
    BY <1>1, <2>2, <2>3, <2>5 DEF PreReset
  <2> QED
    BY <1>1, <2>1, <2>2, <2>3, <2>4, <2>5, <2>6
    DEF Pre, PreClean, PreWipe, PreInit, PreCollect, PreDistribute, PreDown, PreXtask,
        PreWrite, PreCompose, PreUp, PreList, PreLoad, PreBuild, PreRemove, PreCopy,
        PreCopyList, PreCopied, PreRun, home
<1> QED BY <1>2, <1>3, <1>4 DEF IInv, Reached


\* Every initial state satisfies the invariant: nothing is written, nothing runs, and
\* no operation is under way.
LEMMA Initially == ASSUME Init PROVE IInv
<1>1. setup \in Setups /\ N \in Nat \ {0} /\ Count <= N /\ Count \in Nat \ {0}
      /\ 1 \in 1..Count
  BY Counts DEF Init
<1>2. MaxGens \in Nat /\ MaxOps \in Nat
  BY LayoutAssumption
<1>3. \A p \in Places : files[p] = NoFiles /\ \A n \in Nodes : home(p, n) = NoHome
  BY DEF Init, home, NoFiles
<1>4. files \in [Places -> FileType] /\ image \in Homes
      /\ containers \in [Nodes -> [at : Places \cup {None}, home : Home]]
  BY NoHomeTyped DEF Init, Homes, NoContainer
<1>5. Typed
  <2>1. gens = 0 /\ ops = 0 /\ targets = None
    BY DEF Init
  <2>2. orphaned \in BOOLEAN
    BY DEF Init
  <2>3. gens \in 0..MaxGens /\ ops \in 0..MaxOps /\ targets \in Places \cup {None}
    BY <1>2, <2>1
  <2>4. source \in [from : Places \cup {None}, homes : Homes \cup {<<>>}, done : BOOLEAN]
    BY DEF Init
  <2>5. source.from \in Places \cup {None}
    BY <2>4
  <2>6. TypeOK
    BY <1>1, <1>4, <2>2, <2>3, <2>5 DEF TypeOK, FileType, Homes
  <2> QED BY <2>4, <2>6 DEF Typed
<1>6. Plan /\ First = {}
  BY DEF Init, Plan, Chain, First
<1>7. Reached
  BY <1>6 DEF Reached
<1>8. Whole
  <2>1. \A p \in Places : files[p].homes[1] = NoHome
    BY <1>1, <1>3 DEF home, Nodes
  <2>2. image[1] = NoHome
    BY <1>1 DEF Init, Nodes
  <2> QED BY <1>1, <2>1, <2>2, NoneIsOne DEF Whole
<1>9. Idle
  BY <1>3 DEF Idle
<1>10. Contained
  <2>1. \A n \in Nodes : containers[n].at = None /\ containers[n].home.keys = 0
    BY DEF Init, NoContainer, NoHome
  <2>2. 0 \in 0..MaxGens
    BY <1>2
  <2> QED BY <2>1, <2>2 DEF Contained
<1>11. Fresh
  <2>1. \A n \in Nodes : ~image[n].used /\ \A p \in Places : ~home(p, n).used
    BY <1>3 DEF Init, NoHome
  <2> QED BY <2>1 DEF Fresh, Places
<1>12. Patched /\ Sourced /\ OneNetwork /\ FreshChain
  BY DEF Init, Patched, Sourced, OneNetwork, FreshChain, None, Places
<1> QED BY <1>5, <1>6, <1>7, <1>8, <1>9, <1>10, <1>11, <1>12 DEF IInv, Settled

\* Whatever the operator starts, whatever step is done and whichever fails, the
\* invariant is kept.
LEMMA Inductive == ASSUME IInv, [Next]_vars PROVE IInv'
<1>1. CASE BenchctlGen \/ BenchctlPatchImage \/ Prepare \/ StartWorkflow \/ Clean
  BY <1>1, BeginsAny
<1>2. CASE StopNodes
  BY <1>2, StopStep
<1>3. CASE CleanDataRoot
  BY <1>3, CleanStep
<1>4. CASE Mkdir
  BY <1>4, MkdirStep
<1>5. CASE Wipe
  BY <1>5, WipeStep
<1>6. CASE InitNode
  BY <1>6, InitStep
<1>7. CASE Collect
  BY <1>7, CollectStep
<1>8. CASE Distribute
  BY <1>8, DistributeStep
<1>9. CASE Reset
  BY <1>9, ResetStep
<1>10. CASE Xtask
  BY <1>10, XtaskStep
<1>11. CASE WriteDevnetNode \/ WriteTempoNode
  BY <1>11, WriteStep DEF WriteDevnetNode, WriteTempoNode
<1>12. CASE WriteCompose
  BY <1>12, ComposeStep
<1>13. CASE List
  BY <1>13, ListStep
<1>14. CASE Down
  BY <1>14, DownStep
<1>15. CASE Up
  BY <1>15, UpStep
<1>16. CASE FindSource
  BY <1>16, FindStep
<1>17. CASE Build
  BY <1>17, BuildStep
<1>18. CASE RemoveDest
  BY <1>18, RemoveStep
<1>19. CASE CopyHome
  BY <1>19, CopyStep
<1>20. CASE CopyList
  BY <1>20, CopyListStep
<1>21. CASE Copied
  BY <1>21, CopiedStep
<1>22. CASE LoadLayout
  BY <1>22, LoadStep
<1>23. CASE Run
  BY <1>23, RunStep
<1>24. CASE Fail
  BY <1>24, FailStep
<1>25. CASE UNCHANGED vars
  BY <1>25, Stuttering
<1> QED
  BY <1>1, <1>2, <1>3, <1>4, <1>5, <1>6, <1>7, <1>8, <1>9, <1>10, <1>11, <1>12, <1>13,
     <1>14, <1>15, <1>16, <1>17, <1>18, <1>19, <1>20, <1>21, <1>22, <1>23, <1>24, <1>25
  DEF Next

----------------------------------------------------------------------------
(* The theorems *)

\* In every state that benchctl, the script and the workflow can bring the files, the
\* image and the containers into, the invariant holds.
THEOREM Invariance == Spec => []IInv
<1>1. Init => IInv
  BY Initially
<1>2. IInv /\ [Next]_vars => IInv'
  BY Inductive
<1> QED BY <1>1, <1>2, PTL DEF Spec

\* The homes a load meets have the keys and the genesis of one generation, however many
\* generations, patches and runs were begun and left half way before.
THEOREM NetworksAreOne == Spec => []OneNetwork
<1>1. IInv => OneNetwork
  BY DEF IInv, Settled
<1> QED BY <1>1, Invariance, PTL

\* A run that generates its layout, or whose nodes start from an image, meets a chain
\* nobody has run before, and without PatchImage the one just generated.
THEOREM ChainsAreFresh == Spec => []FreshChain
<1>1. IInv => FreshChain
  BY DEF IInv, Settled
<1> QED BY <1>1, Invariance, PTL

\* No configuration has a local PatchImage copy data_dir over itself: the source is
\* named by patch_image.source_dir, and is not data_dir.
SourceNotDest ==
  \A s \in Setups : ~s.docker /\ s.patch # "off" => s.patch = "given" /\ s.out # "same"

\* Where SourceNotDest holds, a PatchImage that reports success leaves what its source
\* held when it began, in the image or in data_dir, until a load changes it.
THEOREM PatchesAreWhole == ASSUME SourceNotDest PROVE Spec => []PatchedWhole
<1>1. IInv => PatchedWhole
  <2> SUFFICES ASSUME IInv, source.done, measured = <<>>
               PROVE  source.homes = IF setup.docker THEN image ELSE files["data"].homes
    BY DEF PatchedWhole
  <2>1. setup \in Setups /\ Patched /\ Sourced
    BY DEF IInv, Typed, TypeOK, Settled
  <2>2. /\ source.from \in Places
        /\ setup.docker => image = source.homes
        /\ ~setup.docker /\ source.from = "out" => files["data"].homes = source.homes
    BY <2>1 DEF Patched
  <2>3. CASE ~setup.docker
    <3>1. setup.patch = "given" /\ setup.out # "same"
      BY <2>1, <2>2, <2>3 DEF Sourced, SourceNotDest
    <3>2. source.from = "out"
      BY <2>1, <2>2, <2>3, <3>1 DEF Sourced
    <3> QED BY <2>2, <2>3, <3>2
  <2> QED BY <2>2, <2>3
<1> QED BY <1>1, Invariance, PTL

\* When a workflow that generates its layout, and patches none, comes to start its nodes,
\* each has keys and a genesis.
LEMMA NodesComplete ==
  ASSUME IInv, NEW x, PreRun(x), ~setup.skip, setup.patch = "off"
  PROVE  \A n \in 1..Count : RunHome(n).keys # 0 /\ RunHome(n).genesis # 0
<1>1. Typed /\ Contained
  BY DEF IInv, Settled
<1>2. setup \in Setups /\ targets \in Places \cup {None} /\ gens \in Nat
  BY <1>1, Types
<1>3. /\ Ready /\ Runs /\ gens \in 1..MaxGens /\ Written("data", 1..Count)
      /\ Compose => UpBefore(N + 1)
  BY DEF PreRun
<1>4. N \in Nat /\ Count \in Nat /\ Count <= N
  BY <1>2, Counts
<1>5. MountHome
  BY DEF MountHome
<1>6. CASE Compose /\ \A n : RunHome(n) = containers[n].home
  <2>1. UpBefore(N + 1)
    BY <1>3, <1>6
  <2>2. \A n \in Nodes : containers[n].at # None
    BY <1>4, <2>1 DEF UpBefore, Nodes
  <2>3. \A n \in Nodes : containers[n].home.keys # 0 /\ containers[n].home.genesis # 0
    BY <1>1, <2>2 DEF Contained
  <2> QED BY <1>4, <1>6, <2>3 DEF Nodes
<1>7. CASE RunsFrom = "data" /\ \A n : RunHome(n) = files[RunsFrom].homes[n]
  <2>1. \A n \in 1..Count : RunHome(n).keys = gens /\ RunHome(n).genesis = gens
    BY <1>3, <1>7 DEF Written, home
  <2>2. gens # 0
    BY <1>3
  <2> QED BY <2>1, <2>2
<1> QED BY <1>2, <1>3, <1>5, <1>6, <1>7, RunSource

\* A generation begun over whatever an earlier operation left, finished or failed, has
\* no step refused because of it, and a workflow that generates can start its nodes.
THEOREM RegenerationAlwaysWorks == Spec => []RegenerationWorks
<1>1. IInv => RegenerationWorks
  <2> SUFFICES ASSUME IInv, todo # <<>>,
                      step.do \notin {"load", "given", "default", "copy", "copylist"},
                      step.do = "run" => ~setup.skip /\ setup.patch = "off"
               PROVE  Possible
    BY DEF RegenerationWorks, IInv, Typed
  <2>1. Pre(step) /\ step.do \in Words
    <3>1. todo \in Seq(StepType) /\ Reached
      BY DEF IInv, Plan
    <3>2. step = todo[1] /\ step \in StepType
      BY <3>1 DEF step
    <3> QED BY <3>1, <3>2 DEF Reached, First, StepType
  <2>2. setup \in Setups /\ gens \in Nat
    BY Types DEF IInv
  <2>3. N \in Nat \ {0} /\ Count \in Nat \ {0} /\ 1 \in 1..Count
    BY <2>2, Counts
  <2>4. CASE step.do = "init"
    BY <2>1, <2>4 DEF Pre, PreInit, Possible
  <2>5. CASE step.do = "collect"
    BY <2>1, <2>3, <2>5 DEF Pre, PreCollect, Keyed, Possible
  <2>6. CASE step.do = "distribute"
    <3>1. /\ gens # 0 /\ step.n \in 1..Count
          /\ Written(step.at, {1} \cup 1..(step.n - 1))
          /\ Keyed(step.at, (step.n..Count) \ {1})
      BY <2>1, <2>6 DEF Pre, PreDistribute, Generating
    <3>2. \A m \in 1..Count : home(step.at, m).keys = gens
      BY <2>3, <3>1 DEF Written, Keyed
    <3>3. PeersKnown(step.at, step.n)
      BY <3>1, <3>2 DEF PeersKnown
    <3> QED BY <2>6, <3>3 DEF Possible
  <2>7. CASE step.do = "write"
    <3>1. /\ step.n \in Nodes
          /\ setup.family # "reth" => \A m \in step.n..N : Keyed(step.at, {m})
      BY <2>1, <2>7 DEF Pre, PreWrite
    <3>2. setup.family # "reth" => home(step.at, step.n).keys = gens
      BY <2>3, <3>1 DEF Keyed, Nodes
    <3> QED BY <2>7, <3>2 DEF Possible
  <2>8. CASE step.do = "up"
    BY <2>1, <2>8 DEF Pre, PreUp, Possible
  <2>9. CASE step.do = "run"
    <3>1. PreRun(step)
      BY <2>1, <2>9 DEF Pre
    <3>2. \A n \in 1..Count : RunHome(n).keys # 0 /\ RunHome(n).genesis # 0
      BY <2>9, <3>1, NodesComplete
    <3> QED BY <2>9, <3>2 DEF Possible
  <2>10. CASE step.do \notin {"init", "collect", "distribute", "write", "up", "run"}
    BY <2>10 DEF Possible
  <2> QED BY <2>4, <2>5, <2>6, <2>7, <2>8, <2>9, <2>10
<1> QED BY <1>1, Invariance, PTL
=============================================================================
