------------------------------- MODULE Layout --------------------------------
(***************************************************************************)
(* How a network's files come to be before a load meets it: benchctl gen   *)
(* and the GenerateLayout activity write node homes, LoadLayout reuses     *)
(* them, PatchImage copies them into an image or over the data directory,  *)
(* and RunNode starts nodes from them.  Each operation is a list of steps, *)
(* any of which may fail and end the operation with what was written so    *)
(* far left behind; the operator then starts any other.                    *)
(*                                                                         *)
(* Generations are numbered; a home remembers whose keys and whose genesis *)
(* it holds, 0 for none, and whether a chain has run on it.  "data" is     *)
(* benchmark.data_dir, "out" the directory benchctl gen writes to.         *)
(***************************************************************************)
EXTENDS Naturals, Sequences

CONSTANTS
  N,           \* nodes, in GlobalSeq order
  Validators,  \* how many of them, the first ones, are validators
  Setups,      \* configurations, members of Setup
  MaxGens,     \* bound on generations
  MaxOps       \* bound on operations

Nodes == 1..N

Places == {"data", "out"}

\* chain_family and runner_type, skip_generate_layout, patch_image and where
\* <data-root>/out lies: data_dir itself, a directory in it, or elsewhere.
Setup ==
  [family : {"cosmos", "reth", "allegro", "tempo"}, docker : BOOLEAN, skip : BOOLEAN,
   patch : {"off", "default", "given"}, out : {"same", "inside", "apart"}]

ASSUME LayoutAssumption ==
  /\ N \in Nat \ {0} /\ Validators \in Nodes
  /\ {MaxGens, MaxOps} \subseteq Nat
  /\ Setups \subseteq Setup
  /\ \A s \in Setups : s.family \in {"reth", "allegro"} => ~s.docker

VARIABLES
  setup,
  todo,        \* the steps left of the operation under way
  files,       \* per place: node homes, nodes.json, compose file, existence
  image,       \* the homes in the docker image
  containers,  \* compose's containers: the directory and the home in it they run on
  targets,     \* the place whose homes the layout activity returned
  measured,    \* the homes the last run's load met
  gens,        \* generations begun; the current one's number
  ops,         \* operations begun
  source,      \* PatchImage's source and its homes when it began (history)
  orphaned     \* containers outlived a compose down (history)

vars == <<setup, todo, files, image, containers, targets, measured, gens, ops,
          source, orphaned>>

None == "none"

NoHome == [keys |-> 0, genesis |-> 0, used |-> FALSE]

NoFiles ==
  [homes |-> [n \in Nodes |-> NoHome], list |-> None, compose |-> FALSE, exists |-> FALSE]

NoContainer == [at |-> None, home |-> NoHome]

\* Local cosmos nodes share one RPC port, so there is one.
Count == IF setup.family = "cosmos" /\ ~setup.docker THEN 1 ELSE N

OutPlace == IF setup.out = "same" THEN "data" ELSE "out"

Compose == setup.family = "tempo" /\ setup.docker

\* What goes with place p when it is removed.
Below(p) == IF p = "data" /\ setup.out = "inside" THEN Places ELSE {p}

\* What the script's clean and benchctl gen --clean remove: the data root.
DataRoot == IF setup.out = "apart" THEN {"out"} ELSE Places

----------------------------------------------------------------------------
(* The operations, as lists of steps *)

Step(do, p) == <<[do |-> do, at |-> p, n |-> 0]>>

Each(do, p, first, last) ==
  [i \in 1..(last + 1 - first) |-> [do |-> do, at |-> p, n |-> first + i - 1]]

\* Each node's home is reset and initialised before the next one's.
InitSteps(p) ==
  [i \in 1..(2 * Count) |->
     [do |-> IF i % 2 = 1 THEN "wipe" ELSE "init", at |-> p, n |-> (i + 1) \div 2]]

CosmosSteps(p) == InitSteps(p) \o Step("collect", p) \o Each("distribute", p, 1, Count)

\* reth's genesis is built in memory; the other families' comes from their xtask.
RethSteps(p) == Step("reset", p) \o Each("write", p, 1, Count)

AllegroSteps(p) == Step("reset", p) \o Step("xtask", p) \o Each("write", p, 1, Count)

TempoSteps(p) ==
  (IF Compose THEN Step("down", p) ELSE <<>>)
    \o Step("reset", p) \o Step("xtask", p) \o Each("write", p, 1, Count)
    \o (IF Compose THEN Step("compose", p) \o Each("up", p, 1, Count) ELSE <<>>)

BootstrapSteps(p) ==
  CASE setup.family = "cosmos" -> CosmosSteps(p)
    [] setup.family = "reth" -> RethSteps(p)
    [] setup.family = "allegro" -> AllegroSteps(p)
    [] setup.family = "tempo" -> TempoSteps(p)

\* The homes first, nodes.json last.
GenerateSteps(p) == Step("mkdir", p) \o BootstrapSteps(p) \o Step("list", p)

\* WalkDir goes in lexical order: fullnodes, nodes.json, validators for cosmos,
\* devnet and then nodes.json for the other families.
CopySteps ==
  IF setup.family = "cosmos"
  THEN Each("copy", "data", Validators + 1, Count) \o Step("copylist", "data")
         \o Each("copy", "data", 1, Validators)
  ELSE Each("copy", "data", 1, Count) \o Step("copylist", "data")

\* A local PatchImage replaces data_dir by a copy of the source.
PatchSteps(given) ==
  Step(IF given THEN "given" ELSE "default", "data")
    \o IF setup.docker THEN Step("build", "image")
       ELSE Step("remove", "data") \o CopySteps \o Step("copied", "data")

WorkflowSteps ==
  (IF setup.skip THEN Step("load", "data") ELSE GenerateSteps("data"))
    \o (IF setup.patch = "off" THEN <<>> ELSE PatchSteps(setup.patch = "given"))
    \o Step("run", "data")

\* run_prepare: clean, benchctl gen --clean, and for the docker runner benchctl
\* patchimage --source-dir <data-root>/out; set -e ends it at the first failure.
PrepareSteps ==
  Step("clean", OutPlace) \o GenerateSteps(OutPlace)
    \o (IF setup.family = "cosmos" /\ setup.docker THEN PatchSteps(TRUE) ELSE <<>>)

----------------------------------------------------------------------------
(* Starting an operation *)

Init ==
  /\ setup \in Setups
  /\ todo = <<>>
  /\ files = [p \in Places |-> NoFiles]
  /\ image = [n \in Nodes |-> NoHome]
  /\ containers = [n \in Nodes |-> NoContainer]
  /\ targets = None /\ measured = <<>>
  /\ gens = 0 /\ ops = 0
  /\ source = [from |-> None, homes |-> <<>>, done |-> FALSE]
  /\ orphaned = FALSE

Begin(steps, generates) ==
  /\ todo = <<>> /\ ops < MaxOps
  /\ todo' = steps
  /\ ops' = ops + 1
  /\ gens' = IF generates THEN gens + 1 ELSE gens
  /\ gens' <= MaxGens
  /\ measured' = <<>>
  /\ source' = [source EXCEPT !.done = FALSE]
  /\ UNCHANGED <<setup, files, image, containers, targets, orphaned>>

BenchctlGen == Begin(GenerateSteps(OutPlace), TRUE)

BenchctlPatchImage ==
  /\ setup.patch # "off" \/ (setup.family = "cosmos" /\ setup.docker)
  /\ Begin(PatchSteps(setup.patch # "default"), FALSE)

Prepare == Begin(PrepareSteps, TRUE)

StartWorkflow == Begin(WorkflowSteps, ~setup.skip)

Clean == Begin(Step("clean", OutPlace), FALSE)

\* The script's stop finds compose's containers by the project's label.
StopNodes ==
  /\ Compose /\ todo = <<>> /\ ops < MaxOps
  /\ ops' = ops + 1
  /\ containers' = [n \in Nodes |-> NoContainer]
  /\ orphaned' = FALSE /\ measured' = <<>>
  /\ UNCHANGED <<setup, todo, files, image, targets, gens, source>>

----------------------------------------------------------------------------
(* What a step needs *)

step == Head(todo)

home(p, n) == files[p].homes[n]

\* patchConfigToml asks every other home for its node id.
PeersKnown(p, n) == \A m \in 1..Count \ {n} : home(p, m).keys # 0

\* patch_image.source_dir, or data_dir/out if there is one, or data_dir.
SourceDir ==
  IF step.do = "given" THEN OutPlace
  ELSE IF setup.out = "inside" /\ files["out"].exists THEN "out" ELSE "data"

\* Fault: the node home is mounted over the one in a reused image.
MountHomeReused == setup.patch = "off"

\* The image has the layout if it was patched in, or is reused.
MountHome == setup.patch = "off" /\ ~setup.skip

\* Where the nodes find their homes.
RunsFrom ==
  CASE Compose -> "containers"
    [] setup.family = "cosmos" /\ setup.docker -> IF MountHome THEN targets ELSE "image"
    [] setup.family = "cosmos" /\ ~setup.docker -> targets
    [] OTHER -> "data"

RunHome(n) ==
  CASE RunsFrom = "containers" -> containers[n].home
    [] RunsFrom = "image" -> image[n]
    [] OTHER -> home(RunsFrom, n)

\* The binary's init refuses a home that has a genesis; collect-gentxs needs the
\* leader's; a devnet's nodes are written from what xtask wrote; nodes without keys or
\* genesis do not start.  The other steps need nothing an earlier one could leave.
Possible ==
  CASE step.do = "init" -> home(step.at, step.n) = NoHome
    [] step.do = "collect" -> home(step.at, 1).keys = gens
    [] step.do = "distribute" -> PeersKnown(step.at, step.n)
    [] step.do = "write" -> setup.family # "reth" => home(step.at, step.n).keys = gens
    [] step.do = "up" -> files[step.at].compose
    [] step.do \in {"given", "default"} -> files[SourceDir].exists
    [] step.do \in {"copy", "copylist"} -> files[source.from].exists
    [] step.do = "load" ->
         /\ files["data"].list # None
         /\ setup.family = "cosmos" =>
              \A n \in 1..Count : home(files["data"].list, n).keys # 0
                                    => PeersKnown(files["data"].list, n)
    [] step.do = "run" ->
         \A n \in 1..Count : RunHome(n).keys # 0 /\ RunHome(n).genesis # 0
    [] OTHER -> TRUE

Do(do) == todo # <<>> /\ step.do = do /\ Possible /\ todo' = Tail(todo)

----------------------------------------------------------------------------
(* The steps of a generation *)

OnlyFiles ==
  UNCHANGED <<setup, image, containers, targets, measured, gens, ops, source, orphaned>>

SetHome(p, n, h) == files' = [files EXCEPT ![p].homes[n] = h] /\ OnlyFiles

RemoveAll(places) == files' = [p \in Places |-> IF p \in places THEN NoFiles ELSE files[p]]

CleanDataRoot == Do("clean") /\ RemoveAll(DataRoot) /\ OnlyFiles

\* MkdirAll makes the parents too.  An earlier nodes.json stays until "list".
Mkdir ==
  /\ Do("mkdir")
  /\ files' = [p \in Places |-> [files[p] EXCEPT !.exists = @ \/ step.at \in Below(p)]]
  /\ OnlyFiles

\* Fault: an earlier run's home is kept.
WipeNothing == Do("wipe") /\ OnlyFiles /\ UNCHANGED files

Wipe == Do("wipe") /\ SetHome(step.at, step.n, NoHome)

\* The binary's init, the validator's key and its gentx.
InitNode ==
  Do("init") /\ SetHome(step.at, step.n, [home(step.at, step.n) EXCEPT !.keys = gens])

\* The leader, the first validator, gets the genesis with every account and gentx.
Collect ==
  /\ Do("collect")
  /\ SetHome(step.at, 1, [home(step.at, 1) EXCEPT !.genesis = gens])

Distribute ==
  /\ Do("distribute")
  /\ SetHome(step.at, step.n,
             [home(step.at, step.n) EXCEPT !.genesis = home(step.at, 1).genesis])

\* Fault: the devnet directory is written over.
ResetNothing == Do("reset") /\ OnlyFiles /\ UNCHANGED files

\* resetDevnetDir: everything under devnet goes, the compose file too.
Reset ==
  /\ Do("reset")
  /\ files' = [files EXCEPT ![step.at].homes = NoFiles.homes, ![step.at].compose = FALSE]
  /\ OnlyFiles

\* generate-localnet or genesis, with the genesis patch on top: what makes the nodes
\* one network, which each node's home is then given.
Xtask ==
  /\ Do("xtask")
  /\ files' = [files EXCEPT ![step.at].homes =
                 [n \in Nodes |-> [home(step.at, n) EXCEPT !.keys = gens]]]
  /\ OnlyFiles

WriteHome ==
  /\ Do("write")
  /\ SetHome(step.at, step.n,
             [home(step.at, step.n) EXCEPT !.keys = gens, !.genesis = gens])

\* A round of writeDevnetNodes.
WriteDevnetNode == setup.family \in {"reth", "allegro"} /\ WriteHome

\* A round of Tempo's own loop.
WriteTempoNode == setup.family = "tempo" /\ WriteHome

WriteCompose ==
  /\ Do("compose")
  /\ files' = [files EXCEPT ![step.at].compose = TRUE]
  /\ OnlyFiles

List ==
  /\ Do("list")
  /\ files' = [files EXCEPT ![step.at].list = step.at]
  /\ targets' = step.at
  /\ UNCHANGED <<setup, image, containers, measured, gens, ops, source, orphaned>>

----------------------------------------------------------------------------
(* Docker compose.  A container keeps the directory it was created on. *)

OnlyContainers ==
  UNCHANGED <<setup, files, image, targets, measured, gens, ops, source>>

\* Bootstrap ignores the outcome; without the compose file it is a failure.
Down ==
  /\ Do("down")
  /\ \/ /\ files[step.at].compose
        /\ containers' = [n \in Nodes |-> NoContainer]
        /\ orphaned' = FALSE
     \/ /\ orphaned' = (\E n \in Nodes : containers[n] # NoContainer)
        /\ UNCHANGED containers
  /\ OnlyContainers

\* `up -d` leaves a container as it is unless its service changed, here by its path.
Up ==
  /\ Do("up")
  /\ containers' = IF containers[step.n].at = step.at THEN containers
                   ELSE [containers EXCEPT ![step.n] =
                           [at |-> step.at, home |-> home(step.at, step.n)]]
  /\ OnlyContainers /\ UNCHANGED orphaned

----------------------------------------------------------------------------
(* PatchImage *)

OnlySource ==
  UNCHANGED <<setup, files, image, containers, targets, measured, gens, ops, orphaned>>

FindSource ==
  /\ Do("given") \/ Do("default")
  /\ source' = [from |-> SourceDir, homes |-> files[SourceDir].homes, done |-> FALSE]
  /\ OnlySource

\* copyDir into a temporary directory, the Dockerfile and docker build.
Build ==
  /\ Do("build")
  /\ image' = files[source.from].homes
  /\ source' = [source EXCEPT !.done = TRUE]
  /\ UNCHANGED <<setup, files, containers, targets, measured, gens, ops, orphaned>>

\* Fault: the destination is not reset.
RemoveDestKeeps == Do("remove") /\ OnlyFiles /\ UNCHANGED files

RemoveDest ==
  /\ Do("remove")
  /\ IF source.from = "data" THEN UNCHANGED files ELSE RemoveAll(Below("data"))
  /\ OnlyFiles

\* A file is opened, truncated at its destination, and copied: onto itself it is
\* left empty.  What the destination has and the source lacks stays, a chain's
\* database among it.
CopyHome ==
  /\ Do("copy")
  /\ LET h == home(source.from, step.n) IN
     files' = [files EXCEPT
       !["data"].exists = TRUE,
       !["data"].homes[step.n] =
          IF source.from = "data" THEN NoHome
          ELSE [h EXCEPT !.used = h.used \/ home("data", step.n).used]]
  /\ OnlyFiles

\* nodes.json goes with the homes it names, which are the source's.
CopyList ==
  /\ Do("copylist")
  /\ files' = [files EXCEPT
       !["data"].exists = TRUE,
       !["data"].list = IF source.from = "data" THEN None ELSE files[source.from].list]
  /\ OnlyFiles

Copied == Do("copied") /\ source' = [source EXCEPT !.done = TRUE] /\ OnlySource

----------------------------------------------------------------------------
(* LoadLayout and RunNode *)

\* The homes are those nodes.json names; each that has a config.toml is refreshed.
LoadLayout ==
  /\ Do("load")
  /\ targets' = files["data"].list
  /\ UNCHANGED <<setup, files, image, containers, measured, gens, ops, source, orphaned>>

\* A node in an image starts from it anew each time.
Run ==
  /\ Do("run")
  /\ measured' = [n \in 1..Count |-> RunHome(n)]
  /\ IF RunsFrom \in Places
     THEN files' = [files EXCEPT ![RunsFrom].homes =
            [n \in Nodes |-> [home(RunsFrom, n) EXCEPT !.used = @ \/ n <= Count]]]
     ELSE UNCHANGED files
  /\ containers' = IF RunsFrom # "containers" THEN containers
                   ELSE [n \in Nodes |-> [containers[n] EXCEPT !.home.used = TRUE]]
  /\ UNCHANGED <<setup, image, targets, gens, ops, source, orphaned>>

Fail ==
  /\ todo # <<>>
  /\ todo' = <<>>
  /\ OnlySource /\ UNCHANGED source

Next ==
  \/ BenchctlGen \/ BenchctlPatchImage \/ Prepare \/ StartWorkflow \/ Clean \/ StopNodes
  \/ CleanDataRoot \/ Mkdir \/ Wipe \/ InitNode \/ Collect \/ Distribute
  \/ Reset \/ Xtask \/ WriteDevnetNode \/ WriteTempoNode \/ WriteCompose \/ List \/ Down \/ Up
  \/ FindSource \/ Build \/ RemoveDest \/ CopyHome \/ CopyList \/ Copied
  \/ LoadLayout \/ Run \/ Fail

Spec == Init /\ [][Next]_vars

----------------------------------------------------------------------------
(* Properties *)

Home == [keys : 0..MaxGens, genesis : 0..MaxGens, used : BOOLEAN]

TypeOK ==
  /\ setup \in Setups
  /\ files \in [Places -> [homes : [Nodes -> Home], list : Places \cup {None},
                           compose : BOOLEAN, exists : BOOLEAN]]
  /\ image \in [Nodes -> Home]
  /\ containers \in [Nodes -> [at : Places \cup {None}, home : Home]]
  /\ targets \in Places \cup {None}
  /\ gens \in 0..MaxGens /\ ops \in 0..MaxOps
  /\ source.from \in Places \cup {None}
  /\ orphaned \in BOOLEAN

\* The nodes a load meets are one network: every home holds the keys and the genesis
\* of one generation, although a generation may stop half way over an older layout,
\* whose nodes.json it leaves in place, and be reused or patched into an image then.
\* Only Tempo's containers can be mixed, when a compose down failed.
OneNetwork ==
  measured # <<>> /\ ~orphaned =>
    \E g \in 1..MaxGens : \A n \in DOMAIN measured :
      measured[n].keys = g /\ measured[n].genesis = g

\* A run that generates its layout, or starts from an image, meets a chain nobody has
\* run before; without PatchImage it is the one just generated.  Tempo in docker meets
\* an older one if the containers outlived the compose down whose failure is ignored.
FreshChain ==
  /\ measured # <<>> /\ ~orphaned
  /\ ~setup.skip \/ (setup.docker /\ setup.family = "cosmos")
  => \A n \in DOMAIN measured :
       /\ ~measured[n].used
       /\ setup.patch = "off" /\ ~setup.skip => measured[n].genesis = gens

\* A PatchImage that reports success leaves the source's homes, as they were when it
\* began, at the destination.
PatchedWhole ==
  source.done /\ measured = <<>> =>
    source.homes = IF setup.docker THEN image ELSE files["data"].homes

\* "Regenerating has to be idempotent" (devnet.go): whatever earlier operations left,
\* finished or not, no step of the next generation is refused because of it, and the
\* nodes of a workflow that generates can start.
RegenerationWorks ==
  /\ TypeOK
  /\ todo # <<>> /\ step.do \notin {"load", "given", "default", "copy", "copylist"}
       /\ (step.do = "run" => ~setup.skip /\ setup.patch = "off")
     => Possible

=============================================================================
