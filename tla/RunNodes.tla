------------------------------ MODULE RunNodes ------------------------------
(***************************************************************************)
(* StatelessEVMBenchmarkWorkflow (internal/workflows/stateless.go) and the *)
(* activities it runs per node (internal/activities/stateless.go): layout, *)
(* image, transaction files, then RunNode on every node at once, which     *)
(* starts the node, waits for its ports, drives the load through whatever  *)
(* answers on the node's JSON-RPC port, and stops the node again.          *)
(*                                                                         *)
(* What happens inside the load is in Broadcast and Waits, what happens to *)
(* the files in Layout; here only who answered the load counts.  The       *)
(* script's `run` (scripts/run-benchmark.sh) may be interrupted at any     *)
(* time: it stops the worker, which loses the activities and leaves their  *)
(* nodes running, and then the nodes.  Node processes, containers and      *)
(* ports are external.                                                     *)
(***************************************************************************)
EXTENDS Naturals, Sequences

CONSTANTS
  NumNodes,
  Setups        \* the configurations considered

Nodes == 1..NumNodes
Old == 0        \* a node this run did not start
Nobody == NumNodes + 1

\* What of the configuration, and of the machine it meets, the run depends on.
SetupType ==
  [Loaded         : SUBSET Nodes,  \* the nodes that send load: all, or not the validators
   PreGenerate    : BOOLEAN,       \* pre_generate_txs; otherwise the files are there already
   Regenerate     : BOOLEAN,       \* ~skip_generate_layout
   RunsNodes      : BOOLEAN,       \* run_nodes
   StartNode      : BOOLEAN,       \* start_node; otherwise the node is managed elsewhere
   Checked        : BOOLEAN,       \* the family checks the port before it starts a node;
                                   \* the script knows its processes
   Reports        : BOOLEAN,       \* its nodes serve metrics
   Docker         : BOOLEAN,       \* runner_type docker
   KeepContainers : BOOLEAN,
   LeftOver       : SUBSET Nodes]  \* the ports served already: an earlier run's node, or
                                   \* the node managed elsewhere

ASSUME RunAssumption ==
  /\ NumNodes \in Nat \ {0}
  /\ Setups \subseteq SetupType

VARIABLES
  setup,
  wf,         \* where the workflow is
  awaited,    \* the node whose future it waits for
  results,    \* the nodes whose results it has, in order
  gen,        \* per node: the GenerateTxs activity
  file,       \* per node: the transaction file
  run,        \* per node: where the RunNode activity is
  verdict,    \* per node: what RunNode will return
  canceled,   \* per node: the run's context has ended
  script,     \* where the script's run is: running, or what it stops next
  proc,       \* per node: the process or container RunNode started (environment)
  server,     \* per node: who serves its JSON-RPC port (environment)
  talked      \* per node: who answered the load (history)

actVars == <<setup, file, run, verdict, canceled, talked>>
vars == <<wf, awaited, results, gen, actVars, script, proc, server>>

Loaded == setup.Loaded
PreGenerate == setup.PreGenerate
Regenerate == setup.Regenerate
RunsNodes == setup.RunsNodes
StartNode == setup.StartNode
Checked == setup.Checked
Reports == setup.Reports
Docker == setup.Docker
KeepContainers == setup.KeepContainers

\* What a RunNode activity does once its node is started.
Driving == {"port", "ready", "send", "wait", "final"}

\* The variables have their types.
TypeOK ==
  /\ setup \in Setups
  /\ wf \in {"layout", "patch", "gen", "await_gen", "run", "await_run", "ok", "failed", "lost"}
  /\ awaited \in Nodes
  /\ results \in Seq(Nodes)
  /\ gen \in [Nodes -> {"idle", "running", "ok", "failed", "lost"}]
  /\ file \in [Nodes -> {"none", "partial", "whole"}]
  /\ run \in [Nodes -> {"idle", "begin", "check", "start", "metrics", "stop", "stopping", "ok",
                         "failed", "lost"} \cup Driving]
  /\ verdict \in [Nodes -> {"ok", "failed"}]
  /\ canceled \in [Nodes -> BOOLEAN]
  /\ script \in {"running", "worker", "nodes", "done"}
  /\ proc \in [Nodes -> {"none", "starting", "serving", "dying", "gone"}]
  /\ server \in [Nodes -> Nodes \cup {Old, Nobody}]
  /\ talked \in [Nodes -> SUBSET (Nodes \cup {Old})]

Init ==
  /\ setup \in Setups
  /\ wf = "layout"
  /\ awaited = 1
  /\ results = <<>>
  /\ gen = [n \in Nodes |-> "idle"]
  /\ file = [n \in Nodes |-> IF PreGenerate THEN "none" ELSE "whole"]
  /\ run = [n \in Nodes |-> "idle"]
  /\ verdict = [n \in Nodes |-> "failed"]
  /\ canceled = [n \in Nodes |-> FALSE]
  /\ script = "running"
  /\ proc = [n \in Nodes |-> "none"]
  /\ server = [n \in Nodes |-> IF n \in setup.LeftOver THEN Old ELSE Nobody]
  /\ talked = [n \in Nodes |-> {}]

Served(n) == server[n] # Nobody

-----------------------------------------------------------------------------
(* The workflow.                                                           *)

\* GenerateLayout or LoadLayout.  Bootstrap of a checked family refuses to go
\* on while one of its ports is served; any of them may fail.
Layout ==
  /\ wf = "layout"
  /\ \/ /\ wf' = "patch"
        /\ Regenerate /\ Checked /\ ~Docker => \A n \in Nodes : ~Served(n)
     \/ wf' = "failed"
  /\ UNCHANGED <<awaited, results, gen, actVars, script, proc, server>>

AfterGen == IF RunsNodes THEN "run" ELSE "ok"

\* PatchImage, if enabled.
Patch ==
  /\ wf = "patch"
  /\ wf' \in {IF PreGenerate THEN "gen" ELSE AfterGen, "failed"}
  /\ UNCHANGED <<awaited, results, gen, actVars, script, proc, server>>

StartGen ==
  /\ wf = "gen"
  /\ gen' = [n \in Nodes |-> "running"]
  /\ wf' = "await_gen"
  /\ awaited' = 1
  /\ UNCHANGED <<results, actVars, script, proc, server>>

\* Fault: the first future's answer is taken for all.
AwaitFirst(act, then) ==
  /\ act[awaited] \in {"ok", "failed"}
  /\ wf' = IF act[awaited] = "ok" THEN then ELSE "failed"
  /\ UNCHANGED awaited

\* A step of the loop over the futures, in node order: the first error ends the
\* workflow, whatever the other activities are doing.
Await(act, then) ==
  \/ /\ act[awaited] = "failed"
     /\ wf' = "failed"
     /\ UNCHANGED awaited
  \/ /\ act[awaited] = "ok"
     /\ IF awaited = NumNodes THEN wf' = then /\ UNCHANGED awaited
                              ELSE awaited' = awaited + 1 /\ UNCHANGED wf

AwaitGen ==
  /\ wf = "await_gen"
  /\ Await(gen, AfterGen)
  /\ UNCHANGED <<results, gen, actVars, script, proc, server>>

StartRuns ==
  /\ wf = "run"
  /\ run' = [n \in Nodes |-> "begin"]
  /\ wf' = "await_run"
  /\ awaited' = 1
  /\ UNCHANGED <<setup, results, gen, file, verdict, canceled, talked, script, proc, server>>

AwaitRun ==
  /\ wf = "await_run"
  /\ Await(run, "ok")
  /\ results' = IF run[awaited] = "ok" THEN Append(results, awaited) ELSE results
  /\ UNCHANGED <<gen, actVars, script, proc, server>>

Workflow == Layout \/ Patch \/ StartGen \/ AwaitGen \/ StartRuns \/ AwaitRun

-----------------------------------------------------------------------------
(* GenerateTxs.  The legacy signer writes the file as it goes.             *)

GenDone(n) ==
  /\ gen[n] = "running"
  /\ gen' = [gen EXCEPT ![n] = "ok"]
  /\ file' = [file EXCEPT ![n] = "whole"]
  /\ UNCHANGED <<setup, wf, awaited, results, run, verdict, canceled, talked, script, proc,
                 server>>

\* It fails, or misses its heartbeat.
GenFails(n) ==
  /\ gen[n] = "running"
  /\ gen' = [gen EXCEPT ![n] = "failed"]
  /\ file' = [file EXCEPT ![n] = "partial"]
  /\ UNCHANGED <<setup, wf, awaited, results, run, verdict, canceled, talked, script, proc,
                 server>>

-----------------------------------------------------------------------------
(* RunNode.                                                                *)

Goto(n, l) == run' = [run EXCEPT ![n] = l]

\* What every step of RunNode leaves alone but run, verdict and what it names.
Others == <<setup, wf, awaited, results, gen, file, script>>

\* A node without load has an empty result; a partial file does not decode.
Begin(n) ==
  /\ run[n] = "begin"
  /\ Goto(n, IF n \notin Loaded THEN "ok" ELSE IF file[n] = "whole" THEN "check" ELSE "failed")
  /\ UNCHANGED <<Others, verdict, canceled, talked, proc, server>>

\* Fault: the port is not looked at.
CheckNothing(n) ==
  /\ run[n] = "check"
  /\ Goto(n, "start")
  /\ UNCHANGED <<Others, verdict, canceled, talked, proc, server>>

\* PreStartCheck.
Check(n) ==
  /\ run[n] = "check"
  /\ Goto(n, IF Checked /\ StartNode /\ ~Docker /\ Served(n) THEN "failed" ELSE "start")
  /\ UNCHANGED <<Others, verdict, canceled, talked, proc, server>>

\* The node is started, unless it is managed elsewhere.  docker run refuses a
\* port that is taken; a process finds out when it binds.
Start(n) ==
  /\ run[n] = "start"
  /\ \/ ~StartNode /\ Goto(n, "port") /\ UNCHANGED <<proc, server>>
     \/ StartNode /\ Goto(n, "failed") /\ UNCHANGED <<proc, server>>
     \/ /\ StartNode /\ ~Docker
        /\ Goto(n, "port")
        /\ proc' = [proc EXCEPT ![n] = "starting"]
        /\ UNCHANGED server
     \/ /\ StartNode /\ Docker
        /\ ~Served(n)
        /\ Goto(n, "port")
        /\ proc' = [proc EXCEPT ![n] = "serving"]
        /\ server' = [server EXCEPT ![n] = n]
  /\ UNCHANGED <<Others, verdict, canceled, talked>>

After ==
  [port |-> "ready", ready |-> "send", send |-> "wait", wait |-> "final",
   final |-> IF Reports /\ StartNode THEN "metrics" ELSE "stop"]

Answers(n) == Served(n) /\ ~canceled[n]

\* The activity goes on to l, after asking whoever serves the port; if there is
\* nothing left but to stop the node, the run has succeeded.
Advance(n, l) ==
  /\ Goto(n, l)
  /\ verdict' = IF l = "stop" THEN [verdict EXCEPT ![n] = "ok"] ELSE verdict
  /\ talked' = IF Answers(n) THEN [talked EXCEPT ![n] = @ \cup {server[n]}] ELSE talked
  /\ UNCHANGED <<Others, canceled, proc, server>>

\* WaitForPort, then the steps of doRun: ready height, send, wait, final height
\* and statistics.  Sending reports no error, even when nobody answers or the
\* context has ended.
Drive(n) ==
  /\ run[n] \in Driving
  /\ run[n] = "send" \/ Answers(n)
  /\ Advance(n, After[run[n]])

\* reportNodeMetrics scrapes the node before it is stopped.
ReportMetrics(n) ==
  /\ run[n] = "metrics"
  /\ Answers(n)
  /\ Advance(n, "stop")

\* A step fails: a timeout, an error, the context.
DriveFails(n) ==
  /\ run[n] \in (Driving \ {"send"}) \cup {"metrics"}
  /\ Goto(n, "stop")
  /\ UNCHANGED <<Others, verdict, canceled, talked, proc, server>>

\* The goroutine in proc.Wait sees the node exit and cancels the run.
SeesExit(n) ==
  /\ ~Docker
  /\ proc[n] = "gone"
  /\ run[n] \in Driving \cup {"metrics", "stop"}
  /\ ~canceled[n]
  /\ canceled' = [canceled EXCEPT ![n] = TRUE]
  /\ UNCHANGED <<Others, run, verdict, talked, proc, server>>

Freed(n) == [m \in Nodes |-> IF server[m] = n THEN Nobody ELSE server[m]]

\* The deferred stop of what was started: SIGTERM to the process, docker rm -f
\* for the container.
Stop(n) ==
  /\ run[n] = "stop"
  /\ Goto(n, "stopping")
  /\ \/ /\ proc[n] = "none" \/ (Docker /\ KeepContainers)
        /\ UNCHANGED <<proc, server>>
     \/ /\ proc[n] # "none" /\ Docker /\ ~KeepContainers
        /\ proc' = [proc EXCEPT ![n] = "gone"]
        /\ server' = Freed(n)
     \/ /\ proc[n] # "none" /\ ~Docker
        /\ proc' = [proc EXCEPT ![n] = IF @ = "gone" THEN @ ELSE "dying"]
        /\ UNCHANGED server
  /\ UNCHANGED <<Others, verdict, canceled, talked>>

\* Fault: RunNode returns without waiting for the process.
ReturnAtOnce(n) ==
  /\ run[n] = "stopping"
  /\ Goto(n, verdict[n])
  /\ UNCHANGED <<Others, verdict, canceled, talked, proc, server>>

\* <-exited, and the activity returns.
Return(n) ==
  /\ run[n] = "stopping"
  /\ Docker \/ proc[n] \in {"none", "gone"}
  /\ Goto(n, verdict[n])
  /\ UNCHANGED <<Others, verdict, canceled, talked, proc, server>>

RunNode(n) ==
  \/ Begin(n) \/ Check(n) \/ Start(n) \/ Drive(n) \/ ReportMetrics(n)
  \/ SeesExit(n) \/ Stop(n) \/ Return(n)

-----------------------------------------------------------------------------
(* The script's run.                                                       *)

\* The starter has ended, or a signal came.
RunEnds ==
  /\ script = "running"
  /\ script' = "worker"
  /\ UNCHANGED <<wf, awaited, results, gen, actVars, proc, server>>

Lost(act, ended) == [n \in Nodes |-> IF act[n] \in ended THEN act[n] ELSE "lost"]

\* The worker exits without waiting for its activities, and with it Temporal: what
\* the activities would still have done is not done.
StopWorker(now, then) ==
  /\ script = now
  /\ script' = then
  /\ wf' = IF wf \in {"ok", "failed"} THEN wf ELSE "lost"
  /\ gen' = Lost(gen, {"idle", "ok", "failed"})
  /\ run' = Lost(run, {"idle", "ok", "failed"})
  /\ UNCHANGED <<awaited, results, setup, file, verdict, canceled, talked, proc, server>>

\* stop_nodes, but not for docker, whose containers are kept, nor for local cosmos.
StopNodes(now, then) ==
  /\ script = now
  /\ script' = then
  /\ IF Checked /\ StartNode /\ ~Docker
     THEN /\ proc' = [n \in Nodes |-> IF proc[n] = "none" THEN "none" ELSE "gone"]
          /\ server' = [n \in Nodes |-> Nobody]
     ELSE UNCHANGED <<proc, server>>
  /\ UNCHANGED <<wf, awaited, results, gen, actVars>>

\* Fault: the nodes are stopped before the worker that starts them.
CleanupNodesFirst == StopNodes("worker", "nodes") \/ StopWorker("nodes", "done")

CleanupRunAll == StopWorker("worker", "nodes") \/ StopNodes("nodes", "done")

-----------------------------------------------------------------------------
(* Processes, containers and ports.                                        *)

Bind(n) ==
  /\ proc[n] = "starting"
  /\ ~Served(n)
  /\ proc' = [proc EXCEPT ![n] = "serving"]
  /\ server' = [server EXCEPT ![n] = n]
  /\ UNCHANGED <<wf, awaited, results, gen, actVars, script>>

\* A process exits: it cannot bind its port, it crashes.
Exit(n) ==
  /\ proc[n] \in {"starting", "serving"}
  /\ proc' = [proc EXCEPT ![n] = "gone"]
  /\ server' = Freed(n)
  /\ UNCHANGED <<wf, awaited, results, gen, actVars, script>>

\* Fault: a node that ignores SIGTERM is never killed.
DieNever(n) ==
  /\ FALSE
  /\ UNCHANGED vars

\* It ends on SIGTERM, or is killed after WaitDelay.
Die(n) ==
  /\ proc[n] = "dying"
  /\ proc' = [proc EXCEPT ![n] = "gone"]
  /\ server' = Freed(n)
  /\ UNCHANGED <<wf, awaited, results, gen, actVars, script>>

OldExits(n) ==
  /\ server[n] = Old
  /\ server' = [server EXCEPT ![n] = Nobody]
  /\ UNCHANGED <<wf, awaited, results, gen, actVars, script, proc>>

NodeStep(n) ==
  \/ GenDone(n) \/ GenFails(n) \/ RunNode(n) \/ DriveFails(n)
  \/ Bind(n) \/ Exit(n) \/ Die(n) \/ OldExits(n)

Next == Workflow \/ RunEnds \/ CleanupRunAll \/ \E n \in Nodes : NodeStep(n)

\* Activities end, by their own deadlines or by StartToCloseTimeout, and a node
\* told to stop is gone after WaitDelay while RunNode waits for it.
Fairness ==
  /\ WF_vars(Workflow)
  /\ \A n \in Nodes : /\ WF_vars(RunNode(n) \/ DriveFails(n))
                      /\ WF_vars(GenDone(n) \/ GenFails(n))
                      /\ WF_vars(run[n] = "stopping" /\ Die(n))
  /\ WF_vars(CleanupRunAll)

Spec == Init /\ [][Next]_vars /\ Fairness

-----------------------------------------------------------------------------
(* Properties.                                                             *)

\* A run that reports a result has measured the node it started, never one left
\* over from an earlier run: "the load would silently measure that chain instead
\* of the one generated here".  Local cosmos nodes have neither the port check nor a
\* docker run that refuses the port.
MeasuredOwn ==
  StartNode /\ (Checked \/ Docker) =>
    \A n \in Nodes : run[n] = "ok" => talked[n] \subseteq {n}

\* No node outlives the RunNode that started it: the activity returns only when
\* the process is gone or the container removed.  One whose RunNode was lost with the
\* worker does not outlive the script's run: "Nodes too: a worker stopped before its
\* activities finish leaves them running" - but for cosmos, which the script's
\* stop_nodes does not know.
NothingOutlives ==
  \A n \in Nodes :
    \/ run[n] \in {"ok", "failed"} /\ ~(Docker /\ KeepContainers)
    \/ script = "done" /\ Checked /\ StartNode /\ ~Docker
    => proc[n] \in {"none", "gone"}

\* The types hold, and a workflow that succeeds has every node's result, in node order,
\* and each node that sends load was answered by a node while it ran its whole load.
SuccessIsComplete ==
  /\ TypeOK
  /\ RunsNodes /\ wf = "ok" =>
       /\ results = [n \in Nodes |-> n]
       /\ \A n \in Loaded : file[n] = "whole" /\ talked[n] # {}

\* The workflow ends, although node processes may hang when told to stop, and if the
\* script's run was interrupted its cleanup does.
WorkflowEnds == <>(wf \in {"ok", "failed"} \/ (wf = "lost" /\ script = "done"))
=============================================================================
