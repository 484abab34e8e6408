--------------------------- MODULE RunNodesProofs ---------------------------
(***************************************************************************)
(* Proofs about RunNodes for any number of nodes and every configuration:  *)
(* the results are of the nodes this run started, no node outlives the run *)
(* that started it, and a successful workflow is complete.                 *)
(***************************************************************************)
EXTENDS RunNodes, TLAPS

-----------------------------------------------------------------------------
(* The inductive invariant, in the parts the properties need.              *)

\* RunNode holds the node it started, or is about to let go of it.
Holding == Driving \cup {"metrics", "stop", "stopping"}

\* The families that look at the port, and docker, which refuses one in use.
Guarded == StartNode /\ (Checked \/ Docker)

\* A port is served by its own node or an earlier one.  Of a guarded family the
\* earlier one is gone before the node is started, and never comes back.
PortInv ==
  /\ \A n \in Nodes : server[n] \in {n, Old, Nobody}
  /\ Guarded => \A n \in Nodes :
       /\ run[n] \in Holding \/ (run[n] = "start" /\ ~Docker) => server[n] # Old
       /\ talked[n] \subseteq {n}

\* A process exists from the start to the end of its RunNode, unless that is lost.
ProcInv ==
  /\ \A n \in Nodes :
       /\ run[n] \in {"idle", "begin", "check", "start"} => proc[n] = "none"
       /\ run[n] \in {"ok", "failed"} \/ (run[n] = "stopping" /\ Docker)
            => (Docker /\ KeepContainers) \/ proc[n] \in {"none", "gone"}
  /\ script = "done" /\ Checked /\ StartNode /\ ~Docker
       => \A n \in Nodes : proc[n] \in {"none", "gone"}

\* The phases follow each other: nothing signs once nodes run, and nothing is under
\* way once the worker is stopped.
FlowInv ==
  /\ wf \in {"layout", "patch", "gen"} => \A n \in Nodes : gen[n] = "idle"
  /\ wf = "await_gen" => \A i \in 1..(awaited - 1) : gen[i] = "ok"
  /\ wf \in {"layout", "patch", "gen", "await_gen", "run"} => \A n \in Nodes : run[n] = "idle"
  /\ wf \in {"run", "await_run", "ok"} => \A n \in Nodes : gen[n] # "running"
  /\ \A n \in Nodes : run[n] # "idle" => gen[n] # "running"
  /\ script \in {"nodes", "done"} =>
       /\ wf \in {"ok", "failed", "lost"}
       /\ \A n \in Nodes : run[n] \in {"idle", "ok", "failed", "lost"}

\* The results are those of the futures awaited so far.
ResultInv ==
  /\ wf \in {"layout", "patch", "gen", "await_gen", "run"} => results = <<>>
  /\ wf = "await_run" => /\ results = [i \in 1..(awaited - 1) |-> i]
                         /\ \A i \in 1..(awaited - 1) : run[i] = "ok"
  /\ RunsNodes /\ wf = "ok" => /\ results = [n \in Nodes |-> n]
                               /\ \A n \in Nodes : run[n] = "ok"

\* A node past the port wait has been answered, and one past the beginning has its
\* whole file.
LoadInv ==
  \A n \in Nodes :
    /\ \/ run[n] \in {"check", "start"} \cup Holding
       \/ run[n] = "ok" /\ n \in Loaded
       => file[n] = "whole"
    /\ \/ run[n] \in {"ready", "send", "wait", "final", "metrics"}
       \/ verdict[n] = "ok"
       \/ run[n] = "ok" /\ n \in Loaded
       => talked[n] # {}

IInv == TypeOK /\ PortInv /\ ProcInv /\ FlowInv /\ ResultInv /\ LoadInv

-----------------------------------------------------------------------------
(* Steps.                                                                  *)

\* No step changes the configuration.
LEMMA ConfigStays ==
  ASSUME [Next]_vars
  PROVE  UNCHANGED <<setup, Loaded, PreGenerate, Regenerate, RunsNodes, StartNode, Checked,
                     Reports, Docker, KeepContainers>>
<1>1. UNCHANGED setup
  BY Zenon DEF Next, Workflow, Layout, Patch, StartGen, AwaitGen, StartRuns, AwaitRun, RunEnds,
     CleanupRunAll, StopWorker, StopNodes, NodeStep, RunNode, GenDone, GenFails, Begin, Check,
     Start, Drive, ReportMetrics, Advance, SeesExit, Stop, Return, DriveFails, Bind, Exit, Die,
     OldExits, Others, actVars, vars
<1> QED
  BY <1>1 DEF Loaded, PreGenerate, Regenerate, RunsNodes, StartNode, Checked, Reports, Docker,
     KeepContainers

\* A process is started once, and gone when its RunNode has ended or the script has
\* stopped it.
LEMMA ProcStep == TypeOK /\ FlowInv /\ ProcInv /\ [Next]_vars => ProcInv'
<1> SUFFICES ASSUME TypeOK, FlowInv, ProcInv, [Next]_vars PROVE ProcInv'
  OBVIOUS
<1> USE DEF TypeOK, ProcInv, FlowInv, Driving, actVars
<1>0. UNCHANGED <<Loaded, RunsNodes, StartNode, Checked, Docker, KeepContainers>>
  BY ConfigStays
<1>1. ASSUME NEW n \in Nodes, NodeStep(n) PROVE ProcInv'
  <2>1. CASE Begin(n)
    BY <1>0, <2>1 DEF Begin, Goto, Others
  <2>2. CASE Check(n)
    BY <1>0, <2>2 DEF Check, Goto, Others, Served
  <2>3. CASE Start(n)
    BY <1>0, <2>3 DEF Start, Goto, Others, Served
  <2>4. CASE Drive(n)
    BY <1>0, <2>4 DEF Drive, Advance, Goto, Others, Answers, After, Served
  <2>5. CASE ReportMetrics(n)
    BY <1>0, <2>5 DEF ReportMetrics, Advance, Goto, Others, Answers, After, Served
  <2>6. CASE Stop(n)
    BY <1>0, <2>6 DEF Stop, Goto, Others, Freed
  <2>7. CASE Return(n)
    BY <1>0, <2>7 DEF Return, Goto, Others
  <2>8. CASE DriveFails(n)
    BY <1>0, <2>8 DEF DriveFails, Goto, Others
  <2>9. CASE Bind(n)
    BY <1>0, <2>9 DEF Bind, Served
  <2>10. CASE Exit(n)
    BY <1>0, <2>10 DEF Exit, Freed
  <2>11. CASE Die(n)
    BY <1>0, <2>11 DEF Die, Freed
  <2>12. CASE GenDone(n) \/ GenFails(n) \/ SeesExit(n) \/ OldExits(n)
    <3>1. UNCHANGED <<run, proc, script>>
      BY <2>12, Zenon DEF GenDone, GenFails, SeesExit, OldExits, Others
    <3> QED
      BY <1>0, <3>1
  <2> QED
    BY <1>1, <2>1, <2>2, <2>3, <2>4, <2>5, <2>6, <2>7, <2>8, <2>9, <2>10, <2>11, <2>12 DEF
       NodeStep, RunNode
<1>2. CASE StartRuns
  BY <1>0, <1>2 DEF StartRuns
<1>3. CASE RunEnds
  BY <1>0, <1>3 DEF RunEnds
<1>4. CASE StopWorker("worker", "nodes")
  BY <1>0, <1>4 DEF StopWorker, Lost
<1>5. CASE StopNodes("nodes", "done")
  BY <1>0, <1>5 DEF StopNodes
<1>6. CASE Layout \/ Patch \/ StartGen \/ AwaitGen \/ AwaitRun \/ UNCHANGED vars
  <2>1. UNCHANGED <<run, proc, script>>
    BY <1>6, Zenon DEF Layout, Patch, StartGen, AwaitGen, AwaitRun, vars
  <2> QED
    BY <1>0, <2>1
<1> QED
  BY <1>1, <1>2, <1>3, <1>4, <1>5, <1>6 DEF Next, Workflow, CleanupRunAll

\* No step of a guarded family lets an earlier run's node answer.
LEMMA PortStep == TypeOK /\ PortInv /\ [Next]_vars => PortInv'
<1> SUFFICES ASSUME TypeOK, PortInv, [Next]_vars PROVE PortInv'
  OBVIOUS
<1> USE RunAssumption DEF TypeOK, PortInv, Guarded, Holding, Driving, Old, Nobody, Nodes, actVars
<1>0. UNCHANGED <<Loaded, RunsNodes, StartNode, Checked, Docker, KeepContainers>>
  BY ConfigStays
<1>1. ASSUME NEW n \in Nodes, NodeStep(n) PROVE PortInv'
  <2>1. CASE Begin(n)
    BY <1>0, <2>1 DEF Begin, Goto, Others
  <2>2. CASE Check(n)
    BY <1>0, <2>2 DEF Check, Goto, Others, Served
  <2>3. CASE Start(n)
    <3>1. CASE ~StartNode
      BY <1>0, <2>3, <3>1 DEF Start, Goto, Others, Served
    <3>2. CASE StartNode /\ ~Docker
      BY <1>0, <2>3, <3>2 DEF Start, Goto, Others, Served
    <3>3. CASE StartNode /\ Docker
      BY <1>0, <2>3, <3>3 DEF Start, Goto, Others, Served
    <3> QED
      BY <3>1, <3>2, <3>3
  <2>4. CASE Drive(n)
    BY <1>0, <2>4 DEF Drive, Advance, Goto, Others, Answers, After, Served
  <2>5. CASE ReportMetrics(n)
    BY <1>0, <2>5 DEF ReportMetrics, Advance, Goto, Others, Answers, After, Served
  <2>6. CASE Stop(n)
    BY <1>0, <2>6 DEF Stop, Goto, Others, Freed
  <2>7. CASE Return(n)
    BY <1>0, <2>7 DEF Return, Goto, Others
  <2>8. CASE DriveFails(n)
    BY <1>0, <2>8 DEF DriveFails, Goto, Others
  <2>9. CASE Bind(n)
    BY <1>0, <2>9 DEF Bind, Served
  <2>10. CASE Exit(n)
    BY <1>0, <2>10 DEF Exit, Freed
  <2>11. CASE Die(n)
    BY <1>0, <2>11 DEF Die, Freed
  <2>12. CASE OldExits(n)
    BY <1>0, <2>12 DEF OldExits
  <2>13. CASE GenDone(n) \/ GenFails(n) \/ SeesExit(n)
    <3>1. UNCHANGED <<run, server, talked>>
      BY <2>13, Zenon DEF GenDone, GenFails, SeesExit, Others
    <3> QED
      BY <1>0, <3>1
  <2> QED
    BY <1>1, <2>1, <2>2, <2>3, <2>4, <2>5, <2>6, <2>7, <2>8, <2>9, <2>10, <2>11, <2>12, <2>13
       DEF NodeStep, RunNode
<1>2. CASE StartRuns
  BY <1>0, <1>2 DEF StartRuns
<1>3. CASE StopWorker("worker", "nodes")
  BY <1>0, <1>3 DEF StopWorker, Lost
<1>4. CASE StopNodes("nodes", "done")
  BY <1>0, <1>4 DEF StopNodes
<1>5. CASE Layout \/ Patch \/ StartGen \/ AwaitGen \/ AwaitRun \/ RunEnds \/ UNCHANGED vars
  <2>1. UNCHANGED <<run, server, talked>>
    BY <1>5, Zenon DEF Layout, Patch, StartGen, AwaitGen, AwaitRun, RunEnds, vars
  <2> QED
    BY <1>0, <2>1
<1> QED
  BY <1>1, <1>2, <1>3, <1>4, <1>5 DEF Next, Workflow, CleanupRunAll

\* The phases keep their order.
LEMMA FlowStep == TypeOK /\ FlowInv /\ [Next]_vars => FlowInv'
<1> SUFFICES ASSUME TypeOK, FlowInv, [Next]_vars PROVE FlowInv'
  OBVIOUS
<1> USE RunAssumption DEF TypeOK, FlowInv, Driving, Nodes, actVars
<1>0. UNCHANGED <<Loaded, RunsNodes, StartNode, Checked, Docker, KeepContainers>>
  BY ConfigStays
<1>1. ASSUME NEW n \in Nodes, NodeStep(n) PROVE FlowInv'
  <2>1. CASE GenDone(n)
    BY <1>0, <2>1 DEF GenDone
  <2>2. CASE GenFails(n)
    BY <1>0, <2>2 DEF GenFails
  <2>3. CASE Begin(n)
    BY <1>0, <2>3 DEF Begin, Goto, Others
  <2>4. CASE Check(n)
    BY <1>0, <2>4 DEF Check, Goto, Others, Served
  <2>5. CASE Start(n)
    <3>1. CASE ~StartNode
      BY <1>0, <2>5, <3>1 DEF Start, Goto, Others, Served
    <3>2. CASE StartNode /\ ~Docker
      BY <1>0, <2>5, <3>2 DEF Start, Goto, Others, Served
    <3>3. CASE StartNode /\ Docker
      BY <1>0, <2>5, <3>3 DEF Start, Goto, Others, Served
    <3> QED
      BY <3>1, <3>2, <3>3
  <2>6. CASE Drive(n)
    BY <1>0, <2>6 DEF Drive, Advance, Goto, Others, Answers, After, Served
  <2>7. CASE ReportMetrics(n)
    BY <1>0, <2>7 DEF ReportMetrics, Advance, Goto, Others, Answers, After, Served
  <2>8. CASE Stop(n)
    BY <1>0, <2>8 DEF Stop, Goto, Others, Freed
  <2>9. CASE Return(n)
    BY <1>0, <2>9 DEF Return, Goto, Others
  <2>10. CASE DriveFails(n)
    BY <1>0, <2>10 DEF DriveFails, Goto, Others
  <2>11. CASE SeesExit(n) \/ Bind(n) \/ Exit(n) \/ Die(n) \/ OldExits(n)
    <3>1. UNCHANGED <<wf, awaited, gen, run, script>>
      BY <2>11, Zenon DEF SeesExit, Bind, Exit, Die, OldExits, Others
    <3> QED
      BY <1>0, <3>1
  <2> QED
    BY <1>1, <2>1, <2>2, <2>3, <2>4, <2>5, <2>6, <2>7, <2>8, <2>9, <2>10, <2>11 DEF NodeStep,
       RunNode
<1>2. CASE Layout
  BY <1>0, <1>2 DEF Layout, Served
<1>3. CASE Patch
  BY <1>0, <1>3 DEF Patch, AfterGen
<1>4. CASE StartGen
  BY <1>0, <1>4 DEF StartGen
<1>5. CASE AwaitGen
  <2>1. CASE gen[awaited] = "failed"
    BY <1>0, <1>5, <2>1 DEF AwaitGen, Await
  <2>2. CASE gen[awaited] = "ok" /\ awaited = NumNodes
    <3>1. \A n \in Nodes : gen[n] = "ok"
      BY <1>5, <2>2 DEF AwaitGen
    <3> QED
      BY <1>0, <1>5, <2>2, <3>1 DEF AwaitGen, Await, AfterGen
  <2>3. CASE gen[awaited] = "ok" /\ awaited # NumNodes
    <3>1. \A i \in 1..awaited : gen[i] = "ok"
      BY <1>5, <2>3 DEF AwaitGen
    <3>2. awaited' = awaited + 1 /\ UNCHANGED <<wf, gen, run, script>>
      BY <1>5, <2>3 DEF AwaitGen, Await
    <3> QED
      BY <1>0, <2>3, <3>1, <3>2
  <2> QED
    BY <1>5, <2>1, <2>2, <2>3 DEF AwaitGen, Await
<1>6. CASE StartRuns
  BY <1>0, <1>6 DEF StartRuns
<1>7. CASE AwaitRun
  BY <1>0, <1>7 DEF AwaitRun, Await
<1>8. CASE RunEnds
  BY <1>0, <1>8 DEF RunEnds
<1>9. CASE StopWorker("worker", "nodes")
  BY <1>0, <1>9 DEF StopWorker, Lost
<1>10. CASE StopNodes("nodes", "done")
  BY <1>0, <1>10 DEF StopNodes
<1>11. CASE UNCHANGED vars
  <2>1. UNCHANGED <<wf, awaited, gen, run, script>>
    BY <1>11, Zenon DEF vars
  <2> QED
    BY <1>0, <2>1
<1> QED
  BY <1>1, <1>2, <1>3, <1>4, <1>5, <1>6, <1>7, <1>8, <1>9, <1>10, <1>11 DEF Next, Workflow,
     CleanupRunAll

\* Results are appended in node order.
LEMMA ResultStep == TypeOK /\ FlowInv /\ ResultInv /\ [Next]_vars => ResultInv'
<1> SUFFICES ASSUME TypeOK, FlowInv, ResultInv, [Next]_vars PROVE ResultInv'
  OBVIOUS
<1> USE RunAssumption DEF TypeOK, FlowInv, ResultInv, Driving, Nodes, actVars
<1>0. UNCHANGED <<Loaded, RunsNodes, StartNode, Checked, Docker, KeepContainers>>
  BY ConfigStays
<1>1. ASSUME NEW n \in Nodes, NodeStep(n) PROVE ResultInv'
  <2>1. CASE Begin(n)
    BY <1>0, <2>1 DEF Begin, Goto, Others
  <2>2. CASE Check(n)
    BY <1>0, <2>2 DEF Check, Goto, Others, Served
  <2>3. CASE Start(n)
    BY <1>0, <2>3 DEF Start, Goto, Others, Served
  <2>4. CASE Drive(n)
    BY <1>0, <2>4 DEF Drive, Advance, Goto, Others, Answers, After, Served
  <2>5. CASE ReportMetrics(n)
    BY <1>0, <2>5 DEF ReportMetrics, Advance, Goto, Others, Answers, After, Served
  <2>6. CASE Stop(n)
    BY <1>0, <2>6 DEF Stop, Goto, Others, Freed
  <2>7. CASE Return(n)
    BY <1>0, <2>7 DEF Return, Goto, Others
  <2>8. CASE DriveFails(n)
    BY <1>0, <2>8 DEF DriveFails, Goto, Others
  <2>9. CASE GenDone(n) \/ GenFails(n) \/ SeesExit(n) \/ Bind(n) \/ Exit(n) \/ Die(n) \/
     OldExits(n)
    <3>1. UNCHANGED <<wf, awaited, results, run>>
      BY <2>9, Zenon DEF GenDone, GenFails, SeesExit, Bind, Exit, Die, OldExits, Others
    <3> QED
      BY <1>0, <3>1
  <2> QED
    BY <1>1, <2>1, <2>2, <2>3, <2>4, <2>5, <2>6, <2>7, <2>8, <2>9 DEF NodeStep, RunNode
<1>2. CASE Layout
  BY <1>0, <1>2 DEF Layout, Served
<1>3. CASE Patch
  BY <1>0, <1>3 DEF Patch, AfterGen
<1>4. CASE StartGen
  BY <1>0, <1>4 DEF StartGen
<1>5. CASE AwaitGen
  BY <1>0, <1>5 DEF AwaitGen, Await, AfterGen
<1>6. CASE StartRuns
  BY <1>0, <1>6 DEF StartRuns
<1>7. CASE AwaitRun
  BY <1>0, <1>7 DEF AwaitRun, Await
<1>8. CASE StopWorker("worker", "nodes")
  BY <1>0, <1>8 DEF StopWorker, Lost
<1>9. CASE RunEnds \/ StopNodes("nodes", "done") \/ UNCHANGED vars
  <2>1. UNCHANGED <<wf, awaited, results, run>>
    BY <1>9, Zenon DEF RunEnds, StopNodes, vars
  <2> QED
    BY <1>0, <2>1
<1> QED
  BY <1>1, <1>2, <1>3, <1>4, <1>5, <1>6, <1>7, <1>8, <1>9 DEF Next, Workflow, CleanupRunAll

\* What a node has been through stays with it.
LEMMA LoadStep == TypeOK /\ FlowInv /\ LoadInv /\ [Next]_vars => LoadInv'
<1> SUFFICES ASSUME TypeOK, FlowInv, LoadInv, [Next]_vars PROVE LoadInv'
  OBVIOUS
<1> USE DEF TypeOK, FlowInv, LoadInv, Holding, Driving, actVars
<1>0. UNCHANGED <<Loaded, RunsNodes, StartNode, Checked, Docker, KeepContainers>>
  BY ConfigStays
<1>1. ASSUME NEW n \in Nodes, NodeStep(n) PROVE LoadInv'
  <2>1. CASE GenDone(n)
    BY <1>0, <2>1 DEF GenDone
  <2>2. CASE GenFails(n)
    BY <1>0, <2>2 DEF GenFails
  <2>3. CASE Begin(n)
    BY <1>0, <2>3 DEF Begin, Goto, Others
  <2>4. CASE Check(n)
    BY <1>0, <2>4 DEF Check, Goto, Others, Served
  <2>5. CASE Start(n)
    BY <1>0, <2>5 DEF Start, Goto, Others, Served
  <2>6. CASE Drive(n)
    <3>1. Served(n) => talked'[n] # {} \/ canceled[n]
      BY <2>6 DEF Drive, Advance, Answers
    <3>2. UNCHANGED file /\ run' = [run EXCEPT ![n] = After[run[n]]]
      BY <2>6, Zenon DEF Drive, Advance, Goto, Others
    <3>3. talked'[n] # {} /\ \A m \in Nodes \ {n} : talked'[m] = talked[m]
      BY <2>6 DEF Drive, Advance, Answers
    <3>4. \A m \in Nodes : m # n \/ After[run[n]] # "stop" => verdict'[m] = verdict[m]
      BY <2>6 DEF Drive, Advance
    <3> QED
      BY <1>0, <2>6, <3>2, <3>3, <3>4 DEF Drive
  <2>7. CASE ReportMetrics(n)
    BY <1>0, <2>7 DEF ReportMetrics, Advance, Goto, Others, Answers, After, Served
  <2>8. CASE Stop(n)
    BY <1>0, <2>8 DEF Stop, Goto, Others, Freed
  <2>9. CASE Return(n)
    BY <1>0, <2>9 DEF Return, Goto, Others
  <2>10. CASE DriveFails(n)
    BY <1>0, <2>10 DEF DriveFails, Goto, Others
  <2>11. CASE SeesExit(n) \/ Bind(n) \/ Exit(n) \/ Die(n) \/ OldExits(n)
    <3>1. UNCHANGED <<run, file, verdict, talked>>
      BY <2>11, Zenon DEF SeesExit, Bind, Exit, Die, OldExits, Others
    <3> QED
      BY <1>0, <3>1
  <2> QED
    BY <1>1, <2>1, <2>2, <2>3, <2>4, <2>5, <2>6, <2>7, <2>8, <2>9, <2>10, <2>11 DEF NodeStep,
       RunNode
<1>2. CASE StartRuns
  BY <1>0, <1>2 DEF StartRuns
<1>3. CASE StopWorker("worker", "nodes")
  BY <1>0, <1>3 DEF StopWorker, Lost
<1>4. CASE Layout \/ Patch \/ StartGen \/ AwaitGen \/ AwaitRun \/ RunEnds \/ StopNodes("nodes",
   "done") \/ UNCHANGED vars
  <2>1. UNCHANGED <<run, file, verdict, talked>>
    BY <1>4, Zenon DEF Layout, Patch, StartGen, AwaitGen, AwaitRun, RunEnds, StopNodes, vars
  <2> QED
    BY <1>0, <2>1
<1> QED
  BY <1>1, <1>2, <1>3, <1>4 DEF Next, Workflow, CleanupRunAll

\* Every step keeps the types.
LEMMA TypeStep == TypeOK /\ [Next]_vars => TypeOK'
<1> SUFFICES ASSUME TypeOK, [Next]_vars PROVE TypeOK'
  OBVIOUS
<1> USE DEF TypeOK, Driving, actVars
<1>1. ASSUME NEW n \in Nodes, NodeStep(n) PROVE TypeOK'
  <2>1. CASE GenDone(n)
    BY <2>1 DEF GenDone
  <2>2. CASE GenFails(n)
    BY <2>2 DEF GenFails
  <2>3. CASE Begin(n)
    BY <2>3 DEF Begin, Goto, Others
  <2>4. CASE Check(n)
    BY <2>4 DEF Check, Goto, Others, Served
  <2>5. CASE Start(n)
    BY <2>5 DEF Start, Goto, Others, Served
  <2>6. CASE Drive(n)
    BY <2>6 DEF Drive, Advance, Goto, Others, Answers, After, Served
  <2>7. CASE ReportMetrics(n)
    BY <2>7 DEF ReportMetrics, Advance, Goto, Others, Answers, After, Served
  <2>8. CASE SeesExit(n)
    BY <2>8 DEF SeesExit, Others
  <2>9. CASE Stop(n)
    BY <2>9 DEF Stop, Goto, Others, Freed
  <2>10. CASE Return(n)
    BY <2>10 DEF Return, Goto, Others
  <2>11. CASE DriveFails(n)
    BY <2>11 DEF DriveFails, Goto, Others
  <2>12. CASE Bind(n)
    BY <2>12 DEF Bind, Served
  <2>13. CASE Exit(n)
    BY <2>13 DEF Exit, Freed
  <2>14. CASE Die(n)
    BY <2>14 DEF Die, Freed
  <2>15. CASE OldExits(n)
    BY <2>15 DEF OldExits
  <2> QED
    BY <1>1, <2>1, <2>2, <2>3, <2>4, <2>5, <2>6, <2>7, <2>8, <2>9, <2>10, <2>11, <2>12, <2>13,
       <2>14, <2>15 DEF NodeStep, RunNode
<1>2. CASE Layout
  BY <1>2 DEF Layout, Served
<1>3. CASE Patch
  BY <1>3 DEF Patch, AfterGen
<1>4. CASE StartGen
  BY <1>4 DEF StartGen
<1>5. CASE AwaitGen
  <2>1. awaited' \in Nodes
    BY <1>5, RunAssumption DEF AwaitGen, Await, Nodes
  <2> QED
    BY <1>5, <2>1 DEF AwaitGen, Await, AfterGen
<1>6. CASE StartRuns
  BY <1>6 DEF StartRuns
<1>7. CASE AwaitRun
  <2>1. awaited' \in Nodes
    BY <1>7, RunAssumption DEF AwaitRun, Await, Nodes
  <2> QED
    BY <1>7, <2>1 DEF AwaitRun, Await
<1>8. CASE RunEnds
  BY <1>8 DEF RunEnds
<1>9. CASE StopWorker("worker", "nodes")
  BY <1>9 DEF StopWorker, Lost
<1>10. CASE StopNodes("nodes", "done")
  BY <1>10 DEF StopNodes
<1>11. CASE UNCHANGED vars
  BY <1>11 DEF vars
<1> QED
  BY <1>1, <1>2, <1>3, <1>4, <1>5, <1>6, <1>7, <1>8, <1>9, <1>10, <1>11 DEF Next, Workflow,
     CleanupRunAll

-----------------------------------------------------------------------------
(* Theorems.                                                               *)

\* IInv holds initially, and every step preserves it.
LEMMA Inductive == Spec => []IInv
<1>1. Init => IInv
  <2> SUFFICES ASSUME Init PROVE IInv
    OBVIOUS
  <2>1. TypeOK
    BY RunAssumption DEF Init, TypeOK, Nodes, Old, Nobody
  <2>2. PortInv
    BY DEF Init, PortInv, Holding, Driving, Old, Nobody
  <2>3. ProcInv /\ FlowInv /\ ResultInv /\ LoadInv
    BY DEF Init, ProcInv, FlowInv, ResultInv, LoadInv, Holding, Driving
  <2> QED
    BY <2>1, <2>2, <2>3 DEF IInv
<1>2. IInv /\ [Next]_vars => IInv'
  BY TypeStep, PortStep, ProcStep, FlowStep, ResultStep, LoadStep DEF IInv
<1> QED
  BY <1>1, <1>2, PTL DEF Spec

\* The variables keep their types, for any number of nodes and every configuration.
THEOREM TypesHold == Spec => []TypeOK
<1>1. IInv => TypeOK
  BY DEF IInv
<1> QED
  BY <1>1, Inductive, PTL

\* A RunNode of a family that checks the port, or in docker, which reports a result was
\* answered by the node it started and by no other: PreStartCheck refuses a port that is
\* served, docker run does, and an earlier run's node that is gone does not come back.
THEOREM RunMeasuresItsNodes == Spec => []MeasuredOwn
<1>1. IInv => MeasuredOwn
  BY DEF IInv, PortInv, Guarded, MeasuredOwn
<1> QED
  BY <1>1, Inductive, PTL

\* When RunNode has returned, its process is gone or its container removed; when the
\* script has cleaned up, so is every node whose RunNode was lost with the worker.
THEOREM NodesAreStopped == Spec => []NothingOutlives
<1>1. IInv => NothingOutlives
  BY DEF IInv, ProcInv, NothingOutlives
<1> QED
  BY <1>1, Inductive, PTL

\* A workflow that succeeds has the result of every node, in node order, and every node
\* that sends load read a whole file and was answered, however the activities and the
\* loop over their futures interleave.
THEOREM WorkflowIsComplete == Spec => []SuccessIsComplete
<1>1. IInv => SuccessIsComplete
  <2> SUFFICES ASSUME IInv, RunsNodes, wf = "ok"
               PROVE  /\ results = [n \in Nodes |-> n]
                      /\ \A n \in Loaded : file[n] = "whole" /\ talked[n] # {}
    BY DEF IInv, SuccessIsComplete
  <2>1. Loaded \subseteq Nodes
    BY RunAssumption DEF IInv, TypeOK, Loaded, SetupType
  <2> QED
    BY <2>1 DEF IInv, ResultInv, LoadInv
<1> QED
  BY <1>1, Inductive, PTL

=============================================================================
