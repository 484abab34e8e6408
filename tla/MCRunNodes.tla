----------------------------- MODULE MCRunNodes -----------------------------
(***************************************************************************)
(* Configurations for the run of RunNodes.                                 *)
(***************************************************************************)
EXTENDS RunNodes

Local ==
  [Loaded |-> {1, 2, 3}, PreGenerate |-> TRUE, Regenerate |-> FALSE, RunsNodes |-> TRUE,
   StartNode |-> TRUE, Checked |-> TRUE, Reports |-> FALSE, Docker |-> FALSE,
   KeepContainers |-> FALSE, LeftOver |-> {1}]

\* Local processes of a reused layout, one port served by an earlier run's node, with
\* and without the port check; a fresh layout; containers, one port taken, kept or not; nodes managed
\* elsewhere, one of them without load; files generated before; no run at all.
AllSetups ==
  {Local,
   [Local EXCEPT !.Checked = FALSE, !.Loaded = {1, 2}],
   [Local EXCEPT !.Regenerate = TRUE, !.Reports = TRUE],
   [Local EXCEPT !.Loaded = {2, 3}, !.PreGenerate = FALSE],
   [Local EXCEPT !.Docker = TRUE, !.Checked = FALSE, !.Loaded = {2, 3}, !.LeftOver = {2}],
   [Local EXCEPT !.Docker = TRUE, !.Checked = FALSE, !.KeepContainers = TRUE],
   [Local EXCEPT !.StartNode = FALSE, !.Loaded = {1, 3}, !.LeftOver = {1, 2, 3}],
   [Local EXCEPT !.RunsNodes = FALSE]}
=============================================================================
