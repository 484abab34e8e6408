------------------------------- MODULE MCWaits -------------------------------
(***************************************************************************)
(* The cases of the run of Waits.                                          *)
(***************************************************************************)
EXTENDS Waits

\* Each loop with a prompt node and with one that is slow and fails; for a shared
\* chain also backends that are behind, and a chain that never stops.
AllCases ==
  {"port", "height"} \X {{}, {"failing", "slow"}}
    \cup {<<"idle", {"failing", "slow"}>>}
    \cup {"own"} \X {{}, {"failing", "slow"}, {"lagging"}, {"endless", "failing"}}
=============================================================================
