---------------------------- MODULE MCGenerateLoad ----------------------------
(***************************************************************************)
(* The configs of GenerateLoad's runs.                                     *)
(***************************************************************************)
EXTENDS GenerateLoad

\* Networks of up to three nodes, no percentage of hot recipients.
Networks(families, runners) ==
  [ChainFamily : families, Docker : runners, StartNode : BOOLEAN, RemoteRPC : BOOLEAN,
   Validators : 1..3, Fullnodes : 0..1, ValidatorGenerateLoad : BOOLEAN, TempoLegacyTxs : BOOLEAN,
   HotRecipientPercent : {0}, NumAccounts : {1, 2}, NumTxs : {2}]

Small(runners) ==
  {s \in Networks(Families, runners) :
     /\ s.Validators + s.Fullnodes <= 3
     /\ s.NumAccounts = 2 => s.Validators + s.Fullnodes = 2}

\* Legacy transactions on Tempo's docker network, and every other config.
DockerTempo == {s \in Small({TRUE}) : s.ChainFamily = "tempo" /\ s.TempoLegacyTxs}
OtherNetworks == Small(BOOLEAN) \ DockerTempo

One == [ChainFamily |-> "reth", Docker |-> FALSE, StartNode |-> TRUE, RemoteRPC |-> FALSE,
        Validators |-> 1, Fullnodes |-> 0, ValidatorGenerateLoad |-> TRUE, TempoLegacyTxs |-> FALSE,
        HotRecipientPercent |-> 0, NumAccounts |-> 3, NumTxs |-> 1]

\* One node, signed by the shared signer and by Tempo's.
BothSigners == {One, [One EXCEPT !.ChainFamily = "tempo"]}

\* Ten and more transactions of one account, hot in part.
Hot == {[One EXCEPT !.ChainFamily = f, !.NumAccounts = 1, !.NumTxs = t, !.HotRecipientPercent = p] :
          f \in {"cosmos", "tempo"}, t \in {9, 12}, p \in {0, 1, 10, 33, 50, 67, 99, 100, 101}}

AllSpecs == OtherNetworks \cup BothSigners \cup Hot
===============================================================================
