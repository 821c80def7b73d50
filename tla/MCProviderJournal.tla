------------------------- MODULE MCProviderJournal -------------------------
(* Small instances of the provider journal for TLC. *)
EXTENDS ProviderJournal, TLC

CONSTANTS a1, a2, b1, taskA, taskB

MCTaskOf == a1 :> taskA @@ a2 :> taskA @@ b1 :> taskB
MCOneTask == a1 :> taskA @@ a2 :> taskA

MCSequential ==
  {[provider |-> p, concurrent |-> FALSE] : p \in {"plain", "receipts", "siwc"}}
MCConcurrent == {[provider |-> "plain", concurrent |-> TRUE]}
=============================================================================
