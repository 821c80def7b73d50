----------------------- MODULE MCWorkUnitScheduler -----------------------
(* Small instances of the Work Unit scheduler for TLC. *)
EXTENDS WorkUnitScheduler, TLC

CONSTANTS s1, s2, s3, e1, s4

\* Three shared units, an exclusive one that needs the first of them, and a
\* shared one that needs the exclusive one.
MCRank ==
  [u \in Units |-> (s1 :> 1 @@ s2 :> 2 @@ s3 :> 3 @@ e1 :> 4 @@ s4 :> 5)[u]]
MCNeeds ==
  [u \in Units |-> CASE u = e1 -> {s1} [] u = s4 -> {e1} [] OTHER -> {}]
=============================================================================
