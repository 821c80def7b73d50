----------------------------- MODULE MCGovernor -----------------------------
(* Small instances of the account governor for TLC. *)
EXTENDS Governor, TLC

CONSTANTS a1, a2, b1, taskA, taskB

MCTaskOf == a1 :> taskA @@ a2 :> taskA @@ b1 :> taskB
MCDistinctIDs == a1 :> 1 @@ a2 :> 2 @@ b1 :> 3
MCSharedID == a1 :> 1 @@ a2 :> 2 @@ b1 :> 1

Answer(class, retryIn, resetIn) ==
  [class |-> class, retryIn |-> retryIn, resetIn |-> resetIn]
MCAllOutcomes ==
  {Answer("success", 0, 0), Answer("rate_capacity", 1, 2),
   Answer("authentication_expired", 0, 0), Answer("security_signal", 0, 0)}
MCReceiptOutcomes ==
  {Answer("success", 0, 0), Answer("rate_capacity", 1, 0)}

Receipt(id, class) == [id |-> id, class |-> class]
MCReceiptSets ==
  {<<Receipt(1, "success")>>, <<Receipt(2, "success")>>,
   <<Receipt(3, "rate_capacity")>>,
   <<Receipt(1, "security_signal"), Receipt(4, "success")>>}

\* One window that three starts an interval apart still overfill.
MCOneWindow == <<[span |-> 3, ceiling |-> 2]>>
MCTwoWindows == <<[span |-> 3, ceiling |-> 2], [span |-> 2, ceiling |-> 1]>>
MCBackoff == <<1, 2>>

Reading(remaining, resetIn, limited) ==
  [remaining |-> remaining, resetIn |-> resetIn, cooldownIn |-> 0,
   retryAfter |-> 0, limited |-> limited, upstream |-> "unknown",
   routeChanged |-> FALSE]
MCSnapshots ==
  {Reading(NoValue, 2, TRUE),
   [Reading(2, 0, FALSE) EXCEPT !.upstream = "closed", !.retryAfter = 1],
   [Reading(NoValue, 0, FALSE) EXCEPT !.upstream = "open", !.cooldownIn = 1]}
MCRouteChange == {[Reading(NoValue, 0, FALSE) EXCEPT !.routeChanged = TRUE]}
MCNone == {}
=============================================================================
