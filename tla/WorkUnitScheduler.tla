------------------------- MODULE WorkUnitScheduler -------------------------
(***************************************************************************)
(* The Work Unit chain of one task (internal/workunit): the bounded        *)
(* shared/exclusive scheduler, one worker goroutine per dispatched unit,   *)
(* the durable unit lifecycle of internal/state/workunits.go, process      *)
(* death, and the recovery transitions of a resume.                        *)
(*                                                                         *)
(* A step of the scheduler's main loop is one store transaction, one       *)
(* dispatch under dispatchMu, or one receive from settleCh.  A worker's    *)
(* durable outcome and its settle event are one step: the channel has a    *)
(* slot for every active unit, and events are received in any order.       *)
(***************************************************************************)
EXTENDS Naturals, Sequences, FiniteSets

CONSTANTS
  Units,
  Rank,          \* [Units -> Nat], injective: creation order
  Needs,         \* [Units -> SUBSET Units]: dependencies and the parent unit
  Exclusive,     \* units whose tool envelope is not provably read-only
  Concurrency,   \* the operator's bound
  MaxRestarts    \* bound on resumes

ASSUME SchedulerAssumption ==
  /\ IsFiniteSet(Units) /\ Exclusive \subseteq Units
  /\ Rank \in [Units -> Nat]
  /\ \A u, v \in Units : Rank[u] = Rank[v] => u = v
  /\ Needs \in [Units -> SUBSET Units]
  /\ Concurrency \in 1..4 /\ MaxRestarts \in Nat

\* topologicalDefinitions puts what a unit needs before it.
ASSUME CreationOrder == \A u \in Units : \A v \in Needs[u] : Rank[v] < Rank[u]

VARIABLES
  proc,          \* "down", "recovering", "defining", "scheduling", "parent", "finished"
  status,        \* work_units.status, "none" for no row
  approval,      \* units blocked with a reason that names an approval
  pending,       \* units with an approval awaiting the operator
  unresolved,    \* units with a tool attempt that is not settled
  at,            \* where the main loop is
  todo,          \* the units it still has to go through
  active, activeExclusive,
  stop,          \* a stop condition is set
  worker,        \* the worker of each unit
  canceledOutcome,
  events,        \* settle events not yet received
  ctxDone,       \* the process was told to stop
  restarts

storeVars == <<status, approval, pending, unresolved>>
loopVars == <<at, todo, active, activeExclusive, stop>>
vars == <<proc, storeVars, loopVars, worker, canceledOutcome, events, ctxDone,
          restarts>>

WorkUnitStates == {"none", "created", "ready", "running", "completed", "failed",
                   "blocked", "uncertain"}

\* The units whose loop is executing.
Running == {u \in Units : worker[u] = "running"}

\* The units with a worker that has not sent its settle event.
Workers == {u \in Units : worker[u] # "none"}

\* u comes first in S in the creation order.
First(u, S) == u \in S /\ \A v \in S : Rank[u] <= Rank[v]

openUnits == {u \in Units : status[u] \notin {"none", "completed"}}

\* Mutant: a dependency that has run is good enough.
readySettled(u) ==
  /\ status[u] \in {"created", "ready"}
  /\ \A v \in Needs[u] : status[v] \in {"completed", "failed", "blocked"}

ready(u) ==
  /\ status[u] \in {"created", "ready"}
  /\ \A v \in Needs[u] : status[v] = "completed"

ReadyWorkUnits == {u \in Units : ready(u)}

-----------------------------------------------------------------------------
(* Creating the units.                                                      *)

\* EnsureDefinitions creates the missing units, one transaction each, in
\* dependency order, before any unit runs.
CreateWorkUnit ==
  LET missing == {u \in Units : status[u] = "none"} IN
  /\ proc = "defining" /\ ~ctxDone
  /\ \E u \in Units : First(u, missing) /\ status' = [status EXCEPT ![u] = "created"]
  /\ UNCHANGED <<proc, approval, pending, unresolved, loopVars, worker,
                 canceledOutcome, events, ctxDone, restarts>>

\* A store error ends the command.
DefinitionsFail ==
  /\ proc = "defining" /\ proc' = "down"
  /\ UNCHANGED <<storeVars, loopVars, worker, canceledOutcome, events, ctxDone,
                 restarts>>

\* RunAll: a new scheduler.
RunAll ==
  /\ proc = "defining" /\ \A u \in Units : status[u] # "none"
  /\ proc' = "scheduling" /\ at' = "top" /\ todo' = {}
  /\ active' = 0 /\ activeExclusive' = FALSE /\ stop' = FALSE
  /\ canceledOutcome' = FALSE
  /\ UNCHANGED <<storeVars, worker, events, ctxDone, restarts>>

-----------------------------------------------------------------------------
(* The main loop.                                                           *)

\* The stop checks at the head of the loop, then the list of units that wait
\* for an approval.
Top ==
  /\ proc = "scheduling" /\ at = "top"
  /\ \/ /\ ctxDone \/ canceledOutcome \/ stop
        /\ at' = "draining" /\ stop' = TRUE
        /\ UNCHANGED todo
     \/ /\ ~ctxDone /\ ~canceledOutcome /\ ~stop
        /\ at' = "resolving"
        /\ todo' = {u \in Units : status[u] = "blocked" /\ u \in approval}
        /\ UNCHANGED stop
  /\ UNCHANGED <<proc, storeVars, active, activeExclusive, worker,
                 canceledOutcome, events, ctxDone, restarts>>

\* resolveBlockedWorkUnits, one unit.
ResolveBlocked(u) ==
  /\ proc = "scheduling" /\ at = "resolving" /\ First(u, todo) /\ ~ctxDone
  /\ todo' = todo \ {u}
  /\ IF u \in pending THEN UNCHANGED <<status, approval>>
     ELSE /\ status' = [status EXCEPT ![u] = "ready"]
          /\ approval' = approval \ {u}
  /\ UNCHANGED <<proc, pending, unresolved, at, active, activeExclusive, stop,
                 worker, canceledOutcome, events, ctxDone, restarts>>

\* Any store call of the main loop may fail, and all do once the context ended.
StoreFails ==
  /\ proc = "scheduling" /\ at = "resolving"
  /\ at' = "draining" /\ stop' = TRUE /\ todo' = {}
  /\ UNCHANGED <<proc, storeVars, active, activeExclusive, worker,
                 canceledOutcome, events, ctxDone, restarts>>

\* Mutant: only the ready list is consulted, not the unit that is running.
mayFillReadyList == active < Concurrency

mayFill == ~activeExclusive /\ active < Concurrency

\* The ready list is read and decides: return, wait, the first exclusive unit
\* once nothing is active, or shared units up to the bound.
ReadReady ==
  LET exclusives == ReadyWorkUnits \cap Exclusive IN
  /\ proc = "scheduling" /\ at = "resolving" /\ todo = {} /\ ~ctxDone
  /\ \/ /\ ReadyWorkUnits = {} /\ active = 0
        /\ at' = "returned" /\ UNCHANGED todo
     \/ /\ exclusives # {} /\ active = 0
        /\ at' = "dispatching"
        /\ \E u \in Units : First(u, exclusives) /\ todo' = {u}
     \/ /\ ReadyWorkUnits # {} /\ exclusives = {} /\ mayFill
        /\ at' = "dispatching" /\ todo' = ReadyWorkUnits
     \/ /\ \/ active > 0 /\ (ReadyWorkUnits = {} \/ exclusives # {})
           \/ ReadyWorkUnits # {} /\ exclusives = {} /\ ~mayFill
        /\ at' = "settling" /\ UNCHANGED todo
  /\ UNCHANGED <<proc, storeVars, active, activeExclusive, stop, worker,
                 canceledOutcome, events, ctxDone, restarts>>

mayDispatch == ~ctxDone /\ ~canceledOutcome

fillEnds(u) == todo = {u} \/ u \in Exclusive \/ active + 1 >= Concurrency

\* dispatch under dispatchMu: created, ready, running, then the worker.
Dispatch(u) ==
  /\ proc = "scheduling" /\ at = "dispatching" /\ First(u, todo) /\ mayDispatch
  /\ status' = [status EXCEPT ![u] = "running"]
  /\ worker' = [worker EXCEPT ![u] = "running"]
  /\ active' = active + 1
  /\ activeExclusive' = (activeExclusive \/ u \in Exclusive)
  /\ todo' = IF fillEnds(u) THEN {} ELSE todo \ {u}
  /\ at' = IF fillEnds(u) THEN "top" ELSE at
  /\ UNCHANGED <<proc, approval, pending, unresolved, stop, canceledOutcome,
                 events, ctxDone, restarts>>

\* A cancellation or a failed transition, before or after created -> ready.
DispatchFails(u) ==
  /\ proc = "scheduling" /\ at = "dispatching" /\ First(u, todo)
  /\ \/ UNCHANGED status
     \/ /\ status[u] = "created" /\ mayDispatch
        /\ status' = [status EXCEPT ![u] = "ready"]
  /\ at' = "draining" /\ stop' = TRUE /\ todo' = {}
  /\ UNCHANGED <<proc, approval, pending, unresolved, active, activeExclusive,
                 worker, canceledOutcome, events, ctxDone, restarts>>

\* One event leaves the channel.
Receive(i) ==
  events' = [j \in 1..(Len(events) - 1) |-> IF j < i THEN events[j]
                                             ELSE events[j + 1]]

\* settle: the first outcome other than completed stops the chain.
Settle ==
  /\ proc = "scheduling" /\ at = "settling"
  /\ \E i \in DOMAIN events :
       /\ Receive(i)
       /\ activeExclusive' = (activeExclusive /\ ~events[i].exclusive)
       /\ stop' = (stop \/ events[i].outcome # "completed")
  /\ active' = active - 1
  /\ at' = "top"
  /\ UNCHANGED <<proc, storeVars, todo, worker, canceledOutcome, ctxDone,
                 restarts>>

\* Mutant: the chain returns as soon as it stops.
DrainNothing ==
  /\ proc = "scheduling" /\ at = "draining"
  /\ at' = "returned"
  /\ UNCHANGED <<proc, storeVars, todo, active, activeExclusive, stop, worker,
                 canceledOutcome, events, ctxDone, restarts>>

Drain ==
  /\ proc = "scheduling" /\ at = "draining"
  /\ \/ /\ active > 0
        /\ \E i \in DOMAIN events : Receive(i)
        /\ active' = active - 1 /\ UNCHANGED at
     \/ /\ active = 0 /\ at' = "returned"
        /\ UNCHANGED <<active, events>>
  /\ UNCHANGED <<proc, storeVars, todo, activeExclusive, stop, worker,
                 canceledOutcome, ctxDone, restarts>>

\* Mutant: nothing ready is taken for nothing open.
gateIfNoneReady == ReadyWorkUnits = {}

gateClosed == openUnits = {}

\* runWorkUnitChain returns: the parent loop runs if RunAll returned no error
\* and GateParent finds no open unit, else the command exits.
ChainReturns ==
  /\ proc = "scheduling" /\ at = "returned"
  /\ proc' \in {"down"} \cup
       (IF ~stop /\ ~ctxDone /\ gateClosed THEN {"parent"} ELSE {})
  /\ UNCHANGED <<storeVars, loopVars, worker, canceledOutcome, events, ctxDone,
                 restarts>>

-----------------------------------------------------------------------------
(* The workers.                                                             *)

\* UnitOutcome, and the event of a worker that returns without one.
UnitOutcomes == {"completed", "failed", "blocked", "uncertain", "canceled",
                 "interrupted"}

Event(u, outcome) == [unit |-> u, outcome |-> outcome, exclusive |-> u \in Exclusive]

\* The end of a worker: its unit's durable transition, then the settle event.
Settled(u, to, outcome) ==
  /\ worker[u] = "running"
  /\ status' = [status EXCEPT ![u] = to]
  /\ worker' = [worker EXCEPT ![u] = "none"]
  /\ events' = Append(events, Event(u, outcome))
  /\ UNCHANGED <<proc, loopVars, canceledOutcome, ctxDone, restarts>>

\* The loop completed and the unit's latest verification passed.
UnitCompletes(u) ==
  /\ ~ctxDone /\ Settled(u, "completed", "completed")
  /\ UNCHANGED <<approval, pending, unresolved>>

UnitFails(u) ==
  /\ ~ctxDone /\ Settled(u, "failed", "failed")
  /\ UNCHANGED <<approval, pending, unresolved>>

\* Blocked: on an approval, of this unit's own action or another's, or because
\* the verification did not pass.
UnitBlocks(u) ==
  /\ ~ctxDone /\ Settled(u, "blocked", "blocked")
  /\ \/ UNCHANGED <<approval, pending>>
     \/ approval' = approval \cup {u} /\ pending' \in {pending, pending \cup {u}}
  /\ UNCHANGED unresolved

UnitUncertain(u) ==
  /\ ~ctxDone /\ Settled(u, "uncertain", "uncertain")
  /\ unresolved' \in {unresolved, unresolved \cup {u}}
  /\ UNCHANGED <<approval, pending>>

\* Mutant: an error path returns without the event.
UnitInterruptedSilently(u) ==
  /\ worker[u] = "running"
  /\ worker' = [worker EXCEPT ![u] = "none"]
  /\ UNCHANGED <<proc, storeVars, loopVars, canceledOutcome, events, ctxDone,
                 restarts>>

\* A run error, an unknown outcome or a failed transition: the unit stays
\* running for recovery.
UnitInterrupted(u) ==
  /\ Settled(u, "running", "interrupted")
  /\ UNCHANGED <<approval, pending, unresolved>>

\* recordCanceledOutcome, before the settle event is sent.
RecordCanceledOutcome(u) ==
  /\ worker[u] = "running"
  /\ worker' = [worker EXCEPT ![u] = "canceled"]
  /\ canceledOutcome' = TRUE
  /\ UNCHANGED <<proc, storeVars, loopVars, events, ctxDone, restarts>>

SendCanceled(u) ==
  /\ worker[u] = "canceled"
  /\ worker' = [worker EXCEPT ![u] = "none"]
  /\ events' = Append(events, Event(u, "canceled"))
  /\ UNCHANGED <<proc, storeVars, loopVars, canceledOutcome, ctxDone, restarts>>

-----------------------------------------------------------------------------
(* The operator, process death and resume.                                  *)

\* runstead decide, in a process of its own.
ResolveApproval(u) ==
  /\ u \in pending /\ pending' = pending \ {u}
  /\ UNCHANGED <<proc, status, approval, unresolved, loopVars, worker,
                 canceledOutcome, events, ctxDone, restarts>>

CancelContext ==
  /\ proc \in {"defining", "scheduling"} /\ ~ctxDone /\ ctxDone' = TRUE
  /\ UNCHANGED <<proc, storeVars, loopVars, worker, canceledOutcome, events,
                 restarts>>

\* The process dies: what is not in the store is gone.
Die ==
  /\ proc \notin {"down", "finished"} /\ proc' = "down"
  /\ worker' = [u \in Units |-> "none"]
  /\ at' = "top" /\ todo' = {} /\ active' = 0 /\ activeExclusive' = FALSE
  /\ stop' = FALSE /\ canceledOutcome' = FALSE /\ events' = << >>
  /\ UNCHANGED <<storeVars, ctxDone, restarts>>

\* resume --workunits: recovery settles what tool attempts it can, and
\* ResetInterruptedWorkUnits makes running units ready in one transaction.
ResumeChain ==
  /\ proc = "down" /\ restarts < MaxRestarts
  /\ restarts' = restarts + 1 /\ proc' = "recovering" /\ ctxDone' = FALSE
  /\ unresolved' \in SUBSET unresolved
  /\ status' = [u \in Units |-> IF status[u] = "running" THEN "ready"
                                ELSE status[u]]
  /\ todo' = {u \in Units : status[u] = "uncertain"}
  /\ UNCHANGED <<approval, pending, at, active, activeExclusive, stop, worker,
                 canceledOutcome, events>>

\* ReconcileUncertainWorkUnits, one unit.
ReconcileUncertain(u) ==
  /\ proc = "recovering" /\ First(u, todo)
  /\ todo' = todo \ {u}
  /\ status' = IF u \in unresolved THEN status
               ELSE [status EXCEPT ![u] = "ready"]
  /\ UNCHANGED <<proc, approval, pending, unresolved, at, active,
                 activeExclusive, stop, worker, canceledOutcome, events, ctxDone,
                 restarts>>

RecoveryDone ==
  /\ proc = "recovering" /\ todo = {} /\ proc' = "defining"
  /\ UNCHANGED <<storeVars, loopVars, worker, canceledOutcome, events, ctxDone,
                 restarts>>

\* resume without --workunits: refused while a persisted unit is open.
ResumeParent ==
  /\ proc = "down" /\ restarts < MaxRestarts /\ gateClosed
  /\ restarts' = restarts + 1 /\ proc' = "parent" /\ ctxDone' = FALSE
  /\ UNCHANGED <<storeVars, loopVars, worker, canceledOutcome, events>>

\* FinalizeTask refuses "completed" around open units.
FinalizeTask ==
  /\ proc = "parent" /\ openUnits = {} /\ proc' = "finished"
  /\ UNCHANGED <<storeVars, loopVars, worker, canceledOutcome, events, ctxDone,
                 restarts>>

-----------------------------------------------------------------------------
\* The run command created the task and starts on its definitions.
Init ==
  /\ proc = "defining" /\ status = [u \in Units |-> "none"]
  /\ approval = {} /\ pending = {} /\ unresolved = {}
  /\ at = "top" /\ todo = {} /\ active = 0 /\ activeExclusive = FALSE
  /\ stop = FALSE /\ worker = [u \in Units |-> "none"]
  /\ canceledOutcome = FALSE /\ events = << >> /\ ctxDone = FALSE /\ restarts = 0

Schedule ==
  \/ Top \/ StoreFails \/ ReadReady \/ Settle \/ Drain \/ ChainReturns
  \/ \E u \in Units : ResolveBlocked(u) \/ Dispatch(u) \/ DispatchFails(u)

Work(u) ==
  \/ UnitCompletes(u) \/ UnitFails(u) \/ UnitBlocks(u) \/ UnitUncertain(u)
  \/ UnitInterrupted(u) \/ RecordCanceledOutcome(u) \/ SendCanceled(u)

Command ==
  \/ CreateWorkUnit \/ DefinitionsFail \/ RunAll \/ ResumeChain
  \/ (\E u \in Units : ReconcileUncertain(u)) \/ RecoveryDone
  \/ ResumeParent \/ FinalizeTask

Environment ==
  \/ \E u \in Units : ResolveApproval(u)
  \/ CancelContext \/ Die

Next == Schedule \/ (\E u \in Units : Work(u)) \/ Command \/ Environment

Spec == Init /\ [][Next]_vars

\* The scheduler's goroutine runs, and every unit loop ends: it is bounded by
\* its step, provider and time budgets.
FairSpec == Spec /\ WF_vars(Schedule) /\ \A u \in Units : WF_vars(Work(u))

-----------------------------------------------------------------------------
(* Properties.                                                              *)

\* Every variable has the type of the field or column it stands for.
TypeOK ==
  /\ proc \in {"down", "recovering", "defining", "scheduling", "parent",
               "finished"}
  /\ status \in [Units -> WorkUnitStates]
  /\ approval \subseteq Units /\ pending \subseteq Units
  /\ unresolved \subseteq Units /\ todo \subseteq Units
  /\ at \in {"top", "resolving", "dispatching", "settling", "draining",
             "returned"}
  /\ active \in Nat /\ activeExclusive \in BOOLEAN /\ stop \in BOOLEAN
  /\ worker \in [Units -> {"none", "running", "canceled"}]
  /\ canceledOutcome \in BOOLEAN
  /\ events \in Seq([unit : Units, outcome : UnitOutcomes, exclusive : BOOLEAN])
  /\ ctxDone \in BOOLEAN /\ restarts \in Nat

\* An exclusive unit's loop never overlaps another unit's, although dispatch
\* only knows what the settle events received so far tell it.
ExclusiveAlone == \A u \in Running \cap Exclusive : Running = {u}

\* The operator's bound is never exceeded by the unit loops, even when a unit
\* is unblocked and dispatched again before its first event is received.
WithinConcurrency == Cardinality(Running) <= Concurrency

\* A unit's loop runs only when everything it needs is durably completed, and
\* stays so while it runs, whatever failed, was interrupted or was resumed.
NeedsCompleted ==
  \A u \in Running : \A v \in Needs[u] : status[v] = "completed"

\* RunAll returns only when every worker has settled: no unit loop survives it.
NoWorkerLeft ==
  at = "returned" \/ proc # "scheduling" => Workers = {} /\ events = << >>

\* The parent loop runs, and the task is completed, only when every persisted
\* unit is completed, however the chain was interrupted and resumed.
ParentGated == proc \in {"parent", "finished"} => openUnits = {}

\* The chain always comes to an end: the main loop never waits for an event
\* nobody will send, and never unblocks and reruns a unit for ever.
ChainEnds == proc = "scheduling" ~> proc # "scheduling"

=============================================================================
