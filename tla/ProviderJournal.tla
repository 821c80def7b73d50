--------------------------- MODULE ProviderJournal ---------------------------
(***************************************************************************)
(* Durable provider attempts: the two transactions around a provider call  *)
(* in Governor.Execute (internal/governor/execute.go), the store that      *)
(* commits them (internal/state), process death at any point, and the      *)
(* restart paths of the run and resume commands: restore the governor from *)
(* its saved projection, reconcile the attempts of the resumed task,       *)
(* decide whether to continue.                                             *)
(*                                                                         *)
(* The governor's protection state is reduced to what must survive: which  *)
(* attempts are in its usage ledger, how often, whether the account is     *)
(* stopped (unsafe accounting or a circuit that needs a human), and        *)
(* whether it remembers a receipt id.                                      *)
(***************************************************************************)
EXTENDS Naturals, FiniteSets

CONSTANTS
  Attempts,     \* provider attempts, one client request id each
  Tasks, TaskOf,\* [Attempts -> Tasks]
  Modes,        \* how the program may be deployed, see ModeType
  MaxReceipts,  \* bound on the new receipts one call reports
  MaxDeaths     \* bound on process deaths

\* provider: "plain" (debited when it starts), "receipts" (OmniRoute with
\* attempt receipts: debited when it finishes), "siwc" (plain, in the SIWC state
\* domain).  concurrent: several work units share the governor.
ModeType == [provider : {"plain", "receipts", "siwc"}, concurrent : BOOLEAN]

ASSUME JournalAssumption ==
  /\ TaskOf \in [Attempts -> Tasks]
  /\ Modes \subseteq ModeType /\ MaxDeaths \in Nat
  /\ MaxReceipts \in Nat \ {0}

VARIABLES
  mode,
  proc,         \* "down", "running", or "reconciling"
  task,         \* the task the process was started for
  status,       \* tasks.status
  pc,           \* where each attempt is inside Execute
  memory,       \* the governor's protection state
  captured,     \* the PersistedState an attempt is about to commit
  outcome,      \* the row status that completion.Outcome stands for
  reported,     \* history: the new receipts of the call, 1 unless told otherwise
  durable,      \* governor_state, governor_ledger, ... as last committed
  row,          \* provider_attempts.status, "none" for no row
  uncertain,    \* plan.UncertainProviderAttempts > 0
  called,       \* attempts whose provider call was made
  blind,        \* history: a resume went on past a stop it could not read
  deaths

vars == <<mode, proc, task, status, pc, memory, captured, outcome, reported,
          durable, row, uncertain, called, blind, deaths>>

PCs == {"new", "started", "intent", "prepared", "calling", "finished",
        "outcome", "done", "paused", "dead"}

\* Attempts inside Execute, or whose loop stopped on a persistence failure.
Busy == {a \in Attempts : pc[a] \notin {"new", "done", "dead"}}

\* The attempt that holds the account lane.
InLane == {a \in Attempts : pc[a] \in {"started", "intent", "prepared", "calling"}}

Outcomes == {"completed", "failed", "uncertain"}

Clear == [debits |-> [a \in Attempts |-> 0], stopped |-> FALSE, ids |-> FALSE]

debited(p, a) == [p EXCEPT !.debits[a] = @ + 1]

receiptAware == mode.provider = "receipts"

-----------------------------------------------------------------------------
(* Governor.Execute.                                                        *)

\* Admission and Permit.start.  A plain attempt is debited here.
Start(a) ==
  /\ proc = "running" /\ TaskOf[a] = task /\ pc[a] = "new"
  /\ InLane = {} /\ ~memory.stopped
  /\ mode.concurrent \/ Busy = {}
  /\ pc' = [pc EXCEPT ![a] = "started"]
  /\ memory' = IF receiptAware THEN memory ELSE debited(memory, a)
  /\ UNCHANGED <<mode, proc, task, status, captured, outcome, reported,
                 durable, row, uncertain, called, blind, deaths>>

\* State: g.PersistedState() of ProviderPrepared and ProviderFinished: the
\* governor is locked for the copy only.
Capture(a, from, to) ==
  /\ pc[a] = from
  /\ captured' = [captured EXCEPT ![a] = memory]
  /\ pc' = [pc EXCEPT ![a] = to]
  /\ UNCHANGED <<mode, proc, task, status, memory, outcome, reported, durable,
                 row, uncertain, called, blind, deaths>>

CaptureIntent(a) == Capture(a, "started", "intent")
CaptureOutcome(a) == Capture(a, "finished", "outcome")

\* TX 1: the row and the projection in one transaction, before the call.
RecordProviderPrepared(a) ==
  /\ pc[a] = "intent"
  /\ row' = [row EXCEPT ![a] = "prepared"]
  /\ durable' = captured[a]
  /\ pc' = [pc EXCEPT ![a] = "prepared"]
  /\ UNCHANGED <<mode, proc, task, status, memory, captured, outcome,
                 reported, uncertain, called, blind, deaths>>

\* TX 1 failed: CancelAfterStart, no call, and the loop stops.
CancelAfterStart(a) ==
  /\ pc[a] = "intent"
  /\ pc' = [pc EXCEPT ![a] = "paused"]
  /\ UNCHANGED <<mode, proc, task, status, memory, captured, outcome,
                 reported, durable, row, uncertain, called, blind, deaths>>

\* client.Complete
Complete(a) ==
  /\ pc[a] = "prepared"
  /\ called' = called \cup {a}
  /\ pc' = [pc EXCEPT ![a] = "calling"]
  /\ UNCHANGED <<mode, proc, task, status, memory, captured, outcome,
                 reported, durable, row, uncertain, blind, deaths>>

\* The governor settles the attempt and frees the lane: n debits, perhaps a stop.
Settle(a, n, stop, ids, s) ==
  /\ pc[a] = "calling"
  /\ memory' = [debits |-> [memory.debits EXCEPT ![a] = @ + n],
                stopped |-> memory.stopped \/ stop, ids |-> memory.ids \/ ids]
  /\ outcome' = [outcome EXCEPT ![a] = s]
  /\ pc' = [pc EXCEPT ![a] = "finished"]
  /\ UNCHANGED <<mode, proc, task, status, captured, durable, row, uncertain,
                 called, blind, deaths>>

\* Permit.Finish: the attempt was debited when it started.
Finish(a) ==
  /\ ~receiptAware
  /\ \E stop \in BOOLEAN, s \in Outcomes : Settle(a, 0, stop, FALSE, s)
  /\ UNCHANGED reported

\* FinishWithAttemptReceipts with a valid set: one debit per receipt id not seen
\* before.  More than one attempt is against the policy and stops the account.
FinishWithNewReceipts(a) ==
  /\ receiptAware
  /\ \E n \in 1..MaxReceipts, stop \in BOOLEAN, s \in Outcomes :
       /\ n > 1 => stop /\ s # "completed"
       /\ Settle(a, n, stop, TRUE, s)
       /\ reported' = [reported EXCEPT ![a] = n]

\* Every receipt id was seen before: no debit, and the account is stopped.
FinishWithReplayedReceipts(a) ==
  /\ receiptAware /\ memory.ids
  /\ Settle(a, 0, TRUE, FALSE, "uncertain")
  /\ reported' = [reported EXCEPT ![a] = 0]

\* No receipts, or an invalid set: one debit for the possible attempt, and the
\* account is stopped.
FinishWithInvalidReceipts(a) ==
  /\ receiptAware
  /\ Settle(a, 1, TRUE, FALSE, "uncertain")
  /\ UNCHANGED reported

\* TX 2: the classified row and the projection in one transaction.
RecordProviderFinished(a) ==
  /\ pc[a] = "outcome"
  /\ row' = [row EXCEPT ![a] = IF @ = "prepared" THEN outcome[a] ELSE @]
  /\ durable' = captured[a]
  /\ outcome' = [outcome EXCEPT ![a] = "none"]
  /\ pc' = [pc EXCEPT ![a] = "done"]
  /\ UNCHANGED <<mode, proc, task, status, memory, captured, reported,
                 uncertain, called, blind, deaths>>

\* TX 2 failed: ErrProviderOutcomePersist.  The row stays prepared and the loop
\* pauses the task.
OutcomeNotPersisted(a) ==
  /\ pc[a] = "outcome"
  /\ pc' = [pc EXCEPT ![a] = "paused"]
  /\ UNCHANGED <<mode, proc, task, status, memory, captured, outcome,
                 reported, durable, row, uncertain, called, blind, deaths>>

-----------------------------------------------------------------------------
(* Process death and restart.                                               *)

\* The process exits or is killed: memory is gone.
Die ==
  /\ proc # "down" /\ deaths < MaxDeaths
  /\ deaths' = deaths + 1 /\ proc' = "down"
  /\ pc' = [a \in Attempts |-> IF a \in Busy THEN "dead" ELSE pc[a]]
  /\ memory' = Clear
  /\ captured' = [a \in Attempts |-> Clear]
  /\ outcome' = [a \in Attempts |-> "none"]
  /\ UNCHANGED <<mode, task, status, reported, durable, row,
                 uncertain, called, blind>>

\* The loop ends with a terminal outcome: FinalizeTask, and the process exits.
FinalizeTask ==
  /\ proc = "running" /\ Busy = {}
  /\ status' = [status EXCEPT ![task] = "finalized"]
  /\ proc' = "down" /\ memory' = Clear
  /\ UNCHANGED <<mode, task, pc, captured, outcome, reported, durable, row,
                 uncertain, called, blind, deaths>>

\* RestorePersistedState: ledger events are appended to what is there.
restoreOnto(p, saved) ==
  [debits |-> [a \in Attempts |-> p.debits[a] + saved.debits[a]],
   stopped |-> saved.stopped,
   ids |-> p.ids \/ saved.ids]

\* Mutant: a new process starts with an empty governor.
governorWithoutRestore(saved) == Clear

\* governor.New with Options.Restore.
newGovernor(saved) == restoreOnto(Clear, saved)

\* The run command: a new task under the restored governor.
RunTask(t) ==
  /\ proc = "down" /\ status[t] = "none"
  /\ status' = [status EXCEPT ![t] = "running"]
  /\ task' = t /\ proc' = "running"
  /\ memory' = newGovernor(durable)
  /\ uncertain' = FALSE
  /\ UNCHANGED <<mode, pc, captured, outcome, reported, durable, row, called,
                 blind, deaths>>

\* The resume command up to MarkRecoveryStarted.  A finalized task and one in
\* human review are not resumable.
Resume(t) ==
  /\ proc = "down" /\ status[t] = "running"
  /\ task' = t /\ proc' = "reconciling"
  /\ memory' = newGovernor(durable)
  /\ uncertain' = FALSE
  /\ UNCHANGED <<mode, status, pc, captured, outcome, reported, durable, row,
                 called, blind, deaths>>

Interrupted(a) == TaskOf[a] = task /\ row[a] \in {"prepared", "uncertain"}

\* Mutant: every interrupted attempt is debited again.
owesDebitAlways(a) == TRUE

\* A receipt-aware attempt whose TX 2 never committed was not debited.
owesDebit(a) == receiptAware /\ row[a] # "uncertain"

applyConservativeGovernorDebit(p, a) == [debited(p, a) EXCEPT !.stopped = TRUE]

\* Mutant: the debit without the stop.
ReconcileWithoutStop(a) ==
  /\ proc = "reconciling" /\ Interrupted(a)
  /\ row' = [row EXCEPT ![a] = "reconciled"]
  /\ durable' = IF owesDebit(a) THEN debited(durable, a) ELSE durable
  /\ uncertain' = TRUE
  /\ UNCHANGED <<mode, proc, task, status, pc, memory, captured, outcome,
                 reported, called, blind, deaths>>

\* The row and the conservative debit in one transaction.
ReconcileProviderAttempt(a) ==
  /\ proc = "reconciling" /\ Interrupted(a)
  /\ row' = [row EXCEPT ![a] = "reconciled"]
  /\ durable' = IF owesDebit(a) THEN applyConservativeGovernorDebit(durable, a)
                ELSE durable
  /\ uncertain' = TRUE
  /\ UNCHANGED <<mode, proc, task, status, pc, memory, captured, outcome,
                 reported, called, blind, deaths>>

Reconciled == \A a \in Attempts : ~Interrupted(a)

\* GovernorBlocks on a fresh read of the projection: recovery_blocked.
RecoveryBlocked ==
  /\ proc = "reconciling" /\ Reconciled /\ durable.stopped
  /\ proc' = "down" /\ memory' = Clear
  /\ UNCHANGED <<mode, task, status, pc, captured, outcome, reported, durable,
                 row, uncertain, called, blind, deaths>>

\* In the SIWC domain an interrupted attempt ends the task.  The check reads
\* the rows loaded before reconciliation, so one reconciled by an earlier,
\* interrupted resume (its uncertain column is set) counts too.
SIWCHumanReview ==
  /\ proc = "reconciling" /\ Reconciled /\ mode.provider = "siwc"
  /\ \E a \in Attempts : TaskOf[a] = task /\ row[a] = "reconciled"
  /\ status' = [status EXCEPT ![task] = "human_review_required"]
  /\ proc' = "down" /\ memory' = Clear
  /\ UNCHANGED <<mode, task, pc, captured, outcome, reported, durable, row,
                 uncertain, called, blind, deaths>>

\* The loop continues: the projection is not stopped, or cannot be read, which
\* the check takes for not stopped.
GoOn ==
  /\ proc = "reconciling" /\ Reconciled
  /\ proc' = "running" /\ blind' = (blind \/ durable.stopped)
  /\ UNCHANGED <<mode, task, status, pc, captured, outcome, reported, durable,
                 row, uncertain, called, deaths>>

\* Mutant: the SIWC boundary only looks at this resume's own reconciliations.
ContinueUnlessUncertain ==
  /\ GoOn /\ UNCHANGED memory
  /\ mode.provider # "siwc" \/ ~uncertain

\* The SIWC path restores the governor a second time.
ContinueTask ==
  /\ GoOn
  /\ mode.provider = "siwc" =>
       \A a \in Attempts : TaskOf[a] = task => row[a] # "reconciled"
  /\ memory' = IF mode.provider = "siwc" THEN restoreOnto(memory, durable)
               ELSE memory

-----------------------------------------------------------------------------
Init ==
  /\ mode \in Modes
  /\ proc = "down" /\ task \in Tasks
  /\ status = [t \in Tasks |-> "none"]
  /\ pc = [a \in Attempts |-> "new"]
  /\ memory = Clear /\ captured = [a \in Attempts |-> Clear] /\ durable = Clear
  /\ outcome = [a \in Attempts |-> "none"]
  /\ reported = [a \in Attempts |-> 1]
  /\ row = [a \in Attempts |-> "none"]
  /\ uncertain = FALSE /\ called = {} /\ blind = FALSE
  /\ deaths = 0

Execute(a) ==
  \/ Start(a) \/ CaptureIntent(a) \/ RecordProviderPrepared(a)
  \/ CancelAfterStart(a) \/ Complete(a) \/ Finish(a)
  \/ FinishWithNewReceipts(a) \/ FinishWithReplayedReceipts(a)
  \/ FinishWithInvalidReceipts(a) \/ CaptureOutcome(a)
  \/ RecordProviderFinished(a) \/ OutcomeNotPersisted(a)

Restart ==
  \/ \E t \in Tasks : RunTask(t) \/ Resume(t)
  \/ \E a \in Attempts : ReconcileProviderAttempt(a)
  \/ RecoveryBlocked \/ SIWCHumanReview \/ ContinueTask

Next == (\E a \in Attempts : Execute(a)) \/ FinalizeTask \/ Die \/ Restart

Spec == Init /\ [][Next]_vars

-----------------------------------------------------------------------------
(* Properties.                                                              *)

ProtectionType ==
  [debits : [Attempts -> Nat], stopped : BOOLEAN, ids : BOOLEAN]

\* Every variable has the type of the field or column it stands for.
TypeOK ==
  /\ mode \in Modes /\ proc \in {"down", "running", "reconciling"}
  /\ task \in Tasks
  /\ status \in [Tasks -> {"none", "running", "finalized",
                        "human_review_required"}]
  /\ pc \in [Attempts -> PCs]
  /\ memory \in ProtectionType /\ durable \in ProtectionType
  /\ captured \in [Attempts -> ProtectionType]
  /\ row \in [Attempts -> {"none", "prepared", "completed", "failed",
                           "uncertain", "reconciled"}]
  /\ outcome \in [Attempts -> Outcomes \cup {"none"}]
  /\ reported \in [Attempts -> Nat]
  /\ uncertain \in BOOLEAN /\ called \subseteq Attempts /\ blind \in BOOLEAN
  /\ deaths \in Nat

\* No provider call without a durable row that says it may have happened,
\* whatever dies between TX 1, the call and TX 2.
WriteAhead == \A a \in called : row[a] # "none"

\* The usage of a called attempt is in p, or recovery still owes it (a
\* receipt-aware row that is still prepared), or p is stopped because every
\* receipt of the call was a replay and nothing could be debited.
Accounted(p, a) ==
  \/ p.debits[a] > 0
  \/ receiptAware /\ row[a] = "prepared"
  \/ reported[a] = 0 /\ p.stopped

\* Every debit survives restarts: whatever process runs, its governor accounts
\* for every call ever made, however the earlier processes died and whichever
\* task they were running, unless a resume went on past a stop because it could
\* not read the projection.
DebitsSurvive ==
  proc = "running" /\ ~blind => \A a \in called : Accounted(memory, a)

\* What an attempt may cost: its new receipts, and at least the one unit that
\* recovery or an invalid set charges.
Units(a) == IF reported[a] > 1 THEN reported[a] ELSE 1

\* No attempt is debited twice, by TX 2 and recovery or by two recoveries.  A resumed
\* SIWC task is excluded: its second restore counts every debit twice.
DebitedOnce ==
  mode.provider # "siwc" =>
    \A a \in Attempts :
      memory.debits[a] <= Units(a) /\ durable.debits[a] <= Units(a)

\* Once a committed projection stops the account, no later commit, by whatever
\* process for whatever task, starts it again, unless a resume could not read
\* the stop.
StopSurvives == [][durable.stopped /\ ~blind => durable'.stopped]_vars

\* A resumed task runs only when each of its interrupted attempts is settled,
\* and in the SIWC domain only when none was ever interrupted, even if an
\* earlier resume settled it and died.
SettledBeforeRunning ==
  proc = "running" =>
    \A a \in Attempts : TaskOf[a] = task /\ pc[a] = "dead" =>
      /\ row[a] \notin {"prepared", "uncertain"}
      /\ mode.provider = "siwc" => row[a] # "reconciled"

=============================================================================
