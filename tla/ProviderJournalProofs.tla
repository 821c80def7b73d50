----------------------- MODULE ProviderJournalProofs -----------------------
(***************************************************************************)
(* Proofs about the durable provider attempts of a process that runs one   *)
(* attempt at a time: for any number of attempts, tasks and process deaths *)
(* every call has a durable row, every debit survives and a stop survives. *)
(***************************************************************************)
EXTENDS ProviderJournal, TLAPS

Sequential == \A m \in Modes : ~m.concurrent

\* One attempt is inside Execute at a time, and none while no process runs.
OneAtATime ==
  /\ \A a, b \in Busy : a = b
  /\ proc # "running" => Busy = {}

\* What the program counter says of the row and of the call.
RowInv ==
  \A a \in Attempts :
    /\ pc[a] \in {"new", "started", "intent", "prepared"} => a \notin called
    /\ pc[a] \in {"prepared", "calling"} => row[a] = "prepared"
    /\ a \in called => row[a] # "none"
    /\ pc[a] \in {"finished", "outcome"} => outcome[a] \in Outcomes

\* What holds whether or not a resume read the projection.
BaseInv == TypeOK /\ ~mode.concurrent /\ OneAtATime /\ RowInv

\* The usage of an attempt is in p, or p is stopped because its receipts were
\* replays.
Settled(p, a) == p.debits[a] > 0 \/ (reported[a] = 0 /\ p.stopped)

\* The live governor accounts for every call, and for the plain attempt under
\* way before it is one.
MemoryInv ==
  /\ proc = "running" \/ (proc = "reconciling" /\ ~durable.stopped)
       => \A a \in called : Accounted(memory, a)
  /\ \A a \in Attempts :
       /\ ~receiptAware
            /\ pc[a] \in {"started", "intent", "prepared", "calling"}
            => memory.debits[a] > 0
       /\ pc[a] \in {"finished", "outcome"} => Settled(memory, a)

\* So does what the attempt under way is about to commit.
CapturedInv ==
  \A a \in Attempts :
    /\ pc[a] = "intent" =>
         /\ \A b \in called : Accounted(captured[a], b)
         /\ ~receiptAware => captured[a].debits[a] > 0
    /\ pc[a] = "outcome" =>
         /\ \A b \in called : Accounted(captured[a], b)
         /\ Settled(captured[a], a)

\* And so does the last committed projection.
DurableInv ==
  /\ \A a \in called : Accounted(durable, a)
  /\ \A a \in Attempts :
       ~receiptAware /\ pc[a] = "prepared" => durable.debits[a] > 0

\* A stop spreads from the disk to memory and to what will be committed.
StopInv ==
  /\ proc = "running" /\ durable.stopped => memory.stopped
  /\ \A a \in Attempts : pc[a] \in {"intent", "outcome"} =>
       /\ durable.stopped => captured[a].stopped
       /\ captured[a].stopped => memory.stopped

\* While no resume has gone on past a stop that it could not read.
IndInv ==
  BaseInv /\ ~blind /\ MemoryInv /\ CapturedInv /\ DurableInv /\ StopInv

LEMMA DebitedType ==
  ASSUME NEW p \in ProtectionType, NEW a \in Attempts
  PROVE  /\ debited(p, a) \in ProtectionType
         /\ debited(p, a).stopped = p.stopped
         /\ debited(p, a).debits[a] > 0
         /\ \A b \in Attempts : p.debits[b] > 0 => debited(p, a).debits[b] > 0
  BY DEF debited, ProtectionType

LEMMA RestoredType ==
  ASSUME NEW p \in ProtectionType, NEW q \in ProtectionType
  PROVE  /\ restoreOnto(p, q) \in ProtectionType
         /\ restoreOnto(p, q).stopped = q.stopped
         /\ \A b \in Attempts :
              restoreOnto(p, q).debits[b] = p.debits[b] + q.debits[b]
  BY DEF restoreOnto, ProtectionType

LEMMA NewGovernorRestores ==
  ASSUME NEW q \in ProtectionType
  PROVE  /\ newGovernor(q) \in ProtectionType
         /\ newGovernor(q).stopped = q.stopped
         /\ \A b \in Attempts : newGovernor(q).debits[b] = q.debits[b]
<1>1. Clear \in ProtectionType /\ \A b \in Attempts : Clear.debits[b] = 0
  BY DEF Clear, ProtectionType
<1>2. \A b \in Attempts : 0 + q.debits[b] = q.debits[b]
  BY DEF ProtectionType
<1>3. QED
  BY <1>1, <1>2, RestoredType DEF newGovernor

LEMMA StartKeepsBase ==
  ASSUME NEW a \in Attempts, BaseInv, Start(a)
  PROVE  BaseInv'
<1>0. mode' = mode /\ ~mode.concurrent
  BY DEF BaseInv, Start
<1>1. TypeOK'
  BY DebitedType DEF BaseInv, Start, TypeOK, Outcomes, PCs
<1>2. OneAtATime'
  BY DEF BaseInv, Start, debited, InLane, TypeOK, Outcomes, OneAtATime, Busy
<1>3. RowInv'
  BY DEF BaseInv, Start, debited, InLane, TypeOK, Outcomes, RowInv, Outcomes, OneAtATime, Busy
<1>4. QED
  BY <1>0, <1>1, <1>2, <1>3 DEF BaseInv

LEMMA CaptureIntentKeepsBase ==
  ASSUME NEW a \in Attempts, BaseInv, CaptureIntent(a)
  PROVE  BaseInv'
<1>0. mode' = mode /\ ~mode.concurrent
  BY DEF BaseInv, CaptureIntent, Capture
<1>1. TypeOK'
  BY DEF BaseInv, CaptureIntent, Capture, TypeOK, Outcomes, ProtectionType, PCs, ModeType
<1>2. OneAtATime'
  BY DEF BaseInv, CaptureIntent, Capture, TypeOK, Outcomes, OneAtATime, Busy
<1>3. RowInv'
  BY DEF BaseInv, CaptureIntent, Capture, TypeOK, Outcomes, RowInv, Outcomes, OneAtATime, Busy
<1>4. QED
  BY <1>0, <1>1, <1>2, <1>3 DEF BaseInv

LEMMA RecordProviderPreparedKeepsBase ==
  ASSUME NEW a \in Attempts, BaseInv, RecordProviderPrepared(a)
  PROVE  BaseInv'
<1>0. mode' = mode /\ ~mode.concurrent
  BY DEF BaseInv, RecordProviderPrepared
<1>a. \A b \in Attempts : b # a => pc[b] \in {"new", "done", "dead"}
  BY DEF BaseInv, RecordProviderPrepared, OneAtATime, Busy
<1>1. TypeOK'
  BY DEF BaseInv, RecordProviderPrepared, TypeOK, Outcomes, ProtectionType, PCs, ModeType
<1>2. OneAtATime'
  BY DEF BaseInv, RecordProviderPrepared, TypeOK, Outcomes, OneAtATime, Busy
<1>3. RowInv'
  BY DEF BaseInv, RecordProviderPrepared, TypeOK, Outcomes, RowInv, Outcomes, OneAtATime, Busy
<1>4. QED
  BY <1>0, <1>1, <1>2, <1>3 DEF BaseInv

LEMMA CancelAfterStartKeepsBase ==
  ASSUME NEW a \in Attempts, BaseInv, CancelAfterStart(a)
  PROVE  BaseInv'
<1>0. mode' = mode /\ ~mode.concurrent
  BY DEF BaseInv, CancelAfterStart
<1>1. TypeOK'
  BY DEF BaseInv, CancelAfterStart, TypeOK, Outcomes, ProtectionType, PCs, ModeType
<1>2. OneAtATime'
  BY DEF BaseInv, CancelAfterStart, TypeOK, Outcomes, OneAtATime, Busy
<1>3. RowInv'
  BY DEF BaseInv, CancelAfterStart, TypeOK, Outcomes, RowInv, Outcomes, OneAtATime, Busy
<1>4. QED
  BY <1>0, <1>1, <1>2, <1>3 DEF BaseInv

LEMMA CompleteKeepsBase ==
  ASSUME NEW a \in Attempts, BaseInv, Complete(a)
  PROVE  BaseInv'
<1>0. mode' = mode /\ ~mode.concurrent
  BY DEF BaseInv, Complete
<1>a. \A b \in Attempts : b # a => pc[b] \in {"new", "done", "dead"}
  BY DEF BaseInv, Complete, OneAtATime, Busy
<1>1. TypeOK'
  BY DEF BaseInv, Complete, TypeOK, Outcomes, ProtectionType, PCs, ModeType
<1>2. OneAtATime'
  BY DEF BaseInv, Complete, TypeOK, Outcomes, OneAtATime, Busy
<1>3. RowInv'
  BY DEF BaseInv, Complete, TypeOK, Outcomes, RowInv, Outcomes, OneAtATime, Busy
<1>4. QED
  BY <1>0, <1>1, <1>2, <1>3 DEF BaseInv

\* The four ways a call is finished.
Finishes(a) ==
  \/ Finish(a) \/ FinishWithNewReceipts(a) \/ FinishWithReplayedReceipts(a)
  \/ FinishWithInvalidReceipts(a)

\* A receipt-aware call that is finished without a debit reported replays only,
\* and stops the account.
LEMMA FinishSettles ==
  ASSUME NEW a \in Attempts, Finishes(a)
  PROVE  \E n \in Nat, stop \in BOOLEAN, ids \in BOOLEAN, s \in Outcomes :
           /\ Settle(a, n, stop, ids, s)
           /\ ~receiptAware => n = 0 /\ reported' = reported
           /\ \/ reported' = reported /\ (receiptAware => n = 1)
              \/ n > 0 /\ reported' = [reported EXCEPT ![a] = n]
              \/ n = 0 /\ stop /\ reported' = [reported EXCEPT ![a] = 0]
<1> USE DEF Outcomes
<1>1. CASE Finish(a)
  BY <1>1 DEF Finish
<1>2. CASE FinishWithNewReceipts(a)
  <2>1. PICK n \in 1..MaxReceipts, stop \in BOOLEAN, s \in Outcomes :
          /\ Settle(a, n, stop, TRUE, s)
          /\ reported' = [reported EXCEPT ![a] = n]
    BY <1>2 DEF FinishWithNewReceipts
  <2>2. n \in Nat /\ n > 0 /\ receiptAware
    BY <1>2, <2>1, JournalAssumption DEF FinishWithNewReceipts
  <2>3. QED
    BY <2>1, <2>2
<1>3. CASE FinishWithReplayedReceipts(a)
  BY <1>3 DEF FinishWithReplayedReceipts
<1>4. CASE FinishWithInvalidReceipts(a)
  BY <1>4 DEF FinishWithInvalidReceipts
<1>5. QED
  BY <1>1, <1>2, <1>3, <1>4 DEF Finishes

\* What settling does to the ledger.
LEMMA SettleDebits ==
  ASSUME NEW a \in Attempts, memory \in ProtectionType,
         NEW n \in Nat, NEW stop \in BOOLEAN, NEW ids \in BOOLEAN,
         NEW s \in Outcomes, Settle(a, n, stop, ids, s)
  PROVE  /\ memory' \in ProtectionType
         /\ memory'.stopped = (memory.stopped \/ stop)
         /\ memory'.debits[a] = memory.debits[a] + n
         /\ \A b \in Attempts : b # a => memory'.debits[b] = memory.debits[b]
  BY DEF Settle, ProtectionType

LEMMA FinishKeepsBase ==
  ASSUME NEW a \in Attempts, BaseInv, Finishes(a)
  PROVE  BaseInv'
<1>0. PICK n \in Nat, stop \in BOOLEAN, ids \in BOOLEAN, s \in Outcomes :
        /\ Settle(a, n, stop, ids, s)
        /\ \/ reported' = reported
           \/ \E k \in Nat : reported' = [reported EXCEPT ![a] = k]
  BY FinishSettles
<1>1. TypeOK'
  BY <1>0, SettleDebits DEF BaseInv, Settle, TypeOK, Outcomes, PCs
<1>2. OneAtATime' /\ RowInv'
  BY <1>0 DEF BaseInv, Settle, TypeOK, Outcomes, RowInv, OneAtATime, Busy
<1>3. QED
  BY <1>0, <1>1, <1>2 DEF BaseInv, Settle

LEMMA CaptureOutcomeKeepsBase ==
  ASSUME NEW a \in Attempts, BaseInv, CaptureOutcome(a)
  PROVE  BaseInv'
<1>0. mode' = mode /\ ~mode.concurrent
  BY DEF BaseInv, CaptureOutcome, Capture
<1>1. TypeOK'
  BY DEF BaseInv, CaptureOutcome, Capture, TypeOK, Outcomes, ProtectionType, PCs, ModeType
<1>2. OneAtATime'
  BY DEF BaseInv, CaptureOutcome, Capture, TypeOK, Outcomes, OneAtATime, Busy
<1>3. RowInv'
  BY DEF BaseInv, CaptureOutcome, Capture, TypeOK, Outcomes, RowInv, Outcomes, OneAtATime, Busy
<1>4. QED
  BY <1>0, <1>1, <1>2, <1>3 DEF BaseInv

LEMMA RecordProviderFinishedKeepsBase ==
  ASSUME NEW a \in Attempts, BaseInv, RecordProviderFinished(a)
  PROVE  BaseInv'
<1>0. mode' = mode /\ ~mode.concurrent
  BY DEF BaseInv, RecordProviderFinished
<1>a. \A b \in Attempts : b # a => pc[b] \in {"new", "done", "dead"}
  BY DEF BaseInv, RecordProviderFinished, OneAtATime, Busy
<1>1. TypeOK'
  BY DEF BaseInv, RecordProviderFinished, TypeOK, Outcomes, ProtectionType, PCs, ModeType
<1>2. OneAtATime'
  BY DEF BaseInv, RecordProviderFinished, TypeOK, Outcomes, OneAtATime, Busy
<1>3. RowInv'
  BY DEF BaseInv, RecordProviderFinished, TypeOK, Outcomes, RowInv, Outcomes, OneAtATime, Busy
<1>4. QED
  BY <1>0, <1>1, <1>2, <1>3 DEF BaseInv

LEMMA OutcomeNotPersistedKeepsBase ==
  ASSUME NEW a \in Attempts, BaseInv, OutcomeNotPersisted(a)
  PROVE  BaseInv'
<1>0. mode' = mode /\ ~mode.concurrent
  BY DEF BaseInv, OutcomeNotPersisted
<1>1. TypeOK'
  BY DEF BaseInv, OutcomeNotPersisted, TypeOK, Outcomes, ProtectionType, PCs, ModeType
<1>2. OneAtATime'
  BY DEF BaseInv, OutcomeNotPersisted, TypeOK, Outcomes, OneAtATime, Busy
<1>3. RowInv'
  BY DEF BaseInv, OutcomeNotPersisted, TypeOK, Outcomes, RowInv, Outcomes, OneAtATime, Busy
<1>4. QED
  BY <1>0, <1>1, <1>2, <1>3 DEF BaseInv

LEMMA FinalizeTaskKeepsBase ==
  ASSUME BaseInv, FinalizeTask
  PROVE  BaseInv'
<1>0. mode' = mode /\ ~mode.concurrent
  BY DEF BaseInv, FinalizeTask
<1>1. TypeOK'
  BY DEF BaseInv, FinalizeTask, Clear, TypeOK, Outcomes, ProtectionType, PCs, ModeType
<1>2. OneAtATime'
  BY DEF BaseInv, FinalizeTask, Clear, TypeOK, Outcomes, OneAtATime, Busy
<1>3. RowInv'
  BY DEF BaseInv, FinalizeTask, Clear, TypeOK, Outcomes, RowInv, Outcomes, OneAtATime, Busy
<1>4. QED
  BY <1>0, <1>1, <1>2, <1>3 DEF BaseInv

LEMMA DieKeepsBase ==
  ASSUME BaseInv, Die
  PROVE  BaseInv'
<1>0. mode' = mode /\ ~mode.concurrent
  BY DEF BaseInv, Die
<1>1. TypeOK'
  BY DEF BaseInv, Die, Clear, TypeOK, Outcomes, ProtectionType, PCs, ModeType
<1>2. OneAtATime'
  BY DEF BaseInv, Die, Clear, TypeOK, Outcomes, OneAtATime, Busy
<1>3. RowInv'
  BY DEF BaseInv, Die, Clear, TypeOK, Outcomes, RowInv, Outcomes, OneAtATime, Busy
<1>4. QED
  BY <1>0, <1>1, <1>2, <1>3 DEF BaseInv

LEMMA RunTaskKeepsBase ==
  ASSUME NEW t \in Tasks, BaseInv, RunTask(t)
  PROVE  BaseInv'
<1>0. mode' = mode /\ ~mode.concurrent
  BY DEF BaseInv, RunTask
<1>1. TypeOK'
  BY NewGovernorRestores DEF BaseInv, RunTask, TypeOK
<1>2. OneAtATime'
  BY DEF BaseInv, RunTask, newGovernor, restoreOnto, Clear, TypeOK, Outcomes, OneAtATime, Busy
<1>3. RowInv'
  BY DEF BaseInv, RunTask, newGovernor, restoreOnto, Clear, TypeOK, Outcomes, RowInv, Outcomes, OneAtATime, Busy
<1>4. QED
  BY <1>0, <1>1, <1>2, <1>3 DEF BaseInv

LEMMA ResumeKeepsBase ==
  ASSUME NEW t \in Tasks, BaseInv, Resume(t)
  PROVE  BaseInv'
<1>0. mode' = mode /\ ~mode.concurrent
  BY DEF BaseInv, Resume
<1>1. TypeOK'
  BY NewGovernorRestores DEF BaseInv, Resume, TypeOK
<1>2. OneAtATime'
  BY DEF BaseInv, Resume, newGovernor, restoreOnto, Clear, TypeOK, Outcomes, OneAtATime, Busy
<1>3. RowInv'
  BY DEF BaseInv, Resume, newGovernor, restoreOnto, Clear, TypeOK, Outcomes, RowInv, Outcomes, OneAtATime, Busy
<1>4. QED
  BY <1>0, <1>1, <1>2, <1>3 DEF BaseInv

LEMMA ReconcileProviderAttemptKeepsBase ==
  ASSUME NEW a \in Attempts, BaseInv, ReconcileProviderAttempt(a)
  PROVE  BaseInv'
<1>0. mode' = mode /\ ~mode.concurrent
  BY DEF BaseInv, ReconcileProviderAttempt
<1>1. TypeOK'
  <2>1. [debited(durable, a) EXCEPT !.stopped = TRUE] \in ProtectionType
    BY DebitedType DEF BaseInv, TypeOK, Outcomes, ProtectionType
  <2>2. QED
    BY <2>1 DEF BaseInv, ReconcileProviderAttempt, applyConservativeGovernorDebit, TypeOK
<1>2. OneAtATime'
  BY DEF BaseInv, ReconcileProviderAttempt, owesDebit, applyConservativeGovernorDebit, debited, Interrupted, TypeOK, Outcomes, OneAtATime, Busy
<1>3. RowInv'
  BY DEF BaseInv, ReconcileProviderAttempt, owesDebit, applyConservativeGovernorDebit, debited, Interrupted, TypeOK, Outcomes, RowInv, Outcomes, OneAtATime, Busy
<1>4. QED
  BY <1>0, <1>1, <1>2, <1>3 DEF BaseInv

LEMMA RecoveryBlockedKeepsBase ==
  ASSUME BaseInv, RecoveryBlocked
  PROVE  BaseInv'
<1>0. mode' = mode /\ ~mode.concurrent
  BY DEF BaseInv, RecoveryBlocked
<1>1. TypeOK'
  BY DEF BaseInv, RecoveryBlocked, Clear, TypeOK, Outcomes, ProtectionType, PCs, ModeType
<1>2. OneAtATime'
  BY DEF BaseInv, RecoveryBlocked, Clear, TypeOK, Outcomes, OneAtATime, Busy
<1>3. RowInv'
  BY DEF BaseInv, RecoveryBlocked, Clear, TypeOK, Outcomes, RowInv, Outcomes, OneAtATime, Busy
<1>4. QED
  BY <1>0, <1>1, <1>2, <1>3 DEF BaseInv

LEMMA SIWCHumanReviewKeepsBase ==
  ASSUME BaseInv, SIWCHumanReview
  PROVE  BaseInv'
<1>0. mode' = mode /\ ~mode.concurrent
  BY DEF BaseInv, SIWCHumanReview
<1>1. TypeOK'
  BY DEF BaseInv, SIWCHumanReview, Clear, TypeOK, Outcomes, ProtectionType, PCs, ModeType
<1>2. OneAtATime'
  BY DEF BaseInv, SIWCHumanReview, Clear, TypeOK, Outcomes, OneAtATime, Busy
<1>3. RowInv'
  BY DEF BaseInv, SIWCHumanReview, Clear, TypeOK, Outcomes, RowInv, Outcomes, OneAtATime, Busy
<1>4. QED
  BY <1>0, <1>1, <1>2, <1>3 DEF BaseInv

LEMMA ContinueTaskKeepsBase ==
  ASSUME BaseInv, ContinueTask
  PROVE  BaseInv'
<1>1. memory' \in ProtectionType
  BY RestoredType DEF BaseInv, TypeOK, ContinueTask
<1>2. blind' \in BOOLEAN
  BY DEF BaseInv, TypeOK, ProtectionType, ContinueTask, GoOn
<1>3. TypeOK'
  BY <1>1, <1>2 DEF BaseInv, TypeOK, ContinueTask, GoOn
<1>4. OneAtATime' /\ RowInv' /\ ~mode'.concurrent
  BY DEF BaseInv, ContinueTask, GoOn, OneAtATime, Busy, RowInv, Outcomes
<1>5. QED
  BY <1>3, <1>4 DEF BaseInv

LEMMA StartKeeps ==
  ASSUME NEW a \in Attempts, IndInv, Start(a)
  PROVE  IndInv'
<1>0. mode' = mode /\ blind' = blind /\ ~blind /\ receiptAware' = receiptAware /\ reported' = reported
  BY DEF IndInv, BaseInv, receiptAware, Start
<1>1. BaseInv'
  BY StartKeepsBase DEF IndInv
<1>4. MemoryInv'
  BY DEF IndInv, BaseInv, Start, debited, InLane, TypeOK, ProtectionType, MemoryInv, RowInv, DurableInv, OneAtATime, Busy, Accounted, Settled, receiptAware
<1>5. CapturedInv'
  BY DEF IndInv, BaseInv, Start, debited, InLane, TypeOK, ProtectionType, CapturedInv, MemoryInv, RowInv, OneAtATime, Busy, Accounted, Settled, receiptAware
<1>6. DurableInv'
  BY DEF IndInv, BaseInv, Start, debited, InLane, TypeOK, ProtectionType, DurableInv, CapturedInv, MemoryInv, RowInv, OneAtATime, Busy, Accounted, Settled, receiptAware
<1>7. StopInv'
  BY DEF IndInv, BaseInv, Start, debited, InLane, TypeOK, ProtectionType, StopInv, OneAtATime, Busy
<1>8. QED
  BY <1>0, <1>1, <1>4, <1>5, <1>6, <1>7 DEF IndInv

LEMMA CaptureIntentKeeps ==
  ASSUME NEW a \in Attempts, IndInv, CaptureIntent(a)
  PROVE  IndInv'
<1>0. mode' = mode /\ blind' = blind /\ ~blind /\ receiptAware' = receiptAware /\ reported' = reported
  BY DEF IndInv, BaseInv, receiptAware, CaptureIntent, Capture
<1>1. BaseInv'
  BY CaptureIntentKeepsBase DEF IndInv
<1>4. MemoryInv'
  BY DEF IndInv, BaseInv, CaptureIntent, Capture, TypeOK, ProtectionType, MemoryInv, RowInv, DurableInv, OneAtATime, Busy, Accounted, Settled, receiptAware
<1>a. \A b \in Attempts : b # a => pc[b] \in {"new", "done", "dead"}
  BY DEF IndInv, BaseInv, CaptureIntent, Capture, OneAtATime, Busy
<1>b. captured'[a] = memory /\ pc'[a] = "intent" /\ proc = "running"
  BY DEF IndInv, BaseInv, CaptureIntent, Capture, TypeOK, OneAtATime, Busy
<1>c. \A b \in called : Accounted(memory, b)
  BY <1>b DEF IndInv, MemoryInv
<1>5. CapturedInv'
  <2>1. \A b \in called' : Accounted(captured[a], b)'
    BY <1>0, <1>b, <1>c DEF CaptureIntent, Capture, Accounted
  <2>2. (~receiptAware => captured[a].debits[a] > 0)'
    BY <1>0, <1>b DEF IndInv, MemoryInv, CaptureIntent, Capture, Settled
  <2>3. \A b \in Attempts : b # a => pc'[b] \in {"new", "done", "dead"}
    BY <1>a DEF IndInv, BaseInv, TypeOK, CaptureIntent, Capture
  <2>4. QED
    BY <1>b, <2>1, <2>2, <2>3 DEF CapturedInv
<1>6. DurableInv'
  BY DEF IndInv, BaseInv, CaptureIntent, Capture, TypeOK, ProtectionType, DurableInv, CapturedInv, MemoryInv, RowInv, OneAtATime, Busy, Accounted, Settled, receiptAware
<1>7. StopInv'
  BY DEF IndInv, BaseInv, CaptureIntent, Capture, TypeOK, ProtectionType, StopInv, OneAtATime, Busy
<1>8. QED
  BY <1>0, <1>1, <1>4, <1>5, <1>6, <1>7 DEF IndInv

LEMMA RecordProviderPreparedKeeps ==
  ASSUME NEW a \in Attempts, IndInv, RecordProviderPrepared(a)
  PROVE  IndInv'
<1>0. mode' = mode /\ blind' = blind /\ ~blind /\ receiptAware' = receiptAware /\ reported' = reported
  BY DEF IndInv, BaseInv, receiptAware, RecordProviderPrepared
<1>a. \A b \in Attempts : b # a => pc[b] \in {"new", "done", "dead"}
  BY DEF IndInv, BaseInv, RecordProviderPrepared, OneAtATime, Busy
<1>1. BaseInv'
  BY RecordProviderPreparedKeepsBase DEF IndInv
<1>4. MemoryInv'
  BY DEF IndInv, BaseInv, RecordProviderPrepared, TypeOK, ProtectionType, MemoryInv, RowInv, DurableInv, OneAtATime, Busy, Accounted, Settled, receiptAware
<1>5. CapturedInv'
  BY DEF IndInv, BaseInv, RecordProviderPrepared, TypeOK, ProtectionType, CapturedInv, MemoryInv, RowInv, OneAtATime, Busy, Accounted, Settled, receiptAware
<1>6. DurableInv'
  BY <1>a DEF IndInv, BaseInv, RecordProviderPrepared, TypeOK, DurableInv, CapturedInv, RowInv, Accounted, Settled, receiptAware
<1>7. StopInv'
  BY <1>a DEF IndInv, BaseInv, RecordProviderPrepared, TypeOK, StopInv
<1>8. QED
  BY <1>0, <1>1, <1>4, <1>5, <1>6, <1>7 DEF IndInv

LEMMA CancelAfterStartKeeps ==
  ASSUME NEW a \in Attempts, IndInv, CancelAfterStart(a)
  PROVE  IndInv'
<1>0. mode' = mode /\ blind' = blind /\ ~blind /\ receiptAware' = receiptAware /\ reported' = reported
  BY DEF IndInv, BaseInv, receiptAware, CancelAfterStart
<1>1. BaseInv'
  BY CancelAfterStartKeepsBase DEF IndInv
<1>4. MemoryInv'
  BY DEF IndInv, BaseInv, CancelAfterStart, TypeOK, ProtectionType, MemoryInv, RowInv, DurableInv, OneAtATime, Busy, Accounted, Settled, receiptAware
<1>5. CapturedInv'
  BY DEF IndInv, BaseInv, CancelAfterStart, TypeOK, ProtectionType, CapturedInv, MemoryInv, RowInv, OneAtATime, Busy, Accounted, Settled, receiptAware
<1>6. DurableInv'
  BY DEF IndInv, BaseInv, CancelAfterStart, TypeOK, ProtectionType, DurableInv, CapturedInv, MemoryInv, RowInv, OneAtATime, Busy, Accounted, Settled, receiptAware
<1>7. StopInv'
  BY DEF IndInv, BaseInv, CancelAfterStart, TypeOK, ProtectionType, StopInv, OneAtATime, Busy
<1>8. QED
  BY <1>0, <1>1, <1>4, <1>5, <1>6, <1>7 DEF IndInv

LEMMA CompleteKeeps ==
  ASSUME NEW a \in Attempts, IndInv, Complete(a)
  PROVE  IndInv'
<1>0. mode' = mode /\ blind' = blind /\ ~blind /\ receiptAware' = receiptAware /\ reported' = reported
  BY DEF IndInv, BaseInv, receiptAware, Complete
<1>a. \A b \in Attempts : b # a => pc[b] \in {"new", "done", "dead"}
  BY DEF IndInv, BaseInv, Complete, OneAtATime, Busy
<1>1. BaseInv'
  BY CompleteKeepsBase DEF IndInv
<1>4. MemoryInv'
  BY <1>a DEF IndInv, BaseInv, Complete, TypeOK, MemoryInv, RowInv, Accounted, Settled, receiptAware
<1>5. CapturedInv'
  BY <1>a DEF IndInv, BaseInv, Complete, TypeOK, CapturedInv, Accounted, Settled, receiptAware
<1>6. DurableInv'
  BY DEF IndInv, BaseInv, Complete, TypeOK, ProtectionType, DurableInv, CapturedInv, MemoryInv, RowInv, OneAtATime, Busy, Accounted, Settled, receiptAware
<1>7. StopInv'
  BY DEF IndInv, BaseInv, Complete, TypeOK, ProtectionType, StopInv, OneAtATime, Busy
<1>8. QED
  BY <1>0, <1>1, <1>4, <1>5, <1>6, <1>7 DEF IndInv

LEMMA FinishKeeps ==
  ASSUME NEW a \in Attempts, IndInv, Finishes(a)
  PROVE  IndInv'
<1>0. PICK n \in Nat, stop \in BOOLEAN, ids \in BOOLEAN, s \in Outcomes :
        /\ Settle(a, n, stop, ids, s)
        /\ ~receiptAware => n = 0 /\ reported' = reported
        /\ \/ reported' = reported /\ (receiptAware => n = 1)
           \/ n > 0 /\ reported' = [reported EXCEPT ![a] = n]
           \/ n = 0 /\ stop /\ reported' = [reported EXCEPT ![a] = 0]
  BY FinishSettles
<1>a. \A b \in Attempts : b # a => pc[b] \in {"new", "done", "dead"}
  BY <1>0 DEF IndInv, BaseInv, Settle, OneAtATime, Busy
<1>f. /\ memory'.stopped = (memory.stopped \/ stop)
      /\ memory'.debits[a] = memory.debits[a] + n
      /\ \A b \in Attempts : b # a => memory'.debits[b] = memory.debits[b]
      /\ \A b \in Attempts : memory.debits[b] \in Nat
  <2>1. memory \in ProtectionType
    BY DEF IndInv, BaseInv, TypeOK
  <2>2. \A b \in Attempts : memory.debits[b] \in Nat
    BY <2>1 DEF ProtectionType
  <2>3. QED
    BY <1>0, <2>1, <2>2, SettleDebits
<1>b. /\ memory.stopped => memory'.stopped
      /\ \A b \in Attempts : memory.debits[b] > 0 => memory'.debits[b] > 0
      /\ \A b \in Attempts : b # a => reported'[b] = reported[b]
  <2>1. \A b \in Attempts : memory.debits[b] > 0 => memory'.debits[b] > 0
    BY <1>f
  <2>2. \A b \in Attempts : b # a => reported'[b] = reported[b]
    BY <1>0 DEF IndInv, BaseInv, TypeOK
  <2>3. QED
    BY <1>f, <2>1, <2>2
<1>c. Settled(memory, a)'
  <2>1. CASE ~receiptAware
    BY <1>0, <1>b, <2>1 DEF IndInv, BaseInv, TypeOK, Settle, MemoryInv, Settled
  <2>2. CASE receiptAware /\ n > 0
    BY <1>f, <2>2 DEF Settled
  <2>3. CASE n = 0 /\ stop /\ reported' = [reported EXCEPT ![a] = 0]
    <3>1. reported'[a] = 0
      BY <2>3 DEF IndInv, BaseInv, TypeOK
    <3> QED
      BY <1>f, <2>3, <3>1 DEF Settled
  <2>4. QED
    BY <1>0, <2>1, <2>2, <2>3
<1>d. receiptAware' = receiptAware /\ blind' = blind /\ row[a] = "prepared"
  BY <1>0 DEF IndInv, BaseInv, TypeOK, RowInv, Settle, receiptAware
<1>1. BaseInv'
  BY FinishKeepsBase DEF IndInv
<1>e. ASSUME NEW b \in called, Accounted(memory, b) PROVE Accounted(memory, b)'
  BY <1>0, <1>b, <1>c, <1>d, <1>e
  DEF IndInv, BaseInv, TypeOK, Settle, Accounted, Settled
<1>4. MemoryInv'
  BY <1>0, <1>a, <1>b, <1>c, <1>d, <1>e
  DEF IndInv, BaseInv, TypeOK, Settle, MemoryInv, Settled
<1>5. CapturedInv'
  BY <1>0, <1>a, <1>d
  DEF IndInv, BaseInv, TypeOK, Settle, CapturedInv
<1>6. DurableInv'
  <2>1. ASSUME NEW b \in called PROVE Accounted(durable, b)'
    <3>1. CASE b = a
      <4>1. receiptAware \/ reported' = reported
        BY <1>0
      <4>2. Accounted(durable, a)
        BY <2>1, <3>1 DEF IndInv, DurableInv
      <4>3. QED
        BY <1>0, <1>d, <3>1, <4>1, <4>2
        DEF IndInv, BaseInv, TypeOK, Settle, Accounted
    <3>2. CASE b # a
      BY <1>0, <1>b, <1>d, <2>1, <3>2
      DEF IndInv, BaseInv, TypeOK, Settle, DurableInv, Accounted
    <3>3. QED
      BY <3>1, <3>2
  <2>2. QED
    BY <1>0, <1>d, <2>1 DEF IndInv, BaseInv, TypeOK, Settle, DurableInv
<1>7. StopInv'
  BY <1>0, <1>a, <1>b DEF IndInv, BaseInv, TypeOK, Settle, StopInv
<1>8. QED
  BY <1>1, <1>d, <1>4, <1>5, <1>6, <1>7 DEF IndInv

LEMMA CaptureOutcomeKeeps ==
  ASSUME NEW a \in Attempts, IndInv, CaptureOutcome(a)
  PROVE  IndInv'
<1>0. mode' = mode /\ blind' = blind /\ ~blind /\ receiptAware' = receiptAware /\ reported' = reported
  BY DEF IndInv, BaseInv, receiptAware, CaptureOutcome, Capture
<1>1. BaseInv'
  BY CaptureOutcomeKeepsBase DEF IndInv
<1>4. MemoryInv'
  BY DEF IndInv, BaseInv, CaptureOutcome, Capture, TypeOK, ProtectionType, MemoryInv, RowInv, DurableInv, OneAtATime, Busy, Accounted, Settled, receiptAware
<1>a. \A b \in Attempts : b # a => pc[b] \in {"new", "done", "dead"}
  BY DEF IndInv, BaseInv, CaptureOutcome, Capture, OneAtATime, Busy
<1>b. captured'[a] = memory /\ pc'[a] = "outcome" /\ proc = "running"
  BY DEF IndInv, BaseInv, CaptureOutcome, Capture, TypeOK, OneAtATime, Busy
<1>c. \A b \in called : Accounted(memory, b)
  BY <1>b DEF IndInv, MemoryInv
<1>5. CapturedInv'
  <2>1. \A b \in called' : Accounted(captured[a], b)'
    BY <1>0, <1>b, <1>c DEF CaptureOutcome, Capture, Accounted
  <2>2. Settled(captured[a], a)'
    BY <1>0, <1>b DEF IndInv, MemoryInv, CaptureOutcome, Capture, Settled
  <2>3. \A b \in Attempts : b # a => pc'[b] \in {"new", "done", "dead"}
    BY <1>a DEF IndInv, BaseInv, TypeOK, CaptureOutcome, Capture
  <2>4. QED
    BY <1>b, <2>1, <2>2, <2>3 DEF CapturedInv
<1>6. DurableInv'
  BY DEF IndInv, BaseInv, CaptureOutcome, Capture, TypeOK, ProtectionType, DurableInv, CapturedInv, MemoryInv, RowInv, OneAtATime, Busy, Accounted, Settled, receiptAware
<1>7. StopInv'
  BY DEF IndInv, BaseInv, CaptureOutcome, Capture, TypeOK, ProtectionType, StopInv, OneAtATime, Busy
<1>8. QED
  BY <1>0, <1>1, <1>4, <1>5, <1>6, <1>7 DEF IndInv

LEMMA RecordProviderFinishedKeeps ==
  ASSUME NEW a \in Attempts, IndInv, RecordProviderFinished(a)
  PROVE  IndInv'
<1>0. mode' = mode /\ blind' = blind /\ ~blind /\ receiptAware' = receiptAware /\ reported' = reported
  BY DEF IndInv, BaseInv, receiptAware, RecordProviderFinished
<1>a. \A b \in Attempts : b # a => pc[b] \in {"new", "done", "dead"}
  BY DEF IndInv, BaseInv, RecordProviderFinished, OneAtATime, Busy
<1>1. BaseInv'
  BY RecordProviderFinishedKeepsBase DEF IndInv
<1>4. MemoryInv'
  BY DEF IndInv, BaseInv, RecordProviderFinished, TypeOK, ProtectionType, MemoryInv, RowInv, DurableInv, OneAtATime, Busy, Accounted, Settled, receiptAware
<1>5. CapturedInv'
  BY <1>a DEF IndInv, BaseInv, RecordProviderFinished, TypeOK, CapturedInv, Accounted, Settled, receiptAware
<1>6. DurableInv'
  BY <1>a DEF IndInv, BaseInv, RecordProviderFinished, TypeOK, DurableInv, CapturedInv, RowInv, Accounted, Settled, receiptAware
<1>7. StopInv'
  BY <1>a DEF IndInv, BaseInv, RecordProviderFinished, TypeOK, StopInv
<1>8. QED
  BY <1>0, <1>1, <1>4, <1>5, <1>6, <1>7 DEF IndInv

LEMMA OutcomeNotPersistedKeeps ==
  ASSUME NEW a \in Attempts, IndInv, OutcomeNotPersisted(a)
  PROVE  IndInv'
<1>0. mode' = mode /\ blind' = blind /\ ~blind /\ receiptAware' = receiptAware /\ reported' = reported
  BY DEF IndInv, BaseInv, receiptAware, OutcomeNotPersisted
<1>1. BaseInv'
  BY OutcomeNotPersistedKeepsBase DEF IndInv
<1>4. MemoryInv'
  BY DEF IndInv, BaseInv, OutcomeNotPersisted, TypeOK, ProtectionType, MemoryInv, RowInv, DurableInv, OneAtATime, Busy, Accounted, Settled, receiptAware
<1>5. CapturedInv'
  BY DEF IndInv, BaseInv, OutcomeNotPersisted, TypeOK, ProtectionType, CapturedInv, MemoryInv, RowInv, OneAtATime, Busy, Accounted, Settled, receiptAware
<1>6. DurableInv'
  BY DEF IndInv, BaseInv, OutcomeNotPersisted, TypeOK, ProtectionType, DurableInv, CapturedInv, MemoryInv, RowInv, OneAtATime, Busy, Accounted, Settled, receiptAware
<1>7. StopInv'
  BY DEF IndInv, BaseInv, OutcomeNotPersisted, TypeOK, ProtectionType, StopInv, OneAtATime, Busy
<1>8. QED
  BY <1>0, <1>1, <1>4, <1>5, <1>6, <1>7 DEF IndInv

LEMMA FinalizeTaskKeeps ==
  ASSUME IndInv, FinalizeTask
  PROVE  IndInv'
<1>0. mode' = mode /\ blind' = blind /\ ~blind /\ receiptAware' = receiptAware /\ reported' = reported
  BY DEF IndInv, BaseInv, receiptAware, FinalizeTask
<1>1. BaseInv'
  BY FinalizeTaskKeepsBase DEF IndInv
<1>4. MemoryInv'
  BY DEF IndInv, BaseInv, FinalizeTask, Clear, TypeOK, ProtectionType, MemoryInv, RowInv, DurableInv, OneAtATime, Busy, Accounted, Settled, receiptAware
<1>5. CapturedInv'
  BY DEF IndInv, BaseInv, FinalizeTask, Clear, TypeOK, ProtectionType, CapturedInv, MemoryInv, RowInv, OneAtATime, Busy, Accounted, Settled, receiptAware
<1>6. DurableInv'
  BY DEF IndInv, BaseInv, FinalizeTask, Clear, TypeOK, ProtectionType, DurableInv, CapturedInv, MemoryInv, RowInv, OneAtATime, Busy, Accounted, Settled, receiptAware
<1>7. StopInv'
  BY DEF IndInv, BaseInv, FinalizeTask, Clear, TypeOK, ProtectionType, StopInv, OneAtATime, Busy
<1>8. QED
  BY <1>0, <1>1, <1>4, <1>5, <1>6, <1>7 DEF IndInv

LEMMA DieKeeps ==
  ASSUME IndInv, Die
  PROVE  IndInv'
<1>0. mode' = mode /\ blind' = blind /\ ~blind /\ receiptAware' = receiptAware /\ reported' = reported
  BY DEF IndInv, BaseInv, receiptAware, Die
<1>1. BaseInv'
  BY DieKeepsBase DEF IndInv
<1>4. MemoryInv'
  BY DEF IndInv, BaseInv, Die, Clear, TypeOK, ProtectionType, MemoryInv, RowInv, DurableInv, OneAtATime, Busy, Accounted, Settled, receiptAware
<1>5. CapturedInv'
  BY DEF IndInv, BaseInv, Die, Clear, TypeOK, ProtectionType, CapturedInv, MemoryInv, RowInv, OneAtATime, Busy, Accounted, Settled, receiptAware
<1>6. DurableInv'
  BY DEF IndInv, BaseInv, Die, Clear, TypeOK, ProtectionType, DurableInv, CapturedInv, MemoryInv, RowInv, OneAtATime, Busy, Accounted, Settled, receiptAware
<1>7. StopInv'
  BY DEF IndInv, BaseInv, Die, Clear, TypeOK, ProtectionType, StopInv, OneAtATime, Busy
<1>8. QED
  BY <1>0, <1>1, <1>4, <1>5, <1>6, <1>7 DEF IndInv

LEMMA RunTaskKeeps ==
  ASSUME NEW t \in Tasks, IndInv, RunTask(t)
  PROVE  IndInv'
<1>0. mode' = mode /\ blind' = blind /\ ~blind /\ receiptAware' = receiptAware /\ reported' = reported
  BY DEF IndInv, BaseInv, receiptAware, RunTask
<1>1. BaseInv'
  BY RunTaskKeepsBase DEF IndInv
<1>4. MemoryInv'
  BY NewGovernorRestores
  DEF IndInv, BaseInv, RunTask, TypeOK, MemoryInv, DurableInv, OneAtATime, Busy, Accounted, Settled, receiptAware
<1>5. CapturedInv'
  BY DEF IndInv, BaseInv, RunTask, newGovernor, restoreOnto, Clear, TypeOK, ProtectionType, CapturedInv, MemoryInv, RowInv, OneAtATime, Busy, Accounted, Settled, receiptAware
<1>6. DurableInv'
  BY DEF IndInv, BaseInv, RunTask, newGovernor, restoreOnto, Clear, TypeOK, ProtectionType, DurableInv, CapturedInv, MemoryInv, RowInv, OneAtATime, Busy, Accounted, Settled, receiptAware
<1>7. StopInv'
  BY DEF IndInv, BaseInv, RunTask, newGovernor, restoreOnto, Clear, TypeOK, ProtectionType, StopInv, OneAtATime, Busy
<1>8. QED
  BY <1>0, <1>1, <1>4, <1>5, <1>6, <1>7 DEF IndInv

LEMMA ResumeKeeps ==
  ASSUME NEW t \in Tasks, IndInv, Resume(t)
  PROVE  IndInv'
<1>0. mode' = mode /\ blind' = blind /\ ~blind /\ receiptAware' = receiptAware /\ reported' = reported
  BY DEF IndInv, BaseInv, receiptAware, Resume
<1>1. BaseInv'
  BY ResumeKeepsBase DEF IndInv
<1>4. MemoryInv'
  BY NewGovernorRestores
  DEF IndInv, BaseInv, Resume, TypeOK, MemoryInv, DurableInv, OneAtATime, Busy, Accounted, Settled, receiptAware
<1>5. CapturedInv'
  BY DEF IndInv, BaseInv, Resume, newGovernor, restoreOnto, Clear, TypeOK, ProtectionType, CapturedInv, MemoryInv, RowInv, OneAtATime, Busy, Accounted, Settled, receiptAware
<1>6. DurableInv'
  BY DEF IndInv, BaseInv, Resume, newGovernor, restoreOnto, Clear, TypeOK, ProtectionType, DurableInv, CapturedInv, MemoryInv, RowInv, OneAtATime, Busy, Accounted, Settled, receiptAware
<1>7. StopInv'
  BY DEF IndInv, BaseInv, Resume, newGovernor, restoreOnto, Clear, TypeOK, ProtectionType, StopInv, OneAtATime, Busy
<1>8. QED
  BY <1>0, <1>1, <1>4, <1>5, <1>6, <1>7 DEF IndInv

LEMMA ReconcileProviderAttemptKeeps ==
  ASSUME NEW a \in Attempts, IndInv, ReconcileProviderAttempt(a)
  PROVE  IndInv'
<1>0. mode' = mode /\ blind' = blind /\ ~blind /\ receiptAware' = receiptAware /\ reported' = reported
  BY DEF IndInv, BaseInv, receiptAware, ReconcileProviderAttempt
<1>1. BaseInv'
  BY ReconcileProviderAttemptKeepsBase DEF IndInv
<1>4. MemoryInv'
  BY DEF IndInv, BaseInv, ReconcileProviderAttempt, owesDebit, applyConservativeGovernorDebit, debited, Interrupted, TypeOK, ProtectionType, MemoryInv, RowInv, DurableInv, OneAtATime, Busy, Accounted, Settled, receiptAware
<1>5. CapturedInv'
  BY DEF IndInv, BaseInv, ReconcileProviderAttempt, owesDebit, applyConservativeGovernorDebit, debited, Interrupted, TypeOK, ProtectionType, CapturedInv, MemoryInv, RowInv, OneAtATime, Busy, Accounted, Settled, receiptAware
<1>6. DurableInv'
  BY DEF IndInv, BaseInv, ReconcileProviderAttempt, owesDebit, applyConservativeGovernorDebit, debited, Interrupted, TypeOK, ProtectionType, DurableInv, CapturedInv, MemoryInv, RowInv, OneAtATime, Busy, Accounted, Settled, receiptAware
<1>7. StopInv'
  BY DEF IndInv, BaseInv, ReconcileProviderAttempt, owesDebit, applyConservativeGovernorDebit, debited, Interrupted, TypeOK, ProtectionType, StopInv, OneAtATime, Busy
<1>8. QED
  BY <1>0, <1>1, <1>4, <1>5, <1>6, <1>7 DEF IndInv

LEMMA RecoveryBlockedKeeps ==
  ASSUME IndInv, RecoveryBlocked
  PROVE  IndInv'
<1>0. mode' = mode /\ blind' = blind /\ ~blind /\ receiptAware' = receiptAware /\ reported' = reported
  BY DEF IndInv, BaseInv, receiptAware, RecoveryBlocked
<1>1. BaseInv'
  BY RecoveryBlockedKeepsBase DEF IndInv
<1>4. MemoryInv'
  BY DEF IndInv, BaseInv, RecoveryBlocked, Clear, TypeOK, ProtectionType, MemoryInv, RowInv, DurableInv, OneAtATime, Busy, Accounted, Settled, receiptAware
<1>5. CapturedInv'
  BY DEF IndInv, BaseInv, RecoveryBlocked, Clear, TypeOK, ProtectionType, CapturedInv, MemoryInv, RowInv, OneAtATime, Busy, Accounted, Settled, receiptAware
<1>6. DurableInv'
  BY DEF IndInv, BaseInv, RecoveryBlocked, Clear, TypeOK, ProtectionType, DurableInv, CapturedInv, MemoryInv, RowInv, OneAtATime, Busy, Accounted, Settled, receiptAware
<1>7. StopInv'
  BY DEF IndInv, BaseInv, RecoveryBlocked, Clear, TypeOK, ProtectionType, StopInv, OneAtATime, Busy
<1>8. QED
  BY <1>0, <1>1, <1>4, <1>5, <1>6, <1>7 DEF IndInv

LEMMA SIWCHumanReviewKeeps ==
  ASSUME IndInv, SIWCHumanReview
  PROVE  IndInv'
<1>0. mode' = mode /\ blind' = blind /\ ~blind /\ receiptAware' = receiptAware /\ reported' = reported
  BY DEF IndInv, BaseInv, receiptAware, SIWCHumanReview
<1>1. BaseInv'
  BY SIWCHumanReviewKeepsBase DEF IndInv
<1>4. MemoryInv'
  BY DEF IndInv, BaseInv, SIWCHumanReview, Clear, TypeOK, ProtectionType, MemoryInv, RowInv, DurableInv, OneAtATime, Busy, Accounted, Settled, receiptAware
<1>5. CapturedInv'
  BY DEF IndInv, BaseInv, SIWCHumanReview, Clear, TypeOK, ProtectionType, CapturedInv, MemoryInv, RowInv, OneAtATime, Busy, Accounted, Settled, receiptAware
<1>6. DurableInv'
  BY DEF IndInv, BaseInv, SIWCHumanReview, Clear, TypeOK, ProtectionType, DurableInv, CapturedInv, MemoryInv, RowInv, OneAtATime, Busy, Accounted, Settled, receiptAware
<1>7. StopInv'
  BY DEF IndInv, BaseInv, SIWCHumanReview, Clear, TypeOK, ProtectionType, StopInv, OneAtATime, Busy
<1>8. QED
  BY <1>0, <1>1, <1>4, <1>5, <1>6, <1>7 DEF IndInv

\* A resume that reads the projection keeps it; one that cannot is marked.
LEMMA ContinueTaskKeeps ==
  ASSUME IndInv, ContinueTask, ~blind'
  PROVE  IndInv'
<1>0. /\ mode' = mode /\ receiptAware' = receiptAware /\ reported' = reported
      /\ row' = row /\ pc' = pc /\ called' = called /\ captured' = captured
      /\ durable' = durable /\ ~durable.stopped /\ Busy = {}
  BY DEF IndInv, BaseInv, OneAtATime, ContinueTask, GoOn, receiptAware
<1>1. BaseInv'
  BY ContinueTaskKeepsBase DEF IndInv
<1>2. \A a \in Attempts : pc[a] \in {"new", "done", "dead"}
  BY <1>0 DEF Busy
<1>3. \A a \in called : Accounted(memory, a)'
  <2>1. CASE mode.provider = "siwc"
    <3>1. /\ memory' = restoreOnto(memory, durable)
          /\ \A b \in Attempts :
               memory'.debits[b] = memory.debits[b] + durable.debits[b]
          /\ memory'.stopped = durable.stopped
      BY <2>1, RestoredType DEF ContinueTask, IndInv, BaseInv, TypeOK
    <3>2. QED
      BY <1>0, <3>1
      DEF IndInv, BaseInv, TypeOK, ProtectionType, DurableInv, Accounted
  <2>2. CASE mode.provider # "siwc"
    BY <1>0, <2>2
    DEF IndInv, MemoryInv, ContinueTask, GoOn, Accounted
  <2>3. QED
    BY <2>1, <2>2
<1>4. MemoryInv' /\ CapturedInv' /\ DurableInv' /\ StopInv'
  BY <1>0, <1>2, <1>3
  DEF IndInv, MemoryInv, CapturedInv, DurableInv, StopInv, Accounted
<1>5. QED
  BY <1>1, <1>4 DEF IndInv

-----------------------------------------------------------------------------

LEMMA InitHolds ==
  ASSUME Sequential, Init
  PROVE  IndInv
<1>1. Clear \in ProtectionType /\ Clear.stopped = FALSE
  BY DEF Clear, ProtectionType
<1>2. TypeOK /\ ~mode.concurrent
  BY <1>1 DEF Init, TypeOK, PCs, Sequential
<1>3. Busy = {}
  BY DEF Init, Busy
<1>4. QED
  BY <1>1, <1>2, <1>3
  DEF Init, IndInv, BaseInv, OneAtATime, RowInv, MemoryInv, CapturedInv,
      DurableInv, StopInv

\* Every step of the program keeps the base invariant.
LEMMA NextKeepsBase ==
  ASSUME BaseInv, [Next]_vars
  PROVE  BaseInv'
<1>1. CASE UNCHANGED vars
  BY <1>1 DEF vars, BaseInv, TypeOK, OneAtATime, Busy, RowInv
<1>2. ASSUME NEW a \in Attempts, Execute(a) PROVE BaseInv'
  BY <1>2, StartKeepsBase, CaptureIntentKeepsBase,
     RecordProviderPreparedKeepsBase, CancelAfterStartKeepsBase,
     CompleteKeepsBase, FinishKeepsBase, CaptureOutcomeKeepsBase,
     RecordProviderFinishedKeepsBase, OutcomeNotPersistedKeepsBase
  DEF Execute, Finishes
<1>3. CASE FinalizeTask \/ Die
  BY <1>3, FinalizeTaskKeepsBase, DieKeepsBase
<1>4. CASE Restart
  BY <1>4, RunTaskKeepsBase, ResumeKeepsBase, ReconcileProviderAttemptKeepsBase,
     RecoveryBlockedKeepsBase, SIWCHumanReviewKeepsBase, ContinueTaskKeepsBase
  DEF Restart
<1>5. QED
  BY <1>1, <1>2, <1>3, <1>4 DEF Next

\* And the whole invariant, until a resume goes on past a stop it cannot read.
LEMMA NextKeeps ==
  ASSUME IndInv \/ blind, [Next]_vars
  PROVE  IndInv' \/ blind'
<1>1. CASE blind
  BY <1>1
  DEF Next, Execute, Restart, Start, CaptureIntent, CaptureOutcome, Capture,
      RecordProviderPrepared, CancelAfterStart, Complete, Finish, Settle,
      FinishWithNewReceipts, FinishWithReplayedReceipts,
      FinishWithInvalidReceipts, RecordProviderFinished, OutcomeNotPersisted,
      FinalizeTask, Die, RunTask, Resume, ReconcileProviderAttempt,
      RecoveryBlocked, SIWCHumanReview, ContinueTask, GoOn, vars
<1>2. CASE IndInv
  <2>1. CASE UNCHANGED vars
    BY <1>2, <2>1 DEF vars, IndInv, BaseInv, TypeOK, OneAtATime, Busy, RowInv,
         MemoryInv, CapturedInv, DurableInv, StopInv, Accounted, Settled,
         receiptAware
  <2>2. ASSUME NEW a \in Attempts, Execute(a) PROVE IndInv'
    BY <1>2, <2>2, StartKeeps, CaptureIntentKeeps, RecordProviderPreparedKeeps,
       CancelAfterStartKeeps, CompleteKeeps, FinishKeeps, CaptureOutcomeKeeps,
       RecordProviderFinishedKeeps, OutcomeNotPersistedKeeps
    DEF Execute, Finishes
  <2>3. CASE FinalizeTask \/ Die
    BY <1>2, <2>3, FinalizeTaskKeeps, DieKeeps
  <2>4. CASE Restart
    BY <1>2, <2>4, RunTaskKeeps, ResumeKeeps, ReconcileProviderAttemptKeeps,
       RecoveryBlockedKeeps, SIWCHumanReviewKeeps, ContinueTaskKeeps
    DEF Restart
  <2>5. QED
    BY <2>1, <2>2, <2>3, <2>4 DEF Next
<1>3. QED
  BY <1>1, <1>2

LEMMA BaseInvHolds ==
  ASSUME Sequential
  PROVE  Spec => []BaseInv
<1>1. Init => BaseInv
  BY InitHolds DEF IndInv
<1>2. QED
  BY <1>1, NextKeepsBase, PTL DEF Spec

LEMMA IndInvHolds ==
  ASSUME Sequential
  PROVE  Spec => [](IndInv \/ blind)
  BY InitHolds, NextKeeps, PTL DEF Spec

\* The types of the journal's variables, for every number of attempts, tasks
\* and deaths.
THEOREM JournalTypes ==
  ASSUME Sequential
  PROVE  Spec => []TypeOK
<1>1. BaseInv => TypeOK
  BY DEF BaseInv
<1>2. QED
  BY <1>1, BaseInvHolds, PTL

\* No provider call without a durable row, wherever the process dies.
THEOREM WriteAheadHolds ==
  ASSUME Sequential
  PROVE  Spec => []WriteAhead
<1>1. BaseInv => WriteAhead
  BY DEF BaseInv, RowInv, WriteAhead, TypeOK
<1>2. QED
  BY <1>1, BaseInvHolds, PTL

\* Every debit of a sequential run survives every restart, with plain attempts
\* and with new, several, replayed and invalid receipts.
THEOREM DebitsSurviveHolds ==
  ASSUME Sequential
  PROVE  Spec => []DebitsSurvive
<1>1. IndInv \/ blind => DebitsSurvive
  BY DEF IndInv, MemoryInv, DebitsSurvive
<1>2. QED
  BY <1>1, IndInvHolds, PTL

\* A stop, once committed, is never taken back by a later commit.
THEOREM StopSurvivesHolds ==
  ASSUME Sequential
  PROVE  Spec => StopSurvives
<1>1. ASSUME IndInv, [Next]_vars, durable.stopped PROVE durable'.stopped
  <2>1. CASE durable' = durable
    BY <1>1, <2>1
  <2>2. ASSUME NEW a \in Attempts,
               RecordProviderPrepared(a) \/ RecordProviderFinished(a)
        PROVE  durable'.stopped
    BY <1>1, <2>2
    DEF IndInv, BaseInv, StopInv, RecordProviderPrepared, RecordProviderFinished
  <2>3. ASSUME NEW a \in Attempts, ReconcileProviderAttempt(a)
        PROVE  durable'.stopped
    BY <1>1, <2>3, DebitedType
    DEF IndInv, BaseInv, TypeOK, ReconcileProviderAttempt,
        applyConservativeGovernorDebit, ProtectionType
  <2>4. QED
    BY <1>1, <2>1, <2>2, <2>3
    DEF Next, Execute, Restart, Start, CaptureIntent, CaptureOutcome, Capture,
        CancelAfterStart, Complete, Finish, FinishWithNewReceipts,
        FinishWithReplayedReceipts, FinishWithInvalidReceipts, Settle,
        OutcomeNotPersisted, FinalizeTask,
        Die, RunTask, Resume, RecoveryBlocked, SIWCHumanReview, ContinueTask, GoOn,
        vars
<1>2. (IndInv \/ blind) /\ [Next]_vars
        => [durable.stopped /\ ~blind => durable'.stopped]_vars
  BY <1>1
<1>3. QED
  BY <1>2, IndInvHolds, PTL DEF Spec, StopSurvives
-----------------------------------------------------------------------------
(* Debits are counted once.                                                 *)

\* A projection that no attempt in flight has been debited to: the plain
\* attempt has not started, the receipt-aware one has not been settled.
Undebited(p, a) ==
  /\ pc[a] = "new" => p.debits[a] = 0
  /\ receiptAware /\ pc[a] \in {"started", "intent", "prepared", "calling"}
       => p.debits[a] = 0

\* Every copy of the ledger that may still be committed or restored.
OnceInv ==
  mode.provider # "siwc" =>
    \A a \in Attempts :
      /\ memory.debits[a] <= Units(a) /\ Undebited(memory, a)
      /\ durable.debits[a] <= Units(a) /\ Undebited(durable, a)
      /\ receiptAware /\ row[a] = "prepared" =>
           /\ durable.debits[a] = 0
           /\ pc[a] = "dead" => memory.debits[a] = 0
      /\ pc[a] \in {"finished", "outcome"} => row[a] = "prepared"
      /\ pc[a] = "new" => row[a] = "none"
      /\ pc[a] = "done" => row[a] # "prepared"
      /\ \A b \in Attempts : pc[b] \in {"intent", "outcome"} =>
           /\ captured[b].debits[a] <= Units(a) /\ Undebited(captured[b], a)
           /\ receiptAware /\ row[a] = "prepared" /\ a # b
                => captured[b].debits[a] = 0

LEMMA DebitedCount ==
  ASSUME NEW p \in ProtectionType, NEW a \in Attempts
  PROVE  /\ debited(p, a).debits[a] = p.debits[a] + 1
         /\ \A b \in Attempts : b # a => debited(p, a).debits[b] = p.debits[b]
  BY DEF debited, ProtectionType

\* An attempt inside Execute keeps the count.
LEMMA ExecuteKeepsOnce ==
  ASSUME NEW a \in Attempts, BaseInv, OnceInv, Execute(a)
  PROVE  OnceInv'
<1> USE DEF BaseInv, TypeOK, PCs, Outcomes, receiptAware, Units
<1>0. SUFFICES ASSUME mode.provider # "siwc" PROVE OnceInv'
  BY DEF OnceInv, Execute, Start, CaptureIntent, CaptureOutcome, Capture,
         RecordProviderPrepared, CancelAfterStart, Complete, Finish,
         FinishWithNewReceipts, FinishWithReplayedReceipts,
         FinishWithInvalidReceipts, Settle,
         RecordProviderFinished, OutcomeNotPersisted
<1>a. pc[a] # "new" => \A b \in Attempts : b # a => pc[b] \in {"new", "done", "dead"}
  <2>1. CASE a \in Busy
    BY <2>1 DEF OneAtATime, Busy
  <2>2. CASE a \notin Busy
    BY <2>2 DEF Busy, Execute, Start, CaptureIntent, CaptureOutcome, Capture,
         RecordProviderPrepared, CancelAfterStart, Complete, Finish,
         FinishWithNewReceipts, FinishWithReplayedReceipts,
         FinishWithInvalidReceipts, Settle,
         RecordProviderFinished, OutcomeNotPersisted
  <2>3. QED
    BY <2>1, <2>2
<1>1. CASE Start(a)
  <2>1. \A b \in Attempts : pc[b] \in {"new", "done", "dead"}
    BY <1>1 DEF Start, Busy
  <2>2. memory' \in ProtectionType /\ durable' = durable /\ row' = row
        /\ \A b \in Attempts : b # a => memory'.debits[b] = memory.debits[b]
    BY <1>1, DebitedCount, DebitedType DEF Start
  <2>3. memory'.debits[a] = IF receiptAware THEN 0 ELSE 1
    BY <1>0, <1>1, DebitedCount DEF Start, OnceInv, Undebited
  <2>4. \A b \in Attempts : pc'[b] \notin {"intent", "outcome"}
    BY <1>1, <2>1 DEF Start
  <2>5. QED
    BY <1>0, <1>1, <2>1, <2>2, <2>3, <2>4 DEF Start, OnceInv, Undebited
<1>2. CASE CaptureIntent(a) \/ CaptureOutcome(a)
  BY <1>0, <1>a, <1>2 DEF CaptureIntent, CaptureOutcome, Capture, OnceInv, Undebited
<1>3. CASE RecordProviderPrepared(a)
  BY <1>0, <1>a, <1>3 DEF RecordProviderPrepared, OnceInv, Undebited
<1>4. CASE CancelAfterStart(a) \/ OutcomeNotPersisted(a)
  BY <1>0, <1>a, <1>4 DEF CancelAfterStart, OutcomeNotPersisted, OnceInv, Undebited
<1>5. CASE Complete(a)
  BY <1>0, <1>a, <1>5 DEF Complete, OnceInv, Undebited
<1>6. CASE Finishes(a)
  <2>0. PICK n \in Nat, stop \in BOOLEAN, ids \in BOOLEAN, s \in Outcomes :
          /\ Settle(a, n, stop, ids, s)
          /\ ~receiptAware => n = 0 /\ reported' = reported
          /\ \/ reported' = reported /\ (receiptAware => n = 1)
             \/ n > 0 /\ reported' = [reported EXCEPT ![a] = n]
             \/ n = 0 /\ stop /\ reported' = [reported EXCEPT ![a] = 0]
    BY <1>6, FinishSettles
  <2>1. /\ \A b \in Attempts : b # a => memory'.debits[b] = memory.debits[b]
        /\ memory'.debits[a] = memory.debits[a] + n
        /\ pc[a] = "calling" /\ row[a] = "prepared"
        /\ mode' = mode /\ durable' = durable /\ captured' = captured
        /\ row' = row /\ pc' = [pc EXCEPT ![a] = "finished"]
    <3>1. memory \in ProtectionType /\ RowInv
      BY <1>0
    <3>2. Settle(a, n, stop, ids, s)
      BY <2>0
    <3>3. /\ pc[a] = "calling"
          /\ mode' = mode /\ durable' = durable /\ captured' = captured
          /\ row' = row /\ pc' = [pc EXCEPT ![a] = "finished"]
      BY <3>2 DEF Settle
    <3>4. row[a] = "prepared"
      BY <3>1, <3>3 DEF RowInv
    <3> QED
      BY <3>1, <3>2, <3>3, <3>4, SettleDebits
  <2>2. \A b \in Attempts : b # a => Units(b)' = Units(b)
    BY <2>0
  <2>3. /\ receiptAware => memory.debits[a] = 0
        /\ memory'.debits[a] <= Units(a)'
    <3>1. CASE receiptAware
      BY <1>0, <2>0, <2>1, <3>1 DEF OnceInv, Undebited
    <3>2. CASE ~receiptAware
      BY <1>0, <2>0, <2>1, <3>2 DEF OnceInv, ProtectionType
    <3>3. QED
      BY <3>1, <3>2
  <2>4. durable.debits[a] <= Units(a)'
    <3>1. CASE receiptAware
      BY <1>0, <2>0, <2>1, <3>1 DEF OnceInv, Undebited
    <3>2. CASE ~receiptAware
      BY <1>0, <2>0, <3>2 DEF OnceInv
    <3>3. QED
      BY <3>1, <3>2
  <2>5. \A b \in Attempts : pc'[b] \notin {"intent", "outcome"}
    BY <1>a, <2>1
  <2>6. QED
    BY <1>0, <1>a, <2>1, <2>2, <2>3, <2>4, <2>5 DEF OnceInv, Undebited
<1>7. CASE RecordProviderFinished(a)
  BY <1>0, <1>a, <1>7 DEF RecordProviderFinished, OnceInv, Undebited
<1>8. QED
  BY <1>1, <1>2, <1>3, <1>4, <1>5, <1>6, <1>7 DEF Execute, Finishes

\* So do death and restart: a row that is still prepared has no committed debit,
\* and recovery's conservative debit ends that.
LEMMA RestartKeepsOnce ==
  ASSUME BaseInv, OnceInv, FinalizeTask \/ Die \/ Restart
  PROVE  OnceInv'
<1> USE DEF BaseInv, TypeOK, PCs, Outcomes, receiptAware, Units
<1>0. SUFFICES ASSUME mode.provider # "siwc" PROVE OnceInv'
  BY DEF OnceInv, FinalizeTask, Die, Restart, RunTask, Resume,
         ReconcileProviderAttempt, RecoveryBlocked, SIWCHumanReview, ContinueTask, GoOn
<1>c. \A b \in Attempts : Clear.debits[b] = 0
  BY DEF Clear
<1>1. CASE FinalizeTask \/ RecoveryBlocked
  BY <1>0, <1>1, <1>c DEF FinalizeTask, RecoveryBlocked, OnceInv, Undebited
<1>2. CASE Die
  <2>1. \A b \in Attempts : pc'[b] \in {"new", "done", "dead"}
                            /\ (pc'[b] = "new" => pc[b] = "new")
    BY <1>2 DEF Die, Busy
  <2>2. QED
    BY <1>0, <1>2, <1>c, <2>1 DEF Die, OnceInv, Undebited
<1>3. ASSUME NEW t \in Tasks, RunTask(t) \/ Resume(t) PROVE OnceInv'
  <2>1. \A b \in Attempts : memory'.debits[b] = durable.debits[b]
    BY <1>3, NewGovernorRestores DEF RunTask, Resume
  <2>2. \A b \in Attempts : pc[b] \in {"new", "done", "dead"}
    BY <1>3 DEF RunTask, Resume, OneAtATime, Busy
  <2>3. QED
    BY <1>0, <1>3, <2>1, <2>2 DEF RunTask, Resume, OnceInv, Undebited
<1>4. ASSUME NEW a \in Attempts, ReconcileProviderAttempt(a) PROVE OnceInv'
  <2>1. \A b \in Attempts : pc[b] \in {"new", "done", "dead"}
    BY <1>4 DEF ReconcileProviderAttempt, OneAtATime, Busy
  <2>2. \A b \in Attempts : b # a => durable'.debits[b] = durable.debits[b]
    BY <1>4, DebitedCount, DebitedType
    DEF ReconcileProviderAttempt, applyConservativeGovernorDebit, debited,
        ProtectionType
  <2>3. row[a] \in {"prepared", "uncertain"} /\ pc[a] # "new"
    BY <1>0, <1>4 DEF ReconcileProviderAttempt, Interrupted, OnceInv
  <2>4. durable'.debits[a] <= Units(a)
    <3>1. CASE owesDebit(a)
      <4>1. row[a] = "prepared" /\ receiptAware /\ durable.debits[a] = 0
        BY <1>0, <2>3, <3>1 DEF owesDebit, OnceInv
      <4>2. durable'.debits[a] = durable.debits[a] + 1
        <5>1. durable \in ProtectionType
          BY DEF BaseInv, TypeOK
        <5>2. durable' = [debited(durable, a) EXCEPT !.stopped = TRUE]
          BY <1>4, <3>1 DEF ReconcileProviderAttempt, applyConservativeGovernorDebit
        <5>3. durable'.debits = debited(durable, a).debits
          BY <5>1, <5>2, DebitedType DEF ProtectionType
        <5> QED
          BY <5>1, <5>3, DebitedCount
      <4>3. QED
        BY <4>1, <4>2
    <3>2. CASE ~owesDebit(a)
      BY <1>0, <1>4, <3>2 DEF ReconcileProviderAttempt, OnceInv
    <3>3. QED
      BY <3>1, <3>2
  <2>5. QED
    BY <1>0, <1>4, <2>1, <2>2, <2>3, <2>4
    DEF ReconcileProviderAttempt, OnceInv, Undebited
<1>5. CASE SIWCHumanReview
  BY <1>0, <1>5 DEF SIWCHumanReview
<1>6. CASE ContinueTask
  BY <1>0, <1>6 DEF ContinueTask, GoOn, OnceInv, Undebited
<1>7. QED
  BY <1>1, <1>2, <1>3, <1>4, <1>5, <1>6 DEF Restart

\* No attempt is debited twice, by TX 2 and recovery or by two recoveries, in
\* any number of processes.
THEOREM DebitedOnceHolds ==
  ASSUME Sequential
  PROVE  Spec => []DebitedOnce
<1>1. Init => OnceInv
  BY DEF Init, OnceInv, Undebited, Clear, Units
<1>2. BaseInv /\ OnceInv /\ [Next]_vars => OnceInv'
  <2>1. ASSUME OnceInv, UNCHANGED vars PROVE OnceInv'
    BY <2>1 DEF vars, OnceInv, Undebited, Units, receiptAware
  <2>2. QED
    BY <2>1, ExecuteKeepsOnce, RestartKeepsOnce DEF Next
<1>3. OnceInv => DebitedOnce
  BY DEF OnceInv, DebitedOnce
<1>4. QED
  BY <1>1, <1>2, <1>3, BaseInvHolds, PTL DEF Spec

-----------------------------------------------------------------------------
(* A task runs only when its interrupted attempts are settled.              *)

\* A task without a row has no attempt, a process belongs to a task with one,
\* and while it runs nothing of its task is both dead and unsettled.
SettledInv ==
  /\ \A a \in Attempts : status[TaskOf[a]] = "none" => pc[a] = "new"
  /\ proc # "down" => status[task] # "none"
  /\ SettledBeforeRunning

LEMMA ExecuteKeepsSettled ==
  ASSUME NEW a \in Attempts, BaseInv, SettledInv, Execute(a)
  PROVE  SettledInv'
<1> USE JournalAssumption DEF BaseInv, TypeOK, PCs, SettledInv, SettledBeforeRunning
<1>1. CASE Start(a)
  BY <1>1 DEF Start
<1>2. CASE CaptureIntent(a) \/ CaptureOutcome(a)
  BY <1>2 DEF CaptureIntent, CaptureOutcome, Capture
<1>3. CASE RecordProviderPrepared(a) \/ RecordProviderFinished(a)
  BY <1>3 DEF RecordProviderPrepared, RecordProviderFinished
<1>4. CASE CancelAfterStart(a) \/ OutcomeNotPersisted(a)
  BY <1>4 DEF CancelAfterStart, OutcomeNotPersisted
<1>5. CASE Complete(a)
  BY <1>5 DEF Complete
<1>6. CASE Finishes(a)
  BY <1>6, FinishSettles DEF Settle
<1>7. QED
  BY <1>1, <1>2, <1>3, <1>4, <1>5, <1>6 DEF Execute, Finishes

LEMMA RestartKeepsSettled ==
  ASSUME BaseInv, SettledInv, FinalizeTask \/ Die \/ Restart
  PROVE  SettledInv'
<1> USE JournalAssumption DEF BaseInv, TypeOK, PCs, SettledInv, SettledBeforeRunning
<1>1. CASE FinalizeTask \/ RecoveryBlocked \/ SIWCHumanReview
  BY <1>1 DEF FinalizeTask, RecoveryBlocked, SIWCHumanReview
<1>2. CASE Die
  BY <1>2 DEF Die, Busy
<1>3. ASSUME NEW t \in Tasks, RunTask(t) PROVE SettledInv'
  BY <1>3 DEF RunTask
<1>4. ASSUME NEW t \in Tasks, Resume(t) PROVE SettledInv'
  BY <1>4 DEF Resume
<1>5. ASSUME NEW a \in Attempts, ReconcileProviderAttempt(a) PROVE SettledInv'
  BY <1>5 DEF ReconcileProviderAttempt
<1>6. CASE ContinueTask
  BY <1>6 DEF ContinueTask, GoOn, Reconciled, Interrupted
<1>7. QED
  BY <1>1, <1>2, <1>3, <1>4, <1>5, <1>6 DEF Restart

\* A resumed task runs only when each of its interrupted attempts is settled,
\* however many resumes died on the way there.
THEOREM SettledBeforeRunningHolds ==
  ASSUME Sequential
  PROVE  Spec => []SettledBeforeRunning
<1>1. Init => SettledInv
  BY DEF Init, SettledInv, SettledBeforeRunning
<1>2. BaseInv /\ SettledInv /\ [Next]_vars => SettledInv'
  <2>1. ASSUME SettledInv, UNCHANGED vars PROVE SettledInv'
    BY <2>1 DEF vars, SettledInv, SettledBeforeRunning
  <2>2. QED
    BY <2>1, ExecuteKeepsSettled, RestartKeepsSettled DEF Next
<1>3. SettledInv => SettledBeforeRunning
  BY DEF SettledInv
<1>4. QED
  BY <1>1, <1>2, <1>3, BaseInvHolds, PTL DEF Spec

=============================================================================
