----------------------------- MODULE AgentLoop -----------------------------
(***************************************************************************)
(* One task from its first model turn to its end: the agent loop           *)
(* (internal/agent/loop.go, guard.go), policy and operator approvals       *)
(* (internal/policy, state/write_policy.go, approval_flow.go), tool        *)
(* attempts with their TX 1, effect and TX 2 (state/tool_attempts.go,      *)
(* tools/write_file.go), verification and finalization, and the recovery   *)
(* of an interrupted task (internal/recovery).                             *)
(*                                                                         *)
(* A step is one store transaction, one observation of the workspace or    *)
(* one effect on it.  Between any two of them the process may die, the     *)
(* context may end, the operator may decide and somebody may edit the      *)
(* file.  The workspace is one file; its signature is `version', which     *)
(* every change of the file moves (size, time and content are hashed).     *)
(***************************************************************************)
EXTENDS Naturals, Sequences, FiniteSets

CONSTANTS
  Proposals,      \* the actions the model may propose; one fingerprint each
  Kind,           \* [Proposals -> {"read", "write_file", "apply_patch", "run_recipe"}]
  Mode,           \* [Proposals -> {"allow", "deny", "approval_required"}]
  Contents, FirstContent,
  Before, After,  \* [Proposals -> Contents]: what a write expects and leaves
  None,
  MaxSteps, MaxCorrections, MaxRepeatedActions,
  MaxConsecutiveFailures, MaxVerificationRetries,
  MaxFaults,      \* bound on deaths, store and file errors, endings of the context, blocked resumes
  MaxEdits        \* bound on edits by somebody else

Kinds == {"read", "write_file", "apply_patch", "run_recipe"}
Exits == {"zero", "nonzero"}
Seen == "seen"
Evidence == Contents \cup Exits \cup {Seen}

ASSUME LoopAssumption ==
  /\ Kind \in [Proposals -> Kinds]
  /\ Mode \in [Proposals -> {"allow", "deny", "approval_required"}]
  /\ FirstContent \in Contents
  /\ Before \in [Proposals -> Contents] /\ After \in [Proposals -> Contents]
  /\ None \notin Evidence /\ Contents \cap (Exits \cup {Seen}) = {}
  /\ MaxSteps \in Nat /\ MaxCorrections \in Nat /\ MaxRepeatedActions \in Nat
  /\ MaxConsecutiveFailures \in Nat /\ MaxVerificationRetries \in Nat
  /\ MaxFaults \in Nat /\ MaxEdits \in Nat

VARIABLES
  status, outcome,     \* the task row
  log,                 \* actions in order, each with its policy decision and tool attempt
  approvals,           \* operator decisions, by fingerprint
  verifications,       \* decisions of the persisted verification attempts
  turns,               \* provider attempt rows of the task
  file, version,       \* the workspace
  pc,                  \* where the process is, "down" when there is none
  ctx,                 \* "live", "canceled" or "deadline"
  cur,                 \* what the running handler holds
  run, guard,          \* runState and repeatGuard
  review,              \* attempts this recovery escalated
  ran,                 \* history: entries of log whose effect happened
  faults, edits

task == <<status, outcome>>
store == <<status, outcome, log, approvals, verifications, turns>>
disk == <<file, version, ran, edits>>
memory == <<cur, run, guard, review>>
vars == <<store, disk, pc, ctx, memory, faults>>

(* ------------------------------- state -------------------------------- *)

Terminal == {"completed", "canceled", "failed", "human_review_required"}
Gated(p) == Kind[p] # "read"
IsWriteTool(p) == Kind[p] \in {"write_file", "apply_patch"}

\* The signature of a workspace that could not be probed.  No signature equals it,
\* so a guard that holds it is a guard without a record.
NoSig == 0

FreshRun == [corrections |-> 0, repeated |-> 0, failures |-> 0, retries |-> 0]
NoGuard == [p \in Proposals |-> NoSig]
Idle == [prop |-> None, decision |-> "none", evidence |-> None,
         grounded |-> TRUE, cited |-> TRUE, report |-> "none", outcome |-> ""]

NewAction(p, sig) ==
  [prop |-> p, sig |-> sig, status |-> "planned", decision |-> "none",
   attempt |-> "none", planned |-> None, reason |-> "", evidence |-> None]

n == Len(log)
prop == log[n].prop
Indices == 1..Len(log)

\* An attempt whose effect is not known.
Unsettled == {i \in Indices : log[i].attempt \in {"prepared", "human_review_required"}}

\* MUTANT of PendingApprovals: only the latest action is looked at.
PendingLatestOnly ==
  {i \in Indices : i = n /\ log[i].decision = "approval_required"
                   /\ approvals[log[i].prop] = "none"}

\* approval_required decisions whose fingerprint the operator has not decided.
PendingApprovals ==
  {i \in Indices : log[i].decision = "approval_required"
                   /\ approvals[log[i].prop] = "none"}

Least(S) == CHOOSE i \in S : \A j \in S : i <= j
Greatest(S) == CHOOSE i \in S : \A j \in S : j <= i

Init ==
  /\ status = "planned" /\ outcome = ""
  /\ log = << >>
  /\ approvals = [p \in Proposals |-> "none"]
  /\ verifications = << >>
  /\ turns = 0
  /\ file = FirstContent /\ version = 1
  /\ pc = "start" /\ ctx = "live"
  /\ cur = Idle /\ run = FreshRun /\ guard = NoGuard /\ review = {}
  /\ ran = {} /\ faults = 0 /\ edits = 0

(* ------------------------- ways out of a handler ---------------------- *)

\* stop() of a terminal outcome: FinalizeTask comes next.
Stop(reason) ==
  /\ pc' = "finalize"
  /\ cur' = [Idle EXCEPT !.outcome = reason]

\* stop() of a pause: the task stays running and resumable.
Pause(reason) ==
  /\ pc' = "pause"
  /\ cur' = [Idle EXCEPT !.outcome = reason]

NextTurn == pc' = "head" /\ cur' = Idle

\* The process is gone and with it everything it remembered.
Leave ==
  /\ pc' = "down" /\ ctx' = "live"
  /\ cur' = Idle /\ run' = FreshRun /\ guard' = NoGuard /\ review' = {}

\* Something of the world fails.
Fault == faults < MaxFaults /\ faults' = faults + 1

StartTask ==
  /\ pc = "start" /\ status = "planned"
  /\ status' = "running" /\ pc' = "head"
  /\ UNCHANGED <<outcome, log, approvals, verifications, turns, disk, ctx, memory, faults>>

(* ------------------------------ model turn ---------------------------- *)

\* The head of the loop ends the run when the context or the budget has ended.
StopAtHead ==
  /\ pc = "head"
  /\ \/ ctx = "canceled" /\ Stop("canceled")
     \/ ctx = "deadline" /\ Stop("time_budget_exhausted")
     \/ ctx = "live" /\ turns >= MaxSteps /\ Stop("steps_exhausted")
  /\ UNCHANGED <<store, disk, ctx, run, guard, review, faults>>

\* One governed provider attempt; its row counts against MaxSteps also after a restart.
ModelTurn(turn) ==
  /\ pc = "head" /\ ctx = "live" /\ turns < MaxSteps
  /\ turns' = turns + 1
  /\ turn
  /\ UNCHANGED <<task, log, approvals, verifications, disk, ctx, guard, review, faults>>

\* A refused admission, a failed or empty answer, a context that ends during the
\* call, or an answer whose outcome could not be persisted.
ProviderFails ==
  ModelTurn(/\ \/ Stop("provider_failure")
               \/ Stop("canceled")
               \/ Pause("persistence_paused")
            /\ UNCHANGED run)

\* A correction for a parse failure or for a denied effect.
Correction ==
  IF run.corrections >= MaxCorrections
  THEN Stop("corrections_exhausted") /\ UNCHANGED run
  ELSE NextTurn /\ run' = [run EXCEPT !.corrections = @ + 1]

\* Some parse failures are beyond correction.
ParseFails ==
  ModelTurn(\/ Correction
            \/ Stop("corrections_exhausted") /\ UNCHANGED run)

ProposeAction(p) ==
  ModelTurn(pc' = "record" /\ cur' = [Idle EXCEPT !.prop = p] /\ UNCHANGED run)

\* A final response cites at least one observation; grounded says that all exist.
ProposeFinal(complete, grounded) ==
  ModelTurn(/\ grounded => \E i \in Indices : log[i].evidence # None
            /\ IF ~complete /\ ~grounded
               THEN Stop("final_not_grounded")
               ELSE /\ pc' = IF complete THEN "final" ELSE "incomplete"
                    /\ cur' = [Idle EXCEPT !.grounded = grounded, !.cited = grounded]
            /\ UNCHANGED run)

(* ------------------------- policy and repeat guard -------------------- *)

\* The workspace is probed once per action, for the row and for the guard; a file
\* that cannot be read leaves the action without a signature.
RecordAction ==
  /\ pc = "record" /\ ctx = "live"
  /\ \/ log' = Append(log, NewAction(cur.prop, version)) /\ UNCHANGED faults
     \/ log' = Append(log, NewAction(cur.prop, NoSig)) /\ Fault
  /\ pc' = IF Gated(cur.prop) THEN "evaluate" ELSE "guard"
  /\ UNCHANGED <<task, approvals, verifications, turns, disk, ctx, memory>>

\* MUTANT of Evaluate: any decision of the operator counts as an approval.
EvaluateAnyDecision(p) ==
  CASE Mode[p] = "allow" -> "allowed"
    [] Mode[p] = "deny" -> "denied"
    [] OTHER -> IF approvals[p] # "none" THEN "allowed" ELSE "approval_required"

Evaluate(p) ==
  CASE Mode[p] = "allow" -> "allowed"
    [] Mode[p] = "deny" -> "denied"
    [] OTHER -> CASE approvals[p] = "approved" -> "allowed"
                  [] approvals[p] = "rejected" -> "denied"
                  [] OTHER -> "approval_required"

\* The operator's decision is read before the policy decision is persisted; when it
\* cannot be read, the answer is to ask the operator.
EvaluatePolicy ==
  /\ pc = "evaluate"
  /\ pc' = "decide"
  /\ \/ cur' = [cur EXCEPT !.decision = Evaluate(prop)] /\ UNCHANGED faults
     \/ Mode[prop] = "approval_required" /\ Fault
        /\ cur' = [cur EXCEPT !.decision = "approval_required"]
  /\ UNCHANGED <<store, disk, ctx, run, guard, review>>

RecordPolicyDecision ==
  /\ pc = "decide" /\ ctx = "live"
  /\ log' = [log EXCEPT ![n].decision = cur.decision]
  /\ \/ cur.decision = "denied" /\ pc' = "deny" /\ UNCHANGED cur
     \/ cur.decision = "approval_required" /\ Pause("approval_required")
     \/ cur.decision = "allowed" /\ pc' = "guard" /\ UNCHANGED cur
  /\ UNCHANGED <<task, approvals, verifications, turns, disk, ctx, run, guard, review, faults>>

RejectDenied ==
  /\ pc = "deny" /\ ctx = "live"
  /\ log' = [log EXCEPT ![n].status = "rejected"]
  /\ Correction
  /\ UNCHANGED <<task, approvals, verifications, turns, disk, ctx, guard, review, faults>>

\* repeat: the same fingerprint under the signature recorded for it.
Repeats == guard[prop] = log[n].sig /\ log[n].sig # NoSig

RejectRepeated ==
  /\ pc = "guard" /\ ctx = "live" /\ Repeats
  /\ log' = [log EXCEPT ![n].status = "rejected"]
  /\ run' = [run EXCEPT !.repeated = @ + 1]
  /\ IF run.repeated + 1 > MaxRepeatedActions
     THEN Stop("repeated_action") ELSE NextTurn
  /\ UNCHANGED <<task, approvals, verifications, turns, disk, ctx, guard, review, faults>>

(* ------------------------------ tool attempt -------------------------- *)

\* The after-state hash persisted with the intent.  A patch is planned on the
\* file as it is, and fails to apply to anything but what it was written for.
PlanWrite(p) ==
  CASE Kind[p] = "write_file" -> After[p]
    [] Kind[p] = "apply_patch" -> IF file = Before[p] THEN After[p] ELSE None
    [] OTHER -> None

\* TX 1.
PrepareToolAttempt ==
  /\ pc = "guard" /\ ctx = "live" /\ ~Repeats
  /\ log' = [log EXCEPT ![n].status = "prepared", ![n].attempt = "prepared",
                        ![n].planned = PlanWrite(prop)]
  /\ pc' = "execute"
  /\ UNCHANGED <<task, approvals, verifications, turns, disk, ctx, memory, faults>>

Returned(evidence) == pc' = "commit" /\ cur' = [cur EXCEPT !.evidence = evidence]

ExecuteRead ==
  /\ pc = "execute" /\ Kind[prop] = "read"
  /\ \/ ctx = "live" /\ Returned(Seen)
     \/ Returned(None)
  /\ UNCHANGED <<store, disk, ctx, run, guard, review, faults>>

\* A started process leaves an exit code, also when it is killed.  What it does to
\* the file is an Edit.
ExecuteRecipe ==
  /\ pc = "execute" /\ Kind[prop] = "run_recipe"
  /\ \/ /\ ctx = "live"
        /\ \E e \in Exits : Returned(e)
        /\ ran' = ran \cup {n}
     \/ Returned(None) /\ UNCHANGED ran
  /\ UNCHANGED <<store, file, version, edits, ctx, run, guard, review, faults>>

\* The last revalidation before the rename: stale or canceled writes end here,
\* a write that changes nothing is done.
ValidateWrite ==
  /\ pc = "execute" /\ IsWriteTool(prop)
  /\ IF ctx # "live" \/ file # Before[prop]
     THEN Returned(None)
     ELSE IF Before[prop] = After[prop] THEN Returned(After[prop])
                                        ELSE pc' = "rename" /\ UNCHANGED cur
  /\ UNCHANGED <<store, disk, ctx, run, guard, review, faults>>

\* os.Rename.  An edit since the validation is lost: there is no compare-and-swap.
RenameWrite ==
  /\ pc = "rename"
  /\ file' = After[prop] /\ version' = version + 1 /\ ran' = ran \cup {n}
  /\ pc' = "observe"
  /\ UNCHANGED <<store, edits, ctx, memory, faults>>

ObserveWrite ==
  /\ pc = "observe"
  /\ Returned(IF file = After[prop] THEN After[prop] ELSE None)
  /\ UNCHANGED <<store, disk, ctx, run, guard, review, faults>>

\* Before the rename nothing has happened; after it, the write is reported as failed
\* although the file has changed.
WriteFails ==
  /\ pc \in {"rename", "observe"} /\ Fault
  /\ Returned(None)
  /\ UNCHANGED <<store, disk, ctx, run, guard, review>>

\* failureCountedForGuard, on the outcome as it was observed or persisted.
CountsAsFailure(evidence) == evidence \in {None, "nonzero"}

\* TX 2, then the failure guard and the repeat guard's record.
CompleteToolAttempt ==
  /\ pc = "commit" /\ ctx = "live"
  /\ LET result == IF cur.evidence = None THEN "failed" ELSE "completed" IN
     log' = [log EXCEPT ![n].attempt = result, ![n].status = result,
                        ![n].evidence = cur.evidence]
  /\ LET failures == IF CountsAsFailure(cur.evidence) THEN run.failures + 1 ELSE 0 IN
     /\ run' = [run EXCEPT !.failures = failures]
     /\ IF failures > MaxConsecutiveFailures
        THEN Stop("consecutive_failures_exhausted") /\ UNCHANGED guard
        ELSE NextTurn /\ guard' = [guard EXCEPT ![prop] = log[n].sig]
  /\ UNCHANGED <<task, approvals, verifications, turns, disk, ctx, review, faults>>

(* ------------------------- completion proposals ----------------------- *)

\* handleFinal reads the pending approvals before anything else is decided.
HandleFinal ==
  /\ pc \in {"final", "incomplete"} /\ ctx = "live"
  /\ IF PendingApprovals # {}
     THEN Pause("approval_required")
     ELSE IF pc = "incomplete" THEN Stop("final_incomplete")
          ELSE pc' = "verify" /\ UNCHANGED cur
  /\ UNCHANGED <<store, disk, ctx, run, guard, review, faults>>

\* reconcileWrites: the latest persisted write evidence is what the file holds.
WritesReconciled ==
  LET writes == {i \in Indices : IsWriteTool(log[i].prop) /\ log[i].evidence # None}
  IN  writes # {} => file = log[Greatest(writes)].evidence

\* Verify: uncertain wins over blocked, blocked over failed.
\* `accepted' is the worst result of the operator's own checks.
Decision(grounded, accepted) ==
  IF Unsettled # {} THEN "uncertain"
  ELSE IF PendingApprovals # {} \/ accepted = "blocked" THEN "blocked"
  ELSE IF ~grounded \/ ~WritesReconciled \/ accepted = "failed" THEN "failed"
  ELSE "passed"

Verify(accepted) ==
  /\ pc = "verify" /\ ctx = "live"
  /\ pc' = "save"
  /\ cur' = [cur EXCEPT !.report = Decision(cur.grounded, accepted)]
  /\ UNCHANGED <<store, disk, ctx, run, guard, review, faults>>

\* Without its snapshot of the store the verifier finds none of the cited evidence.
VerifyBlind(accepted) ==
  /\ pc = "verify"
  /\ \/ ctx # "live" /\ UNCHANGED faults
     \/ ctx = "live" /\ Fault
  /\ pc' = "save"
  /\ cur' = [cur EXCEPT !.cited = FALSE,
                         !.report = IF accepted = "blocked" THEN "blocked" ELSE "failed"]
  /\ UNCHANGED <<store, disk, ctx, run, guard, review>>

\* What handleFinal does with a report that neither passed nor failed.
Refused(cited) == IF cited THEN Pause("verification_blocked") ELSE Stop("final_not_grounded")

SaveVerificationAttempt ==
  /\ pc = "save" /\ ctx = "live"
  /\ verifications' = Append(verifications, cur.report)
  /\ CASE cur.report = "passed" -> Stop("completed") /\ UNCHANGED run
       [] cur.report = "failed" ->
            /\ run' = [run EXCEPT !.retries = @ + 1]
            /\ IF run.retries + 1 > MaxVerificationRetries
               THEN Stop(IF cur.cited THEN "verification_failures_exhausted"
                                      ELSE "final_not_grounded")
               ELSE NextTurn
       [] OTHER -> Refused(cur.cited) /\ UNCHANGED run
  /\ UNCHANGED <<task, log, approvals, turns, disk, ctx, guard, review, faults>>

(* ----------------------------- end of a run --------------------------- *)

terminalStatus(reason) ==
  IF reason \in {"completed", "canceled"} THEN reason ELSE "failed"

MayComplete ==
  /\ PendingApprovals = {}
  /\ verifications # << >> /\ verifications[Len(verifications)] = "passed"

FinalizeTask ==
  /\ pc = "finalize"
  /\ IF cur.outcome = "completed" /\ ~MayComplete
     THEN UNCHANGED task
     ELSE /\ status' = terminalStatus(cur.outcome)
          /\ outcome' = cur.outcome
  /\ Leave
  /\ UNCHANGED <<log, approvals, verifications, turns, disk, faults>>

\* MarkTaskApprovalRequired, MarkTaskVerificationPaused, MarkTaskPersistencePaused.
MarkTaskPaused ==
  /\ pc = "pause"
  /\ outcome' = cur.outcome
  /\ Leave
  /\ UNCHANGED <<status, log, approvals, verifications, turns, disk, faults>>

\* MUTANT of OnStoreError: a failed TX 2 ends the task like any other store error.
OnStoreErrorNoPause ==
  IF pc = "save" THEN Refused(cur.grounded) ELSE Stop("persistence_failure")

\* A store error, or a transaction begun under a context that has ended.  TX 2 leaves
\* the attempt prepared and pauses, the verification is refused, all else fails the task.
OnStoreError ==
  CASE pc = "commit" -> Pause("persistence_paused")
    [] pc = "save" -> Refused(cur.grounded)
    [] OTHER -> Stop("persistence_failure")

StoreFails ==
  /\ pc \in {"record", "decide", "deny", "guard", "commit", "final", "incomplete", "save"}
  /\ \/ ctx # "live" /\ UNCHANGED faults
     \/ ctx = "live" /\ Fault
  /\ OnStoreError
  /\ UNCHANGED <<store, disk, ctx, run, guard, review>>

\* FinalizeTask and the pauses run without the context; a store error ends the run.
LastWriteFails ==
  /\ pc \in {"finalize", "pause"} /\ Fault
  /\ Leave
  /\ UNCHANGED <<store, disk>>

(* ------------------------------ recovery ------------------------------ *)

MarkRecoveryStarted ==
  /\ pc = "down" /\ status \notin Terminal
  /\ status' = "running" /\ outcome' = ""
  /\ pc' = "reconcile"
  /\ UNCHANGED <<log, approvals, verifications, turns, disk, ctx, memory, faults>>

\* MUTANT of Escalates: an unknown write is reconciled like a missing one.
EscalatesRecipesOnly(reason) == reason = "unreconcilable_effect"

\* ReconcileWrite: what the file shows about an interrupted write.
ReconcileWrite(i) ==
  IF file = Before[log[i].prop] THEN "write_effect_not_started"
  ELSE IF log[i].planned # None /\ file = log[i].planned THEN "write_effect_completed"
  ELSE "write_effect_unreconcilable"

\* classifyToolAttempt and, for writes, the observation of the file.
Classify(i) ==
  CASE Kind[log[i].prop] = "read" -> "replay_safe_observation"
    [] IsWriteTool(log[i].prop) -> ReconcileWrite(i)
    [] OTHER -> "unreconcilable_effect"

\* A file that cannot be read shows nothing.
Unreadable(i) ==
  IF IsWriteTool(log[i].prop) THEN {"write_effect_unreconcilable"} ELSE {}

Escalates(reason) == reason \in {"write_effect_unreconcilable", "unreconcilable_effect"}

\* MUTANT of Reconciled: a completed write leaves no evidence.
ReconciledWithoutEvidence(i, reason) ==
  CASE Escalates(reason) ->
         [log[i] EXCEPT !.attempt = "human_review_required",
                        !.status = "human_review_required", !.reason = reason]
    [] reason = "write_effect_completed" ->
         [log[i] EXCEPT !.attempt = "reconciled", !.status = "completed", !.reason = reason]
    [] OTHER -> [log[i] EXCEPT !.attempt = "reconciled", !.reason = reason]

Reconciled(i, reason) ==
  CASE Escalates(reason) ->
         [log[i] EXCEPT !.attempt = "human_review_required",
                        !.status = "human_review_required", !.reason = reason]
    [] reason = "write_effect_completed" ->
         [log[i] EXCEPT !.attempt = "reconciled", !.status = "completed",
                        !.reason = reason, !.evidence = file]
    [] OTHER -> [log[i] EXCEPT !.attempt = "reconciled", !.reason = reason]

\* The attempts of the snapshot this recovery has not been through.
ToReconcile == Unsettled \ review

ReconcileToolAttempt ==
  /\ pc = "reconcile" /\ ctx = "live" /\ ToReconcile # {}
  /\ LET i == Least(ToReconcile) IN
     /\ log[i].attempt = "prepared"
     /\ \E reason \in {Classify(i)} \cup Unreadable(i) :
          /\ log' = [log EXCEPT ![i] = Reconciled(i, reason)]
          /\ review' = IF Escalates(reason) THEN review \cup {i} ELSE review
  /\ UNCHANGED <<task, approvals, verifications, turns, disk, pc, ctx, cur, run, guard, faults>>

\* An attempt that already needs review cannot be reconciled: the resume fails.
ResumeRefused ==
  /\ pc = "reconcile" /\ ctx = "live" /\ ToReconcile # {}
  /\ log[Least(ToReconcile)].attempt = "human_review_required"
  /\ Leave
  /\ UNCHANGED <<store, disk, faults>>

MarkHumanReviewRequired ==
  /\ pc = "reconcile" /\ ctx = "live" /\ ToReconcile = {} /\ review # {}
  /\ status' = "human_review_required" /\ outcome' = "human_review_required"
  /\ Leave
  /\ UNCHANGED <<log, approvals, verifications, turns, disk, faults>>

\* MUTANT of Executed: only what completed was executed.
ExecutedIfCompleted(i) == log[i].attempt = "completed"

\* reconstructedGuard: the signature of the first execution of each fingerprint.
Executed(i) ==
  \/ log[i].attempt \in {"completed", "failed"}
  \/ log[i].attempt = "reconciled" /\ log[i].reason = "write_effect_completed"

reconstructedGuard ==
  [p \in Proposals |->
     LET done == {i \in Indices : log[i].prop = p /\ Executed(i)}
     IN  IF done = {} THEN NoSig ELSE log[Least(done)].sig]

toolAttemptCountedAsFailure(i) ==
  \/ log[i].attempt = "failed"
  \/ log[i].attempt = "completed" /\ log[i].evidence = "nonzero"

trailingToolFailures ==
  LET attempts == {i \in Indices : log[i].attempt # "none"}
  IN  Cardinality({i \in attempts : \A j \in attempts :
                     j >= i => toolAttemptCountedAsFailure(j)})

trailingVerificationFailures ==
  Cardinality({i \in DOMAIN verifications : \A j \in DOMAIN verifications :
                 j >= i => verifications[j] = "failed"})

rejectedCount == Cardinality({i \in Indices : log[i].status = "rejected"})

\* MUTANT of ContinueTask: a resumed task gets a new budget of turns.
ContinueWithNewBudget ==
  /\ pc = "reconcile" /\ ctx = "live" /\ ToReconcile = {} /\ review = {}
  /\ turns' = 0
  /\ guard' = reconstructedGuard
  /\ run' = [FreshRun EXCEPT !.repeated = rejectedCount]
  /\ NextTurn
  /\ UNCHANGED <<task, log, approvals, verifications, disk, ctx, review, faults>>

\* buildSeed; the corrections start again at zero.
ContinueTask ==
  /\ pc = "reconcile" /\ ctx = "live" /\ ToReconcile = {} /\ review = {}
  /\ run' = [FreshRun EXCEPT !.repeated = rejectedCount,
                             !.failures = trailingToolFailures,
                             !.retries = trailingVerificationFailures]
  /\ guard' = reconstructedGuard
  /\ NextTurn
  /\ UNCHANGED <<store, disk, ctx, review, faults>>

\* The restored governor blocks, a store error, or a context that has ended.
RecoveryStops ==
  /\ pc = "reconcile"
  /\ \/ ctx # "live" /\ UNCHANGED faults
     \/ ctx = "live" /\ Fault
  /\ Leave
  /\ UNCHANGED <<store, disk>>

(* ---------------------------- environment ----------------------------- *)

\* runstead decide, from another process: only what is pending can be decided.
Decide(p, decision) ==
  /\ \E i \in PendingApprovals : log[i].prop = p
  /\ approvals' = [approvals EXCEPT ![p] = decision]
  /\ UNCHANGED <<task, log, verifications, turns, disk, pc, ctx, memory, faults>>

\* A death inside a write may leave its temporary file behind.
Die ==
  /\ pc # "down" /\ Fault
  /\ Leave
  /\ version' \in IF pc = "rename" THEN {version, version + 1} ELSE {version}
  /\ UNCHANGED <<store, file, ran, edits>>

EndContext(how) ==
  /\ pc # "down" /\ ctx = "live" /\ Fault
  /\ ctx' = how
  /\ UNCHANGED <<store, disk, pc, memory>>

Edit(content) ==
  /\ edits < MaxEdits /\ content # file
  /\ edits' = edits + 1
  /\ file' = content /\ version' = version + 1
  /\ UNCHANGED <<store, ran, pc, ctx, memory, faults>>

(* ---------------------------- specification --------------------------- *)

Turn ==
  \/ ProviderFails \/ ParseFails
  \/ \E p \in Proposals : ProposeAction(p)
  \/ \E complete, grounded \in BOOLEAN : ProposeFinal(complete, grounded)

Act ==
  \/ RecordAction \/ EvaluatePolicy \/ RecordPolicyDecision \/ RejectDenied
  \/ RejectRepeated \/ PrepareToolAttempt
  \/ ExecuteRead \/ ExecuteRecipe \/ ValidateWrite \/ RenameWrite \/ ObserveWrite \/ WriteFails
  \/ CompleteToolAttempt

Conclude ==
  \/ HandleFinal \/ SaveVerificationAttempt
  \/ \E accepted \in {"passed", "failed", "blocked"} : Verify(accepted) \/ VerifyBlind(accepted)
  \/ StopAtHead \/ FinalizeTask \/ MarkTaskPaused

Recover ==
  \/ ReconcileToolAttempt \/ ResumeRefused \/ MarkHumanReviewRequired \/ ContinueTask

Process == StartTask \/ Turn \/ Act \/ Conclude \/ Recover \/ StoreFails \/ RecoveryStops

Environment ==
  \/ LastWriteFails \/ Die
  \/ \E how \in {"canceled", "deadline"} : EndContext(how)
  \/ \E p \in Proposals, d \in {"approved", "rejected"} : Decide(p, d)
  \/ \E c \in Contents : Edit(c)

Next == Process \/ MarkRecoveryStarted \/ Environment

Spec == Init /\ [][Next]_vars

\* A running process takes its next step, and somebody resumes an interrupted task.
FairSpec == Spec /\ WF_vars(Process) /\ WF_vars(MarkRecoveryStarted)

(* ----------------------------- properties ----------------------------- *)

Entry == [prop : Proposals, sig : Nat,
          status : {"planned", "prepared", "rejected", "completed", "failed",
                    "human_review_required"},
          decision : {"none", "allowed", "denied", "approval_required"},
          attempt : {"none", "prepared", "completed", "failed", "reconciled",
                     "human_review_required"},
          planned : Contents \cup {None},
          reason : {"", "replay_safe_observation", "unreconcilable_effect",
                    "write_effect_not_started", "write_effect_completed",
                    "write_effect_unreconcilable"},
          evidence : Evidence \cup {None}]

\* The store, the workspace and the loop's memory hold only values their columns and
\* fields admit, and the effects recorded are of actions that exist.
TypeOK ==
  /\ status \in {"planned", "running"} \cup Terminal
  /\ log \in Seq(Entry)
  /\ approvals \in [Proposals -> {"none", "approved", "rejected"}]
  /\ verifications \in Seq({"passed", "failed", "blocked", "uncertain"})
  /\ turns \in 0..MaxSteps
  /\ file \in Contents /\ version \in Nat
  /\ ctx \in {"live", "canceled", "deadline"}
  /\ run \in [corrections : 0..MaxCorrections, repeated : Nat, failures : Nat, retries : Nat]
  /\ guard \in [Proposals -> Nat]
  /\ review \subseteq Indices /\ ran \subseteq Indices
  /\ faults \in 0..MaxFaults /\ edits \in 0..MaxEdits

\* A task is closed as completed, failed or canceled only when every tool attempt is
\* settled: whatever fails between an effect and its TX 2, the task stays where resume
\* reaches it, since FinalizeTask would make the unknown effect unreachable for ever.
UncertainStaysReachable ==
  status \in {"completed", "failed", "canceled"} => Unsettled = {}

\* No gated effect without authority: its decision was persisted as allowed, and where
\* the policy asks for the operator, the operator approved that fingerprint, also when
\* the answer came after a pause, a crash or a second proposal.
EffectAuthorized ==
  \A i \in ran : Gated(log[i].prop) =>
    /\ log[i].decision = "allowed"
    /\ Mode[log[i].prop] = "approval_required" => approvals[log[i].prop] = "approved"

\* No blind replay: a step that has an effect is taken only when no other attempt of the
\* task is left with an unknown effect, whatever crash or resume came between them, and
\* none was settled although the workspace did not show what it had done.
NoBlindReplay ==
  [][ran' # ran => \A i \in Indices \ {n} :
       /\ log[i].attempt \in {"none", "completed", "failed", "reconciled"}
       /\ log[i].reason \notin {"write_effect_unreconcilable", "unreconcilable_effect"}
    ]_vars

\* The entries of p that were executed.
ExecutionsOf(p) ==
  {i \in Indices : log[i].prop = p /\
     \/ log[i].attempt \in {"completed", "failed"}
     \/ log[i].reason = "write_effect_completed"}

\* The repeat guard survives a restart: no attempt starts under the workspace signature of
\* the first execution of the same fingerprint, unless an execution between them found the
\* workspace unreadable and left the guard without a signature.
RepeatGuarded ==
  \A p \in Proposals : \A j \in Indices :
    LET earlier == {i \in ExecutionsOf(p) : i < j}
    IN  log[j].prop = p /\ log[j].attempt # "none" /\ earlier # {} =>
          \/ log[j].sig # log[Least(earlier)].sig
          \/ \E i \in earlier : log[i].sig = NoSig

\* The store knows the workspace: while nobody else edits the file and every attempt is
\* settled, the file holds what the latest persisted write evidence says, through any
\* death between the rename and TX 2 and any reconciliation after it.  The exception is
\* a file that cannot be read back after the rename: that write is persisted as failed.
EvidenceDescribesFile ==
  LET writes == {i \in Indices : IsWriteTool(log[i].prop) /\ log[i].evidence # None}
  IN  edits = 0 /\ Unsettled = {} /\ (\A i \in ran : log[i].attempt # "failed") =>
        file = IF writes = {} THEN FirstContent ELSE log[Greatest(writes)].evidence

\* A completed task has no decision waiting for the operator, no unknown effect and a
\* passed verification as its last word, although resumes and decisions come between.
CompletedIsSettled ==
  status = "completed" =>
    /\ \A i \in Indices : log[i].decision = "approval_required" => approvals[log[i].prop] # "none"
    /\ Unsettled = {}
    /\ verifications[Len(verifications)] = "passed"

\* A task that is resumed whenever it stops comes to an end, or has an attempt a human must
\* look at: pauses for approval, failed verifications and crashes cannot go on for ever,
\* because the turn budget is counted in the store.
TaskEnds ==
  <>[](\/ status \in Terminal
       \/ \E i \in Indices : log[i].attempt = "human_review_required")

\* A second resume completes what a crashed resume began: a task resumed whenever it stops
\* ends, as the persistence guide says of a crash during recovery.
ResumeEnds == <>[](status \in Terminal)

=============================================================================
