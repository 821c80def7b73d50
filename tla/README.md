# Runstead in TLA+

Runstead runs one model account against a repository: an agent loop asks a
provider for the next action, executes tools, and journals everything in a
SQLite store so that a killed process can be resumed. What can go wrong without
any single function being wrong lies between the parts: several loops share one
account, a call to the provider cannot be undone, and the process may die between
any two transactions. This directory models those parts, checks them with TLC on
small instances, and proves the central safety properties with TLAPS.

Contents: 1 inventory, 2 plan, 3 modules and the code, 4 runs, 5 findings,
6 proofs, 7 what is left out.

## 1. Inventory

### Account governor (`internal/governor`)
*State* (all under `Governor.mu`): waiter queue, `inFlight`, the fairness turn
(`currentTask`, `consecutiveTurns`), rolling ledger, per-task usage, request ids,
receipt ids, cooldown, circuit, rate-response history, telemetry allowance,
`unsafeAccounting`, `closed`.
*Operations*: `Admit`, `TryAdmit`, `Permit.start`, `Finish`,
`FinishWithAttemptReceipts`, `FinishReceiptFailure`, `CancelBeforeStart`,
`CancelAfterStart`, credential refresh, `AcknowledgeHuman`, `Close`,
`PersistedState`, `RestorePersistedState`, pruning.
*Hard*: the admission loop drops the lock to read telemetry and to sleep; the
clock is read outside the lock; a wake-up can arrive between the decision and the
sleep; receipts may be repeated, or count several attempts for one call.
*Correct when*: one call at a time, spaced and within the windows and budgets; no
request id called twice; waiters served in fair order and never forgotten;
circuits and cooldowns only tighten unless an operator or the announced time
releases them; every call is debited.

### Provider attempt journal (`internal/governor/execute.go`, `internal/state`)
*State*: `provider_attempts`, `governor_state`, `governor_ledger`.
*Operations*: TX 1 (row and projection) before the call, TX 2 (outcome and
projection) after it; restore at start.
*Hard*: death or a store error between any two of start, TX 1, call, TX 2; the
projection is captured before the transaction that writes it.
*Correct when*: no call without a row; no debit or account stop is lost, and no
debit counts twice, in any later process.

### Crash recovery (`internal/recovery`, `cmd/runstead/resume.go`)
*State*: read from the store; writes reconciliation rows, attempt states and task
states. *Operations*: reconcile provider attempts, reconcile tool attempts, reset
interrupted units, rebuild the context and the repeat guard, decide to continue,
block, or ask a human. *Hard*: a resume may die half way and be repeated.
*Correct when*: nothing uncertain is repeated, nothing certain is lost, and a
second recovery finds what the first decided.

### Work unit scheduler and store (`internal/workunit`, `internal/state/workunits.go`)
*State*: `work_units` and their dependencies; in memory `active`,
`activeExclusive`, the stop condition, the settle channel, `canceledOutcome`
under `dispatchMu`. *Operations*: create definitions, resolve blocked units,
dispatch, settle, drain, reset after a crash, reconcile, gate the parent loop.
*Hard*: workers change the store while the main loop is between two reads; their
events are received later and in any order; cancellation races dispatch.
*Correct when*: an exclusive unit runs alone, the bound holds, dependencies are
completed first, the chain ends with nobody left behind, and the parent never
runs around an open unit.

### Agent loop, tool attempts, approvals, verifier, write tools
*State*: the task row, `actions`, `write_policy_decisions`, `approvals`,
`tool_attempts`, `tool_results`, `verification_attempts`; the workspace; in memory the
run counters and the repeat guard. *Operations*: a model turn; record, judge, reject,
prepare, execute and complete an action; verify a completion; pause or finalize the
task; `decide` from another process. *Hard*: death or a store error between an effect
and its record, an operator's answer that arrives at any time, a file that others
edit, counters and guards that live in memory and must survive a resume.
*Correct when*: no effect without authority, none repeated while another is unknown,
a completed task passed every gate, what the store says about the file is true, and
a task that is resumed comes to an end.

### Provider call: retry executor, adapters, operational profile
(`internal/agent/executor.go`, `internal/provider`, `internal/state/profiles.go`)
*State*: what the trace callbacks saw of one request, the parser's state of an event
stream, the task's retry ledger, and `provider_operational_profiles`, shared by every run
of one provider identity. *Operations*: one governed attempt (`Complete` of one of five
adapters, classification, finish, TX 2), the observation that learns from it, the
decision to retry, the wait. *Hard*: a request fails on its way and nobody knows how far
it got; a body that parses need not be a whole answer; the context ends anywhere; two
runs learn at once. *Correct when*: nothing is reported as not sent that left, a retry
follows only what the journal knows and what cannot be a half answer, a success is the
model's whole turn, a retry waits as long as it was ever told to, and nothing learned is
forgotten.

### SIWC: credential store and state domain (`internal/siwcauth`, `internal/siwcstate`)
*State*: the registration record, the rotation marker, the custody lock; the files of a
domain, its lock, the locator that makes it discoverable. *Operations*: `login`, `models`,
`setup`, `logout` and the one inference request of a `run`, each a process of its own.
*Hard*: every command is several lock sections and several files; a refresh token can be
spent only once and its answer can be lost; a setup that fails removes files that another
command may be resolving. *Correct when*: a refresh token is sent at most once, a request
has its session to itself, an open domain is complete, and a setup commits on the session
it read the catalog with.

### Task contract (`internal/composition`, `run` and `resume`)
*State*: the task row's configuration snapshot and frozen contract, the profile file, the
one stored account row. *Operations*: resolve and freeze at `run`, compare at `resume`.
*Hard*: files and flags come again after any edit; the account row belongs to every task
of the state directory. *Correct when*: a task runs for ever under what it was started
with, attempts go to its own account, and an interrupted task whose surroundings did not
move can be resumed.

### Improvement proposals (`internal/improvement`, `internal/state/improvements.go`)
*State*: proposals, numbered revisions, validations; the file `--profile` names.
*Operations*: propose, review, apply, validate, roll back; the file is written after the
transaction. *Correct when*: a validation speaks of tasks that ran what the revision
declares, and a rollback returns to an earlier revision of the same target.

### Parts without interesting state
Read tools, context compiler, action parser, process spawning, trace, CLI rendering.
`PROJECT.json` lists every part with its status, and the hazards with their lines.

### How they interact
The agent loop calls `Governor.Execute`, which admits, starts, commits TX 1 through
a callback, calls the provider, finishes the permit and commits TX 2. Several unit
loops of one process share one governor; the scheduler starts their goroutines
and hears of them through one channel and the store. `run` and `resume` build the
governor from the projection, run recovery, then the units, then the parent loop. A SIWC
run holds its domain's lock for its whole life and the custody lock for each request. The
retry executor sits between a turn of the loop and `Governor.Execute`; what it learns
reaches later runs through the store. Tasks freeze the profile that improvement
proposals write, and proposals are validated by what tasks froze.

## 2. Plan

Done, in this order:

1. `AccountLane`, `Governor`: admission and protection.
2. `ProviderJournal`: the durable side of a call, crash and restore.
3. `WorkUnitScheduler`: the unit chain with crash and resume.
4. `WorkUnitCycle`: the cycle search.
5. `AgentLoop`: a task from its first turn to its end, with policy and approvals,
   tool attempts and writes, verification, finalization, crash and recovery.
6. `SIWC`: credential store, state domain and the commands that share them.
7. `ProviderCall`: one logical request from the executor to the wire and back.
8. `TaskContract`, `Improvements`: what a task runs under, across resumes and revisions.

9. Proofs: `AccountLane`, `Governor`, `ProviderJournal`, `WorkUnitScheduler`, `SIWC`, `AgentLoop`,
   `TaskContract` with `Improvements`, `ProviderCall`. Every invariant and action property that a
   passing run checks is a theorem now; section 6 has the arguments.

Left: the abstract specifications that would say more than the invariants do, of the journal (a
set of debits that only grows) and of the agent loop (effects, each authorized and done at most
once), with their refinements; a run with the inductive invariants as its invariants on smaller
instances.

## 3. Modules and the code

### AccountLane
The abstract specification of what the governor promises its clients: a set of
callers, one lane, a call per request id, plain calls at least an interval apart.
It has no counterpart line by line and is therefore not in the map; `Governor`
refines it (`ImplementsLane == Lane!Spec`, the variables of the same names).

### Governor
One caller is one `Admit` or `TryAdmit` call followed by the life of its permit. A
step is one critical section of `Governor.mu` or one thing done outside it:
`Enqueue`, `Reconsider` (the head of the loop), `ReadTelemetry` (the unlocked read
of the clock and of telemetry), `Decide` (lock again, apply the snapshot, grant,
delay or reject), `Wake`, `AbandonWait`; `TryBegin`, `TryDecide`; `Start`; the
three ways to finish; both cancellations; the operator's steps; `Tick`. The notify
channel is the set `woken` of sleepers whose channel was closed. Times are
integers and spans are shrunk; the order of the checks in `checkLocked` is kept.
Every retained item outlives the horizon (`MaxTime < RetentionWindow`), so pruning
never happens.

### ProviderJournal
An attempt goes through `pc`: started, intent (projection captured), prepared
(TX 1), calling, finished, outcome (projection captured), done; `paused` when a
transaction failed. `memory`, `captured` and `durable` are three copies of the
protection record, reduced to debits per attempt, whether the account is
stopped and whether a receipt id is known. `mode` says how the program is deployed: debited at
start, debited by receipts, or SIWC; one attempt at a time or several. A receipt-aware call ends
in one of three ways: each new receipt is a debit, and more than one also stops the account; a
set of replays only debits nothing and stops it; a missing or invalid set debits one unit and
stops it. `Die` clears everything but the store; the restart actions follow `run` and `resume`.
The check that blocks a resume takes a projection it cannot read for one that is not stopped
(`resume.go:915-923`); `GoOn` does so too, and the history variable `blind` remembers that a stop
was passed in this way.

### WorkUnitScheduler
The main loop is `at` (top, resolving, dispatching, settling, draining, returned) with
`todo`, the list it read from the store and is going through. `events` are settle
events sent and not received. Workers move the durable status and send their event.
`FinalizeTask` has only the outcome "completed", which is the one its open-unit
gate is about. `Exclusive` stands for `Classify`; a failed envelope check is a
reason for `DispatchFails`.

### WorkUnitCycle
`findWorkUnitCycle`, one step per turn of its inner loop, on every graph.

### AgentLoop
`log` is the table of actions in order, each with its policy decision, its tool attempt
and its evidence; `approvals`, `verifications`, `turns` (provider attempt rows) and the
task row are the rest of the store. `file` and `version` are the workspace: one file,
and the signature the repeat guard compares, which every change moves. `pc` is the
place in the loop: head, record, evaluate, decide, deny, guard, execute, rename,
observe, commit for an action (`handleAction`), final, incomplete, verify, save for a completion
(`handleFinal`), finalize and pause for `stop`, reconcile for recovery, down for no process.
`cur` is what the handler holds in local variables; `run` and `guard` are `runState` and
`repeatGuard`. The probe of the signature may fail (`loop.go:791-796`); the action then carries
`NoSig`, which the guard matches with nothing (`guard.go:44`). Each step is one transaction, one observation of the file or one effect
on it. `ran` is history: which entries had their effect.
The model's answers, the results of the operator's checks and what the provider does
are inputs; a turn has one provider attempt. A recipe is a process that starts and
exits, or does not start; what it does to the file is an `Edit`. A patch applies to the
content it was written for. `StoreFails` is the error path of every transaction that
runs under the task's context, which fails by itself once the context has ended.
Recovery reads what `log` says, since one process works on a task at a time.

### SIWC
A process is a record of where it is (`pc`), the registration it read, the token its
catalog request was made with, the directory it works on and the files it would take back.
A step is a critical section of the custody lock that only reads, one replacement of a
file, or one request to the issuer, so a death or a failing file operation can fall
between any two. A refresh token is a number; `sent` counts how often each one went to be
rotated. `life` abstracts the expiry: far, nearer than five minutes, over. `files` are the
artifacts of each domain, `linked` says that the locator still has its staging file, and
`stray` that a death left a temporary file among the registrations. One issued client is modelled, and
its bindings are a function of the subject.

### ProviderCall
`wire`, `status` and `stream` are what really happened: how far the request got, which
class of answer came, what the event stream contained. `reply` and `completion` are what
the program believes. Each adapter is a record of how it reports the same event, since
they differ (which states a refusal has, what a redirect with an unread body is called,
how a body that parses is judged). The event stream may say the whole text four times:
`output_text.done` and `response.completed` are `Compared` with the deltas, `content_part.done`
and `output_item.done` (the event `part_done`) may claim any text, since only their shape is
checked (`stream.go:321-337`). The admission, the budgets and the circuit are reduced
to what eligibility reads; `Governor` has the rest. `OtherRun` is another run of the same
identity that changes the profile between this run's read and its write. Waits are
numbers; the jittered ladder is represented by its shortest rung, so `RetryWaitsLongest`
is about lower bounds. A Retry-After given as a date has a finer grain than the profile's whole
milliseconds: a wait is a number of fractions, `Milli` of them to the millisecond, and what is
learned is cut down to `Millis` (`evidence.go:158`).

### TaskContract and Improvements
A flag combination is a record; what `run` resolves from it is stored, and `resume` takes
another one. A profile is a document with an identity, packages, recipes and perhaps a
provider; a catalog maps recipe ids to definitions, so equal ids with different definitions
differ, as their digests do. `lane` is the `governor_state` row. `started`, `ran` and
`attempted` are history. A task is created, started and given its plan in three transactions
(`BootstrapTask`); `BootstrapCutOff` is the death before the last, which leaves a resumable task
without its plan. `Improvements` extends the module: the file its `Materialize`
writes is the one `Run` and `Resume` read, a proposal cites results of tasks, and a
validation compares their frozen contracts. Every write that a command still has to make
is in `writes`, and is made or lost later, in any order with everything else.

### Proof modules
`AccountLane` carries its own theorems; `GovernorProofs`, `ProviderJournalProofs`,
`WorkUnitSchedulerProofs`, `SIWCProofs`, `AgentLoopProofs`, `ProviderCallProofs` and
`ImprovementsProofs` (which covers `TaskContract` too, the module it extends) extend their
components. They define no behaviour, only invariants, step predicates and lemmas.

## 4. Runs

Every cfg but those of `ProviderCall` and `TaskContract` says `CHECK_DEADLOCK FALSE`: callers finish, the clock and the number of
deaths are bounded, a process may stay down for ever, and a search ends.

| run | instance | shows |
|---|---|---|
| `governor` | 3 `Admit` callers of 2 tasks, one a retry; queue of 2, quantum 1, a window of 2 per 3, interval 1; four outcome classes, three snapshots (one reports a limit, one an allowance with a retry time, one an open upstream), refresh, cancellation; 4.6 million distinct states | one lane, paced and bounded calls, fair order, no lost wake-up, cooldowns cover announced times |
| `governor_receipts` | the same callers, one of them `TryAdmit` and two with one id; single, double and replayed receipts; windows of 2 per 3 and 1 per 2; acknowledgement, `Close`; 350 thousand distinct states | limits with calls that debit several attempts, an id is called once, every call debited, refinement of `AccountLane` |
| `provider_journal` | 3 attempts, 2 tasks, 3 deaths, each provider kind, up to 2 new receipts, sequential; 590 thousand distinct states | debits survive and count once, stops survive, nothing runs before it is settled |
| `provider_journal_concurrent` | | violation, section 5 |
| `work_units` | 5 units: three shared, an exclusive one needing the first, a shared one needing that; bound 2, one restart | isolation, dependencies, nobody left behind, parent gate, the chain ends |
| `work_unit_cycle_returns` | all graphs of 3 units with at most 2 edges each | violation, section 5 |
| `agent_loop` | a write that needs approval, the patch that follows it, a recipe, a read; 3 turns, 2 faults (a failed signature probe is one of them), 1 edit, every limit 1; 2.6 million distinct states | authority, no blind replay, the rebuilt guard, truthful evidence, the gates of completion, no lost uncertain effect, the task ends |
| `agent_resume_stuck` | the recipe alone, 2 faults | violation, section 5 |
| `siwc` | 2 processes, 2 people, 2 directories (all symmetric), 2 refresh tokens, 1 death, 2 failing file operations | one use per refresh token, undisturbed requests, whole domains, commits on the session that was read |
| `provider_call` | one request of each adapter, retries on and off; retry budget 2, threshold 3, waits of 0, 1, 2 and 5 halves of a millisecond; 1.1 million distinct states | nothing sent is denied, nothing ambiguous is retried, whole answers, waits as long as told, nothing learned is lost |
| `task_contract` | 2 tasks of four lanes, one of them under a configured provider whose model is named `scripted`, and every single changed input at resume, or 1 cited task and 2 proposals on 2 targets; 830 thousand distinct states | frozen configuration, own account, resumable, truthful validations, rollback to an ancestor |
| `task_contract_account` | the same | violation, section 5 |

*Why the bounds are enough.* Three callers fill the queue and hold the lane, so that one can
be overtaken; two tasks with a quantum of one force the turn to change; three to four
ticks exhaust the longer window and let it roll. In `governor` the window of two per three leaves
room for a second start right after the first, so there the interval is what keeps them apart; in
`governor_receipts` the shorter window does. Two rate responses meet a
threshold of two. Three deaths let a resume die and its successor die as well, with
two tasks so that one task's recovery meets the other's debits. Five units with a bound of
two make an exclusive unit wait, run beside ready shared ones, and block a dependent;
one restart reaches every recovery branch, since recovery has no memory of earlier ones
but the store. Three turns let a write wait for its approval, be proposed again and be
followed by a completion; two faults let a task be interrupted and its recovery be
interrupted too; an edit can make a write stale, hide its effect or undo it. The smallest graph on which the search can meet a black node has three units.
Two SIWC processes are any pair of commands, and what a third would see lies on the disk;
one death leaves each half-written state for a successor that meets two more failures; two
tokens let a session be renewed and be in doubt again. Two retries reach the budget and let the third
attempt be shorter advised than the first. Two tasks are enough to overwrite each other's
account; two proposals give a target a base, or two targets a clash of identities. The two
instances of `task_contract` share one run because proposals only meet tasks through the
profile file and the evidence; `MCNext` keeps each instance's inputs apart.

*Fairness.* `WorkUnitScheduler!FairSpec`: the main loop
runs, and each unit loop ends because steps, provider attempts and time are
budgeted; the operator and death get none. `AgentLoop!FairSpec`: a running process takes
its next step (provider calls return, they carry timeouts), and somebody resumes a task that is still open; the operator need not
decide anything, and faults need not happen. `WorkUnitCycle!FairSpec`: a loop keeps
turning until it returns. No lost wake-up of the governor is stated as an invariant
(`TurnIsTaken`) and needs none.

Each property of a passing run has a mutant in `PROJECT.json`: a plausible slip in
the code (a dropped guard, a swapped order, a missing reset), under which TLC finds
the property violated. Mutated operators stand before the original and say what
they get wrong.

## 5. Where the code and its documentation disagree

1. `provider_journal_concurrent`: with concurrent units, TX 2 of one attempt commits a
   projection captured before another attempt was debited, and replaces the ledger;
   a crash then loses that debit (`execute.go:148`).
2. `work_unit_cycle_returns`: the cycle search does not pop a black node and spins on an
   acyclic graph in which b needs a and c, and c needs a (`workunits.go:718`).
3. `agent_resume_stuck`: a resume escalates an attempt and closes the task in two
   transactions. After a death between them every later resume tries to escalate the
   attempt again, is refused (`state/recovery.go:124`) and fails, so the task stays open
   for ever; the persistence guide says that a second resume completes it. `TaskEnds`
   therefore accepts an attempt that waits for a human as an end.
4. `task_contract_account`: the account policy of a resume comes from the stored account
   row, or is the scripted one when there is none (`resume.go:1197`). A configured or
   OmniRoute task that dies before its first TX 1 in a fresh state directory resumes under the scripted policy,
   every admission is refused because the model differs (`governor/execute.go:42`), and the
   task ends as a provider failure. The comment at `resume.go:655-658` promises the
   protection of the interrupted run. `AttemptsUnderOwnAccount` shows that no attempt goes
   to the wrong account: the refusal is on the safe side. The one exception is a name: nothing
   reserves `scripted`, and a configured model of that name passes the comparison, so its task
   may attempt under the scripted account, or a scripted task under that provider's.

Met while modelling, and not the subject of a run. Governor, journal and agent loop:

- Telemetry that repeats a limit before the announced reset replaces a
  `human_review_required` circuit by a timed one (`telemetry.go:57-62`), which then closes by
  itself, and so does the outcome of a call that was on its way when the circuit opened;
  `docs/account-protection.md:300` says "Severe circuits do not reopen automatically". The
  sentence is false of the code, so no run asks for it; the theorem `SevereCircuitLeft` says
  exactly which steps leave human review, these two among them. No command under `cmd/`
  installs a telemetry source today.
- Telemetry read by one caller can stop the account between another caller's grant and its
  start; the granted call is still sent.
- A reset time that is already past counts as guidance, so neither it nor the local
  backoff starts a cooldown (`circuit.go:51`).
- A SIWC resume restores the ledger into a governor that was already restored, so every
  debit counts twice (`resume.go:941`); `DebitedOnce` leaves that mode out.
- The rebuilt repeat guard keeps the first signature of a fingerprint
  (`recovery.go:759`), the live one the latest (`guard.go:24-27`): after an edit, a second
  run and a resume, the same recipe may run a second time on the same workspace.
  `RepeatGuarded` states what both guards keep, which is about the first execution.
- A signature that cannot be computed is stored as empty and matches nothing, itself included
  (`loop.go:791-796`, `guard.go:44`): while the probe fails the guard is off, and an execution
  without a signature also takes the place of the one the live guard had. `RepeatGuarded` names
  this exception.
- The check that blocks a resume on a stopped account fails open (`resume.go:915-923`): when the
  projection cannot be read at that moment, the resume goes on with the governor it restored
  before recovery stopped the account, and its next commit overwrites that stop.
  `DebitsSurvive` and `StopSurvives` hold as long as this has not happened (`blind`).
- A receipt-aware call whose receipts are all replays is in no ledger, and recovery does not add
  it, because its row is `uncertain` (`permit.go:339-343`, `recovery.go:253`): what is left of it is
  the stop.
- An interrupted attempt ends the streak of failures that the failure guard rebuilds
  (`recovery.go:630`).
- Exhausted steps, a cancellation or an ungrounded incomplete answer close a task as failed
  while an approval is pending; the comment at `loop.go:1068` speaks of every finalization.
- A write whose file cannot be read back after the rename is stored as failed although the
  file has changed (`write_file.go:104`); `EvidenceDescribesFile` leaves that case out.
- An edit that restores the old content makes recovery report a write that happened as not
  started (`write.go:404`).

Provider call:

- `docs/adr/0001-durable-execution.md:337` says "No auto-retry" of `sent_confirmed`, and
  `docs/retry.md:57-58` lists "timeout/cancel/disconnect after possible dispatch" under what is
  never retried. The code classifies a timeout whose request was confirmed as sent
  (`openaicompat/delivery.go:77-87`) as a recoverable timeout and retries it, which is what
  `docs/retry.md:41-46` says. The documents contradict each other, so no run takes a side;
  `AmbiguousNotRetried` claims only what they agree on: nothing is retried whose outcome is not
  durable, that was half written or whose answer broke off.
- The Chat Completions adapters never decode `finish_reason` (`openaicompat/wire.go:33-43`), so a
  truncated or refused completion is an answer; the Messages and generateContent adapters
  demand a natural end. `SuccessIsWhole` states each adapter's condition.
- `content_part.done` and `output_item.done` of a SIWC stream may claim another text than the
  deltas and nobody notices (`stream.go:321-337`).
- A redirect's body read error is ignored and the attempt counts as completed.
- A failed TX 2 hides the typed 429 from the observer, so its Retry-After is not learned;
  the executor does not retry then.
- `omniroute.Classify` is not wired to the OmniRoute lane; `--retry-policy bounded` is
  accepted for it on resume (`resume.go:637`) and refused on run (`main.go:371`).

SIWC:

- A death inside `atomicWrite` leaves a temporary file that makes `findRecord` refuse every
  command, a login included (`store_linux.go:596`).
- `refreshPending` takes a marker with the right content for none (`store_linux.go:442`); what
  protects a renewal is the `RefreshPending` flag of the record, which is written first.
- A new login clears the selected model, so an existing domain must be set up again.
- A death between link and unlink of the locator makes `Resolve` refuse it from then on.

Task contract and improvements:

- `--recipe-policy` given again unchanged is refused for a profile that takes the whole catalog
  without `process.recipes` (`resume.go:725-729` compares over the full catalog, the stored
  policy covers the effective one). `InterruptedIsResumable` leaves the flag unset.
- A profile task started without an acceptance plan cannot have one attached: the frozen
  contract has no plan digest (`resume.go:759`, against the comment at `resume.go:734-741`).
- A run of another provider in the same state directory makes a configured task
  unresumable; the allowance of a resumed task is whatever the stored row holds.
- `docs/improvements.md:55-56` says that later revisions must declare their base;
  `ApplyImprovement` looks at a base only when one is named.
- Rolling back a revision that is not the newest rewrites the file to something older than
  revisions that are still applied. A revision that declares no recipes is validated by
  any recipe surface.

## 6. Proofs

The theorems hold for every value of the constants under the named assumptions of the
modules, which TLC evaluates on every run. Most of them give the parameters their types. The
others:

- `Governor`: `GovernorAssumption` has the horizon (nothing retained is pruned before
  `MaxTime`); `WindowsAssumption`, `BackoffAssumption` and `OutcomesAssumption` say what
  `Policy.validate` admits and what an outcome may carry; `TelemetryAssumption`
  gives a snapshot its types.
- `WorkUnitScheduler`: `CreationOrder`, `Rank` puts what a unit needs before it.
- `SIWC`: `AbsentValues` and `NoRegistration`, "nothing" is not a process, a directory or a record.
- `TaskContract`: `LaneAssumption` and `ContractAssumption`, a provider's lane is one of the
  three and the offline one has a fixed model name; a resolved contract is told from none.

Only the theorems of the journal have a hypothesis of their own. They assume `Sequential`, that no
mode is concurrent: the concurrent one is finding 1.

**AccountLane.** `LaneSafety`: one holder, one call per request id. `LanePacing`.

**GovernorProofs.** `SingleLane` alone is not inductive: a grant must be known to come
from a waiter that saw `inFlight` false in the same critical section, and a start to
use a clock value not before `lastStart`. `IndInv` is `CallerTypes` (where each caller
may be and with what), `ClockInv` (what was read outside the lock is not later than
the clock) and `SingleLane`. From it follow `SingleLaneHolds`, `RequestCalledOnceHolds`
and `PacedStartsHolds`, and the step simulation behind `GovernorImplementsLane`: each
governor step is a lane step or leaves the lane's variables alone. The other
properties need one more invariant each, beside `IndInv`:

- `ProtectionInv` for cooldowns and circuits. Each helper that writes the protection record is shown to
  tighten it or to record a reset it covers (`Tightens`, `Records`), and from that each step of the
  governor to be a `HoldsBack` and a `SevereStep`; `Covered` (an announced reset is not beyond the
  cooldown) and `RejectedStops` are then kept. Gives `CooldownCoversResetHolds` and
  `SevereCircuitLeft`.
- `DebitInv`: a task's usage is at least the number of its calls that came back, plus a plain call
  that is on its way. Gives `EveryCallDebitedHolds`.
- `UsageInv`: between the grant and the debit the call is `Reserved`, and there is still `RoomFor` it in
  every window and budget. A later clock only empties a window (`Above`, a
  count over the ledger, falls as its bound rises; `Forgets`), and nobody else can use the
  room, because of the lane. Gives `UsageWithinLimitsHolds`, whichever stale clock the
  admission had read.
- `QueueInv`: on a free lane the waiter that `Pick` chooses is awake, signalled or has a deadline
  (`TurnHeld`), and a sleeper is in the queue or its channel is closed (`NobodyLost`). Gives
  `TurnIsTakenHolds`. `Pick` is a fair choice over a queue that others leave from the middle, so
  most of the proof is what removing or appending a waiter does to it.
- `OrderInv`: who goes to decide about its admission is first of its task in the queue. Gives `NoOvertakingHolds`.
- `OtherTypes` completes `GovernorTypes`.

What a permit's receipts do is a recursive function over their list (`afterReceipts`), and some
helpers take the least element of a set. The library's induction theorems have an
operator as a parameter, out of this prover's reach; `SetInduction` and `LeastNatural` are the same
principle with a *set* of naturals as the parameter, from the well-foundedness of `<`, and that
is enough for `ReconcileKeeps` (a list of receipts of any length only tightens protection and adds
usage).

**ProviderJournalProofs.** `IndInv` is the type invariant, one attempt inside
`Execute` at a time, and per attempt what its row (`RowInv`), memory (`MemoryInv`), captured
projection (`CapturedInv`) and store (`DurableInv`, `StopInv`) must say at each `pc`. It is
needed because `DebitsSurvive` speaks about later processes: what a process will
read is fixed by what the previous one had captured, not by what it had in memory. Its part
`BaseInv` (types, one attempt at a time, rows) holds always; the rest as long as `~blind`, and
`blind` never becomes false again.
`OnceInv` says where a debit may still be missing, in memory, in the captured projection and in the store,
so that each of TX 1, TX 2 and recovery adds one only there; `SettledInv`, that outside recovery a
task has no attempt of an earlier process left open. Proved:
`JournalTypes`, `WriteAheadHolds`, `DebitsSurviveHolds`, `StopSurvivesHolds`, `DebitedOnceHolds`,
`SettledBeforeRunningHolds`.

**WorkUnitSchedulerProofs.** The counter `active` says nothing about workers by
itself. `IndInv` ties them: `Counted` (the counter is the number of workers plus the
number of events not received), `Bounded`, `Isolated` (an exclusive worker or its event
is the only one), `Dispatchable` and `Listed` (what the loop has in `todo` is still
dispatchable although workers moved on), `WorkersDurable`, `ParentGated`. Proved:
`SchedulerTypes`, `ExclusiveAloneHolds`, `WithinConcurrencyHolds`, `NeedsCompletedHolds`,
`NoWorkerLeftHolds`, `ParentGatedHolds`.

**SIWCProofs.** The custody lock is held exactly at the places in `Holding` (`CustodyInv`), the domain
lock in `Locking` (`DomainInv`). `TokenInv` carries `RefreshSentOnce`: the token on disk is
unsent as long as no rotation of it is recorded as pending, tokens in hand are unsent, and no two
processes have the same one; the intent is written before the request, so a death in between leaves
a pending record and not a second request. `SessionInv` says from which step on a command's copy of the
record is the record. Proved: `SIWCTypes`, `RefreshSentOnceHolds`, `RequestUsesSessionHolds`,
`OpenDomainIntactHolds`, `CommittedOnCatalogSessionHolds`, for any number of commands, deaths and
failing file operations.

**AgentLoopProofs.** `IndInv` is `LoopType`; `AttemptInv`, only the last entry of the log can have an
unknown effect, and only at the places in `Acting`, while a pause is stored, in recovery or where no process runs; `ClosedInv`, a closed task has no process, nothing unknown and, when
completed, its gates passed;
`AuthorityInv`, what has run or is about to was allowed, and approved where its mode asks for it; `GuardInv`, signatures
never go back, the first execution of a fingerprint is not repeated under its signature unless a
failed probe lies between, and the live guard holds the signature of one of its executions;
`EvidenceInv`, as long as nobody edits the file its content is what the latest evidence says, or what the
attempt under way is about to record. Recovery is where they meet: it reads the store only,
so each has to hold of the rows when the process is gone. Proved: `LoopTypes`,
`UncertainStaysReachableHolds`, `EffectAuthorizedHolds`, `RepeatGuardedHolds`,
`EvidenceDescribesFileHolds`, `CompletedIsSettledHolds`, `NoBlindReplayHolds`.

**ImprovementsProofs.** `TaskInv` says of each task that its row is what `run` resolved from some
input and the documents of that time (`Kept`), and that its frozen contract and everything it ran
under come from that row (`Frozen`); a resume compares, and so changes neither. `ProposalInv` has the
numbering of the revisions, that a base `Descends` on the same target, and that a validation
is `Certified` by the frozen contracts of its tasks. `AccountInv`: unless a task
of another lane shares the offline model name, a policy that admits the task's model is the task's own, and the stored
row is never a foreign account under that name. Proved: `ContractsKept`, `RunsUnderFrozenHolds`, `InterruptedIsResumableHolds`,
`AttemptsUnderOwnAccountHolds`, `ValidatedUnderDeclaredHolds`, `RollbackRestoresAncestorHolds`.

**ProviderCallProofs.** `CallInv` ties the reply to the wire: what the trace callbacks saw is
never ahead of what happened, and a reply whose class is recoverable says enough about the wire
(`ReplyTells`, `StreamAgrees`). `LoopInv` says what is known at each place of the retry loop, `LearnInv` that
what this run was told is in the profile or about to be merged into it, although another
run may change the profile in between; a merge only `Tightens` a row. Proved: `CallInvariant`,
`CallTypes`, `NotSentIsTrueHolds`, `AmbiguousNotRetriedHolds`, `SuccessIsWholeHolds`, `RetryWaitsLongestHolds`,
`LearnedStaysLearnedHolds`.

Proved and not checked by a run: the type invariants, `WriteAhead`,
`WithinConcurrency` and `SevereCircuitLeft`.

Only model-checked: the liveness properties (`ChainEnds`, `TaskEnds`), which need fairness and
`ENABLED` and so lie outside the prover, and the properties of the four violation runs, which are
false of the code. `WorkUnitCycle` has only such a property.

## 7. What is left out

- Pruning of the governor's retained ids (the horizon ends before it), event emission,
  wall-clock jumps: the clock is monotonic.
- Two processes on one task: the store does not forbid it outside the SIWC domain; the
  documentation assumes one. So a resume's check of the acceptance plan and the save that
  replaces it (`resume.go:741`, `resume.go:833`), two transactions, are one step.
- Failing reads of the store during restart, in `ProviderJournal` (but for the check that blocks a
  resume) and `WorkUnitScheduler`: they end the command.
- The fairness quantum between tasks has a model but no property of its own: `NoOvertaking` is
  about the order within a task. `RefreshSentOnce` takes it that the issuer answers a refresh with
  a new token.
- Two operators deciding the same action at once; several files in the workspace; the line
  algorithm of a patch.
- Several issued SIWC clients on one host; path, ownership and permission checks on single
  files; the cryptography of a login.
- Process spawning, output limits and signals of a recipe; reading tools, the context
  compiler and the action parser: functions of text without state of their own.
- Field validation, evidence columns, text, formatting, SQL.
- The components marked `not_modelled` in `PROJECT.json`, each with its reason.
