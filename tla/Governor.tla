------------------------------ MODULE Governor ------------------------------
(***************************************************************************)
(* The account governor of internal/governor: one account lane with a      *)
(* bounded admission queue, task fairness, start-to-start pacing, rolling  *)
(* usage windows, task and retry budgets, a circuit breaker, cooldowns and *)
(* optional upstream telemetry.                                            *)
(*                                                                         *)
(* Every caller is one goroutine inside Governor.Execute.  A step is one   *)
(* critical section of g.mu, or one thing done outside it: reading the     *)
(* telemetry source, sleeping in waitForChange, the provider call.  Times  *)
(* are small naturals; 0 is Go's zero time.                                *)
(***************************************************************************)
EXTENDS Integers, Sequences, FiniteSets

CONSTANTS
  Callers,               \* goroutines that ask for one provider attempt
  TaskOf,                \* [Callers -> task]
  RequestID,             \* [Callers -> client request id]
  RetryCallers,          \* callers whose request has Retry set
  TryCallers,            \* callers that use TryAdmit instead of Admit
  QueueCapacity, FairnessQuantum, TaskBudget, RetryBudget,
  Windows,               \* <<[span, ceiling], ...>>: 3h, 1h, 10m
  MinimumStartInterval,
  BackoffBaseline,       \* <<15s, 30s, 60s, 120s>>
  RateResponseWindow, RateResponseThreshold, ResetSafetyMargin,
  ManualReserve,
  ReceiptAware,          \* RequireAttemptReceipts
  Outcomes,              \* classified outcomes the provider may produce
  ReceiptSets,           \* receipt sets the provider may return
  TelemetrySnapshots,    \* what the telemetry source may report
  OperatorSteps,         \* which operator and environment steps happen
  MaxTime,               \* bound on the clock
  RetentionWindow,       \* request and task retention, beyond the horizon
  NoValue

Tasks == {TaskOf[c] : c \in Callers}
Requests == {RequestID[c] : c \in Callers}

ASSUME GovernorAssumption ==
  /\ Callers \subseteq DOMAIN TaskOf /\ Callers \subseteq DOMAIN RequestID
  /\ RetryCallers \subseteq Callers /\ TryCallers \subseteq Callers
  /\ QueueCapacity \in Nat \ {0} /\ FairnessQuantum \in Nat \ {0}
  /\ TaskBudget \in Nat \ {0} /\ RetryBudget \in Nat
  /\ MinimumStartInterval \in Nat /\ ManualReserve \in Nat
  /\ RateResponseWindow \in Nat /\ RateResponseThreshold \in Nat \ {0}
  /\ ResetSafetyMargin \in Nat /\ MaxTime \in Nat /\ RetentionWindow \in Nat
  /\ MaxTime < RetentionWindow
  /\ ReceiptAware \in BOOLEAN
  /\ OperatorSteps \subseteq {"refresh", "acknowledge", "close", "cancel"}
  /\ NoValue \notin Tasks /\ NoValue \notin Int

ASSUME WindowsAssumption ==
  /\ Windows \in Seq([span : Nat \ {0}, ceiling : Nat \ {0}])
  /\ \A i, j \in DOMAIN Windows : i < j => Windows[j].span <= Windows[i].span

ASSUME BackoffAssumption ==
  BackoffBaseline \in Seq(Nat) /\ BackoffBaseline # << >>

Classes == {"success", "rate_capacity", "authentication_expired",
            "security_signal", "recoverable", "uncertain_reached"}

ASSUME OutcomesAssumption ==
  /\ Outcomes \subseteq [class : Classes, retryIn : Nat, resetIn : Int]
  /\ ReceiptSets \subseteq Seq([id : Nat, class : Classes]) \ {<< >>}

\* What a telemetry source reports: an allowance, the times of a reset and of a
\* cooldown relative to now (0 for none), Retry-After, whether the account is
\* rate limited or out of capacity, the upstream circuit and a changed route.
ASSUME TelemetryAssumption ==
  TelemetrySnapshots \subseteq
    [remaining : Int \cup {NoValue}, resetIn : Int, cooldownIn : Int,
     retryAfter : Nat, limited : BOOLEAN, routeChanged : BOOLEAN,
     upstream : {"unknown", "closed", "open"}]

VARIABLES
  now,               \* the clock
  pc,                \* where each caller is
  result,            \* the admission code each caller got
  cancelled,         \* callers whose context is done
  wakeAt,            \* timer of a caller asleep in waitForChange, 0 for none
  woken,             \* callers whose notify channel was closed while asleep
  seen,              \* what a caller read outside the lock: time and snapshot
  queue,             \* g.queue: the waiters in arrival order
  inFlight,          \* g.inFlight
  currentTask, consecutiveTurns,
  lastStart, ledger, tasks,
  requestIDs,        \* g.requestIDs
  attemptIDs,        \* g.attemptIDs
  startedAt,         \* startedAt of the started permit
  protection,        \* circuit, cooldown and telemetry state
  closed

laneVars == <<queue, inFlight, currentTask, consecutiveTurns>>
accountVars == <<lastStart, ledger, tasks, attemptIDs, startedAt>>
callerVars == <<pc, result, wakeAt, woken, seen>>
vars == <<now, callerVars, cancelled, laneVars, accountVars, requestIDs,
          protection, closed>>

PCs == {"idle", "queued", "waiting", "reading", "deciding", "tryReading",
        "tryDeciding", "granted", "started", "done"}

Max2(a, b) == IF a >= b THEN a ELSE b
Min2(a, b) == IF a <= b THEN a ELSE b
InQueue(c) == \E i \in DOMAIN queue : queue[i] = c

-----------------------------------------------------------------------------
(* Circuit, cooldown and telemetry: operators on the protection record.     *)

InitialProtection ==
  [state |-> "closed", reason |-> "", openUntil |-> 0, refreshRequired |-> FALSE,
   refreshInFlight |-> FALSE, lastRateReset |-> 0, rateEvents |-> << >>,
   cooldownUntil |-> 0, available |-> NoValue, resetAt |-> 0,
   telemetryCooldown |-> 0, limited |-> FALSE, upstreamOpen |-> FALSE,
   unsafe |-> FALSE]

transitionCircuit(p, state, reason, openUntil) ==
  [p EXCEPT !.state = state, !.reason = reason, !.openUntil = openUntil]

\* Entries are appended in time order, so what is at or before the cutoff is a
\* prefix; expiry drops it.
dropExpired(s, cutoff) ==
  SubSeq(s, Cardinality({i \in DOMAIN s : s[i] <= cutoff}) + 1, Len(s))

\* expireLocked: rate events leave their window, a passed reset clears what
\* telemetry said about the allowance.
expireProtection(p, t) ==
  LET q == [p EXCEPT !.rateEvents = dropExpired(@, t - RateResponseWindow)]
  IN IF q.resetAt # 0 /\ t >= q.resetAt
       THEN [q EXCEPT !.available = NoValue, !.resetAt = 0, !.limited = FALSE,
                      !.telemetryCooldown = 0]
       ELSE q

\* Mutant: Retry-After hides a later reset time.
authoritativeUntilRetryFirst(t, o) ==
  IF o.retryIn # 0 THEN t + o.retryIn
  ELSE IF o.resetIn = 0 THEN 0 ELSE Max2(1, t + o.resetIn)

\* The time a rate response itself asks to wait for, 0 when it names none.  A
\* reset time may lie in the past (resetIn < 0).
authoritativeUntil(t, o) ==
  Max2(IF o.retryIn = 0 THEN 0 ELSE t + o.retryIn,
       IF o.resetIn = 0 THEN 0 ELSE Max2(1, t + o.resetIn))

thresholdReached(events) == Len(events) >= RateResponseThreshold

\* recordOutcomeLocked for a rate or capacity response: backoff, cooldown,
\* repeated response before the announced reset, response threshold.  Jitter
\* only lengthens the baseline and is left out.
recordRateResponse(p, t, o) ==
  LET events == Append(expireProtection(p, t).rateEvents, t)
      baseline == BackoffBaseline[Min2(Len(events), Len(BackoffBaseline))]
      resetAt == IF o.resetIn = 0 THEN 0 ELSE Max2(1, t + o.resetIn)
      until == IF authoritativeUntil(t, o) # 0 THEN authoritativeUntil(t, o)
               ELSE t + baseline
      q == [expireProtection(p, t) EXCEPT
              !.rateEvents = events,
              !.cooldownUntil = IF until > t THEN Max2(@, until) ELSE @,
              !.lastRateReset = IF resetAt # 0 THEN resetAt ELSE @]
      repeated == p.lastRateReset # 0 /\ resetAt > t /\ t < p.lastRateReset
      r == IF repeated
             THEN transitionCircuit(q, "open_until", "rate_capacity",
                    Max2(p.lastRateReset, resetAt) + ResetSafetyMargin)
             ELSE q
  IN IF thresholdReached(events)
       THEN transitionCircuit(r, "human_review_required", "rate_capacity", 0)
       ELSE r

recordOutcome(p, t, o) ==
  CASE o.class = "rate_capacity" -> recordRateResponse(p, t, o)
    [] o.class = "authentication_expired" ->
         transitionCircuit([p EXCEPT !.refreshRequired = TRUE], "open_until",
                           "authentication_expired", 0)
    [] o.class = "security_signal" ->
         transitionCircuit(p, "human_review_required", "security_signal", 0)
    [] OTHER -> p

lowerAllowance(known, remaining) ==
  IF remaining = NoValue THEN known
  ELSE IF known = NoValue THEN remaining
  ELSE Min2(known, remaining)

\* applyTelemetryLocked: a snapshot only tightens admission, except that the
\* rate-limited flag and a new reset period replace what was known.
applyTelemetry(p, s, t) ==
  IF s = NoValue THEN p ELSE
  LET newPeriod == s.resetAt > t /\ (p.resetAt = 0 \/ p.resetAt # s.resetAt
                                       \/ t >= p.resetAt)
      retryUntil == IF s.retryAfter = 0 THEN 0 ELSE t + s.retryAfter
      q == [p EXCEPT
              !.unsafe = @ \/ s.routeChanged,
              !.available = IF newPeriod THEN s.remaining
                              ELSE lowerAllowance(@, s.remaining),
              !.resetAt = IF s.resetAt > t THEN s.resetAt ELSE @,
              !.telemetryCooldown =
                 Max2(Max2(@, Max2(s.cooldownUntil, retryUntil)),
                      IF s.upstream = "open" THEN s.resetAt ELSE 0),
              !.cooldownUntil = Max2(@, Max2(s.cooldownUntil, retryUntil)),
              !.limited = s.limited,
              !.upstreamOpen =
                 IF s.upstream = "unknown" THEN @ ELSE s.upstream = "open"]
  IN IF s.limited /\ p.resetAt > t /\ s.resetAt > t
       THEN transitionCircuit(q, "open_until", "rate_capacity",
              Max2(p.resetAt, s.resetAt) + ResetSafetyMargin)
       ELSE q

\* The debit of n attempts against the observed upstream allowance.
spendAvailable(p, n) ==
  IF p.available = NoValue THEN p
  ELSE [p EXCEPT !.available = IF @ > n THEN @ - n ELSE 0]

-----------------------------------------------------------------------------
(* The rolling ledger.                                                      *)

\* ledger.expire: entries older than the widest window go.
expireLedger(led, t) ==
  IF Windows = << >> THEN led ELSE dropExpired(led, t - Windows[1].span)

ledgerCount(led, t, span) ==
  Cardinality({i \in DOMAIN led : led[i] > t - span})

\* Mutant: a full window still admits one more.
OverfullWindows(led, t) ==
  {w \in DOMAIN Windows :
     ledgerCount(led, t, Windows[w].span) > Windows[w].ceiling}

ExhaustedWindows(led, t) ==
  {w \in DOMAIN Windows :
     ledgerCount(led, t, Windows[w].span) >= Windows[w].ceiling}

\* ledger.next for the first exhausted window: its oldest entry leaves it.
nextSlot(led, t) ==
  LET first == CHOOSE w \in ExhaustedWindows(led, t) :
                 \A v \in ExhaustedWindows(led, t) : w <= v
      span == Windows[first].span
      oldest == CHOOSE i \in DOMAIN led :
                  /\ led[i] > t - span
                  /\ \A j \in DOMAIN led : led[j] > t - span => i <= j
  IN led[oldest] + span

-----------------------------------------------------------------------------
(* Admission.                                                               *)

\* What an attempt refused at admission is told.
AdmissionCodes ==
  {"admitted", "delayed", "unsafe_provider_amplification",
   "authentication_refresh_required", "human_acknowledgement_required",
   "circuit_open", "cooldown_active", "upstream_allowance_exhausted",
   "task_budget_exhausted", "retry_budget_exhausted",
   "rolling_budget_exhausted", "context_cancelled", "governor_closed",
   "duplicate_client_request", "queue_full"}

Delay(code, until) == [code |-> code, until |-> until, verdict |-> "delay"]
Reject(code) == [code |-> code, until |-> 0, verdict |-> "reject"]
Grant == [code |-> "admitted", until |-> 0, verdict |-> "admit"]

AllowanceSpent(p) ==
  p.limited \/ (p.available # NoValue /\ p.available - ManualReserve <= 0)

\* checkLocked, first half: what the circuit and telemetry say.
checkProtection(t, p) ==
  IF p.unsafe THEN Reject("unsafe_provider_amplification")
  ELSE IF p.refreshRequired THEN Reject("authentication_refresh_required")
  ELSE IF p.state = "human_review_required"
    THEN Reject("human_acknowledgement_required")
  ELSE IF p.state = "open_until" /\ p.openUntil = 0 THEN Reject("circuit_open")
  ELSE IF p.state = "open_until" /\ t < p.openUntil
    THEN Delay("circuit_open", p.openUntil)
  ELSE IF p.upstreamOpen /\ p.telemetryCooldown > t
    THEN Delay("circuit_open", p.telemetryCooldown)
  ELSE IF p.upstreamOpen THEN Reject("circuit_open")
  ELSE IF t < p.cooldownUntil THEN Delay("cooldown_active", p.cooldownUntil)
  ELSE IF AllowanceSpent(p) /\ p.resetAt > t
    THEN Delay("upstream_allowance_exhausted", p.resetAt)
  ELSE IF AllowanceSpent(p) THEN Reject("upstream_allowance_exhausted")
  ELSE Grant

\* Mutant: the start interval is off by one, everything else is checked.
checkUsageEarly(t, c, led) ==
  IF tasks[TaskOf[c]].attempts >= TaskBudget
    THEN Reject("task_budget_exhausted")
  ELSE IF c \in RetryCallers /\ tasks[TaskOf[c]].retries >= RetryBudget
    THEN Reject("retry_budget_exhausted")
  ELSE IF ExhaustedWindows(led, t) # {}
    THEN Delay("rolling_budget_exhausted", nextSlot(led, t))
  ELSE IF lastStart # 0 /\ t + 1 < lastStart + MinimumStartInterval
    THEN Delay("delayed", lastStart + MinimumStartInterval)
  ELSE Grant

\* checkLocked, second half: budgets, rolling windows, pacing.
checkUsage(t, c, led) ==
  IF tasks[TaskOf[c]].attempts >= TaskBudget
    THEN Reject("task_budget_exhausted")
  ELSE IF c \in RetryCallers /\ tasks[TaskOf[c]].retries >= RetryBudget
    THEN Reject("retry_budget_exhausted")
  ELSE IF ExhaustedWindows(led, t) # {}
    THEN Delay("rolling_budget_exhausted", nextSlot(led, t))
  ELSE IF lastStart # 0 /\ t < lastStart + MinimumStartInterval
    THEN Delay("delayed", lastStart + MinimumStartInterval)
  ELSE Grant

\* Mutant: a lane in use is not noticed.
checkWithoutLane(t, c, p, led) ==
  IF checkProtection(t, p) # Grant THEN checkProtection(t, p)
  ELSE checkUsage(t, c, led)

check(t, c, p, led) ==
  IF inFlight THEN Delay("delayed", 0)
  ELSE IF checkProtection(t, p) # Grant THEN checkProtection(t, p)
  ELSE checkUsage(t, c, led)

\* The one transition checkLocked makes itself: a passed open_until closes.
closeExpiredCircuit(p, t) ==
  IF /\ ~inFlight /\ ~p.unsafe /\ ~p.refreshRequired
     /\ p.state = "open_until" /\ p.openUntil # 0 /\ t >= p.openUntil
    THEN transitionCircuit(p, "closed", "", 0)
    ELSE p

\* Mutant: last in, first out.
eligibleNewest(q) == q[Len(q)]

\* eligibleIndexLocked: the head, or the oldest waiter of another task once
\* the current task has used its quantum.
eligible(q) ==
  LET others == {i \in DOMAIN q : TaskOf[q[i]] # currentTask}
  IN IF currentTask # NoValue /\ consecutiveTurns >= FairnessQuantum
          /\ others # {}
       THEN q[CHOOSE i \in others : \A j \in others : i <= j]
       ELSE q[1]

signalAll(waiters) ==
  woken' = woken \cup {d \in Callers : pc[d] = "waiting"
                        /\ \E i \in DOMAIN waiters : waiters[i] = d}

Without(q, c) ==
  LET i == CHOOSE i \in DOMAIN q : q[i] = c
  IN SubSeq(q, 1, i - 1) \o SubSeq(q, i + 1, Len(q))

\* removeWaiterLocked: a waiter already removed by Close is left alone.
removeWaiter(c) ==
  IF InQueue(c)
    THEN /\ queue' = Without(queue, c)
         /\ requestIDs' = [requestIDs EXCEPT ![RequestID[c]] = "none"]
         /\ signalAll(Without(queue, c))
    ELSE UNCHANGED <<queue, requestIDs, woken>>

Finished(c, code) ==
  /\ pc' = [pc EXCEPT ![c] = "done"]
  /\ result' = [result EXCEPT ![c] = code]

NoRead == [at |-> 0, snapshot |-> NoValue]

\* Mutant: a completed id is forgotten.
requestUnfinished(c) == requestIDs[RequestID[c]] \in {"pending", "active"}

requestSeen(c) == requestIDs[RequestID[c]] # "none"

\* What both Admit and TryAdmit refuse before they queue or look further.
refusal(c) ==
  IF c \in cancelled THEN "context_cancelled"
  ELSE IF closed THEN "governor_closed"
  ELSE IF requestSeen(c) THEN "duplicate_client_request"
  ELSE IF Len(queue) >= QueueCapacity THEN "queue_full"
  ELSE ""

\* queueAdmit, first critical section.
Enqueue(c) ==
  /\ pc[c] = "idle" /\ c \notin TryCallers
  /\ \/ /\ refusal(c) # ""
        /\ Finished(c, refusal(c))
        /\ UNCHANGED <<queue, requestIDs>>
     \/ /\ refusal(c) = ""
        /\ queue' = Append(queue, c)
        /\ requestIDs' = [requestIDs EXCEPT ![RequestID[c]] = "pending"]
        /\ pc' = [pc EXCEPT ![c] = "queued"]
        /\ UNCHANGED result
  /\ UNCHANGED <<now, cancelled, wakeAt, woken, seen, inFlight, currentTask,
                 consecutiveTurns, accountVars, protection, closed>>

\* The head of queueAdmit's loop: leave, sleep, or go and read telemetry.
Reconsider(c) ==
  /\ pc[c] = "queued"
  /\ \/ /\ c \in cancelled
        /\ removeWaiter(c)
        /\ Finished(c, "context_cancelled")
     \/ /\ c \notin cancelled /\ closed
        /\ Finished(c, "governor_closed")
        /\ UNCHANGED <<queue, requestIDs, woken>>
     \/ /\ c \notin cancelled /\ ~closed
        /\ pc' = [pc EXCEPT ![c] =
                    IF eligible(queue) = c THEN "reading" ELSE "waiting"]
        /\ UNCHANGED <<queue, requestIDs, woken, result>>
  /\ UNCHANGED <<now, cancelled, wakeAt, seen, inFlight, currentTask,
                 consecutiveTurns, accountVars, protection, closed>>

\* waitForChange returns true: the notify channel closed or the timer fired.
Wake(c) ==
  /\ pc[c] = "waiting"
  /\ c \in woken \/ (wakeAt[c] # 0 /\ now >= wakeAt[c])
  /\ pc' = [pc EXCEPT ![c] = "queued"]
  /\ wakeAt' = [wakeAt EXCEPT ![c] = 0]
  /\ woken' = woken \ {c}
  /\ UNCHANGED <<now, result, seen, cancelled, laneVars, accountVars,
                 requestIDs, protection, closed>>

\* waitForChange returns false: the context ended while asleep.
AbandonWait(c) ==
  /\ pc[c] = "waiting" /\ c \in cancelled
  /\ IF InQueue(c)
       THEN /\ queue' = Without(queue, c)
            /\ requestIDs' = [requestIDs EXCEPT ![RequestID[c]] = "none"]
            /\ woken' = (woken \cup {d \in Callers : pc[d] = "waiting"
                                       /\ InQueue(d)}) \ {c}
       ELSE /\ woken' = woken \ {c}
            /\ UNCHANGED <<queue, requestIDs>>
  /\ wakeAt' = [wakeAt EXCEPT ![c] = 0]
  /\ Finished(c, "context_cancelled")
  /\ UNCHANGED <<now, seen, cancelled, inFlight, currentTask,
                 consecutiveTurns, accountVars, protection, closed>>

\* readTelemetry and clock.Now, both outside the lock.
ReadTelemetry(c) ==
  /\ pc[c] \in {"reading", "tryReading"}
  /\ \E s \in TelemetrySnapshots \cup {NoValue} :
       seen' = [seen EXCEPT ![c] =
         [at |-> now,
          snapshot |-> IF s = NoValue THEN s ELSE
            [remaining |-> s.remaining, limited |-> s.limited,
             retryAfter |-> s.retryAfter, upstream |-> s.upstream,
             routeChanged |-> s.routeChanged,
             resetAt |-> IF s.resetIn = 0 THEN 0 ELSE now + s.resetIn,
             cooldownUntil |->
               IF s.cooldownIn = 0 THEN 0 ELSE now + s.cooldownIn]]]
  /\ pc' = [pc EXCEPT ![c] =
              IF @ = "reading" THEN "deciding" ELSE "tryDeciding"]
  /\ UNCHANGED <<now, result, wakeAt, woken, cancelled, laneVars, accountVars,
                 requestIDs, protection, closed>>


Granted(c) ==
  /\ inFlight' = TRUE
  /\ pc' = [pc EXCEPT ![c] = "granted"]
  /\ result' = [result EXCEPT ![c] = "admitted"]

\* queueAdmit, second critical section.  The clock was read before the lock
\* was taken, so seen[c].at may be behind now.
Decide(c) ==
  LET t == seen[c].at
      told == applyTelemetry(protection, seen[c].snapshot, t)
      p == expireProtection(told, t)
      led == expireLedger(ledger, t)
      verdict == check(t, c, p, led)
      rest == Without(queue, c)
  IN
  /\ pc[c] = "deciding"
  /\ seen' = [seen EXCEPT ![c] = NoRead]
  /\ \/ /\ ~InQueue(c)
        /\ Finished(c, "governor_closed")
        /\ UNCHANGED <<queue, requestIDs, woken, wakeAt, inFlight, ledger,
                       protection>>
     \/ /\ InQueue(c) /\ c \in cancelled
        /\ protection' = told
        /\ removeWaiter(c)
        /\ Finished(c, "context_cancelled")
        /\ UNCHANGED <<wakeAt, inFlight, ledger>>
     \/ /\ InQueue(c) /\ c \notin cancelled
        /\ protection' = closeExpiredCircuit(p, t)
        /\ ledger' = led
        /\ \/ /\ verdict.verdict = "delay"
              /\ wakeAt' = [wakeAt EXCEPT ![c] = verdict.until]
              /\ pc' = [pc EXCEPT ![c] = "waiting"]
              /\ UNCHANGED <<queue, requestIDs, woken, result, inFlight>>
           \/ /\ verdict.verdict = "reject"
              /\ removeWaiter(c)
              /\ Finished(c, verdict.code)
              /\ UNCHANGED <<wakeAt, inFlight>>
           \/ /\ verdict.verdict = "admit"
              /\ queue' = rest
              /\ signalAll(rest)
              /\ requestIDs' = [requestIDs EXCEPT ![RequestID[c]] = "pending"]
              /\ Granted(c)
              /\ UNCHANGED wakeAt
  /\ UNCHANGED <<now, cancelled, currentTask, consecutiveTurns, lastStart,
                 tasks, attemptIDs, startedAt, closed>>

\* tryAdmit: what it refuses before and again after it reads telemetry.
tryRefusal(c) ==
  IF closed THEN "governor_closed"
  ELSE IF requestSeen(c) THEN "duplicate_client_request"
  ELSE IF Len(queue) >= QueueCapacity THEN "queue_full"
  ELSE IF queue # << >> \/ inFlight THEN "delayed"
  ELSE IF c \in cancelled THEN "context_cancelled"
  ELSE ""

TryBegin(c) ==
  /\ pc[c] = "idle" /\ c \in TryCallers
  /\ \/ /\ c \in cancelled /\ Finished(c, "context_cancelled")
     \/ /\ c \notin cancelled /\ tryRefusal(c) # ""
        /\ Finished(c, tryRefusal(c))
     \/ /\ c \notin cancelled /\ tryRefusal(c) = ""
        /\ pc' = [pc EXCEPT ![c] = "tryReading"]
        /\ UNCHANGED result
  /\ UNCHANGED <<now, cancelled, wakeAt, woken, seen, laneVars, accountVars,
                 requestIDs, protection, closed>>

\* tryAdmit after the telemetry read; the clock is read under the lock.
TryDecide(c) ==
  LET p == expireProtection(
             applyTelemetry(protection, seen[c].snapshot, now), now)
      led == expireLedger(ledger, now)
      verdict == check(now, c, p, led)
  IN
  /\ pc[c] = "tryDeciding"
  /\ seen' = [seen EXCEPT ![c] = NoRead]
  /\ \/ /\ tryRefusal(c) # ""
        /\ Finished(c, tryRefusal(c))
        /\ UNCHANGED <<requestIDs, inFlight, ledger, protection>>
     \/ /\ tryRefusal(c) = ""
        /\ protection' = closeExpiredCircuit(p, now)
        /\ ledger' = led
        /\ \/ /\ verdict.verdict # "admit"
              /\ Finished(c, verdict.code)
              /\ UNCHANGED <<requestIDs, inFlight>>
           \/ /\ verdict.verdict = "admit"
              /\ requestIDs' = [requestIDs EXCEPT ![RequestID[c]] = "pending"]
              /\ Granted(c)
  /\ UNCHANGED <<now, cancelled, wakeAt, woken, queue, currentTask,
                 consecutiveTurns, lastStart, tasks, attemptIDs, startedAt,
                 closed>>

-----------------------------------------------------------------------------
(* The permit.                                                              *)

\* Mutant: nobody is woken.
releaseLaneSilently(c, code) ==
  /\ inFlight' = FALSE
  /\ Finished(c, code) /\ UNCHANGED woken

releaseLane(c, code) ==
  /\ inFlight' = FALSE
  /\ signalAll(queue)
  /\ Finished(c, code)

\* Execute: the context ended between admission and start.
CancelBeforeStart(c) ==
  /\ pc[c] = "granted" /\ c \in cancelled
  /\ requestIDs' = [requestIDs EXCEPT ![RequestID[c]] = "none"]
  /\ releaseLane(c, "context_cancelled")
  /\ UNCHANGED <<now, cancelled, wakeAt, seen, queue, currentTask,
                 consecutiveTurns, accountVars, protection, closed>>

\* Mutant: usage is assigned where it should be added.
assignUsage(c, n, retried) ==
  tasks' = [tasks EXCEPT ![TaskOf[c]].attempts = n,
                         ![TaskOf[c]].retries = retried]

debitTask(c, n, retried) ==
  tasks' = [tasks EXCEPT ![TaskOf[c]].attempts = @ + n,
                         ![TaskOf[c]].retries = @ + retried]

oneRetry(c) == IF c \in RetryCallers THEN 1 ELSE 0

\* Permit.start: a plain attempt is debited here, a receipt-aware one when its
\* receipts arrive.
Start(c) ==
  LET task == TaskOf[c] IN
  /\ pc[c] = "granted" /\ c \notin cancelled
  /\ pc' = [pc EXCEPT ![c] = "started"]
  /\ startedAt' = now
  /\ requestIDs' = [requestIDs EXCEPT ![RequestID[c]] = "active"]
  /\ currentTask' = task
  /\ consecutiveTurns' = IF currentTask = task THEN consecutiveTurns + 1 ELSE 1
  /\ \/ /\ ReceiptAware
        /\ ledger' = expireLedger(ledger, now)
        /\ protection' = expireProtection(protection, now)
        /\ UNCHANGED <<lastStart, tasks>>
     \/ /\ ~ReceiptAware
        /\ lastStart' = now
        /\ debitTask(c, 1, oneRetry(c))
        /\ ledger' = Append(expireLedger(ledger, now), now)
        /\ protection' = spendAvailable(expireProtection(protection, now), 1)
  /\ UNCHANGED <<now, result, cancelled, wakeAt, woken, seen, queue, inFlight,
                 attemptIDs, closed>>

\* Mutant: a finished request's id may be used again.
forgetRequest(c) ==
  requestIDs' = [requestIDs EXCEPT ![RequestID[c]] = "none"]

completeRequest(c) ==
  requestIDs' = [requestIDs EXCEPT ![RequestID[c]] = "completed"]

\* The durable intent could not be committed: no call, no further debit.
CancelAfterStart(c) ==
  /\ pc[c] = "started"
  /\ completeRequest(c)
  /\ releaseLane(c, "intent_not_persisted")
  /\ UNCHANGED <<now, cancelled, wakeAt, seen, queue, currentTask,
                 consecutiveTurns, accountVars, protection, closed>>

Finish(c) ==
  /\ pc[c] = "started" /\ ~ReceiptAware
  /\ \E o \in Outcomes :
       protection' = recordOutcome(expireProtection(protection, now), now, o)
  /\ ledger' = expireLedger(ledger, now)
  /\ completeRequest(c)
  /\ releaseLane(c, "finished")
  /\ UNCHANGED <<now, cancelled, wakeAt, seen, queue, currentTask,
                 consecutiveTurns, lastStart, tasks, attemptIDs, startedAt,
                 closed>>

\* What receipt i says of its attempt: the last receipt carries the retry
\* guidance of an outcome of its own class.
receiptOutcome(receipts, o, i) ==
  IF i = Len(receipts) /\ o.class # "success" /\ o.class = receipts[i].class
    THEN o ELSE [class |-> receipts[i].class, retryIn |-> 0, resetIn |-> 0]

\* The protection record before the receipts and after each of them.
afterReceipts(p, t, receipts, o) ==
  LET after[i \in 0..Len(receipts)] ==
        IF i = 0 THEN p
        ELSE recordOutcome(after[i - 1], t, receiptOutcome(receipts, o, i))
  IN after

\* What the receipts and then the logical outcome do to the circuit.
reconcileReceipts(p, t, receipts, o) ==
  LET last == afterReceipts(p, t, receipts, o)[Len(receipts)]
  IN IF o.class # "success" /\ o.class # receipts[Len(receipts)].class
       THEN recordOutcome(last, t, o) ELSE last

\* The positions, in order, of the receipts of a set not seen before: empty when
\* all are replays.
newReceipts(set) ==
  LET new == {i \in DOMAIN set : set[i].id \notin attemptIDs}
  IN {f \in [1..Cardinality(new) -> new] :
        new # {} /\ \A i, j \in DOMAIN f : i < j => f[i] < f[j]}

\* Mutant: only a replayed receipt counts as amplification.
amplifiedByReplay(set, fresh) == Len(fresh) < Len(set)

amplified(set, fresh) == Len(set) > 1 \/ Len(fresh) < Len(set)

\* The debits of the new receipts of a set, and what they do to the circuit.
\* More than one receipt, or a replayed one, stops the account.
applyReceipts(c, set, o, at, fresh) ==
  LET receipts == [k \in DOMAIN fresh |-> set[fresh[k]]]
      starts == [k \in DOMAIN fresh |-> at[fresh[k]]]
      retried == {k \in DOMAIN fresh : fresh[k] > 1 \/ c \in RetryCallers}
      account == spendAvailable(expireProtection(protection, now), Len(fresh))
  IN /\ attemptIDs' = attemptIDs \cup {set[i].id : i \in DOMAIN set}
     /\ ledger' = expireLedger(ledger, now) \o starts
     /\ debitTask(c, Len(fresh), Cardinality(retried))
     /\ protection' = [reconcileReceipts(account, now, receipts, o)
                         EXCEPT !.unsafe = @ \/ amplified(set, fresh)]
     /\ lastStart' = Max2(lastStart, starts[Len(fresh)])

\* FinishWithAttemptReceipts for a structurally valid set with at least one
\* receipt not seen before.  Start times are already clamped into the permit
\* interval; receipt i + 1 starts no earlier than receipt i.
FinishWithAttemptReceipts(c) ==
  /\ pc[c] = "started" /\ ReceiptAware
  /\ \E set \in ReceiptSets, o \in Outcomes :
       \E at \in [DOMAIN set -> startedAt..now], fresh \in newReceipts(set) :
         /\ \A i, j \in DOMAIN set : i < j => at[i] <= at[j]
         /\ applyReceipts(c, set, o, at, fresh)
  /\ completeRequest(c)
  /\ releaseLane(c, "finished")
  /\ UNCHANGED <<now, cancelled, wakeAt, seen, queue, currentTask,
                 consecutiveTurns, startedAt, closed>>

\* finishReceiptFailureLocked: an invalid set is debited as one possible
\* attempt, a set of replayed receipts is not; both stop the account.
FinishReceiptFailure(c) ==
  /\ pc[c] = "started" /\ ReceiptAware
  /\ \/ /\ \E set \in ReceiptSets : \A i \in DOMAIN set : set[i].id \in attemptIDs
        /\ protection' = [expireProtection(protection, now) EXCEPT !.unsafe = TRUE]
        /\ ledger' = expireLedger(ledger, now)
        /\ UNCHANGED <<tasks, lastStart>>
     \/ /\ protection' = [spendAvailable(expireProtection(protection, now), 1)
                            EXCEPT !.unsafe = TRUE]
        /\ ledger' = Append(expireLedger(ledger, now), startedAt)
        /\ lastStart' = startedAt
        /\ debitTask(c, 1, oneRetry(c))
  /\ completeRequest(c)
  /\ releaseLane(c, "receipts_rejected")
  /\ UNCHANGED <<now, cancelled, wakeAt, seen, queue, currentTask,
                 consecutiveTurns, attemptIDs, startedAt, closed>>

-----------------------------------------------------------------------------
(* The operator's and the environment's steps.                              *)

BeginCredentialRefresh ==
  /\ protection.refreshRequired
  /\ ~protection.refreshInFlight /\ ~inFlight /\ queue = << >>
  /\ protection' = [protection EXCEPT !.refreshInFlight = TRUE]
  /\ UNCHANGED <<now, callerVars, cancelled, laneVars, accountVars, requestIDs,
                 closed>>

\* RefreshPermit.Finish
FinishCredentialRefresh ==
  /\ protection.refreshInFlight
  /\ \/ protection' = transitionCircuit(
             [protection EXCEPT !.refreshInFlight = FALSE,
                                !.refreshRequired = FALSE], "closed", "", 0)
     \/ protection' = transitionCircuit(
             [protection EXCEPT !.refreshInFlight = FALSE],
             "human_review_required", "authentication_expired", 0)
  /\ UNCHANGED <<now, callerVars, cancelled, laneVars, accountVars, requestIDs,
                 closed>>

AcknowledgeHuman ==
  /\ protection.state = "human_review_required"
  /\ protection' = transitionCircuit(
       [protection EXCEPT !.rateEvents = << >>, !.lastRateReset = 0,
                          !.refreshRequired = FALSE], "closed", "", 0)
  /\ UNCHANGED <<now, callerVars, cancelled, laneVars, accountVars, requestIDs,
                 closed>>

\* Close empties the queue without releasing the waiters' request ids.
Close ==
  /\ ~closed /\ closed' = TRUE
  /\ signalAll(queue)
  /\ queue' = << >>
  /\ UNCHANGED <<now, pc, result, cancelled, wakeAt, seen, inFlight,
                 currentTask, consecutiveTurns, accountVars, requestIDs,
                 protection>>

CancelContext(c) ==
  /\ c \notin cancelled /\ pc[c] # "done"
  /\ cancelled' = cancelled \cup {c}
  /\ UNCHANGED <<now, callerVars, laneVars, accountVars, requestIDs,
                 protection, closed>>

Tick ==
  /\ now < MaxTime /\ now' = now + 1
  /\ UNCHANGED <<callerVars, cancelled, laneVars, accountVars, requestIDs,
                 protection, closed>>

-----------------------------------------------------------------------------
Init ==
  /\ now = 1
  /\ pc = [c \in Callers |-> "idle"] /\ result = [c \in Callers |-> ""]
  /\ cancelled = {} /\ wakeAt = [c \in Callers |-> 0] /\ woken = {}
  /\ seen = [c \in Callers |-> NoRead]
  /\ queue = << >> /\ inFlight = FALSE
  /\ currentTask = NoValue /\ consecutiveTurns = 0
  /\ lastStart = 0 /\ ledger = << >>
  /\ tasks = [t \in Tasks |-> [attempts |-> 0, retries |-> 0]]
  /\ requestIDs = [r \in Requests |-> "none"]
  /\ attemptIDs = {} /\ startedAt = 0
  /\ protection = InitialProtection /\ closed = FALSE

\* One goroutine inside Execute.
Run(c) ==
  \/ Enqueue(c) \/ Reconsider(c) \/ Wake(c) \/ AbandonWait(c)
  \/ ReadTelemetry(c) \/ Decide(c) \/ TryBegin(c) \/ TryDecide(c)
  \/ CancelBeforeStart(c) \/ Start(c) \/ CancelAfterStart(c)
  \/ Finish(c) \/ FinishWithAttemptReceipts(c) \/ FinishReceiptFailure(c)

Operator ==
  \/ "refresh" \in OperatorSteps
       /\ (BeginCredentialRefresh \/ FinishCredentialRefresh)
  \/ "acknowledge" \in OperatorSteps /\ AcknowledgeHuman
  \/ "close" \in OperatorSteps /\ Close
  \/ "cancel" \in OperatorSteps /\ \E c \in Callers : CancelContext(c)

Next == (\E c \in Callers : Run(c)) \/ Operator \/ Tick

Spec == Init /\ [][Next]_vars

-----------------------------------------------------------------------------
(* Properties.                                                              *)

Holders == {c \in Callers : pc[c] \in {"granted", "started"}}

CalledUpstream ==
  {c \in Callers :
     \/ pc[c] = "started"
     \/ pc[c] = "done" /\ result[c] \in {"finished", "receipts_rejected"}}

\* The step grants the lane to c.
Grants(c) == pc[c] # "granted" /\ pc'[c] = "granted"

\* The step starts c's provider call.
Starts(c) == pc[c] = "granted" /\ pc'[c] = "started"

Times == Nat

ProtectionType ==
  [state : {"closed", "open_until", "human_review_required"},
   reason : Classes \cup {""}, openUntil : Times, refreshRequired : BOOLEAN,
   refreshInFlight : BOOLEAN, lastRateReset : Times, rateEvents : Seq(Times),
   cooldownUntil : Times, available : Int \cup {NoValue}, resetAt : Times,
   telemetryCooldown : Times, limited : BOOLEAN, upstreamOpen : BOOLEAN,
   unsafe : BOOLEAN]

\* What a caller is told in the end, "" until then.
Results ==
  AdmissionCodes \cup {"", "intent_not_persisted", "finished", "receipts_rejected"}

\* Every variable has the type the governor's fields have.
TypeOK ==
  /\ now \in Times
  /\ pc \in [Callers -> PCs] /\ result \in [Callers -> Results]
  /\ cancelled \subseteq Callers /\ woken \subseteq Callers
  /\ wakeAt \in [Callers -> Times]
  /\ queue \in Seq(Callers) /\ inFlight \in BOOLEAN
  /\ currentTask \in Tasks \cup {NoValue} /\ consecutiveTurns \in Nat
  /\ lastStart \in Times /\ ledger \in Seq(Times)
  /\ tasks \in [Tasks -> [attempts : Nat, retries : Nat]]
  /\ requestIDs \in [Requests -> {"none", "pending", "active", "completed"}]
  /\ attemptIDs \subseteq Nat /\ startedAt \in Times
  /\ protection \in ProtectionType /\ closed \in BOOLEAN

-----------------------------------------------------------------------------
(* The abstract lane this module implements.                                *)

phaseOf(at, code) ==
  CASE at \in {"idle", "tryReading", "tryDeciding"} -> "outside"
    [] at \in {"queued", "waiting", "reading", "deciding"} -> "waiting"
    [] at = "granted" -> "granted"
    [] at = "started" -> "calling"
    [] at = "done" -> IF code \in {"finished", "receipts_rejected"}
                        THEN "called" ELSE "left"

lanePhase == [c \in Callers |-> phaseOf(pc[c], result[c])]

laneIDs == {r \in Requests : requestIDs[r] # "none"}

Lane == INSTANCE AccountLane
          WITH phase <- lanePhase, ids <- laneIDs,
               Interval <- MinimumStartInterval

\* The governor implements the abstract account lane: whatever the queue, the
\* circuit, telemetry, receipts and Close do, callers see one permit at a time,
\* paced calls and at most one call per client request id.
ImplementsLane == Lane!Spec

\* One account lane: at most one permit is held, and inFlight says exactly
\* whether one is, although grants happen in queueAdmit and tryAdmit and
\* releases in four different permit methods.
SingleLane ==
  /\ inFlight <=> Holders # {}
  /\ \A c, d \in Holders : c = d

\* A client request id reaches the provider at most once, whatever duplicates,
\* cancellations and waiters removed by Close happen around it.
RequestCalledOnce ==
  \A c, d \in CalledUpstream : RequestID[c] = RequestID[d] => c = d

\* Starts keep the minimum start-to-start interval even though queueAdmit reads
\* the clock before it takes the lock it decides under.
PacedStarts ==
  [][\A c \in Callers : Starts(c) /\ lastStart # 0
        => now >= lastStart + MinimumStartInterval]_vars

\* The rolling windows and the task and retry budgets are never exceeded unless
\* the provider amplified one request, and then the account is stopped.
UsageWithinLimits ==
  \/ protection.unsafe
  \/ /\ \A w \in DOMAIN Windows :
          ledgerCount(ledger, now, Windows[w].span) <= Windows[w].ceiling
     /\ \A t \in Tasks : /\ tasks[t].attempts <= TaskBudget
                         /\ tasks[t].retries <= RetryBudget

\* Every provider call that came back is in its task's usage, and one whose
\* receipts were rejected has stopped the account.
EveryCallDebited ==
  /\ \A t \in Tasks : tasks[t].attempts >=
       Cardinality({c \in Callers : TaskOf[c] = t /\ result[c] = "finished"})
  /\ (\E c \in Callers : result[c] = "receipts_rejected") => protection.unsafe

\* With the lane free, the waiter whose turn it is runs, has been signalled or
\* sleeps towards a deadline, and so does one that Close took off the queue: no
\* wake-up is lost between the unlock and the wait.
TurnIsTaken ==
  /\ queue # << >> /\ ~inFlight =>
       LET c == eligible(queue)
       IN pc[c] = "waiting" => c \in woken \/ wakeAt[c] # 0
  /\ \A c \in Callers : pc[c] = "waiting" => InQueue(c) \/ c \in woken

\* The queue is first come first served within a task, and TryAdmit never
\* passes a waiter: eligibility was decided before the telemetry read.
NoOvertaking ==
  [][\A c \in Callers : Grants(c) =>
       \A i \in DOMAIN queue :
         \/ queue[i] = c
         \/ \E j \in DOMAIN queue : queue[j] = c /\ j < i
         \/ TaskOf[queue[i]] # TaskOf[c]]_vars

\* An announced reset in the future is covered by the cooldown, so no plain
\* attempt starts before it.
CooldownCoversReset ==
  protection.lastRateReset > now
    => protection.cooldownUntil >= protection.lastRateReset

=============================================================================
