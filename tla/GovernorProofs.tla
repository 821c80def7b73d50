--------------------------- MODULE GovernorProofs ---------------------------
(***************************************************************************)
(* Proofs about the account governor, for every set of callers and every   *)
(* configuration: the lane is held by one permit at a time, starts are     *)
(* paced, a client request id reaches the provider at most once, an        *)
(* announced reset is waited for, a severe circuit waits for an operator,  *)
(* every call is debited within its windows and budgets, no wake-up is     *)
(* lost and nobody is overtaken within a task.                             *)
(***************************************************************************)
EXTENDS Governor, FiniteSetTheorems, SequenceTheorems, WellFoundedInduction,
        TLAPS

\* The types of the variables the results depend on.
CallerTypes ==
  /\ pc \in [Callers -> PCs] /\ DOMAIN result = Callers
  /\ inFlight \in BOOLEAN
  /\ requestIDs \in [Requests -> {"none", "pending", "active", "completed"}]
  /\ now \in Nat /\ lastStart \in Nat /\ startedAt \in Nat
  /\ DOMAIN seen = Callers
  /\ \A c \in Callers : seen[c].at \in Nat

\* A time read outside the lock or at the start of a call is never ahead of the
\* clock.
ClockInv ==
  /\ startedAt <= now /\ lastStart <= now
  /\ \A c \in Callers : seen[c].at <= now

IndInv == CallerTypes /\ ClockInv /\ SingleLane

-----------------------------------------------------------------------------
\* checkLocked admits only an idle lane whose last start is an interval ago.
LEMMA CheckFacts ==
  ASSUME NEW t, NEW c, NEW p, NEW led
  PROVE  /\ check(t, c, p, led).code \in AdmissionCodes
         /\ check(t, c, p, led).verdict = "admit" =>
              ~inFlight /\ ~(lastStart # 0 /\ t < lastStart + MinimumStartInterval)
  <1>1. checkProtection(t, p).code \in AdmissionCodes
    BY DEF checkProtection, Delay, Reject, Grant, AdmissionCodes
  <1>2. checkProtection(t, p) # Grant => checkProtection(t, p).verdict # "admit"
    BY DEF checkProtection, Delay, Reject, Grant
  <1>3. checkUsage(t, c, led).code \in AdmissionCodes
    BY DEF checkUsage, Delay, Reject, Grant, AdmissionCodes
  <1>4. checkUsage(t, c, led).verdict = "admit" =>
          ~(lastStart # 0 /\ t < lastStart + MinimumStartInterval)
    BY DEF checkUsage, Delay, Reject, Grant
  <1>5. Delay("delayed", 0).code \in AdmissionCodes
        /\ Delay("delayed", 0).verdict # "admit"
    BY DEF Delay, AdmissionCodes
  <1> QED
    BY <1>1, <1>2, <1>3, <1>4, <1>5 DEF check

LEMMA RefusalFacts ==
  ASSUME NEW c
  PROVE  /\ refusal(c) # "" => refusal(c) \in AdmissionCodes
         /\ tryRefusal(c) # "" => tryRefusal(c) \in AdmissionCodes
         /\ refusal(c) = "" => ~requestSeen(c)
         /\ tryRefusal(c) = "" => ~requestSeen(c) /\ ~inFlight
  BY DEF refusal, tryRefusal, AdmissionCodes

\* An admission code is not the result of a provider call.
LEMMA CodesAreNotResults ==
  \A code \in AdmissionCodes : code \notin {"finished", "receipts_rejected"}
  BY DEF AdmissionCodes

\* The inductive invariant holds at the start.
LEMMA InitInv == Init => IndInv
  <1> SUFFICES ASSUME Init PROVE IndInv
    OBVIOUS
  <1>1. CallerTypes
    BY DEF Init, CallerTypes, PCs, NoRead
  <1>2. SingleLane
    BY DEF Init, SingleLane, Holders
  <1>3. ClockInv
    <2>1. startedAt = 0 /\ lastStart = 0 /\ now = 1
          /\ \A c \in Callers : seen[c].at = 0
      BY DEF Init, NoRead
    <2> QED
      BY <2>1 DEF ClockInv
  <1> QED
    BY <1>1, <1>2, <1>3 DEF IndInv

-----------------------------------------------------------------------------
(* Every action is one of six moves of one caller, or a step that moves no  *)
(* caller.  Each move is described by what it does to the caller's pc, its  *)
(* result, the lane and the request ids.                                    *)

OutsidePCs == {"idle", "tryReading", "tryDeciding"}
WaitingPCs == {"queued", "waiting", "reading", "deciding"}

\* The caller stays where it is in the abstract lane.
Wanders(c, to) ==
  /\ \/ pc[c] \in OutsidePCs /\ to \in OutsidePCs
     \/ pc[c] \in WaitingPCs /\ to \in WaitingPCs
  /\ pc' = [pc EXCEPT ![c] = to]
  /\ UNCHANGED <<result, inFlight, requestIDs, now, lastStart, startedAt>>

\* The caller queues under a fresh id.
Queues(c) ==
  /\ pc[c] = "idle" /\ ~requestSeen(c)
  /\ pc' = [pc EXCEPT ![c] = "queued"]
  /\ requestIDs' = [requestIDs EXCEPT ![RequestID[c]] = "pending"]
  /\ UNCHANGED <<result, inFlight, now, lastStart, startedAt>>

\* The caller is turned away before it held the lane.
TurnedAway(c, code) ==
  /\ code \in AdmissionCodes
  /\ pc[c] \in OutsidePCs \cup WaitingPCs
  /\ pc' = [pc EXCEPT ![c] = "done"]
  /\ result' = [result EXCEPT ![c] = code]
  /\ \/ requestIDs' = requestIDs
     \/ /\ pc[c] \in WaitingPCs
        /\ requestIDs' = [requestIDs EXCEPT ![RequestID[c]] = "none"]
  /\ UNCHANGED <<inFlight, now, lastStart, startedAt>>

\* The caller is granted the free lane.
TakesLane(c) ==
  /\ pc[c] \in WaitingPCs \/ (pc[c] \in OutsidePCs /\ ~requestSeen(c))
  /\ ~inFlight /\ inFlight' = TRUE
  /\ lastStart = 0 \/ now >= lastStart + MinimumStartInterval
  /\ pc' = [pc EXCEPT ![c] = "granted"]
  /\ requestIDs' = [requestIDs EXCEPT ![RequestID[c]] = "pending"]
  /\ UNCHANGED <<now, lastStart, startedAt>>
  /\ result' = [result EXCEPT ![c] = "admitted"]

\* The holder gives the lane back.
FreesLane(c) ==
  /\ inFlight' = FALSE
  /\ pc' = [pc EXCEPT ![c] = "done"]
  /\ result' = [result EXCEPT ![c] = result'[c]]
  /\ UNCHANGED <<now, startedAt>>
  /\ \/ /\ pc[c] = "granted"
        /\ result'[c] \notin {"finished", "receipts_rejected"}
        /\ requestIDs' = [requestIDs EXCEPT ![RequestID[c]] = "none"]
        /\ UNCHANGED lastStart
     \/ /\ pc[c] = "started"
        /\ requestIDs' = [requestIDs EXCEPT ![RequestID[c]] = "completed"]
        /\ lastStart' \in Nat /\ lastStart' <= now

\* The provider call starts.
Calls(c) ==
  /\ pc[c] = "granted"
  /\ pc' = [pc EXCEPT ![c] = "started"]
  /\ startedAt' = now /\ lastStart' \in {lastStart, now}
  /\ requestIDs' = [requestIDs EXCEPT ![RequestID[c]] = "active"]
  /\ UNCHANGED <<result, inFlight, now>>

\* Reads outside the lock are of the current clock.
ReadsClock ==
  /\ DOMAIN seen' = Callers
  /\ \A c \in Callers : seen'[c].at \in {seen[c].at, now, 0}

CallerMove(c) ==
  \/ \E to \in PCs : Wanders(c, to)
  \/ Queues(c)
  \/ \E code \in AdmissionCodes : TurnedAway(c, code)
  \/ TakesLane(c) \/ FreesLane(c) \/ Calls(c)

\* Admission: every critical section of queueAdmit and tryAdmit is a move.
LEMMA AdmissionMoves ==
  ASSUME IndInv, NEW c \in Callers,
         \/ Enqueue(c) \/ Reconsider(c) \/ Wake(c) \/ AbandonWait(c)
         \/ ReadTelemetry(c) \/ Decide(c) \/ TryBegin(c) \/ TryDecide(c)
  PROVE  CallerMove(c) /\ ReadsClock
  <1> USE DEF IndInv, CallerTypes, OutsidePCs, WaitingPCs
  <1>1. CASE Enqueue(c)
    <2>1. ReadsClock
      BY <1>1 DEF Enqueue, ReadsClock
    <2>2. CASE refusal(c) # ""
      <3>1. TurnedAway(c, refusal(c)) /\ refusal(c) \in AdmissionCodes
        BY <1>1, <2>2, RefusalFacts DEF Enqueue, Finished, TurnedAway, accountVars
      <3> QED
        BY <2>1, <3>1 DEF CallerMove
    <2>3. CASE refusal(c) = ""
      <3>1. Queues(c)
        BY <1>1, <2>3, RefusalFacts DEF Enqueue, Queues, accountVars
      <3> QED
        BY <2>1, <3>1 DEF CallerMove
    <2> QED
      BY <2>2, <2>3
  <1>2. CASE Reconsider(c)
    <2>1. ReadsClock
      BY <1>2 DEF Reconsider, ReadsClock
    <2>2. CASE c \in cancelled
      <3>1. TurnedAway(c, "context_cancelled")
        BY <1>2, <2>2 DEF Reconsider, removeWaiter, Finished, TurnedAway,
           accountVars, AdmissionCodes
      <3> QED
        BY <2>1, <3>1 DEF CallerMove, AdmissionCodes
    <2>3. CASE c \notin cancelled /\ closed
      <3>1. TurnedAway(c, "governor_closed")
        BY <1>2, <2>3 DEF Reconsider, Finished, TurnedAway, accountVars,
           AdmissionCodes
      <3> QED
        BY <2>1, <3>1 DEF CallerMove, AdmissionCodes
    <2>4. CASE c \notin cancelled /\ ~closed
      <3>1. Wanders(c, IF eligible(queue) = c THEN "reading" ELSE "waiting")
        BY <1>2, <2>4 DEF Reconsider, Wanders, accountVars
      <3> QED
        BY <2>1, <3>1 DEF CallerMove, PCs
    <2> QED
      BY <2>2, <2>3, <2>4
  <1>3. CASE Wake(c)
    <2>1. Wanders(c, "queued") /\ ReadsClock
      BY <1>3 DEF Wake, Wanders, ReadsClock, laneVars, accountVars
    <2> QED
      BY <2>1 DEF CallerMove, PCs
  <1>4. CASE AbandonWait(c)
    <2>1. TurnedAway(c, "context_cancelled") /\ ReadsClock
      BY <1>4 DEF AbandonWait, Finished, TurnedAway, ReadsClock, accountVars,
         AdmissionCodes
    <2> QED
      BY <2>1 DEF CallerMove, AdmissionCodes
  <1>5. CASE ReadTelemetry(c)
    <2>1. PICK snapshot :
            seen' = [seen EXCEPT ![c] = [at |-> now, snapshot |-> snapshot]]
      BY <1>5 DEF ReadTelemetry
    <2>2. ReadsClock
      BY <2>1 DEF ReadsClock
    <2>3. Wanders(c, IF pc[c] = "reading" THEN "deciding" ELSE "tryDeciding")
      BY <1>5 DEF ReadTelemetry, Wanders, laneVars, accountVars
    <2> QED
      BY <2>2, <2>3 DEF CallerMove, PCs
  <1>6. CASE Decide(c)
    <2> DEFINE t == seen[c].at
               told == applyTelemetry(protection, seen[c].snapshot, t)
               p == expireProtection(told, t)
               led == expireLedger(ledger, t)
               verdict == check(t, c, p, led)
    <2>1. ReadsClock
      BY <1>6 DEF Decide, ReadsClock, NoRead
    <2>2. CASE ~InQueue(c)
      <3>1. TurnedAway(c, "governor_closed")
        BY <1>6, <2>2 DEF Decide, Finished, TurnedAway, AdmissionCodes
      <3> QED
        BY <2>1, <3>1 DEF CallerMove, AdmissionCodes
    <2>3. CASE InQueue(c) /\ c \in cancelled
      <3>1. TurnedAway(c, "context_cancelled")
        BY <1>6, <2>3 DEF Decide, removeWaiter, Finished, TurnedAway,
           AdmissionCodes
      <3> QED
        BY <2>1, <3>1 DEF CallerMove, AdmissionCodes
    <2>4. CASE InQueue(c) /\ c \notin cancelled
      <3> HIDE DEF verdict
      <3>1. CASE /\ verdict.verdict = "delay"
                 /\ pc' = [pc EXCEPT ![c] = "waiting"]
                 /\ UNCHANGED <<requestIDs, result, inFlight>>
        <4>1. Wanders(c, "waiting")
          BY <1>6, <3>1 DEF Decide, Wanders
        <4> QED
          BY <2>1, <4>1 DEF CallerMove, PCs
      <3>2. CASE /\ verdict.verdict = "reject"
                 /\ removeWaiter(c) /\ Finished(c, verdict.code)
                 /\ UNCHANGED inFlight
        <4>1. verdict.code \in AdmissionCodes
          BY CheckFacts DEF verdict
        <4>2. TurnedAway(c, verdict.code)
          BY <1>6, <3>2, <4>1 DEF Decide, removeWaiter, Finished, TurnedAway
        <4> QED
          BY <2>1, <4>1, <4>2 DEF CallerMove
      <3>3. CASE /\ verdict.verdict = "admit"
                 /\ requestIDs' = [requestIDs EXCEPT ![RequestID[c]] = "pending"]
                 /\ Granted(c)
        <4>1. ~inFlight /\ ~(lastStart # 0 /\ t < lastStart + MinimumStartInterval)
          BY <3>3, CheckFacts DEF verdict
        <4>2. lastStart = 0 \/ now >= lastStart + MinimumStartInterval
          BY <4>1, GovernorAssumption DEF ClockInv
        <4>3. TakesLane(c)
          BY <1>6, <3>3, <4>1, <4>2 DEF Decide, Granted, TakesLane
        <4> QED
          BY <2>1, <4>3 DEF CallerMove
      <3> QED
        BY <1>6, <2>4, <3>1, <3>2, <3>3 DEF Decide, verdict
    <2> QED
      BY <2>2, <2>3, <2>4
  <1>7. CASE TryBegin(c)
    <2>1. ReadsClock
      BY <1>7 DEF TryBegin, ReadsClock
    <2>2. CASE Finished(c, "context_cancelled")
      <3>1. TurnedAway(c, "context_cancelled")
        BY <1>7, <2>2 DEF TryBegin, Finished, TurnedAway, laneVars, accountVars,
           AdmissionCodes
      <3> QED
        BY <2>1, <3>1 DEF CallerMove, AdmissionCodes
    <2>3. CASE tryRefusal(c) # "" /\ Finished(c, tryRefusal(c))
      <3>1. TurnedAway(c, tryRefusal(c)) /\ tryRefusal(c) \in AdmissionCodes
        BY <1>7, <2>3, RefusalFacts DEF TryBegin, Finished, TurnedAway, laneVars,
           accountVars
      <3> QED
        BY <2>1, <3>1 DEF CallerMove
    <2>4. CASE pc' = [pc EXCEPT ![c] = "tryReading"] /\ UNCHANGED result
      <3>1. Wanders(c, "tryReading")
        BY <1>7, <2>4 DEF TryBegin, Wanders, laneVars, accountVars
      <3> QED
        BY <2>1, <3>1 DEF CallerMove, PCs
    <2> QED
      BY <1>7, <2>2, <2>3, <2>4 DEF TryBegin
  <1>8. CASE TryDecide(c)
    <2> DEFINE p == expireProtection(
                      applyTelemetry(protection, seen[c].snapshot, now), now)
               led == expireLedger(ledger, now)
               verdict == check(now, c, p, led)
    <2>1. ReadsClock
      BY <1>8 DEF TryDecide, ReadsClock, NoRead
    <2>2. CASE tryRefusal(c) # "" /\ Finished(c, tryRefusal(c))
               /\ UNCHANGED <<requestIDs, inFlight>>
      <3>1. TurnedAway(c, tryRefusal(c)) /\ tryRefusal(c) \in AdmissionCodes
        BY <1>8, <2>2, RefusalFacts DEF TryDecide, Finished, TurnedAway
      <3> QED
        BY <2>1, <3>1 DEF CallerMove
    <2> HIDE DEF verdict
    <2>3. CASE Finished(c, verdict.code) /\ UNCHANGED <<requestIDs, inFlight>>
      <3>1. verdict.code \in AdmissionCodes
        BY CheckFacts DEF verdict
      <3>2. TurnedAway(c, verdict.code)
        BY <1>8, <2>3, <3>1 DEF TryDecide, Finished, TurnedAway
      <3> QED
        BY <2>1, <3>1, <3>2 DEF CallerMove
    <2>4. CASE /\ tryRefusal(c) = "" /\ verdict.verdict = "admit"
               /\ requestIDs' = [requestIDs EXCEPT ![RequestID[c]] = "pending"]
               /\ Granted(c)
      <3>1. ~inFlight /\ ~(lastStart # 0 /\ now < lastStart + MinimumStartInterval)
        BY <2>4, CheckFacts DEF verdict
      <3>2. lastStart = 0 \/ now >= lastStart + MinimumStartInterval
        BY <3>1, GovernorAssumption
      <3>3. TakesLane(c)
        BY <1>8, <2>4, <3>1, <3>2, RefusalFacts DEF TryDecide, Granted, TakesLane
      <3> QED
        BY <2>1, <3>3 DEF CallerMove
    <2> QED
      BY <1>8, <2>2, <2>3, <2>4 DEF TryDecide, verdict
  <1> QED
    BY <1>1, <1>2, <1>3, <1>4, <1>5, <1>6, <1>7, <1>8

\* The permit: start, cancellation and the three ways to finish are moves.
LEMMA PermitMoves ==
  ASSUME IndInv, NEW c \in Callers,
         \/ CancelBeforeStart(c) \/ Start(c) \/ CancelAfterStart(c)
         \/ Finish(c) \/ FinishWithAttemptReceipts(c) \/ FinishReceiptFailure(c)
  PROVE  CallerMove(c) /\ ReadsClock
  <1> USE DEF IndInv, CallerTypes
  <1>1. ReadsClock
    BY DEF ReadsClock, CancelBeforeStart, Start, CancelAfterStart, Finish,
       FinishWithAttemptReceipts, FinishReceiptFailure
  <1>2. CASE CancelBeforeStart(c)
    BY <1>1, <1>2 DEF CancelBeforeStart, releaseLane, Finished, accountVars,
       FreesLane, CallerMove
  <1>3. CASE Start(c)
    BY <1>1, <1>3 DEF Start, Calls, CallerMove
  <1>4. CASE CancelAfterStart(c)
    <2>1. lastStart' \in Nat /\ lastStart' <= now
      BY <1>4 DEF CancelAfterStart, accountVars, ClockInv
    <2> QED
      BY <1>1, <1>4, <2>1 DEF CancelAfterStart, releaseLane, completeRequest,
         Finished, accountVars, FreesLane, CallerMove
  <1>5. CASE Finish(c)
    <2>1. lastStart' \in Nat /\ lastStart' <= now
      BY <1>5 DEF Finish, ClockInv
    <2> QED
      BY <1>1, <1>5, <2>1 DEF Finish, releaseLane, completeRequest, Finished,
         FreesLane, CallerMove
  <1>6. CASE FinishWithAttemptReceipts(c)
    <2>1. lastStart' \in Nat /\ lastStart' <= now
      <3>0. PICK set \in ReceiptSets, o \in Outcomes :
              \E at \in [DOMAIN set -> startedAt..now], fresh \in newReceipts(set) :
                applyReceipts(c, set, o, at, fresh)
        BY <1>6, Zenon DEF FinishWithAttemptReceipts
      <3>1. PICK at \in [DOMAIN set -> startedAt..now], fresh \in newReceipts(set) :
              applyReceipts(c, set, o, at, fresh)
        BY <3>0
      <3>2. Len(fresh) \in DOMAIN fresh /\ fresh[Len(fresh)] \in DOMAIN set
        <4> DEFINE new == {i \in DOMAIN set : set[i].id \notin attemptIDs}
        <4>1. IsFiniteSet(DOMAIN set)
          <5>1. set \in Seq([id : Nat, class : Classes])
            BY OutcomesAssumption
          <5>2. DOMAIN set = 1..Len(set) /\ Len(set) \in Nat
            BY <5>1
          <5> QED
            BY <5>2, FS_Interval
        <4>2. IsFiniteSet(new) /\ Cardinality(new) \in Nat
          BY <4>1, FS_Subset, FS_CardinalityType
        <4>3. new # {} /\ fresh \in [1..Cardinality(new) -> new]
          BY DEF newReceipts
        <4>4. Cardinality(new) >= 1
          <5>1. Cardinality(new) # 0
            BY <4>2, <4>3, FS_EmptySet, Zenon
          <5> QED
            BY <4>2, <5>1
        <4>5. Len(fresh) = Cardinality(new)
          BY <4>2, <4>3
        <4> QED
          BY <4>2, <4>3, <4>4, <4>5
      <3>3. at[fresh[Len(fresh)]] \in Nat /\ at[fresh[Len(fresh)]] <= now
        BY <3>2
      <3> QED
        BY <3>1, <3>2, <3>3 DEF applyReceipts, Max2, ClockInv
    <2> QED
      BY <1>1, <1>6, <2>1 DEF FinishWithAttemptReceipts, releaseLane,
         completeRequest, Finished, FreesLane, CallerMove
  <1>7. CASE FinishReceiptFailure(c)
    <2>1. lastStart' \in Nat /\ lastStart' <= now
      BY <1>7 DEF FinishReceiptFailure, ClockInv
    <2> QED
      BY <1>1, <1>7, <2>1 DEF FinishReceiptFailure, releaseLane, completeRequest,
         Finished, FreesLane, CallerMove
  <1> QED
    BY <1>2, <1>3, <1>4, <1>5, <1>6, <1>7

\* The clock, the operator and the environment move no caller.
LEMMA EnvironmentMoves ==
  ASSUME IndInv, Operator \/ Tick
  PROVE  /\ UNCHANGED <<pc, result, inFlight, requestIDs, lastStart, startedAt,
                        seen>>
         /\ now' \in Nat /\ now' >= now
  <1> USE DEF IndInv, CallerTypes, callerVars, laneVars, accountVars
  <1>1. CASE Tick
    BY <1>1 DEF Tick
  <1>2. CASE BeginCredentialRefresh \/ FinishCredentialRefresh
             \/ AcknowledgeHuman
    <2>1. UNCHANGED <<now, callerVars, laneVars, accountVars, requestIDs>>
      BY <1>2, Zenon DEF BeginCredentialRefresh, FinishCredentialRefresh,
         AcknowledgeHuman
    <2> QED
      BY <2>1
  <1>4. CASE Close
    BY <1>4 DEF Close
  <1>5. ASSUME NEW c \in Callers, CancelContext(c)
        PROVE  /\ UNCHANGED <<pc, result, inFlight, requestIDs, lastStart,
                              startedAt, seen>>
               /\ now' \in Nat /\ now' >= now
    BY <1>5 DEF CancelContext
  <1> QED
    BY <1>1, <1>2, <1>4, <1>5 DEF Operator

\* A move keeps the types, the clock bounds and the single lane.
LEMMA MoveInv ==
  ASSUME IndInv, NEW c \in Callers, CallerMove(c), ReadsClock
  PROVE  IndInv'
  <1> USE DEF IndInv
  <1>0. RequestID[c] \in Requests
    BY DEF Requests
  <1>1. CallerTypes'
    <2>1. DOMAIN seen' = Callers /\ \A d \in Callers : seen'[d].at \in Nat
      BY DEF CallerTypes, ReadsClock
    <2>2. pc' \in [Callers -> PCs] /\ DOMAIN result' = Callers
      BY DEF CallerTypes, CallerMove, Wanders, Queues, TurnedAway, TakesLane,
         FreesLane, Calls, PCs
    <2>3. requestIDs' \in [Requests -> {"none", "pending", "active", "completed"}]
      BY <1>0 DEF CallerTypes, CallerMove, Wanders, Queues, TurnedAway, TakesLane,
         FreesLane, Calls
    <2>4. /\ inFlight' \in BOOLEAN
          /\ now' \in Nat /\ lastStart' \in Nat /\ startedAt' \in Nat
      BY DEF CallerTypes, CallerMove, Wanders, Queues, TurnedAway, TakesLane,
         FreesLane, Calls
    <2> QED
      BY <2>1, <2>2, <2>3, <2>4 DEF CallerTypes
  <1>2. ClockInv'
    BY DEF CallerTypes, ClockInv, CallerMove, ReadsClock, Wanders, Queues,
       TurnedAway, TakesLane, FreesLane, Calls
  <1>3. SingleLane'
    BY DEF CallerTypes, SingleLane, Holders, CallerMove, Wanders, Queues,
       TurnedAway, TakesLane, FreesLane, Calls, OutsidePCs, WaitingPCs, PCs
  <1> QED
    BY <1>1, <1>2, <1>3

\* The inductive invariant is inductive.
LEMMA StepInv == IndInv /\ [Next]_vars => IndInv'
  <1> SUFFICES ASSUME IndInv, [Next]_vars PROVE IndInv'
    OBVIOUS
  <1>1. CASE UNCHANGED vars
    BY <1>1 DEF vars, callerVars, laneVars, accountVars, IndInv, CallerTypes,
       ClockInv, SingleLane, Holders
  <1>2. CASE Operator \/ Tick
    BY <1>2, EnvironmentMoves DEF IndInv, CallerTypes, ClockInv, SingleLane,
       Holders
  <1>3. ASSUME NEW c \in Callers, Run(c) PROVE IndInv'
    <2>1. CallerMove(c) /\ ReadsClock
      BY <1>3, AdmissionMoves, PermitMoves DEF Run
    <2> QED
      BY <2>1, MoveInv
  <1> QED
    BY <1>1, <1>2, <1>3 DEF Next

\* One account lane: in every configuration at most one permit is held, and
\* inFlight says exactly whether one is.
THEOREM SingleLaneHolds == Spec => []SingleLane
  BY InitInv, StepInv, PTL DEF Spec, IndInv

-----------------------------------------------------------------------------
(* Refinement of the abstract lane.                                         *)

\* A move changes the abstract phase of the caller that moves, and no other.
LEMMA PhaseMoves ==
  ASSUME IndInv, NEW c \in Callers, CallerMove(c)
  PROVE  lanePhase' = [lanePhase EXCEPT ![c] = phaseOf(pc'[c], result'[c])]
  <1>1. \A d \in Callers \ {c} : pc'[d] = pc[d] /\ result'[d] = result[d]
    BY DEF IndInv, CallerTypes, CallerMove, Wanders, Queues, TurnedAway,
       TakesLane, FreesLane, Calls
  <1> QED
    BY <1>1 DEF lanePhase

\* The phases a caller can be in.
LEMMA Phases ==
  ASSUME NEW code
  PROVE  /\ \A at \in OutsidePCs : phaseOf(at, code) = "outside"
         /\ \A at \in WaitingPCs : phaseOf(at, code) = "waiting"
         /\ phaseOf("granted", code) = "granted"
         /\ phaseOf("started", code) = "calling"
         /\ phaseOf("done", code) \in {"called", "left"}
         /\ code \notin {"finished", "receipts_rejected"}
              => phaseOf("done", code) = "left"
  BY DEF phaseOf, OutsidePCs, WaitingPCs

\* Reserving an id adds it to the reserved ids, releasing one removes it.
LEMMA ReservedIDs ==
  ASSUME IndInv, NEW c \in Callers, NEW st \in {"pending", "active", "completed"}
  PROVE  /\ requestIDs' = [requestIDs EXCEPT ![RequestID[c]] = st]
              => laneIDs' = laneIDs \cup {RequestID[c]}
         /\ requestIDs' = [requestIDs EXCEPT ![RequestID[c]] = "none"]
              => laneIDs' = laneIDs \ {RequestID[c]}
         /\ requestSeen(c) <=> RequestID[c] \in laneIDs
  <1>1. RequestID[c] \in Requests
    BY DEF Requests
  <1> QED
    BY <1>1 DEF IndInv, CallerTypes, laneIDs, requestSeen

\* Every move is a step of the abstract lane, or leaves it as it is.
LEMMA MoveRefines ==
  ASSUME IndInv, NEW c \in Callers, CallerMove(c)
  PROVE  [Lane!Next]_(Lane!vars)
  <1> USE DEF IndInv
  <1> DEFINE to == phaseOf(pc'[c], result'[c])
  <1>1. lanePhase' = [lanePhase EXCEPT ![c] = to]
    BY PhaseMoves
  <1>2. lanePhase[c] = phaseOf(pc[c], result[c]) /\ c \in DOMAIN lanePhase
    BY DEF lanePhase
  <1>3. pc'[c] \in PCs /\ c \in DOMAIN pc /\ c \in DOMAIN result
    BY DEF CallerTypes, CallerMove, Wanders, Queues, TurnedAway, TakesLane,
       FreesLane, Calls, PCs
  <1>4. ASSUME NEW at \in PCs, Wanders(c, at) PROVE UNCHANGED Lane!vars
    <2>1. to = lanePhase[c]
      BY <1>2, <1>3, <1>4, Phases DEF Wanders, CallerTypes
    <2>2. lanePhase' = lanePhase
      BY <1>1, <2>1 DEF lanePhase
    <2>3. laneIDs' = laneIDs
      BY <1>4 DEF Wanders, laneIDs
    <2> QED
      BY <1>4, <2>2, <2>3 DEF Wanders, Lane!vars
  <1>5. CASE Queues(c)
    <2>1. lanePhase[c] = "outside" /\ to = "waiting"
      BY <1>2, <1>3, <1>5, Phases DEF Queues, CallerTypes, OutsidePCs, WaitingPCs
    <2>2. RequestID[c] \notin laneIDs /\ laneIDs' = laneIDs \cup {RequestID[c]}
      BY <1>5, ReservedIDs DEF Queues
    <2>3. Lane!Join(c)
      BY <1>1, <1>5, <2>1, <2>2 DEF Queues, Lane!Join, Lane!Moves
    <2> QED
      BY <2>3 DEF Lane!Next
  <1>6. ASSUME NEW code \in AdmissionCodes, TurnedAway(c, code)
        PROVE  Lane!Next
    <2>1. to = "left"
      BY <1>3, <1>6, Phases, CodesAreNotResults DEF TurnedAway, CallerTypes
    <2>2. \/ lanePhase[c] = "outside" /\ laneIDs' = laneIDs
          \/ lanePhase[c] = "waiting"
             /\ laneIDs' \in {laneIDs, laneIDs \ {RequestID[c]}}
      BY <1>2, <1>6, Phases, ReservedIDs DEF TurnedAway, laneIDs, OutsidePCs,
         WaitingPCs
    <2>3. Lane!Leave(c)
      BY <1>1, <1>6, <2>1, <2>2 DEF TurnedAway, Lane!Leave, Lane!Moves
    <2> QED
      BY <2>3 DEF Lane!Next
  <1>7. CASE TakesLane(c)
    <2>1. to = "granted"
      BY <1>3, <1>7, Phases DEF TakesLane, CallerTypes
    <2>2. \/ lanePhase[c] = "waiting"
          \/ lanePhase[c] = "outside" /\ RequestID[c] \notin laneIDs
      BY <1>2, <1>7, Phases, ReservedIDs DEF TakesLane
    <2>3. Lane!LaneFree
      BY <1>7 DEF TakesLane, SingleLane, Holders, Lane!LaneFree, Lane!Held,
         lanePhase, phaseOf, CallerTypes, PCs
    <2>4. Lane!Paced
      BY <1>7 DEF TakesLane, Lane!Paced
    <2>5. laneIDs' = laneIDs \cup {RequestID[c]}
      BY <1>7, ReservedIDs DEF TakesLane
    <2>6. Lane!Admit(c)
      BY <1>1, <1>7, <2>1, <2>2, <2>3, <2>4, <2>5 DEF TakesLane, Lane!Admit,
         Lane!Moves
    <2> QED
      BY <2>6 DEF Lane!Next
  <1>8. CASE FreesLane(c) /\ pc[c] = "granted"
    <2>1. lanePhase[c] = "granted" /\ to = "left"
      BY <1>2, <1>3, <1>8, Phases DEF FreesLane, CallerTypes
    <2>2. laneIDs' = laneIDs \ {RequestID[c]}
      BY <1>8, ReservedIDs DEF FreesLane
    <2>3. Lane!GiveBack(c)
      BY <1>1, <1>8, <2>1, <2>2 DEF FreesLane, Lane!GiveBack, Lane!Moves
    <2> QED
      BY <2>3 DEF Lane!Next
  <1>9. CASE FreesLane(c) /\ pc[c] = "started"
    <2>1. lanePhase[c] = "calling" /\ to \in {"called", "left"}
      BY <1>2, <1>3, <1>9, Phases DEF FreesLane, CallerTypes
    <2>2. laneIDs' = laneIDs \cup {RequestID[c]}
      BY <1>9, ReservedIDs DEF FreesLane
    <2>3. Lane!Return(c)
      BY <1>1, <1>9, <2>1, <2>2 DEF FreesLane, Lane!Return, Lane!Moves
    <2> QED
      BY <2>3 DEF Lane!Next
  <1>10. CASE Calls(c)
    <2>1. lanePhase[c] = "granted" /\ to = "calling"
      BY <1>2, <1>3, <1>10, Phases DEF Calls, CallerTypes
    <2>2. laneIDs' = laneIDs \cup {RequestID[c]}
      BY <1>10, ReservedIDs DEF Calls
    <2>3. Lane!Call(c)
      BY <1>1, <1>10, <2>1, <2>2 DEF Calls, Lane!Call, Lane!Moves
    <2> QED
      BY <2>3 DEF Lane!Next
  <1> QED
    BY <1>4, <1>5, <1>6, <1>7, <1>8, <1>9, <1>10 DEF CallerMove, FreesLane

LEMMA InitRefines == Init => Lane!Init
  <1> SUFFICES ASSUME Init PROVE Lane!Init
    OBVIOUS
  <1>1. lanePhase = [c \in Callers |-> "outside"]
    BY Phases DEF Init, lanePhase, OutsidePCs
  <1>2. laneIDs = {}
    BY DEF Init, laneIDs
  <1> QED
    BY <1>1, <1>2 DEF Init, Lane!Init

LEMMA StepRefines == IndInv /\ [Next]_vars => [Lane!Next]_(Lane!vars)
  <1> SUFFICES ASSUME IndInv, [Next]_vars PROVE [Lane!Next]_(Lane!vars)
    OBVIOUS
  <1>1. CASE UNCHANGED vars
    BY <1>1 DEF vars, callerVars, laneVars, accountVars, Lane!vars, lanePhase,
       laneIDs
  <1>2. CASE Operator \/ Tick
    <2>1. UNCHANGED <<lanePhase, laneIDs, lastStart>> /\ now' \in Nat /\ now' >= now
      BY <1>2, EnvironmentMoves DEF lanePhase, laneIDs
    <2>2. Lane!Clock
      BY <2>1 DEF Lane!Clock
    <2> QED
      BY <2>2 DEF Lane!Next
  <1>3. ASSUME NEW c \in Callers, Run(c) PROVE [Lane!Next]_(Lane!vars)
    <2>1. CallerMove(c)
      BY <1>3, AdmissionMoves, PermitMoves DEF Run
    <2> QED
      BY <2>1, MoveRefines
  <1> QED
    BY <1>1, <1>2, <1>3 DEF Next

\* The governor implements the abstract account lane in every configuration.
THEOREM GovernorImplementsLane == Spec => ImplementsLane
  <1>1. Spec => []IndInv
    BY InitInv, StepInv, PTL DEF Spec
  <1> QED
    BY <1>1, InitRefines, StepRefines, PTL DEF Spec, Lane!Spec, ImplementsLane

\* A client request id reaches the provider at most once: the abstract lane's
\* promise, carried over by the refinement.
THEOREM RequestCalledOnceHolds == Spec => []RequestCalledOnce
  <1>1. MinimumStartInterval \in Nat
    BY GovernorAssumption
  <1>2. Lane!Spec => [](Lane!OneHolder /\ Lane!CalledOnce)
    BY <1>1, Lane!LaneSafety
  <1>3. Lane!CalledOnce => RequestCalledOnce
    <2>1. \A c \in CalledUpstream : lanePhase[c] \in {"calling", "called"}
      BY DEF CalledUpstream, lanePhase, phaseOf
    <2> QED
      BY <2>1 DEF Lane!CalledOnce, RequestCalledOnce, CalledUpstream
  <1> QED
    BY <1>2, <1>3, GovernorImplementsLane, PTL DEF ImplementsLane

\* Starts keep the minimum interval although the clock was read before the lock.
THEOREM PacedStartsHolds == Spec => PacedStarts
  <1>1. MinimumStartInterval \in Nat
    BY GovernorAssumption
  <1>2. Lane!Spec => Lane!PacedCalls
    BY <1>1, Lane!LanePacing
  <1>3. Spec => []IndInv
    BY InitInv, StepInv, PTL DEF Spec
  <1>4. IndInv /\ [Next]_vars
        /\ [\A c \in Callers : lanePhase[c] = "granted" /\ lanePhase'[c] = "calling"
              => Lane!Paced]_(Lane!vars)
        => [\A c \in Callers : Starts(c) /\ lastStart # 0
              => now >= lastStart + MinimumStartInterval]_vars
    <2> SUFFICES ASSUME IndInv, NEW c \in Callers, Starts(c), lastStart # 0,
                        [\A d \in Callers : lanePhase[d] = "granted"
                            /\ lanePhase'[d] = "calling" => Lane!Paced]_(Lane!vars)
                 PROVE  now >= lastStart + MinimumStartInterval
      OBVIOUS
    <2>1. lanePhase[c] = "granted" /\ lanePhase'[c] = "calling"
      BY Phases DEF Starts, lanePhase
    <2>2. ~UNCHANGED Lane!vars
      BY <2>1 DEF Lane!vars
    <2> QED
      BY <2>1, <2>2 DEF Lane!Paced
  <1> QED
    BY <1>2, <1>3, <1>4, GovernorImplementsLane, PTL
       DEF ImplementsLane, PacedStarts, Lane!PacedCalls, Spec

-----------------------------------------------------------------------------
(* Facts about numbers, intervals and sequences that the proofs below need.  *)

\* A nonempty set of naturals has a least element.
LEMMA LeastNatural ==
  ASSUME NEW T \in SUBSET Nat, T # {}
  PROVE  \E x \in T : \A y \in T : x <= y
  <1>1. \E R : /\ \A x, y \in Nat : y < x => <<y, x>> \in R
               /\ \E x \in T : \A y \in T : ~(<<y, x>> \in R)
    <2>1. \E x \in T : \A y \in T : ~(<<y, x>> \in OpToRel(<, Nat))
      BY NatLessThanWellFounded, WFMin
    <2>2. \A x, y \in Nat : y < x => <<y, x>> \in OpToRel(<, Nat)
      BY DEF OpToRel
    <2> QED
      BY <2>1, <2>2, Zenon
  <1>2. PICK R : /\ \A x, y \in Nat : y < x => <<y, x>> \in R
                 /\ \E x \in T : \A y \in T : ~(<<y, x>> \in R)
    BY <1>1
  <1>3. PICK x \in T : \A y \in T : ~(<<y, x>> \in R)
    BY <1>2
  <1>4. \A y \in T : ~(y < x)
    BY <1>2, <1>3
  <1> QED
    BY <1>4

\* Induction in the form the provers can use: a set that holds 0 and the
\* successor of each of its members holds every natural.
LEMMA SetInduction ==
  ASSUME NEW S, 0 \in S, \A n \in Nat : n \in S => n + 1 \in S
  PROVE  Nat \subseteq S
  <1> SUFFICES ASSUME Nat \ S # {} PROVE FALSE
    OBVIOUS
  <1>1. PICK m \in Nat \ S : \A k \in Nat \ S : m <= k
    BY LeastNatural
  <1>2. m # 0 /\ m - 1 \in Nat /\ m - 1 \in S
    BY <1>1
  <1> QED
    BY <1>1, <1>2

\* Positions of a sequence are finitely many.
LEMMA Positions ==
  ASSUME NEW S, NEW s \in Seq(S)
  PROVE  /\ DOMAIN s = 1..Len(s) /\ Len(s) \in Nat
         /\ \A P \in SUBSET DOMAIN s : IsFiniteSet(P) /\ Cardinality(P) \in Nat
  <1>1. DOMAIN s = 1..Len(s) /\ Len(s) \in Nat
    OBVIOUS
  <1>2. IsFiniteSet(DOMAIN s)
    BY <1>1, FS_Interval
  <1> QED
    BY <1>1, <1>2, FS_Subset, FS_CardinalityType

\* A function on 1..n is a sequence of length n.
LEMMA FunctionIsSeq ==
  ASSUME NEW S, NEW n \in Nat, NEW f \in [1..n -> S]
  PROVE  f \in Seq(S) /\ Len(f) = n
  <1>1. f \in Seq(S)
    BY SeqDef
  <1> QED
    BY <1>1

\* dropExpired drops a prefix.
LEMMA DropFacts ==
  ASSUME NEW s \in Seq(Nat), NEW cutoff \in Int
  PROVE  /\ dropExpired(s, cutoff) \in Seq(Nat)
         /\ \E k \in Nat :
              /\ Len(dropExpired(s, cutoff)) <= Len(s)
              /\ \A i \in 1..Len(dropExpired(s, cutoff)) :
                   i + k \in 1..Len(s) /\ dropExpired(s, cutoff)[i] = s[i + k]
  <1> DEFINE k == Cardinality({i \in DOMAIN s : s[i] <= cutoff})
             d == SubSeq(s, k + 1, Len(s))
  <1>1. k \in Nat /\ Len(s) \in Nat /\ DOMAIN s = 1..Len(s)
    BY Positions
  <1> HIDE DEF k
  <1>2. \A i \in (k + 1)..Len(s) : s[i] \in Nat
    BY <1>1
  <1>3. /\ d \in Seq(Nat)
        /\ Len(d) = IF k + 1 <= Len(s) THEN Len(s) - (k + 1) + 1 ELSE 0
        /\ \A i \in 1..(Len(s) - (k + 1) + 1) : d[i] = s[k + 1 + i - 1]
    <2>1. k + 1 \in Int /\ Len(s) \in Int
      BY <1>1
    <2> QED
      BY <1>2, <2>1, SubSeqProperties
  <1>4. /\ Len(d) <= Len(s)
        /\ \A i \in 1..Len(d) : i + k \in 1..Len(s) /\ d[i] = s[i + k]
    BY <1>1, <1>3
  <1>5. dropExpired(s, cutoff) = d
    BY DEF dropExpired, k
  <1> QED
    BY <1>1, <1>3, <1>4, <1>5

-----------------------------------------------------------------------------
(* Circuit, cooldown and telemetry: what every operator on the protection   *)
(* record keeps.                                                            *)

\* An announced reset still ahead at t is covered by the cooldown.
Covered(p, t) == p.lastRateReset > t => p.cooldownUntil >= p.lastRateReset

\* From p to q the account is only held back more.
Tightens(p, q) ==
  /\ q \in ProtectionType
  /\ p.unsafe => q.unsafe
  /\ q.lastRateReset = p.lastRateReset /\ q.cooldownUntil >= p.cooldownUntil

\* From p to q an outcome was recorded at time t.
Records(p, q, t) ==
  /\ q \in ProtectionType
  /\ p.unsafe => q.unsafe
  /\ Covered(p, t) => Covered(q, t)
  /\ p.state # "closed" => q.state # "closed"

SnapshotType ==
  [remaining : Int \cup {NoValue}, limited : BOOLEAN, retryAfter : Nat,
   upstream : {"unknown", "closed", "open"}, routeChanged : BOOLEAN,
   resetAt : Int, cooldownUntil : Int]

\* Expiry forgets rate events and what telemetry said of a passed reset, and
\* touches neither the circuit nor the cooldown.
LEMMA ExpireKeeps ==
  ASSUME NEW p \in ProtectionType, NEW t \in Nat
  PROVE  /\ Tightens(p, expireProtection(p, t))
         /\ expireProtection(p, t).state = p.state
         /\ expireProtection(p, t).unsafe = p.unsafe
         /\ expireProtection(p, t).openUntil = p.openUntil
         /\ expireProtection(p, t).cooldownUntil = p.cooldownUntil
  <1> DEFINE events == dropExpired(p.rateEvents, t - RateResponseWindow)
             q == [p EXCEPT !.rateEvents = events]
             r == [q EXCEPT !.available = NoValue, !.resetAt = 0,
                            !.limited = FALSE, !.telemetryCooldown = 0]
             Same(a, b) == /\ b \in ProtectionType
                           /\ b.state = a.state /\ b.openUntil = a.openUntil
                           /\ b.unsafe = a.unsafe
                           /\ b.lastRateReset = a.lastRateReset
                           /\ b.cooldownUntil = a.cooldownUntil
  <1>1. events \in Seq(Nat)
    <2>1. p.rateEvents \in Seq(Nat)
      BY DEF ProtectionType, Times
    <2>2. t - RateResponseWindow \in Int
      BY GovernorAssumption
    <2> QED
      BY <2>1, <2>2, DropFacts
  <1>2. Same(p, q)
    BY <1>1 DEF ProtectionType, Times
  <1>3. Same(q, r)
    <2> HIDE DEF q
    <2> QED
      BY <1>2 DEF ProtectionType, Times
  <1>4. expireProtection(p, t) \in {q, r}
    BY DEF expireProtection
  <1>5. p.cooldownUntil \in Nat
    BY DEF ProtectionType, Times
  <1> HIDE DEF q, r
  <1> QED
    BY <1>2, <1>3, <1>4, <1>5 DEF Tightens

\* The debit of an allowance touches nothing else.
LEMMA SpendKeeps ==
  ASSUME NEW p \in ProtectionType, NEW n \in Nat
  PROVE  /\ Tightens(p, spendAvailable(p, n))
         /\ spendAvailable(p, n).state = p.state
         /\ spendAvailable(p, n).unsafe = p.unsafe
  <1>1. p.cooldownUntil \in Nat /\ p.available \in Int \cup {NoValue}
    BY DEF ProtectionType, Times
  <1>2. CASE p.available = NoValue
    BY <1>1, <1>2 DEF spendAvailable, Tightens
  <1>3. CASE p.available # NoValue
    <2> DEFINE left == IF p.available > n THEN p.available - n ELSE 0
    <2>1. left \in Int \cup {NoValue}
      BY <1>1, <1>3
    <2>2. spendAvailable(p, n) = [p EXCEPT !.available = left]
      BY <1>3 DEF spendAvailable, ProtectionType
    <2> HIDE DEF left
    <2>3. [p EXCEPT !.available = left] \in ProtectionType
      BY <2>1 DEF ProtectionType, Times
    <2>4. /\ [p EXCEPT !.available = left].state = p.state
          /\ [p EXCEPT !.available = left].unsafe = p.unsafe
          /\ [p EXCEPT !.available = left].lastRateReset = p.lastRateReset
          /\ [p EXCEPT !.available = left].cooldownUntil = p.cooldownUntil
      BY DEF ProtectionType
    <2> QED
      BY <1>1, <2>2, <2>3, <2>4 DEF Tightens
  <1> QED
    BY <1>2, <1>3

\* checkLocked closes only an open_until circuit.
LEMMA CloseKeeps ==
  ASSUME NEW p \in ProtectionType, NEW t \in Nat
  PROVE  /\ Tightens(p, closeExpiredCircuit(p, t))
         /\ p.state # "open_until" \/ t < p.openUntil
              => closeExpiredCircuit(p, t).state = p.state
  <1>1. p.cooldownUntil \in Nat /\ p.openUntil \in Nat
    BY DEF ProtectionType, Times
  <1> DEFINE q == transitionCircuit(p, "closed", "", 0)
  <1>2. q \in ProtectionType
    BY DEF transitionCircuit, ProtectionType, Times
  <1>3. /\ q.unsafe = p.unsafe /\ q.lastRateReset = p.lastRateReset
        /\ q.cooldownUntil = p.cooldownUntil
    BY DEF transitionCircuit, ProtectionType
  <1>4. Tightens(p, q) /\ Tightens(p, p)
    <2> HIDE DEF q
    <2> QED
      BY <1>1, <1>2, <1>3 DEF Tightens
  <1>5. \/ closeExpiredCircuit(p, t) = p
        \/ /\ closeExpiredCircuit(p, t) = q
           /\ p.state = "open_until" /\ t >= p.openUntil
    BY DEF closeExpiredCircuit
  <1>6. t >= p.openUntil => ~(t < p.openUntil)
    BY <1>1
  <1> HIDE DEF q
  <1> QED
    BY <1>4, <1>5, <1>6

\* The later of two times.
LEMMA MaxFacts ==
  \A a, b \in Int : /\ Max2(a, b) \in Int /\ Max2(a, b) >= a /\ Max2(a, b) >= b
                    /\ a \in Nat \/ b \in Nat => Max2(a, b) \in Nat
  BY DEF Max2

\* A snapshot never lifts a stop or a cooldown; it moves the circuit only when
\* it repeats a limit, and then to open_until.
LEMMA TelemetryKeeps ==
  ASSUME NEW p \in ProtectionType, NEW t \in Nat,
         NEW s \in SnapshotType \cup {NoValue}
  PROVE  /\ Tightens(p, applyTelemetry(p, s, t))
         /\ \/ applyTelemetry(p, s, t).state = p.state
            \/ /\ applyTelemetry(p, s, t).state = "open_until"
               /\ applyTelemetry(p, s, t).openUntil > t
               /\ s # NoValue /\ s.limited
  <1>0. p.cooldownUntil \in Nat /\ p.resetAt \in Nat /\ p.telemetryCooldown \in Nat
        /\ p.available \in Int \cup {NoValue}
        /\ p.unsafe \in BOOLEAN /\ p.upstreamOpen \in BOOLEAN
    BY DEF ProtectionType, Times
  <1>1. CASE s = NoValue
    BY <1>0, <1>1 DEF applyTelemetry, Tightens
  <1>2. CASE s # NoValue
    <2>0. s \in SnapshotType
      BY <1>2
    <2>1. /\ s.remaining \in Int \cup {NoValue} /\ s.limited \in BOOLEAN
          /\ s.retryAfter \in Nat /\ s.routeChanged \in BOOLEAN
          /\ s.resetAt \in Int /\ s.cooldownUntil \in Int
      BY <2>0 DEF SnapshotType
    <2> DEFINE newPeriod == s.resetAt > t /\ (p.resetAt = 0 \/ p.resetAt # s.resetAt
                                                \/ t >= p.resetAt)
               retryUntil == IF s.retryAfter = 0 THEN 0 ELSE t + s.retryAfter
               allowance == IF newPeriod THEN s.remaining
                              ELSE lowerAllowance(p.available, s.remaining)
               reset == IF s.resetAt > t THEN s.resetAt ELSE p.resetAt
               pause == Max2(Max2(p.telemetryCooldown,
                                  Max2(s.cooldownUntil, retryUntil)),
                             IF s.upstream = "open" THEN s.resetAt ELSE 0)
               cool == Max2(p.cooldownUntil, Max2(s.cooldownUntil, retryUntil))
               stopped == p.unsafe \/ s.routeChanged
               upstream == IF s.upstream = "unknown" THEN p.upstreamOpen
                             ELSE s.upstream = "open"
               q == [p EXCEPT !.unsafe = stopped, !.available = allowance,
                              !.resetAt = reset, !.telemetryCooldown = pause,
                              !.cooldownUntil = cool, !.limited = s.limited,
                              !.upstreamOpen = upstream]
               until == Max2(p.resetAt, s.resetAt) + ResetSafetyMargin
    <2>2. retryUntil \in Nat
      BY <2>1
    <2>3. allowance \in Int \cup {NoValue}
      BY <1>0, <2>1 DEF lowerAllowance, Min2
    <2>4. reset \in Nat
      BY <1>0, <2>1
    <2> HIDE DEF retryUntil
    <2>5. pause \in Nat /\ cool \in Nat /\ cool >= p.cooldownUntil
      <3>1. Max2(s.cooldownUntil, retryUntil) \in Nat
        BY <2>1, <2>2 DEF Max2
      <3>2. Max2(p.telemetryCooldown, Max2(s.cooldownUntil, retryUntil)) \in Nat
        BY <1>0, <3>1 DEF Max2
      <3>3. (IF s.upstream = "open" THEN s.resetAt ELSE 0) \in Int
        BY <2>1
      <3>4. pause \in Nat
        BY <3>2, <3>3 DEF Max2
      <3>5. cool \in Nat /\ cool >= p.cooldownUntil
        BY <1>0, <3>1 DEF Max2
      <3> QED
        BY <3>4, <3>5
    <2>6. stopped \in BOOLEAN /\ upstream \in BOOLEAN
      BY <1>0, <2>1
    <2>7. applyTelemetry(p, s, t) =
            IF s.limited /\ p.resetAt > t /\ s.resetAt > t
              THEN transitionCircuit(q, "open_until", "rate_capacity", until) ELSE q
      BY <1>2 DEF applyTelemetry, retryUntil, ProtectionType
    <2> HIDE DEF stopped, allowance, reset, pause, cool, upstream
    <2>8. /\ q \in ProtectionType /\ q.unsafe = stopped /\ q.cooldownUntil = cool
          /\ q.lastRateReset = p.lastRateReset /\ q.state = p.state
      BY <2>1, <2>3, <2>4, <2>5, <2>6 DEF ProtectionType, Times
    <2>9. Tightens(p, q)
      BY <2>5, <2>8 DEF Tightens, stopped
    <2> HIDE DEF q
    <2>10. CASE s.limited /\ p.resetAt > t /\ s.resetAt > t
      <3>1. until \in Nat /\ until > t
        BY <1>0, <2>1, <2>10, MaxFacts, GovernorAssumption
      <3> HIDE DEF until
      <3> DEFINE r == transitionCircuit(q, "open_until", "rate_capacity", until)
      <3>2. "rate_capacity" \in Classes
        BY DEF Classes
      <3>3. /\ r \in ProtectionType /\ r.state = "open_until" /\ r.openUntil = until
            /\ r.unsafe = q.unsafe /\ r.lastRateReset = q.lastRateReset
            /\ r.cooldownUntil = q.cooldownUntil
        BY <2>8, <3>1, <3>2 DEF transitionCircuit, ProtectionType, Times
      <3>4. applyTelemetry(p, s, t) = r
        BY <2>7, <2>10
      <3> HIDE DEF r
      <3> QED
        BY <1>2, <2>9, <2>10, <3>1, <3>3, <3>4 DEF Tightens
    <2>11. CASE ~(s.limited /\ p.resetAt > t /\ s.resetAt > t)
      <3>1. applyTelemetry(p, s, t) = q
        BY <2>7, <2>11
      <3> QED
        BY <2>8, <2>9, <3>1
    <2> QED
      BY <2>10, <2>11
  <1> QED
    BY <1>1, <1>2

OutcomeType == [class : Classes, retryIn : Nat, resetIn : Int]

\* A rate response keeps an announced reset covered: the cooldown it sets reaches
\* the reset it announces.
LEMMA RateKeeps ==
  ASSUME NEW p \in ProtectionType, NEW t \in Nat, NEW o \in OutcomeType
  PROVE  Records(p, recordRateResponse(p, t, o), t)
  <1> DEFINE e == expireProtection(p, t)
             events == Append(e.rateEvents, t)
             baseline == BackoffBaseline[Min2(Len(events), Len(BackoffBaseline))]
             resetAt == IF o.resetIn = 0 THEN 0 ELSE Max2(1, t + o.resetIn)
             asked == authoritativeUntil(t, o)
             until == IF asked # 0 THEN asked ELSE t + baseline
             cool == IF until > t THEN Max2(e.cooldownUntil, until)
                       ELSE e.cooldownUntil
             announced == IF resetAt # 0 THEN resetAt ELSE e.lastRateReset
             q == [e EXCEPT !.rateEvents = events, !.cooldownUntil = cool,
                            !.lastRateReset = announced]
             open == Max2(p.lastRateReset, resetAt) + ResetSafetyMargin
             repeated == p.lastRateReset # 0 /\ resetAt > t /\ t < p.lastRateReset
             r == IF repeated
                    THEN transitionCircuit(q, "open_until", "rate_capacity", open)
                    ELSE q
             outcome == IF thresholdReached(events)
               THEN transitionCircuit(r, "human_review_required", "rate_capacity", 0)
               ELSE r
  <1>0. /\ p.lastRateReset \in Nat /\ p.cooldownUntil \in Nat
        /\ o.retryIn \in Nat /\ o.resetIn \in Int
    BY DEF ProtectionType, Times, OutcomeType
  <1>1. /\ e \in ProtectionType /\ e.state = p.state /\ e.unsafe = p.unsafe
        /\ e.cooldownUntil = p.cooldownUntil /\ e.lastRateReset = p.lastRateReset
    BY ExpireKeeps DEF Tightens
  <1> HIDE DEF e
  <1>2. events \in Seq(Nat) /\ Len(events) \in Nat /\ Len(events) >= 1
    <2>1. e.rateEvents \in Seq(Nat)
      BY <1>1 DEF ProtectionType, Times
    <2>2. Len(events) = Len(e.rateEvents) + 1 /\ Len(e.rateEvents) \in Nat
      BY <2>1
    <2> QED
      BY <2>1, <2>2
  <1> HIDE DEF events
  <1>3. baseline \in Nat
    <2>1. Len(BackoffBaseline) \in Nat /\ Len(BackoffBaseline) >= 1
      BY BackoffAssumption
    <2>2. Min2(Len(events), Len(BackoffBaseline)) \in 1..Len(BackoffBaseline)
      BY <1>2, <2>1 DEF Min2
    <2> QED
      BY <2>2, BackoffAssumption
  <1> HIDE DEF baseline
  <1>4. resetAt \in Nat
    BY <1>0 DEF Max2
  <1>5. asked \in Nat /\ asked >= resetAt
    <2>1. (IF o.retryIn = 0 THEN 0 ELSE t + o.retryIn) \in Nat
      BY <1>0
    <2>2. asked = Max2(IF o.retryIn = 0 THEN 0 ELSE t + o.retryIn, resetAt)
      BY DEF authoritativeUntil
    <2> HIDE DEF asked, resetAt
    <2> QED
      BY <1>4, <2>1, <2>2 DEF Max2
  <1> HIDE DEF asked, resetAt
  <1>6. until \in Nat /\ (resetAt > t => until >= resetAt)
    BY <1>3, <1>4, <1>5
  <1> HIDE DEF until
  <1>7. /\ cool \in Nat /\ cool >= p.cooldownUntil
        /\ resetAt > t => cool >= resetAt
    BY <1>0, <1>1, <1>4, <1>6 DEF Max2
  <1> HIDE DEF cool
  <1>8. announced \in Nat /\ announced \in {resetAt, p.lastRateReset}
    BY <1>0, <1>1, <1>4
  <1> HIDE DEF announced
  <1>9. /\ q \in ProtectionType /\ q.state = p.state /\ q.unsafe = p.unsafe
        /\ q.cooldownUntil = cool /\ q.lastRateReset = announced
    BY <1>1, <1>2, <1>7, <1>8 DEF ProtectionType, Times
  <1>10. Covered(p, t) => Covered(q, t)
    BY <1>0, <1>4, <1>7, <1>8, <1>9 DEF Covered
  <1>11. open \in Nat
    BY <1>0, <1>4, GovernorAssumption DEF Max2
  <1> HIDE DEF q, open
  <1>12. "rate_capacity" \in Classes
    BY DEF Classes
  <1>13. /\ r \in ProtectionType /\ r.unsafe = q.unsafe
         /\ r.state \in {q.state, "open_until"}
         /\ r.cooldownUntil = q.cooldownUntil /\ r.lastRateReset = q.lastRateReset
    BY <1>9, <1>11, <1>12 DEF transitionCircuit, ProtectionType, Times
  <1> HIDE DEF r
  <1>14. /\ outcome \in ProtectionType /\ outcome.unsafe = r.unsafe
         /\ outcome.state \in {r.state, "human_review_required"}
         /\ outcome.cooldownUntil = r.cooldownUntil
         /\ outcome.lastRateReset = r.lastRateReset
    BY <1>12, <1>13 DEF transitionCircuit, ProtectionType, Times
  <1>15. recordRateResponse(p, t, o) = outcome
    BY <1>1 DEF recordRateResponse, e, events, baseline, resetAt, asked, until, cool,
       announced, q, open, r, ProtectionType
  <1> HIDE DEF outcome
  <1> QED
    BY <1>9, <1>10, <1>13, <1>14, <1>15 DEF Records, Covered

\* recordOutcomeLocked keeps the announced reset covered and releases no stop.
LEMMA OutcomeKeeps ==
  ASSUME NEW p \in ProtectionType, NEW t \in Nat, NEW o \in OutcomeType
  PROVE  Records(p, recordOutcome(p, t, o), t)
  <1>1. CASE o.class = "rate_capacity"
    BY <1>1, RateKeeps DEF recordOutcome
  <1>2. CASE o.class = "authentication_expired"
    <2> DEFINE q == [p EXCEPT !.refreshRequired = TRUE]
               r == transitionCircuit(q, "open_until", "authentication_expired", 0)
    <2>1. /\ q \in ProtectionType /\ q.unsafe = p.unsafe
          /\ q.cooldownUntil = p.cooldownUntil /\ q.lastRateReset = p.lastRateReset
      BY DEF ProtectionType, Times
    <2> HIDE DEF q
    <2>2. /\ r \in ProtectionType /\ r.unsafe = q.unsafe /\ r.state = "open_until"
          /\ r.cooldownUntil = q.cooldownUntil /\ r.lastRateReset = q.lastRateReset
      BY <2>1 DEF transitionCircuit, ProtectionType, Times, Classes
    <2>3. recordOutcome(p, t, o) = r
      BY <1>2 DEF recordOutcome, q
    <2> HIDE DEF r
    <2> QED
      BY <2>1, <2>2, <2>3 DEF Records, Covered
  <1>3. CASE o.class = "security_signal"
    <2> DEFINE r == transitionCircuit(p, "human_review_required", "security_signal", 0)
    <2>1. /\ r \in ProtectionType /\ r.unsafe = p.unsafe
          /\ r.state = "human_review_required"
          /\ r.cooldownUntil = p.cooldownUntil /\ r.lastRateReset = p.lastRateReset
      BY DEF transitionCircuit, ProtectionType, Times, Classes
    <2>2. recordOutcome(p, t, o) = r
      BY <1>3 DEF recordOutcome
    <2> HIDE DEF r
    <2> QED
      BY <2>1, <2>2 DEF Records, Covered
  <1>4. CASE o.class \notin {"rate_capacity", "authentication_expired",
                             "security_signal"}
    <2>1. recordOutcome(p, t, o) = p
      BY <1>4 DEF recordOutcome
    <2> QED
      BY <2>1 DEF Records
  <1> QED
    BY <1>1, <1>2, <1>3, <1>4

\* Outcomes recorded one after the other.
LEMMA RecordsTransitive ==
  ASSUME NEW p, NEW q, NEW r, NEW t, Records(p, q, t), Records(q, r, t)
  PROVE  Records(p, r, t)
  BY DEF Records

\* The recursive function of the receipts is what its equation says.
LEMMA AfterEquation ==
  ASSUME NEW p, NEW t, NEW receipts, NEW o, Len(receipts) \in Nat
  PROVE  LET after == afterReceipts(p, t, receipts, o)
         IN  /\ after[0] = p
             /\ \A i \in 1..Len(receipts) : after[i] =
                  recordOutcome(after[i - 1], t, receiptOutcome(receipts, o, i))
  <1> DEFINE rec(x, i) == recordOutcome(x, t, receiptOutcome(receipts, o, i))
             F(m, f) == [i \in 0..m |-> IF i = 0 THEN p ELSE rec(f[i - 1], i)]
             S == {m \in Nat : \E f : f = F(m, f)}
             after == afterReceipts(p, t, receipts, o)
  <1>1. after = CHOOSE f : f = F(Len(receipts), f)
    BY DEF afterReceipts
  <1> HIDE DEF rec
  <1>2. 0 \in S
    <2>1. [i \in 0..0 |-> p] = F(0, [i \in 0..0 |-> p])
      OBVIOUS
    <2> QED
      BY <2>1
  <1>3. ASSUME NEW m \in Nat, m \in S PROVE m + 1 \in S
    <2>1. PICK f : f = F(m, f)
      BY <1>3
    <2> DEFINE g == [i \in 0..(m + 1) |-> IF i <= m THEN f[i] ELSE rec(f[m], m + 1)]
    <2>2. \A i \in 0..(m + 1) : g[i] = F(m + 1, g)[i]
      <3> SUFFICES ASSUME NEW i \in 0..(m + 1) PROVE g[i] = F(m + 1, g)[i]
        OBVIOUS
      <3>1. CASE i = m + 1
        <4>1. g[i] = rec(f[m], m + 1) /\ g[i - 1] = f[m] /\ i # 0 /\ i - 1 = m
          BY <3>1
        <4> QED
          BY <3>1, <4>1
      <3>2. CASE i <= m
        <4>1. g[i] = f[i] /\ f[i] = IF i = 0 THEN p ELSE rec(f[i - 1], i)
          BY <2>1, <3>2
        <4>2. i # 0 => g[i - 1] = f[i - 1]
          BY <3>2
        <4> QED
          BY <4>1, <4>2
      <3> QED
        BY <3>1, <3>2
    <2>3. g = F(m + 1, g)
      BY <2>2
    <2> HIDE DEF g, F
    <2>4. \E h : h = F(m + 1, h)
      BY <2>3
    <2> QED
      BY <2>4
  <1>4. Nat \subseteq S
    <2> HIDE DEF S
    <2> QED
      BY <1>2, <1>3, SetInduction
  <1>5. \E f : f = F(Len(receipts), f)
    BY <1>4
  <1>6. after = F(Len(receipts), after)
    <2> HIDE DEF F, after
    <2> QED
      BY <1>1, <1>5
  <1>7. /\ after[0] = p
        /\ \A i \in 1..Len(receipts) : after[i] = rec(after[i - 1], i)
    <2>1. ASSUME NEW f, f = F(Len(receipts), f)
          PROVE  /\ f[0] = p
                 /\ \A i \in 1..Len(receipts) : f[i] = rec(f[i - 1], i)
      <3>1. \A i \in 0..Len(receipts) : f[i] = IF i = 0 THEN p ELSE rec(f[i - 1], i)
        BY <2>1
      <3> QED
        BY <3>1
    <2> HIDE DEF after, F
    <2> QED
      BY <1>6, <2>1
  <1> QED
    BY <1>7 DEF rec

\* Receipts, and the logical outcome after them, are recorded as outcomes are.
LEMMA ReconcileKeeps ==
  ASSUME NEW p \in ProtectionType, NEW t \in Nat, NEW o \in OutcomeType,
         NEW receipts \in Seq([id : Nat, class : Classes]), Len(receipts) >= 1
  PROVE  Records(p, reconcileReceipts(p, t, receipts, o), t)
  <1> DEFINE n == Len(receipts)
             after == afterReceipts(p, t, receipts, o)
             S == {i \in Nat : i <= n => Records(p, after[i], t)}
  <1>0. n \in Nat
    OBVIOUS
  <1>1. /\ after[0] = p
        /\ \A i \in 1..n :
             after[i] = recordOutcome(after[i - 1], t, receiptOutcome(receipts, o, i))
    BY <1>0, AfterEquation
  <1> HIDE DEF after
  <1>2. \A i \in 1..n : receiptOutcome(receipts, o, i) \in OutcomeType
    <2>1. \A i \in 1..n : receipts[i].class \in Classes
      <3>1. \A i \in 1..n : receipts[i] \in [id : Nat, class : Classes]
        BY ElementOfSeq
      <3> QED
        BY <3>1
    <2> QED
      BY <2>1 DEF receiptOutcome, OutcomeType
  <1>3. 0 \in S
    BY <1>1 DEF Records
  <1>4. ASSUME NEW i \in Nat, i \in S PROVE i + 1 \in S
    <2> SUFFICES ASSUME i + 1 <= n PROVE Records(p, after[i + 1], t)
      BY <1>0
    <2>1. i + 1 \in 1..n /\ (i + 1) - 1 = i /\ i <= n
      BY <1>0
    <2>2. Records(p, after[i], t)
      BY <1>4, <2>1
    <2>3. after[i] \in ProtectionType
      BY <2>2 DEF Records
    <2>4. after[i + 1] = recordOutcome(after[i], t, receiptOutcome(receipts, o, i + 1))
      BY <1>1, <2>1
    <2>5. receiptOutcome(receipts, o, i + 1) \in OutcomeType
      BY <1>2, <2>1
    <2>6. Records(after[i], after[i + 1], t)
      BY <2>3, <2>4, <2>5, OutcomeKeeps
    <2> QED
      BY <2>2, <2>6, RecordsTransitive
  <1>5. Records(p, after[n], t)
    <2>1. Nat \subseteq S
      <3> HIDE DEF S
      <3> QED
        BY <1>3, <1>4, SetInduction
    <2> QED
      BY <1>0, <2>1
  <1>6. after[n] \in ProtectionType
    BY <1>5 DEF Records
  <1>7. Records(after[n], recordOutcome(after[n], t, o), t)
    BY <1>6, OutcomeKeeps
  <1>8. reconcileReceipts(p, t, receipts, o) \in {after[n], recordOutcome(after[n], t, o)}
    BY DEF reconcileReceipts, after
  <1> HIDE DEF n
  <1> QED
    BY <1>5, <1>7, <1>8, RecordsTransitive

-----------------------------------------------------------------------------
(* What a step does to the protection record.                               *)

SeenType ==
  seen \in [Callers -> [at : Nat, snapshot : SnapshotType \cup {NoValue}]]

\* A set of receipts was rejected only on an account that is stopped.
RejectedStops ==
  (\E c \in Callers : result[c] = "receipts_rejected") => protection.unsafe

ProtectionInv ==
  /\ protection \in ProtectionType /\ SeenType
  /\ Covered(protection, now) /\ RejectedStops

\* The stops of a step: what was stopped stays stopped, a reset stays covered,
\* and a severe circuit never just closes.
HoldsBack ==
  /\ protection' \in ProtectionType
  /\ protection.unsafe => protection'.unsafe
  /\ Covered(protection, now) => Covered(protection', now)

\* The step applies telemetry that reports a limit again before the reset it
\* had announced.
RepeatsLimit(c) ==
  /\ pc[c] \in {"deciding", "tryDeciding"}
  /\ seen[c].snapshot # NoValue /\ seen[c].snapshot.limited

\* The ways out of a severe circuit (human review): an operator's step, or one of
\* the two things that replace it by an open_until circuit, which closes by itself
\* later: telemetry that repeats a limit, and the outcome of a call on its way.
SevereStep ==
  /\ protection.state = "human_review_required"
  /\ protection'.state # "human_review_required"
  => \/ AcknowledgeHuman \/ FinishCredentialRefresh
     \/ /\ protection'.state = "open_until"
        /\ \E c \in Callers : RepeatsLimit(c) \/ pc[c] = "started"

\* A record that only tightens keeps the announced reset covered.
LEMMA TightensHoldsBack ==
  ASSUME NEW p \in ProtectionType, NEW q, NEW t \in Nat, Tightens(p, q)
  PROVE  Covered(p, t) => Covered(q, t)
  <1>1. p.cooldownUntil \in Nat /\ p.lastRateReset \in Nat /\ q.cooldownUntil \in Nat
    BY DEF ProtectionType, Times, Tightens
  <1> QED
    BY <1>1 DEF Tightens, Covered

\* Tightening twice.
LEMMA TightensTransitive ==
  ASSUME NEW p \in ProtectionType, NEW q, NEW r, Tightens(p, q), Tightens(q, r)
  PROVE  Tightens(p, r)
  <1>1. p.cooldownUntil \in Nat /\ q.cooldownUntil \in Nat /\ r.cooldownUntil \in Nat
    BY DEF ProtectionType, Times, Tightens
  <1> QED
    BY <1>1 DEF Tightens

\* What queueAdmit and tryAdmit do to the record before they decide.
LEMMA ConsultKeeps ==
  ASSUME NEW p \in ProtectionType, NEW t \in Nat, NEW s \in SnapshotType \cup {NoValue}
  PROVE  LET e == expireProtection(applyTelemetry(p, s, t), t)
             q == closeExpiredCircuit(e, t)
         IN  /\ e \in ProtectionType /\ Tightens(p, q)
             /\ p.state = "human_review_required" =>
                  \/ q.state = p.state
                  \/ q.state = "open_until" /\ s # NoValue /\ s.limited
  <1> DEFINE told == applyTelemetry(p, s, t)
             e == expireProtection(told, t)
             q == closeExpiredCircuit(e, t)
  <1>1. /\ Tightens(p, told)
        /\ \/ told.state = p.state
           \/ told.state = "open_until" /\ told.openUntil > t /\ s # NoValue /\ s.limited
    BY TelemetryKeeps
  <1>2. told \in ProtectionType
    BY <1>1 DEF Tightens
  <1> HIDE DEF told
  <1>3. Tightens(told, e) /\ e.state = told.state /\ e.openUntil = told.openUntil
    BY <1>2, ExpireKeeps
  <1>4. e \in ProtectionType
    BY <1>3 DEF Tightens
  <1> HIDE DEF e
  <1>5. /\ Tightens(e, q)
        /\ e.state # "open_until" \/ t < e.openUntil => q.state = e.state
    BY <1>4, CloseKeeps
  <1>6. Tightens(p, e)
    BY <1>1, <1>3, TightensTransitive
  <1> HIDE DEF q
  <1>7. Tightens(p, q)
    BY <1>5, <1>6, TightensTransitive
  <1>8. told.openUntil \in Nat
    BY <1>2 DEF ProtectionType, Times
  <1>9. p.state = "human_review_required" =>
          \/ q.state = p.state
          \/ q.state = "open_until" /\ s # NoValue /\ s.limited
    BY <1>1, <1>3, <1>5, <1>8
  <1> QED
    BY <1>4, <1>7, <1>9 DEF q, e, told

\* Steps that leave the protection record alone.
LEMMA ProtectionIdle ==
  ASSUME IndInv, ProtectionInv, UNCHANGED protection
  PROVE  HoldsBack /\ SevereStep
  BY DEF ProtectionInv, HoldsBack, SevereStep, Covered

\* No critical section of admission releases a stop or shortens a cooldown.
LEMMA AdmissionHoldsBack ==
  ASSUME IndInv, ProtectionInv, NEW c \in Callers,
         \/ Enqueue(c) \/ Reconsider(c) \/ Wake(c) \/ AbandonWait(c)
         \/ ReadTelemetry(c) \/ Decide(c) \/ TryBegin(c) \/ TryDecide(c)
  PROVE  HoldsBack /\ SevereStep
  <1>0. /\ protection \in ProtectionType /\ now \in Nat
        /\ seen[c].at \in Nat /\ seen[c].snapshot \in SnapshotType \cup {NoValue}
    BY DEF ProtectionInv, SeenType, IndInv, CallerTypes
  <1>1. CASE UNCHANGED protection
    BY <1>1, ProtectionIdle
  <1>2. CASE Decide(c) /\ protection' # protection
    <2> DEFINE t == seen[c].at
               told == applyTelemetry(protection, seen[c].snapshot, t)
               q == closeExpiredCircuit(expireProtection(told, t), t)
    <2>1. protection' \in {told, q} /\ pc[c] = "deciding"
      BY <1>2, Zenon DEF Decide
    <2>2. /\ Tightens(protection, told)
          /\ \/ told.state = protection.state
             \/ /\ told.state = "open_until"
                /\ seen[c].snapshot # NoValue /\ seen[c].snapshot.limited
      BY <1>0, TelemetryKeeps
    <2>3. /\ Tightens(protection, q)
          /\ protection.state = "human_review_required" =>
               \/ q.state = protection.state
               \/ /\ q.state = "open_until"
                  /\ seen[c].snapshot # NoValue /\ seen[c].snapshot.limited
      BY <1>0, ConsultKeeps
    <2> HIDE DEF told, q
    <2>4. Tightens(protection, protection')
      BY <2>1, <2>2, <2>3
    <2>5. HoldsBack
      <3>1. Covered(protection, now) => Covered(protection', now)
        BY <1>0, <2>4, TightensHoldsBack
      <3> QED
        BY <2>4, <3>1 DEF HoldsBack, Tightens
    <2>6. SevereStep
      BY <2>1, <2>2, <2>3 DEF SevereStep, RepeatsLimit
    <2> QED
      BY <2>5, <2>6
  <1>3. CASE TryDecide(c) /\ protection' # protection
    <2> DEFINE q == closeExpiredCircuit(expireProtection(
                      applyTelemetry(protection, seen[c].snapshot, now), now), now)
    <2>1. protection' = q /\ pc[c] = "tryDeciding"
      BY <1>3, Zenon DEF TryDecide
    <2>2. /\ Tightens(protection, q)
          /\ protection.state = "human_review_required" =>
               \/ q.state = protection.state
               \/ /\ q.state = "open_until"
                  /\ seen[c].snapshot # NoValue /\ seen[c].snapshot.limited
      BY <1>0, ConsultKeeps
    <2> HIDE DEF q
    <2>3. HoldsBack
      <3>1. Covered(protection, now) => Covered(protection', now)
        BY <1>0, <2>1, <2>2, TightensHoldsBack
      <3> QED
        BY <2>1, <2>2, <3>1 DEF HoldsBack, Tightens
    <2>4. SevereStep
      BY <2>1, <2>2 DEF SevereStep, RepeatsLimit
    <2> QED
      BY <2>3, <2>4
  <1>4. \/ UNCHANGED protection \/ Decide(c) \/ TryDecide(c)
    BY DEF Enqueue, Reconsider, Wake, AbandonWait, ReadTelemetry, TryBegin
  <1> QED
    BY <1>1, <1>2, <1>3, <1>4

\* Recording an outcome of the call on its way.
LEMMA RecordsHoldsBack ==
  ASSUME IndInv, ProtectionInv, NEW c \in Callers, pc[c] = "started",
         Records(protection, protection', now)
  PROVE  HoldsBack /\ SevereStep
  <1>1. HoldsBack
    BY DEF HoldsBack, Records
  <1>2. protection'.state \in {"closed", "open_until", "human_review_required"}
    BY DEF Records, ProtectionType
  <1>3. SevereStep
    BY <1>2 DEF SevereStep, Records
  <1> QED
    BY <1>1, <1>3

\* A record that only tightens, with its circuit, counts as recorded.
LEMMA TightensRecords ==
  ASSUME NEW p \in ProtectionType, NEW q, NEW t \in Nat, Tightens(p, q),
         q.state = p.state
  PROVE  Records(p, q, t)
  BY TightensHoldsBack DEF Tightens, Records

\* Stopping the account changes nothing else.
LEMMA StopKeeps ==
  ASSUME NEW p \in ProtectionType, NEW q \in ProtectionType, NEW t, Records(p, q, t),
         NEW stop \in BOOLEAN, q.unsafe => stop
  PROVE  /\ Records(p, [q EXCEPT !.unsafe = stop], t)
         /\ [q EXCEPT !.unsafe = stop].unsafe = stop
  <1>1. /\ [q EXCEPT !.unsafe = stop] \in ProtectionType
        /\ [q EXCEPT !.unsafe = stop].unsafe = stop
        /\ [q EXCEPT !.unsafe = stop].state = q.state
        /\ [q EXCEPT !.unsafe = stop].cooldownUntil = q.cooldownUntil
        /\ [q EXCEPT !.unsafe = stop].lastRateReset = q.lastRateReset
    BY DEF ProtectionType, Times
  <1> QED
    BY <1>1 DEF Records, Covered

\* The new receipts of a set: at least one, each at a position of the set.
LEMMA ReceiptFacts ==
  ASSUME NEW set \in ReceiptSets, NEW fresh \in newReceipts(set)
  PROVE  /\ Len(set) \in Nat /\ DOMAIN set = 1..Len(set)
         /\ Len(fresh) \in Nat /\ Len(fresh) >= 1 /\ DOMAIN fresh = 1..Len(fresh)
         /\ Len(fresh) <= Len(set)
         /\ \A k \in DOMAIN fresh : fresh[k] \in DOMAIN set
         /\ [k \in DOMAIN fresh |-> set[fresh[k]]] \in Seq([id : Nat, class : Classes])
         /\ Len([k \in DOMAIN fresh |-> set[fresh[k]]]) = Len(fresh)
  <1> DEFINE new == {i \in DOMAIN set : set[i].id \notin attemptIDs}
  <1>1. set \in Seq([id : Nat, class : Classes])
    BY OutcomesAssumption
  <1>2. /\ DOMAIN set = 1..Len(set) /\ Len(set) \in Nat
        /\ IsFiniteSet(new) /\ Cardinality(new) \in Nat
    BY <1>1, Positions
  <1>3. new # {} /\ fresh \in [1..Cardinality(new) -> new]
    BY DEF newReceipts
  <1>4. Cardinality(new) >= 1
    <2>1. Cardinality(new) # 0
      BY <1>2, <1>3, FS_EmptySet, Zenon
    <2> QED
      BY <1>2, <2>1
  <1>5. Len(fresh) = Cardinality(new) /\ DOMAIN fresh = 1..Cardinality(new)
    BY <1>2, <1>3
  <1>6. \A k \in DOMAIN fresh : fresh[k] \in DOMAIN set
    BY <1>3, <1>5
  <1>7. new \subseteq 1..Len(set)
    BY <1>2
  <1> HIDE DEF new
  <1>8. PICK n \in Nat : n = Len(set)
    BY <1>2
  <1>9. Len(fresh) <= Len(set)
    <2>1. IsFiniteSet(1..n)
      BY FS_Interval
    <2>2. Cardinality(1..n) = IF 1 > n THEN 0 ELSE n - 1 + 1
      BY FS_Interval
    <2>3. Cardinality(new) <= Cardinality(1..n)
      BY <1>7, <1>8, <2>1, FS_Subset
    <2> QED
      BY <1>5, <1>8, <2>2, <2>3
  <1>10. \A k \in DOMAIN fresh : set[fresh[k]] \in [id : Nat, class : Classes]
    BY <1>1, <1>2, <1>6, ElementOfSeq
  <1>11. /\ [k \in 1..Len(fresh) |-> set[fresh[k]]] \in Seq([id : Nat, class : Classes])
        /\ Len([k \in 1..Len(fresh) |-> set[fresh[k]]]) = Len(fresh)
    <2> DEFINE f == [k \in 1..Len(fresh) |-> set[fresh[k]]]
    <2>1. f \in [1..Len(fresh) -> [id : Nat, class : Classes]]
      BY <1>5, <1>10
    <2> HIDE DEF f
    <2>2. f \in Seq([id : Nat, class : Classes]) /\ Len(f) = Len(fresh)
      BY <1>2, <1>5, <2>1, FunctionIsSeq
    <2> QED
      BY <2>2 DEF f
  <1> QED
    BY <1>2, <1>4, <1>5, <1>6, <1>11, <1>9

\* A reconciled set of receipts: what it records, and that more than one attempt
\* behind the permit, or a replayed receipt, stops the account.
LEMMA ReceiptsRecord ==
  ASSUME IndInv, ProtectionInv, NEW c \in Callers, FinishWithAttemptReceipts(c)
  PROVE  /\ Records(protection, protection', now)
         /\ \E set \in ReceiptSets, o \in Outcomes :
              \E at \in [DOMAIN set -> startedAt..now], fresh \in newReceipts(set) :
                /\ applyReceipts(c, set, o, at, fresh)
                /\ amplified(set, fresh) => protection'.unsafe
  <1>0. PICK set \in ReceiptSets, o \in Outcomes :
          \E at \in [DOMAIN set -> startedAt..now], fresh \in newReceipts(set) :
            applyReceipts(c, set, o, at, fresh)
    BY Zenon DEF FinishWithAttemptReceipts
  <1>1. PICK at \in [DOMAIN set -> startedAt..now], fresh \in newReceipts(set) :
          applyReceipts(c, set, o, at, fresh)
    BY <1>0
  <1> DEFINE e == expireProtection(protection, now)
             receipts == [k \in DOMAIN fresh |-> set[fresh[k]]]
             p == spendAvailable(e, Len(fresh))
             q == reconcileReceipts(p, now, receipts, o)
             stop == q.unsafe \/ amplified(set, fresh)
  <1>2. protection' = [q EXCEPT !.unsafe = @ \/ amplified(set, fresh)]
    BY <1>1 DEF applyReceipts
  <1>3. receipts \in Seq([id : Nat, class : Classes]) /\ Len(receipts) >= 1
        /\ Len(fresh) \in Nat
    BY ReceiptFacts
  <1>4. protection \in ProtectionType /\ now \in Nat
    BY DEF ProtectionInv, IndInv, CallerTypes
  <1>5. Tightens(protection, e) /\ e.state = protection.state /\ e \in ProtectionType
    BY <1>4, ExpireKeeps DEF Tightens
  <1> HIDE DEF e
  <1>6. Tightens(e, p) /\ p.state = e.state /\ p \in ProtectionType
    BY <1>3, <1>5, SpendKeeps DEF Tightens
  <1> HIDE DEF p, receipts
  <1>7. Records(protection, p, now)
    <2>1. Tightens(protection, p)
      BY <1>4, <1>5, <1>6, TightensTransitive
    <2> QED
      BY <1>4, <1>5, <1>6, <2>1, TightensRecords
  <1>8. o \in OutcomeType
    BY OutcomesAssumption DEF OutcomeType
  <1>9. Records(p, q, now)
    BY <1>3, <1>4, <1>6, <1>8, ReconcileKeeps
  <1> HIDE DEF q
  <1>10. Records(protection, q, now) /\ q \in ProtectionType
    BY <1>7, <1>9, RecordsTransitive DEF Records
  <1>11. PICK b \in BOOLEAN : b <=> stop
    OBVIOUS
  <1>12. protection' = [q EXCEPT !.unsafe = b]
    <2>1. "unsafe" \in DOMAIN q /\ q.unsafe \in BOOLEAN
      BY <1>10 DEF ProtectionType
    <2>2. (q.unsafe \/ amplified(set, fresh)) = b
      BY <1>11
    <2> QED
      BY <1>2, <2>1, <2>2
  <1>13. Records(protection, protection', now) /\ protection'.unsafe = b
    BY <1>4, <1>10, <1>11, <1>12, StopKeeps
  <1> QED
    BY <1>1, <1>11, <1>13

\* Neither does a step of the permit; rejected receipts stop the account.
LEMMA PermitHoldsBack ==
  ASSUME IndInv, ProtectionInv, NEW c \in Callers,
         \/ CancelBeforeStart(c) \/ Start(c) \/ CancelAfterStart(c)
         \/ Finish(c) \/ FinishWithAttemptReceipts(c) \/ FinishReceiptFailure(c)
  PROVE  HoldsBack /\ SevereStep /\ (FinishReceiptFailure(c) => protection'.unsafe)
  <1> DEFINE e == expireProtection(protection, now)
  <1>0. protection \in ProtectionType /\ now \in Nat
    BY DEF ProtectionInv, IndInv, CallerTypes
  <1>1. Tightens(protection, e) /\ e.state = protection.state
    BY <1>0, ExpireKeeps
  <1>2. e \in ProtectionType /\ Records(protection, e, now)
    BY <1>0, <1>1, TightensRecords DEF Tightens
  <1> HIDE DEF e
  <1>3. ASSUME NEW n \in Nat
        PROVE  /\ spendAvailable(e, n) \in ProtectionType
               /\ Tightens(protection, spendAvailable(e, n))
               /\ spendAvailable(e, n).state = protection.state
               /\ Records(protection, spendAvailable(e, n), now)
    <2>1. Tightens(e, spendAvailable(e, n)) /\ spendAvailable(e, n).state = e.state
      BY <1>2, SpendKeeps
    <2>2. Tightens(protection, spendAvailable(e, n))
      BY <1>0, <1>1, <2>1, TightensTransitive
    <2> QED
      BY <1>0, <1>1, <2>1, <2>2, TightensRecords DEF Tightens
  <1>4. CASE CancelBeforeStart(c) \/ CancelAfterStart(c)
    <2>1. UNCHANGED protection
      BY <1>4 DEF CancelBeforeStart, CancelAfterStart
    <2>2. ~FinishReceiptFailure(c)
      BY <1>4 DEF CancelBeforeStart, CancelAfterStart, FinishReceiptFailure,
         releaseLane, Finished, IndInv, CallerTypes
    <2> QED
      BY <2>1, <2>2, ProtectionIdle
  <1>5. CASE Start(c)
    <2>1. protection' \in {e, spendAvailable(e, 1)} /\ pc[c] = "granted"
      BY <1>5 DEF Start, e
    <2>2. Tightens(protection, protection') /\ protection'.state = protection.state
      BY <1>1, <1>3, <2>1
    <2>3. Covered(protection, now) => Covered(protection', now)
      BY <1>0, <2>2, TightensHoldsBack
    <2> QED
      BY <2>1, <2>2, <2>3 DEF HoldsBack, Tightens, SevereStep, FinishReceiptFailure
  <1>6. CASE Finish(c)
    <2>1. PICK o \in Outcomes : protection' = recordOutcome(e, now, o)
      BY <1>6 DEF Finish, e
    <2>2. o \in OutcomeType
      BY OutcomesAssumption DEF OutcomeType
    <2>3. Records(e, protection', now)
      BY <1>0, <1>2, <2>1, <2>2, OutcomeKeeps
    <2>4. Records(protection, protection', now)
      BY <1>2, <2>3, RecordsTransitive
    <2>5. pc[c] = "started" /\ ~FinishReceiptFailure(c)
      BY <1>6 DEF Finish, FinishReceiptFailure
    <2> QED
      BY <2>4, <2>5, RecordsHoldsBack
  <1>7. CASE FinishWithAttemptReceipts(c)
    <2>1. Records(protection, protection', now)
      BY <1>7, ReceiptsRecord
    <2>2. pc[c] = "started" /\ (FinishReceiptFailure(c) => protection'.unsafe)
      BY <1>7 DEF FinishWithAttemptReceipts, FinishReceiptFailure, releaseLane,
         Finished, IndInv, CallerTypes
    <2> QED
      BY <2>1, <2>2, RecordsHoldsBack
  <1>8. CASE FinishReceiptFailure(c)
    <2>1. PICK q \in {e, spendAvailable(e, 1)} :
            protection' = [q EXCEPT !.unsafe = TRUE]
      BY <1>8 DEF FinishReceiptFailure, e
    <2>2. q \in ProtectionType /\ Records(protection, q, now)
      BY <1>2, <1>3, <2>1
    <2>3. Records(protection, protection', now) /\ protection'.unsafe
      BY <1>0, <2>1, <2>2, StopKeeps
    <2>4. pc[c] = "started"
      BY <1>8 DEF FinishReceiptFailure
    <2> QED
      BY <2>3, <2>4, RecordsHoldsBack
  <1> QED
    BY <1>4, <1>5, <1>6, <1>7, <1>8

\* The operator, the clock and the environment.
LEMMA EnvironmentHoldsBack ==
  ASSUME IndInv, ProtectionInv, Operator \/ Tick
  PROVE  HoldsBack /\ SevereStep
  <1> DEFINE p == protection
  <1>0. protection \in ProtectionType
    BY DEF ProtectionInv
  <1>1. CASE BeginCredentialRefresh
    <2>1. protection' = [p EXCEPT !.refreshInFlight = TRUE]
      BY <1>1 DEF BeginCredentialRefresh
    <2> QED
      BY <1>0, <2>1 DEF HoldsBack, SevereStep, Covered, ProtectionType, Times
  <1>2. CASE FinishCredentialRefresh
    <2> DEFINE q == [p EXCEPT !.refreshInFlight = FALSE]
               r == [p EXCEPT !.refreshInFlight = FALSE, !.refreshRequired = FALSE]
    <2>1. \/ protection' = transitionCircuit(r, "closed", "", 0)
          \/ protection' = transitionCircuit(q, "human_review_required",
                                              "authentication_expired", 0)
      BY <1>2 DEF FinishCredentialRefresh
    <2>2. /\ q \in ProtectionType /\ q.unsafe = p.unsafe
          /\ q.lastRateReset = p.lastRateReset /\ q.cooldownUntil = p.cooldownUntil
      BY <1>0 DEF ProtectionType, Times
    <2>3. /\ r \in ProtectionType /\ r.unsafe = p.unsafe
          /\ r.lastRateReset = p.lastRateReset /\ r.cooldownUntil = p.cooldownUntil
      BY <1>0 DEF ProtectionType, Times
    <2> HIDE DEF q, r
    <2>4. /\ protection' \in ProtectionType /\ protection'.unsafe = p.unsafe
          /\ protection'.lastRateReset = p.lastRateReset
          /\ protection'.cooldownUntil = p.cooldownUntil
      <3>1. "authentication_expired" \in Classes \cup {""} /\ "" \in Classes \cup {""}
        BY DEF Classes
      <3>2. CASE protection' = transitionCircuit(r, "closed", "", 0)
        BY <2>3, <3>1, <3>2 DEF transitionCircuit, ProtectionType, Times
      <3>3. CASE protection' = transitionCircuit(q, "human_review_required",
                                                 "authentication_expired", 0)
        BY <2>2, <3>1, <3>3 DEF transitionCircuit, ProtectionType, Times
      <3> QED
        BY <2>1, <3>2, <3>3
    <2> QED
      BY <1>2, <2>4 DEF HoldsBack, SevereStep, Covered
  <1>3. CASE AcknowledgeHuman
    <2> DEFINE q == [p EXCEPT !.rateEvents = << >>, !.lastRateReset = 0,
                              !.refreshRequired = FALSE]
    <2>1. protection' = transitionCircuit(q, "closed", "", 0)
      BY <1>3 DEF AcknowledgeHuman
    <2>2. /\ q \in ProtectionType /\ q.unsafe = p.unsafe /\ q.lastRateReset = 0
      <3>1. << >> \in Seq(Nat)
        OBVIOUS
      <3>2. PICK none \in Seq(Nat) : none = << >>
        BY <3>1
      <3> QED
        BY <1>0, <3>2 DEF ProtectionType, Times
    <2> HIDE DEF q
    <2>3. /\ protection' \in ProtectionType /\ protection'.unsafe = p.unsafe
          /\ protection'.lastRateReset = 0
      BY <2>1, <2>2 DEF transitionCircuit, ProtectionType, Times
    <2>4. ~(0 > now)
      BY DEF IndInv, CallerTypes
    <2> QED
      BY <1>3, <2>3, <2>4 DEF HoldsBack, SevereStep, Covered
  <1>4. CASE Tick \/ Close \/ \E c \in Callers : CancelContext(c)
    <2>1. UNCHANGED protection
      BY <1>4 DEF Tick, Close, CancelContext
    <2> QED
      BY <2>1, ProtectionIdle
  <1> QED
    BY <1>1, <1>2, <1>3, <1>4 DEF Operator

\* Every step holds the account back.
LEMMA StepHoldsBack ==
  ASSUME IndInv, ProtectionInv, [Next]_vars
  PROVE  HoldsBack /\ SevereStep
  <1>1. CASE UNCHANGED vars
    BY <1>1, ProtectionIdle DEF vars
  <1>2. CASE Operator \/ Tick
    BY <1>2, EnvironmentHoldsBack
  <1>3. ASSUME NEW c \in Callers, Run(c) PROVE HoldsBack /\ SevereStep
    BY <1>3, AdmissionHoldsBack, PermitHoldsBack DEF Run
  <1> QED
    BY <1>1, <1>2, <1>3 DEF Next

\* What a caller read outside the lock stays well formed.
LEMMA SeenStep ==
  ASSUME IndInv, ProtectionInv, [Next]_vars
  PROVE  SeenType'
  <1>1. ASSUME NEW c \in Callers, ReadTelemetry(c) PROVE SeenType'
    <2>1. PICK s \in TelemetrySnapshots \cup {NoValue} :
            seen' = [seen EXCEPT ![c] =
              [at |-> now,
               snapshot |-> IF s = NoValue THEN s ELSE
                 [remaining |-> s.remaining, limited |-> s.limited,
                  retryAfter |-> s.retryAfter, upstream |-> s.upstream,
                  routeChanged |-> s.routeChanged,
                  resetAt |-> IF s.resetIn = 0 THEN 0 ELSE now + s.resetIn,
                  cooldownUntil |->
                    IF s.cooldownIn = 0 THEN 0 ELSE now + s.cooldownIn]]]
      BY <1>1 DEF ReadTelemetry
    <2>2. now \in Nat
      BY DEF IndInv, CallerTypes
    <2>3. PICK snapshot \in SnapshotType \cup {NoValue} :
            seen' = [seen EXCEPT ![c] = [at |-> now, snapshot |-> snapshot]]
      <3>1. CASE s = NoValue
        BY <2>1, <3>1
      <3>2. CASE s # NoValue
        <4>1. /\ s.remaining \in Int \cup {NoValue} /\ s.limited \in BOOLEAN
              /\ s.retryAfter \in Nat /\ s.routeChanged \in BOOLEAN
              /\ s.resetIn \in Int /\ s.cooldownIn \in Int
              /\ s.upstream \in {"unknown", "closed", "open"}
          BY <3>2, TelemetryAssumption
        <4> DEFINE r == [remaining |-> s.remaining, limited |-> s.limited,
                  retryAfter |-> s.retryAfter, upstream |-> s.upstream,
                  routeChanged |-> s.routeChanged,
                  resetAt |-> IF s.resetIn = 0 THEN 0 ELSE now + s.resetIn,
                  cooldownUntil |->
                    IF s.cooldownIn = 0 THEN 0 ELSE now + s.cooldownIn]
        <4>2. r \in SnapshotType
          BY <2>2, <4>1 DEF SnapshotType
        <4>3. seen' = [seen EXCEPT ![c] = [at |-> now, snapshot |-> r]]
          BY <2>1, <3>2
        <4> HIDE DEF r
        <4> QED
          BY <4>2, <4>3
      <3> QED
        BY <3>1, <3>2
    <2> QED
      BY <2>2, <2>3 DEF ProtectionInv, SeenType
  <1>2. ASSUME NEW c \in Callers, Decide(c) \/ TryDecide(c) PROVE SeenType'
    <2>1. seen' = [seen EXCEPT ![c] = NoRead]
      BY <1>2 DEF Decide, TryDecide
    <2> QED
      BY <2>1 DEF ProtectionInv, SeenType, NoRead
  <1>3. \/ UNCHANGED seen
        \/ \E c \in Callers : ReadTelemetry(c) \/ Decide(c) \/ TryDecide(c)
    <2>1. CASE UNCHANGED vars
      BY <2>1 DEF vars, callerVars
    <2>2. CASE Operator \/ Tick
      BY <2>2, EnvironmentMoves
    <2>3. ASSUME NEW c \in Callers, Run(c)
          PROVE  UNCHANGED seen \/ ReadTelemetry(c) \/ Decide(c) \/ TryDecide(c)
      BY <2>3 DEF Run, Enqueue, Reconsider, Wake, AbandonWait, TryBegin,
         CancelBeforeStart, Start, CancelAfterStart, Finish,
         FinishWithAttemptReceipts, FinishReceiptFailure
    <2> QED
      BY <2>1, <2>2, <2>3 DEF Next
  <1> QED
    BY <1>1, <1>2, <1>3 DEF ProtectionInv, SeenType

\* Who gets which result: only a permit's end produces "finished" or
\* "receipts_rejected", and only for its own caller.
LEMMA ResultStep ==
  ASSUME IndInv, [Next]_vars, NEW d \in Callers, result'[d] # result[d]
  PROVE  /\ result'[d] = "receipts_rejected" => FinishReceiptFailure(d)
         /\ result'[d] = "finished" => Finish(d) \/ FinishWithAttemptReceipts(d)
         /\ Run(d)
  <1>1. ~UNCHANGED result
    OBVIOUS
  <1>2. PICK c \in Callers : Run(c)
    BY <1>1, EnvironmentMoves DEF Next, vars, callerVars
  <1>3. CASE \/ Enqueue(c) \/ Reconsider(c) \/ Wake(c) \/ AbandonWait(c)
             \/ ReadTelemetry(c) \/ Decide(c) \/ TryBegin(c) \/ TryDecide(c)
    <2>1. CallerMove(c) /\ pc[c] \notin {"granted", "started"}
      BY <1>3, AdmissionMoves DEF Enqueue, Reconsider, Wake, AbandonWait,
         ReadTelemetry, Decide, TryBegin, TryDecide
    <2>2. PICK code \in AdmissionCodes : result' = [result EXCEPT ![c] = code]
      <3>1. "admitted" \in AdmissionCodes
        BY DEF AdmissionCodes
      <3> QED
        BY <1>1, <2>1, <3>1 DEF CallerMove, Wanders, Queues, TurnedAway, TakesLane,
           FreesLane, Calls
    <2>3. d = c /\ result'[d] = code
      BY <2>2 DEF IndInv, CallerTypes
    <2> QED
      BY <1>2, <2>3, CodesAreNotResults
  <1>4. CASE \/ CancelBeforeStart(c) \/ Start(c) \/ CancelAfterStart(c)
             \/ Finish(c) \/ FinishWithAttemptReceipts(c) \/ FinishReceiptFailure(c)
    BY <1>1, <1>2, <1>4 DEF CancelBeforeStart, Start, CancelAfterStart, Finish,
       FinishWithAttemptReceipts, FinishReceiptFailure, releaseLane, Finished,
       IndInv, CallerTypes
  <1> QED
    BY <1>2, <1>3, <1>4 DEF Run

\* The protection invariant holds at the start.
LEMMA ProtectionInit == Init => ProtectionInv
  <1> SUFFICES ASSUME Init PROVE ProtectionInv
    OBVIOUS
  <1>1. protection \in ProtectionType
    <2>0. << >> \in Seq(Nat)
      OBVIOUS
    <2>1. PICK none \in Seq(Nat) : none = << >>
      BY <2>0
    <2> QED
      BY <2>1 DEF Init, InitialProtection, ProtectionType, Times
  <1>2. SeenType
    BY DEF Init, SeenType, NoRead
  <1>3. Covered(protection, now)
    <2>1. protection.lastRateReset = 0 /\ now = 1
      BY DEF Init, InitialProtection
    <2> QED
      BY <2>1 DEF Covered
  <1>4. RejectedStops
    BY DEF Init, RejectedStops
  <1> QED
    BY <1>1, <1>2, <1>3, <1>4 DEF ProtectionInv

\* The protection invariant is inductive.
LEMMA ProtectionStep == IndInv /\ ProtectionInv /\ [Next]_vars => ProtectionInv'
  <1> SUFFICES ASSUME IndInv, ProtectionInv, [Next]_vars PROVE ProtectionInv'
    OBVIOUS
  <1>1. HoldsBack
    BY StepHoldsBack
  <1>2. SeenType'
    BY SeenStep
  <1>3. now \in Nat /\ now' \in Nat /\ now' >= now
    <2>1. CASE UNCHANGED vars
      BY <2>1 DEF vars, IndInv, CallerTypes
    <2>2. CASE Operator \/ Tick
      BY <2>2, EnvironmentMoves DEF IndInv, CallerTypes
    <2>3. ASSUME NEW c \in Callers, Run(c) PROVE now' = now
      BY <2>3, AdmissionMoves, PermitMoves DEF Run, CallerMove, Wanders, Queues,
         TurnedAway, TakesLane, FreesLane, Calls
    <2> QED
      BY <2>1, <2>2, <2>3 DEF Next, IndInv, CallerTypes
  <1>4. Covered(protection, now)'
    <2>1. Covered(protection', now)
      BY <1>1 DEF HoldsBack, ProtectionInv
    <2>2. protection'.lastRateReset \in Nat
      BY <1>1 DEF HoldsBack, ProtectionType, Times
    <2> QED
      BY <1>3, <2>1, <2>2 DEF Covered
  <1>5. RejectedStops'
    <2> SUFFICES ASSUME NEW d \in Callers, result'[d] = "receipts_rejected"
                 PROVE  protection'.unsafe
      BY DEF RejectedStops
    <2>1. CASE result'[d] = result[d]
      BY <1>1, <2>1 DEF HoldsBack, ProtectionInv, RejectedStops
    <2>2. CASE result'[d] # result[d]
      BY <2>2, ResultStep, PermitHoldsBack
    <2> QED
      BY <2>1, <2>2
  <1> QED
    BY <1>1, <1>2, <1>4, <1>5 DEF ProtectionInv, HoldsBack

\* An announced reset in the future is covered by the cooldown, whatever
\* outcomes, receipts and telemetry arrive and in whatever order.
THEOREM CooldownCoversResetHolds == Spec => []CooldownCoversReset
  <1>1. ProtectionInv => CooldownCoversReset
    BY DEF ProtectionInv, Covered, CooldownCoversReset
  <1> QED
    BY <1>1, InitInv, StepInv, ProtectionInit, ProtectionStep, PTL DEF Spec

\* A circuit under human review is left only in the ways SevereStep names, for every
\* sequence of outcomes, receipts, telemetry and clock readings.  The two ways that
\* need no operator are where the code departs from the account protection guide.
THEOREM SevereCircuitLeft == Spec => [][SevereStep]_vars
  <1>1. IndInv /\ ProtectionInv /\ [Next]_vars => [SevereStep]_vars
    BY StepHoldsBack
  <1>2. Spec => [](IndInv /\ ProtectionInv)
    BY InitInv, StepInv, ProtectionInit, ProtectionStep, PTL DEF Spec
  <1> QED
    BY <1>1, <1>2, PTL DEF Spec

-----------------------------------------------------------------------------
(* Usage: what the tasks and the rolling ledger record of the calls.        *)

TasksType == tasks \in [Tasks -> [attempts : Nat, retries : Nat]]

\* A debit adds to its own task's usage and to no other's.
LEMMA DebitFacts ==
  ASSUME TasksType, NEW c \in Callers, NEW n \in Nat, NEW r \in Nat, debitTask(c, n, r)
  PROVE  /\ TasksType'
         /\ tasks'[TaskOf[c]].attempts = tasks[TaskOf[c]].attempts + n
         /\ tasks'[TaskOf[c]].retries = tasks[TaskOf[c]].retries + r
         /\ \A t \in Tasks \ {TaskOf[c]} : tasks'[t] = tasks[t]
  <1> DEFINE k == TaskOf[c]
             a == [tasks[k] EXCEPT !.attempts = @ + n]
             b == [a EXCEPT !.retries = @ + r]
  <1>0. k \in Tasks
    BY DEF Tasks
  <1>1. tasks[k] \in [attempts : Nat, retries : Nat]
    BY <1>0 DEF TasksType
  <1>2. a \in [attempts : Nat, retries : Nat] /\ a.attempts = tasks[k].attempts + n
        /\ a.retries = tasks[k].retries
    BY <1>1
  <1>3. tasks' = [[tasks EXCEPT ![k] = a] EXCEPT ![k] = b]
    BY <1>0 DEF debitTask, TasksType
  <1> HIDE DEF a
  <1>4. b \in [attempts : Nat, retries : Nat] /\ b.attempts = a.attempts
        /\ b.retries = a.retries + r
    BY <1>2
  <1> HIDE DEF b
  <1>5. tasks' \in [Tasks -> [attempts : Nat, retries : Nat]] /\ tasks'[k] = b
        /\ \A t \in Tasks \ {k} : tasks'[t] = tasks[t]
    BY <1>0, <1>2, <1>3, <1>4 DEF TasksType
  <1> QED
    BY <1>2, <1>4, <1>5 DEF TasksType

\* The calls of a task that its attempts must cover: those that came back, and a
\* plain one on its way.
DebitedCalls(t) ==
  {c \in Callers : /\ TaskOf[c] = t
                   /\ result[c] = "finished" \/ (~ReceiptAware /\ pc[c] = "started")}

DebitInv ==
  /\ TasksType
  /\ \A t \in Tasks : /\ IsFiniteSet(DebitedCalls(t))
                      /\ Cardinality(DebitedCalls(t)) <= tasks[t].attempts

\* The step debits the call of c.
Debits(c) == (Start(c) /\ ~ReceiptAware) \/ FinishWithAttemptReceipts(c)

\* Only Start makes a caller "started".
LEMMA StartStep ==
  ASSUME IndInv, [Next]_vars, NEW d \in Callers, pc'[d] = "started", pc[d] # "started"
  PROVE  Start(d)
  <1>1. ~UNCHANGED pc
    OBVIOUS
  <1>2. PICK c \in Callers : Run(c)
    BY <1>1, EnvironmentMoves DEF Next, vars, callerVars
  <1>3. CallerMove(c)
    BY <1>2, AdmissionMoves, PermitMoves DEF Run
  <1>4. d = c /\ pc[c] = "granted"
    BY <1>3 DEF CallerMove, Wanders, Queues, TurnedAway, TakesLane, FreesLane, Calls,
       OutsidePCs, WaitingPCs, IndInv, CallerTypes
  <1> QED
    BY <1>2, <1>4 DEF Run, Enqueue, Reconsider, Wake, AbandonWait, ReadTelemetry,
       Decide, TryBegin, TryDecide, CancelBeforeStart, CancelAfterStart, Finish,
       FinishWithAttemptReceipts, FinishReceiptFailure, releaseLane, Finished,
       IndInv, CallerTypes

\* How a step changes the usage of the tasks.
LEMMA UsageStep ==
  ASSUME IndInv, TasksType, [Next]_vars
  PROVE  /\ TasksType'
         /\ \A t \in Tasks : tasks'[t].attempts >= tasks[t].attempts
         /\ \A c \in Callers : Debits(c) =>
              tasks'[TaskOf[c]].attempts >= tasks[TaskOf[c]].attempts + 1
  <1> DEFINE Grows == \A t \in Tasks : tasks'[t].attempts >= tasks[t].attempts
             Grown(c) == tasks'[TaskOf[c]].attempts >= tasks[TaskOf[c]].attempts + 1
  <1>0. \A t \in Tasks : tasks[t].attempts \in Nat
    BY DEF TasksType
  <1>1. ASSUME NEW c \in Callers, NEW n \in Nat \ {0}, NEW r \in Nat, debitTask(c, n, r)
        PROVE  TasksType' /\ Grows /\ Grown(c)
    <2>1. /\ TasksType'
          /\ tasks'[TaskOf[c]].attempts = tasks[TaskOf[c]].attempts + n
          /\ \A t \in Tasks \ {TaskOf[c]} : tasks'[t] = tasks[t]
      BY <1>1, DebitFacts
    <2>2. TaskOf[c] \in Tasks
      BY DEF Tasks
    <2>3. Grown(c)
      BY <1>0, <2>1, <2>2
    <2>4. ASSUME NEW t \in Tasks PROVE tasks'[t].attempts >= tasks[t].attempts
      <3>1. tasks[t].attempts \in Nat
        BY <1>0
      <3>2. CASE t = TaskOf[c]
        BY <2>1, <3>1, <3>2
      <3>3. CASE t # TaskOf[c]
        BY <2>1, <3>1, <3>3
      <3> QED
        BY <3>2, <3>3
    <2> QED
      BY <2>1, <2>3, <2>4
  <1>2. UNCHANGED tasks => TasksType' /\ Grows
    BY <1>0 DEF TasksType
  <1>3. \A c \in Callers : oneRetry(c) \in Nat
    BY DEF oneRetry
  <1>4. ASSUME NEW c \in Callers, FinishWithAttemptReceipts(c)
        PROVE  \E n \in Nat \ {0}, r \in Nat : debitTask(c, n, r)
    <2>0. PICK set \in ReceiptSets, o \in Outcomes :
            \E at \in [DOMAIN set -> startedAt..now], fresh \in newReceipts(set) :
              applyReceipts(c, set, o, at, fresh)
      BY <1>4, Zenon DEF FinishWithAttemptReceipts
    <2>1. PICK at \in [DOMAIN set -> startedAt..now], fresh \in newReceipts(set) :
            applyReceipts(c, set, o, at, fresh)
      BY <2>0
    <2> DEFINE retried == {k \in DOMAIN fresh : fresh[k] > 1 \/ c \in RetryCallers}
    <2>2. debitTask(c, Len(fresh), Cardinality(retried))
      BY <2>1 DEF applyReceipts
    <2>3. Len(fresh) \in Nat \ {0} /\ DOMAIN fresh = 1..Len(fresh)
      <3>1. Len(fresh) \in Nat /\ Len(fresh) >= 1 /\ DOMAIN fresh = 1..Len(fresh)
        BY ReceiptFacts
      <3> QED
        BY <3>1
    <2>4. Cardinality(retried) \in Nat
      <3>1. IsFiniteSet(1..Len(fresh))
        BY <2>3, FS_Interval
      <3> QED
        BY <2>3, <3>1, FS_Subset, FS_CardinalityType
    <2> QED
      BY <2>2, <2>3, <2>4
  <1>5. CASE UNCHANGED vars
    <2>1. UNCHANGED tasks /\ UNCHANGED pc
      BY <1>5 DEF vars, accountVars, callerVars
    <2>2. \A c \in Callers : ~Debits(c)
      BY <2>1 DEF Debits, Start, FinishWithAttemptReceipts, releaseLane, Finished,
         IndInv, CallerTypes
    <2> QED
      BY <1>2, <2>1, <2>2
  <1>6. CASE Operator \/ Tick
    <2>1. UNCHANGED pc
      BY <1>6, EnvironmentMoves
    <2>2. UNCHANGED tasks
      BY <1>6 DEF Operator, Tick, BeginCredentialRefresh, FinishCredentialRefresh,
         AcknowledgeHuman, Close, CancelContext, accountVars
    <2>3. \A c \in Callers : ~Debits(c)
      BY <2>1 DEF Debits, Start, FinishWithAttemptReceipts, releaseLane, Finished,
         IndInv, CallerTypes
    <2> QED
      BY <1>2, <2>2, <2>3
  <1>7. ASSUME NEW c \in Callers, Run(c)
        PROVE  TasksType' /\ Grows /\ \A d \in Callers : Debits(d) => Grown(d)
    <2>1. \A d \in Callers : Debits(d) => d = c
      <3>1. CallerMove(c)
        BY <1>7, AdmissionMoves, PermitMoves DEF Run
      <3>2. \A d \in Callers : d # c => pc'[d] = pc[d]
        BY <3>1 DEF CallerMove, Wanders, Queues,
           TurnedAway, TakesLane, FreesLane, Calls, IndInv, CallerTypes
      <3> QED
        BY <3>2 DEF Debits, Start, FinishWithAttemptReceipts, releaseLane, Finished,
           IndInv, CallerTypes
    <2>2. CASE FinishWithAttemptReceipts(c)
      BY <1>1, <1>4, <2>1, <2>2
    <2>3. CASE Start(c) /\ ~ReceiptAware
      <3>1. debitTask(c, 1, oneRetry(c))
        BY <2>3 DEF Start
      <3> QED
        BY <1>1, <1>3, <2>1, <3>1
    <2>4. CASE FinishReceiptFailure(c)
      <3>1. ~Debits(c)
        BY <2>4 DEF Debits, Start, FinishWithAttemptReceipts, FinishReceiptFailure,
           releaseLane, Finished, IndInv, CallerTypes
      <3>2. UNCHANGED tasks \/ debitTask(c, 1, oneRetry(c))
        BY <2>4 DEF FinishReceiptFailure
      <3> QED
        BY <1>1, <1>2, <1>3, <2>1, <3>1, <3>2
    <2>5. CASE ~FinishWithAttemptReceipts(c) /\ ~(Start(c) /\ ~ReceiptAware)
               /\ ~FinishReceiptFailure(c)
      <3>1. UNCHANGED tasks
        BY <1>7, <2>5 DEF Run, Enqueue, Reconsider, Wake, AbandonWait, ReadTelemetry,
           Decide, TryBegin, TryDecide, CancelBeforeStart, CancelAfterStart, Start,
           Finish, accountVars
      <3> QED
        BY <1>2, <2>1, <2>5, <3>1 DEF Debits
    <2> QED
      BY <2>2, <2>3, <2>4, <2>5
  <1> QED
    BY <1>5, <1>6, <1>7 DEF Next

\* Nothing is debited, and no call was made, at the start.
LEMMA DebitInit == Init => DebitInv
  <1> SUFFICES ASSUME Init PROVE DebitInv
    OBVIOUS
  <1>1. TasksType /\ \A t \in Tasks : tasks[t].attempts = 0
    BY DEF Init, TasksType
  <1>2. \A t : DebitedCalls(t) = {}
    BY DEF Init, DebitedCalls
  <1> QED
    BY <1>1, <1>2, FS_EmptySet DEF DebitInv

\* Every step that makes a call count debits it.
LEMMA DebitStep == IndInv /\ DebitInv /\ [Next]_vars => DebitInv'
  <1> SUFFICES ASSUME IndInv, DebitInv, [Next]_vars, NEW t \in Tasks
               PROVE  /\ IsFiniteSet(DebitedCalls(t)')
                      /\ Cardinality(DebitedCalls(t)') <= tasks'[t].attempts
    BY UsageStep DEF DebitInv, Tasks
  <1> DEFINE now1 == DebitedCalls(t)
             then1 == DebitedCalls(t)'
  <1>0. /\ IsFiniteSet(now1) /\ Cardinality(now1) \in Nat
        /\ tasks[t].attempts \in Nat /\ tasks'[t].attempts \in Nat
        /\ Cardinality(now1) <= tasks[t].attempts
        /\ tasks'[t].attempts >= tasks[t].attempts
    BY UsageStep, FS_CardinalityType DEF DebitInv, TasksType
  <1>1. \A d \in then1 : d \in now1 \/ (Debits(d) /\ TaskOf[d] = t)
    <2> SUFFICES ASSUME NEW d \in Callers, d \in then1
                 PROVE  d \in now1 \/ (Debits(d) /\ TaskOf[d] = t)
      BY DEF DebitedCalls
    <2>0. TaskOf[d] = t
      BY DEF DebitedCalls
    <2>1. CASE result'[d] = "finished"
      BY <2>0, <2>1, ResultStep DEF DebitedCalls, Debits, Finish
    <2>2. CASE ~ReceiptAware /\ pc'[d] = "started"
      BY <2>0, <2>2, StartStep DEF DebitedCalls, Debits
    <2> QED
      BY <2>1, <2>2 DEF DebitedCalls
  <1>2. CASE \E d \in Callers : Debits(d) /\ TaskOf[d] = t
    <2>1. PICK d \in Callers : Debits(d) /\ TaskOf[d] = t
      BY <1>2
    <2>2. \A x \in Callers : Debits(x) => x = d
      <3>1. \A x \in Callers : Debits(x) => pc[x] \in {"granted", "started"}
        BY DEF Debits, Start, FinishWithAttemptReceipts
      <3> QED
        BY <2>1, <3>1 DEF IndInv, SingleLane, Holders
    <2>3. then1 \subseteq now1 \cup {d}
      <3>1. then1 \subseteq Callers
        BY DEF DebitedCalls
      <3> QED
        BY <1>1, <2>2, <3>1
    <2>4. IsFiniteSet(now1 \cup {d}) /\ Cardinality(now1 \cup {d}) <= Cardinality(now1) + 1
          /\ Cardinality(now1 \cup {d}) \in Nat
      <3> HIDE DEF now1
      <3>1. /\ IsFiniteSet(now1 \cup {d})
            /\ Cardinality(now1 \cup {d}) =
                 IF d \in now1 THEN Cardinality(now1) ELSE Cardinality(now1) + 1
        BY <1>0, FS_AddElement
      <3>2. Cardinality(now1 \cup {d}) \in Nat
        BY <3>1, FS_CardinalityType
      <3> QED
        BY <1>0, <3>1, <3>2
    <2>5. IsFiniteSet(then1) /\ Cardinality(then1) <= Cardinality(now1 \cup {d})
          /\ Cardinality(then1) \in Nat
      <3> DEFINE more == now1 \cup {d}
      <3>1. IsFiniteSet(more) /\ then1 \in SUBSET more
        BY <2>3, <2>4
      <3> HIDE DEF more, then1
      <3>2. IsFiniteSet(then1) /\ Cardinality(then1) <= Cardinality(more)
        BY <3>1, FS_Subset
      <3>3. Cardinality(then1) \in Nat
        BY <3>2, FS_CardinalityType
      <3> QED
        BY <3>2, <3>3 DEF more
    <2>6. tasks'[t].attempts >= tasks[t].attempts + 1
      BY <2>1, UsageStep DEF DebitInv
    <2> HIDE DEF now1, then1
    <2>7. IsFiniteSet(then1) /\ Cardinality(then1) <= tasks'[t].attempts
      BY <1>0, <2>4, <2>5, <2>6
    <2> QED
      BY <2>7 DEF then1
  <1>3. CASE ~\E d \in Callers : Debits(d) /\ TaskOf[d] = t
    <2>1. then1 \subseteq now1
      <3>1. then1 \subseteq Callers
        BY DEF DebitedCalls
      <3> QED
        BY <1>1, <1>3, <3>1
    <2> HIDE DEF now1, then1
    <2>2. IsFiniteSet(then1) /\ Cardinality(then1) <= Cardinality(now1)
          /\ Cardinality(then1) \in Nat
      BY <1>0, <2>1, FS_Subset, FS_CardinalityType
    <2>3. IsFiniteSet(then1) /\ Cardinality(then1) <= tasks'[t].attempts
      BY <1>0, <2>2
    <2> QED
      BY <2>3 DEF then1
  <1> QED
    BY <1>2, <1>3

\* Every provider call that came back is in its task's usage, for any number of
\* callers, and rejected receipts have stopped the account.
THEOREM EveryCallDebitedHolds == Spec => []EveryCallDebited
  <1>1. DebitInv /\ ProtectionInv => EveryCallDebited
    <2> SUFFICES ASSUME DebitInv, ProtectionInv PROVE EveryCallDebited
      OBVIOUS
    <2>1. ASSUME NEW t \in Tasks
          PROVE  tasks[t].attempts >=
                   Cardinality({c \in Callers : TaskOf[c] = t /\ result[c] = "finished"})
      <3> DEFINE came == {c \in Callers : TaskOf[c] = t /\ result[c] = "finished"}
      <3>1. came \subseteq DebitedCalls(t)
        BY DEF DebitedCalls
      <3>2. /\ IsFiniteSet(DebitedCalls(t)) /\ tasks[t].attempts \in Nat
            /\ Cardinality(DebitedCalls(t)) <= tasks[t].attempts
        BY DEF DebitInv, TasksType
      <3> HIDE DEF came
      <3>3. /\ Cardinality(came) <= Cardinality(DebitedCalls(t))
            /\ Cardinality(came) \in Nat /\ Cardinality(DebitedCalls(t)) \in Nat
        BY <3>1, <3>2, FS_Subset, FS_CardinalityType
      <3>4. tasks[t].attempts >= Cardinality(came)
        BY <3>2, <3>3
      <3> QED
        BY <3>4 DEF came
    <2> QED
      BY <2>1 DEF EveryCallDebited, ProtectionInv, RejectedStops
  <1> QED
    BY <1>1, InitInv, StepInv, ProtectionInit, ProtectionStep, DebitInit, DebitStep, PTL
       DEF Spec

-----------------------------------------------------------------------------
(* The rolling windows and the budgets.                                     *)

\* How many entries of a ledger are later than x.
Above(s, x) == Cardinality({i \in DOMAIN s : s[i] > x})

\* The count of a ledger is a number.
LEMMA AboveIsNat ==
  ASSUME NEW s \in Seq(Nat), NEW x \in Int
  PROVE  Above(s, x) \in Nat
  BY Positions DEF Above

\* Dropping a prefix leaves no more entries above any bound.
LEMMA DropAbove ==
  ASSUME NEW s \in Seq(Nat), NEW cutoff \in Int, NEW x \in Int
  PROVE  Above(dropExpired(s, cutoff), x) <= Above(s, x)
  <1> DEFINE d == dropExpired(s, cutoff)
             A == {i \in DOMAIN d : d[i] > x}
             B == {i \in DOMAIN s : s[i] > x}
  <1>1. PICK k \in Nat :
          /\ d \in Seq(Nat)
          /\ \A i \in 1..Len(d) : i + k \in 1..Len(s) /\ d[i] = s[i + k]
    BY DropFacts
  <1> HIDE DEF d
  <1>2. DOMAIN d = 1..Len(d) /\ DOMAIN s = 1..Len(s) /\ IsFiniteSet(B)
    BY <1>1, Positions
  <1> DEFINE f == [i \in A |-> i + k]
  <1>3. f \in [A -> B] /\ \A i, j \in A : f[i] = f[j] => i = j
    BY <1>1, <1>2
  <1>4. f \in Injection(A, B)
    <2> HIDE DEF f, A, B
    <2> QED
      BY <1>3 DEF Injection, IsInjective
  <1>5. Cardinality(A) <= Cardinality(B)
    <2> HIDE DEF f, A, B
    <2> QED
      BY <1>2, <1>4, FS_Injection
  <1> QED
    BY <1>5 DEF Above, d

\* One more entry adds at most one.
LEMMA AppendAbove ==
  ASSUME NEW s \in Seq(Nat), NEW e \in Nat, NEW x \in Int
  PROVE  /\ Append(s, e) \in Seq(Nat)
         /\ Above(Append(s, e), x) <= Above(s, x) + 1
  <1> DEFINE A == {i \in DOMAIN Append(s, e) : Append(s, e)[i] > x}
             B == {i \in DOMAIN s : s[i] > x}
             C == B \cup {Len(s) + 1}
  <1>1. A \subseteq C
    OBVIOUS
  <1>2. IsFiniteSet(B) /\ Cardinality(B) \in Nat
    BY Positions
  <1> HIDE DEF B
  <1>3. IsFiniteSet(C) /\ Cardinality(C) <= Cardinality(B) + 1
    <2>1. /\ IsFiniteSet(C)
          /\ Cardinality(C) = IF Len(s) + 1 \in B THEN Cardinality(B)
                              ELSE Cardinality(B) + 1
      BY <1>2, FS_AddElement
    <2> HIDE DEF C
    <2> QED
      BY <1>2, <2>1
  <1> HIDE DEF A, C
  <1>4. Cardinality(A) <= Cardinality(C) /\ Cardinality(A) \in Nat /\ Cardinality(C) \in Nat
    BY <1>1, <1>3, FS_Subset, FS_CardinalityType
  <1>5. Cardinality(A) <= Cardinality(B) + 1
    BY <1>2, <1>3, <1>4
  <1>6. Append(s, e) \in Seq(Nat)
    OBVIOUS
  <1> QED
    BY <1>5, <1>6 DEF Above, A, B

\* A later bound leaves no more entries above it.
LEMMA LaterAbove ==
  ASSUME NEW s \in Seq(Nat), NEW x \in Int, NEW y \in Int, x <= y
  PROVE  Above(s, y) <= Above(s, x)
  <1> DEFINE A == {i \in DOMAIN s : s[i] > y}
             B == {i \in DOMAIN s : s[i] > x}
  <1>1. A \subseteq B
    OBVIOUS
  <1>2. IsFiniteSet(B)
    BY Positions
  <1> HIDE DEF A, B
  <1>3. Cardinality(A) <= Cardinality(B)
    BY <1>1, <1>2, FS_Subset
  <1> QED
    BY <1>3 DEF Above, A, B

\* expireLedger only forgets.
LEMMA ExpireAbove ==
  ASSUME NEW s \in Seq(Nat), NEW t \in Nat
  PROVE  /\ expireLedger(s, t) \in Seq(Nat)
         /\ \A x \in Int : Above(expireLedger(s, t), x) <= Above(s, x)
  <1>1. CASE Windows = << >>
    BY <1>1, AboveIsNat DEF expireLedger
  <1>2. CASE Windows # << >>
    <2>1. t - Windows[1].span \in Int
      <3>1. Windows \in Seq([span : Nat \ {0}, ceiling : Nat \ {0}])
        BY WindowsAssumption
      <3>2. 1 \in 1..Len(Windows)
        BY <1>2, <3>1
      <3>3. Windows[1] \in [span : Nat \ {0}, ceiling : Nat \ {0}]
        BY <3>1, <3>2, ElementOfSeq
      <3> QED
        BY <3>3
    <2>2. expireLedger(s, t) = dropExpired(s, t - Windows[1].span)
      BY <1>2 DEF expireLedger
    <2> QED
      BY <2>1, <2>2, DropFacts, DropAbove
  <1> QED
    BY <1>1, <1>2

\* The windows are well formed.
LEMMA WindowFacts ==
  ASSUME NEW w \in DOMAIN Windows
  PROVE  Windows[w].span \in Nat /\ Windows[w].ceiling \in Nat
  <1>1. Windows \in Seq([span : Nat \ {0}, ceiling : Nat \ {0}])
    BY WindowsAssumption
  <1>2. w \in 1..Len(Windows)
    BY <1>1
  <1>3. Windows[w] \in [span : Nat \ {0}, ceiling : Nat \ {0}]
    BY <1>1, <1>2, ElementOfSeq
  <1> QED
    BY <1>3

WithinLimits ==
  /\ \A w \in DOMAIN Windows :
       ledgerCount(ledger, now, Windows[w].span) <= Windows[w].ceiling
  /\ \A t \in Tasks : /\ tasks[t].attempts <= TaskBudget
                      /\ tasks[t].retries <= RetryBudget

\* The permit of c is granted and its call not yet debited.
Reserved(c) == pc[c] = "granted" \/ (pc[c] = "started" /\ ReceiptAware)

\* One more call of c fits in every window and budget.
RoomFor(c) ==
  /\ \A w \in DOMAIN Windows :
       ledgerCount(ledger, now, Windows[w].span) < Windows[w].ceiling
  /\ tasks[TaskOf[c]].attempts < TaskBudget
  /\ c \in RetryCallers => tasks[TaskOf[c]].retries < RetryBudget

\* What admission found free stays free until the call is debited.
UsageInv ==
  /\ TasksType /\ ledger \in Seq(Nat)
  /\ \/ protection.unsafe
     \/ /\ WithinLimits
        /\ \A c \in Callers : Reserved(c) => RoomFor(c)

\* A rolling count is the number of entries above the window's cutoff.
LEMMA CountIsAbove ==
  ASSUME NEW led, NEW t, NEW span
  PROVE  ledgerCount(led, t, span) = Above(led, t - span)
  BY DEF ledgerCount, Above

\* The ledger forgets, and the clock does not go back.
Forgets ==
  /\ ledger' \in Seq(Nat) /\ now \in Nat /\ now' \in Nat /\ now <= now'
  /\ \A x \in Int : Above(ledger', x) <= Above(ledger, x)

\* No count grows when the ledger forgets and the clock moves on.
LEMMA ForgettingCounts ==
  ASSUME ledger \in Seq(Nat), Forgets, NEW w \in DOMAIN Windows
  PROVE  /\ ledgerCount(ledger', now', Windows[w].span)
              <= ledgerCount(ledger, now, Windows[w].span)
         /\ ledgerCount(ledger', now', Windows[w].span) \in Nat
         /\ ledgerCount(ledger, now, Windows[w].span) \in Nat
         /\ Windows[w].ceiling \in Nat
  <1> DEFINE x == now - Windows[w].span
             y == now' - Windows[w].span
  <1>1. x \in Int /\ y \in Int /\ x <= y /\ Windows[w].ceiling \in Nat
    BY WindowFacts DEF Forgets
  <1> HIDE DEF x, y
  <1>2. Above(ledger', y) <= Above(ledger, y) /\ Above(ledger, y) <= Above(ledger, x)
    BY <1>1, LaterAbove DEF Forgets
  <1>3. Above(ledger', y) \in Nat /\ Above(ledger, y) \in Nat /\ Above(ledger, x) \in Nat
    BY <1>1, AboveIsNat DEF Forgets
  <1> QED
    BY <1>1, <1>2, <1>3, CountIsAbove DEF x, y

\* A step that debits nothing keeps the limits; what it newly reserves it must
\* have room for.
LEMMA QuietUsage ==
  ASSUME UsageInv, HoldsBack, Forgets, UNCHANGED tasks,
         \A c \in Callers : Reserved(c)' => Reserved(c) \/ RoomFor(c)'
  PROVE  UsageInv'
  <1>1. TasksType' /\ (ledger \in Seq(Nat))'
    BY DEF UsageInv, TasksType, Forgets
  <1>2. CASE protection'.unsafe
    BY <1>1, <1>2 DEF UsageInv
  <1>3. CASE ~protection'.unsafe
    <2>1. WithinLimits /\ \A c \in Callers : Reserved(c) => RoomFor(c)
      BY <1>3 DEF UsageInv, HoldsBack
    <2>2. \A w \in DOMAIN Windows :
            /\ ledgerCount(ledger', now', Windows[w].span)
                 <= ledgerCount(ledger, now, Windows[w].span)
            /\ ledgerCount(ledger', now', Windows[w].span) \in Nat
            /\ ledgerCount(ledger, now, Windows[w].span) \in Nat
            /\ Windows[w].ceiling \in Nat
      BY ForgettingCounts DEF UsageInv
    <2>3. WithinLimits'
      BY <2>1, <2>2 DEF WithinLimits
    <2>4. \A c \in Callers : RoomFor(c) => RoomFor(c)'
      BY <2>2 DEF RoomFor
    <2> QED
      BY <1>1, <2>1, <2>3, <2>4 DEF UsageInv
  <1> QED
    BY <1>2, <1>3

\* Admission admits only what fits.
LEMMA AdmitFits ==
  ASSUME NEW t, NEW c \in Callers, NEW p, NEW led, check(t, c, p, led).verdict = "admit"
  PROVE  /\ ~(tasks[TaskOf[c]].attempts >= TaskBudget)
         /\ ~(c \in RetryCallers /\ tasks[TaskOf[c]].retries >= RetryBudget)
         /\ ExhaustedWindows(led, t) = {}
  <1>1. checkProtection(t, p) # Grant => checkProtection(t, p).verdict # "admit"
    BY DEF checkProtection, Delay, Reject, Grant
  <1>2. checkUsage(t, c, led).verdict = "admit"
    BY <1>1 DEF check, Delay
  <1> QED
    BY <1>2 DEF checkUsage, Delay, Reject, Grant

\* What is granted fits, also when the clock was read before the lock.
LEMMA GrantFits ==
  ASSUME IndInv, UsageInv, NEW c \in Callers, NEW t \in Nat, t <= now, NEW p,
         check(t, c, p, expireLedger(ledger, t)).verdict = "admit",
         ledger' = expireLedger(ledger, t), UNCHANGED <<tasks, now>>
  PROVE  RoomFor(c)'
  <1> DEFINE led == expireLedger(ledger, t)
  <1>0. TaskOf[c] \in Tasks /\ now \in Nat
    BY DEF Tasks, IndInv, CallerTypes
  <1>1. led \in Seq(Nat)
    BY ExpireAbove DEF UsageInv
  <1>2. /\ ~(tasks[TaskOf[c]].attempts >= TaskBudget)
        /\ ~(c \in RetryCallers /\ tasks[TaskOf[c]].retries >= RetryBudget)
        /\ ExhaustedWindows(led, t) = {}
    BY AdmitFits
  <1> HIDE DEF led
  <1>3. ASSUME NEW w \in DOMAIN Windows
        PROVE  ledgerCount(led, now, Windows[w].span) < Windows[w].ceiling
    <2> DEFINE x == t - Windows[w].span
               y == now - Windows[w].span
    <2>1. x \in Int /\ y \in Int /\ x <= y /\ Windows[w].ceiling \in Nat
      BY <1>0, WindowFacts
    <2>2. ~(Above(led, x) >= Windows[w].ceiling)
      BY <1>2, CountIsAbove DEF ExhaustedWindows
    <2> HIDE DEF x, y
    <2>3. Above(led, y) <= Above(led, x) /\ Above(led, y) \in Nat /\ Above(led, x) \in Nat
      BY <1>1, <2>1, LaterAbove, AboveIsNat
    <2>4. Above(led, y) < Windows[w].ceiling
      BY <2>1, <2>2, <2>3
    <2> QED
      BY <2>4, CountIsAbove DEF y
  <1>4. /\ tasks[TaskOf[c]].attempts \in Nat /\ tasks[TaskOf[c]].retries \in Nat
        /\ TaskBudget \in Nat /\ RetryBudget \in Nat
    BY <1>0, GovernorAssumption DEF UsageInv, TasksType
  <1>5. /\ tasks[TaskOf[c]].attempts < TaskBudget
        /\ c \in RetryCallers => tasks[TaskOf[c]].retries < RetryBudget
    BY <1>2, <1>4
  <1> QED
    BY <1>3, <1>5 DEF RoomFor, led

\* The debit of one call that had room.
LEMMA DebitedUsage ==
  ASSUME IndInv, UsageInv, HoldsBack, NEW c \in Callers, Reserved(c),
         NEW e \in Nat, ledger' = Append(expireLedger(ledger, now), e), now' = now,
         debitTask(c, 1, oneRetry(c)), \A d \in Callers : ~Reserved(d)'
  PROVE  UsageInv'
  <1> DEFINE led == expireLedger(ledger, now)
             k == TaskOf[c]
  <1>0. k \in Tasks /\ now \in Nat /\ ledger \in Seq(Nat) /\ oneRetry(c) \in Nat
    BY DEF Tasks, IndInv, CallerTypes, UsageInv, oneRetry
  <1>1. led \in Seq(Nat) /\ \A x \in Int : Above(led, x) <= Above(ledger, x)
    BY <1>0, ExpireAbove
  <1> HIDE DEF led
  <1>2. ledger' \in Seq(Nat)
    BY <1>1, AppendAbove DEF led
  <1>3. /\ TasksType'
        /\ tasks'[k].attempts = tasks[k].attempts + 1
        /\ tasks'[k].retries = tasks[k].retries + oneRetry(c)
        /\ \A t \in Tasks \ {k} : tasks'[t] = tasks[t]
    BY <1>0, DebitFacts DEF UsageInv
  <1>4. CASE protection'.unsafe
    BY <1>2, <1>3, <1>4 DEF UsageInv
  <1>5. CASE ~protection'.unsafe
    <2>1. WithinLimits /\ RoomFor(c)
      BY <1>5 DEF UsageInv, HoldsBack
    <2>2. ASSUME NEW w \in DOMAIN Windows
          PROVE  ledgerCount(ledger', now', Windows[w].span) <= Windows[w].ceiling
      <3> DEFINE x == now - Windows[w].span
      <3>1. x \in Int /\ Windows[w].ceiling \in Nat
        BY <1>0, WindowFacts
      <3>2. Above(ledger, x) < Windows[w].ceiling
        BY <2>1, CountIsAbove DEF RoomFor
      <3> HIDE DEF x
      <3>3. Above(ledger', x) <= Above(led, x) + 1 /\ Above(led, x) <= Above(ledger, x)
        BY <1>1, <3>1, AppendAbove DEF led
      <3>4. Above(ledger', x) \in Nat /\ Above(led, x) \in Nat /\ Above(ledger, x) \in Nat
        BY <1>0, <1>1, <1>2, <3>1, AboveIsNat
      <3>5. Above(ledger', x) <= Windows[w].ceiling
        BY <3>1, <3>2, <3>3, <3>4
      <3> QED
        BY <3>5, CountIsAbove DEF x
    <2>3. ASSUME NEW t \in Tasks
          PROVE  tasks'[t].attempts <= TaskBudget /\ tasks'[t].retries <= RetryBudget
      <3>1. /\ tasks[t].attempts \in Nat /\ tasks[t].retries \in Nat
            /\ TaskBudget \in Nat /\ RetryBudget \in Nat
            /\ tasks[t].attempts <= TaskBudget /\ tasks[t].retries <= RetryBudget
        BY <2>1, GovernorAssumption DEF UsageInv, TasksType, WithinLimits
      <3>2. CASE t # k
        BY <1>3, <3>1, <3>2
      <3>3. CASE t = k
        <4>1. /\ tasks[t].attempts < TaskBudget
              /\ c \in RetryCallers => tasks[t].retries < RetryBudget
          BY <2>1, <3>3 DEF RoomFor
        <4>2. tasks'[t].attempts = tasks[t].attempts + 1
              /\ tasks'[t].retries = tasks[t].retries + oneRetry(c)
          BY <1>3, <3>3
        <4> QED
          BY <3>1, <4>1, <4>2 DEF oneRetry
      <3> QED
        BY <3>2, <3>3
    <2>4. WithinLimits'
      BY <2>2, <2>3 DEF WithinLimits, Tasks
    <2> QED
      BY <1>2, <1>3, <2>4 DEF UsageInv
  <1> QED
    BY <1>4, <1>5

\* A move reserves nothing but by a grant.
LEMMA MoveReserves ==
  ASSUME IndInv, NEW c \in Callers, CallerMove(c)
  PROVE  /\ \A d \in Callers : Reserved(d)' => Reserved(d) \/ (d = c /\ pc'[c] = "granted")
         /\ now' = now
  <1>1. now' = now
    BY DEF CallerMove, Wanders, Queues, TurnedAway, TakesLane, FreesLane, Calls
  <1>2. /\ \A d \in Callers \ {c} : pc'[d] = pc[d]
        /\ pc'[c] = "started" => pc[c] = "granted"
    BY DEF CallerMove, Wanders, Queues, TurnedAway, TakesLane, FreesLane, Calls,
       OutsidePCs, WaitingPCs, IndInv, CallerTypes
  <1> QED
    BY <1>1, <1>2 DEF Reserved

\* Expiry is forgetting.
LEMMA LedgerForgets ==
  ASSUME UsageInv, now \in Nat, NEW t \in Nat, now' = now,
         ledger' \in {ledger, expireLedger(ledger, t)}
  PROVE  Forgets
  <1>1. ledger \in Seq(Nat) /\ \A x \in Int : Above(ledger, x) \in Nat
    BY AboveIsNat DEF UsageInv
  <1>2. CASE ledger' = ledger
    BY <1>1, <1>2 DEF Forgets
  <1>3. CASE ledger' = expireLedger(ledger, t)
    BY <1>1, <1>3, ExpireAbove DEF Forgets
  <1> QED
    BY <1>2, <1>3

\* Usage after a step of admission.
LEMMA AdmissionUsage ==
  ASSUME IndInv, UsageInv, HoldsBack, NEW c \in Callers,
         \/ Enqueue(c) \/ Reconsider(c) \/ Wake(c) \/ AbandonWait(c)
         \/ ReadTelemetry(c) \/ Decide(c) \/ TryBegin(c) \/ TryDecide(c)
  PROVE  UsageInv'
  <1>0. now \in Nat /\ seen[c].at \in Nat /\ seen[c].at <= now
    BY DEF IndInv, CallerTypes, ClockInv
  <1>1. CallerMove(c)
    BY AdmissionMoves
  <1>2. /\ now' = now
        /\ \A d \in Callers : Reserved(d)' => Reserved(d) \/ (d = c /\ pc'[c] = "granted")
    BY <1>1, MoveReserves
  <1>3. UNCHANGED tasks
    BY DEF Enqueue, Reconsider, Wake, AbandonWait, ReadTelemetry, Decide, TryBegin,
       TryDecide, accountVars
  <1>4. CASE Decide(c)
    <2> DEFINE t == seen[c].at
               p == expireProtection(applyTelemetry(protection, seen[c].snapshot, t), t)
               led == expireLedger(ledger, t)
               verdict == check(t, c, p, led)
    <2>1. ledger' \in {ledger, led}
      BY <1>4 DEF Decide
    <2>2. pc'[c] = "granted" => verdict.verdict = "admit" /\ ledger' = led
      <3> HIDE DEF verdict
      <3>1. CASE pc' = [pc EXCEPT ![c] = "waiting"] \/ pc' = [pc EXCEPT ![c] = "done"]
        BY <3>1 DEF IndInv, CallerTypes
      <3> QED
        BY <1>4, <3>1 DEF Decide, Finished, verdict
    <2>3. Forgets
      BY <1>0, <1>2, <2>1, LedgerForgets
    <2>4. pc'[c] = "granted" => RoomFor(c)'
      BY <1>0, <1>2, <1>3, <2>2, GrantFits
    <2> QED
      BY <1>2, <1>3, <2>3, <2>4, QuietUsage
  <1>5. CASE TryDecide(c)
    <2> DEFINE p == expireProtection(
                      applyTelemetry(protection, seen[c].snapshot, now), now)
               led == expireLedger(ledger, now)
               verdict == check(now, c, p, led)
    <2>1. ledger' \in {ledger, led}
      BY <1>5 DEF TryDecide
    <2>2. pc'[c] = "granted" => verdict.verdict = "admit" /\ ledger' = led
      <3> HIDE DEF verdict
      <3>1. CASE pc' = [pc EXCEPT ![c] = "done"]
        BY <3>1 DEF IndInv, CallerTypes
      <3> QED
        BY <1>5, <3>1 DEF TryDecide, Finished, verdict
    <2>3. Forgets
      BY <1>0, <1>2, <2>1, LedgerForgets
    <2>4. pc'[c] = "granted" => RoomFor(c)'
      BY <1>0, <1>2, <1>3, <2>2, GrantFits
    <2> QED
      BY <1>2, <1>3, <2>3, <2>4, QuietUsage
  <1>6. CASE \/ Enqueue(c) \/ Reconsider(c) \/ Wake(c) \/ AbandonWait(c)
             \/ ReadTelemetry(c) \/ TryBegin(c)
    <2>1. UNCHANGED ledger
      BY <1>6 DEF Enqueue, Reconsider, Wake, AbandonWait, ReadTelemetry, TryBegin,
         accountVars
    <2>2. Forgets
      BY <1>0, <1>2, <2>1, LedgerForgets
    <2>3. pc'[c] # "granted"
      BY <1>6 DEF Enqueue, Reconsider, Wake, AbandonWait, ReadTelemetry, TryBegin,
         Finished, IndInv, CallerTypes
    <2> QED
      BY <1>2, <1>3, <2>2, <2>3, QuietUsage
  <1> QED
    BY <1>4, <1>5, <1>6

\* A set that was not amplified is one new receipt: its debit is one call's.
LEMMA PlainReceipt ==
  ASSUME IndInv, UsageInv, NEW c \in Callers,
         NEW set \in ReceiptSets, NEW o \in Outcomes,
         NEW at \in [DOMAIN set -> startedAt..now], NEW fresh \in newReceipts(set),
         applyReceipts(c, set, o, at, fresh), ~amplified(set, fresh)
  PROVE  /\ debitTask(c, 1, oneRetry(c))
         /\ \E e \in Nat : ledger' = Append(expireLedger(ledger, now), e)
  <1> DEFINE starts == [k \in DOMAIN fresh |-> at[fresh[k]]]
             retried == {k \in DOMAIN fresh : fresh[k] > 1 \/ c \in RetryCallers}
             led == expireLedger(ledger, now)
  <1>1. /\ Len(set) \in Nat /\ DOMAIN set = 1..Len(set)
        /\ Len(fresh) \in Nat /\ Len(fresh) >= 1 /\ DOMAIN fresh = 1..Len(fresh)
        /\ Len(fresh) <= Len(set)
        /\ \A k \in DOMAIN fresh : fresh[k] \in DOMAIN set
    BY ReceiptFacts
  <1>2. Len(fresh) = 1 /\ Len(set) = 1
    BY <1>1 DEF amplified
  <1>3. DOMAIN fresh = {1} /\ DOMAIN set = {1} /\ fresh[1] = 1
    BY <1>1, <1>2
  <1>4. debitTask(c, Len(fresh), Cardinality(retried)) /\ ledger' = led \o starts
    BY DEF applyReceipts
  <1>5. Cardinality(retried) = oneRetry(c)
    <2>1. retried = IF c \in RetryCallers THEN {1} ELSE {}
      BY <1>3
    <2> HIDE DEF retried
    <2> QED
      BY <2>1, FS_EmptySet, FS_Singleton DEF oneRetry
  <1>6. at[1] \in Nat /\ led \in Seq(Nat)
    BY <1>3, ExpireAbove DEF IndInv, CallerTypes, UsageInv
  <1> HIDE DEF led
  <1>7. starts = << at[1] >>
    BY <1>3
  <1>8. led \o starts = Append(led, at[1])
    BY <1>6, <1>7
  <1> QED
    BY <1>2, <1>4, <1>5, <1>6, <1>8 DEF led

\* Usage after a step of the permit.
LEMMA PermitUsage ==
  ASSUME IndInv, IndInv', ProtectionInv, UsageInv, [Next]_vars, NEW c \in Callers,
         \/ CancelBeforeStart(c) \/ Start(c) \/ CancelAfterStart(c)
         \/ Finish(c) \/ FinishWithAttemptReceipts(c) \/ FinishReceiptFailure(c)
  PROVE  UsageInv'
  <1>0. now \in Nat /\ ledger \in Seq(Nat) /\ startedAt \in Nat
    BY DEF IndInv, CallerTypes, UsageInv
  <1>1. HoldsBack /\ (FinishReceiptFailure(c) => protection'.unsafe)
    BY PermitHoldsBack
  <1>2. CallerMove(c)
    BY PermitMoves
  <1>3. /\ now' = now
        /\ \A d \in Callers : Reserved(d)' => Reserved(d) \/ (d = c /\ pc'[c] = "granted")
    BY <1>2, MoveReserves
  <1>4. TasksType'
    BY UsageStep DEF UsageInv
  <1>5. expireLedger(ledger, now) \in Seq(Nat)
    BY <1>0, ExpireAbove
  <1>6. CASE \/ CancelBeforeStart(c) \/ CancelAfterStart(c) \/ Finish(c)
             \/ (Start(c) /\ ReceiptAware)
    <2>1. ledger' \in {ledger, expireLedger(ledger, now)} /\ UNCHANGED tasks
      BY <1>6 DEF CancelBeforeStart, CancelAfterStart, Finish, Start, accountVars
    <2>2. pc'[c] # "granted"
      BY <1>6 DEF CancelBeforeStart, CancelAfterStart, Finish, Start, releaseLane,
         Finished, IndInv, CallerTypes
    <2>3. Forgets
      BY <1>0, <1>3, <2>1, LedgerForgets
    <2> QED
      BY <1>1, <1>3, <2>1, <2>2, <2>3, QuietUsage
  <1>7. CASE Start(c) /\ ~ReceiptAware
    <2>1. /\ Reserved(c) /\ debitTask(c, 1, oneRetry(c))
          /\ ledger' = Append(expireLedger(ledger, now), now)
      BY <1>7 DEF Start, Reserved
    <2>2. pc'[c] = "started"
      BY <1>7 DEF Start, IndInv, CallerTypes
    <2>3. \A d \in Callers : ~Reserved(d)'
      BY <1>7, <2>2 DEF Reserved, IndInv, SingleLane, Holders
    <2> QED
      BY <1>0, <1>1, <1>3, <2>1, <2>3, DebitedUsage
  <1>8. CASE FinishWithAttemptReceipts(c) \/ FinishReceiptFailure(c)
    <2>1. Reserved(c) /\ inFlight' = FALSE
      BY <1>8 DEF FinishWithAttemptReceipts, FinishReceiptFailure, Reserved,
         releaseLane
    <2>2. \A d \in Callers : ~Reserved(d)'
      BY <2>1 DEF Reserved, IndInv, SingleLane, Holders
    <2>3. CASE FinishReceiptFailure(c)
      <3>1. ledger' \in {expireLedger(ledger, now),
                         Append(expireLedger(ledger, now), startedAt)}
        BY <2>3 DEF FinishReceiptFailure
      <3>2. PICK led \in Seq(Nat) : led = expireLedger(ledger, now)
        BY <1>5
      <3>3. Append(led, startedAt) \in Seq(Nat)
        BY <1>0, AppendAbove
      <3>4. ledger' \in Seq(Nat)
        BY <3>1, <3>2, <3>3
      <3> QED
        BY <1>1, <1>4, <2>3, <3>4 DEF UsageInv
    <2>4. CASE FinishWithAttemptReceipts(c)
      <3>1. PICK set \in ReceiptSets, o \in Outcomes :
              \E at \in [DOMAIN set -> startedAt..now], fresh \in newReceipts(set) :
                /\ applyReceipts(c, set, o, at, fresh)
                /\ amplified(set, fresh) => protection'.unsafe
        BY <2>4, ReceiptsRecord
      <3>2. PICK at \in [DOMAIN set -> startedAt..now], fresh \in newReceipts(set) :
              /\ applyReceipts(c, set, o, at, fresh)
              /\ amplified(set, fresh) => protection'.unsafe
        BY <3>1
      <3>3. CASE amplified(set, fresh)
        <4> DEFINE starts == [k \in DOMAIN fresh |-> at[fresh[k]]]
        <4>1. ledger' = expireLedger(ledger, now) \o starts
          BY <3>2 DEF applyReceipts
        <4>2. /\ Len(fresh) \in Nat /\ DOMAIN fresh = 1..Len(fresh)
              /\ \A k \in DOMAIN fresh : fresh[k] \in DOMAIN set
          BY ReceiptFacts
        <4>3. starts \in Seq(Nat)
          <5>1. starts \in [1..Len(fresh) -> Nat]
            BY <1>0, <4>2
          <5> HIDE DEF starts
          <5> QED
            BY <4>2, <5>1, FunctionIsSeq
        <4> HIDE DEF starts
        <4>4. ledger' \in Seq(Nat)
          BY <1>5, <4>1, <4>3
        <4> QED
          BY <1>4, <3>2, <3>3, <4>4 DEF UsageInv
      <3>4. CASE ~amplified(set, fresh)
        <4>1. debitTask(c, 1, oneRetry(c))
          BY <3>2, <3>4, PlainReceipt
        <4>2. PICK e \in Nat : ledger' = Append(expireLedger(ledger, now), e)
          BY <3>2, <3>4, PlainReceipt
        <4> QED
          BY <1>1, <1>3, <2>1, <2>2, <4>1, <4>2, DebitedUsage
      <3> QED
        BY <3>3, <3>4
    <2> QED
      BY <1>8, <2>3, <2>4
  <1> QED
    BY <1>6, <1>7, <1>8

\* Usage at the start.
LEMMA UsageInit == Init => UsageInv
  <1> SUFFICES ASSUME Init PROVE UsageInv
    OBVIOUS
  <1>1. TasksType
    BY DEF Init, TasksType
  <1>2. ledger \in Seq(Nat)
    <2>1. << >> \in Seq(Nat)
      OBVIOUS
    <2> QED
      BY <2>1 DEF Init
  <1>3. \A c \in Callers : ~Reserved(c)
    BY DEF Init, Reserved
  <1>4. ASSUME NEW w \in DOMAIN Windows
        PROVE  ledgerCount(ledger, now, Windows[w].span) <= Windows[w].ceiling
    <2>0. DOMAIN ledger = {}
      <3>1. ledger = << >>
        BY DEF Init
      <3> QED
        BY <3>1
    <2>1. {i \in DOMAIN ledger : ledger[i] > now - Windows[w].span} = {}
      BY <2>0
    <2>2. ledgerCount(ledger, now, Windows[w].span) = 0
      BY <2>1, FS_EmptySet DEF ledgerCount
    <2> QED
      BY <2>2, WindowFacts
  <1>5. \A t \in Tasks : tasks[t].attempts <= TaskBudget /\ tasks[t].retries <= RetryBudget
    <2>1. \A t \in Tasks : tasks[t].attempts = 0 /\ tasks[t].retries = 0
      BY DEF Init
    <2>2. TaskBudget \in Nat /\ RetryBudget \in Nat
      BY GovernorAssumption
    <2> QED
      BY <2>1, <2>2
  <1> QED
    BY <1>1, <1>2, <1>3, <1>4, <1>5 DEF UsageInv, WithinLimits

\* The usage invariant is inductive.
LEMMA UsageKept == IndInv /\ ProtectionInv /\ UsageInv /\ [Next]_vars => UsageInv'
  <1> SUFFICES ASSUME IndInv, ProtectionInv, UsageInv, [Next]_vars PROVE UsageInv'
    OBVIOUS
  <1>0. IndInv' /\ HoldsBack
    BY StepInv, StepHoldsBack
  <1>1. CASE UNCHANGED vars \/ Operator \/ Tick
    <2>1. UNCHANGED <<ledger, tasks>>
      BY <1>1 DEF vars, accountVars, Operator, Tick, BeginCredentialRefresh,
         FinishCredentialRefresh, AcknowledgeHuman, Close, CancelContext
    <2>2. UNCHANGED pc /\ now' \in Nat /\ now' >= now /\ now \in Nat
      BY <1>1, EnvironmentMoves DEF vars, callerVars, IndInv, CallerTypes
    <2>3. Forgets
      BY <2>1, <2>2, AboveIsNat DEF Forgets, UsageInv
    <2>4. \A c \in Callers : Reserved(c)' => Reserved(c)
      BY <2>2 DEF Reserved
    <2> QED
      BY <1>0, <2>1, <2>3, <2>4, QuietUsage
  <1>2. ASSUME NEW c \in Callers, Run(c) PROVE UsageInv'
    BY <1>0, <1>2, AdmissionUsage, PermitUsage DEF Run
  <1> QED
    BY <1>1, <1>2 DEF Next

\* The rolling windows, the task budget and the retry budget are never exceeded
\* unless the provider amplified a request, and then the account is stopped:
\* what admission found free cannot be taken before the call is debited, however
\* late the decision's clock reading was.
THEOREM UsageWithinLimitsHolds == Spec => []UsageWithinLimits
  <1>1. UsageInv => UsageWithinLimits
    BY DEF UsageInv, WithinLimits, UsageWithinLimits
  <1> QED
    BY <1>1, InitInv, StepInv, ProtectionInit, ProtectionStep, UsageInit, UsageKept, PTL
       DEF Spec

-----------------------------------------------------------------------------
(* The queue: turns and their order.                                        *)

Waits(q, c) == \E i \in DOMAIN q : q[i] = c

\* No waiter of c's task is ahead of c.
FirstOfTask(q, c) ==
  \A i \in DOMAIN q :
    \/ q[i] = c
    \/ \E j \in DOMAIN q : q[j] = c /\ j < i
    \/ TaskOf[q[i]] # TaskOf[c]

\* Taking a waiter off the queue closes the gap.
LEMMA WithoutFacts ==
  ASSUME NEW q \in Seq(Callers), NEW d, Waits(q, d)
  PROVE  /\ Without(q, d) \in Seq(Callers) /\ Len(Without(q, d)) = Len(q) - 1
         /\ \E k \in 1..Len(q) :
              /\ q[k] = d
              /\ \A i \in 1..(Len(q) - 1) :
                   Without(q, d)[i] = IF i < k THEN q[i] ELSE q[i + 1]
  <1> DEFINE k == CHOOSE i \in DOMAIN q : q[i] = d
             a == SubSeq(q, 1, k - 1)
             b == SubSeq(q, k + 1, Len(q))
  <1>1. k \in 1..Len(q) /\ q[k] = d /\ Len(q) \in Nat
    BY DEF Waits
  <1>2. Without(q, d) = a \o b
    BY DEF Without
  <1> HIDE DEF k
  <1>3. a \in Seq(Callers) /\ Len(a) = k - 1 /\ \A i \in 1..(k - 1) : a[i] = q[i]
    BY <1>1
  <1>4. /\ b \in Seq(Callers) /\ Len(b) = Len(q) - k
        /\ \A i \in 1..(Len(q) - k) : b[i] = q[k + i]
    BY <1>1
  <1> HIDE DEF a, b
  <1>5. /\ a \o b \in Seq(Callers) /\ Len(a \o b) = Len(q) - 1
        /\ \A i \in 1..(Len(q) - 1) :
             (a \o b)[i] = IF i <= Len(a) THEN a[i] ELSE b[i - Len(a)]
    <2>1. /\ a \o b \in Seq(Callers) /\ Len(a \o b) = Len(a) + Len(b)
          /\ \A i \in 1..(Len(a) + Len(b)) :
               (a \o b)[i] = IF i <= Len(a) THEN a[i] ELSE b[i - Len(a)]
      BY <1>3, <1>4, ConcatProperties
    <2>2. Len(a) + Len(b) = Len(q) - 1
      BY <1>1, <1>3, <1>4
    <2> QED
      BY <2>1, <2>2
  <1>6. \A i \in 1..(Len(q) - 1) : (a \o b)[i] = IF i < k THEN q[i] ELSE q[i + 1]
    BY <1>1, <1>3, <1>4, <1>5
  <1> QED
    BY <1>1, <1>2, <1>5, <1>6

\* Nobody else leaves the queue or changes places.
LEMMA WithoutKeeps ==
  ASSUME NEW q \in Seq(Callers), NEW d, Waits(q, d), NEW c, c # d
  PROVE  /\ Waits(q, c) <=> Waits(Without(q, d), c)
         /\ FirstOfTask(q, c) => FirstOfTask(Without(q, d), c)
  <1> DEFINE w == Without(q, d)
  <1>1. w \in Seq(Callers) /\ Len(w) = Len(q) - 1
    BY WithoutFacts
  <1>2. PICK k \in 1..Len(q) :
          /\ q[k] = d
          /\ \A i \in 1..(Len(q) - 1) : w[i] = IF i < k THEN q[i] ELSE q[i + 1]
    BY WithoutFacts
  <1> HIDE DEF w
  <1>3. DOMAIN w = 1..(Len(q) - 1) /\ DOMAIN q = 1..Len(q) /\ Len(q) \in Nat
    BY <1>1
  <1> DEFINE to(j) == IF j < k THEN j ELSE j - 1
  <1>4. \A j \in DOMAIN q : q[j] = c => to(j) \in DOMAIN w /\ w[to(j)] = c
    BY <1>2, <1>3
  <1>5. Waits(q, c) <=> Waits(w, c)
    <2>1. Waits(q, c) => Waits(w, c)
      BY <1>4 DEF Waits
    <2>2. Waits(w, c) => Waits(q, c)
      BY <1>2, <1>3 DEF Waits
    <2> QED
      BY <2>1, <2>2
  <1>6. ASSUME FirstOfTask(q, c), NEW i \in DOMAIN w, w[i] # c, TaskOf[w[i]] = TaskOf[c]
        PROVE  \E j \in DOMAIN w : w[j] = c /\ j < i
    <2>1. PICK o \in DOMAIN q : w[i] = q[o] /\ o = (IF i < k THEN i ELSE i + 1)
      BY <1>2, <1>3
    <2>2. PICK j \in DOMAIN q : q[j] = c /\ j < o
      BY <1>6, <2>1 DEF FirstOfTask
    <2>3. to(j) \in DOMAIN w /\ w[to(j)] = c
      BY <1>4, <2>2
    <2>4. to(j) < i
      BY <1>2, <1>3, <2>1, <2>2
    <2> QED
      BY <2>3, <2>4
  <1>7. FirstOfTask(q, c) => FirstOfTask(w, c)
    BY <1>6 DEF FirstOfTask
  <1> QED
    BY <1>5, <1>7 DEF w

\* A waiter that joins leaves everybody's place as it is.
LEMMA AppendKeeps ==
  ASSUME NEW q \in Seq(Callers), NEW d \in Callers, NEW c
  PROVE  /\ Append(q, d) \in Seq(Callers)
         /\ Waits(Append(q, d), d)
         /\ Waits(q, c) => Waits(Append(q, d), c)
         /\ c # d /\ Waits(Append(q, d), c) => Waits(q, c)
         /\ Waits(q, c) /\ FirstOfTask(q, c) => FirstOfTask(Append(q, d), c)
  <1>1. /\ Append(q, d) \in Seq(Callers) /\ Len(Append(q, d)) = Len(q) + 1
        /\ \A i \in 1..Len(q) : Append(q, d)[i] = q[i]
        /\ Append(q, d)[Len(q) + 1] = d /\ Len(q) \in Nat /\ DOMAIN q = 1..Len(q)
    OBVIOUS
  <1> DEFINE w == Append(q, d)
  <1>2. DOMAIN w = 1..(Len(q) + 1)
    BY <1>1
  <1> HIDE DEF w
  <1>3. Waits(w, d) /\ (Waits(q, c) => Waits(w, c)) /\ (c # d /\ Waits(w, c) => Waits(q, c))
    BY <1>1, <1>2 DEF Waits, w
  <1>4. Waits(q, c) /\ FirstOfTask(q, c) => FirstOfTask(w, c)
    BY <1>1, <1>2 DEF Waits, FirstOfTask, w
  <1> QED
    BY <1>1, <1>3, <1>4 DEF w

\* eligible, with the current task and its turns as arguments.
Pick(q, task, turns) ==
  LET others == {i \in DOMAIN q : TaskOf[q[i]] # task}
  IN IF task # NoValue /\ turns >= FairnessQuantum /\ others # {}
       THEN q[CHOOSE i \in others : \A j \in others : i <= j]
       ELSE q[1]

\* The position eligibleIndexLocked picks.
LEMMA EligibleAt ==
  ASSUME NEW q \in Seq(Callers), q # << >>, NEW task, NEW turns
  PROVE  LET others == {i \in DOMAIN q : TaskOf[q[i]] # task}
         IN \E m \in DOMAIN q :
              /\ Pick(q, task, turns) = q[m]
              /\ IF task # NoValue /\ turns >= FairnessQuantum
                      /\ others # {}
                   THEN m \in others /\ \A j \in others : m <= j
                   ELSE m = 1
  <1> DEFINE others == {i \in DOMAIN q : TaskOf[q[i]] # task}
             turn == task # NoValue /\ turns >= FairnessQuantum
                       /\ others # {}
  <1>1. DOMAIN q = 1..Len(q) /\ Len(q) \in Nat /\ 1 \in DOMAIN q
    OBVIOUS
  <1>2. CASE turn
    <2> DEFINE m == CHOOSE i \in others : \A j \in others : i <= j
    <2>1. others \subseteq Nat /\ others # {}
      BY <1>1, <1>2
    <2>2. Pick(q, task, turns) = q[m]
      BY <1>2 DEF Pick
    <2>3. m \in others /\ \A j \in others : m <= j
      <3> HIDE DEF others
      <3> QED
        BY <2>1, LeastNatural
    <2> HIDE DEF m
    <2> QED
      BY <1>2, <2>2, <2>3
  <1>3. CASE ~turn
    <2>1. Pick(q, task, turns) = q[1]
      BY <1>3 DEF Pick
    <2> QED
      BY <1>1, <1>3, <2>1
  <1> QED
    BY <1>2, <1>3

\* The waiter whose turn it is waits, and is the first of its task.
LEMMA EligibleFacts ==
  ASSUME NEW q \in Seq(Callers), q # << >>, NEW task, NEW turns
  PROVE  /\ Pick(q, task, turns) \in Callers /\ Waits(q, Pick(q, task, turns))
         /\ FirstOfTask(q, Pick(q, task, turns))
  <1> DEFINE others == {i \in DOMAIN q : TaskOf[q[i]] # task}
             turn == task # NoValue /\ turns >= FairnessQuantum
                       /\ others # {}
  <1>1. PICK m \in DOMAIN q :
          /\ Pick(q, task, turns) = q[m]
          /\ IF turn THEN m \in others /\ \A j \in others : m <= j ELSE m = 1
    BY EligibleAt
  <1>2. DOMAIN q = 1..Len(q) /\ Len(q) \in Nat
    OBVIOUS
  <1>3. q[m] \in Callers /\ Waits(q, q[m])
    BY <1>2, ElementOfSeq DEF Waits
  <1>4. ASSUME NEW i \in DOMAIN q, TaskOf[q[i]] = TaskOf[q[m]]
        PROVE  m <= i
    BY <1>1, <1>2, <1>4
  <1>5. FirstOfTask(q, q[m])
    BY <1>2, <1>4 DEF FirstOfTask
  <1> QED
    BY <1>1, <1>3, <1>5

\* A waiter that joins does not take the turn from another.
LEMMA EligibleAppend ==
  ASSUME NEW q \in Seq(Callers), NEW d \in Callers, NEW task, NEW turns
  PROVE  \/ Pick(Append(q, d), task, turns) = d
         \/ q # << >> /\ Pick(Append(q, d), task, turns) = Pick(q, task, turns)
  <1> DEFINE w == Append(q, d)
             others == {i \in DOMAIN q : TaskOf[q[i]] # task}
             more == {i \in DOMAIN w : TaskOf[w[i]] # task}
             spent == task # NoValue /\ turns >= FairnessQuantum
  <1>1. /\ w \in Seq(Callers) /\ Len(w) = Len(q) + 1
        /\ \A i \in 1..Len(q) : w[i] = q[i]
        /\ w[Len(q) + 1] = d /\ Len(q) \in Nat /\ DOMAIN q = 1..Len(q)
        /\ DOMAIN w = 1..(Len(q) + 1) /\ w # << >>
    OBVIOUS
  <1> HIDE DEF w
  <1>2. PICK n \in DOMAIN w :
          /\ Pick(w, task, turns) = w[n]
          /\ IF spent /\ more # {} THEN n \in more /\ \A j \in more : n <= j ELSE n = 1
    BY <1>1, EligibleAt
  <1>3. CASE n = Len(q) + 1
    BY <1>1, <1>2, <1>3 DEF w
  <1>4. CASE n # Len(q) + 1
    <2>1. n \in DOMAIN q /\ q # << >>
      BY <1>1, <1>4
    <2>2. PICK m \in DOMAIN q :
            /\ Pick(q, task, turns) = q[m]
            /\ IF spent /\ others # {} THEN m \in others /\ \A j \in others : m <= j
               ELSE m = 1
      BY <2>1, EligibleAt
    <2>3. others \subseteq more /\ (n \in more => n \in others)
      BY <1>1, <2>1
    <2>4. n = m
      <3>1. CASE spent /\ others # {}
        <4>1. m \in others /\ m \in more /\ more # {} /\ \A j \in others : m <= j
          BY <2>2, <2>3, <3>1
        <4>2. n \in more /\ n <= m
          BY <1>2, <3>1, <4>1
        <4>3. m <= n
          BY <2>3, <4>1, <4>2
        <4> QED
          BY <1>1, <2>1, <2>2, <4>2, <4>3
      <3>2. CASE ~(spent /\ others # {})
        <4>1. m = 1
          BY <2>2, <3>2
        <4>2. ~(spent /\ more # {})
          <5>1. spent /\ more # {} => n \in others
            BY <1>2, <2>3
          <5> QED
            BY <3>2, <5>1
        <4> QED
          BY <1>2, <4>1, <4>2
      <3> QED
        BY <3>1, <3>2
    <2>5. w[n] = q[m]
      BY <1>1, <2>1, <2>4
    <2> QED
      BY <1>2, <2>1, <2>2, <2>5 DEF w
  <1> QED
    BY <1>3, <1>4

\* The waiter whose turn it is.
Turn == Pick(queue, currentTask, consecutiveTurns)

\* Whoever has the turn on a free lane is awake, signalled or on a timer.
TurnHeld ==
  queue # << >> /\ ~inFlight =>
    (pc[Turn] = "waiting" => Turn \in woken \/ wakeAt[Turn] # 0)

\* Whoever sleeps is in the queue or signalled.
NobodyLost == \A c \in Callers : pc[c] = "waiting" => InQueue(c) \/ c \in woken

\* Only Close takes a waiter that has not given up off the queue.
QueueInv ==
  /\ queue \in Seq(Callers) /\ DOMAIN wakeAt = Callers
  /\ \A c \in Callers : pc[c] \in WaitingPCs => InQueue(c) \/ closed
  /\ TurnHeld /\ NobodyLost

\* A caller leaves, and every sleeper that stays in the queue is signalled.
LEMMA LeavingWakes ==
  ASSUME IndInv, QueueInv, NEW c \in Callers, NEW to \in PCs \ WaitingPCs,
         pc' = [pc EXCEPT ![c] = to], closed' = closed,
         wakeAt' \in {wakeAt, [wakeAt EXCEPT ![c] = 0]},
         queue' = queue \/ (InQueue(c) /\ queue' = Without(queue, c)),
         \A d \in Callers \ {c} : pc[d] = "waiting" /\ Waits(queue', d) => d \in woken',
         \A d \in Callers \ {c} : d \in woken => d \in woken'
  PROVE  QueueInv'
  <1>1. queue' \in Seq(Callers)
    BY WithoutFacts DEF QueueInv, InQueue, Waits
  <1>2. ASSUME NEW d \in Callers \ {c}, InQueue(d) PROVE Waits(queue', d)
    <2>1. CASE queue' = queue
      BY <1>2, <2>1 DEF InQueue, Waits
    <2>2. CASE InQueue(c) /\ queue' = Without(queue, c)
      <3>1. queue \in Seq(Callers) /\ Waits(queue, c) /\ Waits(queue, d) /\ d # c
        BY <1>2, <2>2 DEF QueueInv, InQueue, Waits
      <3> QED
        BY <2>2, <3>1, WithoutKeeps
    <2> QED
      BY <2>1, <2>2
  <1>3. pc'[c] \notin WaitingPCs /\ \A d \in Callers \ {c} : pc'[d] = pc[d]
    BY DEF IndInv, CallerTypes
  <1>4. \A d \in Callers : pc'[d] \in WaitingPCs => Waits(queue', d) \/ closed'
    BY <1>2, <1>3 DEF QueueInv
  <1>5. ASSUME NEW d \in Callers, pc'[d] = "waiting"
        PROVE  d # c /\ pc[d] = "waiting"
    BY <1>3, <1>5 DEF WaitingPCs
  <1>6. TurnHeld'
    <2> SUFFICES ASSUME (queue # << >>)', (pc[Turn] = "waiting")' PROVE (Turn \in woken)'
      BY DEF TurnHeld
    <2>1. Turn' \in Callers /\ Waits(queue', Turn')
      BY <1>1, EligibleFacts DEF Turn
    <2> QED
      BY <1>5, <2>1
  <1>7. NobodyLost'
    BY <1>2, <1>5 DEF NobodyLost, QueueInv
  <1>8. DOMAIN wakeAt' = Callers
    BY DEF QueueInv
  <1> QED
    BY <1>1, <1>4, <1>6, <1>7, <1>8 DEF QueueInv, InQueue, Waits

\* A caller moves without falling asleep while the queue stays as it is.
LEMMA MovingKeepsTurn ==
  ASSUME IndInv, QueueInv, NEW c \in Callers, NEW to \in PCs \ {"waiting"},
         pc' = [pc EXCEPT ![c] = to], closed' = closed, queue' = queue,
         to \in WaitingPCs => pc[c] \in WaitingPCs,
         wakeAt' \in {wakeAt, [wakeAt EXCEPT ![c] = 0]},
         \A d \in Callers \ {c} : d \in woken => d \in woken',
         inFlight' \/ (~inFlight /\ UNCHANGED <<currentTask, consecutiveTurns>>)
  PROVE  QueueInv'
  <1>1. pc'[c] = to /\ \A d \in Callers \ {c} : pc'[d] = pc[d]
    BY DEF IndInv, CallerTypes
  <1>2. \A d \in Callers \ {c} : wakeAt'[d] = wakeAt[d]
    BY DEF QueueInv
  <1>3. \A d \in Callers : pc'[d] \in WaitingPCs => InQueue(d) \/ closed
    BY <1>1 DEF QueueInv
  <1>4. TurnHeld'
    <2> SUFFICES ASSUME (queue # << >>)', ~inFlight', (pc[Turn] = "waiting")'
                 PROVE  (Turn \in woken \/ wakeAt[Turn] # 0)'
      BY DEF TurnHeld
    <2>1. Turn \in Callers
      BY EligibleFacts DEF Turn, QueueInv
    <2>2. Turn' = Turn
      BY DEF Turn
    <2> QED
      BY <1>1, <1>2, <2>1, <2>2 DEF QueueInv, TurnHeld
  <1>5. NobodyLost'
    BY <1>1 DEF QueueInv, NobodyLost, InQueue
  <1>6. DOMAIN wakeAt' = Callers
    BY DEF QueueInv
  <1> QED
    BY <1>3, <1>4, <1>5, <1>6 DEF QueueInv, InQueue

\* The next slot of an exhausted window is a time after the zero time.
LEMMA NextSlotIsLater ==
  ASSUME NEW led \in Seq(Nat), NEW t \in Nat, ExhaustedWindows(led, t) # {}
  PROVE  nextSlot(led, t) \in Nat \ {0}
  <1> DEFINE full == ExhaustedWindows(led, t)
             first == CHOOSE w \in full : \A v \in full : w <= v
             span == Windows[first].span
             within == {i \in DOMAIN led : led[i] > t - span}
             oldest == CHOOSE i \in DOMAIN led :
                         /\ led[i] > t - span
                         /\ \A j \in DOMAIN led : led[j] > t - span => i <= j
  <1>1. Windows \in Seq([span : Nat \ {0}, ceiling : Nat \ {0}])
    BY WindowsAssumption
  <1>2. full \subseteq Nat /\ full # {}
    <2>1. DOMAIN Windows \subseteq Nat
      BY <1>1
    <2> QED
      BY <2>1 DEF ExhaustedWindows
  <1>3. first \in full
    <2> HIDE DEF full
    <2> QED
      BY <1>2, LeastNatural
  <1>4. first \in DOMAIN Windows /\ ledgerCount(led, t, span) >= Windows[first].ceiling
    BY <1>3 DEF ExhaustedWindows
  <1> HIDE DEF full, first
  <1>5. Windows[first] \in [span : Nat \ {0}, ceiling : Nat \ {0}]
    <2>1. first \in 1..Len(Windows)
      BY <1>1, <1>4
    <2> QED
      BY <1>1, <2>1, ElementOfSeq
  <1>6. span \in Nat \ {0} /\ Windows[first].ceiling \in Nat \ {0}
    BY <1>5
  <1> HIDE DEF span
  <1>7. within # {} /\ within \subseteq Nat
    <2>1. within \subseteq Nat
      BY Positions
    <2>2. ~(Cardinality(within) = 0)
      BY <1>4, <1>6 DEF ledgerCount
    <2> QED
      BY <2>1, <2>2, FS_EmptySet
  <1>8. PICK i \in within : \A j \in within : i <= j
    BY <1>7, LeastNatural
  <1>9. oldest \in DOMAIN led
    BY <1>8
  <1>10. led[oldest] \in Nat
    BY <1>9, Positions, ElementOfSeq
  <1>11. nextSlot(led, t) = led[oldest] + span
    BY DEF nextSlot, full, first, span
  <1> HIDE DEF oldest
  <1> QED
    BY <1>6, <1>10, <1>11

\* On a free lane a delay names its deadline.
LEMMA DelayNamesDeadline ==
  ASSUME IndInv, ~inFlight, NEW t \in Nat, NEW c, NEW p \in ProtectionType,
         NEW led \in Seq(Nat), check(t, c, p, led).verdict = "delay"
  PROVE  check(t, c, p, led).until # 0
  <1>1. /\ p.openUntil \in Nat /\ p.telemetryCooldown \in Nat
        /\ p.cooldownUntil \in Nat /\ p.resetAt \in Nat
    BY DEF ProtectionType, Times
  <1>2. checkProtection(t, p).verdict = "delay" => checkProtection(t, p).until # 0
    BY <1>1 DEF checkProtection, Delay, Reject, Grant
  <1>3. checkUsage(t, c, led).verdict = "delay" => checkUsage(t, c, led).until # 0
    <2>1. ExhaustedWindows(led, t) # {} => nextSlot(led, t) # 0
      BY NextSlotIsLater
    <2>2. lastStart # 0 => lastStart + MinimumStartInterval # 0
      BY GovernorAssumption DEF IndInv, CallerTypes
    <2> QED
      BY <2>1, <2>2 DEF checkUsage, Delay, Reject, Grant
  <1> QED
    BY <1>2, <1>3 DEF check

\* A waiter falls asleep: it has not the turn, or the lane is taken, or it has a
\* deadline.
LEMMA SleepingKeepsTurn ==
  ASSUME IndInv, QueueInv, NEW c \in Callers, InQueue(c), NEW u,
         pc' = [pc EXCEPT ![c] = "waiting"],
         wakeAt' \in {wakeAt, [wakeAt EXCEPT ![c] = u]},
         UNCHANGED <<closed, queue, woken, inFlight, currentTask, consecutiveTurns>>,
         inFlight \/ Turn # c \/ wakeAt'[c] # 0
  PROVE  QueueInv'
  <1>1. pc'[c] = "waiting" /\ \A d \in Callers \ {c} : pc'[d] = pc[d]
    BY DEF IndInv, CallerTypes
  <1>2. DOMAIN wakeAt' = Callers /\ \A d \in Callers \ {c} : wakeAt'[d] = wakeAt[d]
    BY DEF QueueInv
  <1>3. \A d \in Callers : pc'[d] \in WaitingPCs => InQueue(d) \/ closed
    BY <1>1 DEF QueueInv
  <1>4. TurnHeld'
    <2> SUFFICES ASSUME (queue # << >>)', ~inFlight', (pc[Turn] = "waiting")'
                 PROVE  (Turn \in woken \/ wakeAt[Turn] # 0)'
      BY DEF TurnHeld
    <2>1. Turn \in Callers
      BY EligibleFacts DEF Turn, QueueInv
    <2>2. Turn' = Turn
      BY DEF Turn
    <2> QED
      BY <1>1, <1>2, <2>1, <2>2 DEF QueueInv, TurnHeld
  <1>5. NobodyLost'
    BY <1>1 DEF QueueInv, NobodyLost, InQueue
  <1> QED
    BY <1>2, <1>3, <1>4, <1>5 DEF QueueInv, InQueue

\* removeWaiterLocked and the end of its caller.
LEMMA RemovalWakes ==
  ASSUME IndInv, QueueInv, NEW c \in Callers, NEW code, removeWaiter(c), Finished(c, code),
         UNCHANGED <<closed, wakeAt, inFlight, currentTask, consecutiveTurns>>
  PROVE  QueueInv'
  <1>0. "done" \in PCs \ WaitingPCs /\ "done" \in PCs \ {"waiting"}
        /\ pc' = [pc EXCEPT ![c] = "done"]
    BY DEF PCs, WaitingPCs, Finished
  <1>1. CASE InQueue(c)
    <2>1. queue' = Without(queue, c)
          /\ woken' = woken \cup {d \in Callers : pc[d] = "waiting" /\ Waits(queue', d)}
      BY <1>1 DEF removeWaiter, signalAll, Waits
    <2> QED
      BY <1>0, <1>1, <2>1, LeavingWakes
  <1>2. CASE ~InQueue(c)
    <2>1. UNCHANGED <<queue, woken>>
      BY <1>2 DEF removeWaiter
    <2>2. inFlight' \/ (~inFlight /\ UNCHANGED <<currentTask, consecutiveTurns>>)
      BY DEF IndInv, CallerTypes
    <2> QED
      BY <1>0, <2>1, <2>2, MovingKeepsTurn DEF WaitingPCs
  <1> QED
    BY <1>1, <1>2

\* A caller that gives up, or is refused, before it queued.
LEMMA QuietEnd ==
  ASSUME IndInv, QueueInv, NEW c \in Callers, NEW code, Finished(c, code),
         UNCHANGED <<closed, wakeAt, queue, woken, inFlight, currentTask, consecutiveTurns>>
  PROVE  QueueInv'
  <1>0. "done" \notin WaitingPCs /\ "done" \in PCs \ {"waiting"}
        /\ pc' = [pc EXCEPT ![c] = "done"]
    BY DEF PCs, WaitingPCs, Finished
  <1>1. inFlight' \/ (~inFlight /\ UNCHANGED <<currentTask, consecutiveTurns>>)
    BY DEF IndInv, CallerTypes
  <1> QED
    BY <1>0, <1>1, MovingKeepsTurn

\* A waiter joins.
LEMMA EnqueueKeepsTurn ==
  ASSUME IndInv, QueueInv, NEW c \in Callers, Enqueue(c)
  PROVE  QueueInv'
  <1>1. CASE Finished(c, refusal(c)) /\ UNCHANGED <<queue, requestIDs>>
    BY <1>1, QuietEnd DEF Enqueue
  <1>2. CASE queue' = Append(queue, c) /\ pc' = [pc EXCEPT ![c] = "queued"]
    <2>0. UNCHANGED <<wakeAt, woken, inFlight, currentTask, consecutiveTurns, closed>>
      BY DEF Enqueue
    <2>1. pc'[c] = "queued" /\ \A d \in Callers \ {c} : pc'[d] = pc[d]
      BY <1>2 DEF IndInv, CallerTypes
    <2>2. queue \in Seq(Callers)
      BY DEF QueueInv
    <2>3. /\ queue' \in Seq(Callers) /\ Waits(queue', c)
          /\ \A d \in Callers : InQueue(d) => Waits(queue', d)
      BY <1>2, <2>2, AppendKeeps DEF InQueue, Waits
    <2>4. \A d \in Callers : pc'[d] \in WaitingPCs => Waits(queue', d) \/ closed
      BY <2>1, <2>3 DEF QueueInv
    <2>5. TurnHeld'
      <3> SUFFICES ASSUME (queue # << >>)', ~inFlight', (pc[Turn] = "waiting")'
                   PROVE  (Turn \in woken \/ wakeAt[Turn] # 0)'
        BY DEF TurnHeld
      <3>1. Turn' = c \/ (queue # << >> /\ Turn' = Turn)
        BY <1>2, <2>0, <2>2, EligibleAppend DEF Turn
      <3>2. Turn' = Turn /\ queue # << >> /\ Turn # c
        BY <2>1, <3>1
      <3>3. Turn \in Callers
        BY <2>2, <3>2, EligibleFacts DEF Turn
      <3> QED
        BY <2>0, <2>1, <3>2, <3>3 DEF QueueInv, TurnHeld
    <2>6. NobodyLost'
      BY <2>0, <2>1, <2>3 DEF QueueInv, NobodyLost, InQueue, Waits
    <2> QED
      BY <2>0, <2>3, <2>4, <2>5, <2>6 DEF QueueInv, InQueue, Waits
  <1> QED
    BY <1>1, <1>2 DEF Enqueue

\* The head of queueAdmit's loop: only a waiter without the turn sleeps.
LEMMA ReconsiderKeepsTurn ==
  ASSUME IndInv, QueueInv, NEW c \in Callers, Reconsider(c)
  PROVE  QueueInv'
  <1>0. UNCHANGED <<closed, wakeAt, inFlight, currentTask, consecutiveTurns>>
        /\ pc[c] = "queued"
    BY DEF Reconsider
  <1>1. CASE removeWaiter(c) /\ Finished(c, "context_cancelled")
    BY <1>0, <1>1, RemovalWakes
  <1>2. CASE Finished(c, "governor_closed") /\ UNCHANGED <<queue, woken>>
    BY <1>0, <1>2, QuietEnd
  <1>3. CASE /\ ~closed /\ UNCHANGED <<queue, woken>>
             /\ pc' = [pc EXCEPT ![c] =
                         IF eligible(queue) = c THEN "reading" ELSE "waiting"]
    <2>1. InQueue(c)
      BY <1>0, <1>3 DEF QueueInv, WaitingPCs
    <2>2. eligible(queue) = Turn
      BY DEF eligible, Pick, Turn
    <2>3. CASE Turn = c
      <3>1. pc' = [pc EXCEPT ![c] = "reading"] /\ "reading" \in PCs \ {"waiting"}
            /\ pc[c] \in WaitingPCs
        BY <1>0, <1>3, <2>2, <2>3 DEF PCs, WaitingPCs
      <3>2. inFlight' \/ (~inFlight /\ UNCHANGED <<currentTask, consecutiveTurns>>)
        BY <1>0 DEF IndInv, CallerTypes
      <3> QED
        BY <1>0, <1>3, <3>1, <3>2, MovingKeepsTurn
    <2>4. CASE Turn # c
      <3>1. pc' = [pc EXCEPT ![c] = "waiting"]
        BY <1>3, <2>2, <2>4
      <3> QED
        BY <1>0, <1>3, <2>1, <2>4, <3>1, SleepingKeepsTurn
    <2> QED
      BY <2>3, <2>4
  <1> QED
    BY <1>1, <1>2, <1>3 DEF Reconsider

\* A sleeper whose context ended signals those that stay.
LEMMA AbandonKeepsTurn ==
  ASSUME IndInv, QueueInv, NEW c \in Callers, AbandonWait(c)
  PROVE  QueueInv'
  <1>0. /\ UNCHANGED <<closed, inFlight, currentTask, consecutiveTurns>>
        /\ wakeAt' = [wakeAt EXCEPT ![c] = 0] /\ pc' = [pc EXCEPT ![c] = "done"]
        /\ "done" \in PCs \ WaitingPCs /\ "done" \in PCs \ {"waiting"}
    BY DEF AbandonWait, Finished, PCs, WaitingPCs
  <1>1. CASE InQueue(c)
    <2>1. /\ queue' = Without(queue, c)
          /\ woken' = (woken \cup {d \in Callers : pc[d] = "waiting" /\ InQueue(d)}) \ {c}
      BY <1>1 DEF AbandonWait
    <2>2. \A d \in Callers \ {c} : Waits(queue', d) => InQueue(d)
      <3>1. queue \in Seq(Callers) /\ Waits(queue, c)
        BY <1>1 DEF QueueInv, InQueue, Waits
      <3>2. \A d \in Callers \ {c} : Waits(queue', d) => Waits(queue, d)
        BY <2>1, <3>1, WithoutKeeps
      <3> QED
        BY <3>2 DEF InQueue, Waits
    <2> QED
      BY <1>0, <1>1, <2>1, <2>2, LeavingWakes
  <1>2. CASE ~InQueue(c)
    <2>1. queue' = queue /\ woken' = woken \ {c}
      BY <1>2 DEF AbandonWait
    <2>2. inFlight' \/ (~inFlight /\ UNCHANGED <<currentTask, consecutiveTurns>>)
      BY <1>0 DEF IndInv, CallerTypes
    <2> QED
      BY <1>0, <2>1, <2>2, MovingKeepsTurn
  <1> QED
    BY <1>1, <1>2

\* The decision: leave, take the lane, or sleep towards a deadline.
LEMMA DecideKeepsTurn ==
  ASSUME IndInv, ProtectionInv, UsageInv, QueueInv, NEW c \in Callers, Decide(c)
  PROVE  QueueInv'
  <1> DEFINE t == seen[c].at
             p == expireProtection(applyTelemetry(protection, seen[c].snapshot, t), t)
             led == expireLedger(ledger, t)
             verdict == check(t, c, p, led)
  <1>0. UNCHANGED <<closed, currentTask, consecutiveTurns>> /\ pc[c] = "deciding"
    BY DEF Decide
  <1>1. ~inFlight /\ verdict.verdict = "delay" => verdict.until # 0
    <2>1. t \in Nat /\ seen[c].snapshot \in SnapshotType \cup {NoValue}
          /\ protection \in ProtectionType
      BY DEF IndInv, CallerTypes, ProtectionInv, SeenType
    <2>2. p \in ProtectionType
      BY <2>1, ConsultKeeps
    <2>3. led \in Seq(Nat)
      BY <2>1, ExpireAbove DEF UsageInv
    <2> HIDE DEF t, p, led
    <2> QED
      BY <2>1, <2>2, <2>3, DelayNamesDeadline
  <1> HIDE DEF verdict
  <1>2. CASE Finished(c, "governor_closed") /\ UNCHANGED <<queue, woken, wakeAt, inFlight>>
    BY <1>0, <1>2, QuietEnd
  <1>3. CASE removeWaiter(c) /\ Finished(c, "context_cancelled")
             /\ UNCHANGED <<wakeAt, inFlight>>
    BY <1>0, <1>3, RemovalWakes
  <1>4. CASE removeWaiter(c) /\ Finished(c, verdict.code) /\ UNCHANGED <<wakeAt, inFlight>>
    BY <1>0, <1>4, RemovalWakes
  <1>5. CASE /\ InQueue(c) /\ verdict.verdict = "delay"
             /\ wakeAt' = [wakeAt EXCEPT ![c] = verdict.until]
             /\ pc' = [pc EXCEPT ![c] = "waiting"]
             /\ UNCHANGED <<queue, woken, inFlight>>
    <2>1. wakeAt'[c] = verdict.until
      BY <1>5 DEF QueueInv
    <2> QED
      BY <1>0, <1>1, <1>5, <2>1, SleepingKeepsTurn
  <1>6. CASE /\ InQueue(c) /\ queue' = Without(queue, c) /\ signalAll(Without(queue, c))
             /\ Granted(c) /\ UNCHANGED wakeAt
    <2>1. /\ pc' = [pc EXCEPT ![c] = "granted"] /\ "granted" \in PCs \ WaitingPCs
          /\ woken' = woken \cup {d \in Callers : pc[d] = "waiting" /\ Waits(queue', d)}
      BY <1>6 DEF Granted, PCs, WaitingPCs, signalAll, Waits
    <2> QED
      BY <1>0, <1>6, <2>1, LeavingWakes
  <1> QED
    BY <1>2, <1>3, <1>4, <1>5, <1>6 DEF Decide, verdict

\* Turns after a step of admission.
LEMMA AdmissionKeepsTurn ==
  ASSUME IndInv, ProtectionInv, UsageInv, QueueInv, NEW c \in Callers,
         \/ Enqueue(c) \/ Reconsider(c) \/ Wake(c) \/ AbandonWait(c)
         \/ ReadTelemetry(c) \/ Decide(c) \/ TryBegin(c) \/ TryDecide(c)
  PROVE  QueueInv'
  <1>0. inFlight \in BOOLEAN
    BY DEF IndInv, CallerTypes
  <1>1. CASE Wake(c)
    BY <1>0, <1>1, MovingKeepsTurn DEF Wake, laneVars, PCs, WaitingPCs
  <1>2. CASE ReadTelemetry(c)
    <2>1. PICK to \in {"deciding", "tryDeciding"} :
            pc' = [pc EXCEPT ![c] = to] /\ (to = "deciding" => pc[c] = "reading")
      BY <1>2 DEF ReadTelemetry, IndInv, CallerTypes
    <2>2. to \in PCs \ {"waiting"} /\ (to \in WaitingPCs => pc[c] \in WaitingPCs)
      BY <2>1 DEF PCs, WaitingPCs
    <2>3. UNCHANGED <<closed, queue, woken, wakeAt, inFlight, currentTask, consecutiveTurns>>
      BY <1>2 DEF ReadTelemetry, laneVars
    <2> QED
      BY <1>0, <2>1, <2>2, <2>3, MovingKeepsTurn
  <1>3. CASE TryBegin(c) \/ TryDecide(c)
    <2>1. PICK to \in {"done", "tryReading", "granted"} : pc' = [pc EXCEPT ![c] = to]
      BY <1>3 DEF TryBegin, TryDecide, Finished, Granted
    <2>2. to \in PCs \ {"waiting"} /\ to \notin WaitingPCs
      BY <2>1 DEF PCs, WaitingPCs
    <2>3. /\ UNCHANGED <<closed, queue, woken, wakeAt, currentTask, consecutiveTurns>>
          /\ inFlight' \in {inFlight, TRUE}
      BY <1>3 DEF TryBegin, TryDecide, Granted, laneVars
    <2> QED
      BY <1>0, <2>1, <2>2, <2>3, MovingKeepsTurn
  <1> QED
    BY <1>1, <1>2, <1>3, EnqueueKeepsTurn, ReconsiderKeepsTurn, AbandonKeepsTurn,
       DecideKeepsTurn

\* Turns after a step of the permit: every release signals the queue.
LEMMA PermitKeepsTurn ==
  ASSUME IndInv, QueueInv, NEW c \in Callers,
         \/ CancelBeforeStart(c) \/ Start(c) \/ CancelAfterStart(c)
         \/ Finish(c) \/ FinishWithAttemptReceipts(c) \/ FinishReceiptFailure(c)
  PROVE  QueueInv'
  <1>1. CASE Start(c)
    <2>1. /\ pc' = [pc EXCEPT ![c] = "started"] /\ pc[c] = "granted"
          /\ UNCHANGED <<closed, queue, woken, wakeAt, inFlight>>
      BY <1>1 DEF Start
    <2>2. inFlight'
      BY <2>1 DEF IndInv, SingleLane, Holders
    <2>3. "started" \in PCs \ {"waiting"} /\ "started" \notin WaitingPCs
      BY DEF PCs, WaitingPCs
    <2> QED
      BY <2>1, <2>2, <2>3, MovingKeepsTurn
  <1>2. CASE ~Start(c)
    <2>1. /\ UNCHANGED <<closed, queue, wakeAt>> /\ signalAll(queue)
          /\ pc' = [pc EXCEPT ![c] = "done"]
      BY <1>2 DEF CancelBeforeStart, CancelAfterStart, Finish,
         FinishWithAttemptReceipts, FinishReceiptFailure, releaseLane, Finished
    <2>2. "done" \in PCs \ WaitingPCs
      BY DEF PCs, WaitingPCs
    <2>3. woken' = woken \cup {d \in Callers : pc[d] = "waiting" /\ Waits(queue', d)}
      BY <2>1 DEF signalAll, Waits
    <2> QED
      BY <2>1, <2>2, <2>3, LeavingWakes
  <1> QED
    BY <1>1, <1>2

\* Close signals the whole queue before it empties it.
LEMMA EnvironmentKeepsTurn ==
  ASSUME IndInv, QueueInv, UNCHANGED vars \/ Operator \/ Tick
  PROVE  QueueInv'
  <1>1. CASE Close
    <2>1. /\ closed' /\ queue' = << >> /\ UNCHANGED <<pc, wakeAt>>
          /\ woken' = woken \cup {d \in Callers : pc[d] = "waiting" /\ InQueue(d)}
      BY <1>1 DEF Close, signalAll, InQueue
    <2>2. queue' \in Seq(Callers)
      BY <2>1
    <2>3. TurnHeld'
      BY <2>1 DEF TurnHeld
    <2>4. NobodyLost'
      BY <2>1 DEF NobodyLost, QueueInv
    <2> QED
      BY <2>1, <2>2, <2>3, <2>4 DEF QueueInv
  <1>2. CASE ~Close
    <2>1. UNCHANGED <<pc, wakeAt, woken, queue, inFlight, currentTask, consecutiveTurns,
                      closed>>
      BY <1>2 DEF Operator, Tick, BeginCredentialRefresh, FinishCredentialRefresh,
         AcknowledgeHuman, CancelContext, vars, callerVars, laneVars
    <2> QED
      BY <2>1 DEF QueueInv, TurnHeld, NobodyLost, Turn, InQueue
  <1> QED
    BY <1>1, <1>2

\* The queue at the start.
LEMMA QueueInit == Init => QueueInv
  <1> SUFFICES ASSUME Init PROVE QueueInv
    OBVIOUS
  <1>0. << >> \in Seq(Callers)
    OBVIOUS
  <1>1. queue = << >> /\ queue \in Seq(Callers)
    BY <1>0 DEF Init
  <1>2. DOMAIN wakeAt = Callers /\ \A c \in Callers : pc[c] = "idle"
    BY DEF Init
  <1> QED
    BY <1>1, <1>2 DEF QueueInv, TurnHeld, NobodyLost, WaitingPCs

\* The queue invariant is inductive.
LEMMA QueueKept ==
  IndInv /\ ProtectionInv /\ UsageInv /\ QueueInv /\ [Next]_vars => QueueInv'
  <1> SUFFICES ASSUME IndInv, ProtectionInv, UsageInv, QueueInv, [Next]_vars
               PROVE  QueueInv'
    OBVIOUS
  <1>1. CASE UNCHANGED vars \/ Operator \/ Tick
    BY <1>1, EnvironmentKeepsTurn
  <1>2. ASSUME NEW c \in Callers, Run(c) PROVE QueueInv'
    BY <1>2, AdmissionKeepsTurn, PermitKeepsTurn DEF Run
  <1> QED
    BY <1>1, <1>2 DEF Next

\* No wake-up is lost: with the lane free the waiter whose turn it is runs, has
\* been signalled or sleeps towards a deadline, and a waiter Close took off the
\* queue has been signalled.
THEOREM TurnIsTakenHolds == Spec => []TurnIsTaken
  <1>1. QueueInv => TurnIsTaken
    <2>1. eligible(queue) = Turn
      BY DEF eligible, Pick, Turn
    <2> QED
      BY <2>1 DEF QueueInv, TurnHeld, NobodyLost, TurnIsTaken
  <1> QED
    BY <1>1, InitInv, StepInv, ProtectionInit, ProtectionStep, UsageInit, UsageKept,
       QueueInit, QueueKept, PTL DEF Spec

-----------------------------------------------------------------------------
(* The order of the queue.                                                  *)

\* A waiter that goes to decide has nobody of its own task ahead of it.
OrderInv ==
  \A c \in Callers :
    pc[c] \in {"reading", "deciding"} /\ InQueue(c) => FirstOfTask(queue, c)

\* How a step changes the queue.
LEMMA QueueChanges ==
  ASSUME IndInv, [Next]_vars
  PROVE  \/ UNCHANGED queue
         \/ queue' = << >>
         \/ \E e \in Callers : pc[e] = "idle" /\ queue' = Append(queue, e)
                               /\ pc'[e] = "queued"
         \/ \E e \in Callers : InQueue(e) /\ queue' = Without(queue, e)
                               /\ pc'[e] \notin {"reading", "deciding"}
  <1>1. CASE UNCHANGED vars \/ Operator \/ Tick
    BY <1>1 DEF vars, laneVars, Operator, Tick, BeginCredentialRefresh,
       FinishCredentialRefresh, AcknowledgeHuman, CancelContext, Close
  <1>2. ASSUME NEW c \in Callers, Run(c)
        PROVE  \/ UNCHANGED queue
               \/ pc[c] = "idle" /\ queue' = Append(queue, c) /\ pc'[c] = "queued"
               \/ InQueue(c) /\ queue' = Without(queue, c)
                  /\ pc'[c] \notin {"reading", "deciding"}
    <2>1. CASE Enqueue(c)
      BY <2>1 DEF Enqueue, IndInv, CallerTypes
    <2>2. CASE Reconsider(c) \/ AbandonWait(c)
      BY <2>2 DEF Reconsider, AbandonWait, removeWaiter, Finished, IndInv, CallerTypes
    <2>3. CASE Decide(c)
      <3>1. UNCHANGED queue \/ (InQueue(c) /\ queue' = Without(queue, c))
        BY <2>3 DEF Decide, removeWaiter
      <3>2. \/ UNCHANGED queue
            \/ pc' = [pc EXCEPT ![c] = "done"] \/ pc' = [pc EXCEPT ![c] = "granted"]
        BY <2>3 DEF Decide, Finished, Granted
      <3> QED
        BY <3>1, <3>2 DEF IndInv, CallerTypes
    <2>4. CASE ~(Enqueue(c) \/ Reconsider(c) \/ AbandonWait(c) \/ Decide(c))
      BY <1>2, <2>4 DEF Run, Wake, ReadTelemetry, TryBegin, TryDecide,
         CancelBeforeStart, Start, CancelAfterStart, Finish,
         FinishWithAttemptReceipts, FinishReceiptFailure, laneVars
    <2> QED
      BY <2>1, <2>2, <2>3, <2>4
  <1> QED
    BY <1>1, <1>2 DEF Next

\* Who goes to read telemetry has the turn.
LEMMA ReadingHasTurn ==
  ASSUME IndInv, [Next]_vars, NEW c \in Callers,
         pc'[c] \in {"reading", "deciding"}, pc[c] \notin {"reading", "deciding"}
  PROVE  eligible(queue) = c /\ UNCHANGED queue
  <1>1. ~UNCHANGED pc
    OBVIOUS
  <1>2. PICK d \in Callers : Run(d)
    BY <1>1, EnvironmentMoves DEF Next, vars, callerVars
  <1>3. CallerMove(d)
    BY <1>2, AdmissionMoves, PermitMoves DEF Run
  <1>4. d = c
    BY <1>3 DEF CallerMove, Wanders, Queues, TurnedAway, TakesLane, FreesLane, Calls,
       IndInv, CallerTypes
  <1>5. Reconsider(c)
    BY <1>2, <1>4 DEF Run, Enqueue, Wake, AbandonWait, ReadTelemetry,
       Decide, TryBegin, TryDecide, CancelBeforeStart, Start, CancelAfterStart, Finish,
       FinishWithAttemptReceipts, FinishReceiptFailure, releaseLane, Finished, Granted,
       IndInv, CallerTypes
  <1> QED
    BY <1>5 DEF Reconsider, Finished, IndInv, CallerTypes

\* The order invariant is inductive.
LEMMA OrderStep == IndInv /\ QueueInv /\ OrderInv /\ [Next]_vars => OrderInv'
  <1> SUFFICES ASSUME IndInv, QueueInv, OrderInv, [Next]_vars,
                      NEW c \in Callers, pc'[c] \in {"reading", "deciding"},
                      Waits(queue', c)
               PROVE  FirstOfTask(queue', c)
    BY DEF OrderInv, InQueue, Waits, FirstOfTask
  <1>0. queue \in Seq(Callers)
    BY DEF QueueInv
  <1>1. CASE pc[c] \notin {"reading", "deciding"}
    <2>1. eligible(queue) = c /\ queue' = queue
      BY <1>1, ReadingHasTurn
    <2>2. queue # << >>
      BY <2>1 DEF Waits
    <2>3. Pick(queue, currentTask, consecutiveTurns) = c
      BY <2>1 DEF eligible, Pick
    <2> QED
      BY <1>0, <2>1, <2>2, <2>3, EligibleFacts
  <1>2. CASE pc[c] \in {"reading", "deciding"}
    <2>1. Waits(queue, c) => FirstOfTask(queue, c)
      BY <1>2 DEF OrderInv, InQueue, Waits
    <2>2. CASE UNCHANGED queue
      BY <2>1, <2>2
    <2>3. CASE queue' = << >>
      BY <2>3 DEF Waits
    <2>4. ASSUME NEW e \in Callers, pc[e] = "idle", queue' = Append(queue, e)
          PROVE  FirstOfTask(queue', c)
      <3>1. c # e
        BY <1>2, <2>4
      <3> QED
        BY <1>0, <2>1, <2>4, <3>1, AppendKeeps
    <2>5. ASSUME NEW e \in Callers, InQueue(e), queue' = Without(queue, e),
                 pc'[e] \notin {"reading", "deciding"}
          PROVE  FirstOfTask(queue', c)
      <3>1. c # e /\ Waits(queue, e)
        BY <2>5 DEF InQueue, Waits
      <3> QED
        BY <1>0, <2>1, <2>5, <3>1, WithoutKeeps
    <2> QED
      BY <2>2, <2>3, <2>4, <2>5, QueueChanges
  <1> QED
    BY <1>1, <1>2

\* A grant finds nobody of the caller's task ahead of it.
LEMMA GrantInOrder ==
  ASSUME IndInv, OrderInv, [Next]_vars, NEW c \in Callers, Grants(c)
  PROVE  FirstOfTask(queue, c)
  <1>1. ~UNCHANGED pc
    BY DEF Grants
  <1>2. PICK d \in Callers : Run(d)
    BY <1>1, EnvironmentMoves DEF Next, vars, callerVars
  <1>3. CallerMove(d)
    BY <1>2, AdmissionMoves, PermitMoves DEF Run
  <1>4. d = c
    BY <1>3 DEF CallerMove, Wanders, Queues, TurnedAway, TakesLane, FreesLane, Calls,
       Grants, IndInv, CallerTypes
  <1>5. CASE TryDecide(c)
    <2>1. tryRefusal(c) = ""
      BY <1>5 DEF TryDecide, Finished, Grants, IndInv, CallerTypes
    <2>2. queue = << >>
      BY <2>1 DEF tryRefusal
    <2> QED
      BY <2>2 DEF FirstOfTask
  <1>6. CASE Decide(c)
    <2>1. InQueue(c) /\ pc[c] = "deciding"
      <3>1. ~(pc' = [pc EXCEPT ![c] = "done"])
        BY DEF Grants, IndInv, CallerTypes
      <3> QED
        BY <1>6, <3>1 DEF Decide, Finished
    <2> QED
      BY <2>1 DEF OrderInv
  <1>7. CASE ~TryDecide(c) /\ ~Decide(c)
    BY <1>2, <1>4, <1>7 DEF Run, Enqueue, Reconsider, Wake, AbandonWait, ReadTelemetry,
       TryBegin, CancelBeforeStart, Start, CancelAfterStart, Finish,
       FinishWithAttemptReceipts, FinishReceiptFailure, releaseLane, Finished,
       Grants, IndInv, CallerTypes
  <1> QED
    BY <1>5, <1>6, <1>7

\* First come, first served within a task, and TryAdmit never passes a waiter:
\* the turn taken before the telemetry read is still in order when it is used.
THEOREM NoOvertakingHolds == Spec => NoOvertaking
  <1>1. Init => OrderInv
    BY DEF Init, OrderInv
  <1>2. Spec => [](IndInv /\ QueueInv /\ OrderInv)
    BY <1>1, InitInv, StepInv, ProtectionInit, ProtectionStep, UsageInit, UsageKept,
       QueueInit, QueueKept, OrderStep, PTL DEF Spec
  <1>3. IndInv /\ OrderInv /\ [Next]_vars =>
          [\A c \in Callers : Grants(c) =>
             \A i \in DOMAIN queue :
               \/ queue[i] = c
               \/ \E j \in DOMAIN queue : queue[j] = c /\ j < i
               \/ TaskOf[queue[i]] # TaskOf[c]]_vars
    BY GrantInOrder DEF FirstOfTask
  <1> QED
    BY <1>2, <1>3, PTL DEF Spec, NoOvertaking

-----------------------------------------------------------------------------
(* Types.                                                                   *)

\* The types the invariants above leave open.
OtherTypes ==
  /\ result \in [Callers -> Results]
  /\ cancelled \subseteq Callers /\ woken \subseteq Callers
  /\ wakeAt \in [Callers -> Nat]
  /\ currentTask \in Tasks \cup {NoValue} /\ consecutiveTurns \in Nat
  /\ attemptIDs \subseteq Nat /\ closed \in BOOLEAN

\* A verdict's deadline is a time.
LEMMA UntilIsTime ==
  ASSUME IndInv, NEW t \in Nat, NEW c, NEW p \in ProtectionType, NEW led \in Seq(Nat)
  PROVE  check(t, c, p, led).until \in Nat
  <1>1. /\ p.openUntil \in Nat /\ p.telemetryCooldown \in Nat
        /\ p.cooldownUntil \in Nat /\ p.resetAt \in Nat
    BY DEF ProtectionType, Times
  <1>2. checkProtection(t, p).until \in Nat
    BY <1>1 DEF checkProtection, Delay, Reject, Grant
  <1>3. checkUsage(t, c, led).until \in Nat
    <2>1. ExhaustedWindows(led, t) # {} => nextSlot(led, t) \in Nat
      BY NextSlotIsLater
    <2>2. lastStart + MinimumStartInterval \in Nat
      BY GovernorAssumption DEF IndInv, CallerTypes
    <2> QED
      BY <2>1, <2>2 DEF checkUsage, Delay, Reject, Grant
  <1>4. Delay("delayed", 0).until \in Nat
    BY DEF Delay
  <1> QED
    BY <1>2, <1>3, <1>4 DEF check

\* Callers are told only the codes of the governor.
LEMMA ResultIsCode ==
  ASSUME IndInv, OtherTypes, [Next]_vars
  PROVE  (result \in [Callers -> Results])'
  <1>1. CASE UNCHANGED result
    BY <1>1 DEF OtherTypes
  <1>2. CASE ~UNCHANGED result
    <2>1. PICK c \in Callers : Run(c)
      BY <1>2, EnvironmentMoves DEF Next, vars, callerVars
    <2>2. \E code \in Results : result' = [result EXCEPT ![c] = code]
      <3>1. CASE \/ Enqueue(c) \/ Reconsider(c) \/ Wake(c) \/ AbandonWait(c)
                 \/ ReadTelemetry(c) \/ Decide(c) \/ TryBegin(c) \/ TryDecide(c)
        <4>1. CallerMove(c) /\ pc[c] \notin {"granted", "started"}
          BY <3>1, AdmissionMoves DEF Enqueue, Reconsider, Wake, AbandonWait,
             ReadTelemetry, Decide, TryBegin, TryDecide
        <4>2. \E code \in AdmissionCodes : result' = [result EXCEPT ![c] = code]
          <5>1. "admitted" \in AdmissionCodes
            BY DEF AdmissionCodes
          <5> QED
            BY <1>2, <4>1, <5>1 DEF CallerMove, Wanders, Queues, TurnedAway, TakesLane,
               FreesLane, Calls
        <4> QED
          BY <4>2 DEF Results
      <3>2. CASE \/ CancelBeforeStart(c) \/ Start(c) \/ CancelAfterStart(c)
                 \/ Finish(c) \/ FinishWithAttemptReceipts(c) \/ FinishReceiptFailure(c)
        <4>1. {"context_cancelled", "intent_not_persisted", "finished",
               "receipts_rejected"} \subseteq Results
          BY DEF Results, AdmissionCodes
        <4> QED
          BY <1>2, <3>2, <4>1 DEF CancelBeforeStart, Start, CancelAfterStart, Finish,
             FinishWithAttemptReceipts, FinishReceiptFailure, releaseLane, Finished
      <3> QED
        BY <2>1, <3>1, <3>2 DEF Run
    <2> QED
      BY <2>2 DEF OtherTypes
  <1> QED
    BY <1>1, <1>2

\* Timers are times.
LEMMA TimerIsTime ==
  ASSUME IndInv, ProtectionInv, UsageInv, OtherTypes, [Next]_vars
  PROVE  (wakeAt \in [Callers -> Nat])'
  <1>1. CASE \E c \in Callers : Decide(c)
    <2>1. PICK c \in Callers : Decide(c)
      BY <1>1
    <2> DEFINE t == seen[c].at
               p == expireProtection(applyTelemetry(protection, seen[c].snapshot, t), t)
               led == expireLedger(ledger, t)
               verdict == check(t, c, p, led)
    <2>2. t \in Nat /\ seen[c].snapshot \in SnapshotType \cup {NoValue}
          /\ protection \in ProtectionType
      BY DEF IndInv, CallerTypes, ProtectionInv, SeenType
    <2>3. p \in ProtectionType
      BY <2>2, ConsultKeeps
    <2>4. led \in Seq(Nat)
      BY <2>2, ExpireAbove DEF UsageInv
    <2>5. wakeAt' = wakeAt \/ wakeAt' = [wakeAt EXCEPT ![c] = verdict.until]
      BY <2>1 DEF Decide
    <2> HIDE DEF t, p, led
    <2>6. verdict.until \in Nat
      BY <2>2, <2>3, <2>4, UntilIsTime
    <2> HIDE DEF verdict
    <2> QED
      BY <2>5, <2>6 DEF OtherTypes
  <1>2. CASE ~\E c \in Callers : Decide(c)
    <2>1. wakeAt' = wakeAt \/ \E c \in Callers : wakeAt' = [wakeAt EXCEPT ![c] = 0]
      <3>1. ASSUME NEW c \in Callers, Run(c)
            PROVE  wakeAt' = wakeAt \/ wakeAt' = [wakeAt EXCEPT ![c] = 0]
        BY <1>2, <3>1 DEF Run, Enqueue, Reconsider, Wake, AbandonWait, ReadTelemetry,
           TryBegin, TryDecide, CancelBeforeStart, Start, CancelAfterStart, Finish,
           FinishWithAttemptReceipts, FinishReceiptFailure
      <3> QED
        BY <3>1 DEF Next, Operator, Tick, BeginCredentialRefresh,
           FinishCredentialRefresh, AcknowledgeHuman, CancelContext, Close, vars,
           callerVars
    <2> QED
      BY <2>1 DEF OtherTypes
  <1> QED
    BY <1>1, <1>2

\* The remaining types are kept.
LEMMA OtherStep ==
  IndInv /\ ProtectionInv /\ UsageInv /\ OtherTypes /\ [Next]_vars => OtherTypes'
  <1> SUFFICES ASSUME IndInv, ProtectionInv, UsageInv, OtherTypes, [Next]_vars
               PROVE  OtherTypes'
    OBVIOUS
  <1> DEFINE Moved == /\ cancelled' \subseteq Callers /\ woken' \subseteq Callers
                      /\ currentTask' \in Tasks \cup {NoValue}
                      /\ consecutiveTurns' \in Nat
                      /\ attemptIDs' \subseteq Nat /\ closed' \in BOOLEAN
  <1>1. ASSUME UNCHANGED vars \/ Operator \/ Tick PROVE Moved
    <2>1. /\ cancelled' \subseteq Callers /\ closed' \in BOOLEAN /\ woken' \subseteq Callers
      BY <1>1 DEF OtherTypes, vars, callerVars, Operator, Tick, BeginCredentialRefresh,
         FinishCredentialRefresh, AcknowledgeHuman, CancelContext, Close, signalAll
    <2>2. UNCHANGED <<currentTask, consecutiveTurns, attemptIDs>>
      BY <1>1 DEF vars, laneVars, accountVars, Operator, Tick, BeginCredentialRefresh,
         FinishCredentialRefresh, AcknowledgeHuman, CancelContext, Close
    <2> QED
      BY <2>1, <2>2 DEF OtherTypes
  <1>2. ASSUME NEW c \in Callers, Run(c) PROVE Moved
    <2>1. cancelled' \subseteq Callers /\ closed' \in BOOLEAN
      BY <1>2 DEF OtherTypes, Run, Enqueue, Reconsider, Wake, AbandonWait, ReadTelemetry,
         Decide, TryBegin, TryDecide, CancelBeforeStart, Start, CancelAfterStart, Finish,
         FinishWithAttemptReceipts, FinishReceiptFailure
    <2>2. woken' \subseteq Callers
      BY <1>2 DEF OtherTypes, Run, Enqueue, Reconsider, Wake, AbandonWait, ReadTelemetry,
         Decide, TryBegin, TryDecide, CancelBeforeStart, Start, CancelAfterStart, Finish,
         FinishWithAttemptReceipts, FinishReceiptFailure, removeWaiter, signalAll,
         releaseLane
    <2>3. currentTask' \in Tasks \cup {NoValue} /\ consecutiveTurns' \in Nat
      <3>1. CASE Start(c)
        BY <3>1 DEF OtherTypes, Start, Tasks
      <3>2. CASE ~Start(c)
        BY <1>2, <3>2 DEF OtherTypes, Run, Enqueue, Reconsider, Wake, AbandonWait,
           ReadTelemetry, Decide, TryBegin, TryDecide, CancelBeforeStart,
           CancelAfterStart, Finish, FinishWithAttemptReceipts, FinishReceiptFailure,
           laneVars
      <3> QED
        BY <3>1, <3>2
    <2>4. attemptIDs' \subseteq Nat
      <3>1. CASE FinishWithAttemptReceipts(c)
        <4>1. PICK set \in ReceiptSets :
                attemptIDs' = attemptIDs \cup {set[i].id : i \in DOMAIN set}
          BY <3>1 DEF FinishWithAttemptReceipts, applyReceipts
        <4>2. set \in Seq([id : Nat, class : Classes])
          BY OutcomesAssumption
        <4>3. \A i \in DOMAIN set : set[i] \in [id : Nat, class : Classes]
          BY <4>2, Positions, ElementOfSeq
        <4> QED
          BY <4>1, <4>3 DEF OtherTypes
      <3>2. CASE ~FinishWithAttemptReceipts(c)
        BY <1>2, <3>2 DEF OtherTypes, Run, Enqueue, Reconsider, Wake, AbandonWait,
           ReadTelemetry, Decide, TryBegin, TryDecide, CancelBeforeStart, Start,
           CancelAfterStart, Finish, FinishReceiptFailure, accountVars
      <3> QED
        BY <3>1, <3>2
    <2> QED
      BY <2>1, <2>2, <2>3, <2>4
  <1>3. Moved
    BY <1>1, <1>2 DEF Next
  <1> QED
    BY <1>3, ResultIsCode, TimerIsTime DEF OtherTypes

\* Every variable keeps the type of the governor's field it stands for.
THEOREM GovernorTypes == Spec => []TypeOK
  <1>1. Init => OtherTypes
    <2>1. "" \in Results
      BY DEF Results
    <2> SUFFICES ASSUME Init PROVE OtherTypes
      OBVIOUS
    <2>2. result \in [Callers -> Results] /\ wakeAt \in [Callers -> Nat]
      BY <2>1 DEF Init
    <2>3. /\ cancelled = {} /\ woken = {} /\ currentTask = NoValue
          /\ consecutiveTurns = 0 /\ attemptIDs = {} /\ closed = FALSE
      BY DEF Init
    <2> QED
      BY <2>2, <2>3 DEF OtherTypes
  <1>2. IndInv /\ ProtectionInv /\ UsageInv /\ QueueInv /\ OtherTypes => TypeOK
    BY DEF IndInv, CallerTypes, ProtectionInv, UsageInv, TasksType, QueueInv, OtherTypes,
       TypeOK, Times
  <1> QED
    BY <1>1, <1>2, InitInv, StepInv, ProtectionInit, ProtectionStep, UsageInit, UsageKept,
       QueueInit, QueueKept, OtherStep, PTL DEF Spec
=============================================================================
