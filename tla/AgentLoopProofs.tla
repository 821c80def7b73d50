-------------------------- MODULE AgentLoopProofs --------------------------
(***************************************************************************)
(* Proofs about a task from its first turn to its end: for every set of    *)
(* proposals, policies, contents and limits, and any number of faults and  *)
(* edits, no effect without authority, no blind replay, no uncertain       *)
(* effect out of reach, a repeat guard that survives a resume, evidence    *)
(* that describes the file, and a completion that passed its gates.        *)
(***************************************************************************)
EXTENDS AgentLoop, FiniteSetTheorems, SequenceTheorems, TLAPS

(* ------------------------ the inductive invariant --------------------- *)

\* Places before an action has an attempt, and while one is under way.
Judging == {"evaluate", "decide", "deny", "guard"}
Acting == {"execute", "rename", "observe", "commit"}
Concluding == {"final", "incomplete", "verify", "save"}
Looping == {"head", "record"} \cup Judging \cup Acting \cup Concluding
Places == Looping \cup {"start", "finalize", "pause", "reconcile", "down"}

Unknown == {"prepared", "human_review_required"}

\* Why a run ends or pauses.
Reasons ==
  {"canceled", "time_budget_exhausted", "steps_exhausted", "provider_failure",
   "persistence_paused", "corrections_exhausted", "final_not_grounded",
   "approval_required", "repeated_action", "consecutive_failures_exhausted",
   "final_incomplete", "verification_blocked", "completed",
   "verification_failures_exhausted", "persistence_failure"}

CurType == [prop : Proposals \cup {None},
            decision : {"none", "allowed", "denied", "approval_required"},
            evidence : Evidence \cup {None}, grounded : BOOLEAN, cited : BOOLEAN,
            report : {"none", "passed", "failed", "blocked", "uncertain"},
            outcome : {""} \cup Reasons]

RunType ==
  [corrections : 0..MaxCorrections, repeated : Nat, failures : Nat, retries : Nat]

LoopType ==
  /\ TypeOK /\ pc \in Places /\ cur \in CurType
  /\ pc = "record" => cur.prop \in Proposals
  /\ pc = "save" => cur.report # "none"

\* Evidence and reason come with the end of an attempt, and say how it ended.
WellKept(x) ==
  /\ x.attempt \in {"none", "prepared"} => x.evidence = None /\ x.reason = ""
  /\ x.reason \in {"write_effect_unreconcilable", "unreconcilable_effect"} =>
       x.attempt = "human_review_required"
  /\ x.reason = "write_effect_completed" => x.attempt = "reconciled"

\* Which attempts may be unknown at each place.  Only the last action of the log ever
\* is, so nothing is started behind an unknown effect.
AttemptInv ==
  /\ \A i \in Indices : log[i].attempt \in Unknown => i = n
  /\ pc \in (Looping \ Acting) \cup {"start", "finalize"} =>
       \A i \in Indices : log[i].attempt \notin Unknown
  /\ pc \in Judging => n > 0 /\ log[n].attempt = "none"
  /\ pc \in Acting => n > 0 /\ log[n].attempt = "prepared"
  /\ \A i \in Indices : WellKept(log[i])
  /\ \A i \in ran : log[i].attempt # "none"
  /\ \A i \in review : log[i].attempt = "human_review_required"
  /\ pc # "reconcile" => review = {}

\* A task is over only where no process runs, nothing is unknown and, for a completed
\* one, the gates of FinalizeTask have been passed.
ClosedInv ==
  /\ status \in Terminal => pc = "down"
  /\ pc = "start" => log = << >>
  /\ UncertainStaysReachable
  /\ CompletedIsSettled

\* The authority for the action under way.
Authorized ==
  Gated(prop) =>
    /\ log[n].decision = "allowed"
    /\ Mode[prop] = "approval_required" => approvals[prop] = "approved"

AuthorityInv ==
  /\ EffectAuthorized
  /\ pc = "decide" /\ cur.decision = "allowed" /\ Mode[prop] = "approval_required"
       => approvals[prop] = "approved"
  /\ pc \in {"guard"} \cup Acting => Authorized

\* What the repeat guard must know.
\* An execution of p before entry j found the workspace unreadable.
Gap(p, j) == \E m \in ExecutionsOf(p) : m < j /\ log[m].sig = NoSig

\* The first execution of p: no later attempt of p has its signature, unless there is a gap
\* between them, and the live guard remembers an execution that is not older.
First(p, f) ==
  /\ f \in ExecutionsOf(p) /\ \A j \in ExecutionsOf(p) : f <= j
  /\ \A j \in Indices : j > f /\ log[j].prop = p /\ log[j].attempt # "none"
                        => log[j].sig # log[f].sig \/ Gap(p, j)
  /\ pc \in Looping => \E m \in ExecutionsOf(p) : guard[p] = log[m].sig

GuardInv ==
  /\ \A i \in Indices : log[i].sig <= version
  /\ \A i, j \in Indices : i <= j /\ log[j].sig # NoSig => log[i].sig <= log[j].sig
  /\ \A p \in Proposals : ExecutionsOf(p) # {} => \E f \in Indices : First(p, f)

\* What the store says about the file.
Writes == {i \in Indices : IsWriteTool(log[i].prop) /\ log[i].evidence # None}
Recorded == IF Writes = {} THEN FirstContent ELSE log[Greatest(Writes)].evidence

\* The last action is a write whose effect happened and is not settled yet.
InFlight == n > 0 /\ n \in ran /\ IsWriteTool(prop) /\ log[n].attempt \in Unknown

EvidenceInv ==
  /\ Writes # {} => \E m \in Writes : \A j \in Writes : j <= m
  /\ \A i \in ran : IsWriteTool(log[i].prop) => Before[log[i].prop] # After[log[i].prop]
  /\ pc \in {"execute", "rename"} => n \notin ran
  /\ pc = "rename" => IsWriteTool(prop) /\ Before[prop] # After[prop]
  /\ pc = "observe" => IsWriteTool(prop) /\ n \in ran
  /\ pc = "commit" /\ IsWriteTool(prop) /\ cur.evidence # None /\ edits = 0
       => file = cur.evidence
  /\ edits = 0 /\ (\A i \in ran : log[i].attempt # "failed")
       => file = IF InFlight THEN After[prop] ELSE Recorded

IndInv ==
  LoopType /\ AttemptInv /\ ClosedInv /\ AuthorityInv /\ GuardInv /\ EvidenceInv

(* ------------------------------ types --------------------------------- *)

USE LoopAssumption

LEMMA IdleTyped ==
  /\ Idle \in CurType
  /\ \A s \in Reasons : [Idle EXCEPT !.outcome = s] \in CurType
  /\ \A p \in Proposals : [Idle EXCEPT !.prop = p] \in CurType
<1>1. Idle \in CurType
  BY DEF Idle, CurType
<1> QED BY <1>1 DEF CurType

LEMMA CurTyped ==
  ASSUME NEW c \in CurType
  PROVE  /\ \A d \in {"none", "allowed", "denied", "approval_required"} :
              [c EXCEPT !.decision = d] \in CurType
         /\ \A e \in Evidence \cup {None} : [c EXCEPT !.evidence = e] \in CurType
         /\ \A b \in BOOLEAN : [c EXCEPT !.grounded = b] \in CurType
         /\ \A b \in BOOLEAN : [c EXCEPT !.cited = b] \in CurType
         /\ \A r \in {"passed", "failed", "blocked", "uncertain"} :
              [c EXCEPT !.report = r] \in CurType
  BY DEF CurType

LEMMA EntryTyped ==
  ASSUME TypeOK, NEW i \in Indices
  PROVE  log[i] \in Entry
  BY ElementOfSeq DEF TypeOK, Indices

\* Overwriting the entry i of the log.
LEMMA Overwrite ==
  ASSUME TypeOK, NEW i \in Indices, NEW e \in Entry, log' = [log EXCEPT ![i] = e]
  PROVE  /\ log' \in Seq(Entry) /\ Len(log') = Len(log) /\ log'[i] = e
         /\ \A j \in Indices \ {i} : log'[j] = log[j]
         /\ Indices' = Indices /\ n' = n
  BY ExceptSeq DEF TypeOK, Indices, n

LEMMA LengthIsNat == TypeOK => n \in Nat /\ Indices = 1..n
  BY LenProperties DEF TypeOK, Indices, n

\* The ways out of a handler.
LEMMA StopTyped ==
  ASSUME NEW r \in Reasons, Stop(r)
  PROVE  pc' = "finalize" /\ cur' \in CurType /\ cur'.outcome = r
  BY IdleTyped DEF Stop, Idle

LEMMA PauseTyped ==
  ASSUME NEW r \in Reasons, Pause(r)
  PROVE  pc' = "pause" /\ cur' \in CurType
  BY IdleTyped DEF Pause

LEMMA NextTurnTyped ==
  ASSUME NextTurn
  PROVE  pc' = "head" /\ cur' \in CurType
  BY IdleTyped DEF NextTurn

LEMMA LeaveTyped ==
  ASSUME Leave
  PROVE  /\ pc' = "down" /\ cur' \in CurType /\ ctx' = "live" /\ review' = {}
         /\ run' \in RunType
         /\ guard' \in [Proposals -> Nat]
  BY IdleTyped DEF Leave, FreshRun, NoGuard, NoSig, RunType

(* --------------- steps that leave the log and the file alone ----------- *)

\* What such a step must show: where it may go, and that the guard and the hands of the
\* handler are right for that place.
Quiet ==
  /\ UNCHANGED <<log, approvals, ran, file, edits>> /\ version <= version'
  /\ review' \subseteq review /\ (pc' # "reconcile" => review' = {})
  /\ pc' \in (Looping \ Acting) \cup {"start", "finalize"} =>
       \A i \in Indices : log[i].attempt \notin Unknown
  /\ pc' \in Judging => pc \in Judging
  /\ pc' \in Acting => pc \in Acting
  /\ pc' = "guard" => pc = "guard"
  /\ pc' = "decide" /\ cur'.decision = "allowed" /\ Mode[prop] = "approval_required"
       => approvals[prop] = "approved"
  /\ pc' \in Looping =>
       \A p \in Proposals : ExecutionsOf(p) # {} => \E m \in ExecutionsOf(p) : guard'[p] = log[m].sig
  /\ pc' = "execute" => pc = "execute"
  /\ pc' = "rename" => n \notin ran /\ IsWriteTool(prop) /\ Before[prop] # After[prop]
  /\ pc' = "observe" => pc = "observe"
  /\ pc' = "commit" /\ IsWriteTool(prop) /\ cur'.evidence # None /\ edits = 0
       => file = cur'.evidence

LEMMA QuietKeeps ==
  ASSUME IndInv, LoopType', ClosedInv', Quiet
  PROVE  IndInv'
<1>0. /\ n' = n /\ Indices' = Indices /\ prop' = prop
      /\ (\A p : ExecutionsOf(p)' = ExecutionsOf(p)) /\ (\A p, j : Gap(p, j)' = Gap(p, j))
      /\ Writes' = Writes /\ Recorded' = Recorded
  BY DEF Quiet, n, Indices, prop, ExecutionsOf, Gap, Writes, Recorded, Greatest
<1>1. AttemptInv'
  BY <1>0 DEF IndInv, AttemptInv, Quiet, Looping, Acting, Judging
<1>2. AuthorityInv'
  BY <1>0 DEF IndInv, AuthorityInv, EffectAuthorized, Authorized, Quiet
<1>3. GuardInv'
  <2>1. /\ \A i \in Indices' : log'[i].sig <= version'
        /\ \A i, j \in Indices' : i <= j /\ log'[j].sig # NoSig => log'[i].sig <= log'[j].sig
    <3>1. \A i \in Indices : log[i].sig \in Nat
      BY EntryTyped DEF IndInv, LoopType, Entry
    <3>2. log' = log /\ version <= version' /\ version \in Nat /\ version' \in Nat
      BY DEF Quiet, IndInv, LoopType, TypeOK
    <3> QED BY <1>0, <3>1, <3>2 DEF IndInv, GuardInv
  <2>2. ASSUME NEW p \in Proposals, NEW f \in Indices, ExecutionsOf(p) # {}, First(p, f)
        PROVE  First(p, f)'
    BY <1>0, <2>2 DEF First, Quiet
  <2> QED BY <1>0, <2>1, <2>2 DEF IndInv, GuardInv
<1>4. EvidenceInv'
  BY <1>0 DEF IndInv, EvidenceInv, InFlight, Quiet
<1> QED BY <1>1, <1>2, <1>3, <1>4 DEF IndInv

\* The task row, the verifications and the log stay as they are.
LEMMA QuietTask ==
  ASSUME IndInv, Quiet, UNCHANGED <<status, verifications>>, pc # "down", pc' # "start"
  PROVE  ClosedInv'
  BY
  DEF IndInv, ClosedInv, Quiet, UncertainStaysReachable, CompletedIsSettled,
      Unsettled,
         Indices, Terminal

LEMMA Knows ==
  ASSUME IndInv
  PROVE  /\ pc \in (Looping \ Acting) \cup {"start", "finalize"} =>
              \A i \in Indices : log[i].attempt \notin Unknown
         /\ pc \in Looping =>
              \A p \in Proposals : ExecutionsOf(p) # {} => \E m \in ExecutionsOf(p) : guard[p] = log[m].sig
  BY DEF IndInv, AttemptInv, GuardInv, First

\* The steps of a handler that end it, or that stay clear of the tool attempt.
Ordinary ==
  /\ UNCHANGED <<log, approvals, ran, file, edits, status, verifications>>
  /\ version <= version' /\ pc # "down" /\ review' = {}
  /\ \/ pc' \in {"pause", "down"}
     \/ /\ pc \in Looping \ Acting /\ guard' = guard
        /\ pc' \in {"finalize", "head", "record"} \cup Concluding

LEMMA OrdinaryKeeps ==
  ASSUME IndInv, LoopType', Ordinary
  PROVE  IndInv'
<1>1. Quiet
  <2>1. CASE pc' \in {"pause", "down"}
    BY <2>1 DEF Ordinary, Quiet, Looping, Judging, Acting, Concluding
  <2>2. CASE /\ pc \in Looping \ Acting /\ guard' = guard
             /\ pc' \in {"finalize", "head", "record"} \cup Concluding
    BY <2>2, Knows DEF Ordinary, Quiet, Looping, Judging, Acting, Concluding
  <2> QED BY <2>1, <2>2 DEF Ordinary
<1>2. ClosedInv'
  BY <1>1, QuietTask DEF Ordinary, Concluding
<1> QED BY <1>1, <1>2, QuietKeeps

\* Outside of recovery there is nothing under review.
LEMMA NoReview == IndInv /\ pc # "reconcile" => review = {}
  BY DEF IndInv, AttemptInv

LEMMA TypesStep ==
  ASSUME LoopType, UNCHANGED <<log, approvals, verifications, file, version, ran, edits>>,
         status' \in {"planned", "running"} \cup Terminal,
         turns' \in 0..MaxSteps, faults' \in 0..MaxFaults,
         pc' \in Places, cur' \in CurType,
         pc' = "record" => cur'.prop \in Proposals,
         pc' = "save" => cur'.report # "none",
         ctx' \in {"live", "canceled", "deadline"},
         run' \in RunType,
         guard' \in [Proposals -> Nat], review' \subseteq Indices
  PROVE  LoopType'
  BY DEF LoopType, TypeOK, RunType, Indices

LEMMA FaultTyped == LoopType /\ (Fault \/ UNCHANGED faults) => faults' \in 0..MaxFaults
  BY DEF LoopType, TypeOK, Fault

LEMMA RunTyped ==
  ASSUME LoopType
  PROVE  /\ run.corrections < MaxCorrections =>
              [run EXCEPT !.corrections = @ + 1] \in RunType
         /\ [run EXCEPT !.repeated = @ + 1] \in RunType
         /\ [run EXCEPT !.retries = @ + 1] \in RunType
         /\ \A k \in Nat : [run EXCEPT !.failures = k] \in RunType
         /\ run.failures \in Nat /\ run.repeated \in Nat /\ run.corrections \in 0..MaxCorrections
<1>1. run \in RunType
  BY DEF LoopType, TypeOK, RunType
<1>2. run.corrections \in 0..MaxCorrections /\ run.repeated \in Nat /\ run.failures \in Nat
      /\ run.retries \in Nat
  BY <1>1 DEF RunType
<1>3. run.corrections < MaxCorrections => run.corrections + 1 \in 0..MaxCorrections
  BY <1>2
<1> QED BY <1>1, <1>2, <1>3 DEF RunType


LEMMA StopAtHeadKeeps ==
  ASSUME IndInv, StopAtHead
  PROVE  IndInv'
<1>1. LoopType'
  BY TypesStep, FaultTyped, NoReview, StopTyped
  DEF StopAtHead, store, task, disk, memory, IndInv, LoopType, TypeOK, RunType, Places, Looping, Judging, Acting, Concluding, Reasons
<1>2. Ordinary
  BY NoReview, StopTyped
  DEF StopAtHead, store, task, disk, memory, Ordinary, IndInv, LoopType, TypeOK, Places, Looping, Judging, Acting, Concluding, Reasons
<1> QED BY <1>1, <1>2, OrdinaryKeeps

LEMMA ProviderFailsKeeps ==
  ASSUME IndInv, ProviderFails
  PROVE  IndInv'
<1>1. LoopType'
  BY TypesStep, FaultTyped, NoReview, StopTyped, PauseTyped
  DEF ProviderFails, ModelTurn, store, task, disk, memory, IndInv, LoopType, TypeOK, RunType, Places, Looping, Judging, Acting, Concluding, Reasons
<1>2. Ordinary
  BY NoReview, StopTyped, PauseTyped
  DEF ProviderFails, ModelTurn, store, task, disk, memory, Ordinary, IndInv, LoopType, TypeOK, Places, Looping, Judging, Acting, Concluding, Reasons
<1> QED BY <1>1, <1>2, OrdinaryKeeps

LEMMA ParseFailsKeeps ==
  ASSUME IndInv, ParseFails
  PROVE  IndInv'
<1>0. /\ pc = "head" /\ turns' \in 0..MaxSteps /\ pc' \in {"head", "finalize"} /\ cur' \in CurType
      /\ run' \in RunType
      /\ UNCHANGED <<status, log, approvals, verifications, file, version, ran, edits, ctx,
                   guard, review, faults>>
  <2>1. /\ pc = "head" /\ turns' = turns + 1 /\ turns < MaxSteps
        /\ UNCHANGED <<status, log, approvals, verifications, file, version, ran, edits, ctx,
                   guard, review, faults>>
        /\ \/ Correction
           \/ Stop("corrections_exhausted") /\ UNCHANGED run
    BY DEF ParseFails, ModelTurn, task, disk
  <2>2. turns' \in 0..MaxSteps /\ run \in RunType
    BY <2>1 DEF IndInv, LoopType, TypeOK, RunType
  <2>3. CASE Stop("corrections_exhausted") /\ UNCHANGED run
    BY <2>1, <2>2, <2>3, StopTyped DEF Reasons
  <2>4. CASE NextTurn /\ run.corrections < MaxCorrections
             /\ run' = [run EXCEPT !.corrections = @ + 1]
    BY <2>1, <2>2, <2>4, NextTurnTyped, RunTyped DEF IndInv
  <2> QED BY <2>1, <2>3, <2>4, RunTyped DEF Correction, IndInv
<1>1. LoopType'
  BY <1>0, TypesStep, FaultTyped, NoReview
  DEF IndInv, LoopType, TypeOK, RunType, Places, Looping, Judging, Acting, Concluding, Reasons
<1>2. Ordinary
  BY <1>0, NoReview
  DEF Ordinary, IndInv, LoopType, TypeOK, Places, Looping, Judging, Acting, Concluding, Reasons
<1> QED BY <1>1, <1>2, OrdinaryKeeps

LEMMA ProposeActionKeeps ==
  ASSUME NEW p \in Proposals, IndInv, ProposeAction(p)
  PROVE  IndInv'
<1>0. /\ pc = "head" /\ turns' \in 0..MaxSteps /\ pc' = "record" /\ cur' \in CurType
      /\ cur'.prop = p /\ UNCHANGED run
      /\ UNCHANGED <<status, log, approvals, verifications, file, version, ran, edits, ctx,
                   guard, review, faults>>
  <2>1. cur' = [Idle EXCEPT !.prop = p]
    BY DEF ProposeAction, ModelTurn
  <2>2. cur' \in CurType /\ cur'.prop = p
    BY <2>1, IdleTyped DEF Idle
  <2>3. turns' \in 0..MaxSteps
    <3>1. turns \in 0..MaxSteps
      BY DEF IndInv, LoopType, TypeOK
    <3>2. turns < MaxSteps /\ turns' = turns + 1
      BY DEF ProposeAction, ModelTurn
    <3> QED BY <3>1, <3>2
  <2> QED BY <2>2, <2>3 DEF ProposeAction, ModelTurn, task, disk
<1>1. LoopType'
  BY <1>0, TypesStep, FaultTyped, NoReview
  DEF IndInv, LoopType, TypeOK, RunType, Places, Looping, Judging, Acting, Concluding, Reasons
<1>2. Ordinary
  BY <1>0, NoReview
  DEF Ordinary, IndInv, LoopType, TypeOK, Places, Looping, Judging, Acting, Concluding, Reasons
<1> QED BY <1>1, <1>2, OrdinaryKeeps

LEMMA ProposeFinalKeeps ==
  ASSUME NEW complete \in BOOLEAN, NEW grounded \in BOOLEAN, IndInv, ProposeFinal(complete, grounded)
  PROVE  IndInv'
<1>a. [Idle EXCEPT !.grounded = grounded, !.cited = grounded] \in CurType
  <2>1. [Idle EXCEPT !.grounded = grounded, !.cited = grounded]
          = [[Idle EXCEPT !.grounded = grounded] EXCEPT !.cited = grounded]
    OBVIOUS
  <2> QED BY <2>1, IdleTyped, CurTyped
<1>0. /\ pc = "head" /\ turns' \in 0..MaxSteps /\ pc' \in {"final", "incomplete", "finalize"}
      /\ cur' \in CurType /\ UNCHANGED run
      /\ UNCHANGED <<status, log, approvals, verifications, file, version, ran, edits, ctx,
                   guard, review, faults>>
  <2>1. \/ Stop("final_not_grounded")
        \/ /\ pc' \in {"final", "incomplete"}
           /\ cur' = [Idle EXCEPT !.grounded = grounded, !.cited = grounded]
    BY DEF ProposeFinal, ModelTurn
  <2>2. pc' \in {"final", "incomplete", "finalize"} /\ cur' \in CurType
    BY <1>a, <2>1, StopTyped DEF Reasons
  <2>3. turns' \in 0..MaxSteps
    <3>1. turns \in 0..MaxSteps
      BY DEF IndInv, LoopType, TypeOK
    <3>2. turns < MaxSteps /\ turns' = turns + 1
      BY DEF ProposeFinal, ModelTurn
    <3> QED BY <3>1, <3>2
  <2> QED BY <2>2, <2>3 DEF ProposeFinal, ModelTurn, task, disk
<1>1. LoopType'
  BY <1>0, TypesStep, FaultTyped, NoReview
  DEF IndInv, LoopType, TypeOK, RunType, Places, Looping, Judging, Acting, Concluding, Reasons
<1>2. Ordinary
  BY <1>0, NoReview
  DEF Ordinary, IndInv, LoopType, TypeOK, Places, Looping, Judging, Acting, Concluding, Reasons
<1> QED BY <1>1, <1>2, OrdinaryKeeps

LEMMA HandleFinalKeeps ==
  ASSUME IndInv, HandleFinal
  PROVE  IndInv'
<1>1. LoopType'
  BY TypesStep, FaultTyped, NoReview, StopTyped, PauseTyped
  DEF HandleFinal, store, task, disk, memory, IndInv, LoopType, TypeOK, RunType, Places, Looping, Judging, Acting, Concluding, Reasons
<1>2. Ordinary
  BY NoReview, StopTyped, PauseTyped
  DEF HandleFinal, store, task, disk, memory, Ordinary, IndInv, LoopType, TypeOK, Places, Looping, Judging, Acting, Concluding, Reasons
<1> QED BY <1>1, <1>2, OrdinaryKeeps

LEMMA VerifyKeeps ==
  ASSUME NEW accepted \in {"passed", "failed", "blocked"}, IndInv, Verify(accepted)
  PROVE  IndInv'
<1>0. /\ pc = "verify" /\ pc' = "save" /\ cur' \in CurType /\ cur'.report # "none"
      /\ UNCHANGED faults
      /\ UNCHANGED <<status, log, approvals, verifications, turns, file, version, ran, edits,
                   ctx, run, guard, review>>
  <2> DEFINE report == Decision(cur.grounded, accepted)
  <2>1. report \in {"passed", "failed", "blocked", "uncertain"} /\ report # "none"
    BY DEF Decision
  <2>2. cur \in CurType /\ cur' = [cur EXCEPT !.report = report]
    BY DEF Verify, IndInv, LoopType
  <2> HIDE DEF report
  <2>3. cur'.report = report
    BY <2>2 DEF CurType
  <2>4. cur' \in CurType
    BY <2>1, <2>2, CurTyped
  <2> QED BY <2>1, <2>3, <2>4 DEF Verify, store, disk
<1>1. LoopType'
  BY <1>0, TypesStep, FaultTyped, NoReview
  DEF IndInv, LoopType, TypeOK, RunType, Places, Looping, Judging, Acting, Concluding, Reasons
<1>2. Ordinary
  BY <1>0, NoReview
  DEF Ordinary, IndInv, LoopType, TypeOK, Places, Looping, Judging, Acting, Concluding, Reasons
<1> QED BY <1>1, <1>2, OrdinaryKeeps

LEMMA VerifyBlindKeeps ==
  ASSUME NEW accepted \in {"passed", "failed", "blocked"}, IndInv, VerifyBlind(accepted)
  PROVE  IndInv'
<1>0. /\ pc = "verify" /\ pc' = "save" /\ cur' \in CurType /\ cur'.report # "none"
      /\ Fault \/ UNCHANGED faults
      /\ UNCHANGED <<status, log, approvals, verifications, turns, file, version, ran, edits,
                   ctx, run, guard, review>>
  <2> DEFINE report == IF accepted = "blocked" THEN "blocked" ELSE "failed"
  <2>1. report \in {"passed", "failed", "blocked", "uncertain"} /\ report # "none"
    OBVIOUS
  <2>2. cur \in CurType /\ cur' = [[cur EXCEPT !.cited = FALSE] EXCEPT !.report = report]
    BY DEF VerifyBlind, IndInv, LoopType
  <2> HIDE DEF report
  <2>3. [cur EXCEPT !.cited = FALSE] \in CurType
    BY <2>2, CurTyped
  <2>4. cur'.report = report
    BY <2>2, <2>3 DEF CurType
  <2>5. cur' \in CurType
    BY <2>1, <2>2, <2>3, CurTyped
  <2> QED BY <2>1, <2>4, <2>5 DEF VerifyBlind, store, disk
<1>1. LoopType'
  BY <1>0, TypesStep, FaultTyped, NoReview
  DEF IndInv, LoopType, TypeOK, RunType, Places, Looping, Judging, Acting, Concluding, Reasons
<1>2. Ordinary
  BY <1>0, NoReview
  DEF Ordinary, IndInv, LoopType, TypeOK, Places, Looping, Judging, Acting, Concluding, Reasons
<1> QED BY <1>1, <1>2, OrdinaryKeeps

LEMMA MarkTaskPausedKeeps ==
  ASSUME IndInv, MarkTaskPaused
  PROVE  IndInv'
<1>1. LoopType'
  BY TypesStep, FaultTyped, NoReview, LeaveTyped
  DEF MarkTaskPaused, store, task, disk, memory, IndInv, LoopType, TypeOK, RunType, Places, Looping, Judging, Acting, Concluding, Reasons
<1>2. Ordinary
  BY NoReview, LeaveTyped
  DEF MarkTaskPaused, store, task, disk, memory, Ordinary, IndInv, LoopType, TypeOK, Places, Looping, Judging, Acting, Concluding, Reasons
<1> QED BY <1>1, <1>2, OrdinaryKeeps

LEMMA StoreFailsKeeps ==
  ASSUME IndInv, StoreFails
  PROVE  IndInv'
<1>1. LoopType'
  BY TypesStep, FaultTyped, NoReview, StopTyped, PauseTyped
  DEF StoreFails, OnStoreError, Refused, store, task, disk, memory, IndInv, LoopType, TypeOK, RunType, Places, Looping, Judging, Acting, Concluding, Reasons
<1>2. Ordinary
  BY NoReview, StopTyped, PauseTyped, SMTT(30)
  DEF StoreFails, OnStoreError, Refused, store, task, disk, memory, Ordinary, IndInv, LoopType, TypeOK, Places, Looping, Judging, Acting, Concluding, Reasons
<1> QED BY <1>1, <1>2, OrdinaryKeeps

LEMMA LastWriteFailsKeeps ==
  ASSUME IndInv, LastWriteFails
  PROVE  IndInv'
<1>1. LoopType'
  BY TypesStep, FaultTyped, NoReview, LeaveTyped
  DEF LastWriteFails, store, task, disk, memory, IndInv, LoopType, TypeOK, RunType, Places, Looping, Judging, Acting, Concluding, Reasons
<1>2. Ordinary
  BY NoReview, LeaveTyped
  DEF LastWriteFails, store, task, disk, memory, Ordinary, IndInv, LoopType, TypeOK, Places, Looping, Judging, Acting, Concluding, Reasons
<1> QED BY <1>1, <1>2, OrdinaryKeeps

LEMMA ResumeRefusedKeeps ==
  ASSUME IndInv, ResumeRefused
  PROVE  IndInv'
<1>1. LoopType'
  BY TypesStep, FaultTyped, NoReview, LeaveTyped
  DEF ResumeRefused, store, task, disk, memory, IndInv, LoopType, TypeOK, RunType, Places, Looping, Judging, Acting, Concluding, Reasons
<1>2. Ordinary
  BY NoReview, LeaveTyped
  DEF ResumeRefused, store, task, disk, memory, Ordinary, IndInv, LoopType, TypeOK, Places, Looping, Judging, Acting, Concluding, Reasons
<1> QED BY <1>1, <1>2, OrdinaryKeeps

LEMMA RecoveryStopsKeeps ==
  ASSUME IndInv, RecoveryStops
  PROVE  IndInv'
<1>1. LoopType'
  BY TypesStep, FaultTyped, NoReview, LeaveTyped
  DEF RecoveryStops, store, task, disk, memory, IndInv, LoopType, TypeOK, RunType, Places, Looping, Judging, Acting, Concluding, Reasons
<1>2. Ordinary
  BY NoReview, LeaveTyped
  DEF RecoveryStops, store, task, disk, memory, Ordinary, IndInv, LoopType, TypeOK, Places, Looping, Judging, Acting, Concluding, Reasons
<1> QED BY <1>1, <1>2, OrdinaryKeeps

(* ----------------------- beginning, end and recovery ------------------- *)

LEMMA StartTaskKeeps ==
  ASSUME IndInv, StartTask
  PROVE  IndInv'
<1>0. /\ pc = "start" /\ pc' = "head" /\ status' = "running" /\ log = << >>
      /\ UNCHANGED <<log, approvals, verifications, turns, file, version, ran, edits, ctx, cur,
                    run, guard, review, faults>>
  BY DEF StartTask, disk, memory, IndInv, ClosedInv
<1>a. Indices = {} /\ \A p \in Proposals : ExecutionsOf(p) = {}
  BY <1>0 DEF Indices, ExecutionsOf
<1>1. LoopType'
  BY <1>0, TypesStep, NoReview
  DEF IndInv, LoopType, TypeOK, RunType, Places, Looping, Judging, Acting,
      Concluding, Reasons
<1>2. Quiet
  BY <1>0, <1>a, NoReview
  DEF Quiet, IndInv, LoopType, TypeOK, Places, Looping, Judging, Acting, Concluding,
      Reasons
<1>3. ClosedInv'
  BY <1>0 DEF ClosedInv, UncertainStaysReachable, CompletedIsSettled, Terminal
<1> QED BY <1>1, <1>2, <1>3, QuietKeeps

LEMMA MarkRecoveryStartedKeeps ==
  ASSUME IndInv, MarkRecoveryStarted
  PROVE  IndInv'
<1>0. /\ pc = "down" /\ pc' = "reconcile" /\ status' = "running"
      /\ UNCHANGED <<log, approvals, verifications, turns, file, version, ran, edits, ctx, cur,
                    run, guard, review, faults>>
  BY DEF MarkRecoveryStarted, disk, memory
<1>1. LoopType'
  BY <1>0, TypesStep, NoReview
  DEF IndInv, LoopType, TypeOK, RunType, Places, Looping, Judging, Acting,
      Concluding, Reasons
<1>2. Quiet
  BY <1>0, NoReview
  DEF Quiet, IndInv, LoopType, TypeOK, Places, Looping, Judging, Acting, Concluding,
      Reasons
<1>3. ClosedInv'
  BY <1>0 DEF ClosedInv, UncertainStaysReachable, CompletedIsSettled, Terminal
<1> QED BY <1>1, <1>2, <1>3, QuietKeeps

LEMMA MarkHumanReviewRequiredKeeps ==
  ASSUME IndInv, MarkHumanReviewRequired
  PROVE  IndInv'
<1>0. /\ pc' = "down" /\ status' = "human_review_required"
      /\ UNCHANGED <<log, approvals, verifications, turns, file, version, ran, edits, faults>>
  BY LeaveTyped DEF MarkHumanReviewRequired, disk
<1>1. LoopType'
  BY <1>0, TypesStep, LeaveTyped
  DEF MarkHumanReviewRequired, IndInv, LoopType, TypeOK, Terminal, Places, Looping,
      Judging, Acting, Concluding, Reasons
<1>2. Quiet
  BY <1>0, LeaveTyped
  DEF MarkHumanReviewRequired, Quiet, IndInv, LoopType, TypeOK, Places, Looping,
      Judging, Acting, Concluding, Reasons
<1>3. ClosedInv'
  BY <1>0 DEF ClosedInv, UncertainStaysReachable, CompletedIsSettled, Terminal
<1> QED BY <1>1, <1>2, <1>3, QuietKeeps

LEMMA FinalizeTaskKeeps ==
  ASSUME IndInv, FinalizeTask
  PROVE  IndInv'
<1>0. /\ pc = "finalize" /\ pc' = "down" /\ review' = {}
      /\ UNCHANGED <<log, approvals, verifications, turns, file, version, ran, edits, faults>>
      /\ \/ status' = status
         \/ status' = "completed" /\ MayComplete
         \/ status' \in {"canceled", "failed"}
  <2>1. CASE cur.outcome = "completed" /\ ~MayComplete
    BY <2>1, LeaveTyped DEF FinalizeTask, task, disk
  <2>2. CASE ~(cur.outcome = "completed" /\ ~MayComplete)
    BY <2>2, LeaveTyped DEF FinalizeTask, terminalStatus, disk
  <2> QED BY <2>1, <2>2
<1>1. LoopType'
  <2>1. status' \in {"planned", "running"} \cup Terminal
    BY <1>0 DEF IndInv, LoopType, TypeOK, Terminal
  <2>2. Leave /\ turns' \in 0..MaxSteps /\ faults' \in 0..MaxFaults
    BY <1>0 DEF FinalizeTask, IndInv, LoopType, TypeOK
  <2> QED BY <1>0, <2>1, <2>2, TypesStep, LeaveTyped DEF IndInv, Places
<1>2. Quiet
  BY <1>0
  DEF Quiet, IndInv, LoopType, TypeOK, Places, Looping, Judging, Acting, Concluding,
      Reasons
<1>3. ClosedInv'
  <2>1. Unsettled = {} /\ Unsettled' = Unsettled
    BY <1>0, Knows DEF Unsettled, Unknown, Indices
  <2>2. UncertainStaysReachable'
    BY <2>1 DEF UncertainStaysReachable
  <2>3. CompletedIsSettled'
    <3>1. status # "completed"
      BY <1>0 DEF IndInv, ClosedInv, Terminal
    <3>2. CASE status' = "completed" /\ MayComplete
      BY <1>0, <2>1, <3>2
      DEF CompletedIsSettled, MayComplete, PendingApprovals, Indices
    <3> QED BY <1>0, <3>1, <3>2 DEF CompletedIsSettled
  <2> QED BY <1>0, <2>2, <2>3 DEF ClosedInv
<1> QED BY <1>1, <1>2, <1>3, QuietKeeps

LEMMA EndContextKeeps ==
  ASSUME NEW how \in {"canceled", "deadline"}, IndInv, EndContext(how)
  PROVE  IndInv'
<1>0. /\ ctx' = how /\ pc # "down" /\ Fault
      /\ UNCHANGED <<status, log, approvals, verifications, turns, file, version, ran, edits, pc,
                    cur, run, guard, review>>
  BY DEF EndContext, store, disk, memory
<1>1. LoopType'
  BY <1>0, TypesStep, FaultTyped DEF IndInv, LoopType, TypeOK, RunType
<1>2. Quiet
  <2>1. /\ review' \subseteq review /\ (pc' # "reconcile" => review' = {})
        /\ version <= version'
    BY <1>0, NoReview DEF IndInv, LoopType, TypeOK
  <2>2. /\ pc' \in (Looping \ Acting) \cup {"start", "finalize"} =>
             \A i \in Indices : log[i].attempt \notin Unknown
        /\ pc' \in Looping =>
             \A p \in Proposals : ExecutionsOf(p) # {} => \E m \in ExecutionsOf(p) : guard'[p] = log[m].sig
    BY <1>0, Knows
  <2>3. /\ pc' = "decide" /\ cur'.decision = "allowed" /\ Mode[prop] = "approval_required"
             => approvals[prop] = "approved"
        /\ pc' = "rename" => n \notin ran /\ IsWriteTool(prop) /\ Before[prop] # After[prop]
        /\ pc' = "commit" /\ IsWriteTool(prop) /\ cur'.evidence # None /\ edits = 0
             => file = cur'.evidence
    BY <1>0 DEF IndInv, AuthorityInv, EvidenceInv
  <2> QED BY <1>0, <2>1, <2>2, <2>3 DEF Quiet
<1>3. ClosedInv'
  BY <1>0
  DEF IndInv, ClosedInv, UncertainStaysReachable, CompletedIsSettled, Unsettled,
      Indices
<1> QED BY <1>1, <1>2, <1>3, QuietKeeps

LEMMA DieKeeps ==
  ASSUME IndInv, Die
  PROVE  IndInv'
<1>0. /\ pc' = "down" /\ pc # "down" /\ Fault /\ Leave /\ version' \in {version, version + 1}
      /\ UNCHANGED <<status, log, approvals, verifications, turns, file, ran, edits>>
  BY LeaveTyped DEF Die, store
<1>a. version' \in Nat /\ version <= version'
  BY <1>0 DEF IndInv, LoopType, TypeOK
<1>1. LoopType'
  BY <1>0, <1>a, FaultTyped, LeaveTyped
  DEF IndInv, LoopType, TypeOK, RunType, Places, Indices
<1>2. Ordinary
  BY <1>0, <1>a, LeaveTyped DEF Ordinary
<1> QED BY <1>1, <1>2, OrdinaryKeeps

LEMMA SaveVerificationAttemptKeeps ==
  ASSUME IndInv, SaveVerificationAttempt
  PROVE  IndInv'
<1>0. /\ pc = "save" /\ verifications' = Append(verifications, cur.report)
      /\ UNCHANGED <<status, log, approvals, turns, file, version, ran, edits, ctx, guard, review,
                    faults>>
  BY DEF SaveVerificationAttempt, task, disk
<1>a. run' \in RunType /\ pc' \in {"finalize", "head", "pause"} /\ cur' \in CurType
  <2>0. run \in RunType
    BY DEF IndInv, LoopType, TypeOK, RunType
  <2>1. CASE cur.report = "passed"
    BY <2>0, <2>1, StopTyped DEF SaveVerificationAttempt, Reasons
  <2>2. CASE cur.report = "failed"
    BY <2>2, RunTyped, StopTyped, NextTurnTyped
    DEF SaveVerificationAttempt, Reasons, IndInv
  <2>3. CASE cur.report \notin {"passed", "failed"}
    BY <2>0, <2>3, StopTyped, PauseTyped
    DEF SaveVerificationAttempt, Refused, Reasons
  <2> QED BY <2>1, <2>2, <2>3
<1>b. verifications' \in Seq({"passed", "failed", "blocked", "uncertain"})
  <2>1. cur.report \in {"passed", "failed", "blocked", "uncertain"}
    BY <1>0 DEF IndInv, LoopType, CurType
  <2>2. verifications \in Seq({"passed", "failed", "blocked", "uncertain"})
    BY DEF IndInv, LoopType, TypeOK
  <2> QED BY <1>0, <2>1, <2>2
<1>1. LoopType'
  BY <1>0, <1>a, <1>b
  DEF IndInv, LoopType, TypeOK, RunType, Indices, Places, Looping, Judging, Acting,
      Concluding, Reasons
<1>2. Quiet
  <2>1. review' = {} /\ version <= version'
    BY <1>0, NoReview DEF IndInv, LoopType, TypeOK
  <2>2. /\ \A i \in Indices : log[i].attempt \notin Unknown
        /\ \A p \in Proposals : ExecutionsOf(p) # {} => \E m \in ExecutionsOf(p) : guard'[p] = log[m].sig
    BY <1>0, Knows DEF Places, Looping, Judging, Acting, Concluding, Reasons
  <2> QED BY <1>0, <1>a, <2>1, <2>2 DEF Quiet, Places, Looping, Judging, Acting, Concluding, Reasons
<1>3. ClosedInv'
  BY <1>0, <1>a
  DEF IndInv, ClosedInv, UncertainStaysReachable, CompletedIsSettled, Terminal
<1> QED BY <1>1, <1>2, <1>3, QuietKeeps

LEMMA ContinueTaskKeeps ==
  ASSUME IndInv, ContinueTask
  PROVE  IndInv'
<1>0. /\ pc = "reconcile" /\ ToReconcile = {} /\ review = {} /\ pc' = "head" /\ cur' \in CurType
      /\ guard' = reconstructedGuard
      /\ UNCHANGED <<status, log, approvals, verifications, turns, file, version, ran, edits, ctx,
                    review, faults>>
  BY NextTurnTyped DEF ContinueTask, store, disk
<1>a. TypeOK /\ n \in Nat /\ Indices = 1..n
  BY LengthIsNat DEF IndInv, LoopType
<1>b. run' \in RunType
  <2>1. IsFiniteSet(Indices) /\ IsFiniteSet(DOMAIN verifications)
    BY <1>a, FS_Interval, LenProperties DEF TypeOK
  <2>2. \A S \in SUBSET Indices : Cardinality(S) \in Nat
    BY <2>1, FS_Subset, FS_CardinalityType
  <2>3. \A S \in SUBSET DOMAIN verifications : Cardinality(S) \in Nat
    BY <2>1, FS_Subset, FS_CardinalityType
  <2>4. rejectedCount \in Nat
    BY <2>2 DEF rejectedCount
  <2>5. trailingToolFailures \in Nat
    BY <2>2 DEF trailingToolFailures
  <2>6. trailingVerificationFailures \in Nat
    BY <2>3 DEF trailingVerificationFailures
  <2>7. run' = [corrections |-> 0, repeated |-> rejectedCount, failures |-> trailingToolFailures,
                retries |-> trailingVerificationFailures]
    BY DEF ContinueTask, FreshRun
  <2> QED BY <2>4, <2>5, <2>6, <2>7 DEF RunType
<1>c. ASSUME NEW p \in Proposals
      PROVE  /\ ExecutionsOf(p) = {} => guard'[p] = NoSig
             /\ ExecutionsOf(p) # {} => Least(ExecutionsOf(p)) \in ExecutionsOf(p) /\ guard'[p] = log[Least(ExecutionsOf(p))].sig
  <2>1. {i \in Indices : log[i].prop = p /\ Executed(i)} = ExecutionsOf(p)
    BY DEF ExecutionsOf, Executed, IndInv, AttemptInv, WellKept
  <2>2. ExecutionsOf(p) # {} => Least(ExecutionsOf(p)) \in ExecutionsOf(p)
    <3>1. ExecutionsOf(p) # {} => \E f \in ExecutionsOf(p) : \A j \in ExecutionsOf(p) : f <= j
      BY DEF IndInv, GuardInv, First
    <3> QED BY <3>1 DEF Least
  <2> QED BY <1>0, <2>1, <2>2 DEF reconstructedGuard
<1>d. guard' \in [Proposals -> Nat]
  <2>1. \A p \in Proposals : guard'[p] \in Nat
    <3>1. \A i \in Indices : log[i].sig \in Nat
      BY <1>a, EntryTyped DEF Entry
    <3>2. \A p \in Proposals : ExecutionsOf(p) \subseteq Indices
      BY DEF ExecutionsOf
    <3> QED BY <1>c, <3>1, <3>2 DEF NoSig
  <2> QED BY <1>0, <2>1 DEF reconstructedGuard
<1>1. LoopType'
  BY <1>0, <1>b, <1>d, TypesStep
  DEF IndInv, LoopType, TypeOK, Places, Looping, Judging, Acting, Concluding,
      Reasons
<1>2. Quiet
  <2>1. \A i \in Indices : log[i].attempt \notin Unknown
    BY <1>0 DEF ToReconcile, Unsettled, Unknown
  <2>2. \A p \in Proposals : ExecutionsOf(p) # {} => \E m \in ExecutionsOf(p) : guard'[p] = log[m].sig
    BY <1>c
  <2>3. version \in Nat
    BY <1>a DEF TypeOK
  <2> QED BY <1>0, <2>1, <2>2, <2>3 DEF Quiet, Looping, Judging, Acting, Concluding
<1>3. ClosedInv'
  BY <1>0, <1>2, QuietTask
<1> QED BY <1>1, <1>2, <1>3, QuietKeeps

(* ------------------------- judging and acting -------------------------- *)

\* The action at hand while one is judged or under way.
LEMMA AtHand ==
  ASSUME IndInv, pc \in Judging \cup Acting
  PROVE  /\ n \in Indices /\ n \in Nat /\ Indices = 1..n /\ log[n] \in Entry
         /\ prop \in Proposals /\ prop = log[n].prop
         /\ Kind[prop] \in Kinds /\ Before[prop] \in Contents /\ After[prop] \in Contents
         /\ Mode[prop] \in {"allow", "deny", "approval_required"}
         /\ status \notin Terminal /\ review = {}
<1>0. n > 0
  BY DEF IndInv, AttemptInv
<1>1. n \in Indices /\ n \in Nat /\ Indices = 1..n
  BY <1>0, LengthIsNat DEF IndInv, LoopType
<1>2. log[n] \in Entry
  BY <1>1, EntryTyped DEF IndInv, LoopType
<1>3. prop \in Proposals /\ prop = log[n].prop
  BY <1>2 DEF Entry, prop
<1>4. status \notin Terminal /\ review = {}
  BY DEF IndInv, ClosedInv, AttemptInv, Judging, Acting
<1> QED BY <1>1, <1>2, <1>3, <1>4

\* A handler that stays with its attempt: pc and cur move, nothing else does.
Handling ==
  /\ UNCHANGED <<status, log, approvals, verifications, turns, file, version, ran, edits, ctx,
                 run, guard, review>>
  /\ Fault \/ UNCHANGED faults
  /\ pc \in Acting /\ pc' \in {"commit", "rename"}

LEMMA HandlingKeeps ==
  ASSUME IndInv, Handling, cur' \in CurType,
         pc' = "rename" => pc = "execute" /\ IsWriteTool(prop) /\ Before[prop] # After[prop],
         pc' = "commit" /\ IsWriteTool(prop) /\ cur'.evidence # None /\ edits = 0
           => file = cur'.evidence
  PROVE  IndInv'
<1>0. /\ UNCHANGED <<status, log, approvals, verifications, turns, file, version, ran, edits, ctx,
                     run, guard, review>>
      /\ Fault \/ UNCHANGED faults
      /\ pc \in Acting /\ pc' \in {"commit", "rename"}
  BY DEF Handling
<1>1. LoopType'
  BY <1>0, TypesStep, FaultTyped
  DEF IndInv, LoopType, TypeOK, RunType, Places, Looping, Acting
<1>2. Quiet
  <2>1. review' = {} /\ review' \subseteq review /\ version <= version'
    BY <1>0, AtHand DEF IndInv, LoopType, TypeOK
  <2>2. \A p \in Proposals : ExecutionsOf(p) # {} => \E m \in ExecutionsOf(p) : guard'[p] = log[m].sig
    BY <1>0, Knows DEF Looping, Acting
  <2>3. pc' = "rename" => n \notin ran
    BY DEF IndInv, EvidenceInv
  <2>4. pc' \notin (Looping \ Acting) \cup {"start", "finalize"} /\ pc' \notin Judging
        /\ pc' \in Acting /\ pc' \notin {"guard", "decide", "execute", "observe"}
    BY <1>0 DEF Looping, Acting, Judging, Concluding
  <2> QED BY <1>0, <2>1, <2>2, <2>3, <2>4 DEF Quiet
<1>3. ClosedInv'
  BY <1>0, <1>2, QuietTask DEF Acting
<1> QED BY <1>1, <1>2, <1>3, QuietKeeps

LEMMA ReturnedTyped ==
  ASSUME IndInv, NEW e \in Evidence \cup {None}, Returned(e)
  PROVE  pc' = "commit" /\ cur' \in CurType /\ cur'.evidence = e
<1>1. pc' = "commit" /\ cur' = [cur EXCEPT !.evidence = e] /\ cur \in CurType
  BY DEF Returned, IndInv, LoopType
<1>2. cur'.evidence = e
  BY <1>1 DEF CurType
<1> QED BY <1>1, <1>2, CurTyped

LEMMA EvaluatePolicyKeeps ==
  ASSUME IndInv, EvaluatePolicy
  PROVE  IndInv'
<1>0. /\ pc = "evaluate" /\ pc' = "decide"
      /\ UNCHANGED <<status, log, approvals, verifications, turns, file, version, ran, edits, ctx,
                     run, guard, review>>
      /\ Fault \/ UNCHANGED faults
  BY DEF EvaluatePolicy, store, disk
<1>a. /\ n \in Indices /\ prop \in Proposals /\ review = {}
      /\ Mode[prop] \in {"allow", "deny", "approval_required"}
  BY <1>0, AtHand DEF Judging
<1>b. Evaluate(prop) \in {"allowed", "denied", "approval_required"}
  BY DEF Evaluate
<1>c. cur' \in CurType /\ cur'.decision \in {Evaluate(prop), "approval_required"}
  <2> DEFINE e == Evaluate(prop)
  <2>0. cur \in CurType
    BY DEF IndInv, LoopType
  <2>1. \E d \in {e, "approval_required"} : cur' = [cur EXCEPT !.decision = d]
    BY DEF EvaluatePolicy
  <2>2. PICK d \in {e, "approval_required"} : cur' = [cur EXCEPT !.decision = d]
    BY <2>1
  <2>3. d \in {"none", "allowed", "denied", "approval_required"}
    BY <1>b, <2>2
  <2>4. cur'.decision = d
    BY <2>0, <2>2 DEF CurType
  <2>5. cur' \in CurType
    BY <2>0, <2>2, <2>3, CurTyped
  <2> QED BY <2>2, <2>4, <2>5
<1>1. LoopType'
  BY <1>0, <1>c, TypesStep, FaultTyped
  DEF IndInv, LoopType, TypeOK, RunType, Places, Looping, Judging
<1>2. Quiet
  <2>1. review' = {} /\ review' \subseteq review /\ version <= version'
    BY <1>0, <1>a DEF IndInv, LoopType, TypeOK
  <2>2. /\ \A p \in Proposals : ExecutionsOf(p) # {} => \E m \in ExecutionsOf(p) : guard'[p] = log[m].sig
        /\ \A i \in Indices : log[i].attempt \notin Unknown
    BY <1>0, Knows DEF Looping, Acting, Judging
  <2>3. cur'.decision = "allowed" /\ Mode[prop] = "approval_required"
          => approvals[prop] = "approved"
    BY <1>c DEF Evaluate
  <2> QED BY <1>0, <2>1, <2>2, <2>3 DEF Quiet, Judging, Acting
<1>3. ClosedInv'
  BY <1>0, <1>2, QuietTask
<1> QED BY <1>1, <1>2, <1>3, QuietKeeps

LEMMA ExecuteReadKeeps ==
  ASSUME IndInv, ExecuteRead
  PROVE  IndInv'
<1>0. /\ pc = "execute" /\ Kind[prop] = "read"
      /\ \/ Returned(Seen)
         \/ Returned(None)
  BY DEF ExecuteRead
<1>1. pc' = "commit" /\ cur' \in CurType
  BY <1>0, ReturnedTyped DEF Evidence
<1>2. Handling /\ ~IsWriteTool(prop)
  BY <1>0, <1>1 DEF ExecuteRead, Handling, Acting, IsWriteTool, store, disk
<1> QED BY <1>1, <1>2, HandlingKeeps

LEMMA ValidateWriteKeeps ==
  ASSUME IndInv, ValidateWrite
  PROVE  IndInv'
<1>0. pc = "execute" /\ IsWriteTool(prop)
  BY DEF ValidateWrite
<1>a. After[prop] \in Contents /\ Before[prop] \in Contents
  BY <1>0, AtHand DEF Acting
<1>b. \/ Returned(None)
      \/ Returned(After[prop]) /\ file = After[prop]
      \/ pc' = "rename" /\ UNCHANGED cur /\ Before[prop] # After[prop]
  BY DEF ValidateWrite
<1>c. /\ pc' \in {"commit", "rename"} /\ cur' \in CurType
      /\ pc' = "rename" => Before[prop] # After[prop]
      /\ pc' = "commit" /\ cur'.evidence # None => file = cur'.evidence
  <2>1. CASE Returned(None)
    BY <2>1, ReturnedTyped
  <2>2. CASE Returned(After[prop]) /\ file = After[prop]
    BY <1>a, <2>2, ReturnedTyped DEF Evidence
  <2>3. CASE pc' = "rename" /\ UNCHANGED cur /\ Before[prop] # After[prop]
    BY <2>3 DEF IndInv, LoopType
  <2> QED BY <1>b, <2>1, <2>2, <2>3
<1>2. Handling
  BY <1>0, <1>c DEF ValidateWrite, Handling, Acting, store, disk
<1> QED BY <1>0, <1>c, <1>2, HandlingKeeps

LEMMA ObserveWriteKeeps ==
  ASSUME IndInv, ObserveWrite
  PROVE  IndInv'
<1>0. pc = "observe"
  BY DEF ObserveWrite
<1>a. After[prop] \in Contents
  BY <1>0, AtHand DEF Acting
<1>b. \/ Returned(After[prop]) /\ file = After[prop]
      \/ Returned(None)
  BY DEF ObserveWrite
<1>c. /\ pc' = "commit" /\ cur' \in CurType
      /\ cur'.evidence # None => file = cur'.evidence
  <2>1. CASE Returned(None)
    BY <2>1, ReturnedTyped
  <2>2. CASE Returned(After[prop]) /\ file = After[prop]
    BY <1>a, <2>2, ReturnedTyped DEF Evidence
  <2> QED BY <1>b, <2>1, <2>2
<1>2. Handling
  BY <1>0, <1>c DEF ObserveWrite, Handling, Acting, store, disk
<1> QED BY <1>c, <1>2, HandlingKeeps

LEMMA WriteFailsKeeps ==
  ASSUME IndInv, WriteFails
  PROVE  IndInv'
<1>0. pc \in {"rename", "observe"} /\ Returned(None)
  BY DEF WriteFails
<1>1. pc' = "commit" /\ cur' \in CurType /\ cur'.evidence = None
  BY <1>0, ReturnedTyped
<1>2. Handling
  BY <1>0, <1>1 DEF WriteFails, Handling, Acting, store, disk
<1> QED BY <1>1, <1>2, HandlingKeeps

(* ------------- steps that change the file or the approvals ------------- *)

\* The log stays, the signature may only move forward and the guard as it was.
LEMMA SameLogGuard ==
  ASSUME IndInv, LoopType', UNCHANGED <<log, guard>>, version <= version', pc' \in Looping => pc \in Looping
  PROVE  GuardInv'
<1>0. /\ Indices' = Indices /\ \A p : ExecutionsOf(p)' = ExecutionsOf(p)
      /\ \A p, j : Gap(p, j)' = Gap(p, j)
  BY DEF Indices, ExecutionsOf, Gap
<1>1. /\ \A i \in Indices' : log'[i].sig <= version'
      /\ \A i, j \in Indices' : i <= j /\ log'[j].sig # NoSig => log'[i].sig <= log'[j].sig
  <2>1. \A i \in Indices : log[i].sig \in Nat
    BY EntryTyped DEF IndInv, LoopType, Entry
  <2>2. version \in Nat /\ version' \in Nat
    BY DEF IndInv, LoopType, TypeOK
  <2> QED BY <1>0, <2>1, <2>2 DEF IndInv, GuardInv
<1>2. ASSUME NEW p \in Proposals, NEW f \in Indices, First(p, f)
      PROVE  First(p, f)'
  BY <1>0, <1>2 DEF First
<1> QED BY <1>0, <1>1, <1>2 DEF IndInv, GuardInv

LEMMA SameLog ==
  ASSUME UNCHANGED log
  PROVE  /\ n' = n /\ Indices' = Indices /\ prop' = prop /\ Writes' = Writes
         /\ Recorded' = Recorded /\ Unsettled' = Unsettled
  BY DEF n, Indices, prop, Writes, Recorded, Greatest, Unsettled

LEMMA DecideKeeps ==
  ASSUME NEW p \in Proposals, NEW d \in {"approved", "rejected"}, IndInv, Decide(p, d)
  PROVE  IndInv'
<1>0. /\ approvals' = [approvals EXCEPT ![p] = d] /\ approvals[p] = "none"
      /\ UNCHANGED <<status, log, verifications, turns, file, version, ran, edits, pc, ctx, cur,
                     run, guard, review, faults>>
  BY DEF Decide, PendingApprovals, task, disk, memory
<1>a. \A q \in Proposals : approvals[q] # "none" => approvals'[q] = approvals[q]
  BY <1>0 DEF IndInv, LoopType, TypeOK
<1>b. \A i \in Indices : log[i].prop \in Proposals
  BY EntryTyped DEF IndInv, LoopType, Entry
<1>c. prop = log[n].prop /\ (pc \in Judging \cup Acting => prop \in Proposals)
  BY AtHand DEF prop
<1>1. LoopType'
  BY <1>0 DEF IndInv, LoopType, TypeOK, Indices
<1>2. AttemptInv'
  BY <1>0 DEF IndInv, AttemptInv, Indices, n
<1>3. ClosedInv'
  <2>1. ran \subseteq Indices
    BY DEF IndInv, LoopType, TypeOK
  <2>2. \A i \in Indices : approvals[log[i].prop] # "none" => approvals'[log[i].prop] # "none"
    BY <1>a, <1>b
  <2> QED BY <1>0, <2>2, SameLog
          DEF IndInv, ClosedInv, UncertainStaysReachable, CompletedIsSettled
<1>4. AuthorityInv'
  <2>1. ran \subseteq Indices
    BY DEF IndInv, LoopType, TypeOK
  <2>2. EffectAuthorized'
    BY <1>0, <1>a, <1>b, <2>1 DEF IndInv, AuthorityInv, EffectAuthorized
  <2>3. pc \in Judging \cup Acting =>
          (approvals[prop] = "approved" => approvals'[prop] = "approved")
    BY <1>a, <1>c
  <2> QED BY <1>0, <2>2, <2>3, SameLog
          DEF IndInv, AuthorityInv, Authorized, Judging
<1>5. GuardInv'
  BY <1>0, <1>1, SameLogGuard DEF IndInv, LoopType, TypeOK
<1>6. EvidenceInv'
  BY <1>0, SameLog DEF IndInv, EvidenceInv, InFlight
<1> QED BY <1>1, <1>2, <1>3, <1>4, <1>5, <1>6 DEF IndInv

LEMMA EditKeeps ==
  ASSUME NEW c \in Contents, IndInv, Edit(c)
  PROVE  IndInv'
<1>0. /\ edits' = edits + 1 /\ edits < MaxEdits /\ file' = c /\ version' = version + 1
      /\ UNCHANGED <<status, log, approvals, verifications, turns, ran, pc, ctx, cur, run, guard,
                     review, faults>>
  BY DEF Edit, store, memory
<1>a. edits' \in 0..MaxEdits /\ edits' # 0 /\ version' \in Nat /\ version <= version'
  BY <1>0 DEF IndInv, LoopType, TypeOK
<1>1. LoopType'
  BY <1>0, <1>a DEF IndInv, LoopType, TypeOK, Indices
<1>2. AttemptInv'
  BY <1>0 DEF IndInv, AttemptInv, Indices, n
<1>3. ClosedInv'
  BY <1>0, SameLog
  DEF IndInv, ClosedInv, UncertainStaysReachable, CompletedIsSettled
<1>4. AuthorityInv'
  BY <1>0, SameLog
  DEF IndInv, AuthorityInv, Authorized, EffectAuthorized
<1>5. GuardInv'
  BY <1>0, <1>1, <1>a, SameLogGuard
<1>6. EvidenceInv'
  BY <1>0, <1>a, SameLog DEF IndInv, EvidenceInv
<1> QED BY <1>1, <1>2, <1>3, <1>4, <1>5, <1>6 DEF IndInv

LEMMA RenameWriteKeeps ==
  ASSUME IndInv, RenameWrite
  PROVE  IndInv'
<1>0. /\ pc = "rename" /\ pc' = "observe" /\ ran' = ran \cup {n}
      /\ file' = After[prop] /\ version' = version + 1
      /\ UNCHANGED <<status, log, approvals, verifications, turns, edits, ctx, cur, run, guard,
                     review, faults>>
  BY DEF RenameWrite, store, memory
<1>a. /\ n \in Indices /\ prop = log[n].prop /\ After[prop] \in Contents
      /\ status \notin Terminal /\ review = {}
  BY <1>0, AtHand DEF Acting
<1>b. version' \in Nat /\ version <= version'
  BY <1>0 DEF IndInv, LoopType, TypeOK
<1>c. n > 0 /\ log[n].attempt = "prepared" /\ IsWriteTool(prop) /\ Before[prop] # After[prop]
  BY <1>0 DEF IndInv, AttemptInv, EvidenceInv, Acting
<1>1. LoopType'
  BY <1>0, <1>a, <1>b DEF IndInv, LoopType, TypeOK, Indices, Places, Looping, Acting
<1>2. AttemptInv'
  BY <1>0, <1>a, <1>c, SameLog
  DEF IndInv, AttemptInv, Looping, Judging, Acting, Concluding
<1>3. ClosedInv'
  BY <1>0, <1>a, SameLog
  DEF IndInv, ClosedInv, UncertainStaysReachable, CompletedIsSettled, Terminal
<1>4. AuthorityInv'
  <2>1. Authorized
    BY <1>0 DEF IndInv, AuthorityInv, Acting
  <2> QED BY <1>0, <1>a, <2>1, SameLog
          DEF IndInv, AuthorityInv, Authorized, EffectAuthorized
<1>5. GuardInv'
  BY <1>0, <1>1, <1>b, SameLogGuard DEF Looping, Acting
<1>6. EvidenceInv'
  <2>1. InFlight'
    BY <1>0, <1>c, SameLog DEF InFlight, Unknown
  <2> QED BY <1>0, <1>a, <1>c, <2>1, SameLog DEF IndInv, EvidenceInv
<1> QED BY <1>1, <1>2, <1>3, <1>4, <1>5, <1>6 DEF IndInv

LEMMA ExecuteRecipeKeeps ==
  ASSUME IndInv, ExecuteRecipe
  PROVE  IndInv'
<1>0. /\ pc = "execute" /\ Kind[prop] = "run_recipe" /\ ran' \in {ran, ran \cup {n}}
      /\ \E e \in Exits \cup {None} : Returned(e)
      /\ UNCHANGED <<status, log, approvals, verifications, turns, file, version, edits, ctx, run,
                     guard, review, faults>>
  BY DEF ExecuteRecipe, store
<1>a. /\ n \in Indices /\ prop = log[n].prop /\ status \notin Terminal /\ review = {}
  BY <1>0, AtHand DEF Acting
<1>b. pc' = "commit" /\ cur' \in CurType
  <2>1. PICK e \in Exits \cup {None} : Returned(e)
    BY <1>0
  <2>2. e \in Evidence \cup {None}
    BY DEF Evidence
  <2> QED BY <2>1, <2>2, ReturnedTyped
<1>c. n > 0 /\ log[n].attempt = "prepared" /\ ~IsWriteTool(prop)
  BY <1>0 DEF IndInv, AttemptInv, Acting, IsWriteTool
<1>1. LoopType'
  BY <1>0, <1>a, <1>b DEF IndInv, LoopType, TypeOK, Indices, Places, Looping, Acting
<1>2. AttemptInv'
  BY <1>0, <1>a, <1>b, <1>c, SameLog
  DEF IndInv, AttemptInv, Looping, Judging, Acting, Concluding
<1>3. ClosedInv'
  BY <1>0, <1>a, <1>b, SameLog
  DEF IndInv, ClosedInv, UncertainStaysReachable, CompletedIsSettled, Terminal
<1>4. AuthorityInv'
  <2>1. Authorized
    BY <1>0 DEF IndInv, AuthorityInv, Acting
  <2> QED BY <1>0, <1>a, <1>b, <2>1, SameLog
          DEF IndInv, AuthorityInv, Authorized, EffectAuthorized
<1>5. GuardInv'
  BY <1>0, <1>1, <1>b, SameLogGuard DEF Looping, Acting, IndInv, LoopType, TypeOK
<1>6. EvidenceInv'
  <2>1. InFlight' = InFlight
    BY <1>0, <1>c, SameLog DEF InFlight
  <2> QED BY <1>0, <1>a, <1>b, <1>c, <2>1, SameLog DEF IndInv, EvidenceInv
<1> QED BY <1>1, <1>2, <1>3, <1>4, <1>5, <1>6 DEF IndInv

(* ----------------- steps that rewrite the last action ------------------ *)

\* The entry of the action at hand becomes e, which is of the same proposal and signature.
Rewrites(e) ==
  /\ e \in Entry /\ e.prop = log[n].prop /\ e.sig = log[n].sig
  /\ log' \in Seq(Entry) /\ n' = n /\ Indices' = Indices /\ log'[n] = e
  /\ \A j \in Indices \ {n} : log'[j] = log[j]
  /\ n \in Indices /\ n \in Nat /\ Indices = 1..n

LEMMA RewritesOne ==
  ASSUME LoopType, n > 0, NEW e \in Entry, e.prop = log[n].prop, e.sig = log[n].sig,
         log' = [log EXCEPT ![n] = e]
  PROVE  Rewrites(e)
<1>1. TypeOK /\ n \in Nat /\ Indices = 1..n
  BY LengthIsNat DEF LoopType
<1>2. n \in Indices
  BY <1>1
<1> QED BY <1>1, <1>2, Overwrite DEF Rewrites

LEMMA EntryFields ==
  ASSUME NEW x \in Entry
  PROVE  /\ \A v \in {"planned", "prepared", "rejected", "completed", "failed",
                      "human_review_required"} : [x EXCEPT !.status = v] \in Entry
         /\ \A v \in {"none", "allowed", "denied", "approval_required"} :
              [x EXCEPT !.decision = v] \in Entry
         /\ \A v \in {"none", "prepared", "completed", "failed", "reconciled",
                      "human_review_required"} : [x EXCEPT !.attempt = v] \in Entry
         /\ \A v \in Contents \cup {None} : [x EXCEPT !.planned = v] \in Entry
         /\ \A v \in {"", "replay_safe_observation", "unreconcilable_effect",
                      "write_effect_not_started", "write_effect_completed",
                      "write_effect_unreconcilable"} : [x EXCEPT !.reason = v] \in Entry
         /\ \A v \in Evidence \cup {None} : [x EXCEPT !.evidence = v] \in Entry
<1>1. /\ \A v \in {"planned", "prepared", "rejected", "completed", "failed",
                   "human_review_required"} : [x EXCEPT !.status = v] \in Entry
      /\ \A v \in {"none", "allowed", "denied", "approval_required"} :
           [x EXCEPT !.decision = v] \in Entry
  BY DEF Entry
<1>2. /\ \A v \in {"none", "prepared", "completed", "failed", "reconciled",
                   "human_review_required"} : [x EXCEPT !.attempt = v] \in Entry
      /\ \A v \in Contents \cup {None} : [x EXCEPT !.planned = v] \in Entry
  BY DEF Entry
<1>3. /\ \A v \in {"", "replay_safe_observation", "unreconcilable_effect",
                   "write_effect_not_started", "write_effect_completed",
                   "write_effect_unreconcilable"} : [x EXCEPT !.reason = v] \in Entry
      /\ \A v \in Evidence \cup {None} : [x EXCEPT !.evidence = v] \in Entry
  BY DEF Entry
<1> QED BY <1>1, <1>2, <1>3

\* What the store says about the file when an entry without evidence changes.
LEMMA RecordedKept ==
  ASSUME IndInv, Writes' = Writes, \A i \in Writes : log'[i].evidence = log[i].evidence
  PROVE  Recorded' = Recorded
<1>1. Writes # {} => Greatest(Writes) \in Writes
  BY DEF IndInv, EvidenceInv, Greatest
<1>2. Greatest(Writes)' = Greatest(Writes)
  BY DEF Greatest
<1> QED BY <1>1, <1>2 DEF Recorded

LEMMA RecordedNew ==
  ASSUME n \in Nat, Writes \subseteq 1..n, Writes' = Writes \cup {n}
  PROVE  /\ Recorded' = log'[n].evidence
         /\ \E m \in Writes' : \A j \in Writes' : j <= m
<1>1. n \in Writes' /\ \A j \in Writes' : j <= n
  OBVIOUS
<1>2. \A m \in Writes' : (\A j \in Writes' : j <= m) => m = n
  BY <1>1
<1>3. Greatest(Writes') = n
  BY <1>1, <1>2 DEF Greatest
<1>4. Greatest(Writes)' = n
  BY <1>3 DEF Greatest
<1> QED BY <1>1, <1>4 DEF Recorded

\* The guard's knowledge when the last action is rewritten: an attempt that starts has another
\* signature than the first execution, and an execution that ends is remembered.
LEMMA GuardRewrite ==
  ASSUME NEW e, NEW q \in Proposals, q = log[n].prop, IndInv, Rewrites(e), version' = version,
         \A p \in Proposals : n \notin ExecutionsOf(p),
         e.attempt # "none" /\ log[n].attempt = "none" =>
           \A f \in Indices : First(q, f) => log[n].sig # log[f].sig \/ Gap(q, n),
         pc' \in Looping =>
           /\ pc \in Looping
           /\ \A p \in Proposals \ {q} : guard'[p] = guard[p]
           /\ guard'[q] = IF n \in ExecutionsOf(q)' THEN log[n].sig ELSE guard[q]
  PROVE  GuardInv'
<1>0. /\ e \in Entry /\ e.prop = log[n].prop /\ e.sig = log[n].sig
      /\ n' = n /\ Indices' = Indices /\ log'[n] = e
      /\ \A j \in Indices \ {n} : log'[j] = log[j]
      /\ n \in Indices /\ n \in Nat /\ Indices = 1..n
  BY DEF Rewrites
<1>a. \A i \in Indices : log'[i].sig = log[i].sig /\ log'[i].prop = log[i].prop
  BY <1>0
<1>b. /\ \A p \in Proposals \ {q} : ExecutionsOf(p)' = ExecutionsOf(p)
      /\ ExecutionsOf(q)' \in {ExecutionsOf(q), ExecutionsOf(q) \cup {n}}
      /\ \A p \in Proposals : ExecutionsOf(p) \subseteq 1..n /\ ExecutionsOf(p) \subseteq ExecutionsOf(p)'
  BY <1>0, <1>a DEF ExecutionsOf
<1>g. \A p \in Proposals, j \in Indices : Gap(p, j) => Gap(p, j)'
  BY <1>0, <1>a, <1>b DEF Gap
<1>1. \A i \in Indices' : log'[i].sig <= version'
  BY <1>0, <1>a DEF IndInv, GuardInv
<1>2. \A i, j \in Indices' : i <= j /\ log'[j].sig # NoSig => log'[i].sig <= log'[j].sig
  BY <1>0, <1>a DEF IndInv, GuardInv
<1>3. ASSUME NEW p \in Proposals, ExecutionsOf(p) # {}
      PROVE  \E f \in Indices : First(p, f)'
  <2>1. PICK f \in Indices : First(p, f)
    BY <1>3 DEF IndInv, GuardInv
  <2>2. f \in ExecutionsOf(p) /\ (\A j \in ExecutionsOf(p) : f <= j) /\ f # n /\ f <= n
    BY <1>0, <1>b, <2>1 DEF First
  <2>3. f \in ExecutionsOf(p)' /\ \A j \in ExecutionsOf(p)' : f <= j
    <3>1. CASE p = q
      BY <1>b, <2>2, <3>1
    <3>2. CASE p # q
      BY <1>b, <2>2, <3>2
    <3> QED BY <3>1, <3>2
  <2>4. ASSUME NEW j \in Indices, j > f, log'[j].prop = p, log'[j].attempt # "none"
        PROVE  log'[j].sig # log'[f].sig \/ Gap(p, j)'
    <3>1. CASE j = n
      <4>1. p = q /\ e.attempt # "none" /\ log'[f] = log[f]
        BY <1>0, <1>a, <2>2, <2>4, <3>1
      <4>2. CASE log[n].attempt = "none"
        BY <1>0, <1>a, <1>g, <2>1, <3>1, <4>1, <4>2
      <4>3. CASE log[n].attempt # "none"
        BY <1>0, <1>a, <1>g, <2>1, <2>4, <3>1, <4>1, <4>3 DEF First
      <4> QED BY <4>2, <4>3
    <3>2. CASE j # n
      BY <1>0, <1>a, <1>g, <2>1, <2>2, <2>4, <3>2 DEF First
    <3> QED BY <3>1, <3>2
  <2>5. ASSUME pc' \in Looping
        PROVE  \E m \in ExecutionsOf(p)' : guard'[p] = log'[m].sig
    <3>1. PICK m \in ExecutionsOf(p) : pc \in Looping /\ guard[p] = log[m].sig
      BY <2>1, <2>5 DEF First
    <3>2. CASE p # q \/ n \notin ExecutionsOf(p)'
      BY <1>0, <1>a, <1>b, <2>5, <3>1, <3>2
    <3>3. CASE p = q /\ n \in ExecutionsOf(p)'
      BY <1>0, <1>a, <2>5, <3>3
    <3> QED BY <3>2, <3>3
  <2> QED BY <1>0, <2>3, <2>4, <2>5 DEF First
<1>4. ASSUME NEW p \in Proposals, ExecutionsOf(p) = {}, ExecutionsOf(p)' # {}
      PROVE  First(p, n)'
  <2>1. p = q /\ ExecutionsOf(p)' = {n}
    BY <1>b, <1>4
  <2>2. pc' \in Looping => guard'[p] = log'[n].sig
    BY <1>0, <1>a, <2>1
  <2>3. \A j \in Indices : ~(j > n)
    BY <1>0
  <2> QED BY <1>0, <2>1, <2>2, <2>3 DEF First
<1> QED BY <1>0, <1>1, <1>2, <1>3, <1>4 DEF GuardInv

\* The three steps that record what became of an action before it has an attempt.
LEMMA JudgedKeeps ==
  ASSUME NEW e, IndInv, LoopType', Rewrites(e), pc \in Judging,
         e.attempt = log[n].attempt, e.reason = log[n].reason, e.evidence = log[n].evidence,
         UNCHANGED <<status, approvals, verifications, file, version, ran, edits, guard, review>>,
         pc' \in {"deny", "pause", "guard", "head", "finalize"},
         pc' \in {"deny", "guard"} => pc = "decide",
         pc' = "guard" /\ Gated(prop) => /\ e.decision = "allowed"
                                         /\ Mode[prop] = "approval_required"
                                              => approvals[prop] = "approved"
  PROVE  IndInv'
<1>a. /\ n \in Indices /\ n \in Nat /\ Indices = 1..n /\ log[n] \in Entry /\ prop \in Proposals
      /\ prop = log[n].prop /\ status \notin Terminal /\ review = {}
  BY AtHand
<1>b. n > 0 /\ log[n].attempt = "none" /\ \A i \in Indices : log[i].attempt \notin Unknown
  BY Knows DEF IndInv, AttemptInv, Judging, Looping, Acting
<1>e. /\ n' = n /\ Indices' = Indices /\ log'[n] = e
      /\ \A j \in Indices \ {n} : log'[j] = log[j]
      /\ \A j \in Indices : /\ log'[j].prop = log[j].prop /\ log'[j].attempt = log[j].attempt
                            /\ log'[j].reason = log[j].reason
                            /\ log'[j].evidence = log[j].evidence
      /\ prop' = prop
  BY <1>a DEF Rewrites, prop
<1>f. n \notin ran /\ ran \subseteq Indices
  BY <1>b DEF IndInv, AttemptInv, LoopType, TypeOK
<1>2. AttemptInv'
  <2>1. /\ \A i \in Indices' : log'[i].attempt \notin Unknown
        /\ \A i \in ran' : log'[i].attempt # "none"
        /\ review' = {}
    <3>1. \A i \in ran : log[i].attempt # "none"
      BY DEF IndInv, AttemptInv
    <3> QED BY <1>a, <1>b, <1>e, <1>f, <3>1
  <2>2. \A i \in Indices' : WellKept(log'[i])
    <3>1. \A i \in Indices : WellKept(log[i])
      BY DEF IndInv, AttemptInv
    <3> QED BY <1>e, <3>1, ZenonT(40) DEF WellKept
  <2>3. n' > 0 /\ log'[n'].attempt = "none" /\ pc' \notin Acting
    BY <1>a, <1>b, <1>e DEF Acting
  <2> QED BY <2>1, <2>2, <2>3 DEF AttemptInv
<1>3. ClosedInv'
  BY <1>a DEF ClosedInv, UncertainStaysReachable, CompletedIsSettled, Terminal
<1>4. AuthorityInv'
  <2>1. EffectAuthorized'
    BY <1>e, <1>f DEF IndInv, AuthorityInv, EffectAuthorized
  <2>2. pc' = "guard" => Authorized'
    BY <1>a, <1>e DEF Authorized
  <2> QED BY <2>1, <2>2 DEF AuthorityInv, Acting
<1>5. GuardInv'
  <2>1. \A p \in Proposals : n \notin ExecutionsOf(p) /\ n \notin ExecutionsOf(p)'
    BY <1>a, <1>b, <1>e DEF ExecutionsOf, IndInv, AttemptInv, WellKept
  <2>2. pc \in Looping
    BY DEF Looping
  <2> QED BY <1>a, <1>b, <2>1, <2>2, GuardRewrite
<1>6. EvidenceInv'
  <2>1. Writes' = Writes
    BY <1>e DEF Writes
  <2>2. Recorded' = Recorded
    BY <1>e, <2>1, RecordedKept DEF Writes
  <2>3. ~InFlight /\ ~InFlight'
    BY <1>e, <1>f DEF InFlight
  <2> QED BY <1>e, <1>f, <2>1, <2>2, <2>3 DEF IndInv, EvidenceInv
<1> QED BY <1>2, <1>3, <1>4, <1>5, <1>6 DEF IndInv

LEMMA RecordPolicyDecisionKeeps ==
  ASSUME IndInv, RecordPolicyDecision
  PROVE  IndInv'
<1> DEFINE e == [log[n] EXCEPT !.decision = cur.decision]
<1>0. /\ pc = "decide" /\ log' = [log EXCEPT ![n] = e]
      /\ pc' \in {"deny", "pause", "guard"} /\ cur' \in CurType
      /\ pc' = "guard" => cur.decision = "allowed"
      /\ UNCHANGED <<status, approvals, verifications, turns, file, version, ran, edits, ctx, run,
                     guard, review, faults>>
  <2>1. cur \in CurType
    BY DEF IndInv, LoopType
  <2> QED BY <2>1, PauseTyped DEF RecordPolicyDecision, task, disk, Reasons
<1>a. n > 0 /\ n \in Nat /\ log[n] \in Entry
  BY <1>0, AtHand DEF Judging
<1>c. /\ e \in Entry /\ e.decision = cur.decision
      /\ e.prop = log[n].prop /\ e.sig = log[n].sig /\ e.attempt = log[n].attempt
      /\ e.reason = log[n].reason /\ e.evidence = log[n].evidence
  <2>1. cur.decision \in {"none", "allowed", "denied", "approval_required"}
    BY DEF IndInv, LoopType, CurType
  <2>2. e \in Entry
    BY <1>a, <2>1, EntryFields
  <2> QED BY <1>a, <2>2 DEF Entry
<1> HIDE DEF e
<1>d. Rewrites(e)
  BY <1>0, <1>a, <1>c, RewritesOne DEF IndInv
<1>1. LoopType'
  BY <1>0, <1>d DEF Rewrites, IndInv, LoopType, TypeOK, Places, Looping, Judging
<1>2. cur.decision = "allowed" /\ Mode[prop] = "approval_required"
        => approvals[prop] = "approved"
  BY <1>0 DEF IndInv, AuthorityInv
<1>3. pc \in Judging
  BY <1>0 DEF Judging
<1> QED BY <1>0, <1>c, <1>d, <1>1, <1>2, <1>3, JudgedKeeps

LEMMA RejectDeniedKeeps ==
  ASSUME IndInv, RejectDenied
  PROVE  IndInv'
<1> DEFINE e == [log[n] EXCEPT !.status = "rejected"]
<1>0. /\ pc = "deny" /\ log' = [log EXCEPT ![n] = e]
      /\ UNCHANGED <<status, approvals, verifications, turns, file, version, ran, edits, ctx, guard,
                     review, faults>>
  BY DEF RejectDenied, task, disk
<1>b. pc' \in {"head", "finalize"} /\ cur' \in CurType /\ run' \in RunType
  <2>0. run \in RunType
    BY DEF IndInv, LoopType, TypeOK, RunType
  <2>1. CASE run.corrections >= MaxCorrections
    BY <2>0, <2>1, StopTyped DEF RejectDenied, Correction, Reasons
  <2>2. CASE ~(run.corrections >= MaxCorrections)
    <3>1. run.corrections < MaxCorrections
      BY <2>2, RunTyped DEF IndInv
    <3> QED BY <2>2, <3>1, RunTyped, NextTurnTyped DEF RejectDenied, Correction, IndInv
  <2> QED BY <2>1, <2>2
<1>a. n > 0 /\ n \in Nat /\ log[n] \in Entry
  BY <1>0, AtHand DEF Judging
<1>c. /\ e \in Entry
      /\ e.prop = log[n].prop /\ e.sig = log[n].sig /\ e.attempt = log[n].attempt
      /\ e.reason = log[n].reason /\ e.evidence = log[n].evidence
  <2>1. e \in Entry
    BY <1>a, EntryFields
  <2> QED BY <1>a, <2>1 DEF Entry
<1> HIDE DEF e
<1>d. Rewrites(e)
  BY <1>0, <1>a, <1>c, RewritesOne DEF IndInv
<1>1. LoopType'
  BY <1>0, <1>b, <1>d
  DEF Rewrites, IndInv, LoopType, TypeOK, RunType, Places, Looping
<1>3. pc \in Judging
  BY <1>0 DEF Judging
<1> QED BY <1>0, <1>b, <1>c, <1>d, <1>1, <1>3, JudgedKeeps

LEMMA RejectRepeatedKeeps ==
  ASSUME IndInv, RejectRepeated
  PROVE  IndInv'
<1> DEFINE e == [log[n] EXCEPT !.status = "rejected"]
<1>0. /\ pc = "guard" /\ log' = [log EXCEPT ![n] = e]
      /\ UNCHANGED <<status, approvals, verifications, turns, file, version, ran, edits, ctx, guard,
                     review, faults>>
  BY DEF RejectRepeated, task, disk
<1>b. pc' \in {"head", "finalize"} /\ cur' \in CurType /\ run' \in RunType
  <2>1. CASE run.repeated + 1 > MaxRepeatedActions
    BY <2>1, RunTyped, StopTyped DEF RejectRepeated, Reasons, IndInv
  <2>2. CASE ~(run.repeated + 1 > MaxRepeatedActions)
    BY <2>2, RunTyped, NextTurnTyped DEF RejectRepeated, IndInv
  <2> QED BY <2>1, <2>2
<1>a. n > 0 /\ n \in Nat /\ log[n] \in Entry
  BY <1>0, AtHand DEF Judging
<1>c. /\ e \in Entry
      /\ e.prop = log[n].prop /\ e.sig = log[n].sig /\ e.attempt = log[n].attempt
      /\ e.reason = log[n].reason /\ e.evidence = log[n].evidence
  <2>1. e \in Entry
    BY <1>a, EntryFields
  <2> QED BY <1>a, <2>1 DEF Entry
<1> HIDE DEF e
<1>d. Rewrites(e)
  BY <1>0, <1>a, <1>c, RewritesOne DEF IndInv
<1>1. LoopType'
  BY <1>0, <1>b, <1>d
  DEF Rewrites, IndInv, LoopType, TypeOK, RunType, Places, Looping
<1>3. pc \in Judging
  BY <1>0 DEF Judging
<1> QED BY <1>0, <1>b, <1>c, <1>d, <1>1, <1>3, JudgedKeeps

(* ---------------------------- tool attempts ---------------------------- *)

\* Rewriting the last action while an attempt of it begins, ends or is reconciled.
LEMMA RewrittenAttempt ==
  ASSUME NEW e, IndInv, Rewrites(e), WellKept(e), e.attempt # "none",
         \A i \in Indices \ {n} : log[i].attempt \notin Unknown,
         UNCHANGED ran
  PROVE  /\ \A i \in Indices' : log'[i].attempt \in Unknown => i = n'
         /\ \A i \in Indices' : WellKept(log'[i])
         /\ \A i \in ran' : log'[i].attempt # "none"
         /\ prop' = prop
<1>0. /\ n' = n /\ Indices' = Indices /\ log'[n] = e /\ e.prop = log[n].prop
      /\ \A j \in Indices \ {n} : log'[j] = log[j]
  BY DEF Rewrites
<1>1. /\ \A i \in Indices : WellKept(log[i])
      /\ \A i \in ran : log[i].attempt # "none"
      /\ ran \subseteq Indices
  BY DEF IndInv, AttemptInv, LoopType, TypeOK
<1>2. \A i \in Indices : WellKept(log'[i])
  <2>1. ASSUME NEW i \in Indices PROVE WellKept(log'[i])
    <3>1. CASE i = n
      BY <1>0, <3>1
    <3>2. CASE i # n
      BY <1>0, <1>1, <3>2
    <3> QED BY <3>1, <3>2
  <2> QED BY <2>1
<1> QED BY <1>0, <1>1, <1>2 DEF prop

LEMMA Appended ==
  ASSUME NEW s \in Seq(Entry), NEW e \in Entry
  PROVE  /\ Append(s, e) \in Seq(Entry) /\ Len(Append(s, e)) = Len(s) + 1
         /\ Append(s, e)[Len(s) + 1] = e
         /\ \A i \in 1..Len(s) : Append(s, e)[i] = s[i]
  OBVIOUS

LEMMA RecordActionKeeps ==
  ASSUME IndInv, RecordAction
  PROVE  IndInv'
<1>s. PICK sig \in {version, NoSig} :
        /\ log' = Append(log, NewAction(cur.prop, sig))
        /\ faults' = faults \/ (faults < MaxFaults /\ faults' = faults + 1)
  BY DEF RecordAction, Fault
<1> DEFINE e == NewAction(cur.prop, sig)
<1>0. /\ pc = "record" /\ pc' \in {"evaluate", "guard"} /\ (pc' = "guard" => ~Gated(cur.prop))
      /\ UNCHANGED <<status, approvals, verifications, turns, file, version, ran, edits, ctx, cur,
                     run, guard, review>>
  BY DEF RecordAction, task, disk, memory
<1>L. log' = Append(log, e)
  BY <1>s
<1>t. faults' \in 0..MaxFaults
  BY <1>s, LoopAssumption DEF IndInv, LoopType, TypeOK
<1>a. /\ TypeOK /\ n \in Nat /\ Indices = 1..n /\ status \notin Terminal /\ review = {}
      /\ log \in Seq(Entry) /\ ran \subseteq Indices /\ version \in Nat
  BY <1>0, LengthIsNat DEF IndInv, LoopType, ClosedInv, AttemptInv, TypeOK
<1>b. \A i \in Indices : log[i].attempt \notin Unknown
  BY <1>0, Knows DEF Looping, Acting, Judging
<1>c. /\ e \in Entry /\ e.prop = cur.prop /\ e.sig = sig /\ e.attempt = "none"
      /\ e.reason = "" /\ e.evidence = None /\ cur.prop \in Proposals
  <2>1. sig \in Nat /\ cur.prop \in Proposals
    BY <1>0, <1>a, <1>s DEF NoSig, IndInv, LoopType
  <2> QED BY <2>1 DEF NewAction, Entry
<1> HIDE DEF e
<1>d. /\ log' \in Seq(Entry) /\ n' = n + 1 /\ Indices' = 1..(n+1)
      /\ log'[n + 1] = e /\ \A i \in Indices : log'[i] = log[i]
  <2>1. log' \in Seq(Entry) /\ Len(log') = Len(log) + 1
    BY <1>L, <1>a, <1>c, Appended
  <2>2. log'[Len(log) + 1] = e /\ \A i \in 1..Len(log) : log'[i] = log[i]
    <3>1. log \in Seq(Entry) /\ e \in Entry
      BY <1>a, <1>c
    <3>2. /\ Append(log, e)[Len(log) + 1] = e
          /\ \A i \in 1..Len(log) : Append(log, e)[i] = log[i]
      BY <3>1, Appended
    <3> QED BY <1>L, <3>2
  <2>3. n' = n + 1 /\ Indices' = 1..(n + 1) /\ Len(log) = n
    BY <2>1 DEF n, Indices
  <2> QED BY <1>a, <2>1, <2>2, <2>3 DEF n
<1>e. /\ Indices \subseteq Indices' /\ n + 1 \in Indices' /\ n + 1 \notin Indices
      /\ \A i \in Indices' : i = n + 1 \/ i \in Indices
  BY <1>a, <1>d
<1>f. \A p \in Proposals : ExecutionsOf(p)' = ExecutionsOf(p) /\ ExecutionsOf(p) \subseteq Indices
  BY <1>c, <1>d, <1>e DEF ExecutionsOf
<1>k. \A p \in Proposals, j \in Indices : Gap(p, j) => Gap(p, j)'
  BY <1>d, <1>f DEF Gap
<1>g. Writes' = Writes /\ Writes \subseteq Indices
  BY <1>c, <1>d, <1>e DEF Writes
<1>h. prop' = cur.prop /\ log'[n'] = e
  BY <1>c, <1>d DEF prop
<1>1. LoopType'
  BY <1>0, <1>a, <1>d, <1>e, <1>t DEF IndInv, LoopType, TypeOK, Places, Looping, Judging
<1>2. AttemptInv'
  <2>1. /\ \A i \in Indices' : log'[i].attempt \notin Unknown
        /\ \A i \in Indices' : WellKept(log'[i])
    BY <1>b, <1>c, <1>d, <1>e, ZenonT(40) DEF IndInv, AttemptInv, WellKept, Unknown
  <2>2. \A i \in ran' : log'[i].attempt # "none"
    BY <1>0, <1>a, <1>d DEF IndInv, AttemptInv
  <2>3. n' > 0 /\ log'[n'].attempt = "none" /\ review' = {} /\ pc' \notin Acting
    <3>1. n' > 0
      BY <1>a, <1>d
    <3> QED BY <1>0, <1>a, <1>c, <1>h, <3>1 DEF Acting
  <2> QED BY <2>1, <2>2, <2>3 DEF AttemptInv
<1>3. ClosedInv'
  BY <1>0, <1>a DEF ClosedInv, UncertainStaysReachable, CompletedIsSettled, Terminal
<1>4. AuthorityInv'
  <2>1. EffectAuthorized'
    BY <1>0, <1>a, <1>d DEF IndInv, AuthorityInv, EffectAuthorized
  <2>2. pc' = "guard" => Authorized'
    BY <1>0, <1>h DEF Authorized
  <2> QED BY <1>0, <2>1, <2>2 DEF AuthorityInv, Acting
<1>5. GuardInv'
  <2>1. \A i \in Indices' : log'[i].sig <= version' /\ log'[i].sig \in Nat
    <3>1. \A i \in Indices : log[i].sig <= version /\ log[i].sig \in Nat
      BY <1>a, EntryTyped DEF IndInv, GuardInv, Entry
    <3>2. ASSUME NEW i \in Indices' PROVE log'[i].sig <= version /\ log'[i].sig \in Nat
      <4>1. CASE i = n + 1
        <5>1. log'[i] = e
          BY <1>d, <4>1
        <5>2. log'[i].sig \in {version, 0}
          BY <1>c, <1>s, <5>1 DEF NoSig
        <5>3. version \in Nat /\ version <= version
          BY <1>a
        <5> QED BY <5>2, <5>3
      <4>2. CASE i \in Indices
        BY <1>d, <3>1, <4>2
      <4> QED BY <1>e, <4>1, <4>2
    <3> QED BY <1>0, <3>2
  <2>2. \A i, j \in Indices' : i <= j /\ log'[j].sig # NoSig => log'[i].sig <= log'[j].sig
    <3>1. ASSUME NEW i \in Indices', NEW j \in Indices', i <= j, log'[j].sig # NoSig
          PROVE  log'[i].sig <= log'[j].sig
      <4>1. CASE j = n + 1
        BY <1>0, <1>c, <1>d, <1>s, <2>1, <3>1, <4>1
      <4>2. CASE j \in Indices
        <5>1. i \in Indices
          BY <1>a, <1>d, <3>1, <4>2
        <5> QED BY <1>d, <3>1, <4>2, <5>1 DEF IndInv, GuardInv
      <4> QED BY <1>e, <4>1, <4>2
    <3> QED BY <3>1
  <2>3. ASSUME NEW p \in Proposals, NEW f \in Indices, First(p, f)
        PROVE  First(p, f)'
    <3>1. pc' \in Looping => \E m \in ExecutionsOf(p) : guard'[p] = log'[m].sig
      BY <1>0, <1>d, <1>f, <2>3 DEF First, Looping
    <3>2. \A j \in Indices' : j > f /\ log'[j].prop = p /\ log'[j].attempt # "none"
                              => log'[j].sig # log'[f].sig \/ Gap(p, j)'
      BY <1>c, <1>d, <1>e, <1>k, <2>3 DEF First
    <3> QED BY <1>e, <1>f, <2>3, <3>1, <3>2 DEF First
  <2> QED BY <1>e, <1>f, <2>1, <2>2, <2>3 DEF IndInv, GuardInv
<1>6. EvidenceInv'
  <2>1. Recorded' = Recorded
    BY <1>d, <1>g, RecordedKept
  <2>2. ~InFlight /\ ~InFlight'
    BY <1>0, <1>a, <1>b, <1>c, <1>d, <1>e DEF InFlight
  <2>3. pc' \notin {"execute", "rename", "observe", "commit"}
    BY <1>0
  <2>4. /\ \A i \in ran' : IsWriteTool(log'[i].prop) => Before[log'[i].prop] # After[log'[i].prop]
        /\ (\A i \in ran' : log'[i].attempt # "failed") => \A i \in ran : log[i].attempt # "failed"
    BY <1>0, <1>a, <1>d DEF IndInv, EvidenceInv
  <2> QED BY <1>0, <1>g, <2>1, <2>2, <2>3, <2>4 DEF IndInv, EvidenceInv
<1> QED BY <1>1, <1>2, <1>3, <1>4, <1>5, <1>6 DEF IndInv

LEMMA PrepareToolAttemptKeeps ==
  ASSUME IndInv, PrepareToolAttempt
  PROVE  IndInv'
<1> DEFINE plan == PlanWrite(prop)
           e == [log[n] EXCEPT !.status = "prepared", !.attempt = "prepared", !.planned = plan]
<1>0. /\ pc = "guard" /\ pc' = "execute" /\ (guard[prop] # log[n].sig \/ log[n].sig = NoSig)
      /\ UNCHANGED <<status, approvals, verifications, turns, file, version, ran, edits, ctx, cur,
                     run, guard, review, faults>>
  BY DEF PrepareToolAttempt, Repeats, task, disk, memory
<1>L. log' = [log EXCEPT ![n] = e]
  BY DEF PrepareToolAttempt
<1>a. /\ n \in Indices /\ n \in Nat /\ n > 0 /\ Indices = 1..n /\ log[n] \in Entry
      /\ prop \in Proposals /\ prop = log[n].prop /\ status \notin Terminal /\ review = {}
      /\ plan \in Contents \cup {None}
  BY <1>0, AtHand DEF Judging, PlanWrite
<1> HIDE DEF plan
<1>b. log[n].attempt = "none" /\ log[n].evidence = None /\ log[n].reason = ""
      /\ \A i \in Indices : log[i].attempt \notin Unknown
  BY <1>0, <1>a, Knows DEF IndInv, AttemptInv, WellKept, Judging, Looping, Acting
<1>c. /\ e \in Entry /\ e.prop = log[n].prop /\ e.sig = log[n].sig /\ e.attempt = "prepared"
      /\ e.reason = log[n].reason /\ e.evidence = log[n].evidence
      /\ e.decision = log[n].decision
  <2>1. e = [[[log[n] EXCEPT !.status = "prepared"] EXCEPT !.attempt = "prepared"]
               EXCEPT !.planned = plan]
    OBVIOUS
  <2>2. [log[n] EXCEPT !.status = "prepared"] \in Entry
    BY <1>a, EntryFields
  <2>3. [[log[n] EXCEPT !.status = "prepared"] EXCEPT !.attempt = "prepared"] \in Entry
    BY <2>2, EntryFields
  <2>4. e \in Entry
    BY <1>a, <2>1, <2>3, EntryFields
  <2> QED BY <1>a, <2>4 DEF Entry
<1> HIDE DEF e
<1>d. Rewrites(e) /\ WellKept(e)
  BY <1>L, <1>a, <1>b, <1>c, RewritesOne DEF IndInv, WellKept
<1>e. /\ log' \in Seq(Entry) /\ n' = n /\ Indices' = Indices /\ log'[n] = e
      /\ \A j \in Indices \ {n} : log'[j] = log[j]
  BY <1>d DEF Rewrites
<1>f. n \notin ran /\ ran \subseteq Indices
  BY <1>b DEF IndInv, AttemptInv, LoopType, TypeOK
<1>g. /\ \A i \in Indices' : log'[i].attempt \in Unknown => i = n'
      /\ \A i \in Indices' : WellKept(log'[i])
      /\ \A i \in ran' : log'[i].attempt # "none"
      /\ prop' = prop
  BY <1>0, <1>b, <1>c, <1>d, RewrittenAttempt
<1>1. LoopType'
  BY <1>0, <1>e DEF IndInv, LoopType, TypeOK, Places, Looping, Acting
<1>2. AttemptInv'
  <2>1. pc' \in Acting /\ pc' \notin (Looping \ Acting) \cup {"start", "finalize"} \cup Judging
    BY <1>0 DEF Acting, Looping, Judging, Concluding
  <2> QED BY <1>0, <1>a, <1>c, <1>e, <1>g, <2>1 DEF AttemptInv
<1>3. ClosedInv'
  BY <1>0, <1>a DEF ClosedInv, UncertainStaysReachable, CompletedIsSettled, Terminal
<1>4. AuthorityInv'
  <2>1. EffectAuthorized'
    BY <1>0, <1>e, <1>f DEF IndInv, AuthorityInv, EffectAuthorized
  <2>2. Authorized'
    BY <1>0, <1>c, <1>e, <1>g DEF IndInv, AuthorityInv, Authorized
  <2> QED BY <1>0, <2>1, <2>2 DEF AuthorityInv
<1>5. GuardInv'
  <2>1. \A p \in Proposals : n \notin ExecutionsOf(p) /\ n \notin ExecutionsOf(p)'
    BY <1>a, <1>b, <1>c, <1>e DEF ExecutionsOf
  <2>2. pc \in Looping
    BY <1>0 DEF Looping, Judging
  <2>3. ASSUME NEW f \in Indices, First(prop, f)
        PROVE  log[n].sig # log[f].sig \/ Gap(prop, n)
    <3>1. PICK m \in ExecutionsOf(prop) : guard[prop] = log[m].sig /\ f <= m
      BY <2>2, <2>3 DEF First
    <3>2. m \in Indices /\ m <= n /\ f <= m
      BY <1>a, <3>1 DEF ExecutionsOf
    <3>0. f \in ExecutionsOf(prop) /\ f < n /\ m < n
      BY <1>a, <2>1, <2>3, <3>1, <3>2 DEF First
    <3>3. log[m].sig # NoSig /\ log[n].sig # NoSig =>
            log[f].sig <= log[m].sig /\ log[m].sig <= log[n].sig
      BY <1>a, <3>2 DEF IndInv, GuardInv
    <3>4. log[f].sig \in Nat /\ log[m].sig \in Nat /\ log[n].sig \in Nat
      BY <1>a, <3>2, EntryTyped DEF IndInv, LoopType, Entry
    <3>5. CASE log[m].sig = NoSig \/ log[f].sig = NoSig
      BY <3>0, <3>1, <3>5 DEF Gap
    <3>6. CASE log[m].sig # NoSig /\ log[f].sig # NoSig
      BY <1>0, <3>1, <3>3, <3>4, <3>6
    <3> QED BY <3>5, <3>6
  <2> QED BY <1>0, <1>a, <1>c, <1>d, <2>1, <2>2, <2>3, GuardRewrite
<1>6. EvidenceInv'
  <2>1. Writes' = Writes
    BY <1>a, <1>b, <1>c, <1>e DEF Writes
  <2>2. Recorded' = Recorded
    BY <1>b, <1>c, <1>e, <2>1, RecordedKept DEF Writes
  <2>3. ~InFlight /\ ~InFlight'
    BY <1>0, <1>e, <1>f DEF InFlight
  <2> QED BY <1>0, <1>e, <1>f, <2>1, <2>2, <2>3 DEF IndInv, EvidenceInv
<1> QED BY <1>1, <1>2, <1>3, <1>4, <1>5, <1>6 DEF IndInv

LEMMA CompleteToolAttemptKeeps ==
  ASSUME IndInv, CompleteToolAttempt
  PROVE  IndInv'
<1> DEFINE result == IF cur.evidence = None THEN "failed" ELSE "completed"
           e == [log[n] EXCEPT !.attempt = result, !.status = result, !.evidence = cur.evidence]
<1>0. /\ pc = "commit"
      /\ UNCHANGED <<status, approvals, verifications, turns, file, version, ran, edits, ctx, review,
                     faults>>
  BY DEF CompleteToolAttempt, task, disk
<1>L. log' = [log EXCEPT ![n] = e]
  BY DEF CompleteToolAttempt
<1>a. /\ n \in Indices /\ n \in Nat /\ n > 0 /\ Indices = 1..n /\ log[n] \in Entry
      /\ prop \in Proposals /\ prop = log[n].prop /\ status \notin Terminal /\ review = {}
      /\ cur.evidence \in Evidence \cup {None} /\ guard \in [Proposals -> Nat]
  <2>1. cur.evidence \in Evidence \cup {None} /\ guard \in [Proposals -> Nat]
    BY DEF IndInv, LoopType, TypeOK, CurType
  <2> QED BY <1>0, <2>1, AtHand DEF Acting
<1>G. /\ run' \in RunType /\ cur' \in CurType /\ guard' \in [Proposals -> Nat]
      /\ \/ pc' = "finalize"
         \/ pc' = "head" /\ guard' = [guard EXCEPT ![prop] = log[n].sig]
  <2> DEFINE failures == IF CountsAsFailure(cur.evidence) THEN run.failures + 1 ELSE 0
  <2>1. failures \in Nat
    BY RunTyped DEF IndInv
  <2>2. /\ run' = [run EXCEPT !.failures = failures]
        /\ \/ Stop("consecutive_failures_exhausted") /\ UNCHANGED guard
           \/ NextTurn /\ guard' = [guard EXCEPT ![prop] = log[n].sig]
    BY DEF CompleteToolAttempt
  <2> HIDE DEF failures
  <2>3. run' \in RunType
    BY <2>1, <2>2, RunTyped DEF IndInv
  <2>4. log[n].sig \in Nat
    BY <1>a DEF Entry
  <2> QED BY <1>a, <2>2, <2>3, <2>4, StopTyped, NextTurnTyped DEF Reasons
<1>r. /\ result \in {"failed", "completed"} /\ (result = "failed" <=> cur.evidence = None)
  OBVIOUS
<1> HIDE DEF result
<1>b. /\ log[n].attempt = "prepared" /\ log[n].evidence = None /\ log[n].reason = ""
      /\ \A i \in Indices \ {n} : log[i].attempt \notin Unknown
  BY <1>0, <1>a DEF IndInv, AttemptInv, WellKept, Acting
<1>c. /\ e \in Entry /\ e.prop = log[n].prop /\ e.sig = log[n].sig /\ e.attempt = result
      /\ e.reason = log[n].reason /\ e.evidence = cur.evidence /\ e.decision = log[n].decision
  <2>1. e = [[[log[n] EXCEPT !.attempt = result] EXCEPT !.status = result]
               EXCEPT !.evidence = cur.evidence]
    OBVIOUS
  <2>2. [log[n] EXCEPT !.attempt = result] \in Entry
    BY <1>a, <1>r, EntryFields
  <2>3. [[log[n] EXCEPT !.attempt = result] EXCEPT !.status = result] \in Entry
    BY <1>r, <2>2, EntryFields
  <2>4. e \in Entry
    BY <1>a, <2>1, <2>3, EntryFields
  <2> QED BY <1>a, <2>4 DEF Entry
<1> HIDE DEF e
<1>d. Rewrites(e) /\ WellKept(e)
  BY <1>L, <1>a, <1>b, <1>c, <1>r, RewritesOne DEF IndInv, WellKept
<1>e. /\ log' \in Seq(Entry) /\ n' = n /\ Indices' = Indices /\ log'[n] = e
      /\ \A j \in Indices \ {n} : log'[j] = log[j]
  BY <1>d DEF Rewrites
<1>f. ran \subseteq Indices
  BY DEF IndInv, LoopType, TypeOK
<1>g. /\ \A i \in Indices' : WellKept(log'[i])
      /\ \A i \in ran' : log'[i].attempt # "none"
      /\ prop' = prop
  BY <1>0, <1>b, <1>c, <1>d, <1>r, RewrittenAttempt
<1>1. LoopType'
  BY <1>0, <1>G, <1>e DEF IndInv, LoopType, TypeOK, RunType, Places, Looping
<1>2. AttemptInv'
  <2>1. \A i \in Indices' : log'[i].attempt \notin Unknown
    BY <1>b, <1>c, <1>e, <1>r DEF Unknown
  <2>2. pc' \notin Acting \cup Judging
    BY <1>G DEF Acting, Judging
  <2> QED BY <1>0, <1>a, <1>g, <2>1, <2>2 DEF AttemptInv
<1>3. ClosedInv'
  BY <1>0, <1>G, <1>a
  DEF ClosedInv, UncertainStaysReachable, CompletedIsSettled, Terminal
<1>4. AuthorityInv'
  <2>1. \A i \in ran : log'[i].decision = log[i].decision /\ log'[i].prop = log[i].prop
    BY <1>c, <1>e, <1>f
  <2>2. EffectAuthorized'
    BY <1>0, <2>1 DEF IndInv, AuthorityInv, EffectAuthorized
  <2> QED BY <1>G, <2>2 DEF AuthorityInv, Acting
<1>5. GuardInv'
  <2>1. \A p \in Proposals : n \notin ExecutionsOf(p)
    BY <1>b DEF ExecutionsOf
  <2>2. pc \in Looping
    BY <1>0 DEF Looping, Acting
  <2>3. PICK q \in Proposals : q = prop
    BY <1>a
  <2>4. n \in ExecutionsOf(q)'
    BY <1>a, <1>c, <1>e, <1>r, <2>3 DEF ExecutionsOf
  <2>5. pc' \in Looping => guard' = [guard EXCEPT ![q] = log[n].sig]
    BY <1>G, <2>3 DEF Looping, Judging, Acting, Concluding
  <2>6. pc' \in Looping => /\ \A p \in Proposals \ {q} : guard'[p] = guard[p]
                           /\ guard'[q] = log[n].sig
    BY <1>a, <2>5
  <2> QED BY <1>0, <1>a, <1>b, <1>d, <2>1, <2>2, <2>3, <2>4, <2>6, GuardRewrite
<1>6. EvidenceInv'
  <2>1. n \notin Writes /\ Writes \subseteq 1..n
    BY <1>a, <1>b DEF Writes
  <2>2. ~InFlight'
    BY <1>c, <1>e, <1>r DEF InFlight, Unknown
  <2>3. /\ \A i \in ran' : IsWriteTool(log'[i].prop) => Before[log'[i].prop] # After[log'[i].prop]
        /\ (\A i \in ran' : log'[i].attempt # "failed") =>
             /\ \A i \in ran : log[i].attempt # "failed"
             /\ n \in ran => cur.evidence # None
    <3>1. \A i \in ran : log'[i].prop = log[i].prop /\ (i # n => log'[i] = log[i])
      BY <1>c, <1>e, <1>f
    <3> QED BY <1>0, <1>b, <1>c, <1>e, <1>f, <1>r, <3>1 DEF IndInv, EvidenceInv
  <2>4. CASE IsWriteTool(prop) /\ cur.evidence # None
    <3>1. Writes' = Writes \cup {n}
      BY <1>a, <1>c, <1>e, <2>4 DEF Writes
    <3>2. Recorded' = cur.evidence /\ \E m \in Writes' : \A j \in Writes' : j <= m
      BY <1>a, <1>c, <1>e, <2>1, <3>1, RecordedNew
    <3>3. edits = 0 => file = cur.evidence
      BY <1>0, <2>4 DEF IndInv, EvidenceInv
    <3> QED BY <1>0, <1>G, <2>2, <2>3, <3>2, <3>3 DEF EvidenceInv
  <2>5. CASE ~(IsWriteTool(prop) /\ cur.evidence # None)
    <3>1. Writes' = Writes
      BY <1>a, <1>b, <1>c, <1>e, <2>5 DEF Writes
    <3>2. Recorded' = Recorded
      BY <1>e, <2>1, <3>1, RecordedKept DEF Writes
    <3>3. edits = 0 /\ (\A i \in ran' : log'[i].attempt # "failed") => file = Recorded
      BY <2>3, <2>5 DEF IndInv, EvidenceInv, InFlight
    <3>4. Writes # {} => \E m \in Writes : \A j \in Writes : j <= m
      BY DEF IndInv, EvidenceInv
    <3> QED BY <1>0, <1>G, <2>2, <2>3, <3>1, <3>2, <3>3, <3>4 DEF EvidenceInv
  <2> QED BY <2>4, <2>5
<1> QED BY <1>1, <1>2, <1>3, <1>4, <1>5, <1>6 DEF IndInv

LEMMA LeastOfOne == \A i \in Nat : Least({i}) = i
  BY DEF Least

LEMMA ReconcileToolAttemptKeeps ==
  ASSUME IndInv, ReconcileToolAttempt
  PROVE  IndInv'
<1>0. /\ pc = "reconcile" /\ pc' = "reconcile" /\ ToReconcile # {}
      /\ UNCHANGED <<status, approvals, verifications, turns, file, version, ran, edits, ctx, cur, run,
                     guard, faults>>
  BY DEF ReconcileToolAttempt, task, disk
<1>a. /\ TypeOK /\ n \in Nat /\ Indices = 1..n /\ ran \subseteq Indices /\ review \subseteq Indices
      /\ file \in Contents
  BY LengthIsNat DEF IndInv, LoopType, TypeOK
<1>b. ToReconcile = {n} /\ n \in Indices /\ n > 0 /\ n \notin review
  BY <1>0, <1>a DEF ToReconcile, Unsettled, Unknown, IndInv, AttemptInv
<1>c. Least(ToReconcile) = n
  BY <1>a, <1>b, LeastOfOne
<1>d. PICK reason \in {Classify(n)} \cup Unreadable(n) :
        /\ log' = [log EXCEPT ![n] = Reconciled(n, reason)]
        /\ review' = IF Escalates(reason) THEN review \cup {n} ELSE review
  BY <1>c DEF ReconcileToolAttempt
<1>e. /\ log[n].attempt = "prepared" /\ log[n].evidence = None /\ log[n].reason = ""
      /\ log[n] \in Entry /\ prop \in Proposals /\ prop = log[n].prop
      /\ \A i \in Indices \ {n} : log[i].attempt \notin Unknown
  <2>1. log[n].attempt = "prepared"
    BY <1>c DEF ReconcileToolAttempt
  <2>2. log[n] \in Entry
    BY <1>a, <1>b, EntryTyped
  <2> QED BY <1>b, <2>1, <2>2 DEF IndInv, AttemptInv, WellKept, Entry, prop
\* What the reason says about the file and the attempt.
<1>f. /\ reason \in {"replay_safe_observation", "unreconcilable_effect", "write_effect_not_started",
                     "write_effect_completed", "write_effect_unreconcilable"}
      /\ reason = "replay_safe_observation" => ~IsWriteTool(prop)
      /\ reason = "write_effect_not_started" => file = Before[prop]
      /\ reason = "write_effect_completed" => IsWriteTool(prop)
  BY <1>d, <1>e DEF Classify, Unreadable, ReconcileWrite, IsWriteTool
<1> DEFINE e == Reconciled(n, reason)
           attempt == IF Escalates(reason) THEN "human_review_required" ELSE "reconciled"
           evidence == IF reason = "write_effect_completed" THEN file ELSE None
<1>g. /\ e \in Entry /\ e.prop = log[n].prop /\ e.sig = log[n].sig /\ e.decision = log[n].decision
      /\ e.attempt = attempt /\ e.reason = reason /\ e.evidence = evidence
  <2>1. CASE Escalates(reason)
    <3> DEFINE x == [[log[n] EXCEPT !.attempt = "human_review_required"]
                       EXCEPT !.status = "human_review_required"]
    <3>0. reason # "write_effect_completed"
      BY <2>1 DEF Escalates
    <3>1. e = [x EXCEPT !.reason = reason]
      BY <2>1, <3>0 DEF Reconciled
    <3>2. [log[n] EXCEPT !.attempt = "human_review_required"] \in Entry
      BY <1>e, EntryFields
    <3>3. x \in Entry
      BY <3>2, EntryFields
    <3>4. e \in Entry
      BY <1>f, <3>1, <3>3, EntryFields
    <3> QED BY <1>e, <2>1, <3>0, <3>1, <3>4 DEF Entry
  <2>2. CASE reason = "write_effect_completed"
    <3> DEFINE x == [[log[n] EXCEPT !.attempt = "reconciled"] EXCEPT !.status = "completed"]
               y == [x EXCEPT !.reason = reason]
    <3>0. ~Escalates(reason)
      BY <2>2 DEF Escalates
    <3>1. e = [y EXCEPT !.evidence = file]
      BY <2>2, <3>0 DEF Reconciled
    <3>2. [log[n] EXCEPT !.attempt = "reconciled"] \in Entry
      BY <1>e, EntryFields
    <3>3. x \in Entry
      BY <3>2, EntryFields
    <3>4. y \in Entry
      BY <1>f, <3>3, EntryFields
    <3>5. file \in Evidence \cup {None}
      BY <1>a DEF Evidence
    <3>6. [y EXCEPT !.evidence = file] \in Entry
      <4> HIDE DEF y
      <4> QED BY <3>4, <3>5, EntryFields
    <3>7. e \in Entry
      BY <3>1, <3>6
    <3> QED BY <1>e, <2>2, <3>0, <3>1, <3>7, ZenonT(40) DEF Entry
  <2>3. CASE ~Escalates(reason) /\ reason # "write_effect_completed"
    <3>1. e = [[log[n] EXCEPT !.attempt = "reconciled"] EXCEPT !.reason = reason]
      BY <2>3 DEF Reconciled
    <3>2. [log[n] EXCEPT !.attempt = "reconciled"] \in Entry
      BY <1>e, EntryFields
    <3>3. e \in Entry
      BY <1>f, <3>1, <3>2, EntryFields
    <3> QED BY <1>e, <2>3, <3>1, <3>3 DEF Entry
  <2> QED BY <2>1, <2>2, <2>3
<1>L. log' = [log EXCEPT ![n] = e]
  BY <1>d
<1>h. /\ attempt \in {"human_review_required", "reconciled"}
      /\ attempt = "human_review_required" <=> Escalates(reason)
      /\ reason = "write_effect_completed" => evidence = file /\ attempt = "reconciled" /\ evidence # None
      /\ reason # "write_effect_completed" => evidence = None
      /\ attempt = "reconciled" => reason \in {"replay_safe_observation", "write_effect_not_started",
                                               "write_effect_completed"}
  BY <1>a, <1>f DEF Escalates, Evidence
<1> HIDE DEF e, attempt, evidence
<1>i. Rewrites(e) /\ WellKept(e)
  BY <1>L, <1>b, <1>g, <1>h, RewritesOne DEF IndInv, WellKept, Escalates
<1>j. /\ log' \in Seq(Entry) /\ n' = n /\ Indices' = Indices /\ log'[n] = e
      /\ \A j \in Indices \ {n} : log'[j] = log[j]
  BY <1>i DEF Rewrites
<1>k. /\ \A i \in Indices' : log'[i].attempt \in Unknown => i = n'
      /\ \A i \in Indices' : WellKept(log'[i])
      /\ \A i \in ran' : log'[i].attempt # "none"
      /\ prop' = prop
  BY <1>0, <1>e, <1>g, <1>h, <1>i, RewrittenAttempt
<1>1. LoopType'
  <2>1. review' \subseteq Indices
    BY <1>a, <1>b, <1>d
  <2> QED BY <1>0, <1>j, <2>1 DEF IndInv, LoopType, TypeOK, Places
<1>2. AttemptInv'
  <2>1. \A i \in review' : log'[i].attempt = "human_review_required"
    <3>1. ASSUME NEW i \in review' PROVE log'[i].attempt = "human_review_required"
      <4>1. CASE i \in review
        BY <1>a, <1>b, <1>j, <4>1 DEF IndInv, AttemptInv
      <4>2. CASE i \notin review
        BY <1>d, <1>g, <1>h, <1>j, <3>1, <4>2
      <4> QED BY <4>1, <4>2
    <3> QED BY <3>1
  <2>2. pc' \notin Looping \cup {"start", "finalize"}
    BY <1>0 DEF Looping, Judging, Acting, Concluding
  <2> QED BY <1>0, <1>k, <2>1, <2>2 DEF AttemptInv, Looping
<1>3. ClosedInv'
  BY <1>0
  DEF IndInv, ClosedInv, UncertainStaysReachable, CompletedIsSettled, Terminal
<1>4. AuthorityInv'
  <2>1. \A i \in ran : log'[i].decision = log[i].decision /\ log'[i].prop = log[i].prop
    BY <1>a, <1>g, <1>j
  <2>2. EffectAuthorized'
    BY <1>0, <2>1 DEF IndInv, AuthorityInv, EffectAuthorized
  <2> QED BY <1>0, <2>2 DEF AuthorityInv, Acting
<1>5. GuardInv'
  <2>1. \A p \in Proposals : n \notin ExecutionsOf(p)
    BY <1>e DEF ExecutionsOf
  <2>2. pc' \notin Looping
    BY <1>0 DEF Looping, Judging, Acting, Concluding
  <2> QED BY <1>0, <1>e, <1>i, <2>1, <2>2, GuardRewrite
<1>6. EvidenceInv'
  <2>1. n \notin Writes /\ Writes \subseteq 1..n
    BY <1>a, <1>e DEF Writes
  <2>3. /\ \A i \in ran' : IsWriteTool(log'[i].prop) => Before[log'[i].prop] # After[log'[i].prop]
        /\ (\A i \in ran' : log'[i].attempt # "failed") => \A i \in ran : log[i].attempt # "failed"
    <3>1. \A i \in ran : log'[i].prop = log[i].prop /\ (i # n => log'[i] = log[i])
      BY <1>a, <1>g, <1>j
    <3> QED BY <1>0, <1>e, <3>1 DEF IndInv, EvidenceInv
  <2>4. CASE reason = "write_effect_completed"
    <3>1. Writes' = Writes \cup {n}
      BY <1>b, <1>e, <1>f, <1>g, <1>h, <1>j, <2>4 DEF Writes
    <3>2. Recorded' = file /\ \E m \in Writes' : \A j \in Writes' : j <= m
      BY <1>a, <1>g, <1>h, <1>j, <2>1, <2>4, <3>1, RecordedNew
    <3>3. ~InFlight'
      BY <1>g, <1>h, <1>j, <2>4 DEF InFlight, Unknown
    <3> QED BY <1>0, <2>3, <3>2, <3>3 DEF EvidenceInv
  <2>5. CASE reason # "write_effect_completed"
    <3>1. Writes' = Writes
      BY <1>b, <1>e, <1>g, <1>h, <1>j, <2>5 DEF Writes
    <3>2. Recorded' = Recorded
      BY <1>j, <2>1, <3>1, RecordedKept DEF Writes
    <3>3. n \in ran /\ IsWriteTool(prop) => InFlight /\ Before[prop] # After[prop]
      BY <1>b, <1>e DEF InFlight, Unknown, IndInv, EvidenceInv
    <3>4. /\ InFlight' => InFlight
          /\ InFlight /\ ~InFlight' => file = Before[prop] /\ Before[prop] # After[prop]
      <4>1. InFlight' => InFlight
        BY <1>0, <1>e, <1>j, <1>k DEF InFlight, Unknown
      <4>2. InFlight /\ ~InFlight' => file = Before[prop]
        BY <1>0, <1>b, <1>f, <1>g, <1>h, <1>j, <1>k, <2>5 DEF InFlight, Unknown
      <4> QED BY <3>3, <4>1, <4>2 DEF InFlight
    <3>5. edits = 0 /\ (\A i \in ran' : log'[i].attempt # "failed")
            => file = IF InFlight' THEN After[prop] ELSE Recorded
      BY <2>3, <3>4 DEF IndInv, EvidenceInv
    <3>6. Writes # {} => \E m \in Writes : \A j \in Writes : j <= m
      BY DEF IndInv, EvidenceInv
    <3> QED BY <1>0, <1>k, <2>3, <3>1, <3>2, <3>5, <3>6 DEF EvidenceInv
  <2> QED BY <2>4, <2>5
<1> QED BY <1>1, <1>2, <1>3, <1>4, <1>5, <1>6 DEF IndInv

(* ------------------------------ theorems ------------------------------- *)

LEMMA InitEstablishes == Init => IndInv
<1> SUFFICES ASSUME Init PROVE IndInv
  OBVIOUS
<1>0. /\ log = << >> /\ ran = {} /\ review = {} /\ pc = "start" /\ status = "planned"
      /\ file = FirstContent /\ version = 1
  BY DEF Init
<1>a. n = 0 /\ Indices = {}
  BY <1>0 DEF n, Indices
<1>1. LoopType
  <2>1. verifications \in Seq({"passed", "failed", "blocked", "uncertain"}) /\ log \in Seq(Entry)
    BY EmptySeq DEF Init
  <2>2. /\ cur \in CurType /\ run \in RunType /\ guard \in [Proposals -> Nat]
        /\ approvals \in [Proposals -> {"none", "approved", "rejected"}]
    <3>1. cur \in CurType
      BY IdleTyped DEF Init
    <3>2. run \in RunType
      <4>1. FreshRun \in RunType
        BY DEF FreshRun, RunType
      <4> QED BY <4>1 DEF Init
    <3>3. guard \in [Proposals -> Nat] /\ approvals \in [Proposals -> {"none", "approved", "rejected"}]
      BY DEF Init, NoGuard, NoSig
    <3> QED BY <3>1, <3>2, <3>3
  <2>3. /\ turns \in 0..MaxSteps /\ faults \in 0..MaxFaults /\ edits \in 0..MaxEdits /\ ctx = "live"
    <3>1. turns = 0 /\ faults = 0 /\ edits = 0 /\ ctx = "live"
      BY DEF Init
    <3>2. 0 \in 0..MaxSteps /\ 0 \in 0..MaxFaults /\ 0 \in 0..MaxEdits
      BY SMT
    <3> QED BY <3>1, <3>2
  <2>4. TypeOK
    BY <1>0, <1>a, <2>1, <2>2, <2>3 DEF TypeOK, RunType
  <2> QED BY <1>0, <2>2, <2>4 DEF LoopType, Places
<1>2. AttemptInv
  BY <1>0, <1>a DEF AttemptInv, Judging, Acting
<1>3. ClosedInv
  BY <1>0 DEF ClosedInv, UncertainStaysReachable, CompletedIsSettled, Terminal
<1>4. AuthorityInv
  BY <1>0 DEF AuthorityInv, EffectAuthorized, Acting
<1>5. GuardInv
  BY <1>a DEF GuardInv, ExecutionsOf
<1>6. EvidenceInv
  BY <1>0, <1>a DEF EvidenceInv, InFlight, Writes, Recorded
<1> QED BY <1>1, <1>2, <1>3, <1>4, <1>5, <1>6 DEF IndInv

LEMMA StutterKeeps == IndInv /\ UNCHANGED vars => IndInv'
<1> SUFFICES ASSUME IndInv, UNCHANGED vars PROVE IndInv'
  OBVIOUS
<1>0. UNCHANGED <<status, log, approvals, verifications, turns, file, version, ran, edits, pc, ctx, cur,
                  run, guard, review, faults>>
  BY DEF vars, store, disk, memory
<1>a. n' = n /\ Indices' = Indices /\ prop' = prop /\ Writes' = Writes /\ Recorded' = Recorded
      /\ Unsettled' = Unsettled
  BY <1>0, SameLog
<1>1. LoopType'
  BY <1>0, <1>a DEF IndInv, LoopType, TypeOK
<1>2. AttemptInv'
  BY <1>0, <1>a DEF IndInv, AttemptInv
<1>3. ClosedInv'
  BY <1>0, <1>a DEF IndInv, ClosedInv, UncertainStaysReachable, CompletedIsSettled
<1>4. AuthorityInv'
  BY <1>0, <1>a DEF IndInv, AuthorityInv, EffectAuthorized, Authorized
<1>5. GuardInv'
  BY <1>0, <1>1, SameLogGuard DEF IndInv, LoopType, TypeOK
<1>6. EvidenceInv'
  BY <1>0, <1>a DEF IndInv, EvidenceInv, InFlight
<1> QED BY <1>1, <1>2, <1>3, <1>4, <1>5, <1>6 DEF IndInv

LEMMA StepKeeps == IndInv /\ [Next]_vars => IndInv'
<1> SUFFICES ASSUME IndInv, [Next]_vars PROVE IndInv'
  OBVIOUS
<1>1. CASE Turn
  BY <1>1, ProviderFailsKeeps, ParseFailsKeeps, ProposeActionKeeps,
     ProposeFinalKeeps
  DEF Turn
<1>2. CASE Act
  BY <1>2, RecordActionKeeps, EvaluatePolicyKeeps, RecordPolicyDecisionKeeps,
     RejectDeniedKeeps,
     RejectRepeatedKeeps, PrepareToolAttemptKeeps, ExecuteReadKeeps, ExecuteRecipeKeeps,
     ValidateWriteKeeps, RenameWriteKeeps, ObserveWriteKeeps, WriteFailsKeeps,
     CompleteToolAttemptKeeps
  DEF Act
<1>3. CASE Conclude
  BY <1>3, HandleFinalKeeps, SaveVerificationAttemptKeeps, VerifyKeeps,
     VerifyBlindKeeps,
     StopAtHeadKeeps, FinalizeTaskKeeps, MarkTaskPausedKeeps
  DEF Conclude
<1>4. CASE Recover
  BY <1>4, ReconcileToolAttemptKeeps, ResumeRefusedKeeps,
     MarkHumanReviewRequiredKeeps,
     ContinueTaskKeeps
  DEF Recover
<1>5. CASE StartTask \/ StoreFails \/ RecoveryStops \/ MarkRecoveryStarted
  BY <1>5, StartTaskKeeps, StoreFailsKeeps, RecoveryStopsKeeps,
     MarkRecoveryStartedKeeps
<1>6. CASE Environment
  BY <1>6, LastWriteFailsKeeps, DieKeeps, EndContextKeeps, DecideKeeps, EditKeeps
  DEF Environment
<1>7. CASE UNCHANGED vars
  BY <1>7, StutterKeeps
<1> QED BY <1>1, <1>2, <1>3, <1>4, <1>5, <1>6, <1>7 DEF Next, Process

LEMMA AlwaysIndInv == Spec => []IndInv
  BY InitEstablishes, StepKeeps, PTL DEF Spec

\* The store, the workspace and the loop's memory keep the types their columns and fields have,
\* for any number of actions, faults and edits.
THEOREM LoopTypes == Spec => []TypeOK
<1>1. IndInv => TypeOK
  BY DEF IndInv, LoopType
<1> QED BY <1>1, AlwaysIndInv, PTL

\* FinalizeTask never closes a task over an unknown effect: a TX 2 that fails pauses the task,
\* and recovery settles or escalates what it finds.
THEOREM UncertainStaysReachableHolds == Spec => []UncertainStaysReachable
<1>1. IndInv => UncertainStaysReachable
  BY DEF IndInv, ClosedInv
<1> QED BY <1>1, AlwaysIndInv, PTL

\* Every gated effect had its decision persisted as allowed and, where the policy asks, the
\* operator's approval of that fingerprint, which the store never takes back.
THEOREM EffectAuthorizedHolds == Spec => []EffectAuthorized
<1>1. IndInv => EffectAuthorized
  BY DEF IndInv, AuthorityInv
<1> QED BY <1>1, AlwaysIndInv, PTL

\* The guard rebuilt by reconstructedGuard and the one kept in memory both stop an attempt under
\* the signature of the first execution of its fingerprint, as long as every execution in between
\* could read the workspace.
THEOREM RepeatGuardedHolds == Spec => []RepeatGuarded
<1>1. ASSUME IndInv PROVE RepeatGuarded
  <2>1. SUFFICES ASSUME NEW p \in Proposals, NEW j \in Indices,
                        log[j].prop = p, log[j].attempt # "none",
                        NEW earlier, earlier = {i \in ExecutionsOf(p) : i < j}, earlier # {}
                 PROVE  \/ log[j].sig # log[Least(earlier)].sig
                        \/ \E i \in earlier : log[i].sig = NoSig
    BY DEF RepeatGuarded
  <2>2. PICK f \in Indices : First(p, f)
    BY <1>1, <2>1 DEF IndInv, GuardInv
  <2>3. /\ f \in ExecutionsOf(p) /\ (\A i \in ExecutionsOf(p) : f <= i)
        /\ ExecutionsOf(p) \subseteq Nat /\ j \in Nat
    BY <1>1, <2>2, LengthIsNat DEF First, ExecutionsOf, IndInv, LoopType
  <2>4. f \in earlier /\ f < j /\ \A i \in earlier : f <= i
    BY <2>1, <2>3
  <2>5. \A g \in earlier : (\A i \in earlier : g <= i) => g = f
    BY <2>1, <2>3, <2>4
  <2>6. Least(earlier) = f
    BY <2>4, <2>5 DEF Least
  <2> QED BY <2>1, <2>2, <2>4, <2>6 DEF First, Gap
<1> QED BY <1>1, AlwaysIndInv, PTL

\* While nobody edits the file, what it holds is what the store says, through every death between
\* a rename and its TX 2 and every reconciliation.
THEOREM EvidenceDescribesFileHolds == Spec => []EvidenceDescribesFile
<1>1. ASSUME IndInv PROVE EvidenceDescribesFile
  <2>1. Unsettled = {} => ~InFlight
    BY <1>1, LengthIsNat DEF InFlight, Unsettled, Unknown, IndInv, LoopType
  <2> QED BY <1>1, <2>1 DEF EvidenceDescribesFile, IndInv, EvidenceInv, Recorded, Writes
<1> QED BY <1>1, AlwaysIndInv, PTL

\* A completed task waits for no operator, has no unknown effect and was verified last.
THEOREM CompletedIsSettledHolds == Spec => []CompletedIsSettled
<1>1. IndInv => CompletedIsSettled
  BY DEF IndInv, ClosedInv
<1> QED BY <1>1, AlwaysIndInv, PTL

\* A step with an effect leaves no other attempt of the task unknown behind it.
THEOREM NoBlindReplayHolds == Spec => NoBlindReplay
<1>1. ASSUME IndInv, [Next]_vars
      PROVE  [ran' # ran => \A i \in Indices \ {n} :
                /\ log[i].attempt \in {"none", "completed", "failed", "reconciled"}
                /\ log[i].reason \notin {"write_effect_unreconcilable", "unreconcilable_effect"}
             ]_vars
  <2>1. ASSUME NEW i \in Indices \ {n}
        PROVE  /\ log[i].attempt \in {"none", "completed", "failed", "reconciled"}
               /\ log[i].reason \notin {"write_effect_unreconcilable", "unreconcilable_effect"}
    <3>1. log[i] \in Entry
      BY <1>1, EntryTyped DEF IndInv, LoopType
    <3>2. log[i].attempt \notin Unknown /\ WellKept(log[i])
      BY <1>1 DEF IndInv, AttemptInv
    <3> QED BY <3>1, <3>2 DEF Entry, Unknown, WellKept
  <2> QED BY <2>1
<1> QED BY <1>1, AlwaysIndInv, PTL DEF Spec, NoBlindReplay

=============================================================================
