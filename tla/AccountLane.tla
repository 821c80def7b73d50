----------------------------- MODULE AccountLane -----------------------------
(***************************************************************************)
(* What the account governor promises its callers, without its queue,      *)
(* circuit, budgets or telemetry: one permit at a time, starts kept apart, *)
(* and a client request id that reaches the provider at most once.         *)
(* Module Governor implements this specification.                          *)
(***************************************************************************)
EXTENDS Integers, TLAPS

CONSTANTS
  Callers, RequestID,
  Interval    \* the minimum start-to-start interval, a natural

VARIABLES
  phase,      \* [Callers -> Phases]
  ids,        \* client request ids the governor has reserved
  now,
  lastStart   \* the latest debited start, 0 before the first

vars == <<phase, ids, now, lastStart>>

Phases == {"outside", "waiting", "granted", "calling", "called", "left"}

Held(c) == phase[c] \in {"granted", "calling"}
LaneFree == \A c \in Callers : ~Held(c)
Paced == lastStart = 0 \/ now >= lastStart + Interval

Moves(c, to) == phase' = [phase EXCEPT ![c] = to]

Join(c) ==
  /\ phase[c] = "outside" /\ RequestID[c] \notin ids
  /\ Moves(c, "waiting") /\ ids' = ids \cup {RequestID[c]}
  /\ UNCHANGED <<now, lastStart>>

\* A caller turned away; a waiter's id is released unless Close dropped it.
Leave(c) ==
  /\ \/ phase[c] = "outside" /\ ids' = ids
     \/ phase[c] = "waiting" /\ ids' \in {ids, ids \ {RequestID[c]}}
  /\ Moves(c, "left")
  /\ UNCHANGED <<now, lastStart>>

Admit(c) ==
  /\ \/ phase[c] = "waiting"
     \/ phase[c] = "outside" /\ RequestID[c] \notin ids
  /\ LaneFree /\ Paced
  /\ Moves(c, "granted") /\ ids' = ids \cup {RequestID[c]}
  /\ UNCHANGED <<now, lastStart>>

GiveBack(c) ==
  /\ phase[c] = "granted"
  /\ Moves(c, "left") /\ ids' = ids \ {RequestID[c]}
  /\ UNCHANGED <<now, lastStart>>

\* The start is debited now, or when the call's receipts arrive.
Call(c) ==
  /\ phase[c] = "granted"
  /\ Moves(c, "calling")
  /\ lastStart' \in {lastStart, now}
  /\ ids' = ids \cup {RequestID[c]} /\ now' = now

Return(c) ==
  /\ phase[c] = "calling"
  /\ \E to \in {"called", "left"} : Moves(c, to)
  /\ lastStart' \in Nat /\ lastStart' <= now
  /\ ids' = ids \cup {RequestID[c]} /\ now' = now

Clock ==
  /\ now' \in Nat /\ now' >= now
  /\ UNCHANGED <<phase, ids, lastStart>>

Init ==
  /\ phase = [c \in Callers |-> "outside"] /\ ids = {}
  /\ now = 1 /\ lastStart = 0

Next ==
  \/ \E c \in Callers : \/ Join(c) \/ Leave(c) \/ Admit(c) \/ GiveBack(c)
                        \/ Call(c) \/ Return(c)
  \/ Clock

Spec == Init /\ [][Next]_vars

-----------------------------------------------------------------------------
Owns(c) == phase[c] \in {"waiting", "granted", "calling", "called"}

LaneType ==
  /\ phase \in [Callers -> Phases]
  /\ now \in Nat /\ lastStart \in Nat /\ lastStart <= now

\* At most one caller holds the lane.
OneHolder == \A c, d \in Callers : Held(c) /\ Held(d) => c = d

\* A granted caller still may start: nothing was started since it was checked.
GrantPaced == \A c \in Callers : phase[c] = "granted" => Paced

\* A reserved id has one owner, and an owner's id stays reserved.
OneOwner ==
  \A c \in Callers : Owns(c) =>
    /\ RequestID[c] \in ids
    /\ \A d \in Callers : Owns(d) /\ RequestID[d] = RequestID[c] => d = c

LaneInv == LaneType /\ OneHolder /\ GrantPaced /\ OneOwner

\* Two provider calls never carry the same client request id.
CalledOnce ==
  \A c, d \in Callers :
    /\ phase[c] \in {"calling", "called"} /\ phase[d] \in {"calling", "called"}
    /\ RequestID[c] = RequestID[d]
    => c = d

\* A call starts an interval after the latest debited start.
PacedCalls ==
  [][\A c \in Callers : phase[c] = "granted" /\ phase'[c] = "calling"
        => Paced]_vars

-----------------------------------------------------------------------------
LEMMA LaneInit == Init => LaneInv
  BY DEF Init, LaneInv, LaneType, Phases, OneHolder, Held, GrantPaced, OneOwner,
     Owns

\* Every step of the lane keeps the invariant.
LEMMA LaneStep ==
  ASSUME Interval \in Nat
  PROVE  LaneInv /\ [Next]_vars => LaneInv'
  <1> SUFFICES ASSUME LaneInv, [Next]_vars PROVE LaneInv'
    OBVIOUS
  <1>1. CASE UNCHANGED vars
    BY <1>1 DEF vars, LaneInv, LaneType, OneHolder, Held, GrantPaced, Paced,
       OneOwner, Owns
  <1>2. CASE Clock
    BY <1>2 DEF Clock, LaneInv, LaneType, OneHolder, Held, GrantPaced, Paced,
       OneOwner, Owns
  <1>3. ASSUME NEW c \in Callers, Join(c) PROVE LaneInv'
    BY <1>3 DEF Join, Moves, LaneInv, LaneType, Phases, OneHolder, Held,
       GrantPaced, Paced, OneOwner, Owns
  <1>4. ASSUME NEW c \in Callers, Leave(c) PROVE LaneInv'
    BY <1>4 DEF Leave, Moves, LaneInv, LaneType, Phases, OneHolder, Held,
       GrantPaced, Paced, OneOwner, Owns
  <1>5. ASSUME NEW c \in Callers, Admit(c) PROVE LaneInv'
    BY <1>5 DEF Admit, Moves, LaneFree, LaneInv, LaneType, Phases, OneHolder,
       Held, GrantPaced, Paced, OneOwner, Owns
  <1>6. ASSUME NEW c \in Callers, GiveBack(c) PROVE LaneInv'
    BY <1>6 DEF GiveBack, Moves, LaneInv, LaneType, Phases, OneHolder, Held,
       GrantPaced, Paced, OneOwner, Owns
  <1>7. ASSUME NEW c \in Callers, Call(c) PROVE LaneInv'
    <2>1. LaneType'
      BY <1>7 DEF Call, Moves, LaneInv, LaneType, Phases
    <2>2. OneHolder'
      BY <1>7 DEF Call, Moves, LaneInv, LaneType, OneHolder, Held
    <2>3. GrantPaced'
      BY <1>7 DEF Call, Moves, LaneInv, LaneType, OneHolder, Held, GrantPaced
    <2>4. OneOwner'
      BY <1>7 DEF Call, Moves, LaneInv, LaneType, OneOwner, Owns
    <2> QED
      BY <2>1, <2>2, <2>3, <2>4 DEF LaneInv
  <1>8. ASSUME NEW c \in Callers, Return(c) PROVE LaneInv'
    <2>1. LaneType' /\ OneHolder'
      BY <1>8 DEF Return, Moves, LaneInv, LaneType, Phases, OneHolder, Held
    <2>2. GrantPaced'
      BY <1>8 DEF Return, Moves, LaneInv, LaneType, OneHolder, Held, GrantPaced
    <2>3. OneOwner'
      BY <1>8 DEF Return, Moves, LaneInv, LaneType, OneOwner, Owns
    <2> QED
      BY <2>1, <2>2, <2>3 DEF LaneInv
  <1> QED
    BY <1>1, <1>2, <1>3, <1>4, <1>5, <1>6, <1>7, <1>8 DEF Next

\* The lane promises at most one holder and one provider call per request id,
\* whatever the callers, the ids and the interval are.
THEOREM LaneSafety ==
  ASSUME Interval \in Nat
  PROVE  Spec => [](OneHolder /\ CalledOnce)
  <1>1. LaneInv => OneHolder /\ CalledOnce
    BY DEF LaneInv, OneOwner, Owns, CalledOnce
  <1> QED
    BY <1>1, LaneInit, LaneStep, PTL DEF Spec

\* The lane promises paced calls.
THEOREM LanePacing ==
  ASSUME Interval \in Nat
  PROVE  Spec => PacedCalls
  <1>1. LaneInv /\ [Next]_vars =>
          [\A c \in Callers : phase[c] = "granted" /\ phase'[c] = "calling"
             => Paced]_vars
    BY DEF LaneInv, GrantPaced
  <1> QED
    BY <1>1, LaneInit, LaneStep, PTL DEF Spec, PacedCalls
=============================================================================
