---------------------- MODULE WorkUnitSchedulerProofs ----------------------
(***************************************************************************)
(* Proofs about the Work Unit scheduler, for every finite set of units,    *)
(* every dependency graph, every choice of exclusive units and every       *)
(* concurrency bound.                                                      *)
(***************************************************************************)
EXTENDS WorkUnitScheduler, FiniteSetTheorems, TLAPS

\* active counts the workers and the events not yet received, and nothing is
\* outstanding outside RunAll.
Counted ==
  IF proc = "scheduling" THEN active = Cardinality(Workers) + Len(events)
  ELSE Workers = {} /\ events = << >>

\* The counter respects the bound, with room for one more before a dispatch.
Bounded ==
  proc = "scheduling" =>
    /\ active <= Concurrency
    /\ at = "dispatching" => active < Concurrency
    /\ at = "returned" => active = 0

\* Some exclusive unit is dispatched and its event not yet received.
ExclusiveOut ==
  \/ \E u \in Workers : u \in Exclusive
  \/ \E i \in DOMAIN events : events[i].exclusive

\* An outstanding exclusive unit is the only one, and the main loop knows.
Isolated ==
  proc = "scheduling" /\ ExclusiveOut => activeExclusive /\ active = 1

\* What is about to be dispatched is ready: shared units while no exclusive one
\* is out, or one exclusive unit while nothing is active.
Dispatchable ==
  proc = "scheduling" /\ at = "dispatching" =>
    /\ \A u \in todo : ready(u)
    /\ \/ todo \cap Exclusive = {} /\ ~activeExclusive
       \/ active = 0 /\ \A u, v \in todo : u = v

\* What a worker runs is durably running, and what it needs durably completed.
WorkersDurable ==
  \A u \in Workers : /\ status[u] = "running"
                     /\ \A v \in Needs[u] : status[v] = "completed"

\* The units the main loop or recovery goes through still have the status they
\* were listed with.
Listed ==
  /\ proc = "scheduling" /\ at = "resolving" => \A u \in todo : status[u] = "blocked"
  /\ proc = "recovering" => \A u \in todo : status[u] = "uncertain"

IndInv ==
  /\ TypeOK /\ Counted /\ Bounded /\ Isolated /\ Dispatchable
  /\ WorkersDurable /\ Listed /\ ParentGated

LEMMA WorkersFinite == IsFiniteSet(Workers) /\ Cardinality(Workers) \in Nat
  <1>1. Workers \subseteq Units
    BY DEF Workers
  <1> QED BY <1>1, SchedulerAssumption, FS_Subset, FS_CardinalityType

LEMMA WorkerStarts ==
  ASSUME TypeOK, NEW u \in Units, worker[u] = "none",
         worker' = [worker EXCEPT ![u] = "running"]
  PROVE  /\ Workers' = Workers \cup {u}
         /\ Cardinality(Workers') = Cardinality(Workers) + 1
  <1>1. Workers' = Workers \cup {u} /\ u \notin Workers
    BY DEF Workers, TypeOK
  <1> QED BY <1>1, WorkersFinite, FS_AddElement

LEMMA WorkerEnds ==
  ASSUME TypeOK, NEW u \in Units, worker[u] # "none",
         worker' = [worker EXCEPT ![u] = "none"]
  PROVE  /\ Workers' = Workers \ {u}
         /\ Cardinality(Workers') = Cardinality(Workers) - 1
  <1>1. Workers' = Workers \ {u} /\ u \in Workers
    BY DEF Workers, TypeOK
  <1> QED BY <1>1, WorkersFinite, FS_RemoveElement

EventType == [unit : Units, outcome : UnitOutcomes, exclusive : BOOLEAN]

LEMMA ReceiveOne ==
  ASSUME events \in Seq(EventType), NEW i \in DOMAIN events, Receive(i)
  PROVE  /\ events' \in Seq(EventType)
         /\ Len(events') = Len(events) - 1
         /\ \A j \in DOMAIN events' : \E k \in DOMAIN events : events'[j] = events[k]
  BY DEF Receive

LEMMA AppendOne ==
  ASSUME events \in Seq(EventType), NEW u \in Units, NEW outcome \in UnitOutcomes,
         events' = Append(events, Event(u, outcome))
  PROVE  /\ events' \in Seq(EventType)
         /\ Len(events') = Len(events) + 1
         /\ \A j \in DOMAIN events' :
              \/ j \in DOMAIN events /\ events'[j] = events[j]
              \/ events'[j] = Event(u, outcome)
  <1>1. Event(u, outcome) \in EventType
    BY DEF Event, EventType
  <1> DEFINE e == Event(u, outcome)
  <1> HIDE DEF e
  <1>2. events' = Append(events, e) /\ e \in EventType
    BY <1>1 DEF e
  <1>3. events' \in Seq(EventType) /\ Len(events') = Len(events) + 1
    BY <1>2
  <1>4. \A j \in DOMAIN events' :
          \/ j \in DOMAIN events /\ events'[j] = events[j]
          \/ events'[j] = e
    BY <1>2
  <1> QED BY <1>3, <1>4 DEF e

-----------------------------------------------------------------------------
(* The main loop preserves the invariant.                                   *)

LEMMA TopStep ==
  ASSUME IndInv, Top
  PROVE  IndInv'
  <1>1. TypeOK'
    BY DEF IndInv, TypeOK, storeVars, loopVars, WorkUnitStates, Top
  <1>2. Counted'
    BY DEF IndInv, Counted, Workers, loopVars, Top
  <1>3. Bounded'
    BY DEF IndInv, TypeOK, Bounded, loopVars, Top
  <1>4. Isolated'
    BY DEF IndInv, Isolated, ExclusiveOut, Workers, loopVars, Top
  <1>5. Dispatchable'
    BY DEF IndInv, Dispatchable, ready, loopVars, storeVars, Top
  <1>6. WorkersDurable'
    BY DEF IndInv, WorkersDurable, Workers, storeVars, Top
  <1>7. Listed'
    BY DEF IndInv, Listed, loopVars, storeVars, Top
  <1>8. ParentGated'
    BY DEF IndInv, ParentGated, openUnits, storeVars, Top
  <1> QED BY <1>1, <1>2, <1>3, <1>4, <1>5, <1>6, <1>7, <1>8 DEF IndInv

LEMMA StoreFailsStep ==
  ASSUME IndInv, StoreFails
  PROVE  IndInv'
  BY DEF IndInv, TypeOK, Counted, Bounded, ExclusiveOut, Isolated,
     Dispatchable, WorkersDurable, Listed, ParentGated, Workers, ready,
     ReadyWorkUnits, openUnits, storeVars, loopVars, StoreFails

LEMMA ResolveBlockedStep ==
  ASSUME IndInv, NEW u \in Units, ResolveBlocked(u)
  PROVE  IndInv'
  <1>1. TypeOK'
    BY DEF IndInv, TypeOK, ReadyWorkUnits, WorkUnitStates, First, storeVars, ResolveBlocked
  <1>2. Counted'
    BY DEF IndInv, Counted, Workers, ResolveBlocked
  <1>3. Bounded'
    BY SchedulerAssumption DEF IndInv, TypeOK, Bounded, mayFill, ResolveBlocked
  <1>4. Isolated'
    BY DEF IndInv, Isolated, ExclusiveOut, Workers, ResolveBlocked
  <1>5. Dispatchable'
    BY DEF IndInv, TypeOK, Dispatchable, ReadyWorkUnits, ready, First, mayFill,
           storeVars, ResolveBlocked
  <1>6. WorkersDurable'
    BY SchedulerAssumption DEF IndInv, TypeOK, WorkersDurable, Listed, Dispatchable,
           ready, Workers, First, ResolveBlocked
  <1>7. Listed'
    BY DEF IndInv, TypeOK, Listed, First, storeVars, ResolveBlocked
  <1>8. ParentGated'
    BY DEF ParentGated, ResolveBlocked
  <1> QED BY <1>1, <1>2, <1>3, <1>4, <1>5, <1>6, <1>7, <1>8 DEF IndInv

LEMMA ReadReadyStep ==
  ASSUME IndInv, ReadReady
  PROVE  IndInv'
  <1>1. TypeOK'
    BY DEF IndInv, TypeOK, ReadyWorkUnits, WorkUnitStates, First, storeVars, ReadReady
  <1>2. Counted'
    BY DEF IndInv, Counted, Workers, ReadReady
  <1>3. Bounded'
    BY SchedulerAssumption DEF IndInv, TypeOK, Bounded, mayFill, ReadReady
  <1>4. Isolated'
    BY DEF IndInv, Isolated, ExclusiveOut, Workers, ReadReady
  <1>5. Dispatchable'
    BY DEF IndInv, TypeOK, Dispatchable, ReadyWorkUnits, ready, First, mayFill,
           storeVars, ReadReady
  <1>6. WorkersDurable'
    BY DEF IndInv, TypeOK, WorkersDurable, Listed, Dispatchable, ready, Workers, First,
           storeVars, ReadReady
  <1>7. Listed'
    BY DEF IndInv, TypeOK, Listed, First, storeVars, ReadReady
  <1>8. ParentGated'
    BY DEF ParentGated, ReadReady
  <1> QED BY <1>1, <1>2, <1>3, <1>4, <1>5, <1>6, <1>7, <1>8 DEF IndInv

LEMMA DispatchFailsStep ==
  ASSUME IndInv, NEW u \in Units, DispatchFails(u)
  PROVE  IndInv'
  <1>1. TypeOK'
    BY DEF IndInv, TypeOK, ReadyWorkUnits, WorkUnitStates, First, storeVars, DispatchFails
  <1>2. Counted'
    BY DEF IndInv, Counted, Workers, DispatchFails
  <1>3. Bounded'
    BY SchedulerAssumption DEF IndInv, TypeOK, Bounded, mayFill, DispatchFails
  <1>4. Isolated'
    BY DEF IndInv, Isolated, ExclusiveOut, Workers, DispatchFails
  <1>5. Dispatchable'
    BY DEF IndInv, TypeOK, Dispatchable, ReadyWorkUnits, ready, First, mayFill,
           storeVars, DispatchFails
  <1>6. WorkersDurable'
    BY SchedulerAssumption DEF IndInv, TypeOK, WorkersDurable, Listed, Dispatchable,
           ready, Workers, First, DispatchFails
  <1>7. Listed'
    BY DEF IndInv, TypeOK, Listed, First, storeVars, DispatchFails
  <1>8. ParentGated'
    BY DEF ParentGated, DispatchFails
  <1> QED BY <1>1, <1>2, <1>3, <1>4, <1>5, <1>6, <1>7, <1>8 DEF IndInv

LEMMA DispatchStep ==
  ASSUME IndInv, NEW u \in Units, Dispatch(u)
  PROVE  IndInv'
  <1>1. u \in todo /\ ready(u) /\ worker[u] = "none"
    BY DEF IndInv, TypeOK, Dispatch, First, Dispatchable, WorkersDurable, Workers,
           ready
  <1>2. /\ Workers' = Workers \cup {u}
        /\ Cardinality(Workers') = Cardinality(Workers) + 1
    BY <1>1, WorkerStarts DEF IndInv, Dispatch
  <1>3. TypeOK'
    BY DEF IndInv, TypeOK, WorkUnitStates, Dispatch
  <1>4. Counted'
    BY <1>2, WorkersFinite DEF IndInv, TypeOK, Counted, Dispatch
  <1>5. Bounded'
    BY SchedulerAssumption DEF IndInv, TypeOK, Bounded, Dispatch, fillEnds
  <1>6. ~ExclusiveOut
    BY <1>1 DEF IndInv, TypeOK, Isolated, Dispatchable, Dispatch, ExclusiveOut
  <1>7. Isolated'
    <2> SUFFICES ASSUME ExclusiveOut' PROVE activeExclusive' /\ active' = 1
      BY DEF Isolated
    <2>1. u \in Exclusive
      BY <1>2, <1>6 DEF ExclusiveOut, Dispatch
    <2>2. active = 0
      BY <1>1, <2>1 DEF IndInv, Dispatchable, Dispatch
    <2>3. active' = 1
      BY <2>2 DEF Dispatch
    <2>4. activeExclusive' = (activeExclusive \/ u \in Exclusive)
      BY DEF Dispatch
    <2> QED BY <2>1, <2>3, <2>4
  <1>8. Dispatchable'
    BY <1>1 DEF IndInv, TypeOK, Dispatchable, Dispatch, fillEnds, ready
  <1>9. WorkersDurable'
    BY <1>1, <1>2 DEF IndInv, TypeOK, WorkersDurable, Dispatch, ready
  <1>10. Listed' /\ ParentGated'
    BY DEF IndInv, Listed, ParentGated, Dispatch
  <1> QED BY <1>3, <1>4, <1>5, <1>7, <1>8, <1>9, <1>10 DEF IndInv

LEMMA SettleStep ==
  ASSUME IndInv, Settle
  PROVE  IndInv'
  <1>0. PICK i \in DOMAIN events :
        /\ Receive(i)
        /\ activeExclusive' = (activeExclusive /\ ~events[i].exclusive)
        /\ stop' = (stop \/ events[i].outcome # "completed")
    BY DEF Settle
  <1>1. /\ events' \in Seq(EventType)
        /\ Len(events') = Len(events) - 1
        /\ \A j \in DOMAIN events' : \E k \in DOMAIN events : events'[j] = events[k]
    BY <1>0, ReceiveOne DEF IndInv, TypeOK, EventType
  <1>2. Workers' = Workers
    BY DEF Settle, Workers
  <1>3. active \in Nat \ {0}
    BY WorkersFinite DEF IndInv, TypeOK, Counted, Settle
  <1>4. TypeOK'
    BY <1>0, <1>1, <1>3 DEF IndInv, TypeOK, EventType, storeVars, Settle
  <1>5. Counted'
    BY <1>1, <1>2, <1>3, WorkersFinite DEF IndInv, TypeOK, Counted, Settle
  <1>6. Bounded'
    BY <1>3, SchedulerAssumption DEF IndInv, Bounded, Settle
  <1>7. Isolated'
    <2> SUFFICES ASSUME ExclusiveOut' PROVE FALSE
      BY DEF Isolated
    <2>0. ExclusiveOut
      BY <1>1, <1>2 DEF ExclusiveOut
    <2>1. active = 1
      BY <2>0 DEF IndInv, Isolated, Settle
    <2>2. Len(events) = 1 /\ Cardinality(Workers) = 0
      <3>1. Len(events) \in Nat \ {0}
        BY DEF IndInv, TypeOK
      <3>2. active = Cardinality(Workers) + Len(events)
        BY DEF IndInv, Counted, Settle
      <3> QED BY <2>1, <3>1, <3>2, WorkersFinite
    <2>3. Workers = {} /\ DOMAIN events' = {}
      BY <1>1, <2>2, WorkersFinite, FS_EmptySet
    <2> QED BY <1>2, <2>3 DEF ExclusiveOut
  <1>8. Dispatchable' /\ WorkersDurable' /\ Listed' /\ ParentGated'
    BY <1>2 DEF IndInv, Dispatchable, WorkersDurable, Listed, ParentGated,
                storeVars, Settle
  <1> QED BY <1>4, <1>5, <1>6, <1>7, <1>8 DEF IndInv

LEMMA DrainStep ==
  ASSUME IndInv, Drain
  PROVE  IndInv'
  <1>1. CASE active = 0
    BY <1>1 DEF IndInv, TypeOK, Counted, Bounded, Isolated, ExclusiveOut,
       Dispatchable, WorkersDurable, Workers, Listed, ParentGated, openUnits,
       storeVars, Drain
  <1>2. CASE active > 0
    <2> PICK i \in DOMAIN events : Receive(i)
      BY <1>2 DEF Drain
    <2>1. /\ events' \in Seq(EventType)
          /\ Len(events') = Len(events) - 1
          /\ \A j \in DOMAIN events' : \E k \in DOMAIN events : events'[j] = events[k]
      BY ReceiveOne DEF IndInv, TypeOK, EventType
    <2>2. Workers' = Workers
      BY DEF Drain, Workers
    <2>3. TypeOK'
      BY <1>2, <2>1 DEF IndInv, TypeOK, EventType, storeVars, Drain
    <2>4. Counted'
      BY <1>2, <2>1, <2>2, WorkersFinite DEF IndInv, TypeOK, Counted, Drain
    <2>5. Bounded'
      BY <1>2, SchedulerAssumption DEF IndInv, TypeOK, Bounded, Drain
    <2>6. Isolated'
      <3> SUFFICES ASSUME ExclusiveOut' PROVE FALSE
        BY DEF Isolated
      <3>0. ExclusiveOut
        BY <2>1, <2>2 DEF ExclusiveOut
      <3>1. active = 1
        BY <3>0 DEF IndInv, Isolated, Drain
      <3>2. Len(events) = 1 /\ Cardinality(Workers) = 0
        <4>1. Len(events) \in Nat \ {0}
          BY DEF IndInv, TypeOK
        <4>2. active = Cardinality(Workers) + Len(events)
          BY DEF IndInv, Counted, Drain
        <4> QED BY <3>1, <4>1, <4>2, WorkersFinite
      <3>3. Workers = {} /\ DOMAIN events' = {}
        BY <2>1, <3>2, WorkersFinite, FS_EmptySet
      <3> QED BY <2>2, <3>3 DEF ExclusiveOut
    <2>7. Dispatchable' /\ WorkersDurable' /\ Listed' /\ ParentGated'
      BY <1>2, <2>2 DEF IndInv, Dispatchable, WorkersDurable, Listed, ParentGated,
                        storeVars, Drain
    <2> QED BY <2>3, <2>4, <2>5, <2>6, <2>7 DEF IndInv
  <1> QED BY <1>1, <1>2 DEF IndInv, TypeOK

LEMMA ChainReturnsStep ==
  ASSUME IndInv, ChainReturns
  PROVE  IndInv'
  <1>1. active = 0 /\ Cardinality(Workers) = 0 /\ Len(events) = 0
    BY WorkersFinite DEF IndInv, TypeOK, Counted, Bounded, ChainReturns
  <1>2. Workers' = {} /\ events' = << >>
    <2>1. Workers = {}
      BY <1>1, WorkersFinite, FS_EmptySet
    <2>2. events = << >>
      BY <1>1 DEF IndInv, TypeOK
    <2> QED BY <2>1, <2>2 DEF ChainReturns, Workers
  <1>3. TypeOK' /\ ParentGated'
    BY DEF IndInv, TypeOK, ParentGated, openUnits, gateClosed, storeVars, loopVars,
           ChainReturns
  <1>4. Counted' /\ Bounded' /\ Isolated' /\ Dispatchable' /\ WorkersDurable'
    BY <1>2 DEF Counted, Bounded, Isolated, Dispatchable, WorkersDurable,
                ChainReturns
  <1>5. Listed'
    BY DEF Listed, ChainReturns
  <1> QED BY <1>3, <1>4, <1>5 DEF IndInv

-----------------------------------------------------------------------------
(* The workers preserve the invariant.                                      *)

\* What every end of a worker has in common, whatever its unit's new status.
LEMMA SettledStep ==
  ASSUME IndInv, NEW u \in Units, NEW to \in WorkUnitStates, NEW outcome \in UnitOutcomes,
         to # "none", Settled(u, to, outcome),
         approval' \subseteq Units, pending' \subseteq Units,
         unresolved' \subseteq Units
  PROVE  IndInv'
  <1>1. u \in Workers /\ proc = "scheduling" /\ status[u] = "running"
    BY DEF IndInv, Counted, WorkersDurable, Workers, Settled
  <1>2. /\ Workers' = Workers \ {u}
        /\ Cardinality(Workers') = Cardinality(Workers) - 1
    BY WorkerEnds DEF IndInv, Settled
  <1>3. /\ events' \in Seq(EventType)
        /\ Len(events') = Len(events) + 1
        /\ \A j \in DOMAIN events' :
             \/ j \in DOMAIN events /\ events'[j] = events[j]
             \/ events'[j] = Event(u, outcome)
    BY AppendOne DEF IndInv, TypeOK, EventType, Settled
  <1>4. TypeOK'
    BY <1>3 DEF IndInv, TypeOK, EventType, loopVars, Settled
  <1>5. Counted'
    BY <1>1, <1>2, <1>3, WorkersFinite DEF IndInv, TypeOK, Counted, loopVars,
                                           Settled
  <1>6. Bounded' /\ ParentGated'
    BY <1>1 DEF IndInv, Bounded, ParentGated, loopVars, Settled
  <1>7. Isolated'
    <2> SUFFICES ASSUME ExclusiveOut' PROVE activeExclusive' /\ active' = 1
      BY DEF Isolated
    <2>1. u \in Exclusive => ExclusiveOut
      BY <1>1 DEF ExclusiveOut
    <2>2. ExclusiveOut
      <3>1. CASE \E w \in Workers' : w \in Exclusive
        BY <1>2, <3>1 DEF ExclusiveOut
      <3>2. CASE \E j \in DOMAIN events' : events'[j].exclusive
        <4> PICK j \in DOMAIN events' : events'[j].exclusive
          BY <3>2
        <4>1. CASE j \in DOMAIN events /\ events'[j] = events[j]
          BY <4>1 DEF ExclusiveOut
        <4>2. CASE events'[j] = Event(u, outcome)
          <5>1. Event(u, outcome).exclusive
            BY <4>2
          <5> QED BY <2>1, <5>1 DEF Event
        <4> QED BY <1>3, <4>1, <4>2
      <3> QED BY <3>1, <3>2 DEF ExclusiveOut
    <2> QED BY <1>1, <2>2 DEF IndInv, Isolated, loopVars, Settled
  <1>8. Dispatchable' /\ Listed'
    BY <1>1 DEF IndInv, TypeOK, Dispatchable, Listed, ready, loopVars, Settled
  <1>9. WorkersDurable'
    BY <1>1, <1>2 DEF IndInv, TypeOK, WorkersDurable, Settled
  <1> QED BY <1>4, <1>5, <1>6, <1>7, <1>8, <1>9 DEF IndInv

LEMMA SendCanceledStep ==
  ASSUME IndInv, NEW u \in Units, SendCanceled(u)
  PROVE  IndInv'
  <1>1. u \in Workers /\ proc = "scheduling"
    BY DEF IndInv, Counted, Workers, SendCanceled
  <1>2. /\ Workers' = Workers \ {u}
        /\ Cardinality(Workers') = Cardinality(Workers) - 1
    BY WorkerEnds DEF IndInv, SendCanceled
  <1>3. /\ events' \in Seq(EventType)
        /\ Len(events') = Len(events) + 1
        /\ \A j \in DOMAIN events' :
             \/ j \in DOMAIN events /\ events'[j] = events[j]
             \/ events'[j] = Event(u, "canceled")
    <2>1. events' = Append(events, Event(u, "canceled")) /\ "canceled" \in UnitOutcomes
      BY DEF SendCanceled, UnitOutcomes
    <2> QED BY <2>1, AppendOne DEF IndInv, TypeOK, EventType
  <1>4. TypeOK'
    BY <1>3 DEF IndInv, TypeOK, EventType, storeVars, loopVars, SendCanceled
  <1>5. Counted'
    BY <1>1, <1>2, <1>3, WorkersFinite DEF IndInv, TypeOK, Counted, loopVars,
                                           SendCanceled
  <1>6. Bounded' /\ ParentGated' /\ Dispatchable' /\ Listed'
    BY <1>1 DEF IndInv, Bounded, ParentGated, Dispatchable, Listed, ready,
                storeVars, loopVars, SendCanceled
  <1>7. Isolated'
    <2> SUFFICES ASSUME ExclusiveOut' PROVE activeExclusive' /\ active' = 1
      BY DEF Isolated
    <2>1. u \in Exclusive => ExclusiveOut
      BY <1>1 DEF ExclusiveOut
    <2>2. ExclusiveOut
      <3>1. CASE \E w \in Workers' : w \in Exclusive
        BY <1>2, <3>1 DEF ExclusiveOut
      <3>2. CASE \E j \in DOMAIN events' : events'[j].exclusive
        <4> PICK j \in DOMAIN events' : events'[j].exclusive
          BY <3>2
        <4>1. CASE j \in DOMAIN events /\ events'[j] = events[j]
          BY <4>1 DEF ExclusiveOut
        <4>2. CASE events'[j] = Event(u, "canceled")
          <5>1. Event(u, "canceled").exclusive
            BY <4>2
          <5> QED BY <2>1, <5>1 DEF Event
        <4> QED BY <1>3, <4>1, <4>2
      <3> QED BY <3>1, <3>2 DEF ExclusiveOut
    <2> QED BY <1>1, <2>2 DEF IndInv, Isolated, loopVars, SendCanceled
  <1>8. WorkersDurable'
    BY <1>2 DEF IndInv, WorkersDurable, storeVars, SendCanceled
  <1> QED BY <1>4, <1>5, <1>6, <1>7, <1>8 DEF IndInv

LEMMA RecordCanceledOutcomeStep ==
  ASSUME IndInv, NEW u \in Units, RecordCanceledOutcome(u)
  PROVE  IndInv'
  <1>1. Workers' = Workers
    BY DEF IndInv, TypeOK, Workers, RecordCanceledOutcome
  <1>2. TypeOK'
    BY DEF IndInv, TypeOK, storeVars, loopVars, RecordCanceledOutcome
  <1>3. Counted' /\ Bounded' /\ Isolated' /\ Dispatchable' /\ Listed'
    BY <1>1 DEF IndInv, Counted, Bounded, Isolated, ExclusiveOut, Dispatchable,
                Listed, ready, storeVars, loopVars, RecordCanceledOutcome
  <1>4. WorkersDurable' /\ ParentGated'
    BY <1>1 DEF IndInv, WorkersDurable, ParentGated, openUnits, storeVars,
                RecordCanceledOutcome
  <1> QED BY <1>2, <1>3, <1>4 DEF IndInv

LEMMA WorkStep ==
  ASSUME IndInv, NEW u \in Units, Work(u)
  PROVE  IndInv'
  <1>0. /\ approval \subseteq Units /\ pending \subseteq Units
        /\ unresolved \subseteq Units
    BY DEF IndInv, TypeOK
  <1>1. CASE UnitCompletes(u)
    <2>1. /\ approval' \subseteq Units /\ pending' \subseteq Units
          /\ unresolved' \subseteq Units
      BY <1>0, <1>1 DEF UnitCompletes
    <2>2. Settled(u, "completed", "completed")
      BY <1>1 DEF UnitCompletes
    <2>3. "completed" \in WorkUnitStates \ {"none"} /\ "completed" \in UnitOutcomes
      BY DEF WorkUnitStates, UnitOutcomes
    <2> QED BY <2>1, <2>2, <2>3, SettledStep
  <1>2. CASE UnitFails(u)
    <2>1. /\ approval' \subseteq Units /\ pending' \subseteq Units
          /\ unresolved' \subseteq Units
      BY <1>0, <1>2 DEF UnitFails
    <2>2. Settled(u, "failed", "failed")
      BY <1>2 DEF UnitFails
    <2>3. "failed" \in WorkUnitStates \ {"none"} /\ "failed" \in UnitOutcomes
      BY DEF WorkUnitStates, UnitOutcomes
    <2> QED BY <2>1, <2>2, <2>3, SettledStep
  <1>3. CASE UnitBlocks(u)
    <2>1. /\ approval' \subseteq Units /\ pending' \subseteq Units
          /\ unresolved' \subseteq Units
      BY <1>0, <1>3 DEF UnitBlocks
    <2>2. Settled(u, "blocked", "blocked")
      BY <1>3 DEF UnitBlocks
    <2>3. "blocked" \in WorkUnitStates \ {"none"} /\ "blocked" \in UnitOutcomes
      BY DEF WorkUnitStates, UnitOutcomes
    <2> QED BY <2>1, <2>2, <2>3, SettledStep
  <1>4. CASE UnitUncertain(u)
    <2>1. /\ approval' \subseteq Units /\ pending' \subseteq Units
          /\ unresolved' \subseteq Units
      BY <1>0, <1>4 DEF UnitUncertain
    <2>2. Settled(u, "uncertain", "uncertain")
      BY <1>4 DEF UnitUncertain
    <2>3. "uncertain" \in WorkUnitStates \ {"none"} /\ "uncertain" \in UnitOutcomes
      BY DEF WorkUnitStates, UnitOutcomes
    <2> QED BY <2>1, <2>2, <2>3, SettledStep
  <1>5. CASE UnitInterrupted(u)
    <2>1. /\ approval' \subseteq Units /\ pending' \subseteq Units
          /\ unresolved' \subseteq Units
      BY <1>0, <1>5 DEF UnitInterrupted
    <2>2. Settled(u, "running", "interrupted")
      BY <1>5 DEF UnitInterrupted
    <2>3. "running" \in WorkUnitStates \ {"none"} /\ "interrupted" \in UnitOutcomes
      BY DEF WorkUnitStates, UnitOutcomes
    <2> QED BY <2>1, <2>2, <2>3, SettledStep
  <1> QED BY <1>1, <1>2, <1>3, <1>4, <1>5, RecordCanceledOutcomeStep,
             SendCanceledStep DEF Work

-----------------------------------------------------------------------------
(* So do the commands, the operator and process death.                      *)

\* Outside RunAll nothing is outstanding.
LEMMA OutsideRunAll ==
  ASSUME TypeOK', proc' # "scheduling", Workers' = {}, events' = << >>,
         Listed', ParentGated'
  PROVE  IndInv'
  BY DEF IndInv, Counted, Bounded, Isolated, Dispatchable, WorkersDurable

LEMMA CommandStep ==
  ASSUME IndInv, Command
  PROVE  IndInv'
  <1>1. proc # "scheduling" /\ Workers = {} /\ events = << >>
    BY DEF IndInv, Counted, Command, CreateWorkUnit, DefinitionsFail, RunAll,
           ResumeChain, ReconcileUncertain, RecoveryDone, ResumeParent,
           FinalizeTask
  <1>2. Workers' = {} /\ events' = << >>
    BY <1>1 DEF Workers, Command, CreateWorkUnit, DefinitionsFail, RunAll,
           ResumeChain, ReconcileUncertain, RecoveryDone, ResumeParent,
           FinalizeTask
  <1>3. CASE RunAll
    <2>1. TypeOK'
      BY <1>3 DEF IndInv, TypeOK, storeVars, RunAll
    <2>2. Counted'
      BY <1>2, <1>3, FS_EmptySet DEF Counted, RunAll
    <2>3. Bounded' /\ Isolated' /\ Dispatchable' /\ WorkersDurable' /\ Listed'
      BY <1>2, <1>3, SchedulerAssumption DEF Bounded, Isolated, ExclusiveOut,
         Dispatchable, WorkersDurable, Listed, RunAll
    <2>4. ParentGated'
      BY <1>3 DEF ParentGated, RunAll
    <2> QED BY <2>1, <2>2, <2>3, <2>4 DEF IndInv
  <1>4. CASE CreateWorkUnit
    BY <1>2, <1>4, OutsideRunAll DEF IndInv, TypeOK, WorkUnitStates, Listed,
       ParentGated, loopVars, CreateWorkUnit
  <1>5. CASE DefinitionsFail \/ RecoveryDone \/ ResumeParent \/ FinalizeTask
    <2>a. restarts' \in Nat
      BY <1>5 DEF IndInv, TypeOK, DefinitionsFail, RecoveryDone, ResumeParent,
         FinalizeTask
    <2>b. ctxDone' \in BOOLEAN
      BY <1>5, Zenon DEF IndInv, TypeOK, DefinitionsFail, RecoveryDone,
         ResumeParent, FinalizeTask
    <2>1. TypeOK'
      BY <1>5, <2>a, <2>b DEF IndInv, TypeOK, storeVars, loopVars, DefinitionsFail,
         RecoveryDone, ResumeParent, FinalizeTask
    <2>2. Listed' /\ ParentGated'
      BY <1>5 DEF Listed, ParentGated, openUnits, gateClosed, storeVars,
         DefinitionsFail, RecoveryDone, ResumeParent, FinalizeTask
    <2>3. proc' # "scheduling"
      BY <1>5 DEF DefinitionsFail, RecoveryDone, ResumeParent, FinalizeTask
    <2> QED BY <1>2, <2>1, <2>2, <2>3, OutsideRunAll
  <1>6. CASE ResumeChain
    <2>a. restarts' \in Nat /\ status' \in [Units -> WorkUnitStates]
      BY <1>6 DEF IndInv, TypeOK, WorkUnitStates, ResumeChain
    <2>b. unresolved' \subseteq Units /\ todo' \subseteq Units
      BY <1>6 DEF IndInv, TypeOK, ResumeChain
    <2>c. ctxDone' \in BOOLEAN
      BY <1>6 DEF ResumeChain
    <2>1. TypeOK'
      BY <1>6, <2>a, <2>b, <2>c DEF IndInv, TypeOK, ResumeChain
    <2>2. Listed' /\ ParentGated'
      BY <1>6 DEF IndInv, TypeOK, Listed, ParentGated, ResumeChain
    <2> QED BY <1>2, <1>6, <2>1, <2>2, OutsideRunAll DEF ResumeChain
  <1>7. ASSUME NEW u \in Units, ReconcileUncertain(u)
        PROVE  IndInv'
    BY <1>2, <1>7, OutsideRunAll DEF IndInv, TypeOK, WorkUnitStates, First, Listed,
       ParentGated, ReconcileUncertain
  <1> QED BY <1>3, <1>4, <1>5, <1>6, <1>7 DEF Command

LEMMA DieStep ==
  ASSUME IndInv, Die
  PROVE  IndInv'
  <1>1. Workers' = {} /\ events' = << >> /\ proc' # "scheduling"
    BY DEF Workers, Die
  <1>2. worker' \in [Units -> {"none", "running", "canceled"}]
    BY DEF Die
  <1>3. TypeOK'
    <2>1. /\ active' \in Nat /\ activeExclusive' \in BOOLEAN /\ stop' \in BOOLEAN
          /\ canceledOutcome' \in BOOLEAN /\ todo' \subseteq Units
      BY DEF Die
    <2>2. events' \in Seq([unit : Units, outcome : UnitOutcomes,
                           exclusive : BOOLEAN])
      BY DEF Die
    <2> QED BY <1>2, <2>1, <2>2 DEF IndInv, TypeOK, storeVars, Die
  <1>4. Listed' /\ ParentGated'
    BY DEF Listed, ParentGated, Die
  <1> QED BY <1>1, <1>3, <1>4, OutsideRunAll

LEMMA EnvironmentStep ==
  ASSUME IndInv, Environment
  PROVE  IndInv'
  <1>1. ASSUME NEW u \in Units, ResolveApproval(u)
        PROVE  IndInv'
    BY <1>1 DEF IndInv, TypeOK, Counted, Bounded, Isolated, ExclusiveOut,
       Dispatchable, WorkersDurable, Workers, Listed, ParentGated, openUnits,
       ready, loopVars, ResolveApproval
  <1>2. CASE CancelContext
    BY <1>2 DEF IndInv, TypeOK, Counted, Bounded, Isolated, ExclusiveOut,
       Dispatchable, WorkersDurable, Workers, Listed, ParentGated, openUnits,
       ready, storeVars, loopVars, CancelContext
  <1> QED BY <1>1, <1>2, DieStep DEF Environment

-----------------------------------------------------------------------------
LEMMA InitHolds == Init => IndInv
  <1> SUFFICES ASSUME Init PROVE IndInv
    OBVIOUS
  <1>1. Workers = {}
    BY DEF Init, Workers
  <1>2. TypeOK
    <2>1. /\ status \in [Units -> WorkUnitStates]
          /\ worker \in [Units -> {"none", "running", "canceled"}]
      BY DEF Init, WorkUnitStates
    <2>2. /\ active \in Nat /\ activeExclusive \in BOOLEAN /\ stop \in BOOLEAN
          /\ canceledOutcome \in BOOLEAN /\ ctxDone \in BOOLEAN
      BY DEF Init
    <2>3. events \in Seq([unit : Units, outcome : UnitOutcomes,
                          exclusive : BOOLEAN])
      BY DEF Init
    <2> QED BY <2>1, <2>2, <2>3 DEF Init, TypeOK
  <1> QED BY <1>1, <1>2 DEF Init, IndInv, Counted, Bounded, Isolated,
             Dispatchable, WorkersDurable, Listed, ParentGated

LEMMA StepHolds == IndInv /\ [Next]_vars => IndInv'
  <1> SUFFICES ASSUME IndInv, [Next]_vars PROVE IndInv'
    OBVIOUS
  <1>1. CASE Schedule
    BY <1>1, TopStep, StoreFailsStep, ReadReadyStep, SettleStep, DrainStep,
       ChainReturnsStep, ResolveBlockedStep, DispatchStep, DispatchFailsStep
       DEF Schedule
  <1>2. CASE UNCHANGED vars
    BY <1>2 DEF IndInv, TypeOK, Counted, Bounded, Isolated, ExclusiveOut,
       Dispatchable, WorkersDurable, Workers, Listed, ParentGated, openUnits,
       ready, vars, storeVars, loopVars
  <1> QED BY <1>1, <1>2, WorkStep, CommandStep, EnvironmentStep DEF Next

\* The counting invariant of the scheduler holds in every reachable state.
THEOREM SchedulerInvariant == Spec => []IndInv
  BY InitHolds, StepHolds, PTL DEF Spec

\* Every variable keeps its type.
THEOREM SchedulerTypes == Spec => []TypeOK
  <1>1. IndInv => TypeOK
    BY DEF IndInv
  <1> QED BY <1>1, SchedulerInvariant, PTL

\* An exclusive unit never overlaps another one: the isolation contract of
\* scheduler.go for every unit graph, bound and interleaving.
THEOREM ExclusiveAloneHolds == Spec => []ExclusiveAlone
  <1>1. IndInv => ExclusiveAlone
    <2> SUFFICES ASSUME IndInv, NEW u \in Running \cap Exclusive
                 PROVE  Running = {u}
      BY DEF ExclusiveAlone
    <2>1. u \in Workers /\ Running \subseteq Workers
      BY DEF Running, Workers
    <2>2. proc = "scheduling" /\ active = 1
      BY <2>1 DEF IndInv, Counted, Isolated, ExclusiveOut
    <2>3. Cardinality(Workers) <= 1
      BY <2>2, WorkersFinite DEF IndInv, TypeOK, Counted
    <2>4. Cardinality(Workers \ {u}) = Cardinality(Workers) - 1
      BY <2>1, WorkersFinite, FS_RemoveElement
    <2>5. IsFiniteSet(Workers \ {u}) /\ Cardinality(Workers \ {u}) \in Nat
      BY WorkersFinite, FS_Subset, FS_CardinalityType
    <2>6. Workers \ {u} = {}
      BY <2>3, <2>4, <2>5, WorkersFinite, FS_EmptySet
    <2> QED BY <2>1, <2>6
  <1> QED BY <1>1, SchedulerInvariant, PTL

\* The unit loops never exceed the operator's bound.
THEOREM WithinConcurrencyHolds == Spec => []WithinConcurrency
  <1>1. IndInv => WithinConcurrency
    <2> SUFFICES ASSUME IndInv PROVE Cardinality(Running) <= Concurrency
      BY DEF WithinConcurrency
    <2>1. Running \subseteq Workers
      BY DEF Running, Workers
    <2>2. Cardinality(Running) <= Cardinality(Workers) /\ Cardinality(Running) \in Nat
      BY <2>1, WorkersFinite, FS_Subset, FS_CardinalityType
    <2>3. CASE proc = "scheduling"
      BY <2>2, <2>3, WorkersFinite, SchedulerAssumption
         DEF IndInv, TypeOK, Counted, Bounded
    <2>4. CASE proc # "scheduling"
      <3>1. Running = {}
        BY <2>1, <2>4 DEF IndInv, Counted
      <3> QED BY <3>1, FS_EmptySet, SchedulerAssumption
    <2> QED BY <2>3, <2>4
  <1> QED BY <1>1, SchedulerInvariant, PTL

\* A unit runs only when everything it needs is durably completed.
THEOREM NeedsCompletedHolds == Spec => []NeedsCompleted
  <1>1. IndInv => NeedsCompleted
    BY DEF IndInv, NeedsCompleted, WorkersDurable, Workers, Running
  <1> QED BY <1>1, SchedulerInvariant, PTL

\* No worker survives RunAll.
THEOREM NoWorkerLeftHolds == Spec => []NoWorkerLeft
  <1>1. IndInv => NoWorkerLeft
    <2> SUFFICES ASSUME IndInv, at = "returned" \/ proc # "scheduling"
                 PROVE  Workers = {} /\ events = << >>
      BY DEF NoWorkerLeft
    <2>1. CASE proc # "scheduling"
      BY <2>1 DEF IndInv, Counted
    <2>2. CASE proc = "scheduling"
      <3>1. Cardinality(Workers) = 0 /\ Len(events) = 0
        BY <2>2, WorkersFinite DEF IndInv, TypeOK, Counted, Bounded
      <3> QED BY <3>1, WorkersFinite, FS_EmptySet DEF IndInv, TypeOK
    <2> QED BY <2>1, <2>2
  <1> QED BY <1>1, SchedulerInvariant, PTL

\* The parent never runs around an open unit.
THEOREM ParentGatedHolds == Spec => []ParentGated
  <1>1. IndInv => ParentGated
    BY DEF IndInv
  <1> QED BY <1>1, SchedulerInvariant, PTL

=============================================================================
